----------------------------- MODULE Supervisor -----------------------------
(***************************************************************************)
(* Who starts and who ends the core process: the UI processes (main.go),   *)
(* the launcher in each (core/launcher.go), the core processes, and the    *)
(* pipe name they meet on (IPC/pipe_server.rs).                            *)
(*                                                                         *)
(* A core has at most one pipe instance to offer and serves one client on  *)
(* it; several cores may offer instances of the same name.  Dialling takes *)
(* any open instance; if instances exist but none is open it is retried    *)
(* until a timeout, and if none exists it fails at once (go-winio).        *)
(*                                                                         *)
(* inst: "none"  no instance yet                                           *)
(*       "gap"   the last one closed, the next one not created             *)
(*       "open"  created and not dialled                                   *)
(*       "taken" a client holds the other end                              *)
(*       "ended" the client has closed, the server has not noticed         *)
(***************************************************************************)
EXTENDS Naturals, FiniteSets

CONSTANTS
  UIs,           \* UI processes (slots: a UI that is off may start again)
  Cores,         \* core processes (slots as well)
  None,
  SecondUi,      \* the user may start a UI while another one is on
  MayRestart,    \* the restart entry of the exit menu is used
  MayVanish,     \* a UI may be killed, its console closed, or panic
  CoreMayDie,    \* a core may end by itself
  GapVisible     \* a dial may fall between two instances of a core

ASSUME NoneAssumption == None \notin Cores
ASSUME SwitchAssumption ==
  {SecondUi, MayRestart, MayVanish, CoreMayDie, GapVisible} \subseteq BOOLEAN

VARIABLES
  ui,     \* where main.go is in each UI process
  conn,   \* the core whose instance a UI has open
  owned,  \* Launcher.cmd while Launcher.owned is true
  alive,  \* the core processes that exist
  inst,   \* the pipe instance of each core
  leaked, \* cores that left an instance unclosed (connect_pipe failed)
  past    \* what happened so far that is not one UI after the other

vars == <<ui, conn, owned, alive, inst, leaked, past>>

on(u) == ui[u] # "off"

Init == /\ ui = [u \in UIs |-> "off"]
        /\ conn = [u \in UIs |-> None]
        /\ owned = [u \in UIs |-> None]
        /\ alive = {}
        /\ inst = [c \in Cores |-> "none"]
        /\ leaked = {} /\ past = {}

-----------------------------------------------------------------------------
(* The pipe name.                                                          *)
Open == {c \in Cores : inst[c] = "open"}

(* DialPipe connects u and takes it to `at`.                               *)
Dials(u, at) == \E c \in Open :
                  /\ conn' = [conn EXCEPT ![u] = c]
                  /\ inst' = [inst EXCEPT ![c] = "taken"]
                  /\ ui' = [ui EXCEPT ![u] = at]
                  /\ UNCHANGED <<owned, alive, leaked, past>>

(* DialPipe fails: at once when no instance exists, at the timeout when    *)
(* every one is taken (a server that has lost its client, or is between    *)
(* two instances, is listening again before any of the timeouts).          *)
NotFound == leaked = {} /\ \A c \in Cores : inst[c] \in {"none", "gap"}
AllTaken == \A c \in Cores : inst[c] \in {"none", "taken"}
DialFails == NotFound \/ AllTaken

(* u closes its end and goes on at `at`.                                   *)
Hangup(u, at) ==
  /\ conn' = [conn EXCEPT ![u] = None]
  /\ inst' = [c \in Cores |-> IF conn[u] = c THEN "ended" ELSE inst[c]]
  /\ ui' = [ui EXCEPT ![u] = at]

(* The processes of C are gone, their instances with them.                 *)
Ends(C) ==
  /\ alive' = alive \ C
  /\ inst' = [c \in Cores |-> IF c \in C THEN "none" ELSE inst[c]]
  /\ leaked' = leaked \ C
  /\ conn' = [u \in UIs |-> IF conn[u] \in C THEN None ELSE conn[u]]
  /\ UNCHANGED past

-----------------------------------------------------------------------------
(* main.go and launcher.go, for one UI.                                    *)

(* A slot for a new process: not one whose handle a launcher still holds.  *)
Slots == {c \in Cores \ alive : \A u \in UIs : owned[u] # c}

StartUi(u) == /\ ~on(u)
              /\ SecondUi \/ \A v \in UIs : ~on(v)
              /\ ui' = [ui EXCEPT ![u] = "probe"]
              /\ past' = past \cup (IF \E v \in UIs : on(v) THEN {"second ui"} ELSE {})
              /\ UNCHANGED <<conn, owned, alive, inst, leaked>>

(* Launcher.Start: pipeExists connects ...                                 *)
ProbeFinds(u) == ui[u] = "probe" /\ Dials(u, "probed")

(* ... and closes; owned stays false and the launch is skipped.            *)
ProbeCloses(u) == /\ ui[u] = "probed"
                  /\ Hangup(u, "dial")
                  /\ UNCHANGED <<owned, alive, leaked, past>>

(* pipeExists returned false, whatever the reason: a core is launched.     *)
ProbeFails(u) == /\ ui[u] = "probe" /\ DialFails
                 /\ \E c \in Slots :
                      /\ alive' = alive \cup {c}
                      /\ owned' = [owned EXCEPT ![u] = c]
                 /\ ui' = [ui EXCEPT ![u] = "wait"]
                 /\ UNCHANGED <<conn, inst, leaked, past>>

(* ... or there is no core binary, or it cannot be started: os.Exit.       *)
LaunchFails(u) == /\ ui[u] = "probe" /\ DialFails
                  /\ ui' = [ui EXCEPT ![u] = "off"]
                  /\ UNCHANGED <<conn, owned, alive, inst, leaked, past>>

(* waitForPipe: pipeExists again and again.  Its test of ProcessState      *)
(* never succeeds, as nobody has called Wait: a core that has died is      *)
(* waited for until the deadline.                                          *)
WaitFinds(u) == ui[u] = "wait" /\ Dials(u, "waited")

WaitCloses(u) == /\ ui[u] = "waited"
                 /\ Hangup(u, "dial")
                 /\ UNCHANGED <<owned, alive, leaked, past>>

WaitTimesOut_NoKill(u) == /\ ui[u] = "wait" /\ DialFails
                          /\ owned' = [owned EXCEPT ![u] = None]
                          /\ ui' = [ui EXCEPT ![u] = "off"]
                          /\ UNCHANGED <<conn, alive, inst, leaked, past>>

WaitTimesOut_IfAlive(u) == /\ ui[u] = "wait" /\ DialFails
                           /\ owned[u] \in alive
                           /\ Ends({owned[u]})
                           /\ owned' = [owned EXCEPT ![u] = None]
                           /\ ui' = [ui EXCEPT ![u] = "off"]

(* The deadline: Stop kills the launched core, then os.Exit.               *)
WaitTimesOut(u) == /\ ui[u] = "wait" /\ DialFails
                   /\ Ends({owned[u]})
                   /\ owned' = [owned EXCEPT ![u] = None]
                   /\ ui' = [ui EXCEPT ![u] = "off"]

(* ipc.NewClient.                                                          *)
Connects(u) == ui[u] = "dial" /\ Dials(u, "ping")

(* Giving up while there is a core.                                        *)
GaveUp == past' = past \cup (IF alive = {} THEN {} ELSE {"gave up"})

(* os.Exit(1): the deferred launcher.Stop does not run.                    *)
ConnectFails(u) == /\ ui[u] = "dial" /\ DialFails
                   /\ owned' = [owned EXCEPT ![u] = None]
                   /\ ui' = [ui EXCEPT ![u] = "off"]
                   /\ GaveUp
                   /\ UNCHANGED <<conn, alive, inst, leaked>>

(* Ping is answered.                                                       *)
Pings(u) == /\ ui[u] = "ping" /\ conn[u] # None
            /\ ui' = [ui EXCEPT ![u] = "run"]
            /\ UNCHANGED <<conn, owned, alive, inst, leaked, past>>

(* It is not: the core is gone, does not answer in time or answers with    *)
(* something else.  os.Exit(1) again; the system closes the connection.    *)
PingFails(u) == /\ ui[u] = "ping"
                /\ Hangup(u, "off")
                /\ owned' = [owned EXCEPT ![u] = None]
                /\ GaveUp
                /\ UNCHANGED <<alive, leaked>>

(* The TUI returns; deferred calls run last in, first out: client.Close    *)
(* first, launcher.Stop at the end.                                        *)
Quits(u) == /\ ui[u] = "run"
            /\ Hangup(u, "leaving")
            /\ UNCHANGED <<owned, alive, leaked, past>>

Stops_NoKill(u) == /\ ui[u] = "leaving"
                   /\ owned' = [owned EXCEPT ![u] = None]
                   /\ ui' = [ui EXCEPT ![u] = "off"]
                   /\ UNCHANGED <<conn, alive, inst, leaked, past>>

(* launcher.Stop kills the core it owns.                                   *)
Stops(u) == /\ ui[u] = "leaving"
            /\ Ends({owned[u]})
            /\ owned' = [owned EXCEPT ![u] = None]
            /\ ui' = [ui EXCEPT ![u] = "off"]

Restarts_NoDetach(u) == /\ MayRestart
                        /\ ui[u] = "run"
                        /\ \E v \in UIs :
                             /\ ~on(v)
                             /\ ui' = [ui EXCEPT ![u] = "handover", ![v] = "probe"]
                        /\ past' = past \cup {"restart"}
                        /\ UNCHANGED <<conn, owned, alive, inst, leaked>>

(* Restart: Detach, then a new UI process while the client of this one is  *)
(* still connected.                                                        *)
Restarts(u) == /\ MayRestart
               /\ ui[u] = "run"
               /\ owned' = [owned EXCEPT ![u] = None]
               /\ \E v \in UIs :
                    /\ ~on(v)
                    /\ ui' = [ui EXCEPT ![u] = "handover", ![v] = "probe"]
               /\ past' = past \cup {"restart"}
               /\ UNCHANGED <<conn, alive, inst, leaked>>

(* main returns: client.Close; launcher.Stop owns nothing any more.        *)
HandedOver(u) == /\ ui[u] = "handover"
                 /\ Hangup(u, "off")
                 /\ UNCHANGED <<owned, alive, leaked, past>>

(* The process ends without its deferred calls; the system closes its      *)
(* handles.  Its core is a process of its own and goes on.                 *)
Vanishes(u) == /\ MayVanish
               /\ on(u)
               /\ Hangup(u, "off")
               /\ owned' = [owned EXCEPT ![u] = None]
               /\ past' = past \cup {"vanished"}
               /\ UNCHANGED <<alive, leaked>>

-----------------------------------------------------------------------------
(* The pipe server of one core.                                            *)

(* The next instance, after the last one is closed.                        *)
CreatesPipe(c) == /\ c \in alive /\ inst[c] \in {"none", "gap"}
                  /\ inst' = [inst EXCEPT ![c] = "open"]
                  /\ UNCHANGED <<ui, conn, owned, alive, leaked, past>>

(* read_line returned 0 or an error: disconnect, close, next instance.     *)
Disconnects(c) == /\ inst[c] = "ended"
                  /\ inst' = [inst EXCEPT ![c] = IF GapVisible THEN "gap" ELSE "open"]
                  /\ UNCHANGED <<ui, conn, owned, alive, leaked, past>>

(* The client came and went before ConnectNamedPipe was called: the        *)
(* instance is not closed, a new one is created.                           *)
Leaks(c) == /\ inst[c] = "ended"
            /\ leaked' = leaked \cup {c}
            /\ inst' = [inst EXCEPT ![c] = IF GapVisible THEN "gap" ELSE "open"]
            /\ UNCHANGED <<ui, conn, owned, alive, past>>

Dies(c) == /\ CoreMayDie
           /\ c \in alive
           /\ Ends({c})
           /\ UNCHANGED <<ui, owned>>

-----------------------------------------------------------------------------
Starting(u) == \/ ProbeFinds(u) \/ ProbeCloses(u) \/ ProbeFails(u) \/ LaunchFails(u)
               \/ WaitFinds(u) \/ WaitCloses(u) \/ WaitTimesOut(u)
               \/ Connects(u) \/ ConnectFails(u) \/ Pings(u) \/ PingFails(u)
Leaving(u) == Stops(u) \/ HandedOver(u)

Serving_IgnoresEof(c) == CreatesPipe(c)
Serving(c) == CreatesPipe(c) \/ Disconnects(c) \/ Leaks(c)

Next == \/ \E u \in UIs : \/ StartUi(u) \/ Starting(u) \/ Leaving(u)
                          \/ Quits(u) \/ Restarts(u) \/ Vanishes(u)
        \/ \E c \in Cores : Serving(c) \/ Dies(c)

Spec == Init /\ [][Next]_vars

(* A UI that is starting or leaving goes on: strong fairness, as each of   *)
(* its waits has a deadline that other UIs taking the pipe in turn do not  *)
(* postpone.  The pipe server goes on too; the user owes nothing.          *)
FairSpec == /\ Spec
            /\ \A u \in UIs : SF_vars(Starting(u)) /\ WF_vars(Leaving(u))
            /\ \A c \in Cores : WF_vars(Serving(c))

-----------------------------------------------------------------------------
(* Every UI is at a place of main.go and every core slot is in one state.  *)
TypeOK == /\ ui \in [UIs -> {"off", "probe", "probed", "wait", "waited", "dial",
                             "ping", "run", "leaving", "handover"}]
          /\ conn \in [UIs -> Cores \cup {None}]
          /\ owned \in [UIs -> Cores \cup {None}]
          /\ alive \in SUBSET Cores /\ leaked \in SUBSET alive
          /\ inst \in [Cores -> {"none", "gap", "open", "taken", "ended"}]
          /\ past \in SUBSET {"second ui", "restart", "vanished", "gave up"}

(* A launcher never owns, and so its exit never kills, the core another    *)
(* UI is connected to: in a restart two UIs overlap, and the old one must  *)
(* have detached from the core the new one takes over.                     *)
KillSparesOthers ==
  "second ui" \notin past =>
    \A u, v \in UIs : u # v /\ owned[u] # None => conn[v] # owned[u]

(* Never two cores, capturing twice and writing one file: as long as UIs   *)
(* come one after the other and leave through their menu, whatever dies.   *)
OneCore == past = {} => Cardinality(alive) <= 1

(* "kills it on exit": without a UI there is no core, even if several ran  *)
(* at a time, as long as none restarted, vanished or gave up on a core.    *)
LeavesNoCore == past \subseteq {"second ui"} /\ (\A u \in UIs : ~on(u)) => alive = {}

(* The same, whatever the user chose from the exit menu.                   *)
NoCoreLeftBehind == (\A u \in UIs : ~on(u)) => alive = {}

(* A UI that starts ends up connected or gone; it never hangs.             *)
StartEnds == \A u \in UIs : ui[u] = "probe" ~> ui[u] \in {"run", "off"}

(* A client that has gone is noticed: the core listens again, or is gone.  *)
ListensAgain == \A c \in Cores : inst[c] = "ended" ~> inst[c] = "open" \/ c \notin alive
=============================================================================
