----------------------------- MODULE CoreThreads -----------------------------
(***************************************************************************)
(* The three threads of the Rust core and what they share: the `running`   *)
(* flag, the bounded channel of parsed packets and the published snapshot. *)
(*                                                                         *)
(*   capture  divert/capture.rs: WinDivert recv, parse, try_send           *)
(*   main     main.rs: drain the channel, once a second publish; at the    *)
(*            end join the two others                                      *)
(*   ipc      IPC/pipe_server.rs: one pipe instance, one client at a time  *)
(*                                                                         *)
(* The threads block outside the program: recv until the network brings a  *)
(* packet, ConnectNamedPipe until somebody dials, ReadFile until the       *)
(* client writes or closes, FlushFileBuffers until the client has read.    *)
(* Those waits are what makes stopping hard.  A packet is only counted.    *)
(***************************************************************************)
EXTENDS Naturals

CONSTANT ChanCap    \* bounded(65536)

ASSUME ChanCapAssumption == ChanCap \in Nat \ {0}

VARIABLES
  running,  \* the AtomicBool all three threads read
  cap,      \* where the capture thread is
  queue,    \* packets in the channel
  main,     \* where the main thread is
  second,   \* last_snapshot.elapsed() >= 1s
  ipc,      \* where the pipe server thread is
  client    \* the process at the other end of the pipe instance

capVars == <<cap>>
mainVars == <<main, second>>
ipcVars == <<ipc, client>>
vars == <<running, queue, capVars, mainVars, ipcVars>>

Init == /\ running = TRUE
        /\ cap = "open" /\ queue = 0
        /\ main = "boot" /\ second = FALSE
        /\ ipc = "check" /\ client = "none"

(* The sender lives in the capture thread: the channel is disconnected     *)
(* once that thread has returned.                                          *)
senderDropped == cap = "done"

(* Ctrl+C or Ctrl+Break: the handler clears the flag and returns TRUE, so  *)
(* the default handler does not end the process.                           *)
CtrlC == /\ running
         /\ main # "done"
         /\ running' = FALSE
         /\ UNCHANGED <<queue, capVars, mainVars, ipcVars>>

-----------------------------------------------------------------------------
(* Capture thread.                                                         *)

CapOpen == /\ cap = "open"
           /\ cap' \in {"check", "done"}
           /\ UNCHANGED <<running, queue, mainVars, ipcVars>>

CapCheck == /\ cap = "check"
            /\ cap' = IF running THEN "recv" ELSE "done"
            /\ UNCHANGED <<running, queue, mainVars, ipcVars>>

(* recv returned a packet the parser accepts.                              *)
CapParsed == /\ cap = "recv"
             /\ cap' = "send"
             /\ UNCHANGED <<running, queue, mainVars, ipcVars>>

(* recv returned a packet that is neither TCP nor UDP, or malformed.       *)
CapIgnored == /\ cap = "recv"
              /\ cap' = "check"
              /\ UNCHANGED <<running, queue, mainVars, ipcVars>>

CapRecvFails == /\ cap = "recv"
                /\ cap' = "done"
                /\ UNCHANGED <<running, queue, mainVars, ipcVars>>

CapSend_Blocking == /\ cap = "send"
                    /\ queue < ChanCap
                    /\ queue' = queue + 1
                    /\ cap' = "check"
                    /\ UNCHANGED <<running, mainVars, ipcVars>>

(* try_send never waits: a packet that finds the channel full is dropped.  *)
(* The receiver outlives the capture thread, so Disconnected cannot occur. *)
CapSend == /\ cap = "send"
           /\ queue' = IF queue < ChanCap THEN queue + 1 ELSE queue
           /\ cap' = "check"
           /\ UNCHANGED <<running, mainVars, ipcVars>>

CapRecv == CapParsed \/ CapIgnored \/ CapRecvFails
Capture == CapOpen \/ CapCheck \/ CapRecv \/ CapSend

-----------------------------------------------------------------------------
(* Main thread.                                                            *)

MainBoot == /\ main = "boot"
            /\ main' = "top"
            /\ UNCHANGED <<running, queue, capVars, second, ipcVars>>

MainTop == /\ main = "top"
           /\ main' = IF running THEN "recv" ELSE "stopping"
           /\ UNCHANGED <<running, queue, capVars, second, ipcVars>>

(* recv_timeout: the first packet of a batch ...                           *)
MainFirst == /\ main = "recv"
             /\ queue > 0
             /\ queue' = queue - 1
             /\ main' = "drain"
             /\ UNCHANGED <<running, capVars, second, ipcVars>>

MainTimeout_Skips == /\ main = "recv"
                     /\ queue = 0 /\ ~senderDropped
                     /\ main' = "top"
                     /\ UNCHANGED <<running, queue, capVars, second, ipcVars>>

(* ... or 50 ms without one ...                                            *)
MainTimeout == /\ main = "recv"
               /\ queue = 0 /\ ~senderDropped
               /\ main' = "drain"
               /\ UNCHANGED <<running, queue, capVars, second, ipcVars>>

MainDisconnected_Early == /\ main = "recv"
                          /\ senderDropped
                          /\ main' = "stopping"
                          /\ UNCHANGED <<running, queue, capVars, second, ipcVars>>

MainDisconnected_Ignored == /\ main = "recv"
                            /\ queue = 0 /\ senderDropped
                            /\ main' = "drain"
                            /\ UNCHANGED <<running, queue, capVars, second, ipcVars>>

(* ... or a channel that is empty and will stay so: the loop ends, with    *)
(* running still set.                                                      *)
MainDisconnected == /\ main = "recv"
                    /\ queue = 0 /\ senderDropped
                    /\ main' = "stopping"
                    /\ UNCHANGED <<running, queue, capVars, second, ipcVars>>

(* try_recv until the channel is empty, however long that takes.           *)
MainDrain == /\ main = "drain"
             /\ queue > 0
             /\ queue' = queue - 1
             /\ UNCHANGED <<running, capVars, mainVars, ipcVars>>

MainDrained == /\ main = "drain"
               /\ queue = 0
               /\ main' = "tick"
               /\ UNCHANGED <<running, queue, capVars, second, ipcVars>>

(* The 1 s check: roll over, snapshot, publish, maybe_flush, and only then *)
(* last_snapshot = now.                                                    *)
MainTick == /\ main = "tick"
            /\ second' = FALSE
            /\ main' = "top"
            /\ UNCHANGED <<running, queue, capVars, ipcVars>>

(* flush_now and the last publication, then the joins.                     *)
MainStop == /\ main = "stopping"
            /\ main' = "joinCapture"
            /\ UNCHANGED <<running, queue, capVars, second, ipcVars>>

MainJoinCapture == /\ main = "joinCapture"
                   /\ cap = "done"
                   /\ main' = "joinIpc"
                   /\ UNCHANGED <<running, queue, capVars, second, ipcVars>>

MainJoinIpc == /\ main = "joinIpc"
               /\ ipc = "done"
               /\ main' = "done"
               /\ UNCHANGED <<running, queue, capVars, second, ipcVars>>

Main == \/ MainBoot \/ MainTop \/ MainFirst \/ MainTimeout \/ MainDisconnected
        \/ MainDrain \/ MainDrained \/ MainTick
        \/ MainStop \/ MainJoinCapture \/ MainJoinIpc

SecondPasses == /\ ~second
                /\ second' = TRUE
                /\ UNCHANGED <<running, queue, capVars, main, ipcVars>>

-----------------------------------------------------------------------------
(* Pipe server thread and its client.  client is "none" (nobody at this    *)
(* instance), "idle" (connected), "sent" (a line is on its way), "waiting" *)
(* (the server has it) or "closed" (the handle is closed at that end).     *)

IpcCheck == /\ ipc = "check"
            /\ ipc' = IF running THEN "create" ELSE "done"
            /\ UNCHANGED <<running, queue, capVars, mainVars, client>>

(* CreateNamedPipe; on an error the thread sleeps a second and goes back.  *)
IpcCreate == /\ ipc = "create"
             /\ ipc' \in {"connect", "check"}
             /\ UNCHANGED <<running, queue, capVars, mainVars, client>>

(* From its creation the instance can be dialled.                          *)
ClientDials == /\ ipc = "connect"
               /\ client = "none"
               /\ client' = "idle"
               /\ UNCHANGED <<running, queue, capVars, mainVars, ipc>>

(* ConnectNamedPipe returns when somebody has dialled, who may have gone   *)
(* since; a client already there (ERROR_PIPE_CONNECTED) is as good.        *)
IpcConnected == /\ ipc = "connect"
                /\ client # "none"
                /\ ipc' = "loop"
                /\ UNCHANGED <<running, queue, capVars, mainVars, client>>

(* A client that came and went before ConnectNamedPipe ran (ERROR_NO_DATA):*)
(* the thread goes on to a new instance and never closes this one.         *)
IpcConnectFails == /\ ipc = "connect"
                   /\ client = "closed"
                   /\ ipc' = "check"
                   /\ client' = "none"
                   /\ UNCHANGED <<running, queue, capVars, mainVars>>

(* The flag is read between two requests, never during a wait.             *)
IpcLoop == /\ ipc = "loop"
           /\ ipc' = IF running THEN "read" ELSE "close"
           /\ UNCHANGED <<running, queue, capVars, mainVars, client>>

ClientSends == /\ client = "idle"
               /\ client' = "sent"
               /\ UNCHANGED <<running, queue, capVars, mainVars, ipc>>

IpcRead == /\ ipc = "read"
           /\ client = "sent"
           /\ \/ ipc' = "reply" /\ client' = "waiting"
              \/ ipc' = "loop" /\ client' = "idle"      \* an empty line
           /\ UNCHANGED <<running, queue, capVars, mainVars>>

(* End of file or a broken pipe while reading or replying.                 *)
IpcClientGone == /\ ipc \in {"read", "reply"}
                 /\ client = "closed"
                 /\ ipc' = "close"
                 /\ UNCHANGED <<running, queue, capVars, mainVars, client>>

(* write_all and flush: FlushFileBuffers returns once the client has read. *)
IpcReply == /\ ipc = "reply"
            /\ client = "waiting"
            /\ ipc' = "loop"
            /\ client' = "idle"
            /\ UNCHANGED <<running, queue, capVars, mainVars>>

(* DisconnectNamedPipe and CloseHandle.                                    *)
IpcClose == /\ ipc = "close"
            /\ ipc' = "check"
            /\ client' = "none"
            /\ UNCHANGED <<running, queue, capVars, mainVars>>

ClientCloses == /\ client \in {"idle", "sent", "waiting"}
                /\ client' = "closed"
                /\ UNCHANGED <<running, queue, capVars, mainVars, ipc>>

Ipc == \/ IpcCheck \/ IpcCreate \/ IpcConnected \/ IpcConnectFails
       \/ IpcLoop \/ IpcRead \/ IpcClientGone \/ IpcReply \/ IpcClose
ClientSide == ClientDials \/ ClientSends \/ ClientCloses

(* The process is gone: no thread is left to take a step.                  *)
Terminating == main = "done" /\ UNCHANGED vars

Next == \/ CtrlC \/ SecondPasses \/ Terminating
        \/ Capture \/ Main \/ Ipc \/ ClientSide

Spec == Init /\ [][Next]_vars

(* Every thread the scheduler can run, runs.  CapRecv and IpcRead wait for *)
(* the outside and are not owed anything by it.                            *)
ThreadsRun == /\ WF_vars(CapOpen) /\ WF_vars(CapCheck) /\ WF_vars(CapSend)
              /\ WF_vars(Main) /\ WF_vars(Ipc)

FairSpec == Spec /\ ThreadsRun /\ WF_vars(SecondPasses)

(* What may be asked of the outside.  Packets keep coming; but not for     *)
(* ever faster than main drains them; the pipe can be created; and it is   *)
(* dialled and spoken to, as the service of the UI does once a second.     *)
Traffic == WF_vars(CapRecv)
KeepsUp == SF_vars(MainDrained) /\ []<>(main # "drain" \/ queue = 0)
Listens == SF_vars(IpcCreate /\ ipc' = "connect")
Polled == WF_vars(ClientDials) /\ WF_vars(ClientSends)

-----------------------------------------------------------------------------
(* Every program counter is at a place of its thread.                      *)
TypeOK == /\ running \in BOOLEAN /\ second \in BOOLEAN
          /\ cap \in {"open", "check", "recv", "send", "done"}
          /\ queue \in 0..ChanCap
          /\ main \in {"boot", "top", "recv", "drain", "tick", "stopping",
                       "joinCapture", "joinIpc", "done"}
          /\ ipc \in {"check", "create", "connect", "loop", "read", "reply",
                      "close", "done"}
          /\ client \in {"none", "idle", "sent", "waiting", "closed"}

looping == main \in {"boot", "top", "recv", "drain", "tick"}

(* When the capture thread dies on its own, every packet it sent before is *)
(* processed and reaches the last flush: without a stop request the loop   *)
(* is left only on an empty, disconnected channel.                         *)
DisconnectDrainsAll == ~looping /\ running => queue = 0 /\ senderDropped

(* Once capture has died the main thread notices and leaves its loop.      *)
CaptureDeathNoticed == senderDropped ~> ~looping

(* "Every 1 second: compute speeds, reset deltas, push to IPC": a second   *)
(* that has passed is published, or the loop has ended.  Only as long as   *)
(* main keeps up: its batch ends when the channel is empty.                *)
EverySecondPublished == KeepsUp => (second ~> (~second \/ ~looping))

(* A stop request ends the process, given traffic and a client: the three  *)
(* threads look at the flag between two waits only.                        *)
StopCompletes ==
  Traffic /\ KeepsUp /\ Listens /\ Polled => (~running ~> main = "done")
=============================================================================
