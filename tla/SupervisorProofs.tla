-------------------------- MODULE SupervisorProofs --------------------------
(***************************************************************************)
(* Proofs about Supervisor for any number of UIs and cores, and with every *)
(* kind of failure allowed or not.                                         *)
(***************************************************************************)
EXTENDS Supervisor, FiniteSetTheorems, TLAPS

Owning == {"wait", "waited", "dial", "ping", "run", "leaving"}
Places == {"off", "probe", "probed", "handover"} \cup Owning

(* A launcher owns nothing before it has launched and after it let go.     *)
OwnerIsOn == \A u \in UIs : owned[u] # None => ui[u] \in Owning

(* Of the UIs that are on, all but one are on their way out of a restart.  *)
OneAtATime ==
  "second ui" \notin past =>
    \A u, v \in UIs : u # v /\ on(u) /\ on(v) => ui[u] = "handover" \/ ui[v] = "handover"
NoHandover == "restart" \notin past => \A u \in UIs : ui[u] # "handover"

(* A connection, and an instance, is one of a core that exists.            *)
ConnAlive == \A u \in UIs : conn[u] # None => conn[u] \in alive
InstAlive == \A c \in Cores : inst[c] # "none" => c \in alive

(* As long as nobody let go of a core that lives, each has its launcher.   *)
AliveIsOwned == past \subseteq {"second ui"} => \A c \in alive : \E u \in UIs : owned[u] = c

Roles == OwnerIsOn /\ OneAtATime /\ NoHandover
Links == ConnAlive /\ InstAlive
SupInv == TypeOK /\ Roles /\ Links /\ AliveIsOwned /\ KillSparesOthers

-----------------------------------------------------------------------------
USE NoneAssumption

(* Where a UI is, what it is connected to and which core it owns.          *)
LEMMA Fields ==
  ASSUME TypeOK, NEW u \in UIs
  PROVE  /\ ui[u] \in Places /\ conn[u] \in Cores \cup {None} /\ owned[u] \in Cores \cup {None}
BY DEF TypeOK, Places, Owning

(* Every UI is at one of the named places.                                 *)
LEMMA PlacesType == TypeOK => ui \in [UIs -> Places]
BY DEF TypeOK, Places, Owning

(* Supervision starts in the invariant: no UI and no core.                 *)
LEMMA InitHolds == Init => SupInv
BY DEF Init, SupInv, TypeOK, Roles, OwnerIsOn, OneAtATime, NoHandover, Links, ConnAlive,
       InstAlive, AliveIsOwned, KillSparesOthers, on

-----------------------------------------------------------------------------
(* What the pieces of the actions leave of the invariant.                  *)

(* A UI that is on goes to another place, or off, and may let go of what   *)
(* it owned.                                                               *)
LEMMA MovesRoles ==
  ASSUME SupInv, NEW u \in UIs, NEW at \in Places \ {"handover"},
         \A v \in UIs : ui'[v] = IF v = u THEN at ELSE ui[v],
         \A v \in UIs : v # u => owned'[v] = owned[v],
         owned'[u] # None => at \in Owning,
         on(u), ui[u] = "handover" => at = "off",
         past \subseteq past'
  PROVE  Roles'
<1> USE DEF SupInv, Roles
<1>1. OwnerIsOn'
  BY DEF OwnerIsOn
<1>2. OneAtATime'
  <2> SUFFICES ASSUME "second ui" \notin past', NEW a \in UIs, NEW b \in UIs, a # b,
                      on(a)', on(b)'
               PROVE  ui'[a] = "handover" \/ ui'[b] = "handover"
    BY DEF OneAtATime
  <2>1. on(a) /\ on(b)
    BY DEF on
  <2>2. ui[a] = "handover" \/ ui[b] = "handover"
    BY <2>1 DEF OneAtATime
  <2> QED BY <2>2 DEF on
<1>3. NoHandover'
  BY DEF NoHandover
<1> QED BY <1>1, <1>2, <1>3

(* u dials, before it has more to say than that it wants to.               *)
LEMMA DialsKeeps ==
  ASSUME SupInv, NEW u \in UIs, NEW at \in {"probed", "waited", "ping"}, Dials(u, at),
         IF at = "probed" THEN ui[u] = "probe" ELSE ui[u] \in {"wait", "dial"}
  PROVE  SupInv'
<1> USE DEF SupInv
<1>1. PICK c \in Open : /\ conn' = [conn EXCEPT ![u] = c]
                        /\ inst' = [inst EXCEPT ![c] = "taken"]
                        /\ ui' = [ui EXCEPT ![u] = at]
                        /\ UNCHANGED <<owned, alive, leaked, past>>
  BY DEF Dials
<1>2. c \in Cores /\ c \in alive /\ c # None
  BY DEF Open, Links, InstAlive
<1>3. TypeOK'
  BY <1>1, <1>2 DEF TypeOK
<1>4. Roles'
  <2>1. \A v \in UIs : ui'[v] = IF v = u THEN at ELSE ui[v]
    BY <1>1 DEF TypeOK
  <2>2. /\ at \in Places \ {"handover"} /\ on(u) /\ ui[u] # "handover"
        /\ owned'[u] # None => at \in Owning
    BY <1>1 DEF Places, Owning, on, Roles, OwnerIsOn
  <2> QED BY <1>1, <2>1, <2>2, MovesRoles
<1>5. Links'
  BY <1>1, <1>2 DEF Links, ConnAlive, InstAlive, TypeOK
<1>6. AliveIsOwned'
  BY <1>1 DEF AliveIsOwned
<1>7. KillSparesOthers'
  <2> SUFFICES ASSUME "second ui" \notin past, NEW a \in UIs, NEW b \in UIs, a # b,
                      owned[a] # None
               PROVE  conn'[b] # owned[a]
    BY <1>1 DEF KillSparesOthers
  <2>1. CASE b = u
    BY <2>1 DEF Roles, OwnerIsOn, OneAtATime, Owning, on
  <2>2. CASE b # u
    BY <2>2, <1>1 DEF KillSparesOthers, TypeOK
  <2> QED BY <2>1, <2>2
<1> QED BY <1>3, <1>4, <1>5, <1>6, <1>7

(* u hangs up, and lets go of what it owned or not.                        *)
LEMMA HangupLinks ==
  ASSUME SupInv, NEW u \in UIs, NEW at \in Places, Hangup(u, at), UNCHANGED <<alive, leaked>>
  PROVE  /\ Links'
         /\ ui' \in [UIs -> Places] /\ conn' \in [UIs -> Cores \cup {None}]
         /\ inst' \in [Cores -> {"none", "gap", "open", "taken", "ended"}]
         /\ \A v \in UIs : /\ v # u => conn'[v] = conn[v]
                           /\ ui'[v] = IF v = u THEN at ELSE ui[v]
         /\ conn'[u] = None
<1> USE DEF SupInv, Hangup
<1>1. ui' \in [UIs -> Places] /\ conn' \in [UIs -> Cores \cup {None}]
  BY PlacesType DEF TypeOK
<1>2. inst' \in [Cores -> {"none", "gap", "open", "taken", "ended"}]
  BY DEF TypeOK
<1>3. /\ \A v \in UIs : v # u => conn'[v] = conn[v]
      /\ conn'[u] = None
  BY DEF TypeOK
<1>4. \A v \in UIs : ui'[v] = IF v = u THEN at ELSE ui[v]
  BY DEF TypeOK
<1>5. ConnAlive'
  BY <1>3 DEF Links, ConnAlive
<1>6. InstAlive'
  <2> SUFFICES ASSUME NEW c \in Cores, inst'[c] # "none" PROVE c \in alive
    BY DEF InstAlive
  <2>1. inst'[c] = IF conn[u] = c THEN "ended" ELSE inst[c]
    OBVIOUS
  <2> QED BY <2>1 DEF Links, ConnAlive, InstAlive
<1> QED BY <1>1, <1>2, <1>3, <1>4, <1>5, <1>6 DEF Links

(* The processes of C end, whatever happens to one launcher on the way.    *)
LEMMA EndsLinks ==
  ASSUME SupInv, NEW C, Ends(C)
  PROVE  /\ Links'
         /\ conn' \in [UIs -> Cores \cup {None}] /\ alive' \in SUBSET Cores
         /\ inst' \in [Cores -> {"none", "gap", "open", "taken", "ended"}]
         /\ leaked' \in SUBSET alive' /\ past' = past /\ alive' = alive \ C
         /\ \A v \in UIs : conn'[v] # None => conn'[v] = conn[v]
<1> USE DEF SupInv, Ends
<1>1. /\ conn' \in [UIs -> Cores \cup {None}] /\ alive' \in SUBSET Cores
      /\ inst' \in [Cores -> {"none", "gap", "open", "taken", "ended"}]
      /\ leaked' \in SUBSET alive'
  BY DEF TypeOK
<1>2. \A v \in UIs : conn'[v] # None => conn'[v] = conn[v] /\ conn[v] \notin C
  OBVIOUS
<1>3. Links'
  BY <1>2 DEF Links, ConnAlive, InstAlive
<1> QED BY <1>1, <1>2, <1>3

-----------------------------------------------------------------------------
(* A UI that is started, by the user or by a restart.                      *)
LEMMA StartUiKeeps ==
  ASSUME SupInv, NEW u \in UIs, StartUi(u)
  PROVE  SupInv'
<1> USE DEF SupInv, StartUi
<1>1. \A v \in UIs : ui'[v] = IF v = u THEN "probe" ELSE ui[v]
  BY DEF TypeOK
<1>2. TypeOK'
  BY DEF TypeOK
<1>3. OwnerIsOn'
  <2>1. owned[u] = None
    BY DEF Roles, OwnerIsOn, Owning, on
  <2> QED BY <1>1, <2>1 DEF Roles, OwnerIsOn
<1>4. past \subseteq past' /\ ("second ui" \notin past' => \A v \in UIs : ~on(v))
  <2>1. CASE \E v \in UIs : on(v)
    BY <2>1
  <2>2. CASE ~\E v \in UIs : on(v)
    BY <2>2
  <2> QED BY <2>1, <2>2
<1>5. NoHandover'
  <2> SUFFICES ASSUME "restart" \notin past', NEW v \in UIs PROVE ui'[v] # "handover"
    BY DEF NoHandover
  <2> HIDE DEF StartUi
  <2>1. "restart" \notin past
    BY <1>4
  <2> QED BY <1>1, <2>1 DEF Roles, NoHandover
<1>6. OneAtATime'
  <2> SUFFICES ASSUME "second ui" \notin past', NEW a \in UIs, NEW b \in UIs, a # b,
                      on(a)', on(b)'
               PROVE  FALSE
    BY DEF OneAtATime
  <2>1. ~on(a) /\ ~on(b)
    BY <1>4
  <2> QED BY <1>1, <2>1 DEF on
<1>7. (Links /\ KillSparesOthers)'
  BY DEF Links, ConnAlive, InstAlive, KillSparesOthers
<1>8. AliveIsOwned'
  BY DEF AliveIsOwned
<1> QED BY <1>2, <1>3, <1>5, <1>6, <1>7, <1>8 DEF Roles

(* A UI closes its connection: after probe, wait, run or hand-over.        *)
LEMMA ClosesKeeps ==
  ASSUME SupInv, NEW u \in UIs, ProbeCloses(u) \/ WaitCloses(u) \/ Quits(u) \/ HandedOver(u)
  PROVE  SupInv'
<1> USE DEF SupInv
<1>1. PICK at \in {"dial", "leaving", "off"} :
        /\ Hangup(u, at) /\ UNCHANGED <<owned, alive, leaked, past>>
        /\ IF at = "off" THEN ui[u] = "handover" ELSE ui[u] \in {"probed", "waited", "run"}
  BY DEF ProbeCloses, WaitCloses, Quits, HandedOver
<1>2. at \in Places
  BY DEF Places, Owning
<1>3. TypeOK' /\ Links'
  BY <1>1, <1>2, HangupLinks DEF TypeOK, Places, Owning
<1>4. /\ \A v \in UIs : /\ v # u => conn'[v] = conn[v]
                        /\ ui'[v] = IF v = u THEN at ELSE ui[v]
      /\ conn'[u] = None
  BY <1>1, <1>2, HangupLinks
<1>5. Roles'
  BY <1>1, <1>4, MovesRoles, Fields DEF Roles, OwnerIsOn, Places, Owning, on
<1>6. AliveIsOwned' /\ KillSparesOthers'
  BY <1>1, <1>4 DEF AliveIsOwned, KillSparesOthers
<1> QED BY <1>3, <1>5, <1>6

(* The slot of a core that is launched is nobody's: none is connected to   *)
(* it and no launcher holds its handle.                                    *)
LEMMA ProbeFailsKeeps ==
  ASSUME SupInv, NEW u \in UIs, ProbeFails(u)
  PROVE  SupInv'
<1> USE DEF SupInv
<1>1. PICK c \in Slots : alive' = alive \cup {c} /\ owned' = [owned EXCEPT ![u] = c]
  BY DEF ProbeFails
<1>2. /\ ui[u] = "probe" /\ ui' = [ui EXCEPT ![u] = "wait"]
      /\ UNCHANGED <<conn, inst, leaked, past>>
  BY DEF ProbeFails
<1>3. /\ c \in Cores /\ c \notin alive /\ c # None
      /\ \A v \in UIs : owned[v] # c /\ conn[v] # c
  BY DEF Slots, Links, ConnAlive
<1>4. /\ \A v \in UIs : owned'[v] = IF v = u THEN c ELSE owned[v]
      /\ \A v \in UIs : ui'[v] = IF v = u THEN "wait" ELSE ui[v]
  BY <1>1, <1>2 DEF TypeOK
<1>5. TypeOK'
  BY <1>1, <1>2, <1>3 DEF TypeOK
<1>6. Roles'
  BY <1>2, <1>4, MovesRoles, Fields DEF Roles, OwnerIsOn, Places, Owning, on
<1>7. Links'
  BY <1>1, <1>2 DEF Links, ConnAlive, InstAlive
<1>8. owned[u] = None
  BY <1>2 DEF Roles, OwnerIsOn, Owning
<1>9. AliveIsOwned'
  <2> SUFFICES ASSUME past \subseteq {"second ui"}, NEW d \in alive'
               PROVE  \E v \in UIs : owned'[v] = d
    BY <1>2 DEF AliveIsOwned
  <2>1. CASE d = c
    BY <2>1, <1>4
  <2>2. CASE d # c
    <3>1. d \in alive /\ d # None
      BY <2>2, <1>1 DEF TypeOK
    <3>2. PICK v \in UIs : owned[v] = d
      BY <3>1 DEF AliveIsOwned
    <3> QED BY <3>1, <3>2, <1>4, <1>8
  <2> QED BY <2>1, <2>2
<1>10. KillSparesOthers'
  BY <1>2, <1>3, <1>4 DEF KillSparesOthers
<1> QED BY <1>5, <1>6, <1>7, <1>9, <1>10

(* WaitTimesOut and Stops kill what the launcher owns, and let go of it.   *)
LEMMA KillsKeeps ==
  ASSUME SupInv, NEW u \in UIs, Ends({owned[u]}), ui[u] \in Owning,
         owned' = [owned EXCEPT ![u] = None], ui' = [ui EXCEPT ![u] = "off"]
  PROVE  SupInv'
<1> USE DEF SupInv
<1>1. /\ \A v \in UIs : owned'[v] = IF v = u THEN None ELSE owned[v]
      /\ \A v \in UIs : ui'[v] = IF v = u THEN "off" ELSE ui[v]
  BY DEF TypeOK
<1>2. TypeOK' /\ Links'
  BY EndsLinks DEF TypeOK
<1>3. /\ past' = past /\ alive' = alive \ {owned[u]}
      /\ \A v \in UIs : conn'[v] # None => conn'[v] = conn[v]
  BY EndsLinks
<1>4. Roles'
  BY <1>1, <1>3, MovesRoles, Fields DEF Roles, OwnerIsOn, Places, Owning, on
<1>5. AliveIsOwned'
  <2> SUFFICES ASSUME past \subseteq {"second ui"}, NEW d \in alive'
               PROVE  \E v \in UIs : owned'[v] = d
    BY <1>3 DEF AliveIsOwned
  <2>1. PICK v \in UIs : owned[v] = d
    BY <1>3 DEF AliveIsOwned
  <2>2. v # u
    BY <1>3, <2>1
  <2> QED BY <1>1, <2>1, <2>2
<1>6. KillSparesOthers'
  BY <1>1, <1>3 DEF KillSparesOthers
<1> QED BY <1>2, <1>4, <1>5, <1>6

(* os.Exit while there is a core is recorded as giving up on it.           *)
LEMMA GivesUpKeeps ==
  ASSUME SupInv, NEW u \in UIs, GaveUp, ui[u] \in Owning,
         owned' = [owned EXCEPT ![u] = None], ui' = [ui EXCEPT ![u] = "off"],
         UNCHANGED <<conn, alive, inst, leaked>>
  PROVE  SupInv'
<1> USE DEF SupInv
<1>1. /\ \A v \in UIs : owned'[v] = IF v = u THEN None ELSE owned[v]
      /\ \A v \in UIs : ui'[v] = IF v = u THEN "off" ELSE ui[v]
  BY DEF TypeOK
<1>2. /\ past \subseteq past' /\ past' \subseteq past \cup {"gave up"}
      /\ alive # {} => "gave up" \in past'
  BY DEF GaveUp
<1>3. TypeOK'
  BY <1>2 DEF TypeOK
<1>4. Roles'
  <2>1. "off" \in Places \ {"handover"} /\ on(u) /\ owned'[u] = None
    BY <1>1 DEF Places, Owning, on
  <2> QED BY <1>1, <1>2, <2>1, MovesRoles
<1>5. Links'
  BY DEF Links, ConnAlive, InstAlive
<1>6. AliveIsOwned'
  BY <1>2 DEF AliveIsOwned
<1>7. KillSparesOthers'
  BY <1>1, <1>2 DEF KillSparesOthers
<1> QED BY <1>3, <1>4, <1>5, <1>6, <1>7

(* The ping after the start is answered.                                   *)
LEMMA PingsKeeps ==
  ASSUME SupInv, NEW u \in UIs, Pings(u)
  PROVE  SupInv'
<1> USE DEF SupInv
<1>1. /\ ui' = [ui EXCEPT ![u] = "run"] /\ ui[u] = "ping"
      /\ UNCHANGED <<owned, past, conn, alive, inst, leaked>>
  BY DEF Pings
<1>2. \A v \in UIs : ui'[v] = IF v = u THEN "run" ELSE ui[v]
  BY <1>1 DEF TypeOK
<1>3. TypeOK' /\ Links' /\ AliveIsOwned' /\ KillSparesOthers'
  BY <1>1 DEF TypeOK, Links, ConnAlive, InstAlive, AliveIsOwned, KillSparesOthers
<1>4. Roles'
  BY <1>1, <1>2, MovesRoles, Fields DEF Roles, OwnerIsOn, Places, Owning, on
<1> QED BY <1>3, <1>4

(* The core that cannot be started: the UI gives up.                       *)
LEMMA LaunchFailsKeeps ==
  ASSUME SupInv, NEW u \in UIs, LaunchFails(u)
  PROVE  SupInv'
<1> USE DEF SupInv, LaunchFails
<1>1. \A v \in UIs : ui'[v] = IF v = u THEN "off" ELSE ui[v]
  BY DEF TypeOK
<1>2. TypeOK' /\ Links' /\ AliveIsOwned' /\ KillSparesOthers'
  BY DEF TypeOK, Links, ConnAlive, InstAlive, AliveIsOwned, KillSparesOthers
<1>3. Roles'
  BY <1>1, MovesRoles, Fields DEF Roles, OwnerIsOn, Places, Owning, on
<1> QED BY <1>2, <1>3

(* Detach comes before the new UI: the old one owns nothing any more.      *)
LEMMA RestartsKeeps ==
  ASSUME SupInv, NEW u \in UIs, Restarts(u)
  PROVE  SupInv'
<1> USE DEF SupInv
<1>1. PICK v \in UIs : ~on(v) /\ ui' = [ui EXCEPT ![u] = "handover", ![v] = "probe"]
  BY DEF Restarts
<1>2. /\ ui[u] = "run" /\ owned' = [owned EXCEPT ![u] = None]
      /\ past' = past \cup {"restart"} /\ UNCHANGED <<conn, alive, inst, leaked>>
  BY DEF Restarts
<1>3. u # v
  BY <1>1, <1>2 DEF on
<1>4. /\ ui'[u] = "handover" /\ ui'[v] = "probe"
      /\ \A w \in UIs : w # u /\ w # v => ui'[w] = ui[w]
      /\ \A w \in UIs : owned'[w] = IF w = u THEN None ELSE owned[w]
  BY <1>1, <1>2, <1>3 DEF TypeOK
<1>5. TypeOK'
  BY <1>1, <1>2 DEF TypeOK
<1>6. OwnerIsOn' /\ NoHandover'
  <2>1. owned[v] = None
    BY <1>1 DEF Roles, OwnerIsOn, Owning, on
  <2> QED BY <1>2, <1>4, <2>1 DEF Roles, OwnerIsOn, NoHandover
<1>7. OneAtATime'
  <2> SUFFICES ASSUME "second ui" \notin past', NEW a \in UIs, NEW b \in UIs, a # b,
                      on(a)', on(b)', ui'[a] # "handover", ui'[b] # "handover"
               PROVE  FALSE
    BY DEF OneAtATime
  <2>1. a # u /\ b # u
    BY <1>4
  <2>2. PICK w \in {a, b} : w # v /\ on(w) /\ ui[w] # "handover"
    BY <1>4, <2>1 DEF on
  <2>3. "second ui" \notin past /\ on(u) /\ ui[u] # "handover" /\ w # u
    BY <1>2, <2>1, <2>2 DEF on
  <2> QED BY <2>2, <2>3 DEF Roles, OneAtATime
<1>8. Links'
  BY <1>2 DEF Links, ConnAlive, InstAlive
<1>9. AliveIsOwned'
  <2>1. ~(past' \subseteq {"second ui"})
    BY <1>2
  <2> QED BY <2>1 DEF AliveIsOwned
<1>10. KillSparesOthers'
  <2>1. "second ui" \notin past' => "second ui" \notin past
    BY <1>2
  <2> QED BY <1>2, <1>4, <2>1 DEF KillSparesOthers
<1> QED BY <1>5, <1>6, <1>7, <1>8, <1>9, <1>10 DEF Roles

(* A UI that ends without its deferred calls: it vanishes, or its ping     *)
(* fails; if a core is left, that is recorded.                             *)
LEMMA VanishesKeeps ==
  ASSUME SupInv, NEW u \in UIs, Vanishes(u) \/ PingFails(u)
  PROVE  SupInv'
<1> USE DEF SupInv
<1>1. /\ Hangup(u, "off") /\ owned' = [owned EXCEPT ![u] = None] /\ on(u)
      /\ UNCHANGED <<alive, leaked>>
  BY DEF Vanishes, PingFails, on
<1>2. /\ past \subseteq past' /\ past' \subseteq past \cup {"vanished", "gave up"}
      /\ alive # {} => ~(past' \subseteq {"second ui"})
  <2>1. CASE Vanishes(u)
    <3>1. past' = past \cup {"vanished"}
      BY <2>1 DEF Vanishes
    <3>2. ~(past' \subseteq {"second ui"})
      BY <3>1
    <3> QED BY <3>1, <3>2
  <2>2. CASE PingFails(u)
    <3>1. past' = past \cup (IF alive = {} THEN {} ELSE {"gave up"})
      BY <2>2 DEF PingFails, GaveUp
    <3>2. past \subseteq past' /\ past' \subseteq past \cup {"gave up"}
      BY <3>1
    <3>3. alive # {} => "gave up" \in past'
      BY <3>1
    <3> QED BY <3>2, <3>3
  <2> QED BY <2>1, <2>2
<1>3. "off" \in Places
  BY DEF Places
<1>4. TypeOK' /\ Links'
  BY <1>1, <1>2, <1>3, HangupLinks DEF TypeOK, Places, Owning
<1>5. /\ \A v \in UIs : /\ v # u => conn'[v] = conn[v]
                        /\ ui'[v] = IF v = u THEN "off" ELSE ui[v]
                        /\ owned'[v] = IF v = u THEN None ELSE owned[v]
      /\ conn'[u] = None
  BY <1>1, <1>3, HangupLinks DEF TypeOK
<1>6. Roles'
  <2>1. "off" \in Places \ {"handover"} /\ owned'[u] = None
    BY <1>5 DEF Places
  <2> QED BY <1>1, <1>2, <1>5, <2>1, MovesRoles
<1>7. AliveIsOwned'
  <2> SUFFICES ASSUME past' \subseteq {"second ui"}, NEW d \in alive' PROVE FALSE
    BY DEF AliveIsOwned
  <2> QED BY <1>1, <1>2
<1>8. KillSparesOthers'
  <2>1. "second ui" \notin past' => "second ui" \notin past
    BY <1>2
  <2> QED BY <1>1, <1>5, <2>1 DEF KillSparesOthers
<1> QED BY <1>4, <1>6, <1>7, <1>8

(* The steps of the pipe server and the death of a core.                   *)
LEMMA CoreKeeps ==
  ASSUME SupInv, NEW c \in Cores, Serving(c) \/ Dies(c)
  PROVE  SupInv'
<1> USE DEF SupInv
<1>1. CASE Serving(c)
  <2>1. /\ UNCHANGED <<ui, conn, owned, alive, past>>
        /\ c \in alive /\ leaked' \in {leaked, leaked \cup {c}}
        /\ \E to \in {"open", "gap"} : inst' = [inst EXCEPT ![c] = to]
    BY <1>1 DEF Serving, CreatesPipe, Disconnects, Leaks, Links, InstAlive
  <2>2. PICK to \in {"open", "gap"} : inst' = [inst EXCEPT ![c] = to]
    BY <2>1
  <2>3. inst' \in [Cores -> {"none", "gap", "open", "taken", "ended"}]
    BY <2>2 DEF TypeOK
  <2>4. leaked' \in SUBSET alive'
    BY <2>1 DEF TypeOK
  <2>5. TypeOK'
    BY <2>1, <2>3, <2>4 DEF TypeOK
  <2>6. Links'
    BY <2>1, <2>2 DEF Links, ConnAlive, InstAlive, TypeOK
  <2>7. Roles' /\ AliveIsOwned' /\ KillSparesOthers'
    BY <2>1 DEF Roles, OwnerIsOn, OneAtATime, NoHandover, on, AliveIsOwned, KillSparesOthers
  <2> QED BY <2>5, <2>6, <2>7
<1>2. CASE Dies(c)
  <2>1. Ends({c}) /\ UNCHANGED <<ui, owned>>
    BY <1>2 DEF Dies
  <2>2. TypeOK' /\ Links'
    BY <2>1, EndsLinks DEF TypeOK
  <2>3. /\ past' = past /\ alive' = alive \ {c}
        /\ \A v \in UIs : conn'[v] # None => conn'[v] = conn[v]
    BY <2>1, EndsLinks
  <2>4. Roles' /\ AliveIsOwned' /\ KillSparesOthers'
    BY <2>1, <2>3 DEF Roles, OwnerIsOn, OneAtATime, NoHandover, on, AliveIsOwned, KillSparesOthers
  <2> QED BY <2>2, <2>4
<1> QED BY <1>1, <1>2

(* One step of the supervision, by the lemmas on its actions.              *)
LEMMA SupInvInductive ==
  ASSUME SupInv, [Next]_vars
  PROVE  SupInv'
<1>1. ASSUME NEW u \in UIs, ProbeFinds(u) \/ WaitFinds(u) \/ Connects(u) PROVE SupInv'
  BY <1>1, DialsKeeps DEF ProbeFinds, WaitFinds, Connects
<1>2. ASSUME NEW u \in UIs, ProbeCloses(u) \/ WaitCloses(u) \/ Quits(u) \/ HandedOver(u)
      PROVE  SupInv'
  BY <1>2, ClosesKeeps
<1>3. ASSUME NEW u \in UIs, WaitTimesOut(u) \/ Stops(u) PROVE SupInv'
  BY <1>3, KillsKeeps DEF WaitTimesOut, Stops, Owning
<1>4. ASSUME NEW u \in UIs, ConnectFails(u) PROVE SupInv'
  BY <1>4, GivesUpKeeps DEF ConnectFails, Owning
<1>5. ASSUME NEW u \in UIs, StartUi(u) \/ ProbeFails(u) \/ LaunchFails(u) \/ Pings(u)
      PROVE  SupInv'
  BY <1>5, StartUiKeeps, ProbeFailsKeeps, LaunchFailsKeeps, PingsKeeps
<1>6. ASSUME NEW u \in UIs, Restarts(u) \/ Vanishes(u) \/ PingFails(u) PROVE SupInv'
  BY <1>6, RestartsKeeps, VanishesKeeps
<1>7. ASSUME NEW c \in Cores, Serving(c) \/ Dies(c) PROVE SupInv'
  BY <1>7, CoreKeeps
<1>8. CASE UNCHANGED vars
  BY <1>8 DEF vars, SupInv, TypeOK, Roles, OwnerIsOn, OneAtATime, NoHandover, on, Links,
              ConnAlive, InstAlive, AliveIsOwned, KillSparesOthers
<1> QED BY <1>1, <1>2, <1>3, <1>4, <1>5, <1>6, <1>7, <1>8 DEF Next, Starting, Leaving

(* The strengthened invariant: who owns, who is connected, and which of    *)
(* the UIs that are on still counts.                                       *)
THEOREM SupInvCorrect == Spec => []SupInv
BY InitHolds, SupInvInductive, PTL DEF Spec

(* However many UIs restart into each other: no exit kills the core that   *)
(* another one is connected to.                                            *)
THEOREM KillsSpareOthers == Spec => []KillSparesOthers
<1>1. SupInv => KillSparesOthers
  BY DEF SupInv
<1> QED BY <1>1, SupInvCorrect, PTL

(* One UI after the other means one core at a time: each core that exists  *)
(* is owned, and there is one UI to own it.                                *)
THEOREM OneCoreAtATime == Spec => []OneCore
<1>1. SupInv => OneCore
  <2> SUFFICES ASSUME SupInv, past = {} PROVE Cardinality(alive) <= 1
    BY DEF OneCore
  <2>1. \A c, d \in alive : c = d
    <3> SUFFICES ASSUME NEW c \in alive, NEW d \in alive PROVE c = d
      OBVIOUS
    <3>1. PICK u \in UIs : owned[u] = c
      BY DEF SupInv, AliveIsOwned
    <3>2. PICK v \in UIs : owned[v] = d
      BY DEF SupInv, AliveIsOwned
    <3>3. c # None /\ d # None
      BY DEF SupInv, TypeOK
    <3>4. on(u) /\ on(v) /\ ui[u] # "handover" /\ ui[v] # "handover"
      BY <3>1, <3>2, <3>3 DEF SupInv, Roles, OwnerIsOn, Owning, on
    <3> QED BY <3>1, <3>2, <3>4 DEF SupInv, Roles, OneAtATime
  <2>2. CASE alive = {}
    BY <2>2, FS_EmptySet
  <2>3. CASE alive # {}
    <3>1. PICK c \in alive : TRUE
      BY <2>3
    <3>2. alive = {c}
      BY <2>1, <3>1
    <3> QED BY <3>2, FS_Singleton
  <2> QED BY <2>2, <2>3
<1> QED BY <1>1, SupInvCorrect, PTL

(* With the last UI the last core ends, however many there were, as long   *)
(* as none restarted, vanished or gave up on a core that lived.            *)
THEOREM NoCoreIsLeft == Spec => []LeavesNoCore
<1>1. SupInv => LeavesNoCore
  <2> SUFFICES ASSUME SupInv, past \subseteq {"second ui"}, \A u \in UIs : ~on(u),
                      NEW c \in alive
               PROVE  FALSE
    BY DEF LeavesNoCore
  <2>1. PICK u \in UIs : owned[u] = c
    BY DEF SupInv, AliveIsOwned
  <2>2. owned[u] # None
    BY <2>1 DEF SupInv, TypeOK
  <2> QED BY <2>2 DEF SupInv, Roles, OwnerIsOn, Owning, on
<1> QED BY <1>1, SupInvCorrect, PTL
=============================================================================
