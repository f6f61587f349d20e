------------------------- MODULE PacketPathProofs ---------------------------
(***************************************************************************)
(* Proofs about the packets of the core.  First CoreCounters, for every    *)
(* channel capacity and every number of packets: where each packet is, and *)
(* why none can be lost unseen.  Then PacketPath, for any sockets, packets,*)
(* tables that fail and changes of hands: it refines CoreCounters, so what *)
(* is proved of the counters holds on the whole path; every byte sent is   *)
(* in the history that is served at the end, or accounted for; and each    *)
(* packet is credited to whom the tables name.                             *)
(***************************************************************************)
EXTENDS PacketPath, SequenceTheorems, WellFoundedInduction, TLAPS

-----------------------------------------------------------------------------
(* The counters.                                                           *)

(* The actions of the pipe server and its client touch neither the channel *)
(* nor the two other threads.                                              *)
LEMMA IpcElsewhere ==
  ASSUME TypeOK, Ipc \/ ClientSide
  PROVE  /\ UNCHANGED <<running, queue, cap, main, second>>
         /\ ipc' \in {"check", "create", "connect", "loop", "read", "reply",
                      "close", "done"}
         /\ client' \in {"none", "idle", "sent", "waiting", "closed"}
<1>1. CASE Ipc
  BY <1>1 DEF Ipc, IpcCheck, IpcCreate, IpcConnected, IpcConnectFails, IpcLoop, IpcRead,
              IpcClientGone, IpcReply, IpcClose, TypeOK, capVars, mainVars
<1>2. CASE ClientSide
  BY <1>2 DEF ClientSide, ClientDials, ClientSends, ClientCloses, TypeOK, capVars, mainVars
<1> QED BY <1>1, <1>2

(* Every step, with its counters, keeps the strengthened invariant.        *)
LEMMA CountInvInductive ==
  ASSUME CountInv, [CountNext]_allVars
  PROVE  CountInv'
<1> USE ChanCapAssumption DEF CountInv, CountTypeOK, PacketConservation, DropsNeedFlood,
        DisconnectDrainsAll, inHand, looping, senderDropped
<1>1. CASE CountParsed
  BY <1>1 DEF CountParsed, CapParsed, TypeOK, mainVars, ipcVars
<1>2. CASE CountIgnored
  BY <1>2 DEF CountIgnored, CapIgnored, TypeOK, mainVars, ipcVars
<1>3. CASE CountSend
  BY <1>3 DEF CountSend, CapSend, TypeOK, mainVars, ipcVars
<1>4. CASE CountTaken
  BY <1>4 DEF CountTaken, MainFirst, MainDrain, TypeOK, mainVars, ipcVars, capVars
<1>5. CASE CountDrained
  BY <1>5 DEF CountDrained, MainDrained, TypeOK, ipcVars, capVars
<1>6. CASE CountNothing
  <2>1. UNCHANGED <<total, dropped, batch, processed, ignored>>
    BY <1>6 DEF CountNothing, counters
  <2>2. CASE CtrlC \/ SecondPasses \/ Terminating
    <3>1. CASE CtrlC
      BY <2>1, <3>1 DEF CtrlC, TypeOK, capVars, mainVars, ipcVars
    <3>2. CASE SecondPasses
      BY <2>1, <3>2 DEF SecondPasses, TypeOK, capVars, ipcVars
    <3>3. CASE Terminating
      BY <2>1, <3>3 DEF Terminating, TypeOK, vars, capVars, mainVars, ipcVars
    <3> QED BY <2>2, <3>1, <3>2, <3>3
  <2>3. CASE CapOpen \/ CapCheck \/ CapRecvFails
    BY <2>1, <2>3 DEF CapOpen, CapCheck, CapRecvFails, TypeOK, mainVars, ipcVars
  <2>4. CASE \/ MainBoot \/ MainTop \/ MainTimeout \/ MainDisconnected \/ MainTick
             \/ MainStop \/ MainJoinCapture \/ MainJoinIpc
    <3>1. CASE MainBoot \/ MainTop \/ MainTimeout
      BY <2>1, <3>1 DEF MainBoot, MainTop, MainTimeout, TypeOK, capVars, ipcVars
    <3>2. CASE MainDisconnected
      BY <2>1, <3>2 DEF MainDisconnected, TypeOK, capVars, ipcVars
    <3>3. CASE MainTick
      BY <2>1, <3>3 DEF MainTick, TypeOK, capVars, ipcVars
    <3>4. CASE MainStop \/ MainJoinCapture \/ MainJoinIpc
      BY <2>1, <3>4 DEF MainStop, MainJoinCapture, MainJoinIpc, TypeOK, capVars, ipcVars
    <3> QED BY <2>4, <3>1, <3>2, <3>3, <3>4
  <2>5. CASE Ipc \/ ClientSide
    <3>1. UNCHANGED <<running, queue, cap, main, second>> /\ TypeOK'
      BY <2>5, IpcElsewhere DEF TypeOK
    <3> QED BY <2>1, <3>1
  <2> QED BY <1>6, <2>2, <2>3, <2>4, <2>5 DEF CountNothing
<1>7. CASE UNCHANGED allVars
  BY <1>7 DEF allVars, vars, counters, capVars, mainVars, ipcVars, TypeOK
<1> QED BY <1>1, <1>2, <1>3, <1>4, <1>5, <1>6, <1>7 DEF CountNext

(* It holds to begin with.                                                 *)
LEMMA CountInitInv == CountInit => CountInv
<1> SUFFICES ASSUME CountInit PROVE CountInv
  OBVIOUS
<1>1. CountTypeOK
  <2>1. queue \in 0..ChanCap
    BY ChanCapAssumption DEF CountInit, Init
  <2>2. TypeOK
    BY <2>1 DEF CountInit, Init, TypeOK
  <2> QED BY <2>2 DEF CountInit, CountTypeOK
<1>2. PacketConservation /\ DropsNeedFlood
  BY DEF CountInit, Init, PacketConservation, DropsNeedFlood, inHand
<1>3. DisconnectDrainsAll /\ ~(batch > 0)
  BY DEF CountInit, Init, DisconnectDrainsAll, looping
<1> QED BY <1>1, <1>2, <1>3 DEF CountInv

(* The strengthened invariant holds in every reachable state.              *)
THEOREM CountInvCorrect == CountSpec => []CountInv
BY CountInitInv, CountInvInductive, PTL DEF CountSpec

(* Whatever the interleaving of capture, main and pipe server, each packet *)
(* WinDivert delivered is refused, dropped, in hand, waiting or processed. *)
THEOREM PacketsAreConserved == CountSpec => []PacketConservation
<1>1. CountInv => PacketConservation
  BY DEF CountInv
<1> QED BY <1>1, CountInvCorrect, PTL

(* The channel drops nothing until more packets came than it holds.        *)
THEOREM DropsOnlyInFlood == CountSpec => []DropsNeedFlood
<1>1. CountInv => DropsNeedFlood
  BY DEF CountInv
<1> QED BY <1>1, CountInvCorrect, PTL

(* When capture dies by itself, all it sent is in the last flush.          *)
THEOREM NothingIsLeftBehind == CountSpec => []NothingLeftBehind
<1>1. CountInv => NothingLeftBehind
  BY DEF CountInv, CountTypeOK, TypeOK, PacketConservation, DisconnectDrainsAll,
         NothingLeftBehind, inHand, senderDropped, looping
<1> QED BY <1>1, CountInvCorrect, PTL

-----------------------------------------------------------------------------
(* The packets.                                                            *)

pathAll == <<allVars, pathVars>>

(* Each step of the packets is a step of the counters, or none.            *)
LEMMA PathStepCounts ==
  ASSUME [PathNext]_pathAll
  PROVE  [CountNext]_allVars
<1>1. CASE Moves \/ HalfSecond
  BY <1>1 DEF Moves, HalfSecond, allVars
<1>2. CASE PathParsed \/ PathIgnored \/ PathSend
  BY <1>2 DEF PathParsed, PathIgnored, PathSend, CountNext
<1>3. CASE PathBoot \/ PathTop
  BY <1>3 DEF PathBoot, PathTop, CountNext, CountNothing
<1>4. CASE PathTaken \/ PathDrained
  BY <1>4 DEF PathTaken, PathDrained, CountNext
<1>5. CASE PathTick \/ PathStop
  BY <1>5 DEF PathTick, PathStop, CountNext, CountNothing
<1>6. CASE PathQuiet
  BY <1>6 DEF PathQuiet, PathIpcEnds, Ipc, CountNext, CountNothing
<1>7. CASE UNCHANGED pathAll
  BY <1>7 DEF pathAll
<1> QED BY <1>1, <1>2, <1>3, <1>4, <1>5, <1>6, <1>7 DEF PathNext

(* The path of the packets implements the counters of the diagnostics.     *)
THEOREM PathRefinesCounters == PathSpec => CountSpec
<1>1. PathInit => CountInit
  BY DEF PathInit
<1> QED BY <1>1, PathStepCounts, PTL DEF PathSpec, CountSpec, pathAll

(* With the packets in it, the system still loses none unseen: conserved   *)
(* is what the parser, the channel and the main loop did with each.        *)
THEOREM PathConserves == PathSpec => [](PacketConservation /\ NothingLeftBehind)
BY PathRefinesCounters, PacketsAreConserved, NothingIsLeftBehind, PTL

-----------------------------------------------------------------------------
(* The parser.                                                             *)

(* Each packet, whatever its header says, is read within its bytes.        *)
LEMMA ParserReach ==
  ASSUME NEW w \in Delivered
  PROVE  parse_packet(w).reach <= w.size
<1>1. w.size \in Nat /\ w.ihl \in Nat
  BY DEF Delivered
<1>2. \A n : Refused(n).reach = n
  BY DEF Refused
<1>3. \A n, l : Taken(w, n, l).reach = n
  BY DEF Taken
<1>4. w.size # 0 => parse_ipv4(w).reach <= w.size
  BY <1>1, <1>2, <1>3 DEF parse_ipv4
<1>5. w.size # 0 => parse_ipv6(w).reach <= w.size
  BY <1>1, <1>2, <1>3 DEF parse_ipv6
<1> QED BY <1>1, <1>2, <1>4, <1>5 DEF parse_packet

(* No packet that WinDivert can deliver makes the parser read past its end:*)
(* not one of any size, header length or protocol.                         *)
THEOREM ParserStaysInsideAlways == PathSpec => []ParserStaysInside
<1>1. Overrun = {}
  <2> SUFFICES ASSUME NEW w \in Wire PROVE ~(parse_packet(w).reach > w.size)
    BY DEF Overrun
  <2>1. w \in Delivered /\ w.size \in Nat
    BY WireAssumption DEF Delivered
  <2>2. parse_packet(w).reach \in Int
    <3>1. w.ihl \in Nat /\ (\A n : Refused(n).reach = n) /\ \A n, l : Taken(w, n, l).reach = n
      BY <2>1 DEF Delivered, Refused, Taken
    <3> QED BY <3>1 DEF parse_packet, parse_ipv4, parse_ipv6
  <2> QED BY <2>1, <2>2, ParserReach
<1>2. ParserStaysInside
  BY <1>1 DEF ParserStaysInside
<1> QED BY <1>2, PTL

(* A packet that is taken has its length and its origin with it.           *)
LEMMA ParsedPacket ==
  ASSUME NEW p \in Parsed
  PROVE  /\ p.of \in Wire /\ p.of \in Delivered /\ p.length \in Nat
         /\ p.ends = EndsRead(p.of)
         /\ p.proto = p.of.proto /\ p.fam = p.of.version /\ p.outbound = p.of.outbound
         /\ p.length = IF p.of.version = 4 THEN p.of.stated ELSE 40 + p.of.stated
<1>1. PICK w \in Wire : parse_packet(w).taken /\ p = parse_packet(w).packet
  BY DEF Parsed, Accepted
<1>2. w \in Delivered
  BY <1>1, WireAssumption
<1>3. w.stated \in Nat /\ w.size \in Nat
  BY <1>2 DEF Delivered
<1>4. ~Refused(0).taken /\ ~Refused(1).taken
  BY DEF Refused
<1>5. CASE w.version = 4
  <2>1. parse_ipv4(w).taken /\ p = parse_ipv4(w).packet
    BY <1>1, <1>4, <1>5 DEF parse_packet
  <2>2. p = Taken(w, w.ihl + 4, w.stated).packet
    BY <2>1 DEF parse_ipv4, Refused
  <2> QED BY <1>1, <1>2, <1>3, <1>5, <2>2 DEF Taken
<1>6. CASE w.version # 4
  <2>1. w.version = 6 /\ parse_ipv6(w).taken /\ p = parse_ipv6(w).packet
    BY <1>1, <1>4, <1>6 DEF parse_packet
  <2>2. p = Taken(w, 44, 40 + w.stated).packet
    BY <2>1 DEF parse_ipv6, Refused
  <2> QED BY <1>1, <1>2, <1>3, <1>6, <2>2 DEF Taken
<1> QED BY <1>5, <1>6

-----------------------------------------------------------------------------
(* The bytes of a channel.                                                 *)

(* A set with 0 and the successors of its naturals up to N has all those.  *)
LEMMA InductionTo ==
  ASSUME NEW N \in Nat, NEW S, 0 \in S,
         \A n \in 0..(N - 1) : n \in S => n + 1 \in S
  PROVE  0..N \subseteq S
<1> DEFINE Missing == 0..N \ S
<1> SUFFICES ASSUME Missing # {} PROVE FALSE
  OBVIOUS
<1>1. Missing \subseteq Nat
  OBVIOUS
<1>2. PICK m \in Missing : \A n \in Missing : <<n, m>> \notin OpToRel(<, Nat)
  BY <1>1, NatLessThanWellFounded, WFMin, Zenon
<1>3. m \in 0..N /\ m \notin S /\ m # 0
  OBVIOUS
<1>4. m - 1 \in 0..(N - 1) /\ (m - 1) + 1 = m
  BY <1>3
<1>5. m - 1 \in Missing
  BY <1>3, <1>4
<1>6. <<m - 1, m>> \in OpToRel(<, Nat)
  <2>1. /\ <<m - 1, m>> \in Nat \X Nat /\ <<m - 1, m>>[1] = m - 1 /\ <<m - 1, m>>[2] = m
        /\ m - 1 < m
    BY <1>3, <1>4
  <2> QED BY <2>1, Zenon DEF OpToRel
<1> QED BY <1>2, <1>5, <1>6

(* What Bytes needs of a packet.                                           *)
Sized(packets) == /\ DOMAIN packets = 1..Len(packets) /\ Len(packets) \in Nat
                  /\ \A i \in 1..Len(packets) : packets[i].length \in Nat

(* The partial sums of packets.                                            *)
Sums(g, packets) ==
  /\ g \in [0..Len(packets) -> Nat] /\ g[0] = 0
  /\ \A i \in 1..Len(packets) : g[i] = g[i - 1] + packets[i].length

(* They exist, and Bytes is the last of them.                              *)
LEMMA BytesUnfolds ==
  ASSUME NEW c, Sized(c)
  PROVE  \E g : Sums(g, c) /\ Bytes(c) = g[Len(c)]
<1>1. PICK N : N \in Nat /\ N = Len(c) /\ \A i \in 1..N : c[i].length \in Nat
  BY DEF Sized
<1> DEFINE Def(k) == k = [i \in 0..N |-> IF i = 0 THEN 0 ELSE k[i - 1] + c[i].length]
           Runs(g, n) == /\ g \in [0..n -> Nat] /\ g[0] = 0
                         /\ \A i \in 1..n : g[i] = g[i - 1] + c[i].length
           Good == {n \in 0..N : \E g : Runs(g, n)}
           b == CHOOSE k : Def(k)
<1>2. 0 \in Good
  <2> DEFINE g == [i \in 0..0 |-> 0]
  <2>1. Runs(g, 0)
    OBVIOUS
  <2> HIDE DEF Runs
  <2> QED BY <1>1, <2>1
<1>3. ASSUME NEW n \in 0..(N - 1), n \in Good PROVE n + 1 \in Good
  <2>1. PICK g : Runs(g, n)
    BY <1>3
  <2> DEFINE h == [i \in 0..(n + 1) |-> IF i = n + 1 THEN g[n] + c[n + 1].length ELSE g[i]]
  <2>2. n \in Nat /\ n + 1 \in 1..N /\ n + 1 \in 0..N
    BY <1>1
  <2>3. c[n + 1].length \in Nat /\ g[n] \in Nat
    BY <1>1, <2>1, <2>2
  <2>4. /\ \A i \in 0..n : h[i] = g[i]
        /\ h[n + 1] = g[n] + c[n + 1].length
        /\ h \in [0..(n + 1) -> Nat]
    BY <2>1, <2>2, <2>3
  <2> HIDE DEF h
  <2>5. ASSUME NEW i \in 1..(n + 1) PROVE h[i] = h[i - 1] + c[i].length
    <3>1. i - 1 \in 0..n /\ h[i - 1] = g[i - 1]
      BY <2>2, <2>4
    <3>2. CASE i = n + 1
      BY <2>2, <2>4, <3>1, <3>2
    <3>3. CASE i # n + 1
      <4>1. i \in 1..n /\ i \in 0..n
        BY <2>2, <3>3
      <4> QED BY <2>1, <2>4, <3>1, <4>1
    <3> QED BY <3>2, <3>3
  <2>6. h[0] = 0
    BY <2>1, <2>2, <2>4
  <2>7. Runs(h, n + 1)
    BY <2>4, <2>5, <2>6
  <2> HIDE DEF Runs
  <2> QED BY <2>2, <2>7
<1> HIDE DEF Good
<1>4. N \in Good
  <2>1. 0..N \subseteq Good
    BY <1>1, <1>2, <1>3, InductionTo
  <2> QED BY <1>1, <2>1
<1>5. PICK g : Runs(g, N)
  BY <1>4 DEF Good
<1>6. Def(g)
  <2>1. ASSUME NEW i \in 0..N PROVE g[i] = IF i = 0 THEN 0 ELSE g[i - 1] + c[i].length
    <3>1. i # 0 => i \in 1..N
      BY <1>1
    <3> QED BY <1>5, <3>1
  <2>2. g = [i \in 0..N |-> g[i]]
    BY <1>5
  <2> QED BY <2>1, <2>2
<1>7. Def(b)
  <2> HIDE DEF Def
  <2> QED BY <1>6
<1>8. Bytes(c) = b[N]
  BY <1>1 DEF Bytes
<1> HIDE DEF b
<1>9. b[0] = 0 /\ \A i \in 1..N : b[i] = b[i - 1] + c[i].length
  <2>1. \A i \in 0..N : b[i] = IF i = 0 THEN 0 ELSE b[i - 1] + c[i].length
    BY <1>7, Zenon
  <2>2. 0 \in 0..N /\ \A i \in 1..N : i \in 0..N /\ i # 0
    BY <1>1
  <2> QED BY <2>1, <2>2, Zenon
<1> DEFINE Typed == {i \in 0..N : b[i] \in Nat}
<1>10. 0 \in Typed
  BY <1>1, <1>9
<1>11. ASSUME NEW n \in 0..(N - 1), n \in Typed PROVE n + 1 \in Typed
  <2>1. n + 1 \in 1..N /\ n + 1 \in 0..N /\ (n + 1) - 1 = n
    BY <1>1
  <2>2. b[n + 1] = b[n] + c[n + 1].length /\ c[n + 1].length \in Nat
    BY <1>1, <1>9, <2>1
  <2> QED BY <1>11, <2>1, <2>2
<1> HIDE DEF Typed
<1>12. b \in [0..N -> Nat]
  <2>1. 0..N \subseteq Typed
    BY <1>1, <1>10, <1>11, InductionTo
  <2>2. \A i \in 0..N : b[i] \in Nat
    BY <2>1 DEF Typed
  <2> QED BY <1>7, <2>2
<1> QED BY <1>1, <1>8, <1>9, <1>12 DEF Sums

(* e agrees, for n packets, with c from the d-th on.                       *)
Shifted(c, e, d, n) == /\ n + d <= Len(c) /\ n <= Len(e)
                       /\ \A i \in 1..n : e[i] = c[i + d]

(* Their sums are then the same but for what comes before.                 *)
LEMMA SumsShift ==
  ASSUME NEW c, Sized(c), NEW e, Sized(e), NEW g, Sums(g, c), NEW h, Sums(h, e),
         NEW d \in Nat, NEW n \in Nat, Shifted(c, e, d, n)
  PROVE  g[n + d] = g[d] + h[n]
<1> USE DEF Shifted
<1> DEFINE Same == {i \in 0..n : g[i + d] = g[d] + h[i]}
<1>1. Len(c) \in Nat /\ Len(e) \in Nat
  BY DEF Sized
<1>2. 0 \in Same
  <2>1. d \in 0..Len(c) /\ 0 + d = d /\ 0 \in 0..n
    BY <1>1
  <2>2. g[d] \in Nat /\ h[0] = 0
    BY <2>1 DEF Sums
  <2> QED BY <2>1, <2>2
<1>3. ASSUME NEW i \in 0..(n - 1), i \in Same PROVE i + 1 \in Same
  <2>1. /\ i + 1 \in 1..n /\ i + 1 \in 0..n /\ (i + 1) - 1 = i
        /\ i + 1 \in 1..Len(e) /\ i \in 0..Len(e)
        /\ (i + 1) + d \in 1..Len(c) /\ ((i + 1) + d) - 1 = i + d
        /\ i + d \in 0..Len(c) /\ d \in 0..Len(c)
    BY <1>1
  <2>2. PICK x \in Nat : x = e[i + 1].length /\ x = c[(i + 1) + d].length
    BY <2>1 DEF Sized
  <2>3. g[(i + 1) + d] = g[i + d] + x
    BY <2>1, <2>2 DEF Sums
  <2>4. h[i + 1] = h[i] + x
    BY <2>1, <2>2 DEF Sums
  <2>5. g[i + d] \in Nat /\ g[d] \in Nat /\ h[i] \in Nat
    BY <2>1 DEF Sums
  <2>6. g[i + d] = g[d] + h[i]
    BY <1>3
  <2>7. g[(i + 1) + d] = g[d] + h[i + 1]
    BY <2>3, <2>4, <2>5, <2>6
  <2> QED BY <2>1, <2>7
<1> HIDE DEF Same
<1>4. 0..n \subseteq Same
  BY <1>2, <1>3, InductionTo
<1> QED BY <1>4 DEF Same

(* The bytes of nothing, of one packet more, and of one less.              *)
LEMMA BytesFacts ==
  ASSUME NEW T, \A t \in T : t.length \in Nat, NEW c \in Seq(T)
  PROVE  /\ Bytes(c) \in Nat
         /\ c = <<>> => Bytes(c) = 0
         /\ \A t \in T : Bytes(Append(c, t)) = Bytes(c) + t.length
         /\ c # <<>> => Bytes(c) = Head(c).length + Bytes(Tail(c))
<1>1. \A s \in Seq(T) : Sized(s)
  BY DEF Sized
<1>2. PICK g : Sums(g, c) /\ Bytes(c) = g[Len(c)]
  BY <1>1, BytesUnfolds
<1>3. Bytes(c) \in Nat /\ (c = <<>> => Bytes(c) = 0)
  BY <1>2 DEF Sums
<1>4. ASSUME NEW t \in T PROVE Bytes(Append(c, t)) = Bytes(c) + t.length
  <2> DEFINE a == Append(c, t)
             n == Len(c)
  <2>1. /\ a \in Seq(T) /\ Len(a) = n + 1 /\ n \in Nat /\ a[n + 1] = t
        /\ \A i \in 1..n : c[i] = a[i]
    OBVIOUS
  <2> HIDE DEF a, n
  <2>2. PICK h : Sums(h, a) /\ Bytes(a) = h[n + 1]
    BY <1>1, <2>1, BytesUnfolds
  <2>3. n = Len(c) /\ Sized(a) /\ Sized(c)
    BY <1>1, <2>1 DEF n
  <2>4. PICK d \in Nat : d = 0
    OBVIOUS
  <2>5. Shifted(a, c, d, n) /\ n + d = n
    BY <2>1, <2>3, <2>4 DEF Shifted
  <2>6. h[n + d] = h[d] + g[n]
    <3>1. Sums(h, a) /\ Sums(g, c) /\ d \in Nat /\ n \in Nat
      BY <1>2, <2>1, <2>2
    <3> QED BY <2>3, <2>5, <3>1, SumsShift
  <2>7. h[n + 1] = h[n] + t.length /\ h[0] = 0
    <3>1. n + 1 \in 1..Len(a) /\ (n + 1) - 1 = n
      BY <2>1
    <3> QED BY <2>1, <2>2, <3>1 DEF Sums
  <2>8. g[n] \in Nat /\ t.length \in Nat
    BY <1>2, <1>3, <2>3
  <2> QED BY <1>2, <2>2, <2>3, <2>4, <2>5, <2>6, <2>7, <2>8 DEF a
<1>5. ASSUME c # <<>> PROVE Bytes(c) = Head(c).length + Bytes(Tail(c))
  <2> DEFINE e == Tail(c)
             n == Len(e)
  <2>1. /\ e \in Seq(T) /\ Len(c) = n + 1 /\ n \in Nat /\ Head(c) = c[1] /\ c[1] \in T
        /\ \A i \in 1..n : e[i] = c[i + 1]
    BY <1>5
  <2> HIDE DEF e, n
  <2>2. PICK h : Sums(h, e) /\ Bytes(e) = h[n]
    BY <1>1, <2>1, BytesUnfolds DEF n
  <2>3. g[n + 1] = g[1] + h[n]
    <3>1. Sized(e) /\ Sized(c) /\ 1 \in Nat /\ n \in Nat /\ Shifted(c, e, 1, n)
      BY <1>1, <2>1 DEF n, Shifted
    <3> QED BY <1>2, <2>1, <2>2, <3>1, SumsShift
  <2>4. g[1] = c[1].length
    <3>1. 1 \in 1..Len(c) /\ 1 - 1 = 0 /\ c[1].length \in Nat
      BY <2>1
    <3>2. g[1] = g[0] + c[1].length /\ g[0] = 0
      BY <1>2, <3>1 DEF Sums
    <3> QED BY <3>1, <3>2
  <2> QED BY <1>2, <2>1, <2>2, <2>3, <2>4 DEF e
<1> QED BY <1>3, <1>4, <1>5

(* Every step keeps the strengthened invariant.                            *)
LEMMA PathInvInductive ==
  ASSUME PathInv, [PathNext]_pathAll
  PROVE  PathInv'
<1>1. CountInv'
  BY PathStepCounts, CountInvInductive DEF PathInv
<1> DEFINE Held == IF cap = "send" THEN hand \in Parsed ELSE hand = NoPacket
           Carried == chan \in Seq(Parsed) /\ Len(chan) = queue
<1> USE DEF PathInv, vars, capVars, mainVars, ipcVars, pathVars, books, counters
<1>2. Carried' /\ Held'
  <2>1. CASE PathParsed
    <3>1. UNCHANGED <<chan, queue>> /\ cap' = "send" /\ hand' \in Parsed
      BY <2>1 DEF PathParsed, CountParsed, CapParsed, Parsed
    <3> QED BY <3>1
  <2>2. CASE PathSend
    <3>1. cap = "send" /\ cap' = "check" /\ hand' = NoPacket
      BY <2>2 DEF PathSend, CountSend, CapSend
    <3>2. CASE queue < ChanCap
      BY <2>2, <3>1, <3>2 DEF PathSend, CountSend, CapSend
    <3>3. CASE ~(queue < ChanCap)
      BY <2>2, <3>1, <3>3 DEF PathSend, CountSend, CapSend
    <3> QED BY <3>2, <3>3
  <2>3. CASE PathTaken
    <3>1. queue > 0 /\ queue' = queue - 1 /\ chan' = Tail(chan) /\ UNCHANGED <<cap, hand>>
      BY <2>3 DEF PathTaken, CountTaken, MainFirst, MainDrain
    <3> QED BY <3>1
  <2>4. CASE Moves \/ HalfSecond
    BY <2>4 DEF Moves, HalfSecond
  <2>5. CASE PathIgnored
    BY <2>5 DEF PathIgnored, CountIgnored, CapIgnored
  <2>6. CASE PathBoot \/ PathTop \/ PathDrained \/ PathTick \/ PathStop
    BY <2>6 DEF PathBoot, PathTop, PathDrained, CountDrained, PathTick, PathStop,
                MainBoot, MainTop, MainDrained, MainTick, MainStop
  <2>7. CASE PathQuiet
    BY <2>7 DEF PathQuiet, PathIpcEnds, CtrlC, SecondPasses, Terminating, CapOpen, CapCheck,
                CapRecvFails, MainTimeout, MainDisconnected, MainJoinCapture, MainJoinIpc, IpcCheck
  <2>8. CASE UNCHANGED pathAll
    BY <2>8 DEF pathAll, allVars
  <2> QED BY <2>1, <2>2, <2>3, <2>4, <2>5, <2>6, <2>7, <2>8 DEF PathNext
<1> DEFINE Amounts == usage \in Nat /\ lost \in Nat /\ sent \in Nat
<1>3. /\ \A t \in Parsed : t.length \in Nat
      /\ Bytes(chan) \in Nat
      /\ \A t \in Parsed : Bytes(Append(chan, t)) = Bytes(chan) + t.length
      /\ chan # <<>> => Bytes(chan) = Head(chan).length + Bytes(Tail(chan))
  <2>1. \A t \in Parsed : t.length \in Nat
    BY ParsedPacket
  <2>2. chan \in Seq(Parsed)
    OBVIOUS
  <2> HIDE DEF PathInv
  <2> QED BY <2>1, <2>2, BytesFacts
<1>4. Amounts' /\ BytesConserved'
  <2>1. CASE PathSend
    <3>1. UNCHANGED <<usage, lost>> /\ hand \in Parsed
      BY <2>1 DEF PathSend, CountSend, CapSend
    <3>2. CASE queue < ChanCap
      <4>1. chan' = Append(chan, hand) /\ sent' = sent + hand.length
        BY <2>1, <3>2 DEF PathSend
      <4>2. Bytes(chan') = Bytes(chan) + hand.length
        BY <1>3, <3>1, <4>1
      <4> QED BY <1>3, <3>1, <4>1, <4>2 DEF BytesConserved
    <3>3. CASE ~(queue < ChanCap)
      <4>1. UNCHANGED <<chan, sent>>
        BY <2>1, <3>3 DEF PathSend
      <4> QED BY <3>1, <4>1 DEF BytesConserved
    <3> QED BY <3>2, <3>3
  <2>2. CASE PathTaken
    <3> DEFINE p == Head(chan)
    <3>1. chan # <<>> /\ chan' = Tail(chan) /\ process_packet(p) /\ UNCHANGED sent
      BY <2>2 DEF PathTaken, CountTaken, MainFirst, MainDrain
    <3>2. p \in Parsed
      BY <3>1
    <3> HIDE DEF p
    <3>3. PICK x \in Nat : x = p.length
      BY <1>3, <3>2
    <3>4. \/ usage' = usage + x /\ lost' = lost
          \/ lost' = lost + x /\ usage' = usage
      BY <3>1, <3>3 DEF process_packet
    <3>5. Bytes(chan) = x + Bytes(chan')
      BY <1>3, <3>1, <3>3 DEF p
    <3>6. Bytes(chan') \in Nat
      <4>1. chan' \in Seq(Parsed)
        BY <1>2
      <4> QED BY <1>3, <4>1, BytesFacts
    <3>7. Amounts /\ usage + lost + Bytes(chan) = sent /\ sent' = sent
      BY <3>1 DEF BytesConserved
    <3> HIDE DEF PathInv
    <3>8. Amounts' /\ usage' + lost' + Bytes(chan') = sent'
      BY <3>4, <3>5, <3>6, <3>7
    <3> QED BY <3>8 DEF BytesConserved
  <2>3. CASE \/ Moves \/ HalfSecond \/ PathParsed \/ PathIgnored \/ PathBoot \/ PathTop
             \/ PathDrained \/ PathTick \/ PathStop \/ PathQuiet \/ UNCHANGED pathAll
    <3>1. UNCHANGED <<chan, usage, lost, sent>>
      BY <2>3 DEF Moves, HalfSecond, PathParsed, PathIgnored, PathBoot, PathTop, PathDrained,
                  PathTick, PathStop, PathQuiet, pathAll
    <3> QED BY <3>1 DEF BytesConserved
  <2> QED BY <2>1, <2>2, <2>3 DEF PathNext
<1> DEFINE ended == main \in {"joinCapture", "joinIpc", "done"}
<1>5. ended' => served' = usage'
  <2>1. CASE PathStop
    BY <2>1 DEF PathStop
  <2>2. CASE PathTick \/ PathTaken \/ PathBoot \/ PathTop \/ PathDrained
    <3>1. ~ended'
      BY <2>2 DEF PathTick, PathTaken, PathBoot, PathTop, PathDrained, CountDrained, CountTaken,
                  MainTick, MainFirst, MainDrain, MainBoot, MainTop, MainDrained
    <3> QED BY <3>1
  <2>3. CASE \/ Moves \/ HalfSecond \/ PathParsed \/ PathIgnored \/ PathSend
             \/ PathQuiet \/ UNCHANGED pathAll
    <3>1. UNCHANGED <<served, usage>>
      BY <2>3 DEF Moves, HalfSecond, PathParsed, PathIgnored, PathSend, PathQuiet, pathAll
    <3>2. ended' => ended
      <4>1. CASE Moves \/ HalfSecond \/ UNCHANGED pathAll
        BY <4>1 DEF Moves, HalfSecond, pathAll, allVars
      <4>2. CASE PathParsed \/ PathIgnored \/ PathSend
        BY <4>2 DEF PathParsed, PathIgnored, PathSend, CountParsed, CountIgnored, CountSend,
                    CapParsed, CapIgnored, CapSend
      <4>3. CASE PathQuiet
        BY <4>3 DEF PathQuiet, PathIpcEnds, CtrlC, SecondPasses, Terminating, CapOpen, CapCheck,
                    CapRecvFails, MainTimeout, MainDisconnected, MainJoinCapture, MainJoinIpc,
                    IpcCheck
      <4> QED BY <2>3, <4>1, <4>2, <4>3
    <3> QED BY <3>1, <3>2
  <2> QED BY <2>1, <2>2, <2>3 DEF PathNext
<1> QED BY <1>1, <1>2, <1>4, <1>5

(* The strengthened invariant holds in every reachable state.              *)
LEMMA PathInvCorrect == PathSpec => []PathInv
<1>1. PathInit => PathInv
  <2> SUFFICES ASSUME PathInit PROVE PathInv
    OBVIOUS
  <2>1. CountInv
    BY CountInitInv DEF PathInit
  <2>2. chan = <<>> /\ queue = 0 /\ cap # "send" /\ hand = NoPacket /\ main = "boot"
    BY DEF PathInit, CountInit, Init
  <2>3. usage = 0 /\ lost = 0 /\ sent = 0 /\ Bytes(chan) = 0
    <3>1. <<>> \in Seq({}) /\ \A t \in {} : t.length \in Nat
      OBVIOUS
    <3> QED BY <2>2, <3>1, BytesFacts DEF PathInit
  <2> QED BY <2>1, <2>2, <2>3 DEF PathInv, BytesConserved
<1> QED BY <1>1, PathInvInductive, PTL DEF PathSpec, pathAll

(* Whatever the sockets, the packets, the tables that fail and the stops:  *)
(* once the loop has ended, every byte the capture thread sent is in the   *)
(* history that is served, but for what nobody was found for, and what a   *)
(* stop left in the channel.                                               *)
THEOREM LastHistoryIsComplete == PathSpec => []LastHistoryComplete
<1>1. PathInv => LastHistoryComplete
  <2> SUFFICES ASSUME PathInv, main \in {"joinCapture", "joinIpc", "done"}
               PROVE  served + lost = IF running THEN sent ELSE sent - Bytes(chan)
    BY DEF LastHistoryComplete
  <2>1. /\ served = usage /\ usage \in Nat /\ lost \in Nat /\ sent \in Nat
        /\ usage + lost + Bytes(chan) = sent /\ chan \in Seq(Parsed)
    BY DEF PathInv, BytesConserved
  <2>2. Bytes(chan) \in Nat /\ (chan = <<>> => Bytes(chan) = 0)
    <3>1. \A t \in Parsed : t.length \in Nat
      BY ParsedPacket
    <3> QED BY <2>1, <3>1, BytesFacts
  <2>3. running => chan = <<>>
    <3>1. running => queue = 0
      BY DEF PathInv, CountInv, DisconnectDrainsAll, looping, senderDropped
    <3> QED BY <2>1, <3>1 DEF PathInv
  <2> QED BY <2>1, <2>2, <2>3
<1> QED BY <1>1, PathInvCorrect, PTL

-----------------------------------------------------------------------------
(* To whom a packet is credited.                                           *)

(* In either direction, an honest packet is looked up by the row of its    *)
(* socket, with an address in place of the wildcard.                       *)
LEMMA LookupKey ==
  ASSUME NEW p \in Parsed, Honest(p.of)
  PROVE  LET s == p.of.socket
             k == Key(s.proto, s.fam, IF s.local = AnyAddress THEN Here ELSE s.local,
                      s.lport, s.remote, s.rport)
         IN  /\ s \in Sockets
             /\ lookup_pid(p) = IF k \in Keys THEN index[k] ELSE NoPid
<1> DEFINE w == p.of
           s == w.socket
           local == IF s.local = AnyAddress THEN Here ELSE s.local
<1>1. /\ w \in Delivered /\ s \in Sockets
      /\ p.ends = EndsRead(w) /\ p.proto = s.proto /\ p.fam = s.fam /\ p.outbound = w.outbound
  BY ParsedPacket DEF Honest, Delivered
<1>2. EndsRead(w) = Ends(s, local, w.outbound)
  <2>1. w.ihl \in Nat /\ ~(w.version = 4 /\ w.ihl < 20)
    BY <1>1 DEF Honest, Delivered
  <2> QED BY <2>1 DEF EndsRead, OnWire
<1>3. CASE w.outbound
  <2>1. p.ends.src = local /\ p.ends.sport = s.lport /\ p.ends.dst = s.remote /\ p.ends.dport = s.rport
    BY <1>1, <1>2, <1>3 DEF Ends
  <2> QED BY <1>1, <1>3, <2>1 DEF lookup_pid
<1>4. CASE ~w.outbound
  <2>1. p.ends.dst = local /\ p.ends.dport = s.lport /\ p.ends.src = s.remote /\ p.ends.sport = s.rport
    BY <1>1, <1>2, <1>4 DEF Ends
  <2> QED BY <1>1, <1>4, <2>1 DEF lookup_pid
<1> QED BY <1>3, <1>4

(* What it finds there.                                                    *)
LEMMA LookupFinds ==
  ASSUME RowsDistinct, TablesInv, NEW p \in Parsed, Honest(p.of)
  PROVE  /\ p.of.socket \in Sockets
         /\ lookup_pid(p) = IF readable(p.of.socket) THEN seen[p.of.socket] ELSE NoPid
<1> DEFINE s == p.of.socket
<1>1. s \in Sockets
  BY LookupKey
<1>2. CASE s.local = AnyAddress
  <2> DEFINE k == Key(s.proto, s.fam, Here, s.lport, s.remote, s.rport)
  <2>1. k \notin Keys
    BY <1>1, <1>2 DEF RowsDistinct, Keys
  <2>2. lookup_pid(p) = IF k \in Keys THEN index[k] ELSE NoPid
    BY <1>2, LookupKey
  <2> HIDE DEF k
  <2> QED BY <1>1, <1>2, <2>1, <2>2 DEF readable
<1>3. CASE s.local # AnyAddress
  <2>1. RowKey(s) \in Keys
    BY <1>1 DEF Keys
  <2>2. lookup_pid(p) = IF RowKey(s) \in Keys THEN index[RowKey(s)] ELSE NoPid
    BY <1>3, LookupKey DEF RowKey
  <2>3. index[RowKey(s)] = IF Table(s.proto, s.fam) \in failed THEN NoPid ELSE seen[s]
    BY <1>1 DEF TablesInv
  <2> QED BY <1>1, <1>3, <2>1, <2>2, <2>3 DEF readable
<1> QED BY <1>2, <1>3

(* A batch takes the first packet of the channel, and credits it so.       *)
LEMMA TakenIsCredited ==
  ASSUME RowsDistinct, TablesInv, PathInv, [PathNext]_pathAll, takes, Honest(first)
  PROVE  /\ first.socket \in Sockets
         /\ toOnly(IF readable(first.socket) THEN seen[first.socket] ELSE NoPid)
<1> USE DEF counters
<1>1. PathTaken
  <2>1. CASE Moves \/ HalfSecond \/ PathIgnored \/ PathParsed \/ PathSend
    BY <2>1 DEF Moves, HalfSecond, PathIgnored, PathParsed, PathSend, CountIgnored, CountParsed,
                CountSend, takes, PathInv, CountInv, CountTypeOK
  <2>2. CASE PathBoot \/ PathTop \/ PathTick \/ PathStop \/ PathQuiet
    BY <2>2 DEF PathBoot, PathTop, PathTick, PathStop, PathQuiet, takes, PathInv, CountInv, CountTypeOK
  <2>3. CASE PathDrained
    BY <2>3 DEF PathDrained, CountDrained, takes, PathInv, CountInv, CountTypeOK
  <2>4. CASE UNCHANGED pathAll
    BY <2>4 DEF pathAll, allVars, takes, PathInv, CountInv, CountTypeOK
  <2> QED BY <2>1, <2>2, <2>3, <2>4 DEF PathNext
<1> DEFINE p == Head(chan)
<1>2. p \in Parsed /\ process_packet(p)
  <2>1. queue > 0
    BY <1>1 DEF PathTaken, CountTaken, MainFirst, MainDrain
  <2>2. chan \in Seq(Parsed) /\ chan # <<>>
    BY <2>1 DEF PathInv
  <2>3. p \in Parsed
    BY <2>2
  <2> QED BY <1>1, <2>3 DEF PathTaken
<1>3. first = p.of
  BY DEF first
<1> HIDE DEF p
<1>4. /\ first.socket \in Sockets
      /\ lookup_pid(p) = IF readable(first.socket) THEN seen[first.socket] ELSE NoPid
  BY <1>2, <1>3, LookupFinds
<1>5. p.length = first.size /\ first.size \in Nat
  BY <1>2, <1>3, ParsedPacket DEF Honest, Delivered
<1>6. recorded \in [Pids -> Nat] /\ lookup_pid(p) \in Pids \cup {NoPid}
  BY <1>4 DEF TablesInv, Owned
<1> DEFINE pid == lookup_pid(p)
<1>7. toOnly(pid)
  <2> HIDE DEF pid
  <2>1. CASE pid = NoPid
    <3>1. recorded' = recorded
      BY <1>2, <2>1 DEF process_packet, pid
    <3> QED BY <1>6, <2>1, <3>1, NoPidAssumption DEF toOnly, credited
  <2>2. CASE pid # NoPid
    <3>1. recorded' = [recorded EXCEPT ![pid] = @ + first.size] /\ pid \in Pids
      BY <1>2, <1>5, <1>6, <2>2 DEF process_packet, pid
    <3> QED BY <1>5, <1>6, <3>1 DEF toOnly, credited
  <2> QED BY <2>1, <2>2
<1> QED BY <1>4, <1>7

-----------------------------------------------------------------------------
(* The tables.                                                             *)

(* A rebuilt index has each socket of a table that could be read under its *)
(* own row, and nobody under the others.                                   *)
LEMMA Rebuilt ==
  ASSUME RowsDistinct, owner \in Owned, rebuild_table_indexes
  PROVE  /\ seen' = owner
         /\ index' \in [Keys -> Pids \cup {NoPid}]
         /\ \A s \in Sockets : index'[RowKey(s)] =
              IF Table(s.proto, s.fam) \in failed' THEN NoPid ELSE seen'[s]
<1>1. PICK bad \in SUBSET MayFail :
        /\ index' = [k \in Keys |->
                       LET rows == {s \in Rows(k[1], k[1] \in bad) : RowKey(s) = k}
                       IN  IF rows = {} THEN NoPid ELSE owner[CHOOSE s \in rows : TRUE]]
        /\ seen' = owner /\ failed' = bad
  BY DEF rebuild_table_indexes
<1> DEFINE rows(k) == {s \in Rows(k[1], k[1] \in bad) : RowKey(s) = k}
           entry(k) == IF rows(k) = {} THEN NoPid ELSE owner[CHOOSE s \in rows(k) : TRUE]
<1>2. \A k \in Keys : entry(k) \in Pids \cup {NoPid}
  <2> SUFFICES ASSUME NEW k \in Keys, rows(k) # {} PROVE entry(k) \in Pids \cup {NoPid}
    OBVIOUS
  <2>1. rows(k) \subseteq Sockets
    BY DEF Rows
  <2>2. (CHOOSE s \in rows(k) : TRUE) \in rows(k)
    OBVIOUS
  <2> HIDE DEF rows
  <2> QED BY <2>1, <2>2 DEF Owned
<1>3. ASSUME NEW s \in Sockets
      PROVE  entry(RowKey(s)) = IF Table(s.proto, s.fam) \in bad THEN NoPid ELSE owner[s]
  <2> DEFINE k == RowKey(s)
  <2>1. k[1] = Table(s.proto, s.fam)
    BY DEF RowKey, Key
  <2>2. rows(k) = IF k[1] \in bad \/ owner[s] = NoPid THEN {} ELSE {s}
    <3>1. \A t \in Sockets : RowKey(t) = k => t = s
      BY DEF RowsDistinct
    <3> HIDE DEF k
    <3>2. rows(k) \subseteq {s}
      BY <3>1 DEF Rows
    <3>3. s \in rows(k) <=> ~(k[1] \in bad) /\ owner[s] # NoPid
      BY <2>1 DEF Rows, k
    <3> QED BY <3>2, <3>3
  <2> HIDE DEF k, rows
  <2>3. CASE k[1] \in bad \/ owner[s] = NoPid
    BY <2>1, <2>2, <2>3 DEF k
  <2>4. CASE ~(k[1] \in bad \/ owner[s] = NoPid)
    <3>1. rows(k) = {s} /\ (CHOOSE t \in {s} : TRUE) = s
      BY <2>2, <2>4
    <3> QED BY <2>1, <2>4, <3>1 DEF k
  <2> QED BY <2>3, <2>4
<1>4. \A s \in Sockets : RowKey(s) \in Keys
  BY DEF Keys
<1>5. index' = [k \in Keys |-> entry(k)]
  BY <1>1
<1> HIDE DEF entry
<1> QED BY <1>1, <1>2, <1>3, <1>4, <1>5

(* Each step keeps the invariant of the tables.                            *)
LEMMA TablesInvInductive ==
  ASSUME RowsDistinct, TablesInv, PathInv, [PathNext]_pathAll
  PROVE  TablesInv'
<1> USE DEF system, tables, books, counters
<1> DEFINE Rec == recorded \in [Pids -> Nat]
           Idx == /\ index \in [Keys -> Pids \cup {NoPid}]
                  /\ \A s \in Sockets : index[RowKey(s)] =
                       IF Table(s.proto, s.fam) \in failed THEN NoPid ELSE seen[s]
           Own == owner \in Owned /\ seen \in Owned
           Age == since \in 0..2 /\ due \in BOOLEAN
           Fresh == (~due /\ since > 0) \/ (main = "recv" /\ since = 2) => seen = owner
<1>0. Rec /\ Idx /\ Own /\ Age /\ Fresh
  BY DEF TablesInv
<1>1. CASE Moves
  <2>1. UNCHANGED <<main, index, seen, failed, due, recorded>> /\ since' = 0 /\ owner' \in Owned
    <3>1. PICK s \in Sockets, p \in Pids \cup {NoPid} : owner' = [owner EXCEPT ![s] = p]
      BY <1>1 DEF Moves
    <3>2. owner' \in Owned
      BY <1>0, <3>1 DEF Owned
    <3> QED BY <1>1, <3>2 DEF Moves, vars, mainVars
  <2>2. Rec' /\ Idx' /\ Own' /\ Age' /\ Fresh'
    BY <1>0, <2>1
  <2> QED BY <2>2 DEF TablesInv
<1>2. CASE HalfSecond
  <2>1. /\ UNCHANGED <<main, index, seen, failed, owner, recorded>>
        /\ due' = TRUE /\ since' = IF since < 2 THEN since + 1 ELSE since
        /\ ~due \/ main = "drain"
    BY <1>2 DEF HalfSecond, vars, mainVars
  <2>2. Rec' /\ Idx' /\ Own' /\ Age' /\ Fresh'
    BY <1>0, <2>1
  <2> QED BY <2>2 DEF TablesInv
<1>3. CASE PathBoot
  <2>1. seen' = owner /\ UNCHANGED <<owner, since, recorded>> /\ due' = FALSE
    BY <1>3 DEF PathBoot, rebuild_table_indexes
  <2>2. Idx'
    BY <1>0, <1>3, Rebuilt DEF PathBoot
  <2>3. Rec' /\ Own' /\ Age' /\ Fresh'
    BY <1>0, <2>1
  <2> QED BY <2>2, <2>3 DEF TablesInv
<1>4. CASE PathTop
  <2>1. UNCHANGED <<owner, since, recorded>> /\ main' = IF running THEN "recv" ELSE "stopping"
    BY <1>4 DEF PathTop, MainTop
  <2>2. CASE running /\ due
    <3>1. rebuild_table_indexes /\ due' = FALSE /\ seen' = owner
      BY <1>4, <2>2 DEF PathTop, maybe_refresh_tables, rebuild_table_indexes
    <3>2. Idx'
      BY <1>0, <3>1, Rebuilt
    <3>3. Rec' /\ Own' /\ Age' /\ Fresh'
      BY <1>0, <2>1, <3>1
    <3> QED BY <3>2, <3>3 DEF TablesInv
  <2>3. CASE ~(running /\ due)
    <3>1. UNCHANGED tables
      BY <1>4, <2>3 DEF PathTop, maybe_refresh_tables
    <3>2. Rec' /\ Idx' /\ Own' /\ Age' /\ Fresh'
      BY <1>0, <2>1, <2>3, <3>1
    <3> QED BY <3>2 DEF TablesInv
  <2> QED BY <2>2, <2>3
<1>5. CASE PathTaken
  <2>1. UNCHANGED <<owner, since, index, seen, failed, due>> /\ main' = "drain"
    BY <1>5 DEF PathTaken, CountTaken, MainFirst, MainDrain, mainVars
  <2> DEFINE p == Head(chan)
             pid == lookup_pid(p)
  <2>2. p \in Parsed /\ process_packet(p)
    <3>1. queue > 0 /\ process_packet(p)
      BY <1>5 DEF PathTaken, CountTaken, MainFirst, MainDrain
    <3> QED BY <3>1 DEF PathInv
  <2> HIDE DEF p
  <2>3. p.length \in Nat
    BY <2>2, ParsedPacket
  <2>4. Rec'
    <3>1. pid \in Pids \cup {NoPid}
      BY <1>0 DEF lookup_pid
    <3>2. CASE pid = NoPid
      BY <1>0, <2>2, <3>2 DEF process_packet
    <3>3. CASE pid # NoPid
      <4>1. pid \in Pids /\ recorded' = [recorded EXCEPT ![pid] = @ + p.length]
        BY <2>2, <3>1, <3>3 DEF process_packet
      <4> HIDE DEF pid
      <4> QED BY <1>0, <2>3, <4>1
    <3> QED BY <3>2, <3>3
  <2>5. Idx' /\ Own' /\ Age' /\ Fresh'
    BY <1>0, <2>1
  <2> QED BY <2>4, <2>5 DEF TablesInv
<1>6. CASE PathParsed \/ PathIgnored \/ PathSend \/ PathTick \/ PathStop \/ PathDrained
           \/ PathQuiet \/ UNCHANGED pathAll
  <2>1. UNCHANGED <<owner, since, index, seen, failed, due, recorded>>
    BY <1>6 DEF PathParsed, PathIgnored, PathSend, PathTick, PathStop, PathDrained, PathQuiet,
                pathAll, pathVars
  <2>2. main' = "recv" => main = "recv"
    <3>1. CASE PathParsed \/ PathIgnored \/ PathSend
      BY <3>1 DEF PathParsed, PathIgnored, PathSend, CountParsed, CountIgnored, CountSend,
                  CapParsed, CapIgnored, CapSend, mainVars
    <3>2. CASE PathTick \/ PathStop \/ PathDrained
      BY <3>2 DEF PathTick, PathStop, PathDrained, CountDrained, MainTick, MainStop, MainDrained
    <3>3. CASE PathQuiet
      BY <3>3 DEF PathQuiet, PathIpcEnds, CtrlC, SecondPasses, Terminating, CapOpen, CapCheck,
                  CapRecvFails, MainTimeout, MainDisconnected, MainJoinCapture, MainJoinIpc,
                  IpcCheck, vars, mainVars
    <3>4. CASE UNCHANGED pathAll
      BY <3>4 DEF pathAll, allVars, vars, mainVars
    <3> QED BY <1>6, <3>1, <3>2, <3>3, <3>4
  <2>3. Rec' /\ Idx' /\ Own' /\ Age' /\ Fresh'
    BY <1>0, <2>1, <2>2
  <2> QED BY <2>3 DEF TablesInv
<1> QED BY <1>1, <1>2, <1>3, <1>4, <1>5, <1>6 DEF PathNext

(* For sockets that share no row, the index is what the tables said when   *)
(* they were last read, and that is not long ago when it is used.          *)
THEOREM TablesInvCorrect ==
  ASSUME RowsDistinct
  PROVE  PathSpec => []TablesInv
<1>1. PathInit => TablesInv
  <2> SUFFICES ASSUME PathInit PROVE TablesInv
    OBVIOUS
  <2>1. owner \in Owned /\ seen \in Owned
    BY StartAssumption DEF PathInit, Owned
  <2>2. \A s \in Sockets : RowKey(s) \in Keys
    BY DEF Keys
  <2>3. /\ index = [k \in Keys |-> NoPid] /\ seen = [s \in Sockets |-> NoPid]
        /\ failed = {} /\ due = FALSE /\ since = 0 /\ recorded = [p \in Pids |-> 0]
    BY DEF PathInit
  <2>4. main = "boot"
    BY DEF PathInit, CountInit, Init
  <2>5. index \in [Keys -> Pids \cup {NoPid}]
    BY <2>3
  <2>6. \A s \in Sockets : index[RowKey(s)] = NoPid /\ seen[s] = NoPid
    BY <2>2, <2>3
  <2>7. recorded \in [Pids -> Nat] /\ since \in 0..2 /\ due \in BOOLEAN
    <3>1. due \in BOOLEAN
      BY <2>3, Zenon
    <3>2. recorded \in [Pids -> Nat] /\ since \in 0..2
      BY <2>3
    <3> QED BY <3>1, <3>2
  <2>8. ~((~due /\ since > 0) \/ (main = "recv" /\ since = 2))
    BY <2>3, <2>4
  <2> QED BY <2>1, <2>3, <2>5, <2>6, <2>7, <2>8 DEF TablesInv
<1> QED BY <1>1, PathInvCorrect, TablesInvInductive, PTL DEF PathSpec, pathAll

(* Each packet is credited with its size to the process that had its       *)
(* socket when the tables were read, and to nobody when they could not say.*)
THEOREM EachCreditedAsSeen ==
  ASSUME RowsDistinct
  PROVE  PathSpec => CreditedAsSeen
<1>1. TablesInv /\ PathInv /\ [PathNext]_pathAll =>
        [takes /\ Honest(first) =>
           toOnly(IF readable(first.socket) THEN seen[first.socket] ELSE NoPid)]_allVars
  BY TakenIsCredited
<1> QED BY <1>1, PathInvCorrect, TablesInvCorrect, PTL DEF PathSpec, CreditedAsSeen, pathAll

(* When nothing has changed hands for a second, the packet a batch begins  *)
(* with is credited to the present owner of its socket.                    *)
THEOREM FirstCreditedToOwner ==
  ASSUME RowsDistinct
  PROVE  PathSpec => CreditedToOwner
<1>1. TablesInv /\ PathInv /\ [PathNext]_pathAll =>
        [takes /\ main = "recv" /\ since = 2 /\ Honest(first) /\ readable(first.socket) =>
           toOnly(owner[first.socket])]_allVars
  <2> SUFFICES ASSUME TablesInv, PathInv, [PathNext]_pathAll, takes, main = "recv", since = 2,
                      Honest(first), readable(first.socket)
               PROVE  toOnly(owner[first.socket])
    OBVIOUS
  <2>1. toOnly(seen[first.socket])
    BY TakenIsCredited
  <2>2. seen = owner
    BY DEF TablesInv
  <2> QED BY <2>1, <2>2
<1> QED BY <1>1, PathInvCorrect, TablesInvCorrect, PTL DEF PathSpec, CreditedToOwner, pathAll
=============================================================================
