--------------------------- MODULE IpcSessionProofs ---------------------------
(***************************************************************************)
(* Proofs about IpcSession for any number of publications and of missed    *)
(* deadlines: the client lags by exactly the deadlines it missed, as long  *)
(* as it missed none every answer is the one it asked for, and what is     *)
(* shown never goes back in time.                                          *)
(***************************************************************************)
EXTENDS IpcSession, SequenceTheorems, TLAPS

(* Version 0 exists, no answer and the rest of one are answers, and <<>>   *)
(* is a line-up of anything.                                               *)
LEMMA Basics == /\ 0 \in 0..MaxVersion
                /\ NoAnswer \in Answers /\ Torn \in Answers
                /\ \A k \in Kinds, v \in 0..MaxVersion : Answer(k, v) \in Answers
                /\ <<>> \in Seq(Kinds) /\ <<>> \in Seq(Answers)
                /\ "none" \notin Kinds
<1>1. 0 \in 0..MaxVersion
  BY BoundsAssumption
<1>2. /\ NoAnswer \in Answers /\ Torn \in Answers
      /\ \A k \in Kinds, v \in 0..MaxVersion : Answer(k, v) \in Answers
  BY <1>1 DEF NoAnswer, Torn, Answers, Answer
<1>3. <<>> \in Seq(Kinds) /\ <<>> \in Seq(Answers)
  OBVIOUS
<1> QED BY <1>1, <1>2, <1>3 DEF Kinds

(* Every variable keeps its type.                                          *)
THEOREM TypeCorrect == Spec => []TypeOK
<1> USE Basics DEF Nothing
<1>1. Init => TypeOK
  <2> SUFFICES ASSUME Init PROVE TypeOK
    OBVIOUS
  <2>1. /\ published \in [Kinds -> 0..MaxVersion] /\ cache \in [Kinds -> 0..MaxVersion]
        /\ failed \in [Kinds -> BOOLEAN]
    BY DEF Init
  <2>2. answer \in Answers /\ requests \in Seq(Kinds) /\ wire \in Seq(Answers)
    BY DEF Init
  <2>3. asked \in 0..MaxVersion /\ timeouts \in 0..MaxTimeouts
    BY BoundsAssumption DEF Init
  <2> QED BY <2>1, <2>2, <2>3 DEF Init, TypeOK
<1>2. TypeOK /\ [Next]_vars => TypeOK'
  <2> SUFFICES ASSUME TypeOK, [Next]_vars PROVE TypeOK'
    OBVIOUS
  <2> USE DEF TypeOK, core, pipe, poll, service
  <2>1. ASSUME NEW k \in Kinds, Publish(k) PROVE TypeOK'
    BY <2>1, BoundsAssumption DEF Publish, Kinds
  <2>2. ASSUME NEW k \in Kinds, Asks(k) PROVE TypeOK'
    BY <2>2 DEF Asks
  <2>3. CASE ServerReads
    <3>1. Head(requests) \in Kinds /\ Tail(requests) \in Seq(Kinds)
      BY <2>3 DEF ServerReads
    <3>2. published[Head(requests)] \in 0..MaxVersion
      BY <3>1
    <3>3. answer' \in Answers
      BY <2>3, <3>1, <3>2 DEF ServerReads
    <3> QED BY <2>3, <3>1, <3>3 DEF ServerReads
  <2>4. CASE ServerWrites
    <3>1. wire' \in Seq(Answers) /\ answer' \in Answers
      BY <2>4 DEF ServerWrites
    <3> QED BY <2>4, <3>1 DEF ServerWrites
  <2>5. CASE ServerFlushed
    BY <2>5 DEF ServerFlushed
  <2>6. CASE ServerGoes
    <3>1. wire' \in Seq(Answers) /\ requests' \in Seq(Kinds) /\ answer' \in Answers
      BY <2>6 DEF ServerGoes
    <3> QED BY <2>6, <3>1 DEF ServerGoes
  <2>7. CASE ReadsPart
    BY <2>7 DEF ReadsPart
  <2>8. CASE Receives
    <3>1. Head(wire) \in Answers /\ wire' \in Seq(Answers)
      BY <2>8 DEF Receives
    <3>2. asking \in Kinds /\ Head(wire).v \in 0..MaxVersion
      BY <2>8, <3>1 DEF Receives, Answers
    <3>3. /\ cache' \in [Kinds -> 0..MaxVersion] /\ failed' \in [Kinds -> BOOLEAN]
          /\ asking' = "none" /\ part' = FALSE
      BY <2>8, <3>2 DEF Receives, Fails
    <3> QED BY <2>8, <3>1, <3>3 DEF Receives
  <2>9. CASE TimesOut
    <3>1. wire' \in Seq(Answers)
      <4>1. CASE wire = <<>>
        BY <2>9, <4>1 DEF TimesOut
      <4>2. CASE wire # <<>>
        <5>1. Tail(wire) \in Seq(Answers) /\ <<Torn>> \in Seq(Answers)
          BY <4>2
        <5>2. <<Torn>> \o Tail(wire) \in Seq(Answers)
          BY <5>1
        <5> QED BY <2>9, <5>2 DEF TimesOut
      <4> QED BY <4>1, <4>2
    <3>2. failed' \in [Kinds -> BOOLEAN] /\ timeouts' \in 0..MaxTimeouts
      BY <2>9, BoundsAssumption DEF TimesOut, Fails
    <3> QED BY <2>9, <3>1, <3>2 DEF TimesOut, Fails
  <2>10. CASE Breaks
    BY <2>10 DEF Breaks, Fails
  <2>11. CASE UNCHANGED vars
    BY <2>11 DEF vars
  <2> QED BY <2>1, <2>2, <2>3, <2>4, <2>5, <2>6, <2>7, <2>8, <2>9, <2>10, <2>11
          DEF Next, Server, Client
<1> QED BY <1>1, <1>2, PTL DEF Spec

-----------------------------------------------------------------------------
(* A part that was read is the start of a line that is there; what is      *)
(* under way is counted by LagIsTimeouts and described by OnlyCurrent.     *)
PartOfLine == part => wire # <<>>
SessionInv == LagIsTimeouts /\ PartOfLine /\ OnlyCurrent

(* When no deadline was missed and nothing is asked, nothing is under way. *)
LEMMA IdleIsEmpty ==
  ASSUME TypeOK, LagIsTimeouts, timeouts = 0, server # "gone", asking = "none"
  PROVE  requests = <<>> /\ wire = <<>> /\ server # "write"
<1>1. Len(requests) \in Nat /\ Len(wire) \in Nat
  BY DEF TypeOK
<1>2. Len(requests) = 0 /\ Len(wire) = 0 /\ server # "write"
  BY <1>1 DEF LagIsTimeouts, UnderWay
<1> QED BY <1>2, EmptySeq DEF TypeOK

(* While an answer to the current poll is being written, or waits to be    *)
(* read, nothing else is under way.                                        *)
LEMMA OneUnderWay ==
  ASSUME TypeOK, LagIsTimeouts, timeouts = 0, server # "gone"
  PROVE  /\ requests # <<>> => wire = <<>> /\ Len(requests) = 1 /\ server # "write"
         /\ server = "write" => wire = <<>> /\ requests = <<>>
         /\ wire # <<>> => requests = <<>> /\ Len(wire) = 1 /\ server # "write"
<1>1. /\ Len(requests) \in Nat /\ Len(wire) \in Nat
      /\ requests # <<>> <=> Len(requests) # 0
      /\ wire # <<>> <=> Len(wire) # 0
  BY EmptySeq DEF TypeOK
<1>2. CASE server = "write"
  <2>1. Len(requests) + Len(wire) + 1 <= 1
    BY <1>1, <1>2 DEF LagIsTimeouts, UnderWay
  <2>2. Len(requests) = 0 /\ Len(wire) = 0
    BY <1>1, <2>1
  <2> QED BY <1>1, <1>2, <2>2
<1>3. CASE server # "write"
  <2>1. Len(requests) + Len(wire) <= 1
    BY <1>1, <1>3 DEF LagIsTimeouts, UnderWay
  <2>2. /\ Len(requests) # 0 => Len(requests) = 1 /\ Len(wire) = 0
        /\ Len(wire) # 0 => Len(wire) = 1 /\ Len(requests) = 0
    <3>1. \A m, n \in Nat : m + n <= 1 =>
             (m # 0 => m = 1 /\ n = 0) /\ (n # 0 => n = 1 /\ m = 0)
      OBVIOUS
    <3> QED BY <1>1, <2>1, <3>1
  <2> QED BY <1>1, <1>3, <2>2
<1> QED BY <1>2, <1>3

(* Every step keeps the invariant.                                         *)
LEMMA SessionInvInductive ==
  ASSUME TypeOK, TypeOK', SessionInv, [Next]_vars
  PROVE  SessionInv'
<1> USE DEF SessionInv, core, pipe, poll, service
<1>0. /\ Len(requests) \in Nat /\ Len(wire) \in Nat /\ timeouts \in Nat
      /\ requests \in Seq(Kinds) /\ wire \in Seq(Answers) /\ "none" \notin Kinds
      /\ NoAnswer \in Answers
  BY BoundsAssumption, Basics DEF TypeOK
<1>1. ASSUME NEW k \in Kinds, Publish(k) PROVE SessionInv'
  <2>1. /\ UNCHANGED <<server, answer, requests, wire, asking, asked, part, timeouts>>
        /\ published' = [published EXCEPT ![k] = published[k] + 1]
    BY <1>1 DEF Publish
  <2>2. \A j \in Kinds : published'[j] >= published[j] /\ published[j] \in Nat
                          /\ published'[j] \in Nat
    BY <2>1, BoundsAssumption DEF TypeOK
  <2>3. asking # "none" => asking \in Kinds /\ asked \in Nat
    BY BoundsAssumption DEF TypeOK
  <2> QED BY <2>1, <2>2, <2>3 DEF LagIsTimeouts, UnderWay, PartOfLine, OnlyCurrent, Fits
<1>2. ASSUME NEW k \in Kinds, Asks(k) PROVE SessionInv'
  <2>1. /\ UNCHANGED <<published, server, answer, wire, part, timeouts>>
        /\ asking = "none" /\ asking' = k /\ asked' = published[k]
        /\ server # "gone" => requests' = Append(requests, k)
    BY <1>2 DEF Asks
  <2>2. asking' # "none" /\ published[k] \in Nat
    BY <1>0, <2>1, BoundsAssumption DEF TypeOK
  <2>3. CASE server = "gone"
    BY <2>1, <2>3 DEF LagIsTimeouts, PartOfLine, OnlyCurrent
  <2>4. CASE server # "gone"
    <3>1. Len(requests') = Len(requests) + 1
      BY <1>0, <2>1, <2>4
    <3>2. LagIsTimeouts' /\ PartOfLine'
      BY <1>0, <2>1, <2>2, <2>4, <3>1 DEF LagIsTimeouts, UnderWay, PartOfLine
    <3>3. ASSUME timeouts = 0 PROVE OnlyCurrent'
      <4>1. requests = <<>> /\ wire = <<>> /\ server # "write"
        BY <2>1, <2>4, <3>3, IdleIsEmpty
      <4>2. requests' = <<k>>
        BY <2>1, <2>4, <4>1
      <4> QED BY <2>1, <2>2, <4>1, <4>2 DEF OnlyCurrent
    <3>4. ASSUME timeouts # 0 PROVE OnlyCurrent'
      BY <2>1, <3>4 DEF OnlyCurrent
    <3> QED BY <3>2, <3>3, <3>4
  <2> QED BY <2>3, <2>4
<1>3. CASE ServerReads
  <2>1. /\ UNCHANGED <<published, wire, asking, asked, part, timeouts>>
        /\ server = "read" /\ server' = "write" /\ requests # <<>>
        /\ requests' = Tail(requests)
        /\ answer' = Answer(Head(requests), published[Head(requests)])
    BY <1>3 DEF ServerReads
  <2>2. Len(requests') = Len(requests) - 1
    BY <1>0, <2>1
  <2>3. LagIsTimeouts' /\ PartOfLine'
    BY <1>0, <2>1, <2>2 DEF LagIsTimeouts, UnderWay, PartOfLine
  <2>4. ASSUME timeouts = 0 PROVE OnlyCurrent'
    <3>1. wire = <<>> /\ Len(requests) = 1
      BY <2>1, <2>4, OneUnderWay
    <3>2. requests' = <<>>
      <4>1. requests' \in Seq(Kinds)
        BY DEF TypeOK
      <4>2. Len(requests') = 0
        BY <2>2, <3>1
      <4> QED BY <4>1, <4>2, EmptySeq
    <3>3. Head(requests) = asking /\ 1 \in DOMAIN requests
      BY <1>0, <2>1, <2>4, <3>1 DEF OnlyCurrent
    <3>4. asking \in Kinds /\ asked <= published[asking]
      BY <1>0, <2>1, <2>4, <3>3 DEF OnlyCurrent
    <3>5. Fits(answer)'
      BY <2>1, <3>3, <3>4, BoundsAssumption DEF Fits, Answer, TypeOK
    <3> QED BY <2>1, <3>1, <3>2, <3>4, <3>5 DEF OnlyCurrent
  <2>5. ASSUME timeouts # 0 PROVE OnlyCurrent'
    BY <2>1, <2>5 DEF OnlyCurrent
  <2> QED BY <2>3, <2>4, <2>5
<1>4. CASE ServerWrites
  <2>1. /\ UNCHANGED <<published, requests, asking, asked, part, timeouts>>
        /\ server = "write" /\ server' = "flush"
        /\ wire' = Append(wire, answer)
    BY <1>4 DEF ServerWrites
  <2>2. answer \in Answers
    BY DEF TypeOK
  <2>3. Len(wire') = Len(wire) + 1 /\ wire' # <<>>
    BY <1>0, <2>1, <2>2
  <2>4. LagIsTimeouts' /\ PartOfLine'
    BY <1>0, <2>1, <2>3 DEF LagIsTimeouts, UnderWay, PartOfLine
  <2>5. ASSUME timeouts = 0 PROVE OnlyCurrent'
    <3>1. wire = <<>> /\ requests = <<>>
      BY <2>1, <2>5, OneUnderWay
    <3>2. wire' = <<answer>>
      BY <2>1, <3>1
    <3> QED BY <2>1, <2>5, <3>1, <3>2 DEF OnlyCurrent, Fits
  <2>6. ASSUME timeouts # 0 PROVE OnlyCurrent'
    BY <2>1, <2>6 DEF OnlyCurrent
  <2> QED BY <2>4, <2>5, <2>6
<1>5. CASE ServerFlushed
  <2>1. /\ UNCHANGED <<published, answer, requests, wire, asking, asked, part, timeouts>>
        /\ server = "flush" /\ server' = "read"
    BY <1>5 DEF ServerFlushed
  <2> QED BY <2>1 DEF LagIsTimeouts, UnderWay, PartOfLine, OnlyCurrent, Fits
<1>6. CASE ServerGoes
  BY <1>6 DEF ServerGoes, LagIsTimeouts, PartOfLine, OnlyCurrent
<1>7. CASE ReadsPart
  <2>1. UNCHANGED <<published, server, answer, requests, wire, asking, asked, timeouts>>
        /\ wire # <<>>
    BY <1>7 DEF ReadsPart
  <2> QED BY <2>1 DEF LagIsTimeouts, UnderWay, PartOfLine, OnlyCurrent, Fits
<1>8. CASE Receives
  <2>1. /\ UNCHANGED <<published, server, answer, requests, timeouts>>
        /\ wire # <<>> /\ wire' = Tail(wire) /\ asking # "none"
        /\ asking' = "none" /\ part' = FALSE
    BY <1>8 DEF Receives, Fails
  <2>2. Len(wire') = Len(wire) - 1
    BY <1>0, <2>1
  <2>3. LagIsTimeouts' /\ PartOfLine'
    BY <1>0, <2>1, <2>2 DEF LagIsTimeouts, UnderWay, PartOfLine
  <2>4. ASSUME timeouts = 0, server # "gone" PROVE OnlyCurrent'
    <3>1. requests = <<>> /\ Len(wire) = 1 /\ server # "write"
      BY <2>1, <2>4, OneUnderWay
    <3>2. wire' = <<>>
      <4>1. wire' \in Seq(Answers)
        BY DEF TypeOK
      <4>2. Len(wire') = 0
        BY <2>2, <3>1
      <4> QED BY <4>1, <4>2, EmptySeq
    <3> QED BY <2>1, <3>1, <3>2 DEF OnlyCurrent
  <2>5. ASSUME timeouts # 0 \/ server = "gone" PROVE OnlyCurrent'
    BY <2>1, <2>5 DEF OnlyCurrent
  <2> QED BY <2>3, <2>4, <2>5
<1>9. CASE TimesOut
  <2>1. /\ UNCHANGED <<published, server, answer, requests>>
        /\ asking # "none" /\ asking' = "none" /\ part' = FALSE
        /\ timeouts' = timeouts + 1
        /\ wire' = IF part THEN <<Torn>> \o Tail(wire) ELSE wire
    BY <1>9 DEF TimesOut, Fails
  <2>2. Len(wire') = Len(wire)
    <3>1. CASE part
      <4>1. wire # <<>>
        BY <3>1 DEF PartOfLine
      <4>2. Tail(wire) \in Seq(Answers) /\ Len(Tail(wire)) = Len(wire) - 1
        BY <1>0, <4>1
      <4>3. <<Torn>> \in Seq(Answers) /\ Len(<<Torn>>) = 1
        BY Basics
      <4>4. Len(<<Torn>> \o Tail(wire)) = 1 + (Len(wire) - 1)
        BY <4>2, <4>3
      <4> QED BY <1>0, <2>1, <3>1, <4>4
    <3>2. CASE ~part
      BY <2>1, <3>2
    <3> QED BY <3>1, <3>2
  <2>3. LagIsTimeouts'
    <3>1. UnderWay' = UnderWay
      BY <2>1, <2>2 DEF UnderWay
    <3>2. server # "gone" => UnderWay = timeouts + 1
      BY <2>1 DEF LagIsTimeouts
    <3> QED BY <1>0, <2>1, <3>1, <3>2 DEF LagIsTimeouts
  <2>4. PartOfLine'
    BY <2>1 DEF PartOfLine
  <2>5. timeouts' # 0
    BY <1>0, <2>1
  <2>6. OnlyCurrent'
    BY <2>5 DEF OnlyCurrent
  <2> QED BY <2>3, <2>4, <2>6
<1>10. CASE Breaks
  BY <1>10 DEF Breaks, Fails, LagIsTimeouts, PartOfLine, OnlyCurrent
<1>11. CASE UNCHANGED vars
  BY <1>11 DEF vars, LagIsTimeouts, UnderWay, PartOfLine, OnlyCurrent, Fits
<1> QED BY <1>1, <1>2, <1>3, <1>4, <1>5, <1>6, <1>7, <1>8, <1>9, <1>10, <1>11
        DEF Next, Server, Client

(* The invariant in every reachable state.                                 *)
THEOREM SessionInvCorrect == Spec => []SessionInv
<1>1. Init => SessionInv
  BY DEF Init, SessionInv, LagIsTimeouts, UnderWay, PartOfLine, OnlyCurrent
<1> QED BY <1>1, SessionInvInductive, TypeCorrect, PTL DEF Spec

(* The client lags by exactly the deadlines it missed, for ever: no later  *)
(* answer, error or poll ever makes up for one.                            *)
THEOREM LagNeverShrinks == Spec => []LagIsTimeouts
<1>1. SessionInv => LagIsTimeouts
  BY DEF SessionInv
<1> QED BY <1>1, SessionInvCorrect, PTL

(* As long as no deadline was missed, everything under way is the current  *)
(* poll's.                                                                 *)
THEOREM OnTimeOnlyCurrent == Spec => []OnlyCurrent
<1>1. SessionInv => OnlyCurrent
  BY DEF SessionInv
<1> QED BY <1>1, SessionInvCorrect, PTL

-----------------------------------------------------------------------------
(* What is on its way is one answer at most, as the server flushes after   *)
(* each, and no older than what is shown.                                  *)
Newer(a) == a.kind \in Kinds => a.v >= cache[a.kind] /\ a.v <= published[a.kind]
OneOnWire == Len(wire) <= 1 /\ (server # "flush" => wire = <<>>)
InOrder == /\ \A k \in Kinds : cache[k] <= published[k]
           /\ wire # <<>> => Newer(Head(wire))
           /\ server = "write" => Newer(answer)
OrderInv == OneOnWire /\ InOrder

(* A poll that ends takes over what is on the wire, or nothing, or leaves  *)
(* the data as it is.                                                      *)
LEMMA ReceivesWhat ==
  ASSUME TypeOK, OrderInv, Receives
  PROVE  /\ UNCHANGED <<published, server, answer>> /\ wire' = <<>>
         /\ asking \in Kinds /\ server = "flush"
         /\ \A k \in Kinds : \/ cache'[k] = cache[k]
                             \/ k = asking /\ cache'[k] = Nothing /\ Head(wire).kind # k
                             \/ /\ k = asking /\ Head(wire).kind = k
                                /\ cache'[k] = Head(wire).v /\ cache'[k] >= cache[k]
<1>1. /\ UNCHANGED <<published, server, answer>> /\ asking \in Kinds
      /\ wire # <<>> /\ wire' = Tail(wire) /\ server = "flush"
  BY DEF Receives, Fails, core, TypeOK, OrderInv, OneOnWire
<1>2. wire' = <<>>
  <2>1. wire \in Seq(Answers) /\ Len(wire) \in Nat /\ Len(wire) # 0 /\ Len(wire) <= 1
    BY <1>1, EmptySeq DEF TypeOK, OrderInv, OneOnWire
  <2>2. Tail(wire) \in Seq(Answers) /\ Len(Tail(wire)) = Len(wire) - 1
    BY <1>1, <2>1
  <2>3. Len(Tail(wire)) = 0
    BY <2>1, <2>2
  <2> QED BY <1>1, <2>2, <2>3, EmptySeq
<1>3. \/ cache' = cache
      \/ cache' = [cache EXCEPT ![asking] = IF Head(wire).kind = asking THEN Head(wire).v ELSE Nothing]
  BY DEF Receives, Fails
<1>4. Head(wire).kind = asking => Head(wire).v >= cache[asking]
  BY <1>1 DEF OrderInv, InOrder, Newer
<1> QED BY <1>1, <1>2, <1>3, <1>4 DEF TypeOK

(* Every step keeps the order.                                             *)
LEMMA OrderInvInductive ==
  ASSUME TypeOK, TypeOK', PartOfLine, OrderInv, [Next]_vars
  PROVE  OrderInv'
<1> USE DEF OrderInv, core, pipe, poll, service
<1>0. /\ wire \in Seq(Answers) /\ answer \in Answers /\ requests \in Seq(Kinds)
      /\ published \in [Kinds -> Nat] /\ cache \in [Kinds -> Nat]
      /\ \A a \in Answers : a.v \in Nat
  <2>1. 0..MaxVersion \subseteq Nat
    BY BoundsAssumption
  <2> QED BY <2>1 DEF TypeOK, Answers
<1>1. ASSUME NEW k \in Kinds, Publish(k) PROVE OrderInv'
  <2>1. /\ UNCHANGED <<server, answer, wire, cache>>
        /\ published' = [published EXCEPT ![k] = published[k] + 1]
    BY <1>1 DEF Publish
  <2>2. wire # <<>> => Head(wire) \in Answers
    BY <1>0
  <2>3. \A j \in Kinds : /\ published'[j] \in Nat /\ published[j] \in Nat
                          /\ cache[j] \in Nat /\ published'[j] >= published[j]
    BY <1>0, <2>1
  <2>4. \A a \in Answers : Newer(a) => Newer(a)'
    BY <1>0, <2>1, <2>3 DEF Newer
  <2>5. \A j \in Kinds : cache'[j] <= published'[j]
    BY <2>1, <2>3 DEF InOrder
  <2>6. InOrder'
    BY <1>0, <2>1, <2>2, <2>4, <2>5 DEF InOrder, Newer
  <2> QED BY <2>1, <2>6 DEF OneOnWire
<1>2. CASE ServerReads
  <2>1. /\ UNCHANGED <<published, wire, cache>> /\ server = "read" /\ server' = "write"
        /\ Head(requests) \in Kinds
        /\ answer' = Answer(Head(requests), published[Head(requests)])
    BY <1>0, <1>2 DEF ServerReads
  <2>2. wire = <<>>
    BY <2>1 DEF OneOnWire
  <2> QED BY <1>0, <2>1, <2>2 DEF OneOnWire, InOrder, Newer, Answer
<1>3. CASE ServerWrites
  <2>1. /\ UNCHANGED <<published, cache>> /\ server = "write" /\ server' = "flush"
        /\ wire = <<>> /\ wire' = Append(wire, answer)
    BY <1>3 DEF ServerWrites, OneOnWire
  <2>2. Len(wire') = 1 /\ Head(wire') = answer
    BY <1>0, <2>1
  <2> QED BY <2>1, <2>2 DEF OneOnWire, InOrder, Newer
<1>4. CASE Receives
  <2>1. OneOnWire'
    BY <1>4, ReceivesWhat DEF OneOnWire
  <2>2. \A k \in Kinds : cache'[k] <= published'[k]
    <3> SUFFICES ASSUME NEW k \in Kinds PROVE cache'[k] <= published[k]
      BY <1>4, ReceivesWhat
    <3>1. CASE cache'[k] = cache[k] \/ cache'[k] = Nothing
      BY <1>0, <3>1 DEF InOrder, Nothing
    <3>2. CASE cache'[k] = Head(wire).v /\ Head(wire).kind = k
      BY <1>4, <3>2 DEF InOrder, Newer, Receives
    <3> QED BY <1>4, <3>1, <3>2, ReceivesWhat
  <2> QED BY <1>4, <2>1, <2>2, ReceivesWhat DEF InOrder
<1>5. CASE TimesOut
  <2>1. /\ UNCHANGED <<published, server, answer, cache>>
        /\ wire' = IF part THEN <<Torn>> \o Tail(wire) ELSE wire
    BY <1>5 DEF TimesOut, Fails
  <2>2. CASE ~part
    BY <2>1, <2>2 DEF OneOnWire, InOrder, Newer
  <2>3. CASE part
    <3>1. wire # <<>> /\ Len(wire) \in Nat /\ Len(wire) # 0 /\ Len(wire) <= 1
      BY <1>0, <2>3, EmptySeq DEF PartOfLine, OneOnWire
    <3>2. Tail(wire) \in Seq(Answers) /\ Len(Tail(wire)) = Len(wire) - 1
      BY <1>0, <3>1
    <3>3. Tail(wire) = <<>>
      BY <3>1, <3>2, EmptySeq
    <3>4. wire' = <<Torn>>
      <4>1. <<Torn>> \in Seq(Answers)
        BY Basics
      <4>2. <<Torn>> \o <<>> = <<Torn>>
        BY <4>1, ConcatEmptySeq
      <4> QED BY <2>1, <2>3, <3>3, <4>2
    <3>5. Len(wire') = 1 /\ Head(wire') = Torn /\ Torn.kind \notin Kinds
      BY <3>4 DEF Torn, Answer, Kinds
    <3> QED BY <2>1, <3>1, <3>5 DEF OneOnWire, InOrder, Newer
  <2> QED BY <2>2, <2>3
<1>6. CASE ServerGoes
  BY <1>6 DEF ServerGoes, OneOnWire, InOrder, Newer
<1>7. CASE ServerFlushed \/ ReadsPart \/ Breaks \/ UNCHANGED vars
  BY <1>7 DEF ServerFlushed, ReadsPart, Breaks, Fails, vars, OneOnWire, InOrder, Newer
<1>8. ASSUME NEW k \in Kinds, Asks(k) PROVE OrderInv'
  BY <1>8 DEF Asks, OneOnWire, InOrder, Newer
<1> QED BY <1>1, <1>2, <1>3, <1>4, <1>5, <1>6, <1>7, <1>8 DEF Next, Server, Client

(* What is shown, under way and published come in that order, always.      *)
LEMMA OrderInvCorrect == Spec => []OrderInv
<1>1. Init /\ TypeOK => OrderInv
  BY DEF Init, OrderInv, OneOnWire, InOrder, Nothing
<1>2. TypeOK /\ TypeOK' /\ SessionInv /\ OrderInv /\ [Next]_vars => OrderInv'
  BY OrderInvInductive DEF SessionInv
<1> QED BY <1>1, <1>2, TypeCorrect, SessionInvCorrect, PTL DEF Spec

(* Only the end of a read changes what is shown.                           *)
LEMMA OnlyReceivesShows ==
  ASSUME [Next]_vars, cache' # cache
  PROVE  Receives
BY DEF Next, Publish, Asks, Server, ServerReads, ServerWrites, ServerFlushed, ServerGoes, Client,
       ReadsPart, TimesOut, Breaks, Fails, vars, core, pipe, poll, service

(* However many deadlines were missed and wherever they fell: data shown   *)
(* is never replaced by older data of its kind.                            *)
THEOREM NeverGoesBack == Spec => NeverOlder
<1>1. TypeOK /\ OrderInv /\ [Next]_vars =>
        [\A k \in Kinds : cache'[k] = Nothing \/ cache'[k] >= cache[k]]_cache
  <2> SUFFICES ASSUME TypeOK, OrderInv, [Next]_vars, cache' # cache, NEW k \in Kinds
               PROVE  cache'[k] = Nothing \/ cache'[k] >= cache[k]
    OBVIOUS
  <2>1. cache[k] \in Nat
    BY BoundsAssumption DEF TypeOK
  <2> QED BY <2>1, OnlyReceivesShows, ReceivesWhat
<1> QED BY <1>1, TypeCorrect, OrderInvCorrect, PTL DEF Spec, NeverOlder

(* Data shown is never replaced by nothing before the first deadline is    *)
(* missed, though polls fail and the core may end.                         *)
THEOREM OnTimeDataStays == Spec => GoodDataKeptOnTime
<1>1. TypeOK /\ SessionInv /\ OrderInv /\ [Next]_vars => [timeouts = 0 => ~Emptied]_cache
  <2> SUFFICES ASSUME TypeOK, SessionInv, OrderInv, [Next]_vars, cache' # cache, timeouts = 0,
                      NEW k \in Kinds, cache[k] # Nothing, cache'[k] = Nothing
               PROVE  FALSE
    BY DEF Emptied
  <2>1. Receives
    BY OnlyReceivesShows
  <2>2. k = asking /\ server = "flush" /\ wire # <<>>
    BY <2>1, ReceivesWhat DEF Receives
  <2>3. 1 \in DOMAIN wire /\ Head(wire) = wire[1]
    BY <2>2 DEF TypeOK
  <2>4. Head(wire).kind = asking
    BY <2>2, <2>3 DEF SessionInv, OnlyCurrent, Fits
  <2>5. cache'[k] >= cache[k] /\ cache[k] \in Nat
    BY <2>1, <2>2, <2>4, ReceivesWhat, BoundsAssumption DEF TypeOK
  <2> QED BY <2>5 DEF Nothing
<1> QED BY <1>1, TypeCorrect, SessionInvCorrect, OrderInvCorrect, PTL
        DEF Spec, GoodDataKeptOnTime
=============================================================================
