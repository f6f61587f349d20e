----------------------------- MODULE IpcSession -----------------------------
(***************************************************************************)
(* One connection between the UI and the core, from the snapshot the core  *)
(* publishes to the copy the UI shows:                                     *)
(*                                                                         *)
(*   main.rs            stores latest_stats, then latest_history           *)
(*   IPC/pipe_server.rs answers one request line at a time                 *)
(*   ipc/client.go      one request at a time, a deadline on each answer   *)
(*   service/stats.go   polls stats and history, keeps the last results    *)
(*                                                                         *)
(* The pipe is a byte stream in both directions.  An answer carries no     *)
(* number: the client takes the next line for the answer to what it asked  *)
(* last.  After a deadline the connection is kept and used again.          *)
(* Snapshots are numbered by publication; a number stands for its data.    *)
(***************************************************************************)
EXTENDS Naturals, Sequences

CONSTANTS
  MaxVersion,  \* publications (a bound)
  MaxTimeouts, \* answers that come too late (a bound)
  LateParts,   \* a deadline may fall between two parts of one answer
  ServerMayGo  \* the core may end during the session

ASSUME BoundsAssumption == MaxVersion \in Nat /\ MaxTimeouts \in Nat
ASSUME SwitchAssumption == {LateParts, ServerMayGo} \subseteq BOOLEAN

Kinds == {"stats", "history"}

(* What a kind of answer leaves in the field of the other kind: the JSON   *)
(* has no such key and Go decodes it to nil.                               *)
Nothing == 0

VARIABLES
  published, \* number of the latest snapshot of each kind
  server,    \* "read", "write" or "gone"
  answer,    \* the answer handle_client is writing
  requests,  \* lines on their way to the server
  wire,      \* answers, or what is left of one, on their way to the client
  asking,    \* the request the client waits for, or "none"
  asked,     \* what was published when it was sent
  part,      \* the client has read the first part of the next line
  cache,     \* StatsService.stats and .history
  failed,    \* lastErr # nil and historyErr # nil
  timeouts   \* deadlines that passed

core == <<published, server, answer>>
pipe == <<requests, wire>>
poll == <<asking, asked, part>>
service == <<cache, failed>>
vars == <<core, pipe, poll, service, timeouts>>

Answer(kind, v) == [kind |-> kind, v |-> v]
NoAnswer == Answer("none", 0)
Torn == Answer("torn", 0)      \* the rest of a line whose start is lost

Init == /\ published = [k \in Kinds |-> 0]
        /\ server = "read" /\ answer = NoAnswer
        /\ requests = <<>> /\ wire = <<>>
        /\ asking = "none" /\ asked = 0 /\ part = FALSE
        /\ cache = [k \in Kinds |-> Nothing]
        /\ failed = [k \in Kinds |-> FALSE]
        /\ timeouts = 0

-----------------------------------------------------------------------------
(* The core.                                                               *)

(* latest_stats.store comes first, latest_history.store follows.           *)
Publish(k) == /\ server # "gone"
              /\ published[k] < MaxVersion
              /\ k = "history" => published["history"] < published["stats"]
              /\ published' = [published EXCEPT ![k] = @ + 1]
              /\ UNCHANGED <<server, answer, pipe, poll, service, timeouts>>

ServerReads_Skips == /\ server = "read"
                     /\ requests # <<>>
                     /\ requests' = Tail(requests)
                     /\ UNCHANGED <<core, wire, poll, service, timeouts>>

ServerReads_Old == /\ server = "read"
                   /\ requests # <<>>
                   /\ answer' \in {Answer(Head(requests), v) : v \in 0..published[Head(requests)]}
                   /\ requests' = Tail(requests)
                   /\ server' = "write"
                   /\ UNCHANGED <<published, wire, poll, service, timeouts>>

(* A line is read; the snapshot is loaded when the answer is built.        *)
ServerReads == /\ server = "read"
               /\ requests # <<>>
               /\ answer' = Answer(Head(requests), published[Head(requests)])
               /\ requests' = Tail(requests)
               /\ server' = "write"
               /\ UNCHANGED <<published, wire, poll, service, timeouts>>

(* write_all; the next request is read only once FlushFileBuffers has seen *)
(* the client take everything.                                             *)
ServerWrites == /\ server = "write"
                /\ wire' = Append(wire, answer)
                /\ answer' = NoAnswer
                /\ server' = "flush"
                /\ UNCHANGED <<published, requests, poll, service, timeouts>>

ServerFlushed == /\ server = "flush"
                 /\ wire = <<>>
                 /\ server' = "read"
                 /\ UNCHANGED <<published, answer, pipe, poll, service, timeouts>>

(* The core ends: what it had not written is lost, the pipe is broken.     *)
ServerGoes == /\ ServerMayGo
              /\ server # "gone"
              /\ server' = "gone"
              /\ answer' = NoAnswer
              /\ requests' = <<>> /\ wire' = <<>>
              /\ part' = FALSE
              /\ UNCHANGED <<published, asking, asked, service, timeouts>>

-----------------------------------------------------------------------------
(* The client, under its mutex, and the service that calls it.             *)

Asks(k) == /\ asking = "none"
           /\ asking' = k
           /\ asked' = published[k]
           /\ requests' = IF server = "gone" THEN requests ELSE Append(requests, k)
           /\ UNCHANGED <<core, wire, part, service, timeouts>>

Fails_Clears == /\ failed' = [failed EXCEPT ![asking] = TRUE]
                /\ cache' = [cache EXCEPT ![asking] = Nothing]
                /\ asking' = "none"
                /\ part' = FALSE

(* The poll ends with an error: the old data stays.                        *)
Fails == /\ failed' = [failed EXCEPT ![asking] = TRUE]
         /\ asking' = "none"
         /\ part' = FALSE
         /\ UNCHANGED cache

(* The start of a line that comes in more than one part.                   *)
ReadsPart == /\ LateParts
             /\ asking # "none" /\ wire # <<>> /\ ~part
             /\ part' = TRUE
             /\ UNCHANGED <<core, pipe, asking, asked, service, timeouts>>

(* A whole line: no test that its type is the one asked for, so an answer  *)
(* of the other kind is taken for an empty one of this kind.               *)
Receives == /\ asking # "none" /\ wire # <<>>
            /\ LET got == Head(wire) IN
                 IF got.kind = "torn" THEN Fails
                 ELSE /\ cache' = [cache EXCEPT ![asking] =
                                     IF got.kind = asking THEN got.v ELSE Nothing]
                      /\ failed' = [failed EXCEPT ![asking] = FALSE]
                      /\ asking' = "none" /\ part' = FALSE
            /\ wire' = Tail(wire)
            /\ UNCHANGED <<core, requests, asked, timeouts>>

(* The read deadline: what ReadBytes had read of the line is thrown away.  *)
TimesOut == /\ asking # "none"
            /\ server # "gone"
            /\ timeouts < MaxTimeouts
            /\ timeouts' = timeouts + 1
            /\ wire' = IF part THEN <<Torn>> \o Tail(wire) ELSE wire
            /\ Fails
            /\ UNCHANGED <<core, requests, asked>>

(* Write or read on a broken pipe.                                         *)
Breaks == /\ asking # "none"
          /\ server = "gone" /\ wire = <<>>
          /\ Fails
          /\ UNCHANGED <<core, pipe, asked, timeouts>>

-----------------------------------------------------------------------------
Server == ServerReads \/ ServerWrites \/ ServerFlushed
Client == ReadsPart \/ Receives \/ TimesOut \/ Breaks

Next == \/ \E k \in Kinds : Publish(k) \/ Asks(k)
        \/ Server \/ ServerGoes \/ Client

Spec == Init /\ [][Next]_vars

(* The server thread and the client's read go on; the service polls each   *)
(* kind again and again (tickers of a second and of a minute).             *)
FairSpec == /\ Spec
            /\ WF_vars(Server) /\ WF_vars(Receives) /\ WF_vars(Breaks)
            /\ \A k \in Kinds : SF_vars(Asks(k))

-----------------------------------------------------------------------------
(* Every variable has the values the code can give it.                     *)
Answers == [kind : Kinds \cup {"none", "torn"}, v : 0..MaxVersion]
TypeOK == /\ published \in [Kinds -> 0..MaxVersion]
          /\ server \in {"read", "write", "flush", "gone"}
          /\ answer \in Answers
          /\ requests \in Seq(Kinds) /\ wire \in Seq(Answers)
          /\ asking \in Kinds \cup {"none"} /\ asked \in 0..MaxVersion
          /\ part \in BOOLEAN
          /\ cache \in [Kinds -> 0..MaxVersion]
          /\ failed \in [Kinds -> BOOLEAN]
          /\ timeouts \in 0..MaxTimeouts

(* The client runs behind by exactly the deadlines it missed: what is      *)
(* under way is the current request and one answer per past timeout, and   *)
(* nothing the code does ever makes up for one.                            *)
UnderWay == Len(requests) + Len(wire) + (IF server = "write" THEN 1 ELSE 0)
LagIsTimeouts ==
  server # "gone" => UnderWay = timeouts + (IF asking = "none" THEN 0 ELSE 1)

(* Until a deadline is missed all that is under way belongs to the current *)
(* poll: its request, or an answer of its kind no older than it is.        *)
Fits(a) == a.kind = asking /\ a.v >= asked
OnlyCurrent ==
  timeouts = 0 /\ server # "gone" =>
    /\ \A i \in DOMAIN requests : requests[i] = asking
    /\ \A i \in DOMAIN wire : Fits(wire[i])
    /\ server = "write" => Fits(answer)
    /\ asking # "none" => asked <= published[asking]

(* The pipe keeps order: whatever is late, a poll never replaces data by   *)
(* older data of its kind (an empty answer of the other kind apart).       *)
NeverOlder ==
  [][\A k \in Kinds : cache'[k] = Nothing \/ cache'[k] >= cache[k]]_cache

(* "Keep stale stats so the UI still shows the last good data": what was   *)
(* shown once is not replaced by nothing.                                  *)
Emptied == \E k \in Kinds : cache[k] # Nothing /\ cache'[k] = Nothing
GoodDataKept == [][~Emptied]_cache

(* It is not as long as no deadline is missed, though polls fail and the   *)
(* core may end.                                                           *)
GoodDataKeptOnTime == [][timeouts = 0 => ~Emptied]_cache

(* What the core publishes last, the UI shows, or shows an error.          *)
LastIsShown ==
  \A k \in Kinds : []<>(cache[k] = published[k] \/ failed[k] \/ timeouts > 0)
=============================================================================
