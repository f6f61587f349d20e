----------------------------- MODULE WebSession -----------------------------
(***************************************************************************)
(* The browser page (web/webui/src/App.jsx) against the handlers of        *)
(* web/server.go, which read the samples of the statistics service.        *)
(*                                                                         *)
(* What the handlers send depends on the samples only, and these change    *)
(* with each poll that succeeds: so the figures of an answer are named by  *)
(* the number of such polls, its version.                                  *)
(***************************************************************************)
EXTENDS StatsSamples

CONSTANTS
  Answers,    \* what a poll may bring
  MaxPolls,   \* polls that succeed (a bound)
  MaxSent,    \* pushes the socket takes before a write waits
  MaxFetches  \* bootstrap requests under way at a time (a bound)

ASSUME WebAssumption ==
  /\ Answers \subseteq Seq(Flows)
  /\ MaxPolls \in Nat /\ MaxSent \in Nat \ {0} /\ MaxFetches \in Nat \ {0}

VARIABLES
  version, throughput, flowCache, stats, lastErr, historyErr,  \* StatsService
  up,      \* the UI process, and in it the server, is there
  conn,    \* the server's end of the web socket: none, open, ended
  taken,   \* version of the flows the push loop holds, or NoVersion
  sent,    \* pushes on their way to the page
  fetch,   \* the bootstrap requests: idle, asked, took, done, failed
  ws,      \* the page's end: connecting, open, closed
  timer,   \* reconnectTimer is set
  status,  \* what the page says of the connection
  shown    \* the versions of the flows and of the chart it shows

service == <<version, throughput, flowCache, stats, lastErr, historyErr>>
socket == <<conn, taken, sent>>
page == <<ws, timer, status, shown>>
vars == <<service, up, socket, fetch, page>>

NoVersion == -1
Fetches == 1..MaxFetches
Idle == [at |-> "idle"]
Asked == [at |-> "asked"]
Took(v) == [at |-> "took", flows |-> v]
Done(payload) == [at |-> "done", payload |-> payload]
Failed == [at |-> "failed"]

-----------------------------------------------------------------------------
(* The service.  poll records an answer in both caches; what it cannot     *)
(* get leaves everything but the error as it is.                           *)
now == [mono |-> version + 1, wall |-> version + 1]

PollSucceeds == /\ up /\ version < MaxPolls
                /\ \E answer \in Answers :
                     /\ stats' = answer
                     /\ throughput' = recordThroughputSample(throughput, now, answer)
                     /\ flowCache' = recordFlowSnapshot(flowCache, now, answer)
                /\ version' = version + 1
                /\ lastErr' = FALSE
                /\ UNCHANGED <<historyErr, up, socket, fetch, page>>

PollFails == /\ up /\ lastErr' = TRUE
             /\ UNCHANGED <<version, throughput, flowCache, stats, historyErr, up, socket, fetch, page>>

PollsHistory == /\ up /\ historyErr' \in BOOLEAN
                /\ UNCHANGED <<version, throughput, flowCache, stats, lastErr, up, socket, fetch, page>>

(* Both handlers first take the averages, then, if there are none, the     *)
(* latest answer and its error, which ends the one and fails the other.    *)
Serves == SnapshotAveragedFlows(flowCache, stats) # NoFlows \/ ~lastErr

-----------------------------------------------------------------------------
(* handleWebSocket.                                                        *)
Accepts == /\ up /\ ws = "connecting" /\ conn = "none"
           /\ conn' = "open"
           /\ UNCHANGED <<service, up, taken, sent, fetch, page>>

TakesFlows_ErrorFirst == /\ up /\ conn = "open" /\ taken = NoVersion
                         /\ IF ~lastErr THEN taken' = version /\ UNCHANGED conn
                                        ELSE conn' = "ended" /\ UNCHANGED taken
                         /\ UNCHANGED <<service, up, sent, fetch, page>>

TakesFlows == /\ up /\ conn = "open" /\ taken = NoVersion
              /\ IF Serves THEN taken' = version /\ UNCHANGED conn
                           ELSE conn' = "ended" /\ UNCHANGED taken
              /\ UNCHANGED <<service, up, sent, fetch, page>>

(* The chart is taken under a lock of its own: a poll may come between.    *)
Sends == /\ up /\ conn = "open" /\ taken # NoVersion
         /\ Len(sent) < MaxSent
         /\ sent' = Append(sent, [flows |-> taken, chart |-> version])
         /\ taken' = NoVersion
         /\ UNCHANGED <<service, up, conn, fetch, page>>

(* A write that is not done within three seconds: the page does not read,  *)
(* the machine slept.                                                      *)
Drops == /\ conn = "open" /\ taken # NoVersion
         /\ conn' = "ended" /\ taken' = NoVersion /\ sent' = <<>>
         /\ UNCHANGED <<service, up, fetch, page>>

(* The UI process exits; the next one has another port.                    *)
UiEnds == /\ up /\ up' = FALSE
          /\ conn' = IF conn = "open" THEN "ended" ELSE conn
          /\ taken' = NoVersion
          /\ UNCHANGED <<service, sent, fetch, page>>

-----------------------------------------------------------------------------
(* handleBootstrap, again lock by lock.                                    *)
FetchTakesFlows(i) == /\ up /\ fetch[i] = Asked
                      /\ fetch' = [fetch EXCEPT ![i] = IF Serves THEN Took(version) ELSE Failed]
                      /\ UNCHANGED <<service, up, socket, page>>

FetchAnswers(i) == /\ up /\ fetch[i].at = "took"
                   /\ fetch' = [fetch EXCEPT ![i] =
                        IF historyErr THEN Failed
                        ELSE Done([flows |-> fetch[i].flows, chart |-> version])]
                   /\ UNCHANGED <<service, up, socket, page>>

FetchLost(i) == /\ ~up /\ fetch[i].at \in {"asked", "took"}
                /\ fetch' = [fetch EXCEPT ![i] = Failed]
                /\ UNCHANGED <<service, up, socket, page>>

-----------------------------------------------------------------------------
(* The page.  The text of a 502 is no JSON: it is caught like a request    *)
(* that failed.                                                            *)
FetchArrives(i) == /\ fetch[i].at \in {"done", "failed"}
                   /\ IF fetch[i].at = "done"
                      THEN shown' = fetch[i].payload /\ UNCHANGED status
                      ELSE status' = "bootstrap-error" /\ UNCHANGED shown
                   /\ fetch' = [fetch EXCEPT ![i] = Idle]
                   /\ UNCHANGED <<service, up, socket, ws, timer>>

Opens == /\ ws = "connecting" /\ conn # "none"
         /\ ws' = "open" /\ status' = "connected"
         /\ \E i \in Fetches : fetch[i] = Idle /\ fetch' = [fetch EXCEPT ![i] = Asked]
         /\ UNCHANGED <<service, up, socket, timer, shown>>

Receives == /\ ws = "open" /\ sent # <<>>
            /\ shown' = Head(sent) /\ sent' = Tail(sent)
            /\ UNCHANGED <<service, up, conn, taken, fetch, ws, timer, status>>

Ended == (conn = "ended" /\ sent = <<>>) \/ (ws = "connecting" /\ ~up)

(* scheduleReconnect: "disconnected", and "error" before it, last no       *)
(* longer than the events that set them.                                   *)
Closes == /\ ws # "closed"
          /\ Ended
          /\ ws' = "closed" /\ timer' = TRUE /\ status' = "reconnecting"
          /\ conn' = "none" /\ taken' = NoVersion /\ sent' = <<>>
          /\ UNCHANGED <<service, up, fetch, shown>>

TimerFires == /\ timer
              /\ timer' = FALSE /\ ws' = "connecting"
              /\ UNCHANGED <<service, up, socket, fetch, status, shown>>

-----------------------------------------------------------------------------
(* Start has polled both before there is a server; the page asks for its   *)
(* bootstrap and for the socket when it is mounted.                        *)
Init == /\ \/ \E answer \in Answers :
                /\ version = 1 /\ lastErr = FALSE /\ stats = answer
                /\ throughput = recordThroughputSample(<<>>, [mono |-> 1, wall |-> 1], answer)
                /\ flowCache = recordFlowSnapshot(<<>>, [mono |-> 1, wall |-> 1], answer)
           \/ version = 0 /\ lastErr = TRUE /\ stats = NoFlows
              /\ throughput = <<>> /\ flowCache = <<>>
        /\ historyErr \in BOOLEAN
        /\ up = TRUE /\ conn = "none" /\ taken = NoVersion /\ sent = <<>>
        /\ fetch = [i \in Fetches |-> IF i = 1 THEN Asked ELSE Idle]
        /\ ws = "connecting" /\ timer = FALSE /\ status = "connecting"
        /\ shown = [flows |-> 0, chart |-> 0]

Polling == PollSucceeds \/ PollFails \/ PollsHistory
Pushes == Accepts \/ TakesFlows \/ Sends
Fetching(i) == FetchTakesFlows(i) \/ FetchAnswers(i) \/ FetchLost(i) \/ FetchArrives(i)
PageSteps == Opens \/ Receives \/ Closes \/ TimerFires

Next == Polling \/ Pushes \/ Drops \/ UiEnds \/ PageSteps \/ \E i \in Fetches : Fetching(i)

Spec == Init /\ [][Next]_vars

(* Handlers and event loops run; nobody owes a poll that succeeds.         *)
FairSpec == /\ Spec
            /\ WF_vars(Accepts) /\ WF_vars(TakesFlows) /\ WF_vars(Sends)
            /\ WF_vars(Opens) /\ WF_vars(Receives) /\ WF_vars(Closes) /\ WF_vars(TimerFires)
            /\ \A i \in Fetches : WF_vars(Fetching(i))

-----------------------------------------------------------------------------
(* Each poll trims only what is in front, and yet the caches come out as   *)
(* the answers of the last half hour, both of the same polls, whatever     *)
(* happened to the clock and to the polls in between.                      *)
RetentionExact == InStep(throughput, flowCache) /\ Misremembered = {}

(* The inductive strengthening: both caches are of the same polls, whole.  *)
CachesInv == /\ version \in Nat
             /\ flowCache \in Seq(Polls)
             /\ InStep(throughput, flowCache)

Figures == [flows : Nat, chart : Nat]
Requests == {Idle, Asked, Failed} \cup {Took(v) : v \in Nat} \cup {Done(p) : p \in Figures}
TypeOK == /\ stats \in Seq(Flows) /\ lastErr \in BOOLEAN /\ historyErr \in BOOLEAN
          /\ up \in BOOLEAN /\ timer \in BOOLEAN
          /\ conn \in {"none", "open", "ended"} /\ ws \in {"connecting", "open", "closed"}
          /\ taken \in Nat \cup {NoVersion} /\ sent \in Seq(Figures) /\ shown \in Figures
          /\ fetch \in [Fetches -> Requests]
          /\ status \in {"connecting", "connected", "reconnecting", "bootstrap-error"}

(* The two ends of the socket: the page's is open only while there is one  *)
(* of the server, which writes to no page that has none.                   *)
Linked == /\ timer <=> ws = "closed"
          /\ ws = "open" => conn # "none"
          /\ ws = "closed" => conn = "none"
          /\ conn = "none" => sent = <<>>
          /\ taken # NoVersion => conn = "open"

(* Flows and chart are taken one after the other: a poll between them      *)
(* makes the chart the newer one, never the flows; and no push has         *)
(* anything older than the push before it on the socket.                   *)
Dated(p) == p.flows <= p.chart /\ p.chart <= version
FetchedDated == \A i \in Fetches : /\ fetch[i].at = "took" => fetch[i].flows <= version
                                   /\ fetch[i].at = "done" => Dated(fetch[i].payload)
SentInOrder == /\ taken <= version
               /\ \A i \in 1..Len(sent) :
                    /\ Dated(sent[i])
                    /\ taken # NoVersion => sent[i].chart <= taken
                    /\ \A j \in 1..(i - 1) : sent[j].chart <= sent[i].flows
PushesInOrder == Dated(shown) /\ FetchedDated /\ SentInOrder

WebInv == TypeOK /\ CachesInv /\ Linked /\ PushesInOrder

(* The chart and the averages are computed apart, and the page shows them  *)
(* side by side: they speak of the same samples and divide by the same     *)
(* number, unless the clock was set back.                                  *)
ViewsAgree ==
  (flowCache # <<>> => OfSameSamples(throughput, flowCache)) /\ Disagreed = {}

(* If in the end there is a server, no connection breaks and there is      *)
(* something to serve, the page is connected and shows the latest figures  *)
(* for good: no bootstrap that came late, none that failed and no close in *)
(* the past leaves it behind.  The core need not live for it.              *)
CatchesUp ==
  <>[]up /\ <>[]Serves /\ <>[][~Drops]_vars =>
    <>[](ws = "open" /\ shown = [flows |-> version, chart |-> version])
=============================================================================
