---------------------------- MODULE MCWebSession ----------------------------
(* WebSession for answers with no process and with one; the algorithms of  *)
(* StatsSamples for up to four polls of two processes, one or more seconds *)
(* apart, with one change of the wall clock.                               *)
EXTENDS WebSession

CONSTANTS p1, p2

Flow(pid, speed, total) == [pid |-> pid, speed |-> speed, total |-> total]
MCAnswers == {NoFlows, <<Flow(p1, 1, 1)>>}

MCFlows == {Flow(p1, 1, 1), Flow(p1, 1, 4), Flow(p1, 2, 5), Flow(p2, 4, 8)}
MixedAnswers == {NoFlows, <<Flow(p1, 1, 4)>>, <<Flow(p2, 4, 8), Flow(p1, 2, 5)>>}

(* Polls `gaps` after each other, the clock moved by `jump` before one.    *)
HistoriesOf(n, brought) ==
  {[i \in 1..n |->
      LET mono == 10 + Total(SubSeq(gaps, 1, i))
      IN  [mono |-> mono, wall |-> IF i >= at THEN mono + jump ELSE mono, answer |-> answers[i]]] :
    gaps \in [1..n -> {1, 3}], answers \in [1..n -> brought],
    at \in 2..n, jump \in {-3, 0, 2}}
MCHistories == HistoriesOf(3, MixedAnswers) \cup HistoriesOf(4, MixedAnswers \ {NoFlows})
=============================================================================
