----------------------------- MODULE MCTuiModel -----------------------------
(* Four processes: a family three deep of two categories, and a circle     *)
(* beside one that is its own parent.  At the low window height a page has *)
(* three rows of the processes and six of the history.                     *)
EXTENDS TuiModel

MCPids == 1..4

AllUser == [p \in MCPids |-> "user"]
Family == [parent |-> <<None, 1, 1, 3>>,
           cat    |-> <<"user", "user", "system", "user">>]
Circle == [parent |-> <<2, 1, 3, 3>>, cat |-> AllUser]

MCSnapshots == {Family, Circle}
MCHistories == {7}
MCOrders == {<<1, 2, 3, 4>>, <<4, 3, 2, 1>>}
MCSortKeys == <<"download", "pid">>
MCHeights == {10, 30}
=============================================================================
