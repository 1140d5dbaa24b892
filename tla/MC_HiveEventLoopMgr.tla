------------------------ MODULE MC_HiveEventLoopMgr ------------------------
(***************************************************************************)
(* Instances of HiveEventLoopMgr for TLC.  Algorithms 0..2, products are   *)
(* strings standing for "/Event/<name>" keys.                              *)
(***************************************************************************)
EXTENDS HiveEventLoopMgr

\* Scenario 1 of the spec: a linear chain 0 -> 1 -> 2 through products A, B.
MCProducts    == {"A", "B", "C"}
MCDepsChain   == << {}, {"A"}, {"B"} >>
MCOutputs     == [a \in 0 .. 2 |-> CASE a = 0 -> {"A"} [] a = 1 -> {"B"} [] OTHER -> {"C"}]

\* No data dependencies at all: only the budget and the instance pool order
\* the algorithms.
MCDepsNone    == << >>

\* Scenario 4 of the spec: algorithm 0 needs "C", which nobody writes
\* (algorithm 2 writes nothing), while 1 and 2 need nothing.
MCDepsMissing == << {"C"} >>
MCOutputsNoC  == [a \in 0 .. 2 |-> CASE a = 0 -> {"A"} [] a = 1 -> {"B"} [] OTHER -> {}]

\* One instance per algorithm (CloneAlgorithms = False).
MCCardOne     == [a \in 0 .. 2 |-> 1]

\* Algorithm 1 cloned twice (IsClonable, Cardinality = 2), the others once.
MCCardClone   == [a \in 0 .. 2 |-> IF a = 1 THEN 2 ELSE 1]
=============================================================================
