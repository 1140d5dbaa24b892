---------------------------- MODULE SchedulerSpec ----------------------------
(***************************************************************************)
(* What an event scheduler of GaudiHive promises (spec sections 3, 4.3,    *)
(* 5 and 8), with no control thread, no whiteboard polling and no program  *)
(* counters: events are admitted up to the parallel-events limit, an       *)
(* algorithm is scheduled at most once per event, only on products already *)
(* written for that event, within the in-flight budget and the instance    *)
(* cardinality; a scheduled algorithm executes, then gives its instance    *)
(* back; an event is retired once every algorithm executed for it.  When   *)
(* nothing holds an instance and an admitted event is incomplete the       *)
(* scheduler may give up (the stall exit); whether it gives up only on a   *)
(* real stall is stated separately, as NoFalseStall and StallReported of   *)
(* HiveEventLoopMgr.                                                       *)
(***************************************************************************)
EXTENDS Naturals, FiniteSets

CONSTANTS
  Algs,          \* algorithm indices
  Req,           \* Req[a]: the products algorithm a needs
  Out,           \* Out[a]: the products algorithm a writes
  Card,          \* Card[a]: instances of algorithm a
  MayFail,       \* algorithms whose execution may fail (spec 4.4, 7)
  MaxParallel,   \* in-flight algorithm budget
  EvtsParallel,  \* events in flight at most
  MaxEvt         \* events to process

EvtNums == 0 .. MaxEvt - 1

VARIABLES
  admitted,  \* number of events admitted so far (numbered 0 .. admitted-1)
  retired,   \* events retired
  sched,     \* sched[e]: algorithms scheduled for event e
  ran,       \* ran[e]: algorithms that executed for event e
  avail,     \* avail[e]: products written for event e
  holds,     \* <<a, e>>: an instance of a is held for event e
  failed     \* the scheduler gave up

vars == <<admitted, retired, sched, ran, avail, holds, failed>>

Active == {e \in 0 .. admitted - 1 : e \notin retired}

HeldBy(a) == {h \in holds : h[1] = a}

Init ==
  /\ admitted = 0
  /\ retired = {}
  /\ sched = [e \in EvtNums |-> {}]
  /\ ran = [e \in EvtNums |-> {}]
  /\ avail = [e \in EvtNums |-> {}]
  /\ holds = {}
  /\ failed = FALSE

\* Admit the next n events, never more than EvtsParallel in flight.
Admit ==
  /\ ~failed
  /\ \E n \in 1 .. EvtsParallel :
       /\ admitted + n <= MaxEvt
       /\ Cardinality(Active) + n <= EvtsParallel
       /\ admitted' = admitted + n
  /\ UNCHANGED <<retired, sched, ran, avail, holds, failed>>

\* Schedule a for e: inputs written, budget and an instance available.
Schedule(e, a) ==
  /\ ~failed
  /\ e \in Active
  /\ a \notin sched[e]
  /\ Req[a] \subseteq avail[e]
  /\ Cardinality(holds) < MaxParallel
  /\ Cardinality(HeldBy(a)) < Card[a]
  /\ sched' = [sched EXCEPT ![e] = @ \cup {a}]
  /\ holds' = holds \cup {<<a, e>>}
  /\ UNCHANGED <<admitted, retired, ran, avail, failed>>

\* The scheduled algorithm runs and writes its outputs; one that fails
\* may have written only part of them, and still counts as having run.
Execute(e, a) ==
  /\ a \in sched[e] \ ran[e]
  /\ ran' = [ran EXCEPT ![e] = @ \cup {a}]
  /\ \E w \in SUBSET Out[a] :
       /\ a \notin MayFail => w = Out[a]
       /\ avail' = [avail EXCEPT ![e] = @ \cup w]
  /\ UNCHANGED <<admitted, retired, sched, holds, failed>>

\* The instance goes back once the algorithm ran.
Release(e, a) ==
  /\ <<a, e>> \in holds
  /\ a \in ran[e]
  /\ holds' = holds \ {<<a, e>>}
  /\ UNCHANGED <<admitted, retired, sched, ran, avail, failed>>

\* Retire some complete events.
Retire ==
  /\ ~failed
  /\ \E S \in SUBSET Active :
       /\ S # {}
       /\ \A e \in S : ran[e] = Algs
       /\ retired' = retired \cup S
  /\ UNCHANGED <<admitted, sched, ran, avail, holds, failed>>

\* Give up: nothing is in flight and an admitted event is incomplete.
GiveUp ==
  /\ ~failed
  /\ holds = {}
  /\ \E e \in Active : ran[e] # Algs
  /\ failed' = TRUE
  /\ UNCHANGED <<admitted, retired, sched, ran, avail, holds>>

Next ==
  \/ Admit \/ Retire \/ GiveUp
  \/ \E e \in EvtNums, a \in Algs : Schedule(e, a) \/ Execute(e, a) \/ Release(e, a)

Spec == Init /\ [][Next]_vars

=============================================================================
