-------------------------- MODULE HiveEventLoopMgr --------------------------
(***************************************************************************)
(* The multi-threaded event loop of GaudiHive: HiveEventLoopMgr::nextEvent *)
(* (src/GaudiHive/src/HiveEventLoopMgr.cpp) driven by one control thread,  *)
(* and the HiveAlgoTask it enqueues on the TBB worker pool.                *)
(*                                                                         *)
(* The control thread is a program counter `pc` over the loops of         *)
(* nextEvent: acquire events into free whiteboard slots ("loop"), test if  *)
(* one finished ("sched"), for every event in flight visit every algorithm *)
(* ("algo"/"launch"), run the stall check ("stall") and pull the new       *)
(* products from the whiteboard ("update"), then retire finished events   *)
(* ("retire").  Each worker task runs sysExecute (writes the algorithm's  *)
(* outputs into its slot's store), EventSchedulingState::algoFinished and  *)
(* taskFinished, three separate steps any other thread may interleave.    *)
(*                                                                         *)
(* Algorithm business logic is abstracted to the set of products it       *)
(* writes; products and algorithms are small constant sets.               *)
(***************************************************************************)
EXTENDS Integers, Sequences, FiniteSets, Functions

CONSTANTS
  NAlgs,        \* m_topAlgList.size(); algorithms are indexed 0..NAlgs-1
  Products,     \* data product names (the "/Event/..." keys)
  Deps,         \* m_AlgosDependencies: a sequence, entry i+1 lists the inputs of algorithm i
  Outputs,      \* Outputs[a]: what algorithm a's execute() writes to the store
  AlgCardinality, \* AlgCardinality[a] (the Cardinality property): instances of a in the HiveAlgorithmManager pool
  MaxParallel,  \* m_max_parallel ("MaxAlgosParallel")
  EvtsParallel, \* m_evts_parallel ("MaxEventsParallel"), also the number of stores
  NumThreads,   \* m_num_threads: TBB worker threads that run HiveAlgoTasks
  MaxEvt,       \* the maxevt argument of nextEvent (bounded, >= 0)
  MayFail,      \* algorithms whose sysExecute may return FAILURE
  NoEvt         \* marks a free whiteboard store

Algs    == 0 .. NAlgs - 1
EvtNums == 0 .. MaxEvt - 1
Slots   == 0 .. EvtsParallel - 1

ASSUME /\ NAlgs \in Nat \ {0}
       /\ Deps \in Seq(SUBSET Products) /\ Len(Deps) <= NAlgs
       /\ Outputs \in [Algs -> SUBSET Products]
       /\ AlgCardinality \in [Algs -> Nat \ {0}]
       /\ {MaxParallel, EvtsParallel, NumThreads} \subseteq Nat \ {0}
       /\ MaxEvt \in Nat
       /\ NoEvt \notin EvtNums
       /\ MayFail \subseteq Algs

VARIABLES
  pc,            \* control thread position in nextEvent
  flight,        \* events_in_flight: <<[num, slot, known, started, nfin]>>
  ei,            \* index into flight of the event being visited
  ai,            \* algo_counter of the inner loop
  noAlgoCanRun,  \* no_algo_can_run of the current scheduling pass
  nProcessed,    \* n_processed_events
  inFlight,      \* m_total_algos_in_flight (atomic)
  pool,          \* free instances per algorithm in the HiveAlgorithmManager
  tasks,         \* enqueued HiveAlgoTasks: [alg, ev, slot, phase]
  wbOwner,       \* event number a whiteboard store is allocated to
  wbProducts,    \* products registered in each store
  wbNew,         \* products registered since the last getNewDataObjects
  produced,      \* history: products written by the algorithms of each event
  executed       \* history: algorithms whose sysExecute ran for each event

vars == <<pc, flight, ei, ai, noAlgoCanRun, nProcessed, inFlight, pool,
          tasks, wbOwner, wbProducts, wbNew, produced, executed>>

ctlVars == <<pc, ei, ai, noAlgoCanRun, nProcessed>>
wbVars  == <<wbOwner, wbProducts, wbNew>>

Phases == {"queued", "ran", "counted"}

EventState == [num : EvtNums, slot : Slots, known : SUBSET Products,
               started : SUBSET Algs, nfin : 0 .. NAlgs]

-----------------------------------------------------------------------------
(* Configuration computed once by find_dependencies.                       *)

\* all_requirements[a]: the inputs declared for a; entries past the end of
\* m_AlgosDependencies keep their zero bitset.
Requirements(a) == IF a + 1 <= Len(Deps) THEN Deps[a + 1] ELSE {}

\* m_product_indices: only products some algorithm depends upon are announced.
KnownProducts == UNION {Deps[i] : i \in 1 .. Len(Deps)}

-----------------------------------------------------------------------------
(* Collaborators whose code is not in the repository (from the spec).      *)

\* EventSchedulingState::hasFinished: every algorithm reported algoFinished.
HasFinishedEarly(ev) == ev.nfin >= NAlgs - 1
HasFinished(ev) == ev.nfin = NAlgs

AnyFinished == \E i \in 1 .. Len(flight) : HasFinished(flight[i])

\* HiveAlgorithmManager::releaseAlgorithm puts the instance back.
ReleaseAlgorithm(a) == pool' = [pool EXCEPT ![a] = @ + 1]

\* IHiveWhiteBoard::clearStore empties the stores S and their new-object lists.
ClearStoreKeepNew(S) ==
  /\ wbProducts' = [s \in Slots |-> IF s \in S THEN {} ELSE wbProducts[s]]
  /\ wbNew' = wbNew
ClearStore(S) ==
  /\ wbProducts' = [s \in Slots |-> IF s \in S THEN {} ELSE wbProducts[s]]
  /\ wbNew' = [s \in Slots |-> IF s \in S THEN {} ELSE wbNew[s]]

-----------------------------------------------------------------------------
Init ==
  /\ pc = "loop"
  /\ flight = << >>
  /\ ei = 1
  /\ ai = 0
  /\ noAlgoCanRun = TRUE
  /\ nProcessed = 0
  /\ inFlight = 0
  /\ pool = AlgCardinality
  /\ tasks = {}
  /\ wbOwner = [s \in Slots |-> NoEvt]
  /\ wbProducts = [s \in Slots |-> {}]
  /\ wbNew = [s \in Slots |-> {}]
  /\ produced = [e \in EvtNums |-> {}]
  /\ executed = [e \in EvtNums |-> {}]

-----------------------------------------------------------------------------
(* Control thread: HiveEventLoopMgr::nextEvent.                            *)

\* Outer while: acquire min(free parallel events, events left) new events,
\* each in a store from allocateStore, with a fresh EventSchedulingState.
AcquireEvents ==
  /\ pc = "loop"
  /\ nProcessed < MaxEvt
  /\ LET nIn == Len(flight)
         n   == IF EvtsParallel - nIn < MaxEvt - nProcessed - nIn
                THEN EvtsParallel - nIn ELSE MaxEvt - nProcessed - nIn
         free == {s \in Slots : wbOwner[s] = NoEvt}
     IN \E slotOf \in Injection(0 .. n - 1, free) :
          LET num(k) == nProcessed + k + nIn
          IN /\ flight' = flight \o
                  [k \in 1 .. n |-> [num |-> num(k - 1), slot |-> slotOf[k - 1],
                                     known |-> {}, started |-> {}, nfin |-> 0]]
             /\ wbOwner' = [s \in Slots |->
                              IF \E k \in 0 .. n - 1 : slotOf[k] = s
                              THEN num(CHOOSE k \in 0 .. n - 1 : slotOf[k] = s)
                              ELSE wbOwner[s]]
  /\ pc' = "sched"
  /\ UNCHANGED <<ei, ai, noAlgoCanRun, nProcessed, inFlight, pool, tasks,
                 wbProducts, wbNew, produced, executed>>

\* Outer while exits once maxevt events were processed.
LoopFinished ==
  /\ pc = "loop"
  /\ nProcessed >= MaxEvt
  /\ pc' = "done"
  /\ UNCHANGED <<flight, ei, ai, noAlgoCanRun, nProcessed, inFlight, pool,
                 tasks, wbVars, produced, executed>>

\* Inner while: loop until at least one event in flight has finished.
CheckFinished ==
  /\ pc = "sched"
  /\ IF AnyFinished
     THEN /\ pc' = "retire"
          /\ UNCHANGED <<ei, ai, noAlgoCanRun>>
     ELSE /\ pc' = "algo"
          /\ ei' = 1
          /\ ai' = 0
          /\ noAlgoCanRun' = TRUE
  /\ UNCHANGED <<flight, nProcessed, inFlight, pool, tasks, wbVars,
                 produced, executed>>

\* Condition of the scheduling if block: requirements met in the control
\* thread's view, not started in this event, budget not exhausted.
CanStartNoDeps(ev, a) ==
  /\ a \notin ev.started
  /\ inFlight < MaxParallel
CanStart(ev, a) ==
  /\ Requirements(a) \subseteq ev.known
  /\ a \notin ev.started
  /\ inFlight < MaxParallel

\* Move to the next algorithm, or to the stall check after the last one.
NextAlgo ==
  /\ ai' = ai + 1
  /\ pc' = IF ai + 1 = NAlgs THEN "stall" ELSE "algo"

\* The algorithm can run and an instance is free: set its context and
\* enqueue the HiveAlgoTask (algoStarts and ++in-flight come after).
ScheduleAlgo ==
  /\ pc = "algo"
  /\ CanStart(flight[ei], ai)
  /\ pool[ai] > 0
  /\ noAlgoCanRun' = FALSE
  /\ pool' = [pool EXCEPT ![ai] = @ - 1]
  /\ tasks' = tasks \cup {[alg |-> ai, ev |-> flight[ei].num,
                           slot |-> flight[ei].slot, phase |-> "queued"]}
  /\ pc' = "launch"
  /\ UNCHANGED <<flight, ei, ai, nProcessed, inFlight, wbVars, produced, executed>>

\* The algorithm can run but acquireAlgorithm finds no free instance.
AcquireFails ==
  /\ pc = "algo"
  /\ CanStart(flight[ei], ai)
  /\ pool[ai] = 0
  /\ noAlgoCanRun' = FALSE
  /\ NextAlgo
  /\ UNCHANGED <<flight, ei, nProcessed, inFlight, pool, tasks, wbVars,
                 produced, executed>>

\* The algorithm cannot run now.
SkipAlgo ==
  /\ pc = "algo"
  /\ ~CanStart(flight[ei], ai)
  /\ NextAlgo
  /\ UNCHANGED <<flight, ei, noAlgoCanRun, nProcessed, inFlight, pool, tasks,
                 wbVars, produced, executed>>

\* event_state->algoStarts(algo_counter); ++m_total_algos_in_flight.
AlgoStartsLost ==
  /\ pc = "launch"
  /\ flight' = [flight EXCEPT ![ei].started = @ \cup {ai}]
  /\ inFlight' = inFlight
  /\ NextAlgo
  /\ UNCHANGED <<ei, noAlgoCanRun, nProcessed, pool, tasks, wbVars,
                 produced, executed>>
AlgoStarts ==
  /\ pc = "launch"
  /\ flight' = [flight EXCEPT ![ei].started = @ \cup {ai}]
  /\ inFlight' = inFlight + 1
  /\ NextAlgo
  /\ UNCHANGED <<ei, noAlgoCanRun, nProcessed, pool, tasks, wbVars,
                 produced, executed>>

\* The detailed stall test.  algo_counter is set to 0 before the loop over
\* m_all_requirements and never incremented, so every algorithm is tested
\* with hasStarted(0).
Stalled ==
  \A i \in 1 .. Len(flight) :
    ~\E a \in Algs : /\ Requirements(a) \subseteq flight[i].known
                     /\ 0 \notin flight[i].started

StallSuspected == noAlgoCanRun /\ inFlight = 0 /\ ~AnyFinished

\* The stall is confirmed: the GaudiException leaves nextEvent.
ThrowStall ==
  /\ pc = "stall"
  /\ StallSuspected
  /\ Stalled
  /\ pc' = "stalled"
  /\ UNCHANGED <<flight, ei, ai, noAlgoCanRun, nProcessed, inFlight, pool,
                 tasks, wbVars, produced, executed>>

PassStallCheck ==
  /\ pc = "stall"
  /\ ~(StallSuspected /\ Stalled)
  /\ pc' = "update"
  /\ UNCHANGED <<flight, ei, ai, noAlgoCanRun, nProcessed, inFlight, pool,
                 tasks, wbVars, produced, executed>>

\* getNewDataObjects on the event's store; products with an index are
\* announced with update_state; then the next event in flight.
UpdateState ==
  /\ pc = "update"
  /\ LET s == flight[ei].slot IN
       /\ flight' = [flight EXCEPT ![ei].known = @ \cup (wbNew[s] \cap KnownProducts)]
       /\ wbNew' = [wbNew EXCEPT ![s] = {}]
  /\ IF ei < Len(flight)
     THEN /\ ei' = ei + 1
          /\ ai' = 0
          /\ pc' = "algo"
     ELSE /\ pc' = "sched"
          /\ UNCHANGED <<ei, ai>>
  /\ UNCHANGED <<noAlgoCanRun, nProcessed, inFlight, pool, tasks, wbOwner,
                 wbProducts, produced, executed>>

\* Remove the finished events: clearStore and freeStore their slots.
RetireEvents ==
  /\ pc = "retire"
  /\ LET fin  == {i \in 1 .. Len(flight) : HasFinished(flight[i])}
         done == {flight[i].slot : i \in fin}
     IN /\ flight' = SelectSeq(flight, LAMBDA ev : ~HasFinished(ev))
        /\ nProcessed' = nProcessed + Cardinality(fin)
        /\ wbOwner' = [s \in Slots |-> IF s \in done THEN NoEvt ELSE wbOwner[s]]
        /\ ClearStore(done)
  /\ pc' = "loop"
  /\ UNCHANGED <<ei, ai, noAlgoCanRun, inFlight, pool, tasks, produced, executed>>

Control ==
  \/ AcquireEvents \/ LoopFinished \/ CheckFinished
  \/ ScheduleAlgo \/ AcquireFails \/ SkipAlgo \/ AlgoStarts
  \/ ThrowStall \/ PassStallCheck \/ UpdateState \/ RetireEvents

-----------------------------------------------------------------------------
(* Worker threads: HiveAlgoTask::execute.                                  *)

Busy == Cardinality({t \in tasks : t.phase # "queued"})

\* What sysExecute of a leaves in the store: all its outputs, or, when it
\* fails, any part of them.  The task ignores the StatusCode either way.
Written(a) == IF a \in MayFail THEN SUBSET Outputs[a] ELSE {Outputs[a]}

\* A free worker picks the task; sysExecute selects the store of the
\* context's slot and the algorithm writes its outputs there.
TaskExecute(t) ==
  /\ t.phase = "queued"
  /\ Busy < NumThreads
  /\ tasks' = (tasks \ {t}) \cup {[t EXCEPT !.phase = "ran"]}
  /\ \E w \in Written(t.alg) :
       /\ wbProducts' = [wbProducts EXCEPT ![t.slot] = @ \cup w]
       /\ wbNew' = [wbNew EXCEPT ![t.slot] = @ \cup w]
       /\ produced' = [produced EXCEPT ![t.ev] = @ \cup w]
  /\ executed' = [executed EXCEPT ![t.ev] = @ \cup {t.alg}]
  /\ UNCHANGED <<ctlVars, flight, inFlight, pool, wbOwner>>

\* m_scheduler->algoFinished() on the event's EventSchedulingState.
TaskAlgoFinished(t) ==
  /\ t.phase = "ran"
  /\ \E i \in 1 .. Len(flight) :
       /\ flight[i].num = t.ev
       /\ flight' = [flight EXCEPT ![i].nfin = @ + 1]
  /\ tasks' = (tasks \ {t}) \cup {[t EXCEPT !.phase = "counted"]}
  /\ UNCHANGED <<ctlVars, inFlight, pool, wbVars, produced, executed>>

\* taskFinished: release the instance, then --m_total_algos_in_flight.
TaskFinishedLeak(t) ==
  /\ t.phase = "counted"
  /\ ReleaseAlgorithm(t.alg)
  /\ inFlight' = inFlight
  /\ tasks' = tasks \ {t}
  /\ UNCHANGED <<ctlVars, flight, wbVars, produced, executed>>
TaskFinished(t) ==
  /\ t.phase = "counted"
  /\ ReleaseAlgorithm(t.alg)
  /\ inFlight' = inFlight - 1
  /\ tasks' = tasks \ {t}
  /\ UNCHANGED <<ctlVars, flight, wbVars, produced, executed>>

Worker(a, e) ==
  \E t \in tasks : /\ t.alg = a /\ t.ev = e
                   /\ TaskExecute(t) \/ TaskAlgoFinished(t) \/ TaskFinished(t)

\* nextEvent returned, or the stall exception left it.
Terminated ==
  /\ pc \in {"done", "stalled"}
  /\ UNCHANGED vars

Next ==
  \/ Control
  \/ \E a \in Algs, e \in EvtNums : Worker(a, e)
  \/ Terminated

\* The control thread never blocks; TBB runs every enqueued task.
Fairness ==
  /\ WF_vars(Control)
  /\ \A a \in Algs, e \in EvtNums : WF_vars(Worker(a, e))

Spec == Init /\ [][Next]_vars /\ Fairness

-----------------------------------------------------------------------------
(* Properties.                                                             *)

TypeOK ==
  /\ pc \in {"loop", "sched", "algo", "launch", "stall", "update", "retire",
             "done", "stalled"}
  /\ Len(flight) <= EvtsParallel /\ \A i \in 1 .. Len(flight) : flight[i] \in EventState
  /\ ei \in 1 .. EvtsParallel /\ ai \in 0 .. NAlgs
  /\ noAlgoCanRun \in BOOLEAN
  /\ nProcessed \in 0 .. MaxEvt
  /\ inFlight \in -1 .. MaxParallel
  /\ pool \in [Algs -> Nat]
  /\ tasks \subseteq [alg : Algs, ev : EvtNums, slot : Slots, phase : Phases]
  /\ wbOwner \in [Slots -> EvtNums \cup {NoEvt}]
  /\ wbProducts \in [Slots -> SUBSET Products]
  /\ wbNew \in [Slots -> SUBSET Products]
  /\ produced \in [EvtNums -> SUBSET Products]
  /\ executed \in [EvtNums -> SUBSET Algs]

\* P1 (precedence): nextEvent enqueues a HiveAlgoTask only once every input
\* declared in AlgosDependencies was written by an algorithm of the same
\* event, whatever the order in which worker threads finished.
Precedence ==
  \A t \in tasks : Requirements(t.alg) \subseteq produced[t.ev]

\* P5 (slot isolation): a whiteboard store, its list of new objects and the
\* products the control thread believes available for an event only hold
\* products written for that event, even after the store was recycled by
\* clearStore/freeStore and allocated to a later event.
SlotIsolation ==
  /\ \A s \in Slots : wbOwner[s] # NoEvt =>
        wbProducts[s] \cup wbNew[s] \subseteq produced[wbOwner[s]]
  /\ \A i \in 1 .. Len(flight) : flight[i].known \subseteq produced[flight[i].num]

\* P2 and the in-flight budget: m_total_algos_in_flight, incremented by the
\* control thread after enqueueing and decremented by taskFinished, counts
\* exactly the live tasks (one less while the control thread is between
\* enqueue and ++), never exceeds MaxAlgosParallel, and every instance of an
\* algorithm is either in the pool or held by one live task.
ResourceAccounting ==
  /\ inFlight = Cardinality(tasks) - (IF pc = "launch" THEN 1 ELSE 0)
  /\ Cardinality(tasks) <= MaxParallel
  /\ \A a \in Algs :
       pool[a] + Cardinality({t \in tasks : t.alg = a}) = AlgCardinality[a]

\* An event is retired (store cleared and freed, its context and
\* EventSchedulingState deleted) only after every algorithm executed for it
\* and every task of it passed algoFinished: the tasks left only release
\* their instance and never touch the deleted event again.
RetireComplete ==
  [][pc = "retire" =>
       \A i \in 1 .. Len(flight) :
         (~\E j \in 1 .. Len(flight') : flight'[j].num = flight[i].num) =>
           /\ executed[flight[i].num] = Algs
           /\ \A t \in tasks : t.ev = flight[i].num => t.phase = "counted"]_vars

\* The stall exception is thrown only when no algorithm of any event in
\* flight can ever run, as the fatal message states ("no algorithm can be
\* scheduled on the events being processed").
NoFalseStall ==
  pc = "stalled" =>
    \A i \in 1 .. Len(flight) :
      ~\E a \in Algs \ flight[i].started :
         Requirements(a) \subseteq produced[flight[i].num]

\* nextEvent returns after maxevt events were processed.
Termination == <>(pc = "done")

\* HiveAlgoTask ignores the StatusCode of sysExecute, so a producer that
\* fails without writing its outputs leaves its consumers unrunnable.  The
\* events that do not need it still complete, and nextEvent must end
\* either way: it returns, or it throws the stall exception once nothing is
\* in flight; it never spins in its scheduling loop.
LoopEnds == <>(pc \in {"done", "stalled"})

\* An event that can never complete (nothing of it in flight, no unstarted
\* algorithm with its inputs written) is eventually reported as a stall
\* rather than making nextEvent loop forever (spec P4).
EventStuck(i) ==
  /\ ~HasFinished(flight[i])
  /\ ~\E t \in tasks : t.ev = flight[i].num
  /\ ~\E a \in Algs \ flight[i].started :
        Requirements(a) \subseteq produced[flight[i].num]

StallReported ==
  (pc \notin {"done", "stalled"} /\ \E i \in 1 .. Len(flight) : EventStuck(i))
    ~> (pc = "stalled")


-----------------------------------------------------------------------------
(* Refinement of the abstract scheduler.  Events are numbered in order of   *)
(* acquisition, so 0 .. n_processed + |in flight| - 1 were admitted; an    *)
(* algorithm counts as scheduled for an event from the moment its task is  *)
(* enqueued, and holds an instance until taskFinished.                      *)

AbsScheduled == [e \in EvtNums |->
                   executed[e] \cup {t.alg : t \in {u \in tasks : u.ev = e}}]

Abs == INSTANCE SchedulerSpec
         WITH Algs <- Algs,
              Req <- [a \in Algs |-> Requirements(a)],
              Out <- Outputs,
              Card <- AlgCardinality,
              MayFail <- MayFail,
              admitted <- nProcessed + Len(flight),
              retired <- {e \in 0 .. nProcessed + Len(flight) - 1 :
                            ~\E i \in 1 .. Len(flight) : flight[i].num = e},
              sched <- AbsScheduled,
              ran <- executed,
              avail <- produced,
              holds <- {<<t.alg, t.ev>> : t \in tasks},
              failed <- (pc = "stalled")

\* The event loop and its worker tasks implement the abstract scheduler:
\* events are admitted within MaxEventsParallel and in number order, each
\* algorithm is enqueued at most once per event, only on inputs written for
\* that event and within both the in-flight budget and its instance
\* cardinality, and an event's store is retired only once all ran.
SchedulerRefinement == Abs!Spec

=============================================================================
