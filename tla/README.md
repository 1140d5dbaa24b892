# TLA+ models of the Gaudi Hive event loop, the algorithm and tool lifecycles, the Google profiling auditors, the message service, the n-tuple service and event ids

This directory holds TLA+ models of parts of the Gaudi framework under `src/`,
the TLC configurations that check them and `PROJECT.json`. `PROJECT.json` lists:

- the components,
- the runs,
- the mutants that show each property can fail,
- the map from every definition to the lines it models,
- the findings,
- the hazards.

## The system and its parts

Gaudi is an event-processing framework. An application manager configures
services and algorithms. An event loop manager feeds events through the
algorithms. Algorithms read and write data products in a per-event store.

GaudiHive is the multi-threaded part. Its scheduler runs several events at
once, each in its own whiteboard store (a slot). An algorithm is started as
soon as the products it needs exist for that event. Two limits apply:

- a budget of algorithms in flight (`MaxAlgosParallel`);
- a pool of instances per algorithm (its `Cardinality`).

### Parts in `src/`

- **HiveEventLoopMgr** (`src/GaudiHive/src/HiveEventLoopMgr.cpp`): the Hive
  event loop, modelled here.
  - `nextEvent` runs on one control thread.
  - `HiveAlgoTask::execute` runs on the TBB worker threads. It calls
    `sysExecute`, then `EventSchedulingState::algoFinished`, then
    `taskFinished`.
  - `taskFinished` puts the instance back and decrements
    `m_total_algos_in_flight`.
  - `find_dependencies` turns `AlgosDependencies` into requirement bitsets.
- **Collaborators that are not in `src/`**: `HiveAlgorithmManager`,
  `EventSchedulingState` and the whiteboard `IHiveWhiteBoard`. They are
  modelled from the spec, as the helpers the event loop calls.
- **AvalancheSchedulerSvc**: only its header is in `src/`. Its promises, as the
  spec states them, are the abstract module `SchedulerSpec`.
- **Other parts**: algorithm and tool lifecycles, the message service, the
  n-tuple service, `EventIDBase`,
  the auditors, the job-options parsers and the persistency and
  monitoring services. `PROJECT.json` lists each one with its status.

### How the event loop and the workers interact

The control thread loops over five steps:

1. Acquire up to `MaxEventsParallel` events into free stores.
2. For every event in flight, walk all algorithms. It enqueues a task for each
   algorithm whose inputs are known, that has not started, and that fits the
   budget.
3. Run a stall check.
4. Pull the event's new products from the whiteboard (`getNewDataObjects`).
5. Once some event has finished, clear, free and delete the finished events.

The workers change three pieces of shared state:

- the store (through the algorithm's writes);
- the `EventSchedulingState` finished counter;
- the atomic in-flight counter and the instance pool.

The control thread reads all of these without locks.

## Modules

### `HiveEventLoopMgr.tla`: the event loop and its tasks

State:

| Variable | Code |
|---|---|
| `pc` | position of the control thread in `nextEvent` |
| `flight` | `events_in_flight`: each entry holds the event number, the slot, the products the control thread knows, the algorithms started and `algoFinished` calls so far |
| `ei`, `ai` | the loop indices |
| `noAlgoCanRun` | `no_algo_can_run` |
| `nProcessed` | `n_processed_events` |
| `inFlight` | `m_total_algos_in_flight` |
| `pool` | free instances per algorithm |
| `tasks` | the enqueued `HiveAlgoTask`s and how far each got |
| `wbOwner`, `wbProducts`, `wbNew` | per store: the owning event, its products, and the products not yet returned by `getNewDataObjects` |
| `produced`, `executed` | history variables for the properties |

Control-thread actions, in code order:

- `AcquireEvents` (lines 494–536)
- `CheckFinished` (541–546)
- `ScheduleAlgo` (560–572), `AcquireFails` (565), `SkipAlgo` and `AlgoStarts` (574–575)
- `ThrowStall` and `PassStallCheck` (583–636)
- `UpdateState` (650–660)
- `RetireEvents` (664–710)
- `LoopFinished`

Worker actions, one task at a time and at most `NumThreads` at once:

- `TaskExecute`: `sysExecute` writes the algorithm's outputs to its slot.
  An algorithm in `MayFail` may fail and write any part of them (`Written`).
  The task ignores the status either way.
- `TaskAlgoFinished`
- `TaskFinished`

The stall test `Stalled` keeps the code's loop exactly. `algo_counter` is never
incremented there, so every algorithm is tested with `hasStarted(0)`.

Algorithms are abstracted to the set of products they write (`Outputs`).
Products are model values; an algorithm's business logic is left out.

The module ends with a refinement mapping to `SchedulerSpec`:

- admitted events are `0 .. n_processed + |in flight| - 1`;
- an algorithm counts as scheduled for an event from the moment its task is
  enqueued;
- an instance is held until `taskFinished`;
- the abstract scheduler gives up when the event loop throws its stall
  exception.

### `SchedulerSpec.tla`: what a Hive scheduler promises

The module has no control thread and no polling. Its actions are:

- `Admit`: admit events up to the parallel-events limit.
- `Schedule`: schedule each algorithm at most once per event, only on products
  written for that event, within the budget and the cardinality.
- `Execute`, then `Release`: the algorithm runs, then gives back its instance.
- `Retire`: retire complete events.
- `GiveUp`: give up while nothing is in flight and an event is incomplete.

Whether the scheduler gives up only on a real stall is deliberately left open
here. `NoFalseStall` and `StallReported` pin it down separately (see the
runs and finding 2).

### `AlgorithmLifecycle.tla`: an algorithm and its sub-algorithms

This module models `Algorithm::sys*` in `src/GaudiKernel/src/Lib/Algorithm.cpp`
for one top algorithm with an ordered sequence of sub-algorithms
(`m_subAlgms`).

State:

| Variable | Code |
|---|---|
| `state` | `m_state` |
| `enabled` | the `Enable` property, fixed at construction |
| `errorCount` | `m_errorCount` |
| `initDone` | history variable: `initialize()` succeeded and no `finalize()` succeeded since |
| `finalizing` | the algorithms whose `finalize()` ran in the step |
| `lastCall` | the top-level call and the status it returned |

Actions are the top algorithm's `SysInitialize`, `SysStart`, `SysStop`,
`SysFinalize`, `SysExecute`, `SysRestart`, `SysReinitialize`, `SysBeginRun`
and `SysEndRun`. `SysReinitialize` leaves `m_state` alone; its status is
FAILURE when the algorithm is not INITIALIZED, when its `reinitialize()`
fails, or when a sub-algorithm's does (`for_algorithms` calls every one).

- Each action is the whole method: the early returns (`Bypass`, `Skipped`),
  the `ChangeState` call, the user hook and the call to every sub-algorithm.
- Each user hook returns SUCCESS or FAILURE, chosen by `\E`. The try block
  turns an exception into FAILURE.
- `Gaudi::StateMachine::ChangeState` is not in the repository. It is modelled
  as the table `Transitions`.
- A transition that is not in the table throws. In a sub-algorithm, that
  exception leaves the parent's loop over the sub-algorithms early
  (`Reached`) and is caught by the parent's try block.
- The caller may invoke any method at any time. `sysExecute` is called only
  while the top algorithm is RUNNING, and its `execute()` may call
  `sysExecute` of any subset of its sub-algorithms.

### `GaudiStateMachine.tla`: the shared state table

`Gaudi::StateMachine::ChangeState` is not in the repository. This module
holds it once, as the table `Transitions` and the test `Allowed`, for
`AlgorithmLifecycle.tla` and `AlgToolLifecycle.tla`. A transition that is
not in the table throws.

### `AlgToolLifecycle.tla`: the tools of the ToolSvc

This module models `AlgTool::sys*` in `src/GaudiKernel/src/Lib/AlgTool.cpp`
for a set `Tools` of tools. The ToolSvc may call any method of any tool at
any time.

| Variable | Code |
|---|---|
| `state`, `targetState` | `m_state`, `m_targetState` of each tool |
| `ran` | history: the user hooks called in the step |
| `lastCall` | history: the tool, the call and the status it returned |

- `SysTransition(t, op)` is `sysInitialize`, `sysStart`, `sysStop` or
  `sysFinalize`. `attempt()` wraps `ChangeState`, the hook and the update of
  `m_state` on success, and turns the `ChangeState` exception into FAILURE.
- `SysReinitialize(t)` refuses a tool that is not INITIALIZED and otherwise
  calls `reinitialize()`, which changes no state.
- `SysRestart(t)` refuses a tool that is not RUNNING. Otherwise it calls
  `ChangeState(START, m_state)` and then `restart()` (`Restart`: `stop()`,
  then `start()` if `stop()` succeeded). The last arm of the CASE is the
  code's call of `restart()`; `ChangeState` always throws before it.

### `GoogleAuditor.tla`: the Google profiling auditors

This module models `Google::AuditorBase` and its three profilers in
`src/GaudiProfiling/src/component/google/GoogleAuditor.cpp`. It has no
variables. Each operator takes a record `r` of the auditor's members and
returns the record after one call, so a composing module can apply the calls
of a step in order.

| Record field | Code |
|---|---|
| `kind`, `full`, `enabled` | the profiler class, `DoFullEventProfile`, `HeapChecker::m_enabled` (HEAPCHECK = "local") |
| `audit`, `nEvts` | `m_audit`, `m_nEvts` |
| `sample`, `inFull` | `m_sampleEventCount`, `m_inFullAudit` |
| `startedBy`, `running` | `m_startedBy`; `alreadyRunning()` of the profiler |
| `span` | history: events covered by the last full-event audit that ended |

- `HandleBeginEvent` is `handle(BeginEvent)`. It counts the event and decides
  `m_audit` (`SkipEvents`, `ProfileFreq`). In full-event mode it stops the
  running audit once `FullEventNSampleEvents` events are counted, or else
  counts one more. Then it starts an audit if none runs.
- `Before` and `After` are the `before`/`after` overloads. Sequencers are
  skipped when `SkipSequencers` is set. Per-component mode starts the profiler
  for the first enabled component and phase while none runs. It stops the
  profiler in the `after()` of the component that started it.
- `FinalizeAuditor` is `finalize()`.

`AuditedTools` also carries the algorithm context: `ctx` is the
`AlgContextSvc` stack and `ctxOn` is whether the `AlgContextAuditor` holds the
service. `Registered` names the algorithms with `RegisterForContextService`.

### `AuditedTools.tla`: tools and algorithms under a Google auditor

This module composes `AlgToolLifecycle` (by `INSTANCE`) with one Google
auditor.

- **Tool calls.** Every `sys*` method of a tool builds an `AuditorGuard`
  after `ChangeState`. The guard calls `before` on construction and `after`
  on destruction, and only does so when the method's `AuditXxx` flag
  (`auditFlag`) is set.
  - The constructor copies `AuditTools` into the Initialize, Start, Stop and
    Finalize flags.
  - The Reinitialize and Restart flags are not set there, so each is chosen
    freely.
- **Algorithm calls.** The guards of algorithms are a stack of open calls,
  because guarded calls nest (`sysExecute` running sub-algorithms).
  `OpenGuard` calls `before`; `CloseGuard` calls `after` on the innermost
  open call. An algorithm's guard reaches the auditors only when its
  `AuditXxx` flags are set. `Algorithm`'s constructor copies the
  ApplicationMgr's `AuditAlgorithms` into all of them (`algAudit`, chosen
  per algorithm).
- **Event boundaries.** The event loop fires `BeginEvent` only while no guard
  is open (`HiveEventLoopMgr::executeEvent`). `Finalize` ends the job.
- **`owner`** records the frame whose `before()` started the profiler.

### `AlgContext.tla`: the algorithm context

This module holds operators on the `AlgContextSvc`'s stack of running
algorithms, a sequence of names, innermost last. The service is not in
`src/`; its `setCurrentAlg` pushes and its `unSetCurrentAlg` pops only the
algorithm on top.

Two clients use the stack:

- `AlgContextEnter` and `AlgContextLeave` are the `Gaudi::Utils::AlgContext`
  that every `Algorithm::sys*` method builds first. It is active when
  `RegisterForContextService` is set.
- `CtxBefore` and `CtxAfter` are the overrides of `AlgContextAuditor`
  (`src/GaudiAud/src/AlgContextAuditor.cpp`) for Initialize, Execute and
  Finalize. They act only while `initialize()` has found the service.

`AuditedTools` applies them around each algorithm call:

- the call's AlgContext is built, then its guard;
- on return, the guard is destroyed, then the AlgContext.

### `HiveMgrService.tla`: the event loop manager as a service

This module models the service methods of `HiveEventLoopMgr`
(`src/GaudiHive/src/HiveEventLoopMgr.cpp`): `initialize`, `reinitialize`,
`stop`, `finalize` and the status of `executeEvent`. The base class
`MinimalEventLoopMgr` is not in `src/`; its methods return SUCCESS or
FAILURE, chosen by `\E`, and `start` moves INITIALIZED to RUNNING.

| Variable | Code |
|---|---|
| `mgrState` | `FSMState()` |
| `evtSel` | `m_evtSelector`, as the selector it points to, or `NoSel` |
| `evtCtx` | `m_evtContext`, as the selector that created it |
| `openCtx` | history: contexts created and not released, per selector |
| `histoData`, `histoPers` | `m_histoDataMgrSvc`, `m_histoPersSvc` are valid |
| `tbb` | `m_tbb_scheduler_init`: unset, live or deleted |
| `endEventFired` | `m_endEventFired` |

Every service lookup, the `EvtSel` property and every status a collaborator
returns are inputs. `initialize` keeps its early returns, including those
that return the SUCCESS of the last call after a fatal message (no
EventSelector, no histogram service). `reinitialize` has one disjunct per
branch of its `EvtSel` test: a new selector (the old context released
first), the same selector (its context released and created again), and
`"NONE"` (selector and context dropped).

### `EventLoopJob.tla`: the manager running an algorithm

`EventLoopJob` composes `HiveMgrService` with an `AlgorithmLifecycle`
instance that stands for the output stream. The application manager may
call any `sys*` method of either in any order. `ExecuteEvent` is allowed
while both are RUNNING: either a BeginEvent listener scheduled a stop (the
algorithms are not called), or the algorithm's `sysExecute` runs and its
status decides the event's.

### `MessageSvc.tla`: the message service

This module models `src/GaudiCoreSvc/src/MessageSvc/MessageSvc.cpp`. A
message is a source and a level; its text, format and colour are left out.

State:

| Variable | Code |
|---|---|
| `msgCount`, `sourceMap` | `m_msgCount`, `m_sourceMap[source].msg[level]` (ints of `IntWidth` bits, wrapping) |
| `msgLimit`, `suppress`, `stats` | `m_msgLimit`, `enableSuppression`, `showStats` |
| `outputLevel`, `thresholdMap` | `m_outputLevel`, `m_thresholdMap` |
| `streamMap`, `messageMap` | the multimaps `m_streamMap` and `m_messageMap`, as counts of equal entries |
| `loggedStreams`, `opened` | `m_loggedStreams`, as the file each source's ofstream is open on; ofstreams opened per file |
| `calls`, `lost`, `announced` | history: calls so far, sources and levels of which a message was written nowhere, "limit reached" warnings issued |

Actions:

- `ReportMessage` and `ReportStatus` are `reportMessage` and its overloads.
  `ReportStep` is one `reportMessage(msg, outputLevel)`: count, suppress,
  route. `reportMessage` holds a recursive mutex, so a call is one step.
- `InsertStream`, `EraseStream`, `InsertMessage` and `EraseMessage` are the
  multimap operations. Their erase forms take sets of keys and values.
- `SetLimit`, `SetSuppress`, `SetStats`, `SetOutputLevel` and
  `SetSourceLevel` are property writes. Each stores the value and then runs
  the update handler (`PropertyWithVerifier::set` in `Property.h`):
  `setupLimits` for limits, `setupThreshold` for thresholds.
- `Finalize` switches suppression off; the summary it prints is output only.
- `Initialize` and `Reinitialize` run `setupLogStreams`. Whether each log
  file opens is chosen by `\E`.
- Every call counts against the bound `MaxCalls`. The service only reacts to
  calls, so its configurations do not check deadlock.

### `NTupleSvc.tla`: the n-tuple service

This module models the connections of
`src/GaudiSvc/src/NTupleSvc/NTupleSvc.cpp`. Each entry `"LUN OPT='...'"` of
the `Output` and `Input` properties, and each later `connect`, creates a
`ConversionSvc` of its own, registers a file entry `/NTUPLES/<LUN>` in the
store (`attachTuple`) and records the service in `m_connections`. The store
(`DataSvc`) is not in `src/`; the model keeps which file entries are
registered and which tuples are booked.

| Variable | Code |
|---|---|
| `conns` | `m_connections`, LUN to the index of its service |
| `svc`, `nSvc` | each `ConversionSvc` created: live while NTupleSvc holds the reference `createService` took, released by `releaseConnection` |
| `entries` | the file entries `attachTuple` registered, with their type `N`, `U` or `O` |
| `booked`, `cnv` | the booked tuples and the service each caches (`TupleImp::conversionService()`) |
| `sent` | history: the services each tuple's `createRep`/`updateRep` calls went to |
| `histPersistency` | `ApplicationMgr.HistogramPersistency`, read by `createService` |

`DoConnect` is the whole of `connect`: the OPT switch (`OptTyp`),
`createService` (it fails before creating anything unless the persistency is
HBOOK or ROOT; `sysInitialize` or `setDataProvider` of the new service may
fail after it was created), `attachTuple` (it fails if the entry exists), and
the `insert`. `Initialize` folds `DoConnect` over `Output` then `Input`.
`WriteRecord` and `ReadRecord` cache `getDataLoader`'s service in a tuple that
has none, and `WriteRecord` writes through it. `Save` writes through the
cached service only. `Finalize` runs `updateDirectories`, which saves the
booked tuples of every `N` or `U` file through the file's current
connection. It then clears the store and releases every connection. A booked
tuple is assumed to load its file entry, which `updateDirectories` needs.

### `EventIDBase.tla`: event ids and their order

This module models `src/GaudiKernel/GaudiKernel/EventIDBase.h`. The variable
`eid` holds several objects, each with its run, event, lumi and time-stamp
fields and its `m_type` bitmask (the `enum Type` values, combined with `|`
from the `Bitwise` module). Each action is one setter called on one object
with a value from `Nums`: it stores the field and sets the bits of every
pair of fields that are now defined. `Less` is `operator<`, `TieLess` the
`std::tie` comparison, and `Equal` is `operator==`; the other four operators
are defined from them as in the header. `MakeCmp` is `details::make_cmp`
with its default `std::greater<>`, and `SortByRunEvent`, `SortByLumiEvent`
and `SortByRunLumi` apply it to their projections. So despite the names,
they sort in descending order.

Left out: the nanosecond offset and the bunch-crossing id, which no
comparison reads except `SortByTimeStamp` (left out with them); and
`operator<<`. `UNDEFNUM`,
`UNDEFEVT` and `isRunEvent`/`isTimeStamp`/... are in `EventIDBase.cpp`,
which is not in `src/`. The first two are only compared with `<` and `=`,
so any number above `Nums` stands for them.

### `MC_HiveEventLoopMgr.tla`

This module defines the constant values the configurations use:

- three products `A`, `B`, `C`;
- a chain of dependencies `0 -> 1 -> 2`;
- no dependencies at all;
- an input that nothing produces;
- one instance per algorithm, or two clones of algorithm 1.

## Runs

| Run | Configuration | Expect | What it shows |
|---|---|---|---|
| `hive_safety` | `HiveSafety.cfg`: chain, 3 algorithms, 2 events in parallel out of 4, budget 3, 3 workers, algorithm 1 cloned twice, algorithm 0 may fail | pass (1,143,541 states, about 3 min with the liveness check) | `Precedence`, `SlotIsolation`, `ResourceAccounting`, `RetireComplete` and `SchedulerRefinement` hold in every interleaving of the control thread and the workers. This covers enqueue-before-increment, retire-before-`taskFinished` and slot reuse. They also hold when the first algorithm of the chain fails without its output. `LoopEnds`: even then, `nextEvent` always ends, returning or throwing the stall exception, and never spins. |
| `hive_termination` | `HiveTermination.cfg`: no dependencies, budget 6 | pass (about 1.1M states, about 90 s) | `nextEvent` returns after `maxevt` events under the fairness below. |
| `hive_false_stall` | `HiveFalseStall.cfg`: chain, one event | violation of `NoFalseStall` | The stall check reads a stale product view and throws while algorithm 1 can run. |
| `hive_budget_stall` | `HiveBudgetStall.cfg`: no dependencies, budget 2 | violation of `NoFalseStall` | `hasStarted(0)` makes an algorithm held back by the budget look unschedulable. |
| `alg_lifecycle` | `AlgLifecycle.cfg` on `MC_EventLoopJob`: top algorithm plus 2 sub-algorithms, every combination of `Enable`, `ErrorMax` 2, two event selectors, symmetric | pass (270,038 states, about 1.5 min) | `SubsNotAhead`: no sub-algorithm is left RUNNING once its parent is back to CONFIGURED, under any order of calls and failures. `CtxOwned`: the manager holds at most one event-selector context, made by its current selector, and every other context was released, across initialize, reinitialize with a changed selector, and finalize. |
| `alg_finalize_leak` | `AlgFinalizeLeak.cfg` on `MC_AlgorithmLifecycle` | violation of `FinalizeComplete` | A sub-algorithm fails in `sysInitialize`. The parent's `initialize()` has run, yet `sysFinalize` bypasses it and returns SUCCESS. |
| `alg_finalize_twice` | `AlgFinalizeTwice.cfg`, same | violation of `FinalizeOnce` | The parent's `finalize()` succeeds and a sub-algorithm's fails. `m_state` stays INITIALIZED and a second `sysFinalize` finalizes the parent again. |
| `audited_tools` | `AuditedTools.cfg`: one tool, two algorithms (one a sequencer, each with `AuditAlgorithms` on or off), guard depth 2, every profiler kind, both modes, `ProfileFreq` 2, `FullEventNSampleEvents` 2, 3 events | pass (1,780,400 states, about 2 min) | `ProfileSpansCall`: in per-component mode the profiler runs exactly while the call that started it is open, whatever nested tool and algorithm calls do. `FullAuditSpan`: a full-event audit covers exactly `FullEventNSampleEvents` events. `ContextIsCallStack`: the context service's stack names only algorithms whose call is open, innermost last, for a registered and an unregistered algorithm with or without the `AlgContextAuditor`. |
| `alg_tool_restart` | `AlgToolRestart.cfg`: two tools, every hook may fail | violation of `RestartRuns` | `sysRestart` of a RUNNING tool never reaches `restart()`. |
| `msg_svc` | `MsgSvc.cfg`: sources W, X, Y; levels INFO and ALWAYS; limits 0 to 2 (default 1); one stream, one status code; 8-bit ints; up to 5 calls | pass (267,372 states, about 1 min) | `AlwaysShown`: ALWAYS messages are never suppressed, under any order of limit writes. `AnnounceOnce`: the limit warning is issued at most once per source, level and limit. `NoDoubleOpen`: `setupLogStreams` never opens a file twice. |
| `ntuple_svc` | `NTupleSvc.cfg` on `MC_NTupleSvc`: files FILE1 (Output, NEW) and FILE2 (Input, READ), tuples t1, t2 under FILE1 and t3 under FILE2, OPT letters N, U, R and X, persistency ROOT or NONE, up to 5 services | pass (29,518 states, a few seconds) | `ConnectionsHeld`: `m_connections` names only live services, each behind a registered entry and none twice, whatever connects fail and whatever is disconnected. `TupleDataOneService`: `writeRecord`, `save` and `finalize`'s `updateDirectories` send a tuple's data to one service only, because a disconnected LUN cannot be attached again. |
| `eventid_order` | `EventIDBase.cfg` on `MC_EventIDBase`: three objects, values 0 and 1, symmetry | pass (91,881 states, about 40 s) | `TypeReflectsFields`: whatever order the setters run in, the `m_type` bits say exactly which pairs of fields are defined. `LessIsStrictWeakOrder`: among objects with the same `m_type`, `operator<` is a strict weak order. `ComparisonsAgree`: for two objects that are not both time-stamped, `==` is incomparability under `<`, and `<=`, `>=`, `!=` agree with `<` and `==`. `SortByDescending`: whatever a `SortBy*` comparator puts first is the greater under `<`. |

`HiveTermination` uses a budget larger than the number of tasks on purpose. With
a budget of 2, the budget false stall ends the run with an exception, so
termination cannot be checked there.

Each property of a passing run has a mutant in `PROJECT.json`, and TLC finds
each one violated. The mutants are:

- `AlgoStarts` without the increment;
- `CanStart` without the dependency test;
- `ClearStore` that keeps the new-object list;
- `TaskFinished` without the decrement (for `ResourceAccounting` and `LoopEnds`);
- `HasFinished` that counts one algorithm short;
- `ErrorCountAfter` that counts every call;
- a finalize `Bypass` that also skips RUNNING algorithms;
- `SetThreshold` that replaces the whole threshold map;
- `setupLimits` without the `alwaysLimit` reset;
- a limit test `nmsg >= limit` instead of `==`;
- a `tee` sharing test with `find == end`;
- an auditor `after()` that stops the profiler for any component;
- a full-event stop test that ends one event early;
- an `AlgContextAuditor` without its `afterExecute` override;
- a `reinitialize` that switches selectors without releasing the old context;
- a `connect` that registers the file entry with the raw OPT letter;
- a `disconnect` that releases the service but keeps the map entry;
- an `attachTuple` whose `registerAddress` replaces an existing entry;
- a `setTS` that adds its bit instead of or-ing it;
- a `set_lumi_block` without `setLE`;
- an `operator<` comparing time stamps with `<=`;
- a `make_cmp` whose default comparison is `std::less<>`;
- an `operator==` that ignores the lumi block.

### Bounds

- Three algorithms is the smallest number that has both a chain and an
  algorithm other than algorithm 0 that the budget can hold back.
- Two slots and four events make each store get reused by a later event
  while the other event is still in flight.
- A budget of 3 binds, because two events in flight can have up to six
  algorithms ready.
- Algorithm 1 has two clones, so two events can run it at once. Algorithms 0
  and 2 have one instance each, so the pool still binds for them.
- Three workers let tasks of both events overlap with a third task.
- Two sub-algorithms are the fewest for which one can succeed and the next
  fail or throw. `MaxErrors` 2 with `ErrorMax` 2 reaches both sides of the
  `ErrorMax` test. Two event selectors are the fewest for which
  `reinitialize` can switch selectors. Nothing tells the two apart, so the run
  declares them symmetric.
- Three sources are the fewest for which `tee` can pick a wrong stream. Five
  calls reach the limit warning and a drop for a limit of 2, and set a limit
  before that. An int of 8 bits cannot wrap in five calls.
- For `NTupleSvc`: two files are the fewest for which a tuple could cache
  another file's service, and an Output and an Input entry reach the two
  types `updateDirectories` tells apart. Five services cover the two of
  `initialize` and three later connects, enough to connect a LUN again after
  a failure or a disconnect.
- For `EventIDBase`: three objects are the fewest for transitivity, and two
  values per field reach both `<` and `=` on every field. Values given are
  defined (0 and 1); with `UNDEFNUM` as an input an object has 448 states
  instead of 81.
- For the auditor:
  - one tool and two algorithms, with a guard depth of 2, let a tool or an
    algorithm nest inside another algorithm's guarded call;
  - the sequencer exercises the skip;
  - three events with `ProfileFreq` 2 reach both audited and unaudited
    events;
  - with `FullEventNSampleEvents` 2, a full-event audit can both end and
    start again within the bound.

### Fairness

`Control` is weakly fair, because the control thread never blocks: `nextEvent`
busy-loops. Each `Worker(a, e)` is weakly fair, because TBB runs every enqueued
task once a worker thread is free. No strong fairness is assumed. `Termination` and `LoopEnds`
are checked under this fairness.

## Findings

1. **Stale product view (code bug).** The detailed stall check reads the
   event's product bitset before `getNewDataObjects`. A product written by the
   last task is therefore missed, and a stall exception is thrown for an event
   that can proceed.
2. **`algo_counter` is never incremented in the stall check (code bug,
   line 600).** This has two effects:
   - An algorithm the budget held back is reported as a stall.
   - A real stall is never reported once algorithm 0 has started. The loop then
     spins.

   `hive_budget_stall` shows the first. The second is the property
   `StallReported`; TLC finds it violated on a configuration with an input
   nobody writes, but no run of the project keeps that configuration.

3. **A failed sub-algorithm leaks a finalize (code bug, `Algorithm.cpp`
   line 791).** When a sub-algorithm fails in `sysInitialize`, the parent's
   own `initialize()` has already succeeded. `sysFinalize` then bypasses the
   parent, so its `finalize()` is never called.
4. **A failed sub-algorithm allows a second finalize (code bug,
   `Algorithm.cpp` line 821).** When a sub-algorithm fails in `sysFinalize`,
   `m_state` stays INITIALIZED after the parent's `finalize()` succeeded. The
   comment says `m_state` is set "to prevent duplicate attempts", but a
   second `sysFinalize` repeats `finalize()`.

5. **A tool cannot be restarted (code bug, `AlgTool.cpp` line 420).**
   `sysRestart` requires RUNNING and then calls `ChangeState(START, RUNNING)`,
   which throws. `attempt()` returns FAILURE and `restart()` never runs.
   `Algorithm::sysRestart` does not make this call.

### Faults seen while modelling, not kept as runs

Those with a line number are listed as hazards in `PROJECT.json`.

In `MessageSvc`:

- **The suppression counter wraps (line 457).** Suppressed messages are still
  counted in an int. After 2^31 of them the counter goes negative, output
  resumes, and the "limit reached" warning is issued again when the counter
  climbs back to the limit. With `IntWidth` 2 and limit 1, TLC finds
  `AnnounceOnce` violated.

- **`tee` logs to the wrong file (line 808).** `tee` shares a stream when
  any other entry names the same file, and it shares the first stream in
  `m_loggedStreams`. With W -> fa, X -> fb, Y -> fb, X and Y are logged to
  fa and fb is never opened. TLC finds `TeeTarget` violated with that
  configuration.

In `EventIDBase`:

- **`==` and `<` disagree for time-stamped ids (line 222).** Two
  time-stamped ids of the same run, event and lumi are `==` and yet one is
  `<` the other; two with the same time stamp and different runs are
  neither `<` nor `==`. TLC finds this after three setter calls.
- **`<` is not transitive across kinds of ids (line 212).** With one id
  without a time stamp among time-stamped ones, three ids form a cycle. The
  comment at line 210 assumes that the ids have the same set of values
  defined.
- **`m_type` bits are never cleared (line 101).** Setting a field back to
  `UNDEFNUM` leaves the bits that name it.

In `NTupleSvc`:

- **A failed connect leaks its conversion service (line 268).**
  `createService` has created and addRef'd the service before `sysInitialize`
  or `setDataProvider` fails, and `attachTuple` fails for a LUN registered
  already. `connect` then drops the service without releasing it, so
  `finalize` never finalizes it. With the invariant "no service is live after
  finalize" TLC finds this in two steps.
- **Tuples keep a released service (line 577).** `disconnect` releases the
  service but leaves the file entry and its tuples in the store. A tuple
  that cached the service keeps using it in `writeRecord`, `readRecord` and
  `save`. TLC finds the invariant "every cached service is live" violated
  after book, writeRecord and disconnect.
- **A disconnected LUN cannot be connected again (line 189).** The file entry
  stays registered, so `attachTuple` fails until `finalize` clears the store.
  This is also what keeps a tuple in one file: `updateDirectories` (line
  141) saves through the file's current connection, not the service the
  tuple cached. `TupleDataOneService` fails as soon as a second connect of
  the LUN succeeds.

In `HiveEventLoopMgr`:

- A failing `sysExecute` (line 69) is not seen by the loop. If the algorithm
  wrote all its outputs, its event is retired like any other. If it did not,
  its consumers never run, and the loop ends in the stall exception once
  nothing else is in flight. That stops the whole job. Spec section 7 says
  instead that only the affected event fails and is returned marked as
  failed. `LoopEnds` checks that the loop at least ends. In `hive_safety`
  the failing algorithm is algorithm 0, which has always started, so the
  `hasStarted(0)` bug cannot hide the stall there.
- `initialize` returns SUCCESS after "EventSelector not found" (line 176) and
  after missing histogram services, and then skips creating the tbb
  scheduler.
- Line 147 tests `m_evtDataSvc` where it means `m_whiteboard`; line 151 then
  dereferences a null pointer when the data service is not a whiteboard. This one is not
  listed: a job without a whiteboard fails at once, as any test shows.
- `finalize` deletes `m_tbb_scheduler_init` without resetting it (line 355).
  A re-initialize that returns early before line 203 and a second finalize
  delete it twice.
- `m_endEventFired` is never cleared, so `stop` never fires a pending
  EndEvent; `nextEvent` fires neither BeginEvent nor EndEvent.
- `finalize` logs histogram-saving errors and returns SUCCESS.

## Not modelled, and the plan

- **`maxevt = -1`:** the event count is bounded by `MaxEvt`.
- **Out-of-range `AlgosDependencies`:** a dependency list longer than the list
  of algorithms is not modelled.
- **Algorithm failures in the event loop:** a failing `sysExecute` is
  modelled only by the outputs it leaves out; the error counters of
  `Algorithm` are checked in `EventLoopJob`, not in the Hive model.
- **Run-time changes to `Enable`:** an algorithm disabled at `sysInitialize`
  and enabled later would be executed without `initialize()`.
- **MessageSvc:** the colours, the inactive-message counter, the text
  written to log files, and concurrent `insertStream`/`eraseStream` calls.
  Those calls race with `reportMessage` on an unlocked `std::multimap`, which
  is undefined behaviour with no outcomes to enumerate.
- **Google auditors:**
  - `ProfileFreq = 0` divides by zero at the second event and is excluded by
    an `ASSUME`.
  - Under GaudiHive, worker threads call one auditor's `before`/`after`
    concurrently without a lock. That is a data race with no outcomes to
    enumerate, so only the sequential loop is modelled.
  - Dump file names and logging are left out.
  - The `AlgContextSvc` stack is one `std::vector` shared by all Hive
    workers. Its concurrent use is a data race and is not modelled.
- **`HiveEventLoopMgr`:** `getEventRoot` (nothing in `src/` calls it), the
  histogram conversion loop of `finalize`, and the `IHiveWhiteBoard` lookup,
  assumed to succeed.
- **`DataObjectHandleBase::fetch`:** once the primary key is missing, the
  handle switches to an alternative for good, and `init` leaves a
  tool-owned handle without a data service. The first is listed as a
  hazard. A model would need an event store per event and a run of its own.
- **`NTupleSvc`:** the data `updateDirectories`, `save` and `writeRecord`
  write (the model keeps only which service got it), the column and
  `access` operations, and the store itself.
- **Not modelled at all:** the parsers, persistency, histograms,
  statistics, examples and tests. They are text or number processing with no
  concurrent or protocol state.
