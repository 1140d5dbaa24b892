\* Chain 0 -> 1 -> 2, two events in parallel out of four, budget of three
\* algorithms, three worker threads, algorithm 1 cloned twice.
CONSTANTS
  NAlgs = 3
  Products <- MCProducts
  Deps <- MCDepsChain
  Outputs <- MCOutputs
  AlgCardinality <- MCCardClone
  MaxParallel = 3
  EvtsParallel = 2
  NumThreads = 3
  MaxEvt = 4
  NoEvt = NoEvt
  MayFail = {0}
SPECIFICATION Spec
INVARIANTS
  TypeOK
  Precedence
  SlotIsolation
  ResourceAccounting
PROPERTIES
  RetireComplete
  SchedulerRefinement
  LoopEnds
