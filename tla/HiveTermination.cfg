\* No data dependencies, one instance per algorithm shared by two events in
\* parallel, three events, two worker threads; the budget admits every
\* algorithm of both events at once (see README for why).
CONSTANTS
  NAlgs = 3
  Products <- MCProducts
  Deps <- MCDepsNone
  Outputs <- MCOutputs
  AlgCardinality <- MCCardOne
  MaxParallel = 6
  EvtsParallel = 2
  NumThreads = 2
  MaxEvt = 3
  NoEvt = NoEvt
  MayFail = {}
SPECIFICATION Spec
PROPERTIES
  Termination
