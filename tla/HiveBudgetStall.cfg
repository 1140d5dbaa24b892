\* No data dependencies, but a budget of two algorithms: the stall check
\* can throw while algorithms held back by the budget are still runnable.
CONSTANTS
  NAlgs = 3
  Products <- MCProducts
  Deps <- MCDepsNone
  Outputs <- MCOutputs
  AlgCardinality <- MCCardOne
  MaxParallel = 2
  EvtsParallel = 2
  NumThreads = 2
  MaxEvt = 3
  NoEvt = NoEvt
  MayFail = {}
SPECIFICATION Spec
INVARIANT
  NoFalseStall
