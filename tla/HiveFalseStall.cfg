\* Chain 0 -> 1 -> 2, one event, a budget that never binds: the stall check
\* can throw while an output of a finished algorithm is still unread.
CONSTANTS
  NAlgs = 3
  Products <- MCProducts
  Deps <- MCDepsChain
  Outputs <- MCOutputs
  AlgCardinality <- MCCardOne
  MaxParallel = 6
  EvtsParallel = 1
  NumThreads = 2
  MaxEvt = 1
  NoEvt = NoEvt
  MayFail = {}
SPECIFICATION Spec
INVARIANT
  NoFalseStall

