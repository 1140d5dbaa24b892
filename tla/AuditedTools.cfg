\* One tool and two algorithms (one a sequencer) under a Google auditor of
\* any kind and mode; profile every second event, two-event full audits.
CONSTANTS
  t1 = t1  A = A  Sq = Sq
  Tools = {t1}
  AlgNames = {A, Sq}
  AlgPhases = {"Initialize", "Execute"}
  Comps <- MCComps
  Sequencers = {Sq}
  When <- MCWhen
  Veto = {}
  EnableList = {}
  Freq = 2
  NSampleEvents = 2
  SkipEvents = 0
  SkipSequencers = TRUE
  Kinds = {"HeapProfiler", "HeapChecker", "CPUProfiler"}
  MaxEvts = 3
  MaxDepth = 2
  Registered = {A}
SPECIFICATION Spec
INVARIANTS ProfileSpansCall FullAuditSpan ContextIsCallStack
