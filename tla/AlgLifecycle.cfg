\* A top algorithm with two sub-algorithms, every combination of Enable
\* set at construction, ErrorMax 2, and the event loop manager with two
\* event selectors; any order of calls to either.
CONSTANTS
  T = T
  S1 = S1
  S2 = S2
  Sel1 = Sel1
  Sel2 = Sel2
  NoSel = NoSel
  Top = T
  SubAlgms <- MCSubAlgms
  Selectors = {Sel1, Sel2}
  ErrorMax = 2
  MaxErrors = 2
SPECIFICATION Spec
SYMMETRY MCSelSymmetry
INVARIANTS
  TypeOK
  SubsNotAhead
  CtxOwned
