\* A sub-algorithm fails in initialize: sysFinalize of the parent must
\* still reach the initialize() calls that succeeded.
CONSTANTS
  T = T
  S1 = S1
  S2 = S2
  Top = T
  SubAlgms <- MCSubAlgms
  ErrorMax = 2
  MaxErrors = 2
SPECIFICATION Spec
INVARIANT
  FinalizeComplete
