\* The top finalize() succeeds and a sub-algorithm's fails: a second
\* sysFinalize must not call finalize() again.
CONSTANTS
  T = T
  S1 = S1
  S2 = S2
  Top = T
  SubAlgms <- MCSubAlgms
  ErrorMax = 2
  MaxErrors = 2
SPECIFICATION Spec
PROPERTY
  FinalizeOnce
