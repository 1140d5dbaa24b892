------------------------- MODULE MC_AlgToolLifecycle ------------------------
(* Two tools held by the ToolSvc.                                            *)
EXTENDS AlgToolLifecycle

CONSTANTS t1, t2
=============================================================================
