--------------------------- MODULE MC_AuditedTools ---------------------------
(* One tool, a top algorithm and a sequencer, a Google auditor that         *)
(* audits every phase but vetoes nothing.                                   *)
EXTENDS AuditedTools

CONSTANTS t1, A, Sq

MCComps == {t1, A, Sq}
MCWhen == {"Initialize", "ReInitialize", "Execute", "BeginRun", "EndRun", "Finalize",
           "Start", "Stop", "ReStart"}
=============================================================================
