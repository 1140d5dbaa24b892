----------------------------- MODULE AlgContext -----------------------------
(***************************************************************************)
(* The algorithm context: the stack of running algorithms the             *)
(* AlgContextSvc keeps (IAlgContextSvc; the service itself is not in      *)
(* src/), and the two clients that push and pop it around each call of    *)
(* an algorithm.  Every Algorithm::sys* method builds a                    *)
(* Gaudi::Utils::AlgContext, which sets the algorithm as current when     *)
(* RegisterForContextService is set and unsets it on destruction, and     *)
(* then the AuditorGuard, whose before/after reach the AlgContextAuditor  *)
(* (src/GaudiAud/src/AlgContextAuditor.cpp) when it is one of the         *)
(* AuditorSvc's auditors.  A context is a sequence of algorithm names,    *)
(* innermost last.                                                         *)
(***************************************************************************)
EXTENDS Sequences, SequencesExt

\* setCurrentAlg: push a.
SetCurrentAlg(c, a) == Append(c, a)

\* unSetCurrentAlg: pop a when it is on top; otherwise the service only
\* warns "Algorithm stack is invalid".
UnSetCurrentAlg(c, a) == IF c # <<>> /\ Last(c) = a THEN Front(c) ELSE c

\* The AlgContext of a sys* method: its constructor and its destructor,
\* given the context service only when registerContext() holds.
AlgContextEnter(c, a, reg) == IF reg THEN SetCurrentAlg(c, a) ELSE c
AlgContextLeave(c, a, reg) == IF reg THEN UnSetCurrentAlg(c, a) ELSE c

\* initialize(): m_svc is non-null exactly when the base initialize and the
\* service lookup succeeded; finalize() releases it.
InitCtxAuditor(baseSc, svcSc) == baseSc = "SUCCESS" /\ svcSc = "SUCCESS"
FinalizeCtxAuditor(on) == FALSE

\* The phases the AlgContextAuditor overrides; the others are no-ops of the
\* Auditor base class.
CtxPhases == {"Initialize", "Execute", "Finalize"}

\* beforeInitialize / beforeFinalize / beforeExecute of an algorithm (toAlg
\* is null for a tool, which the composing module never passes here).
CtxBefore(c, type, a, on) ==
  IF on /\ type \in CtxPhases THEN SetCurrentAlg(c, a) ELSE c

\* afterInitialize / afterFinalize / afterExecute.
CtxAfterNoExecute(c, type, a, on) ==
  IF on /\ type \in {"Initialize", "Finalize"} THEN UnSetCurrentAlg(c, a) ELSE c
CtxAfter(c, type, a, on) ==
  IF on /\ type \in CtxPhases THEN UnSetCurrentAlg(c, a) ELSE c
=============================================================================
