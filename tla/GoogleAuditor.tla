---------------------------- MODULE GoogleAuditor ----------------------------
(***************************************************************************)
(* Google::AuditorBase and its three profilers (src/GaudiProfiling/src/    *)
(* component/google/GoogleAuditor.cpp).  The auditor is told of every      *)
(* BeginEvent incident and of the before/after calls the AuditorGuard of   *)
(* an audited component makes around each of its phases.  In per-         *)
(* component mode it starts the profiler in before() for the first         *)
(* enabled component while none runs and stops it in the after() of the   *)
(* component that started it; in full-event mode it starts the profiler   *)
(* at a BeginEvent and stops it NSampleEvents events later.  The          *)
(* operators below transform a record r of the auditor's members, so that *)
(* a composing module can apply the calls of one step in their order.     *)
(* Dump names and log lines are left out.                                  *)
(***************************************************************************)
EXTENDS Integers

CONSTANTS
  Comps,          \* names of the audited components
  Sequencers,     \* the components that are a (Gaudi)Sequencer
  When,           \* ActivateAt: the phases audited
  Veto,           \* DisableFor
  EnableList,     \* EnableFor (empty: every component)
  Freq,           \* ProfileFreq (-1: every event)
  NSampleEvents,  \* FullEventNSampleEvents
  SkipEvents,     \* SkipEvents
  SkipSequencers, \* SkipSequencers
  Kinds,          \* the profilers: "HeapProfiler", "HeapChecker", "CPUProfiler"
  MaxEvts         \* bound on BeginEvent incidents

NoComp == "none"   \* m_startedBy before any start

\* A ProfileFreq of 0 divides by zero at the second event (see README).
ASSUME Freq # 0 /\ NSampleEvents \in Nat /\ SkipEvents \in Nat

\* The constructor, and initialize() of HeapChecker, which disables the
\* checker unless HEAPCHECK is "local".  kind, full (DoFullEventProfile)
\* and enabled are fixed from then on; span is history: the events covered
\* by the last full-event audit that ran its course.
InitAuditor(k, full, en) ==
  [kind |-> k, full |-> full, enabled |-> k # "HeapChecker" \/ en,
   audit |-> TRUE, nEvts |-> 0, sample |-> 0, inFull |-> FALSE,
   startedBy |-> NoComp, running |-> FALSE, span |-> 0]

\* alreadyRunning(): IsHeapProfilerRunning(), m_enabled && m_checker, or
\* m_running; all three are r.running, which HeapChecker never sets while
\* disabled.
AlreadyRunning(r) == r.running

\* google_before / google_after of each profiler.
GoogleBefore(r) == IF r.enabled THEN [r EXCEPT !.running = TRUE] ELSE r
GoogleAfter(r) == [r EXCEPT !.running = FALSE]

StartAudit(r) == GoogleBefore([r EXCEPT !.inFull = TRUE, !.sample = 1])
StopAudit(r) == [GoogleAfter(r) EXCEPT !.inFull = FALSE, !.sample = 0]

IsPhaseEnabled(type) == type \in When
IsComponentEnabled(s) == s \notin Veto /\ (EnableList = {} \/ s \in EnableList)

Audited(r, type, s) == ~r.full /\ r.audit /\ IsPhaseEnabled(type) /\ IsComponentEnabled(s)

\* before(type, s): start the profiler for s unless it already runs.
BeforeStartAlways(r, type, s) ==
  IF Audited(r, type, s)
  THEN GoogleBefore([r EXCEPT !.startedBy = s])
  ELSE r
BeforeStep(r, type, s) ==
  IF Audited(r, type, s) /\ ~AlreadyRunning(r)
  THEN GoogleBefore([r EXCEPT !.startedBy = s])
  ELSE r

\* after(type, s, sc): stop the profiler if s started it.
AfterAnyComp(r, type, s) ==
  IF Audited(r, type, s) THEN GoogleAfter(r) ELSE r
AfterStep(r, type, s) ==
  IF Audited(r, type, s) /\ s = r.startedBy THEN GoogleAfter(r) ELSE r

\* before/after(type, INamedInterface*): sequencers are skipped.
Skipped(s) == SkipSequencers /\ s \in Sequencers
Before(r, type, s) == IF Skipped(s) THEN r ELSE BeforeStep(r, type, s)
After(r, type, s) == IF Skipped(s) THEN r ELSE AfterStep(r, type, s)

\* The event test of handle().
AuditEvent(n) == n > SkipEvents /\ (Freq < 0 \/ n = 1 \/ n % Freq = 0)

\* The stop test of a full-event audit.
SampleDoneEarly(r) == r.sample + 1 >= NSampleEvents
SampleDone(r) == r.sample >= NSampleEvents

\* handle(BeginEvent): count the event, decide whether it is audited, and
\* in full-event mode end the running audit or start a new one.
HandleBeginEvent(r) ==
  LET n  == r.nEvts + 1
      r0 == [r EXCEPT !.nEvts = n, !.audit = AuditEvent(n)]
      r1 == IF r0.full /\ r0.inFull
            THEN IF SampleDone(r0) /\ AlreadyRunning(r0)
                 THEN [StopAudit(r0) EXCEPT !.span = r0.sample]
                 ELSE [r0 EXCEPT !.sample = @ + 1]
            ELSE r0
  IN IF r1.full /\ r1.audit /\ ~r1.inFull /\ ~AlreadyRunning(r1)
     THEN StartAudit(r1) ELSE r1

\* finalize(): stop a running audit.
FinalizeAuditor(r) == IF AlreadyRunning(r) THEN StopAudit(r) ELSE r
=============================================================================
