---------------------------- MODULE AuditedTools ----------------------------
(***************************************************************************)
(* The tools of AlgToolLifecycle and the algorithms of a job, audited by   *)
(* a Google auditor.  Every sys* method of an AlgTool and of an Algorithm  *)
(* holds a Gaudi::Guards::AuditorGuard around its user hook when its      *)
(* AuditXxx flag is set: the guard calls before(phase, component) when it  *)
(* is built and after(phase, component, sc) when it is destroyed, also    *)
(* when the hook throws.  An algorithm's hook may call further audited    *)
(* methods (the sub-algorithms its execute() runs, the tools its          *)
(* initialize() retrieves), so the open guards form a stack.  The tool    *)
(* methods are steps of AlgToolLifecycle with their guard applied; the    *)
(* algorithms' guards are the environment (their lifecycle is the          *)
(* AlgorithmLifecycle module).  The event loop fires BeginEvent between    *)
(* events, when no guard is open.                                          *)
(* Each call of an algorithm also sets the algorithm context              *)
(* (AlgContext.tla) before its guard is built and unsets it after the     *)
(* guard is destroyed.                                                     *)
(***************************************************************************)
EXTENDS Integers, Sequences, GoogleAuditor, AlgContext

CONSTANTS
  Tools,        \* the tools (AlgToolLifecycle)
  AlgNames,     \* the audited algorithms
  AlgPhases,    \* the phases of an algorithm's guarded calls
  MaxDepth,     \* bound on nested guarded calls
  Registered    \* the algorithms with RegisterForContextService set

VARIABLES
  state, targetState, ran, lastCall,   \* AlgToolLifecycle
  aud,          \* the Google auditor's members
  auditFlag,    \* the tools' AuditXxx flag of each method
  stack,        \* the open AuditorGuards of algorithms: <<name, phase>>
  owner,        \* history: the frame whose before() started the profiler, or 0
  ctx,          \* the AlgContextSvc's stack of current algorithms
  ctxOn,        \* the AlgContextAuditor holds the service (m_svc non-null)
  algAudit      \* each algorithm's AuditXxx flags

toolVars == <<state, targetState, ran, lastCall>>
vars == <<state, targetState, ran, lastCall, aud, auditFlag, stack, owner, ctx, ctxOn,
          algAudit>>

Tool == INSTANCE AlgToolLifecycle

\* The IAuditor::StandardEventType of each AlgTool method, as printed.
ToolPhase == [o \in {"INITIALIZE", "START", "STOP", "FINALIZE", "REINITIALIZE", "RESTART"} |->
                CASE o = "INITIALIZE"   -> "Initialize"
                  [] o = "START"        -> "Start"
                  [] o = "STOP"         -> "Stop"
                  [] o = "FINALIZE"     -> "Finalize"
                  [] o = "REINITIALIZE" -> "ReInitialize"
                  [] o = "RESTART"      -> "ReStart"]

\* Algorithm's constructor copies the ApplicationMgr's AuditAlgorithms into
\* every AuditXxx flag of the algorithm.
AlgAuditFlags == [AlgNames -> BOOLEAN]

Init ==
  /\ Tool!Init
  /\ aud \in {InitAuditor(k, f, e) : k \in Kinds, f \in BOOLEAN, e \in BOOLEAN}
  \* The constructor copies AuditTools into AuditInitialize, AuditStart,
  \* AuditStop and AuditFinalize; AuditReinitialize and AuditRestart are not
  \* set there (their default is in AlgTool.h, outside src/).
  /\ \E audit, re, rs \in BOOLEAN :
       auditFlag = [o \in DOMAIN ToolPhase |->
                      IF o = "REINITIALIZE" THEN re ELSE IF o = "RESTART" THEN rs ELSE audit]
  /\ stack = <<>>
  /\ owner = 0
  /\ ctx = <<>>
  /\ ctxOn \in {InitCtxAuditor(b, v) : b, v \in Tool!Outcomes}
  /\ algAudit \in AlgAuditFlags

\* The guard of a tool method: built when the flag is set and the method
\* got past ChangeState (its state test for sysReinitialize).
Guarded(r, t, op, built) ==
  IF auditFlag[op] /\ built
  THEN After(Before(r, ToolPhase[op], t), ToolPhase[op], t)
  ELSE r

ToolStep(t) ==
  /\ \/ \E op \in {"INITIALIZE", "START", "STOP", "FINALIZE"} :
          /\ Tool!SysTransition(t, op)
          /\ aud' = Guarded(aud, t, op, Tool!ReachesHook(t, op))
     \/ /\ Tool!SysReinitialize(t)
        /\ aud' = Guarded(aud, t, "REINITIALIZE", state[t] = "INITIALIZED")
     \/ /\ Tool!SysRestart(t)
        /\ aud' = Guarded(aud, t, "RESTART",
                          state[t] = "RUNNING" /\ Tool!ReachesHook(t, "START"))
  /\ UNCHANGED <<auditFlag, stack, owner, ctx, ctxOn, algAudit>>

OnStack(a) == \E i \in DOMAIN stack : stack[i][1] = a

\* An algorithm's call: its AlgContext is built, then its guard, which
\* calls before(phase, alg) of every auditor when the flag is set.
OpenGuard(a, ph) ==
  /\ Len(stack) < MaxDepth /\ ~OnStack(a)
  /\ aud' = IF algAudit[a] THEN Before(aud, ph, a) ELSE aud
  /\ stack' = Append(stack, <<a, ph>>)
  /\ owner' = IF ~aud.running /\ aud'.running THEN Len(stack') ELSE owner
  /\ ctx' = CtxBefore(AlgContextEnter(ctx, a, a \in Registered), ph, a, ctxOn /\ algAudit[a])
  /\ UNCHANGED <<toolVars, auditFlag, ctxOn, algAudit>>

\* The innermost call returns: its guard is destroyed, after(phase, alg,
\* sc), then its AlgContext.
CloseGuard ==
  /\ stack # <<>>
  /\ LET a  == stack[Len(stack)][1]
         ph == stack[Len(stack)][2]
     IN /\ aud' = IF algAudit[a] THEN After(aud, ph, a) ELSE aud
        /\ ctx' = AlgContextLeave(CtxAfter(ctx, ph, a, ctxOn /\ algAudit[a]), a, a \in Registered)
  /\ stack' = SubSeq(stack, 1, Len(stack) - 1)
  /\ owner' = IF owner = Len(stack) THEN 0 ELSE owner
  /\ UNCHANGED <<toolVars, auditFlag, ctxOn, algAudit>>

\* The event loop fires BeginEvent before the algorithms of an event run.
BeginEvent ==
  /\ stack = <<>> /\ aud.nEvts < MaxEvts
  /\ aud' = HandleBeginEvent(aud)
  /\ UNCHANGED <<toolVars, auditFlag, stack, owner, ctx, ctxOn, algAudit>>

\* The AuditorSvc finalizes its auditors at the end of the job.
Finalize ==
  /\ stack = <<>>
  /\ aud' = FinalizeAuditor(aud)
  /\ ctxOn' = FinalizeCtxAuditor(ctxOn)
  /\ UNCHANGED <<toolVars, auditFlag, stack, owner, ctx, algAudit>>

Next ==
  \/ \E t \in Tools : ToolStep(t)
  \/ \E a \in AlgNames, ph \in AlgPhases : OpenGuard(a, ph)
  \/ CloseGuard
  \/ BeginEvent
  \/ Finalize

Spec == Init /\ [][Next]_vars

-----------------------------------------------------------------------------
\* In per-component mode the profiler runs exactly while the guarded call
\* that started it is open: no nested algorithm or tool stops it early,
\* and none is left running after its starter's after().
ProfileSpansCall ==
  /\ owner # 0 => aud.running /\ aud.startedBy = stack[owner][1]
  /\ ~aud.full /\ aud.running => owner # 0

\* A full-event audit that ends at a BeginEvent has covered exactly
\* FullEventNSampleEvents events (one when it is 0).
FullAuditSpan ==
  aud.span \in {0, IF NSampleEvents = 0 THEN 1 ELSE NSampleEvents}
\* The context service's stack names only algorithms whose call is open,
\* innermost last: the current algorithm a tool or a Data-On-Demand
\* service asks for is never one that has returned, nor one outside the
\* call that is running, whatever mix of registered algorithms and
\* audited phases the calls nest.
CallPos(a) == CHOOSE j \in DOMAIN stack : stack[j][1] = a
ContextIsCallStack ==
  \A i \in DOMAIN ctx :
    /\ OnStack(ctx[i])
    /\ i > 1 => CallPos(ctx[i - 1]) <= CallPos(ctx[i])
=============================================================================
