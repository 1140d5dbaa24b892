-------------------------- MODULE AlgToolLifecycle --------------------------
(***************************************************************************)
(* The state machine of a Gaudi AlgTool (src/GaudiKernel/src/Lib/          *)
(* AlgTool.cpp): sysInitialize, sysStart, sysStop, sysFinalize,           *)
(* sysReinitialize and sysRestart.  Each runs its body inside attempt(),   *)
(* which turns any exception, the one ChangeState throws on a transition  *)
(* it does not allow included, into FAILURE.  The body first asks         *)
(* ChangeState for the target state, then calls the user hook, and moves  *)
(* m_state to the target only when the hook succeeded.  A tool has no     *)
(* children; the ToolSvc (not in the repository) owns a set of tools and  *)
(* may call any sys* method of any of them at any time.  A user hook      *)
(* returns SUCCESS or FAILURE (a hook that throws is caught by attempt()  *)
(* and counts as FAILURE).                                                *)
(***************************************************************************)
EXTENDS GaudiStateMachine

CONSTANT Tools      \* the tools the ToolSvc holds

Outcomes == {"SUCCESS", "FAILURE"}
Ops == {"INITIALIZE", "START", "STOP", "FINALIZE", "REINITIALIZE", "RESTART"}

\* The user hook each transition calls.
Hook == [o \in {"INITIALIZE", "START", "STOP", "FINALIZE"} |->
           CASE o = "INITIALIZE" -> "initialize"
             [] o = "START"      -> "start"
             [] o = "STOP"       -> "stop"
             [] o = "FINALIZE"   -> "finalize"]
Hooks == {"initialize", "start", "stop", "finalize", "reinitialize", "restart"}

VARIABLES
  state,        \* m_state of each tool
  targetState,  \* m_targetState of each tool
  ran,          \* the user hooks called in the last step
  lastCall      \* the tool and call of the last step, and the status returned

vars == <<state, targetState, ran, lastCall>>

Init ==
  /\ state = [t \in Tools |-> "CONFIGURED"]
  /\ targetState = [t \in Tools |-> "CONFIGURED"]
  /\ ran = {}
  /\ lastCall = [tool |-> CHOOSE t \in Tools : TRUE, op |-> "NONE", sc |-> "SUCCESS"]

\* Whether the body reaches the user hook: ChangeState comes first and its
\* exception leaves the body.
ReachesHook(t, op) == Allowed(op, state[t])

\* sysInitialize, sysStart, sysStop, sysFinalize: attempt() around
\* ChangeState, the hook, and the state update on success.
SysTransition(t, op) ==
  \E o \in Outcomes :
    LET changed == Allowed(op, state[t])     \* ChangeState returned
        called  == ReachesHook(t, op)
        sc      == IF changed /\ called THEN o ELSE "FAILURE"
        target  == IF changed THEN Transitions[<<op, state[t]>>] ELSE targetState[t]
    IN /\ targetState' = [targetState EXCEPT ![t] = target]
       /\ state' = [state EXCEPT ![t] = IF sc = "SUCCESS" THEN target ELSE @]
       /\ ran' = IF called THEN {Hook[op]} ELSE {}
       /\ lastCall' = [tool |-> t, op |-> op, sc |-> sc]

\* sysReinitialize: FAILURE unless INITIALIZED; then reinitialize(), which
\* changes no state.
SysReinitialize(t) ==
  /\ \E o \in Outcomes :
       IF state[t] # "INITIALIZED"
       THEN ran' = {} /\ lastCall' = [tool |-> t, op |-> "REINITIALIZE", sc |-> "FAILURE"]
       ELSE ran' = {"reinitialize"} /\ lastCall' = [tool |-> t, op |-> "REINITIALIZE", sc |-> o]
  /\ UNCHANGED <<state, targetState>>

\* restart(), the default implementation: stop(), then start() if stop()
\* succeeded.
Restart(so, sto) ==
  [ran |-> IF so = "SUCCESS" THEN {"restart", "stop", "start"} ELSE {"restart", "stop"},
   sc  |-> IF so = "SUCCESS" THEN sto ELSE so]

\* sysRestart: FAILURE unless RUNNING; then attempt() around
\* ChangeState(START, m_state) and restart().
SysRestart(t) ==
  /\ \E so, sto \in Outcomes :
       CASE state[t] # "RUNNING" ->
              ran' = {} /\ lastCall' = [tool |-> t, op |-> "RESTART", sc |-> "FAILURE"]
              /\ UNCHANGED targetState
         [] ~ReachesHook(t, "START") ->
              ran' = {} /\ lastCall' = [tool |-> t, op |-> "RESTART", sc |-> "FAILURE"]
              /\ UNCHANGED targetState
         [] OTHER ->
              /\ targetState' = [targetState EXCEPT ![t] = Transitions[<<"START", state[t]>>]]
              /\ ran' = Restart(so, sto).ran
              /\ lastCall' = [tool |-> t, op |-> "RESTART", sc |-> Restart(so, sto).sc]
  /\ UNCHANGED state

Next ==
  \E t \in Tools :
    \/ \E op \in {"INITIALIZE", "START", "STOP", "FINALIZE"} : SysTransition(t, op)
    \/ SysReinitialize(t)
    \/ SysRestart(t)

Spec == Init /\ [][Next]_vars

-----------------------------------------------------------------------------
\* sysRestart of a RUNNING tool calls restart() (its log message: "cannot
\* reinitialize tool not started" is the only refusal).
RestartRuns ==
  [][lastCall'.op = "RESTART" /\ state[lastCall'.tool] = "RUNNING" =>
      "restart" \in ran']_vars
=============================================================================
