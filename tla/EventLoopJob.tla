---------------------------- MODULE EventLoopJob ----------------------------
(***************************************************************************)
(* A job: the HiveEventLoopMgr service (HiveMgrService) and the top        *)
(* algorithm with its sub-algorithms (AlgorithmLifecycle), driven by the  *)
(* ApplicationMgr, which may call any method of either at any time.  The   *)
(* top algorithm is the manager's output stream: executeEvent resets the  *)
(* executed flags and calls its sysExecute, which is only called while    *)
(* both the manager and the algorithm are RUNNING.                        *)
(***************************************************************************)
EXTENDS Naturals, HiveMgrService

CONSTANTS Top, SubAlgms, ErrorMax, MaxErrors

VARIABLES
  state, enabled, errorCount, initDone, finalizing, lastCall,  \* AlgorithmLifecycle
  evtResult     \* what the last step's executeEvent returned, or "NONE"

algVars == <<state, enabled, errorCount, initDone, finalizing, lastCall>>
vars == <<algVars, mgrVars, evtResult>>

Alg == INSTANCE AlgorithmLifecycle

Init == Alg!Init /\ MgrInit /\ evtResult = "NONE"

\* A lifecycle call of the algorithm, other than sysExecute.
AlgStep ==
  /\ \/ Alg!SysInitialize \/ Alg!SysStart \/ Alg!SysStop \/ Alg!SysFinalize
     \/ Alg!SysRestart \/ Alg!SysBeginRun \/ Alg!SysEndRun \/ Alg!SysReinitialize
  /\ evtResult' = "NONE"
  /\ UNCHANGED mgrVars

\* A method of the manager.
MgrStep ==
  /\ Initialize \/ Reinitialize \/ Start \/ Stop \/ Finalize
  /\ evtResult' = "NONE"
  /\ UNCHANGED algVars

\* executeEvent: BeginEvent, whose listeners may schedule a stop (then it
\* returns SUCCESS at once), then sysExecute of the output stream.
ExecuteEvent ==
  /\ mgrState = "RUNNING" /\ state[Top] = "RUNNING"
  /\ \/ /\ evtResult' = ExecuteEventSc(TRUE, {})
        /\ UNCHANGED algVars
     \/ /\ Alg!SysExecute
        /\ evtResult' = ExecuteEventSc(FALSE, {lastCall'.sc})
  /\ UNCHANGED mgrVars

Next == AlgStep \/ MgrStep \/ ExecuteEvent

Spec == Init /\ [][Next]_vars

-----------------------------------------------------------------------------
TypeOK == Alg!TypeOK
SubsNotAhead == Alg!SubsNotAhead

\* The manager holds at most one event-selector context, the one in
\* m_evtContext, and it belongs to the selector in m_evtSelector: every
\* context reinitialize, initialize or finalize replaces is released, by
\* the selector that created it, whatever sequence of selector changes
\* and failed calls the ApplicationMgr drives.
CtxOwned ==
  /\ evtCtx # NoSel => evtCtx = evtSel
  /\ \A s \in Selectors : openCtx[s] = IF evtCtx = s THEN 1 ELSE 0
=============================================================================
