--------------------------- MODULE HiveMgrService ---------------------------
(***************************************************************************)
(* The service side of HiveEventLoopMgr (src/GaudiHive/src/               *)
(* HiveEventLoopMgr.cpp): initialize, reinitialize, stop, finalize and    *)
(* executeEvent.  The manager looks up its collaborators (the event data  *)
(* service, the EventSelector, the two histogram services) and holds one *)
(* event-selector context.  Every lookup, and every status a             *)
(* collaborator returns, is an input chosen by \E.  The base class        *)
(* MinimalEventLoopMgr and the Service state                               *)
(* machine around it are not in src/: a base method returns SUCCESS or   *)
(* FAILURE, and the service state moves as Service::sys* moves it.        *)
(* The nextEvent loop itself is the HiveEventLoopMgr module.               *)
(***************************************************************************)
EXTENDS Naturals, GaudiStateMachine

CONSTANTS
  Selectors,    \* the event selector services a job may configure
  NoSel         \* a null m_evtSelector or m_evtContext

Outcomes == {"SUCCESS", "FAILURE"}
\* The EvtSel property of the ApplicationMgr: "NONE" or an input name.
EvtSelValues == {"NONE", "input"}

VARIABLES
  mgrState,       \* the manager's FSMState()
  evtSel,         \* m_evtSelector
  evtCtx,         \* m_evtContext, as the selector that created it
  openCtx,        \* history: contexts created and not released, per selector
  histoData,      \* m_histoDataMgrSvc is valid
  histoPers,      \* m_histoPersSvc is valid
  tbb,            \* m_tbb_scheduler_init: "unset", "live" or "deleted"
  endEventFired   \* m_endEventFired

mgrVars == <<mgrState, evtSel, evtCtx, openCtx, histoData, histoPers, tbb,
             endEventFired>>

MgrInit ==
  /\ mgrState = "CONFIGURED"
  /\ evtSel = NoSel /\ evtCtx = NoSel
  /\ openCtx = [s \in Selectors |-> 0]
  /\ histoData = FALSE /\ histoPers = FALSE
  /\ tbb = "unset"
  /\ endEventFired = TRUE

\* createContext / releaseContext of a selector.
CreateContext(s) ==
  /\ evtCtx' = s
  /\ openCtx' = [openCtx EXCEPT ![s] = @ + 1]
Released(c) == IF c = NoSel THEN openCtx ELSE [openCtx EXCEPT ![c] = @ - 1]

\* Service::sysInitialize moves the state only when initialize() succeeded.
AfterInit(sc) == mgrState' = IF sc = "SUCCESS" THEN "INITIALIZED" ELSE mgrState

\* initialize(): base class, find_dependencies, the event data service
\* (its IHiveWhiteBoard interface is assumed present), the EvtSel
\* property, the EventSelector and a context, the histogram services and
\* the tbb scheduler.  Missing EventSelector and histogram services return
\* the status of the last call, which is SUCCESS.
Initialize ==
  /\ mgrState = "CONFIGURED"
  /\ \E base, ctxSc \in Outcomes, dataOk, hd, hp \in BOOLEAN, prop \in EvtSelValues,
        found \in Selectors \cup {NoSel} :
       LET useSel   == prop # "NONE"
           selFail  == useSel /\ found # NoSel /\ ctxSc = "FAILURE"
           early    == useSel /\ found = NoSel                 \* "EventSelector not found."
           sc       == IF base = "FAILURE" \/ ~dataOk \/ selFail THEN "FAILURE" ELSE "SUCCESS"
           reachSel == base = "SUCCESS" /\ dataOk
           reachHist == reachSel /\ ~selFail /\ ~early
       IN /\ AfterInit(sc)
          /\ IF reachSel /\ useSel /\ found # NoSel /\ ctxSc = "SUCCESS"
             THEN CreateContext(found)
             ELSE /\ evtCtx' = IF reachSel /\ ~useSel THEN NoSel ELSE evtCtx
                  /\ UNCHANGED openCtx
          /\ evtSel' = IF ~reachSel THEN evtSel ELSE IF useSel THEN found ELSE NoSel
          /\ histoData' = IF reachHist THEN hd ELSE histoData
          /\ histoPers' = IF reachHist /\ hd THEN hp ELSE histoPers
          /\ tbb' = IF reachHist /\ hd /\ hp THEN "live" ELSE tbb
  /\ UNCHANGED endEventFired

\* reinitialize(): base class, then the EvtSel property again.  A new
\* selector replaces the old one (its context released first) and is
\* reinitialized or initialized; the same selector gets a fresh context;
\* "NONE" drops the selector and its context.
ReleaseOldNever == FALSE
ReleaseOld == evtSel # NoSel /\ evtCtx # NoSel
Reinitialize ==
  /\ mgrState = "INITIALIZED"
  /\ \E base, svcSc, ctxSc \in Outcomes, prop \in EvtSelValues,
        found \in Selectors \cup {NoSel} :
       \/ /\ base = "FAILURE"
          /\ UNCHANGED <<evtSel, evtCtx, openCtx>>
       \/ /\ base = "SUCCESS" /\ prop # "NONE" /\ found # NoSel /\ found # evtSel
          /\ evtSel' = found
          /\ IF svcSc = "SUCCESS" /\ ctxSc = "SUCCESS"
             THEN /\ evtCtx' = found
                  /\ openCtx' = [Released(IF ReleaseOld THEN evtCtx ELSE NoSel)
                                   EXCEPT ![found] = @ + 1]
             ELSE /\ evtCtx' = IF ReleaseOld THEN NoSel ELSE evtCtx
                  /\ openCtx' = Released(IF ReleaseOld THEN evtCtx ELSE NoSel)
       \/ /\ base = "SUCCESS" /\ prop # "NONE" /\ ~(found # NoSel /\ found # evtSel)
          /\ evtSel # NoSel
          /\ IF ctxSc = "SUCCESS"
             THEN /\ evtCtx' = evtSel
                  /\ openCtx' = [Released(evtCtx) EXCEPT ![evtSel] = @ + 1]
             ELSE /\ evtCtx' = NoSel
                  /\ openCtx' = Released(evtCtx)
          /\ UNCHANGED evtSel
       \/ /\ base = "SUCCESS" /\ prop # "NONE" /\ ~(found # NoSel /\ found # evtSel)
          /\ evtSel = NoSel
          /\ UNCHANGED <<evtSel, evtCtx, openCtx>>
       \/ /\ base = "SUCCESS" /\ prop = "NONE"
          /\ IF ReleaseOld
             THEN evtSel' = NoSel /\ evtCtx' = NoSel /\ openCtx' = Released(evtCtx)
             ELSE UNCHANGED <<evtSel, evtCtx, openCtx>>
  /\ UNCHANGED <<mgrState, histoData, histoPers, tbb, endEventFired>>

\* The base class start() (not in src/): INITIALIZED to RUNNING.
Start ==
  /\ mgrState = "INITIALIZED"
  /\ mgrState' = "RUNNING"
  /\ UNCHANGED <<evtSel, evtCtx, openCtx, histoData, histoPers, tbb, endEventFired>>

\* stop(): fire a pending EndEvent (m_endEventFired is never cleared, so
\* none is ever pending), then the base class stop().
Stop ==
  /\ mgrState = "RUNNING"
  /\ endEventFired' = TRUE
  /\ mgrState' = "INITIALIZED"
  /\ UNCHANGED <<evtSel, evtCtx, openCtx, histoData, histoPers, tbb>>

\* finalize(): the base class, saving the histograms (whose errors are
\* logged and then dropped: it returns SUCCESS), releasing the context,
\* dropping the services and deleting the tbb scheduler, whose pointer is
\* left as it was.
Finalize ==
  /\ mgrState = "INITIALIZED"
  /\ \E base \in Outcomes :
       IF base = "FAILURE"
       THEN UNCHANGED <<mgrState, evtSel, evtCtx, openCtx, histoData, histoPers, tbb>>
       ELSE /\ mgrState' = "CONFIGURED"
            /\ evtCtx' = IF evtSel # NoSel THEN NoSel ELSE evtCtx
            /\ openCtx' = Released(IF evtSel # NoSel THEN evtCtx ELSE NoSel)
            /\ evtSel' = NoSel
            /\ histoData' = FALSE /\ histoPers' = FALSE
            /\ tbb' = "deleted"
  /\ UNCHANGED endEventFired

\* executeEvent: the status it returns, given whether a stop was scheduled
\* by a BeginEvent listener and the statuses of the output streams'
\* sysExecute (resetExecuted and the incidents change no modelled state).
ExecuteEventSc(stop, streamScs) ==
  IF ~stop /\ "FAILURE" \in streamScs THEN "FAILURE" ELSE "SUCCESS"
=============================================================================
