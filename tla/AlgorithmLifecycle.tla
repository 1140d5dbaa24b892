------------------------- MODULE AlgorithmLifecycle -------------------------
(***************************************************************************)
(* The state machine of a Gaudi Algorithm and of its sub-algorithms:      *)
(* Algorithm::sysInitialize, sysStart, sysStop, sysFinalize, sysExecute,   *)
(* sysRestart, sysBeginRun and sysEndRun (src/GaudiKernel/src/Lib/         *)
(* Algorithm.cpp).  One top algorithm owns a sequence of sub-algorithms   *)
(* (m_subAlgms, created by createSubAlgorithm); its sys* methods call the *)
(* user hook (initialize(), start(), ...) and the sys* method of every    *)
(* sub-algorithm in order, each call a nested, synchronous step.  The     *)
(* caller, the ApplicationMgr, may invoke any sys* method at any time;    *)
(* sysExecute of the top algorithm is only called while it is RUNNING.   *)
(*                                                                         *)
(* A user hook returns SUCCESS or FAILURE (an exception it throws is      *)
(* caught and turned into FAILURE by the same try block, so it is folded *)
(* into FAILURE).  Gaudi::StateMachine::ChangeState throws on a transition *)
(* that is not allowed; in a sub-algorithm that exception escapes into    *)
(* the parent's try block and stops the loop over the sub-algorithms.    *)
(***************************************************************************)
EXTENDS Naturals, Sequences, FiniteSets, Functions, TLC, GaudiStateMachine

CONSTANTS
  Top,                \* the top algorithm
  SubAlgms,             \* m_subAlgms, in order
  ErrorMax,           \* the ErrorMax property
  MaxErrors           \* bound on the error counter explored

Subs == Range(SubAlgms)
Algs == {Top} \cup Subs

ASSUME /\ Top \notin Subs
       /\ Len(SubAlgms) = Cardinality(Subs)
       /\ ErrorMax \in Nat /\ MaxErrors \in Nat

Outcomes == {"SUCCESS", "FAILURE"}

VARIABLES
  state,       \* m_state
  enabled,     \* m_isEnabled (the Enable property)
  errorCount,  \* m_errorCount
  initDone,    \* history: initialize() succeeded, and no finalize() succeeded since
  finalizing,  \* the algorithms whose finalize() ran in the last step
  lastCall     \* the top-level call of the last step and the status it returned

vars == <<state, enabled, errorCount, initDone, finalizing, lastCall>>

-----------------------------------------------------------------------------
(* The early returns at the top of each sys* method.                       *)

\* The states in which the method returns SUCCESS at once.
BypassRunning(op) ==
  CASE op = "INITIALIZE" -> {"INITIALIZED", "RUNNING"}
    [] op = "START"      -> {"RUNNING"}
    [] op = "STOP"       -> {"INITIALIZED"}
    [] op = "FINALIZE"   -> {"CONFIGURED", "RUNNING"}
Bypass(op) ==
  CASE op = "INITIALIZE" -> {"INITIALIZED", "RUNNING"}
    [] op = "START"      -> {"RUNNING"}
    [] op = "STOP"       -> {"INITIALIZED"}
    [] op = "FINALIZE"   -> {"CONFIGURED"}

Skipped(op, a) == state[a] \in Bypass(op) \/ ~enabled[a]

\* ChangeState is reached and throws.
Throws(op, a) == ~Skipped(op, a) /\ ~Allowed(op, state[a])

\* The sub-algorithms whose sys* method runs before one throws: the
\* accumulate over m_subAlgms is left by the first exception.
Reached(op) ==
  LET stop == {i \in 1 .. Len(SubAlgms) : Throws(op, SubAlgms[i])}
      last == IF stop = {} THEN Len(SubAlgms)
              ELSE (CHOOSE i \in stop : \A j \in stop : i <= j) - 1
  IN {SubAlgms[i] : i \in 1 .. last}

AnyThrows(op) == \E s \in Subs : Throws(op, s)

\* The new state of a sub-algorithm (it has no sub-algorithms of its own)
\* whose user hook returned o.
LeafState(op, s, o) ==
  IF Skipped(op, s) \/ o = "FAILURE" THEN state[s] ELSE Transitions[<<op, state[s]>>]

\* What the sub-algorithm's sys* method returns when it does not throw;
\* sysInitialize runs setProperties, which may fail, before its
\* enabled test.
LeafStatus(op, s, o) ==
  IF Skipped(op, s) /\ ~(op = "INITIALIZE" /\ state[s] = "CONFIGURED")
  THEN "SUCCESS" ELSE o

\* The user hook of a is called.
Hooked(op, a) == ~Skipped(op, a) /\ Allowed(op, state[a])


\* The new states of the sub-algorithms after their sys* method for op ran
\* (call) or was never reached.
SubStates(op, o, call) ==
  [s \in Subs |-> IF call /\ s \in Reached(op) THEN LeafState(op, s, o[s]) ELSE state[s]]

\* Every sub-algorithm reached returned SUCCESS and none threw.
SubsOk(op, o) ==
  /\ ~AnyThrows(op)
  /\ \A s \in Reached(op) : LeafStatus(op, s, o[s]) = "SUCCESS"

Call(op, sc) == lastCall' = [op |-> op, sc |-> sc]

-----------------------------------------------------------------------------
Init ==
  /\ state = [a \in Algs |-> "CONFIGURED"]
  /\ enabled \in [Algs -> BOOLEAN]
  /\ errorCount = [a \in Algs |-> 0]
  /\ initDone = [a \in Algs |-> FALSE]
  /\ finalizing = {}
  /\ lastCall = [op |-> "NONE", sc |-> "SUCCESS"]

\* sysInitialize: bypass when already initialized, setProperties, bypass
\* when disabled, initialize(), then sysInitialize of every sub-algorithm;
\* m_state moves only when all of them succeeded.
SysInitialize ==
  \E o \in [Algs -> Outcomes] :
    LET hooked == Hooked("INITIALIZE", Top)
        top    == hooked /\ o[Top] = "SUCCESS"
        ok     == top /\ SubsOk("INITIALIZE", o)
    IN /\ state' = (Top :> IF ok THEN "INITIALIZED" ELSE state[Top])
                     @@ SubStates("INITIALIZE", o, top)
       /\ initDone' = [a \in Algs |->
                         initDone[a] \/ (top /\ (a = Top \/ Hooked("INITIALIZE", a))
                                             /\ o[a] = "SUCCESS")]
       /\ Call("INITIALIZE", IF hooked THEN (IF ok THEN "SUCCESS" ELSE "FAILURE")
                             ELSE LeafStatus("INITIALIZE", Top, o[Top]))
       /\ finalizing' = {}
       /\ UNCHANGED <<enabled, errorCount>>

\* sysStart: bypass when running or disabled; ChangeState (throws from
\* CONFIGURED); reset the error count; start(), then sysStart of the
\* sub-algorithms until one throws.
SysStart ==
  \/ /\ Skipped("START", Top)
     /\ Call("START", "SUCCESS")
     /\ finalizing' = {}
     /\ UNCHANGED <<state, enabled, errorCount, initDone>>
  \/ /\ Throws("START", Top)
     /\ Call("START", "EXCEPTION")
     /\ finalizing' = {}
     /\ UNCHANGED <<state, enabled, errorCount, initDone>>
  \/ /\ Hooked("START", Top)
     /\ \E o \in [Algs -> Outcomes] :
          LET top == o[Top] = "SUCCESS"
              ok  == top /\ SubsOk("START", o)
          IN /\ state' = (Top :> IF ok THEN "RUNNING" ELSE state[Top])
                           @@ SubStates("START", o, top)
             /\ errorCount' = [a \in Algs |->
                                 IF a = Top \/ (top /\ a \in Reached("START") /\ Hooked("START", a))
                                 THEN 0 ELSE errorCount[a]]
             /\ Call("START", IF ok THEN "SUCCESS" ELSE "FAILURE")
     /\ finalizing' = {}
     /\ UNCHANGED <<enabled, initDone>>

\* sysStop: bypass when INITIALIZED or disabled; ChangeState (throws from
\* CONFIGURED); sysStop of the sub-algorithms first, their status
\* ignored; an exception of one skips stop(); then stop().
SysStop ==
  \/ /\ Skipped("STOP", Top)
     /\ Call("STOP", "SUCCESS")
     /\ finalizing' = {}
     /\ UNCHANGED <<state, enabled, errorCount, initDone>>
  \/ /\ Throws("STOP", Top)
     /\ Call("STOP", "EXCEPTION")
     /\ finalizing' = {}
     /\ UNCHANGED <<state, enabled, errorCount, initDone>>
  \/ /\ Hooked("STOP", Top)
     /\ \E o \in [Algs -> Outcomes] :
          LET ok == ~AnyThrows("STOP") /\ o[Top] = "SUCCESS"
          IN /\ state' = (Top :> IF ok THEN "INITIALIZED" ELSE state[Top])
                           @@ SubStates("STOP", o, TRUE)
             /\ Call("STOP", IF ok THEN "SUCCESS" ELSE "FAILURE")
     /\ finalizing' = {}
     /\ UNCHANGED <<enabled, errorCount, initDone>>

\* sysFinalize: bypass when CONFIGURED or disabled; ChangeState (throws
\* from RUNNING); sysFinalize of the sub-algorithms first; an exception of
\* one skips finalize(); then finalize(); m_state moves only when it and
\* every sub-algorithm succeeded.
SysFinalize ==
  \/ /\ Skipped("FINALIZE", Top)
     /\ Call("FINALIZE", "SUCCESS")
     /\ finalizing' = {}
     /\ UNCHANGED <<state, enabled, errorCount, initDone>>
  \/ /\ Throws("FINALIZE", Top)
     /\ Call("FINALIZE", "EXCEPTION")
     /\ finalizing' = {}
     /\ UNCHANGED <<state, enabled, errorCount, initDone>>
  \/ /\ Hooked("FINALIZE", Top)
     /\ \E o \in [Algs -> Outcomes] :
          LET top  == ~AnyThrows("FINALIZE")
              ok   == top /\ o[Top] = "SUCCESS" /\ SubsOk("FINALIZE", o)
              \* the algorithms whose finalize() is called
              fin  == (IF top THEN {Top} ELSE {})
                        \cup {s \in Reached("FINALIZE") : Hooked("FINALIZE", s)}
          IN /\ state' = (Top :> IF ok THEN "CONFIGURED" ELSE state[Top])
                           @@ SubStates("FINALIZE", o, TRUE)
             /\ initDone' = [a \in Algs |-> initDone[a] /\ ~(a \in fin /\ o[a] = "SUCCESS")]
             /\ finalizing' = fin
             /\ Call("FINALIZE", IF ok THEN "SUCCESS" ELSE "FAILURE")
     /\ UNCHANGED <<enabled, errorCount>>

\* sysExecute runs execute() only when the algorithm is enabled.
RunsAlways(a) == TRUE
Runs(a) == enabled[a]

\* m_errorCount after execute() returned o.
ErrorCountAfterAlways(a, o) == errorCount[a] + 1
ErrorCountAfter(a, o) == IF o = "FAILURE" THEN errorCount[a] + 1 ELSE errorCount[a]

\* A failure is turned into SUCCESS while m_errorCount < m_errorMax.
ExecStatus(a, o) ==
  IF o = "SUCCESS" \/ ErrorCountAfter(a, o) < ErrorMax THEN "SUCCESS" ELSE "FAILURE"

\* sysExecute of the top algorithm, called by the event loop while it is
\* RUNNING; its execute() calls sysExecute of some of its sub-algorithms
\* (K).  The exception service passes a failure on unchanged.
SysExecute ==
  /\ state[Top] = "RUNNING"
  /\ \/ /\ ~Runs(Top)
        /\ Call("EXECUTE", "SUCCESS")
        /\ UNCHANGED errorCount
     \/ /\ Runs(Top)
        /\ \E K \in SUBSET Subs, o \in [Algs -> Outcomes] :
             LET exec == {Top} \cup {s \in K : Runs(s)}
             IN /\ \A a \in exec : o[a] = "FAILURE" => errorCount[a] < MaxErrors
                /\ errorCount' = [a \in Algs |->
                                    IF a \in exec THEN ErrorCountAfter(a, o[a]) ELSE errorCount[a]]
                /\ Call("EXECUTE", ExecStatus(Top, o[Top]))
  /\ finalizing' = {}
  /\ UNCHANGED <<state, enabled, initDone>>

\* sysRestart: disabled returns SUCCESS, not RUNNING returns FAILURE;
\* reset the error count, restart(), then sysRestart of every
\* sub-algorithm (which checks the same two conditions).
SysRestart ==
  /\ \/ /\ ~enabled[Top]
        /\ Call("RESTART", "SUCCESS")
        /\ UNCHANGED errorCount
     \/ /\ enabled[Top] /\ state[Top] # "RUNNING"
        /\ Call("RESTART", "FAILURE")
        /\ UNCHANGED errorCount
     \/ /\ enabled[Top] /\ state[Top] = "RUNNING"
        /\ \E o \in [Algs -> Outcomes] :
             LET top   == o[Top] = "SUCCESS"
                 reset == {s \in Subs : top /\ enabled[s] /\ state[s] = "RUNNING"}
                 subOk(s) == ~enabled[s] \/ (state[s] = "RUNNING" /\ o[s] = "SUCCESS")
             IN /\ errorCount' = [a \in Algs |->
                                    IF a = Top \/ a \in reset THEN 0 ELSE errorCount[a]]
                /\ Call("RESTART", IF top /\ \A s \in Subs : subOk(s)
                                   THEN "SUCCESS" ELSE "FAILURE")
  /\ finalizing' = {}
  /\ UNCHANGED <<state, enabled, initDone>>

\* sysReinitialize: disabled returns SUCCESS, not INITIALIZED returns
\* FAILURE; then reinitialize() (the default does nothing and succeeds;
\* an exception is caught as FAILURE) and, when it succeeded,
\* sysReinitialize of every sub-algorithm, all of them called
\* (for_algorithms).  No state changes.
ReinitStatus(a, o) ==
  CASE ~enabled[a]               -> "SUCCESS"
    [] state[a] # "INITIALIZED"  -> "FAILURE"
    [] OTHER                     -> o[a]
SysReinitialize ==
  /\ \E o \in [Algs -> Outcomes] :
       Call("REINITIALIZE",
            IF ReinitStatus(Top, o) = "SUCCESS" /\ enabled[Top]
               /\ \E s \in Subs : ReinitStatus(s, o) = "FAILURE"
            THEN "FAILURE" ELSE ReinitStatus(Top, o))
  /\ finalizing' = {}
  /\ UNCHANGED <<state, enabled, errorCount, initDone>>

\* sysBeginRun and sysEndRun: when enabled, reset the error count, call the
\* hook, then the same method of every sub-algorithm.
RunBoundary(op) ==
  /\ \/ /\ ~enabled[Top]
        /\ Call(op, "SUCCESS")
        /\ UNCHANGED errorCount
     \/ /\ enabled[Top]
        /\ \E o \in [Algs -> Outcomes] :
             LET top   == o[Top] = "SUCCESS"
                 reset == {s \in Subs : top /\ enabled[s]}
             IN /\ errorCount' = [a \in Algs |->
                                    IF a = Top \/ a \in reset THEN 0 ELSE errorCount[a]]
                /\ Call(op, IF top /\ \A s \in reset : o[s] = "SUCCESS"
                            THEN "SUCCESS" ELSE "FAILURE")
  /\ finalizing' = {}
  /\ UNCHANGED <<state, enabled, initDone>>

SysBeginRun == RunBoundary("BEGINRUN")
SysEndRun   == RunBoundary("ENDRUN")

Next ==
  \/ SysInitialize \/ SysStart \/ SysStop \/ SysFinalize
  \/ SysExecute \/ SysRestart \/ SysBeginRun \/ SysEndRun \/ SysReinitialize

Spec == Init /\ [][Next]_vars

-----------------------------------------------------------------------------
(* Properties.                                                             *)

TypeOK ==
  /\ state \in [Algs -> States]
  /\ enabled \in [Algs -> BOOLEAN]
  /\ errorCount \in [Algs -> 0 .. MaxErrors]
  /\ initDone \in [Algs -> BOOLEAN]
  /\ finalizing \subseteq Algs
  /\ lastCall \in [op : {"NONE", "INITIALIZE", "START", "STOP", "FINALIZE", "EXECUTE",
                         "RESTART", "BEGINRUN", "ENDRUN", "REINITIALIZE"},
                   sc : {"SUCCESS", "FAILURE", "EXCEPTION"}]

\* finalize() of an algorithm is called only while its initialize()
\* succeeded and no finalize() succeeded since: sysFinalize sets m_state
\* "to prevent duplicate attempts", even when a sub-algorithm failed.
FinalizeOnce ==
  [][\A a \in finalizing' : initDone[a]]_vars

\* A sub-algorithm is never left RUNNING once its parent went back to
\* CONFIGURED: sysFinalize of the parent finalizes the sub-algorithms first
\* and the exception ChangeState throws for a running one stops it.
SubsNotAhead ==
  \A s \in Subs : state[s] = "RUNNING" => state[Top] # "CONFIGURED"

\* When sysFinalize of the top algorithm returns SUCCESS, finalize()
\* succeeded on every algorithm whose initialize() had succeeded: nothing
\* that was initialized is left without its finalize().
FinalizeComplete ==
  lastCall = [op |-> "FINALIZE", sc |-> "SUCCESS"] => \A a \in Algs : ~initDone[a]

=============================================================================
