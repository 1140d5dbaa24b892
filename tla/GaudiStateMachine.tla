------------------------- MODULE GaudiStateMachine --------------------------
(***************************************************************************)
(* Gaudi::StateMachine::ChangeState (GaudiKernel/StateMachine.h, not in    *)
(* the repository), shared by the Algorithm and AlgTool lifecycles: the    *)
(* transitions it allows between the states a component reaches once it  *)
(* is configured; any other transition throws a GaudiException.           *)
(***************************************************************************)

States == {"CONFIGURED", "INITIALIZED", "RUNNING"}

Transitions == [t \in {<<"INITIALIZE", "CONFIGURED">>, <<"START", "INITIALIZED">>,
                       <<"STOP", "RUNNING">>, <<"FINALIZE", "INITIALIZED">>} |->
                  CASE t[1] = "INITIALIZE" -> "INITIALIZED"
                    [] t[1] = "START"      -> "RUNNING"
                    [] t[1] = "STOP"       -> "INITIALIZED"
                    [] t[1] = "FINALIZE"   -> "CONFIGURED"]

Allowed(op, s) == <<op, s>> \in DOMAIN Transitions
=============================================================================
