---------------------------- MODULE MC_MessageSvc ----------------------------
(* Constant values for checking MessageSvc: three sources whose log files   *)
(* are W -> fa, X -> fb, Y -> fb (names sorted W < X < Y), one stream, one  *)
(* status code with one INFO message.                                       *)
EXTENDS MessageSvc

CONSTANTS W, X, Y, st1, c1, m1, fa, fb

INFO == 3

MCSrcOrder == <<W, X, Y>>
MCMsgType == [m \in {m1} |-> INFO]
MCLoggedStreamsName == [s \in {W, X, Y} |-> IF s = W THEN fa ELSE fb]
=============================================================================
