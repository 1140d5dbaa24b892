---------------------------- MODULE MC_NTupleSvc ----------------------------
(* Two files, the first written (Output) and the second read (Input), and  *)
(* three tuples, two under the first file.                                  *)
EXTENDS NTupleSvc

MCLogNames == {"FILE1", "FILE2"}
MCTuples == {"t1", "t2", "t3"}
MCTupleFile == [t \in MCTuples |-> IF t = "t3" THEN "FILE2" ELSE "FILE1"]
MCOutput == << [log |-> "FILE1", opt |-> "N"] >>
MCInput == << [log |-> "FILE2", opt |-> "R"] >>
=============================================================================
