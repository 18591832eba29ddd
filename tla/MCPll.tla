------------------------------- MODULE MCPll -------------------------------
(* Scaled-down settings: three threads go to a setting in the middle from  *)
(* every setting around it, so that fbdiv and a postdiv have to go up,     *)
(* down or not at all, and the other postdiv ends at its least value, 1.   *)
EXTENDS Pll
CONSTANTS s1, s2, s3
Post(a, b) == [i \in {0, 1} |-> IF i = 0 THEN a ELSE b]
middle == [fbdiv |-> 3, postdiv |-> Post(1, 2)]
MCOutputs == {0, 1}
MCAround == {[fbdiv |-> f, postdiv |-> Post(a, b)] :
                f \in 1 .. 5, a \in 1 .. 3, b \in 1 .. 3}
MCThreads == {s1, s2, s3}
MCToMiddle == [s \in MCThreads |-> middle]
=============================================================================
