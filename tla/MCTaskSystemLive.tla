-------------------------- MODULE MCTaskSystemLive --------------------------
(***************************************************************************)
(* TaskSystem on two workers and the two jobs of a frame: b is dispatched  *)
(* after a and waits for a's counter.                                      *)
(***************************************************************************)
EXTENDS TaskSystem

CONSTANTS a, b, zero, groupA, groupB

MCJob == {a, b}
MCCounter == {zero, groupA, groupB}
MCDep == [j \in MCJob |-> IF j = b THEN groupA ELSE zero]
MCAcc == [j \in MCJob |-> IF j = a THEN groupA ELSE groupB]
MCProgram == [s \in MCJob \cup {Main} |-> IF s = Main THEN <<a, b>> ELSE <<>>]
=============================================================================
