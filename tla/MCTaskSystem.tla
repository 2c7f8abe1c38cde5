---------------------------- MODULE MCTaskSystem ----------------------------
(***************************************************************************)
(* TaskSystem on two workers and three jobs: the main thread dispatches a  *)
(* and then b, which waits for a's counter; the body of a dispatches c, as *)
(* the render job dispatches loads.                                        *)
(***************************************************************************)
EXTENDS TaskSystem

CONSTANTS a, b, c, zero, groupA, groupB

MCJob == {a, b, c}
MCCounter == {zero, groupA, groupB}
MCDep == [j \in MCJob |-> IF j = b THEN groupA ELSE zero]
MCAcc == [j \in MCJob |-> IF j = a THEN groupA ELSE groupB]
MCProgram == [s \in MCJob \cup {Main} |->
                CASE s = Main -> <<a, b>> [] s = a -> <<c>> [] OTHER -> <<>>]
=============================================================================
