---------------------------- MODULE MCJobBuilder ----------------------------
(***************************************************************************)
(* Two builders and three jobs, with enough counters for both builders and *)
(* two or three fences: a chain over two builders and a chain of three     *)
(* groups of one builder are both within the bound.                        *)
(***************************************************************************)
EXTENDS JobBuilder, TLC

MCCounter == 1 .. MaxCounter
Symmetry == Permutations(Job) \cup Permutations(Builder)
=============================================================================
