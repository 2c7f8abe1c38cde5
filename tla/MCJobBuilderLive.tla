-------------------------- MODULE MCJobBuilderLive --------------------------
(***************************************************************************)
(* Two builders and two jobs: each order of two groups, in one builder or  *)
(* chained through an extracted counter, and WaitAll at each point.        *)
(***************************************************************************)
EXTENDS JobBuilder

MCCounter == 1 .. MaxCounter
=============================================================================
