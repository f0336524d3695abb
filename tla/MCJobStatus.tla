---------------------------- MODULE MCJobStatus ----------------------------
(* Instances of JobStatus for TLC: one job of two lines.                   *)
EXTENDS JobStatus, TLC

CONSTANTS j1, o1, o2, r1, r2, v1, v2

MCJobOf == o1 :> j1 @@ o2 :> j1
MCRequestOf == o1 :> r1 @@ o2 :> r2
MCEval == r1 :> v1 @@ r2 :> v2

(* Users are interchangeable.                                              *)
Symmetry == Permutations(Users)
=============================================================================
