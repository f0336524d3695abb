---------------------------- MODULE MCJobSystem ----------------------------
(* Instances of JobSystem for TLC.  Lines are named after their request,   *)
(* and two lines never ask for the same thing, so that a result which      *)
(* lands on the wrong line is seen.                                        *)
EXTENDS JobSystem, TLC

(* Instances are interchangeable; used where no liveness is checked.       *)
Symmetry == Permutations(Clients) \cup Permutations(Servers)

CONSTANTS j0, j1, j2, o1, o2, o3, r1, r2, r3, v1, v2, v3

(* j0 is an empty body, j1 has two lines, j2 has one.                      *)
MCJobOf == o1 :> j1 @@ o2 :> j1 @@ o3 :> j2

(* One job of two lines.                                                   *)
OneJobOf == o1 :> j1 @@ o2 :> j1

MCRequestOf == [o \in Ops |-> CASE o = o1 -> r1 [] o = o2 -> r2 [] OTHER -> r3]
MCEval == r1 :> v1 @@ r2 :> v2 @@ r3 :> v3
=============================================================================
