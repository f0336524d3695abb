------------------------------- MODULE MCListing -------------------------------
(* An instance of Listing for TLC.                                         *)
EXTENDS Listing

CONSTANTS j1, j2

(* The second of the documents belongs to another job than the rest.       *)
MCJobOf == [d \in Documents |-> IF d = 2 THEN j2 ELSE j1]
===============================================================================
