----------------------------- MODULE MCRegulation -----------------------------
(* Two trains on a loop of three sections of twenty, thirty and forty seconds, *)
(* apart or one close behind the other.                                      *)
EXTENDS Regulation, TLC

CONSTANTS t1, t2

MCTrains == <<t1, t2>>
MCRun == <<2000, 3000, 4000>>
Begin(a, b) == t1 :> a @@ t2 :> b
MCBegins == {Begin([section |-> 1, run |-> 1000], [section |-> 3, run |-> 500]),
             Begin([section |-> 1, run |-> 500], [section |-> 1, run |-> 1500])}
=============================================================================
