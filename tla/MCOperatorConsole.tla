-------------------------- MODULE MCOperatorConsole --------------------------
(* Two trains on a loop of ten cells, two sections restricted, one of   *)
(* them with a train inside, two operators and one alarm.                   *)
EXTENDS OperatorConsole, TLC

CONSTANTS t1, t2, r1, r2

MCStart == t1 :> [t |-> 3, dev |-> 0] @@ t2 :> [t |-> 6, dev |-> -1]
MCSections == r1 :> <<1, 2>> @@ r2 :> <<5, 7>>
=============================================================================
