---------------------------- MODULE OrderedFeed ----------------------------
(***************************************************************************)
(* What the field gateway promises the core about each device              *)
(* (packages/contracts/src/replay.ts:1-28): messages pass at most once and *)
(* in the order the device built them, boot sessions one after the other,  *)
(* for as long as the gateway lives.                                       *)
(***************************************************************************)
EXTENDS Integers

CONSTANT Src

VARIABLE admitted   \* [Src -> the <<boot, seq>> that have passed]

\* One message of a device was built before another.
Before(d, e) == d[1] < e[1] \/ (d[1] = e[1] /\ d[2] < e[2])

FeedInit == admitted = [s \in Src |-> {}]

Admit(s) ==
    \E e \in admitted'[s] :
        /\ \A d \in admitted[s] : Before(d, e)
        /\ admitted' = [admitted EXCEPT ![s] = @ \union {e}]

Forget == admitted' = [s \in Src |-> {}]

FeedSpec == FeedInit /\ [][(\E s \in Src : Admit(s)) \/ Forget]_admitted
=============================================================================
