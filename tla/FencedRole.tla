----------------------------- MODULE FencedRole -----------------------------
(***************************************************************************)
(* What packages/leader-election promises of one role, whatever the timing *)
(* of its queries, crashes and pauses: fencing.  Every acquisition issues  *)
(* the next epoch to one process; a process only ever acts under an epoch  *)
(* that was issued to it.  LeaderLease implements this specification.      *)
(***************************************************************************)
EXTENDS Naturals, Sequences

CONSTANT Proc            \* the instances that compete for the role

VARIABLES owner,         \* owner[e] is the process epoch e was issued to
          token          \* token[p] is the epoch p acts under; 0 when none

fencedVars == <<owner, token>>

FencedInit == /\ owner = <<>>
              /\ token = [p \in Proc |-> 0]

\* The coordinator issues the next epoch; the process need not know it yet.
Issue(p) == /\ owner' = Append(owner, p)
            /\ UNCHANGED token

\* A process starts acting under an epoch that was issued to it, or stops.
Act(p) == /\ \E e \in 0..Len(owner) :
               /\ e # 0 => owner[e] = p
               /\ token' = [token EXCEPT ![p] = e]
          /\ UNCHANGED owner

FencedNext == \E p \in Proc : Issue(p) \/ Act(p)

FencedSpec == FencedInit /\ [][FencedNext]_fencedVars

\* An epoch never has two processes acting under it.
OneActorPerEpoch ==
    \A p, q \in Proc : token[p] # 0 /\ token[p] = token[q] => p = q
=============================================================================
