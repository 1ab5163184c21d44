-------------------------- MODULE LeaderLeaseProofs --------------------------
(***************************************************************************)
(* Fencing of the leader election, proved for every set of instances, every *)
(* lease duration and every number of crashes, stops, failed queries and   *)
(* pauses.  FencingInv is the inductive invariant: every epoch carried by a *)
(* process, a query in flight or an orphaned statement is one PostgreSQL   *)
(* granted to that very process.                                           *)
(***************************************************************************)
EXTENDS LeaderLease, TLAPS

\* The row and the history: their types, and the row is the last grant.
RowOK == /\ lease \in [holder : Proc \union {NoProc}, epoch : Nat, ttl : Expired..LeaseDuration]
         /\ grants \in Seq(Proc)
         /\ RowIsLastGrant

\* What one statement of process p does to the row and to the history, when the
\* epoch it carries was granted to p: the invariants of the row survive, grants
\* only grow at the end, and the epoch returned was granted to p.
LEMMA ExecuteGrants ==
    ASSUME NEW p \in Proc, NEW s,
           s.op \in {"acquire", "renew", "release"}, s.epoch \in Nat,
           RowOK, Execute(p, s)
    PROVE  /\ RowOK'
           /\ \/ grants' = Append(grants, p)
              \/ grants' = grants
           /\ Returned(p, s) \in Nat
           /\ Returned(p, s) # 0 => Returned(p, s) <= Len(grants') /\ grants'[Returned(p, s)] = p
<1> USE DEF RowOK
<1>1. CASE ~Matches(p, s)
  BY <1>1 DEF Execute, Returned, RowIsLastGrant
<1>2. CASE Matches(p, s) /\ s.op = "acquire"
  <2>1. /\ lease' = [holder |-> p, epoch |-> lease.epoch + 1, ttl |-> LeaseDuration]
        /\ grants' = Append(grants, p)
        /\ Returned(p, s) = lease.epoch + 1
    BY <1>2 DEF Execute, RowAfter, Returned
  <2>2. /\ grants' \in Seq(Proc) /\ Len(grants') = Len(grants) + 1
        /\ grants'[Len(grants) + 1] = p /\ grants' # <<>>
    BY <2>1
  <2>3. QED
    BY <2>1, <2>2, LeaseAssumption DEF RowIsLastGrant, Expired
<1>3. CASE Matches(p, s) /\ s.op \in {"renew", "release"}
  <2>1. /\ lease' \in [holder : Proc \union {NoProc}, epoch : Nat, ttl : Expired..LeaseDuration]
        /\ lease'.holder = lease.holder /\ lease'.epoch = lease.epoch
        /\ grants' = grants
        /\ Returned(p, s) = lease.epoch
        /\ lease.holder = p
    BY <1>3, LeaseAssumption DEF Execute, RowAfter, Returned, Expired, Matches
  <2>2. QED
    BY <2>1, LeaseAssumption DEF RowIsLastGrant
<1>4. QED
  BY <1>1, <1>2, <1>3

\* A grant is never rewritten: what was granted stays granted.
LEMMA GrantsStay ==
    ASSUME NEW p \in Proc, grants \in Seq(Proc),
           grants' = grants \/ grants' = Append(grants, p)
    PROVE  \A q, e : e \in Nat /\ GrantedTo(q, e) => GrantedTo(q, e)'
  BY DEF GrantedTo

\* Before any process has started no epoch is granted and none is carried.
LEMMA InitFencing == Init => FencingInv
  BY LeaseAssumption
  DEF Init, FencingInv, TypeOK, RowIsLastGrant, TokensGranted, GrantedTo,
      NoQuery, Query, Expired, Never

\* #setEpoch keeps the types of what it assigns.
LEMMA SetEpochTypes ==
    ASSUME NEW p \in Proc, NEW e \in Nat, SetEpoch(p, e),
           epoch \in [Proc -> Nat], told \in [Proc -> Nat \union {Never}]
    PROVE  /\ epoch' = [epoch EXCEPT ![p] = e]
           /\ epoch' \in [Proc -> Nat]
           /\ told' \in [Proc -> Nat \union {Never}]
  BY DEF SetEpoch

\* Statements that lose their client keep the epochs their queries carried.
LEMMA UnexecutedTypes ==
    ASSUME NEW p \in Proc, NEW qs, qs \subseteq Query,
           \A q \in qs : GrantedTo(p, q.epoch), NEW lost \in SUBSET Unexecuted(p, qs)
    PROVE  \A s \in lost :
             /\ s \in [by : Proc, op : {"acquire", "renew", "release"}, epoch : Nat]
             /\ s.by = p
             /\ GrantedTo(s.by, s.epoch)
             /\ \E q \in qs : s.op = q.op /\ s.epoch = q.epoch
  BY DEF Unexecuted, Pending, Query

\* Every step keeps the row the last grant and every carried epoch granted to
\* its carrier: the inductive step behind fencing, one case per action.
LEMMA StepFencing == FencingInv /\ [Next]_vars => FencingInv'
<1> SUFFICES ASSUME FencingInv, [Next]_vars PROVE FencingInv'
  OBVIOUS
<1> USE DEF FencingInv
<1>0. RowOK
  BY DEF TypeOK, RowOK
<1>1. ASSUME NEW p \in Proc, Start(p) PROVE FencingInv'
  BY <1>1 DEF Start, TypeOK, RowIsLastGrant, TokensGranted, GrantedTo, Query, Sent
<1>2. ASSUME NEW p \in Proc, SendTick(p) PROVE FencingInv'
  BY <1>2 DEF SendTick, TypeOK, RowIsLastGrant, TokensGranted, GrantedTo, Query, Sent, IsLeader
<1>3. ASSUME NEW p \in Proc, ExecuteTick(p) PROVE FencingInv'
  <2>1. tick[p] \in Query /\ tick[p].op \in {"acquire", "renew", "release"}
    BY <1>3 DEF ExecuteTick, Pending, TypeOK, Query
  <2>2. /\ RowOK'
        /\ grants' = Append(grants, p) \/ grants' = grants
        /\ Returned(p, tick[p]) \in Nat
        /\ Returned(p, tick[p]) # 0 =>
              Returned(p, tick[p]) <= Len(grants') /\ grants'[Returned(p, tick[p])] = p
    <3>1. Execute(p, tick[p]) /\ tick[p].epoch \in Nat
      BY <1>3, <2>1 DEF ExecuteTick, Query
    <3>2. QED
      BY <1>0, <2>1, <3>1, ExecuteGrants
  <2>3. \A q, e : e \in Nat /\ GrantedTo(q, e) => GrantedTo(q, e)'
    BY <2>2, GrantsStay DEF TypeOK
  <2>4. TypeOK'
    BY <1>3, <2>1, <2>2 DEF ExecuteTick, TypeOK, Query, RowOK
  <2>5. TokensGranted'
    <3>1. \A q \in Proc : tick'[q].epoch = IF q = p THEN Returned(p, tick[p]) ELSE tick[q].epoch
      BY <1>3, <2>1 DEF ExecuteTick, TypeOK, Query
    <3>2. GrantedTo(p, tick[p].epoch)'
      BY <2>2, <3>1 DEF GrantedTo
    <3>3. \A q \in Proc : q # p => GrantedTo(q, tick[q].epoch)'
      <4> SUFFICES ASSUME NEW q \in Proc, q # p PROVE GrantedTo(q, tick[q].epoch)'
        OBVIOUS
      <4>1. tick[q].epoch \in Nat /\ GrantedTo(q, tick[q].epoch)
        BY DEF TypeOK, Query, TokensGranted
      <4>2. tick'[q].epoch = tick[q].epoch
        BY <3>1
      <4>3. ASSUME NEW e \in Nat, GrantedTo(q, e) PROVE GrantedTo(q, e)'
        BY <2>3, <4>3
      <4>4. tick[q].epoch # 0 => tick[q].epoch <= Len(grants') /\ grants'[tick[q].epoch] = q
        BY <4>1, <4>3 DEF GrantedTo
      <4>5. QED
        BY <4>2, <4>4 DEF GrantedTo
    <3>4. epoch' = epoch /\ release' = release /\ orphans' = orphans
      BY <1>3 DEF ExecuteTick
    <3>5. ASSUME NEW q \in Proc PROVE GrantedTo(q, epoch[q])' /\ GrantedTo(q, release[q].epoch)'
      <4>1. /\ epoch[q] \in Nat /\ release[q].epoch \in Nat
            /\ GrantedTo(q, epoch[q]) /\ GrantedTo(q, release[q].epoch)
        BY DEF TypeOK, Query, TokensGranted
      <4>2. QED
        BY <2>3, <3>4, <4>1 DEF GrantedTo
    <3>6. ASSUME NEW s \in orphans PROVE GrantedTo(s.by, s.epoch)'
      <4>1. s.epoch \in Nat /\ GrantedTo(s.by, s.epoch)
        BY DEF TypeOK, TokensGranted
      <4>2. QED
        BY <2>3, <4>1 DEF GrantedTo
    <3>7. QED
      BY <3>2, <3>3, <3>4, <3>5, <3>6 DEF TokensGranted
  <2>6. QED
    BY <2>2, <2>4, <2>5 DEF RowOK
<1>4. ASSUME NEW p \in Proc, AnswerTick(p) PROVE FencingInv'
  <2>1. tick[p].epoch \in Nat
    BY DEF TypeOK, Query
  <2>2. /\ epoch' = [epoch EXCEPT ![p] = tick[p].epoch]
        /\ epoch' \in [Proc -> Nat] /\ told' \in [Proc -> Nat \union {Never}]
    BY <1>4, <2>1, SetEpochTypes DEF AnswerTick, TypeOK
  <2>3. TypeOK'
    BY <1>4, <2>2 DEF AnswerTick, TypeOK, Query, NoQuery
  <2>4. TokensGranted'
    <3>1. grants' = grants /\ release' = release /\ orphans' = orphans
      BY <1>4 DEF AnswerTick
    <3>2. ASSUME NEW q \in Proc PROVE GrantedTo(q, epoch'[q]) /\ GrantedTo(q, tick'[q].epoch)
      BY <1>4, <2>2 DEF AnswerTick, TypeOK, TokensGranted, GrantedTo, NoQuery
    <3>3. QED
      BY <3>1, <3>2 DEF TokensGranted, GrantedTo
  <2>5. QED
    BY <1>4, <2>3, <2>4 DEF AnswerTick, RowIsLastGrant
<1>5. ASSUME NEW p \in Proc, FailTick(p) PROVE FencingInv'
  <2>1. /\ epoch' = [epoch EXCEPT ![p] = 0]
        /\ epoch' \in [Proc -> Nat] /\ told' \in [Proc -> Nat \union {Never}]
    BY <1>5, SetEpochTypes DEF FailTick, TypeOK
  <2>2. PICK lost \in SUBSET Unexecuted(p, {tick[p]}) : orphans' = orphans \union lost
    BY <1>5 DEF FailTick
  <2>3. \A s \in lost : /\ s \in [by : Proc, op : {"acquire", "renew", "release"}, epoch : Nat]
                        /\ GrantedTo(s.by, s.epoch)
    <3>1. /\ {tick[p]} \subseteq Query
          /\ \A q \in {tick[p]} : GrantedTo(p, q.epoch)
      BY DEF TypeOK, TokensGranted
    <3>2. QED
      BY <2>2, <3>1, UnexecutedTypes
  <2>4. TypeOK'
    <3>1. tick' \in [Proc -> Query]
      BY <1>5 DEF FailTick, TypeOK, Query, NoQuery
    <3>2. timer' \in [Proc -> BOOLEAN] /\ faults' \in Nat
      BY <1>5 DEF FailTick, TypeOK, Fault
    <3>3. orphans' \subseteq [by : Proc, op : {"acquire", "renew", "release"}, epoch : Nat]
      BY <2>2, <2>3 DEF TypeOK
    <3>4. UNCHANGED <<lease, grants, mode, release>>
      BY <1>5 DEF FailTick
    <3>5. QED
      BY <2>1, <3>1, <3>2, <3>3, <3>4 DEF TypeOK
  <2>5. TokensGranted'
    <3>1. grants' = grants /\ release' = release
      BY <1>5 DEF FailTick
    <3>2. ASSUME NEW q \in Proc PROVE GrantedTo(q, epoch'[q]) /\ GrantedTo(q, tick'[q].epoch)
      BY <1>5, <2>1 DEF FailTick, TypeOK, TokensGranted, GrantedTo, NoQuery
    <3>3. \A s \in orphans' : GrantedTo(s.by, s.epoch)
      BY <2>2, <2>3 DEF TokensGranted
    <3>4. QED
      BY <3>1, <3>2, <3>3 DEF TokensGranted, GrantedTo
  <2>6. QED
    BY <1>5, <2>4, <2>5 DEF FailTick, RowIsLastGrant
<1>6. ASSUME NEW p \in Proc, Stop(p) PROVE FencingInv'
  <2>1. release' = IF IsLeader(p) THEN [release EXCEPT ![p] = Sent("release", epoch[p])] ELSE release
    BY <1>6 DEF Stop
  <2>2. /\ Sent("release", epoch[p]) \in Query
        /\ Sent("release", epoch[p]).epoch = epoch[p]
    BY DEF Sent, Query, TypeOK
  <2>3. TypeOK'
    BY <1>6, <2>1, <2>2 DEF Stop, TypeOK, Fault
  <2>4. \A q \in Proc : release'[q].epoch = release[q].epoch \/ (q = p /\ release'[q].epoch = epoch[p])
    BY <2>1, <2>2 DEF TypeOK
  <2>5. TokensGranted'
    BY <1>6, <2>4 DEF Stop, TokensGranted, GrantedTo
  <2>6. QED
    BY <1>6, <2>3, <2>5 DEF Stop, RowIsLastGrant
<1>7. ASSUME NEW p \in Proc, ExecuteRelease(p) PROVE FencingInv'
  <2>1. release[p] \in Query /\ release[p].op \in {"acquire", "renew", "release"}
    BY <1>7 DEF ExecuteRelease, Pending, TypeOK, Query
  <2>2. /\ RowOK'
        /\ grants' = Append(grants, p) \/ grants' = grants
    <3>1. Execute(p, release[p]) /\ release[p].epoch \in Nat
      BY <1>7, <2>1 DEF ExecuteRelease, Query
    <3>2. QED
      BY <1>0, <2>1, <3>1, ExecuteGrants
  <2>3. \A q, e : e \in Nat /\ GrantedTo(q, e) => GrantedTo(q, e)'
    BY <2>2, GrantsStay DEF TypeOK
  <2>4. TypeOK'
    BY <1>7, <2>1, <2>2 DEF ExecuteRelease, TypeOK, Query, RowOK
  <2>5. TokensGranted'
    BY <1>7, <2>3 DEF ExecuteRelease, TokensGranted, TypeOK, Query
  <2>6. QED
    BY <2>2, <2>4, <2>5 DEF RowOK
<1>8. ASSUME NEW p \in Proc, AnswerRelease(p) PROVE FencingInv'
  <2>1. /\ epoch' = [epoch EXCEPT ![p] = 0]
        /\ epoch' \in [Proc -> Nat] /\ told' \in [Proc -> Nat \union {Never}]
    BY <1>8, SetEpochTypes DEF AnswerRelease, TypeOK
  <2>2. QED
    BY <1>8, <2>1
    DEF AnswerRelease, TypeOK, RowIsLastGrant, TokensGranted, GrantedTo, Query, NoQuery
<1>9. ASSUME NEW p \in Proc, FailRelease(p) PROVE FencingInv'
  <2>2. PICK lost \in SUBSET Unexecuted(p, {release[p]}) : orphans' = orphans \union lost
    BY <1>9 DEF FailRelease
  <2>3. \A s \in lost : /\ s \in [by : Proc, op : {"acquire", "renew", "release"}, epoch : Nat]
                        /\ GrantedTo(s.by, s.epoch)
    <3>1. /\ {release[p]} \subseteq Query
          /\ \A q \in {release[p]} : GrantedTo(p, q.epoch)
      BY DEF TypeOK, TokensGranted
    <3>2. QED
      BY <2>2, <3>1, UnexecutedTypes
  <2>4. TypeOK'
    BY <1>9, <2>2, <2>3 DEF FailRelease, TypeOK, Query, NoQuery, Fault
  <2>5. TokensGranted'
    BY <1>9, <2>2, <2>3 DEF FailRelease, TypeOK, TokensGranted, GrantedTo, NoQuery
  <2>6. QED
    BY <1>9, <2>4, <2>5 DEF FailRelease, RowIsLastGrant
<1>10. ASSUME NEW p \in Proc, Exit(p) PROVE FencingInv'
  BY <1>10 DEF Exit, Forget, TypeOK, RowIsLastGrant, TokensGranted, GrantedTo
<1>11. ASSUME NEW p \in Proc, Crash(p) PROVE FencingInv'
  <2>2. PICK lost \in SUBSET Unexecuted(p, {tick[p], release[p]}) : orphans' = orphans \union lost
    BY <1>11 DEF Crash
  <2>3. \A s \in lost : /\ s \in [by : Proc, op : {"acquire", "renew", "release"}, epoch : Nat]
                        /\ GrantedTo(s.by, s.epoch)
    <3>1. /\ {tick[p], release[p]} \subseteq Query
          /\ \A q \in {tick[p], release[p]} : GrantedTo(p, q.epoch)
      BY DEF TypeOK, TokensGranted
    <3>2. QED
      BY <2>2, <3>1, UnexecutedTypes
  <2>4. TypeOK'
    BY <1>11, <2>2, <2>3 DEF Crash, Forget, TypeOK, Query, NoQuery, Fault
  <2>5. TokensGranted'
    BY <1>11, <2>2, <2>3 DEF Crash, Forget, TypeOK, TokensGranted, GrantedTo, NoQuery
  <2>6. QED
    BY <1>11, <2>4, <2>5 DEF Crash, RowIsLastGrant
<1>12. ASSUME NEW s \in orphans, ExecuteOrphan(s) PROVE FencingInv'
  <2>1. s \in [by : Proc, op : {"acquire", "renew", "release"}, epoch : Nat]
    BY DEF TypeOK
  <2>2. /\ RowOK'
        /\ grants' = Append(grants, s.by) \/ grants' = grants
    <3>1. Execute(s.by, s) /\ s.by \in Proc /\ s.op \in {"acquire", "renew", "release"} /\ s.epoch \in Nat
      BY <1>12, <2>1 DEF ExecuteOrphan
    <3>2. QED
      BY <1>0, <3>1, ExecuteGrants
  <2>3. \A q, e : e \in Nat /\ GrantedTo(q, e) => GrantedTo(q, e)'
    BY <2>1, <2>2, GrantsStay DEF TypeOK
  <2>4. TypeOK'
    BY <1>12, <2>2 DEF ExecuteOrphan, TypeOK, RowOK
  <2>5. TokensGranted'
    BY <1>12, <2>3 DEF ExecuteOrphan, TokensGranted, TypeOK, Query
  <2>6. QED
    BY <2>2, <2>4, <2>5 DEF RowOK
<1>13. ASSUME Elapse PROVE FencingInv'
  <2>1. /\ lease.ttl \in Expired..LeaseDuration /\ lease.ttl # Expired
        /\ lease.holder \in Proc \union {NoProc} /\ lease.epoch \in Nat
    BY <1>13 DEF Elapse, TypeOK
  <2>2. lease.ttl - 1 \in Expired..LeaseDuration
    BY <2>1, LeaseAssumption DEF Expired
  <2>3. lease' = [holder |-> lease.holder, epoch |-> lease.epoch, ttl |-> lease.ttl - 1]
    BY <1>13 DEF Elapse, TypeOK
  <2>4. faults' \in Nat
    BY <1>13 DEF Elapse, TypeOK, Fault
  <2>5. QED
    BY <1>13, <2>1, <2>2, <2>3, <2>4 DEF Elapse, TypeOK, RowIsLastGrant, TokensGranted, GrantedTo
<1>14. ASSUME UNCHANGED vars PROVE FencingInv'
  BY <1>14 DEF vars, TypeOK, RowIsLastGrant, TokensGranted, GrantedTo
<1>15. QED
  BY <1>1, <1>2, <1>3, <1>4, <1>5, <1>6, <1>7, <1>8, <1>9, <1>10, <1>11, <1>12, <1>13, <1>14
  DEF Next

\* Fencing: at every moment the row is the last grant and every epoch anyone
\* carries was granted to the one who carries it.
THEOREM FencingHolds == Spec => []FencingInv
<1>1. QED
  BY InitFencing, StepFencing, PTL DEF Spec

\* Two processes that both believe they lead never do so under the same epoch.
THEOREM NoSharedEpochHolds == Spec => []NoSharedEpoch
<1>1. FencingInv => NoSharedEpoch
  <2> SUFFICES ASSUME FencingInv,
                      NEW p \in Proc, NEW q \in Proc, epoch[p] # 0, epoch[p] = epoch[q]
               PROVE  p = q
    BY DEF NoSharedEpoch, IsLeader
  <2>1. grants[epoch[p]] = p /\ grants[epoch[q]] = q
    BY DEF FencingInv, TokensGranted, GrantedTo
  <2>2. QED
    BY <2>1
<1>2. QED
  BY <1>1, FencingHolds, PTL

-----------------------------------------------------------------------------
\* A step of the code is a step of the abstract role or changes nothing it sees.
LEMMA StepRefines == FencingInv /\ [Next]_vars => [Fenced!FencedNext]_(Fenced!fencedVars)
<1> SUFFICES ASSUME FencingInv, [Next]_vars
             PROVE  [Fenced!FencedNext]_(Fenced!fencedVars)
  OBVIOUS
<1> DEFINE Stutter == grants' = grants /\ epoch' = epoch
           Issues(p) == grants' = Append(grants, p) /\ epoch' = epoch
           Acts(p) == \E e \in Nat : /\ GrantedTo(p, e)
                                     /\ epoch' = [epoch EXCEPT ![p] = e]
                                     /\ grants' = grants
<1>1. ASSUME Stutter PROVE [Fenced!FencedNext]_(Fenced!fencedVars)
  BY <1>1 DEF Fenced!fencedVars
<1>2. ASSUME NEW p \in Proc, Issues(p) PROVE [Fenced!FencedNext]_(Fenced!fencedVars)
  BY <1>2 DEF Fenced!FencedNext, Fenced!Issue
<1>3. ASSUME NEW p \in Proc, Acts(p) PROVE [Fenced!FencedNext]_(Fenced!fencedVars)
  <2>1. PICK e \in Nat : /\ GrantedTo(p, e)
                         /\ epoch' = [epoch EXCEPT ![p] = e]
                         /\ grants' = grants
    BY <1>3
  <2>2. grants \in Seq(Proc) /\ Len(grants) \in Nat
    BY DEF FencingInv, TypeOK
  <2>3. e \in 0..Len(grants) /\ (e # 0 => grants[e] = p)
    BY <2>1, <2>2 DEF GrantedTo
  <2>4. Fenced!Act(p)
    BY <2>1, <2>3 DEF Fenced!Act
  <2>5. QED
    BY <2>4 DEF Fenced!FencedNext
<1>4. ASSUME NEW p \in Proc, NEW s, Execute(p, s), epoch' = epoch PROVE Stutter \/ Issues(p)
  BY <1>4 DEF Execute
<1>5. ASSUME NEW p \in Proc, NEW e \in Nat, GrantedTo(p, e), SetEpoch(p, e), grants' = grants
      PROVE  Acts(p)
  BY <1>5 DEF SetEpoch
<1> HIDE DEF Stutter, Issues, Acts
<1>6. ASSUME NEW p \in Proc,
             \/ Start(p) \/ SendTick(p) \/ Stop(p) \/ FailRelease(p)
      PROVE  Stutter
  BY <1>6 DEF Start, SendTick, Stop, FailRelease, Stutter
<1>7. ASSUME NEW p \in Proc, ExecuteTick(p) \/ ExecuteRelease(p)
      PROVE  Stutter \/ Issues(p)
  <2>1. epoch' = epoch
    BY <1>7 DEF ExecuteTick, ExecuteRelease
  <2>2. Execute(p, tick[p]) \/ Execute(p, release[p])
    BY <1>7 DEF ExecuteTick, ExecuteRelease
  <2>3. QED
    BY <2>1, <2>2, <1>4
<1>8. ASSUME NEW p \in Proc, AnswerTick(p) PROVE Acts(p)
  <2>1. tick[p].epoch \in Nat /\ GrantedTo(p, tick[p].epoch)
    BY DEF FencingInv, TypeOK, TokensGranted, Query
  <2>2. QED
    BY <1>5, <1>8, <2>1 DEF AnswerTick
<1>9. ASSUME NEW p \in Proc, FailTick(p) \/ AnswerRelease(p) PROVE Acts(p)
  <2>1. GrantedTo(p, 0)
    BY DEF GrantedTo
  <2>2. SetEpoch(p, 0) /\ grants' = grants
    BY <1>9 DEF FailTick, AnswerRelease
  <2>3. QED
    BY <1>5, <2>1, <2>2
<1>10. ASSUME NEW p \in Proc, Exit(p) \/ Crash(p) PROVE Acts(p)
  BY <1>10 DEF Exit, Crash, Forget, GrantedTo, Acts
<1>11. ASSUME NEW s \in orphans, ExecuteOrphan(s) PROVE Stutter \/ Issues(s.by)
  <2>1. s.by \in Proc
    BY DEF FencingInv, TypeOK
  <2>2. Execute(s.by, s) /\ epoch' = epoch
    BY <1>11 DEF ExecuteOrphan
  <2>3. QED
    BY <1>4, <2>1, <2>2
<1>12. ASSUME Elapse \/ UNCHANGED vars PROVE Stutter
  BY <1>12 DEF Elapse, vars, Stutter
<1>13. ASSUME NEW s \in orphans PROVE s.by \in Proc
  BY DEF FencingInv, TypeOK
<1>14. CASE \E p \in Proc :
              \/ Start(p) \/ SendTick(p) \/ ExecuteTick(p) \/ AnswerTick(p) \/ FailTick(p)
              \/ Stop(p) \/ ExecuteRelease(p) \/ AnswerRelease(p) \/ FailRelease(p)
              \/ Exit(p) \/ Crash(p)
  BY <1>14, <1>1, <1>2, <1>3, <1>6, <1>7, <1>8, <1>9, <1>10
<1>15. CASE \E s \in orphans : ExecuteOrphan(s)
  BY <1>15, <1>1, <1>2, <1>11, <1>13
<1>16. CASE Elapse \/ UNCHANGED vars
  BY <1>16, <1>1, <1>12
<1>17. QED
  BY <1>14, <1>15, <1>16 DEF Next

\* The lease, its holders, their crashes and late queries implement the abstract
\* fenced role.
THEOREM RefinesFencedRole == Spec => ImplementsFencedRole
<1>1. Init => Fenced!FencedInit
  BY DEF Init, Fenced!FencedInit
<1>2. QED
  BY <1>1, StepRefines, FencingHolds, PTL DEF Spec, ImplementsFencedRole, Fenced!FencedSpec

-----------------------------------------------------------------------------
\* A statement whose epoch is not the row's epoch leaves a held lease alone; one
\* whose epoch it is comes from the holder and does not shorten the lease unless
\* it is a release.
LEMMA ExecuteSpares ==
    ASSUME NEW p \in Proc, NEW s, s.op \in {"acquire", "renew", "release"},
           s.epoch \in Nat, RowOK, Execute(p, s), lease.ttl > 0,
           ~(s.op = "release" /\ lease.holder = p /\ lease.epoch = s.epoch)
    PROVE  /\ lease'.holder = lease.holder /\ lease'.epoch = lease.epoch
           /\ lease'.ttl >= lease.ttl
<1>1. CASE ~Matches(p, s)
  BY <1>1 DEF Execute, RowOK
<1>2. CASE Matches(p, s)
  <2>1. s.op = "renew"
    BY <1>2 DEF Matches, Expired
  <2>2. lease' = [lease EXCEPT !.ttl = LeaseDuration]
    BY <1>2, <2>1 DEF Execute, RowAfter
  <2>3. lease.ttl \in Expired..LeaseDuration
    BY DEF RowOK
  <2>4. lease'.ttl = LeaseDuration /\ lease'.holder = lease.holder /\ lease'.epoch = lease.epoch
    BY <2>2 DEF RowOK
  <2>5. QED
    BY <2>3, <2>4, LeaseAssumption DEF Expired
<1>3. QED
  BY <1>1, <1>2

\* Initially no query and no orphaned statement exists, so no release does.
LEMMA InitReleases == Init => ReleasesAreFinal
  BY DEF Init, ReleasesAreFinal, NoQuery

\* What a query sent for p may add to the orphans: its own operation and epoch.
LEMMA LostStatements ==
    ASSUME NEW p \in Proc, NEW qs, NEW lost \in SUBSET Unexecuted(p, qs), NEW s \in lost
    PROVE  s.by = p /\ \E q \in qs : s.op = q.op /\ s.epoch = q.epoch
  BY DEF Unexecuted

\* A release is sent by a process that is stopping, and outlives only the
\* incarnation whose epoch it carries: the inductive step, one case per action.
LEMMA StepReleases == LeaseInv /\ [Next]_vars => ReleasesAreFinal'
<1> SUFFICES ASSUME LeaseInv, [Next]_vars PROVE ReleasesAreFinal'
  OBVIOUS
<1> USE DEF LeaseInv, FencingInv
<1>0. /\ RowOK
      /\ mode \in [Proc -> {"down", "up", "stopping", "ended"}]
      /\ epoch \in [Proc -> Nat]
      /\ \A p \in Proc : tick[p] \in Query /\ release[p] \in Query
      /\ tick \in [Proc -> Query] /\ release \in [Proc -> Query]
      /\ \A s \in orphans : s \in [by : Proc, op : {"acquire", "renew", "release"}, epoch : Nat]
  BY DEF TypeOK, RowOK
<1>no. NoQuery.op = "none" /\ NoQuery.epoch = 0 /\ ~NoQuery.answered
  BY DEF NoQuery
<1>1. ASSUME NEW p \in Proc, Start(p) PROVE ReleasesAreFinal'
  <2>1. mode' = [mode EXCEPT ![p] = "up"] /\ tick' = [tick EXCEPT ![p] = Sent("acquire", 0)]
    BY <1>1 DEF Start
  <2>2. epoch[p] = 0 /\ release[p].op = "none"
    BY <1>1 DEF Start, ReleasesAreFinal
  <2>3. Sent("acquire", 0).op = "acquire" /\ Sent("acquire", 0).epoch = 0
    BY DEF Sent
  <2>4. QED
    BY <1>0, <1>1, <2>1, <2>2, <2>3 DEF Start, ReleasesAreFinal
<1>2. ASSUME NEW p \in Proc, SendTick(p) PROVE ReleasesAreFinal'
  BY <1>0, <1>2 DEF SendTick, ReleasesAreFinal, Sent
<1>3. ASSUME NEW p \in Proc, ExecuteTick(p) PROVE ReleasesAreFinal'
  <2>0. mode[p] # "down"
    BY <1>3 DEF ExecuteTick, Pending, ReleasesAreFinal, NoQuery
  <2>1. tick[p].op \in {"acquire", "renew"} /\ tick[p].epoch \in Nat
    BY <1>0, <1>3 DEF ExecuteTick, Pending, ReleasesAreFinal, Query
  <2>2. Returned(p, tick[p]) \in {0, tick[p].epoch, Len(grants) + 1}
    <3>1. CASE ~Matches(p, tick[p])
      BY <3>1 DEF Returned
    <3>2. CASE Matches(p, tick[p]) /\ tick[p].op = "acquire"
      BY <3>2, <1>0 DEF Returned, RowAfter, RowOK, RowIsLastGrant
    <3>3. CASE Matches(p, tick[p]) /\ tick[p].op = "renew"
      <4>1. RowAfter(p, tick[p]).epoch = lease.epoch
        BY <3>3, <1>0 DEF RowAfter, RowOK
      <4>2. lease.epoch = tick[p].epoch
        BY <3>3 DEF Matches
      <4>3. QED
        BY <3>3, <4>1, <4>2 DEF Returned
    <3>4. QED
      BY <2>1, <3>1, <3>2, <3>3
  <2>3. \A q \in Proc : /\ tick'[q].op = tick[q].op
                        /\ q # p => tick'[q] = tick[q]
    BY <1>0, <1>3 DEF ExecuteTick, Query
  <2>4. tick'[p].epoch = Returned(p, tick[p])
    BY <1>0, <1>3 DEF ExecuteTick, Query
  <2>5. ASSUME NEW s \in orphans, s.op = "release", s.by = p, mode[p] = "up"
        PROVE  tick'[p].epoch # s.epoch
    <3>1. s.epoch # 0 /\ tick[p].epoch # s.epoch
      BY <2>5 DEF ReleasesAreFinal
    <3>2. s.epoch <= Len(grants)
      BY <3>1 DEF TokensGranted, GrantedTo
    <3>3. s.epoch \in Nat /\ Len(grants) \in Nat
      BY <1>0 DEF RowOK
    <3>4. QED
      BY <2>2, <2>4, <3>1, <3>2, <3>3
  <2>6. QED
    BY <1>0, <1>3, <2>0, <2>3, <2>5 DEF ExecuteTick, ReleasesAreFinal
<1>4. ASSUME NEW p \in Proc, AnswerTick(p) PROVE ReleasesAreFinal'
  <2>0. mode[p] # "down"
    BY <1>4 DEF AnswerTick, ReleasesAreFinal, NoQuery
  <2>1. epoch' = [epoch EXCEPT ![p] = tick[p].epoch] /\ tick' = [tick EXCEPT ![p] = NoQuery]
    BY <1>4 DEF AnswerTick, SetEpoch
  <2>2. QED
    BY <1>0, <1>no, <1>4, <2>0, <2>1 DEF AnswerTick, ReleasesAreFinal
<1>5. ASSUME NEW p \in Proc, FailTick(p) PROVE ReleasesAreFinal'
  <2>0. mode[p] # "down"
    BY <1>5 DEF FailTick, ReleasesAreFinal, NoQuery
  <2>1. epoch' = [epoch EXCEPT ![p] = 0] /\ tick' = [tick EXCEPT ![p] = NoQuery]
    BY <1>5 DEF FailTick, SetEpoch
  <2>2. PICK lost \in SUBSET Unexecuted(p, {tick[p]}) : orphans' = orphans \union lost
    BY <1>5 DEF FailTick
  <2>3. \A s \in lost : s.op # "release"
    BY <2>2, LostStatements DEF ReleasesAreFinal
  <2>4. QED
    BY <1>0, <1>no, <1>5, <2>0, <2>1, <2>2, <2>3 DEF FailTick, ReleasesAreFinal
<1>6. ASSUME NEW p \in Proc, Stop(p) PROVE ReleasesAreFinal'
  <2>1. \A q \in Proc : \/ release'[q] = release[q] /\ mode'[q] = mode[q]
                        \/ /\ q = p /\ mode'[p] = "stopping"
                           /\ release'[p].op = "release" /\ release'[p].epoch # 0
                        \/ q = p /\ mode'[p] = "ended" /\ release'[p] = release[p] /\ mode[p] = "up"
    BY <1>0, <1>6 DEF Stop, Sent, IsLeader
  <2>2. QED
    BY <1>0, <1>6, <2>1 DEF Stop, ReleasesAreFinal
<1>7. ASSUME NEW p \in Proc, ExecuteRelease(p) PROVE ReleasesAreFinal'
  <2>1. \A q \in Proc : release'[q].op = release[q].op /\ release'[q].epoch = release[q].epoch
    BY <1>0, <1>7 DEF ExecuteRelease, Query
  <2>2. QED
    BY <1>0, <1>7, <2>1 DEF ExecuteRelease, ReleasesAreFinal
<1>8. ASSUME NEW p \in Proc, AnswerRelease(p) PROVE ReleasesAreFinal'
  <2>1. epoch' = [epoch EXCEPT ![p] = 0] /\ release' = [release EXCEPT ![p] = NoQuery]
        /\ mode' = [mode EXCEPT ![p] = "ended"]
    BY <1>8 DEF AnswerRelease, SetEpoch
  <2>2. QED
    BY <1>0, <1>8, <2>1 DEF AnswerRelease, ReleasesAreFinal, NoQuery
<1>9. ASSUME NEW p \in Proc, FailRelease(p) PROVE ReleasesAreFinal'
  <2>1. PICK lost \in SUBSET Unexecuted(p, {release[p]}) : orphans' = orphans \union lost
    BY <1>9 DEF FailRelease
  <2>2. release[p].op = "release" /\ release[p].epoch # 0
    BY <1>9 DEF FailRelease, ReleasesAreFinal
  <2>3. \A s \in lost : s.by = p /\ s.epoch # 0
    BY <2>1, <2>2, LostStatements
  <2>4. mode' = [mode EXCEPT ![p] = "ended"] /\ release' = [release EXCEPT ![p] = NoQuery]
    BY <1>9 DEF FailRelease
  <2>5. QED
    BY <1>0, <1>9, <2>1, <2>3, <2>4 DEF FailRelease, ReleasesAreFinal, NoQuery
<1>10. ASSUME NEW p \in Proc, Exit(p) PROVE ReleasesAreFinal'
  BY <1>0, <1>10 DEF Exit, Forget, ReleasesAreFinal
<1>11. ASSUME NEW p \in Proc, Crash(p) PROVE ReleasesAreFinal'
  <2>1. PICK lost \in SUBSET Unexecuted(p, {tick[p], release[p]}) : orphans' = orphans \union lost
    BY <1>11 DEF Crash
  <2>2. \A s \in lost : s.by = p /\ (s.op = "release" => s.epoch # 0)
    BY <2>1, LostStatements DEF ReleasesAreFinal
  <2>3. /\ mode' = [mode EXCEPT ![p] = "down"] /\ epoch' = [epoch EXCEPT ![p] = 0]
        /\ tick' = [tick EXCEPT ![p] = NoQuery] /\ release' = [release EXCEPT ![p] = NoQuery]
    BY <1>11 DEF Crash, Forget
  <2>4. QED
    BY <1>0, <2>1, <2>2, <2>3 DEF ReleasesAreFinal, NoQuery
<1>12. ASSUME NEW s \in orphans, ExecuteOrphan(s) PROVE ReleasesAreFinal'
  BY <1>12 DEF ExecuteOrphan, ReleasesAreFinal
<1>13. ASSUME Elapse \/ UNCHANGED vars PROVE ReleasesAreFinal'
  BY <1>13 DEF Elapse, vars, ReleasesAreFinal
<1>14. QED
  BY <1>1, <1>2, <1>3, <1>4, <1>5, <1>6, <1>7, <1>8, <1>9, <1>10, <1>11, <1>12, <1>13 DEF Next

\* LeaseInv, the invariant the runs check, for every value of the constants.
THEOREM LeaseInvHolds == Spec => []LeaseInv
<1>1. Init => LeaseInv
  BY InitFencing, InitReleases DEF LeaseInv
<1>2. LeaseInv /\ [Next]_vars => LeaseInv'
  BY StepFencing, StepReleases DEF LeaseInv
<1>3. QED
  BY <1>1, <1>2, PTL DEF Spec

\* Nobody shortens or takes the lease of a running process that holds the
\* current epoch while time remains.
THEOREM CurrentLeaseRespectedHolds == Spec => CurrentLeaseRespected
<1> DEFINE Spared(p) ==
      mode[p] = "up" /\ IsLeader(p) /\ epoch[p] = lease.epoch /\ lease.ttl > 0
      => lease'.holder = p /\ lease'.epoch = lease.epoch /\ lease'.ttl >= lease.ttl - 1
<1>1. LeaseInv /\ [Next]_vars => \A p \in Proc : Spared(p)
  <2> SUFFICES ASSUME LeaseInv, [Next]_vars, NEW p \in Proc,
                      mode[p] = "up", epoch[p] # 0, epoch[p] = lease.epoch, lease.ttl > 0
               PROVE  lease'.holder = p /\ lease'.epoch = lease.epoch /\ lease'.ttl >= lease.ttl - 1
    BY DEF IsLeader
  <2> USE DEF LeaseInv, FencingInv
  <2>1. RowOK /\ lease.ttl \in Int
    BY DEF TypeOK, RowOK, Expired
  <2>2. lease.holder = p
    BY <2>1 DEF RowOK, RowIsLastGrant, TokensGranted, GrantedTo
  <2>3. ASSUME lease' = lease PROVE lease'.ttl >= lease.ttl - 1
    BY <2>1, <2>3
  <2>4. ASSUME NEW q \in Proc, NEW s, Execute(q, s), s.epoch \in Nat,
               s.op \in {"acquire", "renew", "release"},
               ~(s.op = "release" /\ p = q /\ epoch[p] = s.epoch)
        PROVE  lease'.holder = lease.holder /\ lease'.epoch = lease.epoch /\ lease'.ttl >= lease.ttl - 1
    <3>1. lease'.holder = lease.holder /\ lease'.epoch = lease.epoch /\ lease'.ttl >= lease.ttl
      BY <2>1, <2>2, <2>4, ExecuteSpares
    <3>2. lease'.ttl \in Int
      BY <2>1, <2>4, ExecuteGrants DEF RowOK, Expired
    <3>3. QED
      BY <2>1, <3>1, <3>2
  <2>5. ASSUME NEW q \in Proc, ExecuteTick(q)
        PROVE  lease'.holder = lease.holder /\ lease'.epoch = lease.epoch /\ lease'.ttl >= lease.ttl - 1
    <3>1. /\ Execute(q, tick[q]) /\ tick[q].epoch \in Nat
          /\ tick[q].op \in {"acquire", "renew"}
      BY <2>5 DEF ExecuteTick, Pending, TypeOK, Query, ReleasesAreFinal
    <3>2. QED
      BY <2>4, <3>1
  <2>6. ASSUME NEW q \in Proc, ExecuteRelease(q)
        PROVE  lease'.holder = lease.holder /\ lease'.epoch = lease.epoch /\ lease'.ttl >= lease.ttl - 1
    <3>1. /\ Execute(q, release[q]) /\ release[q].epoch \in Nat
          /\ release[q].op = "release" /\ mode[q] = "stopping"
      BY <2>6 DEF ExecuteRelease, Pending, TypeOK, Query, ReleasesAreFinal
    <3>2. QED
      BY <2>4, <3>1
  <2>7. ASSUME NEW s \in orphans, ExecuteOrphan(s)
        PROVE  lease'.holder = lease.holder /\ lease'.epoch = lease.epoch /\ lease'.ttl >= lease.ttl - 1
    <3>1. /\ Execute(s.by, s) /\ s.by \in Proc /\ s.epoch \in Nat
          /\ s.op \in {"acquire", "renew", "release"}
      BY <2>7 DEF ExecuteOrphan, TypeOK
    <3>2. ~(s.op = "release" /\ p = s.by /\ epoch[p] = s.epoch)
      BY DEF ReleasesAreFinal
    <3>3. QED
      BY <2>4, <3>1, <3>2
  <2>8. ASSUME Elapse
        PROVE  lease'.holder = lease.holder /\ lease'.epoch = lease.epoch /\ lease'.ttl >= lease.ttl - 1
    <3>1. lease' = [lease EXCEPT !.ttl = lease.ttl - 1]
      BY <2>8 DEF Elapse
    <3>2. lease'.holder = lease.holder /\ lease'.epoch = lease.epoch /\ lease'.ttl = lease.ttl - 1
      BY <2>1, <3>1 DEF RowOK
    <3>3. QED
      BY <2>1, <3>2
  <2>9. ASSUME NEW q \in Proc,
               \/ Start(q) \/ SendTick(q) \/ AnswerTick(q) \/ FailTick(q) \/ Stop(q)
               \/ AnswerRelease(q) \/ FailRelease(q) \/ Exit(q) \/ Crash(q)
        PROVE  lease' = lease
    BY <2>9 DEF Start, SendTick, AnswerTick, FailTick, Stop, AnswerRelease, FailRelease, Exit, Crash
  <2>10. CASE UNCHANGED vars
    BY <2>10, <2>2, <2>3 DEF vars
  <2>11. QED
    BY <2>2, <2>3, <2>5, <2>6, <2>7, <2>8, <2>9, <2>10 DEF Next
<1>2. QED
  BY <1>1, LeaseInvHolds, PTL DEF Spec, CurrentLeaseRespected

-----------------------------------------------------------------------------
\* #setEpoch tells the listeners whatever differs from what they were told.
LEMMA SetEpochAgrees ==
    ASSUME TypeOK, ListenersAgree, NEW p \in Proc, NEW e \in Nat, SetEpoch(p, e)
    PROVE  ListenersAgree'
PROOF
<1>1. epoch \in [Proc -> Nat] /\ told \in [Proc -> Nat \union {Never}]
  BY DEF TypeOK
<1>2. ASSUME NEW q \in Proc, told'[q] # Never PROVE told'[q] = epoch'[q]
  <2>1. CASE q = p
    BY <1>1, <1>2, <2>1 DEF SetEpoch, ListenersAgree
  <2>2. CASE q # p
    BY <1>1, <1>2, <2>2 DEF SetEpoch, ListenersAgree
  <2> QED
    BY <2>1, <2>2
<1> QED
  BY <1>2 DEF ListenersAgree

\* A process that is gone has told nobody anything.
LEMMA ForgetAgrees ==
    ASSUME TypeOK, ListenersAgree, NEW p \in Proc, Forget(p)
    PROVE  ListenersAgree'
BY DEF TypeOK, ListenersAgree, Forget

LEMMA StepAgrees == FencingInv /\ ListenersAgree /\ [Next]_vars => ListenersAgree'
PROOF
<1> SUFFICES ASSUME FencingInv, ListenersAgree, [Next]_vars PROVE ListenersAgree'
  OBVIOUS
<1>1. TypeOK
  BY DEF FencingInv
<1>2. ASSUME UNCHANGED <<epoch, told>> PROVE ListenersAgree'
  BY <1>2 DEF ListenersAgree
<1>3. ASSUME NEW p \in Proc, AnswerTick(p) PROVE ListenersAgree'
  <2>1. tick[p].epoch \in Nat
    BY <1>1 DEF TypeOK, Query
  <2> QED
    BY <1>1, <1>3, <2>1, SetEpochAgrees DEF AnswerTick
<1>4. ASSUME NEW p \in Proc, FailTick(p) \/ AnswerRelease(p) PROVE ListenersAgree'
  BY <1>1, <1>4, SetEpochAgrees DEF FailTick, AnswerRelease
<1>5. ASSUME NEW p \in Proc, Exit(p) \/ Crash(p) PROVE ListenersAgree'
  BY <1>1, <1>5, ForgetAgrees DEF Exit, Crash
<1>6. ASSUME NEW p \in Proc,
             \/ Start(p) \/ SendTick(p) \/ ExecuteTick(p)
             \/ Stop(p) \/ ExecuteRelease(p) \/ FailRelease(p)
      PROVE  ListenersAgree'
  BY <1>2, <1>6 DEF Start, SendTick, ExecuteTick, Stop, ExecuteRelease, FailRelease
<1>7. ASSUME (\E s \in orphans : ExecuteOrphan(s)) \/ Elapse \/ UNCHANGED vars
      PROVE  ListenersAgree'
  BY <1>2, <1>7 DEF ExecuteOrphan, Elapse, vars
<1> QED
  BY <1>3, <1>4, <1>5, <1>6, <1>7 DEF Next

\* What the listeners were told last is what the process believes, through answers,
\* failures, stops and restarts (lease-holder.ts:38-46 and #setEpoch).
THEOREM ListenersAgreeHolds == Spec => []ListenersAgree
PROOF
<1>1. Init => ListenersAgree
  BY DEF Init, ListenersAgree
<1> QED
  BY <1>1, StepAgrees, FencingHolds, PTL DEF Spec
=============================================================================
