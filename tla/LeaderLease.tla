----------------------------- MODULE LeaderLease ----------------------------
(***************************************************************************)
(* Leader election of ats-core: packages/leader-election (the lease row in *)
(* PostgreSQL and the LeaseHolder that competes for it) with the way       *)
(* services/ats-core/src/main.ts starts and stops a holder.                *)
(*                                                                         *)
(* A query is not one step: a process sends it, PostgreSQL executes it     *)
(* later, and the answer arrives later still or never.  Queries of one     *)
(* process run on different pool connections, so a release may overtake a  *)
(* renewal.  A query whose client has given up may still be executed.      *)
(*                                                                         *)
(* Time is the row's time to live: lease.ttl = expires_at - now(), in      *)
(* ticks, -1 standing for every past value (expires_at < now()).           *)
(***************************************************************************)
EXTENDS Integers, Sequences, FiniteSets

CONSTANTS Proc,          \* holder ids of the instances (ATS_INSTANCE_ID)
          NoProc,        \* the holder of a row that does not exist yet
          LeaseDuration, \* leaseDurationMs, in ticks
          MaxFaults      \* bound: crashes, stops, failed queries and late renewals

ASSUME LeaseAssumption == /\ NoProc \notin Proc
                          /\ LeaseDuration \in Nat \ {0}
                          /\ MaxFaults \in Nat

VARIABLES
    lease,    \* the row of leader_lease: holder, epoch (0: no row yet), ttl
    grants,   \* history: grants[e] is the holder epoch e was given to
    mode,     \* per process: "down", "up", "stopping" (stop() awaits), "ended"
    epoch,    \* LeaseHolder.#epoch, 0 for null
    told,     \* what onChange last reported, Never before the first report
    timer,    \* LeaseHolder.#timer is armed
    tick,     \* the query #tick awaits
    release,  \* the query stop() awaits
    orphans,  \* statements whose client is gone but which may still execute
    faults    \* how many of the MaxFaults disturbances have happened

vars == <<lease, grants, mode, epoch, told, timer, tick, release, orphans, faults>>

-----------------------------------------------------------------------------
Never == -1
Expired == -1

Query == [op : {"none", "acquire", "renew", "release"}, epoch : Nat, answered : BOOLEAN]
NoQuery == [op |-> "none", epoch |-> 0, answered |-> FALSE]
Sent(op, e) == [op |-> op, epoch |-> e, answered |-> FALSE]
Pending(q) == q.op # "none" /\ ~q.answered

\* LeaseHolder.isLeader(); the bus of an ended process is closed.
IsLeader(p) == epoch[p] # 0
Publishers == {p \in Proc : mode[p] \in {"up", "stopping"} /\ IsLeader(p)}

\* Mutant: release matches on the holder alone, so a release left over from an
\* earlier incarnation of the same holder id frees the new one's lease.
MutMatchesHolderOnly(p, s) ==
    CASE s.op = "acquire" -> lease.ttl = Expired
      [] s.op = "renew"   -> lease.holder = p /\ lease.epoch = s.epoch
      [] s.op = "release" -> lease.holder = p

\* Mutant: release deletes the row, so the next acquisition starts at epoch 1.
MutRowDeleted(p, s) ==
    CASE s.op = "acquire" -> [holder |-> p, epoch |-> lease.epoch + 1, ttl |-> LeaseDuration]
      [] s.op = "renew"   -> [lease EXCEPT !.ttl = LeaseDuration]
      [] s.op = "release" -> [holder |-> NoProc, epoch |-> 0, ttl |-> Expired]

\* Mutant: a holder that reconquers its own expired lease keeps its epoch.
MutRowContinuous(p, s) ==
    CASE s.op = "acquire" -> [holder |-> p, ttl |-> LeaseDuration,
                              epoch |-> IF lease.holder = p THEN lease.epoch ELSE lease.epoch + 1]
      [] s.op = "renew"   -> [lease EXCEPT !.ttl = LeaseDuration]
      [] s.op = "release" -> [lease EXCEPT !.ttl = 0]

\* The WHERE clause of each statement, and the row it leaves behind.
Matches(p, s) ==
    IF s.op = "acquire" THEN lease.ttl = Expired
                        ELSE lease.holder = p /\ lease.epoch = s.epoch

RowAfter(p, s) ==
    CASE s.op = "acquire" -> [holder |-> p, epoch |-> lease.epoch + 1, ttl |-> LeaseDuration]
      [] s.op = "renew"   -> [lease EXCEPT !.ttl = LeaseDuration]
      [] s.op = "release" -> [lease EXCEPT !.ttl = 0]

\* PostgreSQL executes statement s of process p: one atomic statement.
Execute(p, s) ==
    IF Matches(p, s)
    THEN /\ lease' = RowAfter(p, s)
         /\ grants' = IF s.op = "acquire" THEN Append(grants, p) ELSE grants
    ELSE UNCHANGED <<lease, grants>>

\* Mutant: the epoch is read from the row whether or not the statement matched.
MutReturnedCurrent(p, s) == IF Matches(p, s) THEN RowAfter(p, s).epoch ELSE lease.epoch

\* RETURNING epoch, 0 when no row matched.
Returned(p, s) == IF Matches(p, s) THEN RowAfter(p, s).epoch ELSE 0

\* Mutant: only a change is notified (the bug docs/HA.md:94-104 tells of).
MutSetEpochOnChange(p, next) ==
    /\ epoch' = [epoch EXCEPT ![p] = next]
    /\ told' = IF next # epoch[p] THEN [told EXCEPT ![p] = next] ELSE told

\* #setEpoch: listeners hear a change, and the first evaluation always.
SetEpoch(p, next) ==
    LET changed == next # epoch[p] \/ told[p] = Never
    IN /\ epoch' = [epoch EXCEPT ![p] = next]
       /\ told' = IF changed THEN [told EXCEPT ![p] = next] ELSE told

\* The process is gone, and what it knew with it.
Forget(p) ==
    /\ epoch' = [epoch EXCEPT ![p] = 0]
    /\ told' = [told EXCEPT ![p] = Never]

Fault == faults < MaxFaults /\ faults' = faults + 1

\* The statements of p that PostgreSQL has not executed yet.
Unexecuted(p, qs) == {[by |-> p, op |-> q.op, epoch |-> q.epoch] : q \in {q \in qs : Pending(q)}}

-----------------------------------------------------------------------------
Init ==
    /\ lease = [holder |-> NoProc, epoch |-> 0, ttl |-> Expired]
    /\ grants = <<>>
    /\ mode = [p \in Proc |-> "down"]
    /\ epoch = [p \in Proc |-> 0]
    /\ told = [p \in Proc |-> Never]
    /\ timer = [p \in Proc |-> FALSE]
    /\ tick = [p \in Proc |-> NoQuery]
    /\ release = [p \in Proc |-> NoQuery]
    /\ orphans = {}
    /\ faults = 0

\* A fresh process: start() runs #tick up to its first tryAcquire.
Start(p) ==
    /\ mode[p] = "down"
    /\ mode' = [mode EXCEPT ![p] = "up"]
    /\ tick' = [tick EXCEPT ![p] = Sent("acquire", 0)]
    /\ UNCHANGED <<lease, grants, epoch, told, timer, release, orphans, faults>>

\* The timer fires: #tick renews when leader, tries to acquire otherwise.
SendTick(p) ==
    /\ mode[p] = "up" /\ timer[p]
    /\ timer' = [timer EXCEPT ![p] = FALSE]
    /\ tick' = [tick EXCEPT ![p] = IF IsLeader(p) THEN Sent("renew", epoch[p])
                                                  ELSE Sent("acquire", 0)]
    /\ UNCHANGED <<lease, grants, mode, epoch, told, release, orphans, faults>>

ExecuteTick(p) ==
    /\ Pending(tick[p])
    /\ Execute(p, tick[p])
    /\ tick' = [tick EXCEPT ![p].epoch = Returned(p, tick[p]), ![p].answered = TRUE]
    /\ UNCHANGED <<mode, epoch, told, timer, release, orphans, faults>>

\* Mutant: a renewal that matched no row is retried instead of giving up.
MutAnswerTickHopeful(p) ==
    /\ tick[p].answered
    /\ SetEpoch(p, IF tick[p].epoch = 0 THEN epoch[p] ELSE tick[p].epoch)
    /\ timer' = [timer EXCEPT ![p] = mode[p] = "up"]
    /\ tick' = [tick EXCEPT ![p] = NoQuery]
    /\ UNCHANGED <<lease, grants, mode, release, orphans, faults>>

\* Mutant: the timer is re-armed for a leader only; a standby never retries.
MutAnswerTickNoRetry(p) ==
    /\ tick[p].answered
    /\ SetEpoch(p, tick[p].epoch)
    /\ timer' = [timer EXCEPT ![p] = mode[p] = "up" /\ tick[p].epoch # 0]
    /\ tick' = [tick EXCEPT ![p] = NoQuery]
    /\ UNCHANGED <<lease, grants, mode, release, orphans, faults>>

\* The answer arrives: #tick adopts it and, unless stopped, re-arms its timer.
AnswerTick(p) ==
    /\ tick[p].answered
    /\ SetEpoch(p, tick[p].epoch)
    /\ timer' = [timer EXCEPT ![p] = mode[p] = "up"]
    /\ tick' = [tick EXCEPT ![p] = NoQuery]
    /\ UNCHANGED <<lease, grants, mode, release, orphans, faults>>

\* The await rejects (connection lost): the catch of #tick gives leadership
\* up.  A statement not executed yet may or may not still be.
FailTick(p) ==
    /\ tick[p].op # "none" /\ Fault
    /\ SetEpoch(p, 0)
    /\ timer' = [timer EXCEPT ![p] = mode[p] = "up"]
    /\ \E lost \in SUBSET Unexecuted(p, {tick[p]}) : orphans' = orphans \union lost
    /\ tick' = [tick EXCEPT ![p] = NoQuery]
    /\ UNCHANGED <<lease, grants, mode, release>>

\* SIGTERM or SIGINT: stop() releases the lease the process believes it has.
Stop(p) ==
    /\ mode[p] = "up" /\ Fault
    /\ timer' = [timer EXCEPT ![p] = FALSE]
    /\ mode' = [mode EXCEPT ![p] = IF IsLeader(p) THEN "stopping" ELSE "ended"]
    /\ release' = IF IsLeader(p) THEN [release EXCEPT ![p] = Sent("release", epoch[p])]
                                 ELSE release
    /\ UNCHANGED <<lease, grants, epoch, told, tick, orphans>>

ExecuteRelease(p) ==
    /\ Pending(release[p])
    /\ Execute(p, release[p])
    /\ release' = [release EXCEPT ![p].answered = TRUE]
    /\ UNCHANGED <<mode, epoch, told, timer, tick, orphans, faults>>

AnswerRelease(p) ==
    /\ release[p].answered
    /\ SetEpoch(p, 0)
    /\ release' = [release EXCEPT ![p] = NoQuery]
    /\ mode' = [mode EXCEPT ![p] = "ended"]
    /\ UNCHANGED <<lease, grants, timer, tick, orphans, faults>>

\* stop() rejects: #epoch stays, and the finally of main.ts ends the process.
FailRelease(p) ==
    /\ release[p].op # "none" /\ Fault
    /\ \E lost \in SUBSET Unexecuted(p, {release[p]}) : orphans' = orphans \union lost
    /\ release' = [release EXCEPT ![p] = NoQuery]
    /\ mode' = [mode EXCEPT ![p] = "ended"]
    /\ UNCHANGED <<lease, grants, epoch, told, timer, tick>>

\* dbPool.end() waits for the query still running, then the process exits.
Exit(p) ==
    /\ mode[p] = "ended" /\ tick[p] = NoQuery
    /\ mode' = [mode EXCEPT ![p] = "down"]
    /\ Forget(p)
    /\ UNCHANGED <<lease, grants, timer, tick, release, orphans, faults>>

\* kill -9: the memory of the process is gone, its sent statements may execute.
Crash(p) ==
    /\ mode[p] # "down" /\ Fault
    /\ \E lost \in SUBSET Unexecuted(p, {tick[p], release[p]}) : orphans' = orphans \union lost
    /\ mode' = [mode EXCEPT ![p] = "down"]
    /\ Forget(p)
    /\ timer' = [timer EXCEPT ![p] = FALSE]
    /\ tick' = [tick EXCEPT ![p] = NoQuery]
    /\ release' = [release EXCEPT ![p] = NoQuery]
    /\ UNCHANGED <<lease, grants>>

ExecuteOrphan(s) ==
    /\ s \in orphans
    /\ Execute(s.by, s)
    /\ orphans' = orphans \ {s}
    /\ UNCHANGED <<mode, epoch, told, timer, tick, release, faults>>

\* The process the row names is running and knows, or is about to learn, so.
HolderAware(p) ==
    /\ lease.holder = p /\ mode[p] = "up"
    /\ epoch[p] = lease.epoch \/ (tick[p].answered /\ tick[p].epoch = lease.epoch)

\* now() advances.  A lease running out under a process that is aware of it
\* (a pause, a partition, a hung query) is a disturbance and is counted.
Elapse ==
    /\ lease.ttl # Expired
    /\ lease' = [lease EXCEPT !.ttl = @ - 1]
    /\ IF lease.ttl = 0 /\ \E p \in Proc : HolderAware(p) THEN Fault ELSE UNCHANGED faults
    /\ UNCHANGED <<grants, mode, epoch, told, timer, tick, release, orphans>>

Next ==
    \/ \E p \in Proc :
         \/ Start(p) \/ SendTick(p) \/ ExecuteTick(p) \/ AnswerTick(p) \/ FailTick(p)
         \/ Stop(p) \/ ExecuteRelease(p) \/ AnswerRelease(p) \/ FailRelease(p)
         \/ Exit(p) \/ Crash(p)
    \/ \E s \in orphans : ExecuteOrphan(s)
    \/ Elapse

Spec == Init /\ [][Next]_vars

\* Time passes, timers fire, PostgreSQL executes what it was sent and answers.
\* Nothing forces a process to start, stop, crash or fail.
Fairness ==
    /\ WF_vars(Elapse)
    /\ \A p \in Proc : /\ WF_vars(SendTick(p))
                       /\ WF_vars(ExecuteTick(p)) /\ WF_vars(AnswerTick(p))
                       /\ WF_vars(ExecuteRelease(p)) /\ WF_vars(AnswerRelease(p))
                       /\ WF_vars(Exit(p))

FairSpec == Spec /\ Fairness

-----------------------------------------------------------------------------
TypeOK ==
    /\ lease \in [holder : Proc \union {NoProc}, epoch : Nat, ttl : Expired..LeaseDuration]
    /\ grants \in Seq(Proc)
    /\ mode \in [Proc -> {"down", "up", "stopping", "ended"}]
    /\ epoch \in [Proc -> Nat]
    /\ told \in [Proc -> Nat \union {Never}]
    /\ timer \in [Proc -> BOOLEAN]
    /\ tick \in [Proc -> Query]
    /\ release \in [Proc -> Query]
    /\ orphans \subseteq [by : Proc, op : {"acquire", "renew", "release"}, epoch : Nat]
    /\ faults \in Nat

\* The row is the last grant, and there is no holder before the first.
RowIsLastGrant ==
    /\ lease.epoch = Len(grants)
    /\ lease.holder = IF grants = <<>> THEN NoProc ELSE grants[Len(grants)]

\* Every epoch a process, a query or an orphaned statement carries was
\* granted to that process.
GrantedTo(p, e) == e # 0 => e <= Len(grants) /\ grants[e] = p
TokensGranted ==
    /\ \A p \in Proc : /\ GrantedTo(p, epoch[p])
                       /\ GrantedTo(p, tick[p].epoch)
                       /\ GrantedTo(p, release[p].epoch)
    /\ \A s \in orphans : GrantedTo(s.by, s.epoch)

\* The inductive invariant behind fencing: type, row and tokens.
FencingInv == TypeOK /\ RowIsLastGrant /\ TokensGranted

\* Only stop() sends a release and only #tick the rest; a release that may
\* still execute carries an epoch its process does not live under any more.
ReleasesAreFinal ==
    /\ \A p \in Proc :
         /\ tick[p].op # "release"
         /\ release[p].op \in {"none", "release"}
         /\ release[p].op = "release" => mode[p] = "stopping" /\ release[p].epoch # 0
         /\ mode[p] = "down" => epoch[p] = 0 /\ tick[p] = NoQuery
    /\ \A s \in orphans :
         s.op = "release" =>
            /\ s.epoch # 0
            /\ mode[s.by] = "up" => epoch[s.by] # s.epoch /\ tick[s.by].epoch # s.epoch

LeaseInv == FencingInv /\ ReleasesAreFinal

-----------------------------------------------------------------------------
\* tests/leader-election.test.ts:9-13, "NUNCA dois processos podem se achar
\* lider com o mesmo epoch valido ao mesmo tempo": two processes that both
\* believe they lead never do so under one epoch, whatever crashed, was
\* delayed or was executed after its client had gone.
NoSharedEpoch ==
    \A p, q \in Proc : p # q /\ IsLeader(p) /\ IsLeader(q) => epoch[p] # epoch[q]

\* election.ts:13-16, the fencing promise itself: the code implements the
\* abstract FencedRole, in which an epoch is issued once, to one process, and
\* nobody acts under an epoch that was not issued to it.
Fenced == INSTANCE FencedRole WITH owner <- grants, token <- epoch
ImplementsFencedRole == Fenced!FencedSpec

\* election.ts:73-77 and :96-101: nothing cuts short or takes over the lease of
\* a process that runs and holds the current epoch while time remains - not a
\* rival, a deposed leader, nor a release or renewal left over from an earlier
\* incarnation that used the same holder id.
CurrentLeaseRespected ==
    [][\A p \in Proc :
         mode[p] = "up" /\ IsLeader(p) /\ epoch[p] = lease.epoch /\ lease.ttl > 0
         => lease'.holder = p /\ lease'.epoch = lease.epoch /\ lease'.ttl >= lease.ttl - 1]_vars

\* lease-holder.ts:38-46 (a bug once, docs/HA.md:94-104): a process that stays up is
\* told whether it leads, even when it starts in standby and stays there; and what
\* its listeners were told last is the truth - the services that stop publishing on
\* onChange never act on an epoch the holder has already lost.
ListenersAgree == \A p \in Proc : told[p] # Never => told[p] = epoch[p]
FirstEvaluationTold ==
    /\ []ListenersAgree
    /\ \A p \in Proc : mode[p] = "up" ~> told[p] # Never \/ mode[p] # "up"

\* lease-holder.ts:96-99: a process that acts under an epoch another process
\* has superseded stops doing so.
DeposedLearns ==
    \A p \in Proc : p \in Publishers /\ epoch[p] < lease.epoch
                     ~> ~(p \in Publishers /\ epoch[p] < lease.epoch)

\* docs/HA.md:83, failover: once disturbances cease, the role settles on exactly
\* one publisher for good, unless no process is left running.
Settles == <>[](Cardinality(Publishers) = 1) \/ <>[](\A p \in Proc : mode[p] # "up")

-----------------------------------------------------------------------------
\* What the documentation claims and the code does not provide.

\* docs/HA.md:16-18: "com a garantia de que exatamente uma publica qualquer
\* decisao no barramento a qualquer momento" - at most one process would pass
\* the check of publishAsLeader.
AtMostOnePublisher == Cardinality(Publishers) <= 1

\* main.ts:374-377, "Desligamento gracioso: libera o lease imediatamente": when
\* stop() has completed, no lease with time left names the stopped process.
StopFreesLease ==
    \A p \in Proc : mode[p] = "ended" => lease.holder # p \/ lease.ttl <= 0
=============================================================================
