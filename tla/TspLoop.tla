------------------------------ MODULE TspLoop ------------------------------
(***************************************************************************)
(* Transit signal priority closed over the controller of one crossing:     *)
(* services/ats-core/src/tsp.ts with the handlers of main.ts that feed it, *)
(* run by every replica of ats-core, and the message handler and the timer *)
(* of services/ntcip-emulator/src/main.ts around SignalController.         *)
(*                                                                         *)
(* A position is what evaluate() reads of it: whether its section ends at  *)
(* the crossing, the ETA in seconds, the delay and the integrity class of  *)
(* the envelope.  A request is its strategy; an answer only matters by     *)
(* arriving.  The controller publishes its state after every tick and      *)
(* every request, so the last state published is the state it is in: a     *)
(* replica that lags is one that has not received it yet.                  *)
(*                                                                         *)
(* isLeader() looks at the epoch a replica adopted last, and the           *)
(* controller at no epoch: a leader that is paused or about to stop and    *)
(* its successor both publish (LeaderLease).  Here replicas take up and    *)
(* lose the lead in any order, any number of them at a time.               *)
(***************************************************************************)
EXTENDS Integers, Sequences, FiniteSets

CONSTANTS Instance,      \* the replicas of ats-core
          Positions,     \* the position reports that may arrive
          MinDelay,      \* MIN_DELAY_FOR_PRIORITY_S
          Horizon,       \* REQUEST_HORIZON_S
          TruncationEta, \* the ETA below which the cross phase is cut short
          Margin,        \* GREEN_MARGIN_S
          Debounce,      \* REQUEST_DEBOUNCE_MS, in seconds
          MaxRequests,   \* bound: requests on their way to the controller
          MaxAnswers,    \* bound: answers on their way to a replica
          MaxInherited,  \* bound on inherited
          Plan, Dt, MaxExtension  \* of the controller

Strategy == {"phase_call", "green_extension", "red_truncation"}
Class == {"basic", "sil2", "sil4"}

ASSUME TspAssumption ==
    /\ Positions \subseteq [crossing : BOOLEAN, eta : Int, delay : Int, class : Class]
    /\ Debounce \in Nat \ {0}
    /\ {MinDelay, Horizon, TruncationEta, Margin} \subseteq Nat
    /\ {MaxRequests, MaxAnswers, MaxInherited} \subseteq Nat \ {0}

VARIABLES
    leaders,    \* the replicas that hold an epoch and so publish
    feedback,   \* [Instance -> the last crossing state observed, or none]
    flight,     \* [Instance -> seconds since #inFlight was set; Debounce: none that counts]
    inhibited,  \* [Instance -> whether the crossing is in #inhibited]
    requests,   \* priority requests on their way, in order
    answers,    \* [Instance -> grant messages on their way to it]
    inherited,  \* history: what was under way when one replica came to publish
                \* alone, and one more each time its gate reopened before the
                \* answer came; 0 while none or several publish
    activePhase, color, elapsed, grantedExtension, pendingCall, pendingForceOff,
    clearance, promised   \* of the controller

signalVars == <<activePhase, color, elapsed, grantedExtension, pendingCall,
                pendingForceOff, clearance, promised>>
busVars == <<requests, answers>>
atsVars == <<leaders, feedback, flight, inhibited, inherited>>
vars == <<atsVars, busVars, signalVars>>

Signal == INSTANCE SignalController
            WITH Requested <- {1}, Strategies <- Strategy

\* The state a controller publishes, as far as evaluate() tells states apart:
\* a green further off than any ETA it considers is simply far.
NoFeedback == [vltGreen |-> FALSE, wait |-> -1]

CrossingState ==
    [vltGreen |-> activePhase = Signal!VltPhase /\ color = "green",
     wait |-> Signal!Smaller(Signal!SecondsUntilGreen(Signal!VltPhase), Horizon + Margin + 1)]

UnderWay(i) == Len(requests) + answers[i]
GateOpen(i) == flight[i] = Debounce

\* What inherited starts from when the replicas in S come to publish.
Inheritance(S) == IF \E i \in S : S = {i} THEN UnderWay(CHOOSE i \in S : TRUE) ELSE 0

-----------------------------------------------------------------------------
\* SafetyGuard.authorize("grant_tsp_request", class): permission for movement
\* is not given on evidence of basic integrity.
Rank == [basic |-> 0, sil2 |-> 1, sil4 |-> 2]
Authorized(class) == Rank[class] >= Rank["sil2"]

\* Mutant: a request in flight does not keep others back.
MutEligibleNoGate(i, pos) ==
    /\ pos.crossing
    /\ ~inhibited[i]
    /\ pos.delay >= MinDelay
    /\ pos.eta <= Horizon
    /\ feedback[i] # NoFeedback => feedback[i].wait > pos.eta + Margin
    /\ Authorized(pos.class)

\* Mutant: a suspended crossing is asked all the same.
MutEligibleInhibited(i, pos) ==
    /\ pos.crossing
    /\ GateOpen(i)
    /\ pos.delay >= MinDelay
    /\ pos.eta <= Horizon
    /\ feedback[i] # NoFeedback => feedback[i].wait > pos.eta + Margin
    /\ Authorized(pos.class)

\* Mutant: no feedback is waited for, the controller sorts it out.
MutEligibleOpenLoop(i, pos) ==
    /\ pos.crossing
    /\ ~inhibited[i]
    /\ GateOpen(i)
    /\ pos.delay >= MinDelay
    /\ pos.eta <= Horizon
    /\ Authorized(pos.class)

\* TspController.evaluate: every reason not to ask, in the negative.
Eligible(i, pos) ==
    /\ pos.crossing
    /\ ~inhibited[i]
    /\ GateOpen(i)
    /\ pos.delay >= MinDelay
    /\ pos.eta <= Horizon
    /\ feedback[i] # NoFeedback => feedback[i].wait > pos.eta + Margin
    /\ Authorized(pos.class)

StrategyFor(i, pos) ==
    IF feedback[i].vltGreen THEN "green_extension"
    ELSE IF pos.eta < TruncationEta THEN "red_truncation" ELSE "phase_call"

Init ==
    /\ leaders = {}
    /\ feedback = [i \in Instance |-> NoFeedback]
    /\ flight = [i \in Instance |-> Debounce]
    /\ inhibited = [i \in Instance |-> FALSE]
    /\ requests = <<>>
    /\ answers = [i \in Instance |-> 0]
    /\ inherited = 0
    /\ Signal!Init

\* onPosition when evaluate decides to ask: the gate closes in every replica
\* that decides so, the request goes out from those that lead.  The ETA is
\* negative when the chainage is past the end of the section.
OnPosition(i, pos) ==
    /\ Eligible(i, pos)
    /\ i \in leaders => Len(requests) < MaxRequests
    /\ flight' = [flight EXCEPT ![i] = 0]
    /\ requests' = IF i \in leaders THEN Append(requests, StrategyFor(i, pos)) ELSE requests
    /\ UNCHANGED <<leaders, feedback, inhibited, answers, inherited, signalVars>>

\* onCrossingState.
OnCrossingState(i) ==
    /\ feedback' = [feedback EXCEPT ![i] = CrossingState]
    /\ UNCHANGED <<leaders, flight, inhibited, inherited, busVars, signalVars>>

\* onGrantResult: recordOutcome forgets the request in flight, whichever
\* request the answer is to.
OnGrantResult(i) ==
    /\ answers[i] > 0
    /\ answers' = [answers EXCEPT ![i] = @ - 1]
    /\ flight' = [flight EXCEPT ![i] = Debounce]
    /\ UNCHANGED <<leaders, feedback, inhibited, inherited, requests, signalVars>>

\* A replica that reconnects with a clean session misses an answer.
LoseAnswer(i) ==
    /\ answers[i] > 0
    /\ answers' = [answers EXCEPT ![i] = @ - 1]
    /\ UNCHANGED <<atsVars, requests, signalVars>>

\* inhibit (revoking is allowed to evidence of any class) and release, as the
\* intrusion handler of each replica calls them.
Inhibit(i) ==
    /\ ~inhibited[i]
    /\ inhibited' = [inhibited EXCEPT ![i] = TRUE]
    /\ UNCHANGED <<leaders, feedback, flight, inherited, busVars, signalVars>>

Release(i) ==
    /\ inhibited[i]
    /\ inhibited' = [inhibited EXCEPT ![i] = FALSE]
    /\ UNCHANGED <<leaders, feedback, flight, inherited, busVars, signalVars>>

\* The replica adopts an epoch, or learns that its own is over; others may
\* still publish under theirs.
Lead(i) ==
    /\ i \notin leaders
    /\ leaders' = leaders \union {i}
    /\ inherited' = Inheritance(leaders')
    /\ UNCHANGED <<feedback, flight, inhibited, busVars, signalVars>>

Standby(i) ==
    /\ i \in leaders
    /\ leaders' = leaders \ {i}
    /\ inherited' = Inheritance(leaders')
    /\ UNCHANGED <<feedback, flight, inhibited, busVars, signalVars>>

\* The process dies and comes back with a clean session and an empty memory.
Restart(i) ==
    /\ leaders' = leaders \ {i}
    /\ inherited' = IF i \in leaders THEN Inheritance(leaders') ELSE inherited
    /\ feedback' = [feedback EXCEPT ![i] = NoFeedback]
    /\ flight' = [flight EXCEPT ![i] = Debounce]
    /\ inhibited' = [inhibited EXCEPT ![i] = FALSE]
    /\ answers' = [answers EXCEPT ![i] = 0]
    /\ UNCHANGED <<requests, signalVars>>

-----------------------------------------------------------------------------
\* applyPriorityRequest: a request its strategy's guard refuses changes nothing.
Refused(strategy) ==
    CASE strategy = "green_extension" ->
            ~(CrossingState.vltGreen /\ Signal!Room > 0)
      [] strategy = "red_truncation" -> activePhase = Signal!VltPhase
      [] strategy = "phase_call" -> CrossingState.vltGreen

Apply(strategy) ==
    CASE strategy = "green_extension" -> Signal!GreenExtension(Signal!VltPhase)
      [] strategy = "red_truncation"  -> Signal!RedTruncation(Signal!VltPhase)
      [] strategy = "phase_call"      -> Signal!PhaseCall(Signal!VltPhase)

\* The controller's message handler: granted or not, a request is answered to
\* every replica.
OnPriorityRequest ==
    /\ requests # <<>>
    /\ \A i \in Instance : answers[i] < MaxAnswers
    /\ requests' = Tail(requests)
    /\ answers' = [i \in Instance |-> answers[i] + 1]
    /\ IF Refused(Head(requests)) THEN UNCHANGED signalVars ELSE Apply(Head(requests))
    /\ UNCHANGED atsVars

\* The one that publishes alone has its gate reopen in this second with more
\* under way than it found.
Late == \E i \in Instance : /\ leaders = {i}
                           /\ flight[i] = Debounce - 1
                           /\ UnderWay(i) > inherited

\* A second passes: setInterval ticks the controller, every gate grows older.
Second ==
    /\ Late => inherited < MaxInherited
    /\ Signal!Tick
    /\ flight' = [i \in Instance |-> Signal!Smaller(flight[i] + 1, Debounce)]
    /\ inherited' = IF Late THEN inherited + 1 ELSE inherited
    /\ UNCHANGED <<leaders, feedback, inhibited, busVars>>

Next ==
    \/ \E i \in Instance :
        \/ \E pos \in Positions : OnPosition(i, pos)
        \/ OnCrossingState(i) \/ OnGrantResult(i) \/ LoseAnswer(i)
        \/ Inhibit(i) \/ Release(i) \/ Lead(i) \/ Standby(i) \/ Restart(i)
    \/ OnPriorityRequest \/ Second

Spec == Init /\ [][Next]_vars

\* setInterval ticks the controller; the broker delivers what waits for a
\* connected subscriber, the controller or a replica.
FairSpec ==
    /\ Spec
    /\ WF_vars(Second) /\ WF_vars(OnPriorityRequest)
    /\ \A i \in Instance : WF_vars(OnGrantResult(i))

-----------------------------------------------------------------------------
TypeOK ==
    /\ leaders \subseteq Instance
    /\ flight \in [Instance -> 0..Debounce]
    /\ inhibited \in [Instance -> BOOLEAN]
    /\ requests \in Seq(Strategy)
    /\ answers \in [Instance -> Nat]
    /\ inherited \in Nat

\* tsp.ts:149-154, "sem ele o TSP nao converge": the gate keeps requests from
\* piling up.  However answers are delayed or lost and whoever publishes, a
\* replica that publishes alone has at most one request under way beyond those
\* it found when it came to and those whose answers came after its gate had
\* reopened.  Two that publish are held back by no such bound: an answer to
\* either reopens the gates of both.
RequestsBounded ==
    \A i \in Instance :
        leaders = {i} =>
            /\ UnderWay(i) <= inherited + 1
            /\ GateOpen(i) => UnderWay(i) <= inherited

\* The inductive invariant.
TspInv == TypeOK /\ RequestsBounded

\* tsp.ts:193-195: what the controller would refuse is not worth asking.  A
\* request for a train that is not past the crossing, made on feedback that is
\* not out of date, is not refused, but for a truncation asked in the
\* clearance of the VLT's own phase.
FreshRequestsAccepted ==
    [][requests = <<>> /\ requests' # <<>> =>
         \A i \in leaders, pos \in Positions :
            OnPosition(i, pos) /\ pos.eta + Margin >= 0 /\ feedback[i] = CrossingState
            => \/ ~Refused(Head(requests'))
               \/ activePhase = Signal!VltPhase /\ color # "green"]_vars

\* tsp.ts:107-112: priority is suspended while an incident is open.  Once every
\* replica that publishes knows of it, what had been asked before runs out: in
\* the end no request is on its way, and no call, force-off or extension is
\* left in the controller, which is back to its own plan.
PlanResumes ==
    <>[](\A i \in leaders : inhibited[i])
    => <>[](/\ requests = <<>>
            /\ pendingCall = Signal!NoPhase /\ ~pendingForceOff
            /\ grantedExtension = 0)

\* Violated: services/historian/src/main.ts:91-93, "o debounce do ats-core
\* (services/ats-core/src/tsp.ts) ja impede mais de um pedido em voo por
\* cruzamento ao mesmo tempo", on which it pairs a request with its answer.
\* Each replica's gate holds back that replica alone.
OneInFlight == Len(requests) <= 1

\* What is left of the green that is on.
GreenLeft == Signal!Smaller(Signal!cfg.splitGreen + grantedExtension, Signal!cfg.maxGreen) - elapsed

\* Violated: tsp.ts:20, "green_extension - esticar o verde ja ativo para o VLT
\* concluir a travessia", and tests/ntcip.test.ts:153-154, "fase do VLT ja
\* verde deve pedir extensao".  A late train that would find the green just
\* over, of a crossing known to show it and to have room for more, has nothing
\* asked for it: the controller forecasts 0 seconds while the VLT has its
\* green, which evaluate() takes for a green that comes in time.
ExtensionAsked ==
    \A i \in Instance, pos \in Positions :
        /\ pos.crossing /\ pos.delay >= MinDelay /\ Authorized(pos.class)
        /\ ~inhibited[i] /\ GateOpen(i)
        /\ feedback[i] = CrossingState /\ CrossingState.vltGreen /\ Signal!Room > 0
        /\ pos.eta >= GreenLeft /\ pos.eta <= Horizon
        => Eligible(i, pos) /\ StrategyFor(i, pos) = "green_extension"
=============================================================================
