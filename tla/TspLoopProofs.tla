--------------------------- MODULE TspLoopProofs ---------------------------
(***************************************************************************)
(* The gate of TspController bounds what is under way, for any number of   *)
(* replicas, any debounce and any plan of the controller.                  *)
(***************************************************************************)
EXTENDS TspLoop, SequenceTheorems, TLAPS

LEMMA InitInv == Init => TspInv
  <1> SUFFICES ASSUME Init PROVE TspInv
    OBVIOUS
  <1>1. TypeOK
    BY TspAssumption DEF Init, TypeOK
  <1>2. RequestsBounded
    BY TspAssumption DEF Init, RequestsBounded
  <1> QED
    BY <1>1, <1>2 DEF TspInv

\* What a replica inherits when it comes to publish alone.
LEMMA InheritanceFacts ==
  ASSUME TypeOK, NEW S \in SUBSET Instance
  PROVE  /\ Inheritance(S) \in Nat
         /\ \A i \in Instance : S = {i} => Inheritance(S) = UnderWay(i)
  <1>1. \A i \in Instance : UnderWay(i) \in Nat
    BY DEF TypeOK, UnderWay
  <1>2. ASSUME NEW i \in Instance, S = {i} PROVE Inheritance(S) = UnderWay(i)
    <2>1. (CHOOSE j \in S : TRUE) = i
      BY <1>2
    <2> QED
      BY <1>2, <2>1 DEF Inheritance
  <1> QED
    BY <1>1, <1>2 DEF Inheritance

\* Whoever comes to publish, or ceases to, the one left alone starts within
\* its bound.
LEMMA LeadChangeInv ==
  ASSUME TspInv, NEW S \in SUBSET Instance, leaders' = S, inherited' = Inheritance(S),
         UNCHANGED <<flight, inhibited, busVars>>
  PROVE  TspInv'
  <1> USE DEF TspInv
  <1>1. /\ Inheritance(S) \in Nat
        /\ \A i \in Instance : S = {i} => Inheritance(S) = UnderWay(i)
    BY InheritanceFacts
  <1>2. TypeOK'
    BY <1>1 DEF TypeOK, busVars
  <1>3. \A i \in Instance : UnderWay(i)' = UnderWay(i) /\ UnderWay(i) \in Nat
    BY DEF UnderWay, busVars, TypeOK
  <1>4. RequestsBounded'
    BY <1>1, <1>3 DEF RequestsBounded
  <1> QED
    BY <1>2, <1>4

LEMMA StepInv == TspInv /\ [Next]_vars => TspInv'
  <1> SUFFICES ASSUME TspInv, [Next]_vars PROVE TspInv'
    OBVIOUS
  <1>9. ASSUME NEW i \in Instance, Lead(i) \/ Standby(i)
        PROVE  TspInv'
    <2>1. leaders \union {i} \in SUBSET Instance /\ leaders \ {i} \in SUBSET Instance
      BY DEF TspInv, TypeOK
    <2>2. /\ leaders' \in {leaders \union {i}, leaders \ {i}} /\ inherited' = Inheritance(leaders')
          /\ UNCHANGED <<flight, inhibited, busVars>>
      BY <1>9 DEF Lead, Standby
    <2> QED
      BY <2>1, <2>2, LeadChangeInv
  <1> USE TspAssumption DEF TspInv, TypeOK, RequestsBounded, UnderWay, GateOpen
  <1>0. Len(requests) \in Nat
    OBVIOUS
  <1>1. ASSUME NEW i \in Instance, NEW pos \in Positions, OnPosition(i, pos)
        PROVE  TspInv'
    <2>1. StrategyFor(i, pos) \in Strategy
      BY DEF StrategyFor, Strategy
    <2>2. /\ requests' \in Seq(Strategy)
          /\ Len(requests') = IF i \in leaders THEN Len(requests) + 1 ELSE Len(requests)
      BY <1>1, <2>1 DEF OnPosition
    <2>3. TypeOK'
      BY <1>1, <2>2 DEF OnPosition
    <2>4. RequestsBounded'
      <3> SUFFICES ASSUME NEW j \in Instance, leaders = {j}
                   PROVE  /\ UnderWay(j)' <= inherited + 1
                          /\ GateOpen(j)' => UnderWay(j)' <= inherited
        BY <1>1 DEF OnPosition
      <3>1. answers' = answers /\ flight[i] = Debounce /\ flight' = [flight EXCEPT ![i] = 0]
        BY <1>1 DEF OnPosition, Eligible
      <3>2. CASE i = j
        <4>1. UnderWay(j)' = UnderWay(j) + 1
          <5>1. Len(requests') = Len(requests) + 1 /\ answers'[j] = answers[j]
            BY <2>2, <3>1, <3>2
          <5>2. answers[j] \in Nat
            OBVIOUS
          <5> QED
            BY <1>0, <5>1, <5>2
        <4>2. UnderWay(j) <= inherited /\ inherited \in Nat /\ UnderWay(j) \in Nat
          <5>1. UnderWay(j) <= inherited
            <6>1. GateOpen(j)
              BY <3>1, <3>2
            <6> HIDE DEF GateOpen, UnderWay
            <6> QED
              BY <6>1
          <5>2. answers[j] \in Nat
            OBVIOUS
          <5> QED
            BY <1>0, <5>1, <5>2
        <4>3. flight'[j] = 0 /\ Debounce # 0
          BY <3>1, <3>2
        <4> QED
          BY <4>1, <4>2, <4>3
      <3>3. CASE i # j
        BY <2>2, <3>1, <3>3
      <3> QED
        BY <3>2, <3>3
    <2> QED
      BY <2>3, <2>4
  <1>2. ASSUME NEW i \in Instance, OnCrossingState(i) \/ Inhibit(i) \/ Release(i)
        PROVE  TspInv'
    BY <1>2 DEF OnCrossingState, Inhibit, Release, busVars
  <1>3. ASSUME NEW i \in Instance, OnGrantResult(i)
        PROVE  TspInv'
    <2>1. TypeOK'
      BY <1>3 DEF OnGrantResult
    <2>2. RequestsBounded'
      BY <1>0, <1>3 DEF OnGrantResult
    <2> QED
      BY <2>1, <2>2
  <1>4. ASSUME NEW i \in Instance, LoseAnswer(i)
        PROVE  TspInv'
    <2>1. TypeOK'
      BY <1>4 DEF LoseAnswer, atsVars
    <2>2. RequestsBounded'
      BY <1>0, <1>4 DEF LoseAnswer, atsVars
    <2> QED
      BY <2>1, <2>2
  <1>10. ASSUME NEW i \in Instance, Restart(i)
        PROVE  TspInv'
    <2>1. leaders \ {i} \in SUBSET Instance
      OBVIOUS
    <2>2. /\ Inheritance(leaders \ {i}) \in Nat
          /\ \A j \in Instance : leaders \ {i} = {j} => Inheritance(leaders \ {i}) = UnderWay(j)
      BY <2>1, InheritanceFacts
    <2>3. inherited' \in Nat
      BY <1>10, <2>2 DEF Restart, Inheritance
    <2>4. TypeOK'
      BY <1>10, <2>3 DEF Restart
    <2>5. RequestsBounded'
      <3> SUFFICES ASSUME NEW j \in Instance, leaders \ {i} = {j}
                   PROVE  /\ UnderWay(j)' <= inherited' + 1
                          /\ GateOpen(j)' => UnderWay(j)' <= inherited'
        BY <1>10 DEF Restart
      <3>1. /\ UnderWay(j)' = UnderWay(j) /\ UnderWay(j) \in Nat
            /\ GateOpen(j)' = GateOpen(j)
        BY <1>0, <1>10 DEF Restart
      <3>2. CASE i \in leaders
        <4>1. inherited' = UnderWay(j)
          BY <1>10, <2>2, <3>2 DEF Restart
        <4> QED
          BY <3>1, <4>1
      <3>3. CASE i \notin leaders
        <4>1. inherited' = inherited /\ leaders = {j}
          BY <1>10, <3>3 DEF Restart
        <4> QED
          BY <3>1, <4>1
      <3> QED
        BY <3>2, <3>3
    <2> QED
      BY <2>4, <2>5
  <1>5. CASE OnPriorityRequest
    <2>1. /\ requests' \in Seq(Strategy)
          /\ Len(requests') = Len(requests) - 1
      BY <1>5 DEF OnPriorityRequest
    <2>2. UNCHANGED atsVars
      BY <1>5 DEF OnPriorityRequest
    <2> QED
      BY <1>5, <2>1, <2>2 DEF OnPriorityRequest, atsVars
  <1>6. CASE Second
    <2>1. /\ flight' = [i \in Instance |-> IF flight[i] + 1 <= Debounce THEN flight[i] + 1 ELSE Debounce]
          /\ inherited' = IF Late THEN inherited + 1 ELSE inherited
          /\ UNCHANGED <<leaders, feedback, inhibited, busVars>>
      BY <1>6 DEF Second, Signal!Smaller
    <2>2. TypeOK'
      BY <2>1 DEF busVars
    <2>3. RequestsBounded'
      <3> SUFFICES ASSUME NEW j \in Instance, leaders = {j}
                   PROVE  /\ UnderWay(j)' <= inherited' + 1
                          /\ GateOpen(j)' => UnderWay(j)' <= inherited'
        BY <2>1
      <3>1. UnderWay(j)' = UnderWay(j) /\ UnderWay(j) \in Nat
        BY <1>0, <2>1 DEF busVars
      <3>2. GateOpen(j)' => GateOpen(j) \/ flight[j] = Debounce - 1
        <4>1. /\ flight[j] \in 0..Debounce /\ Debounce \in Nat
              /\ flight'[j] = IF flight[j] + 1 <= Debounce THEN flight[j] + 1 ELSE Debounce
          BY <2>1
        <4> QED
          BY <4>1
      <3>3. inherited' = IF flight[j] = Debounce - 1 /\ UnderWay(j) > inherited
                         THEN inherited + 1 ELSE inherited
        BY <2>1 DEF Late
      <3>4. UnderWay(j) <= inherited + 1 /\ (GateOpen(j) => UnderWay(j) <= inherited)
        OBVIOUS
      <3> HIDE DEF UnderWay, GateOpen
      <3> QED
        BY <3>1, <3>2, <3>3, <3>4
    <2> QED
      BY <2>2, <2>3
  <1>8. CASE UNCHANGED vars
    BY <1>8 DEF vars, atsVars, busVars
  <1> QED
    BY <1>1, <1>2, <1>3, <1>4, <1>5, <1>6, <1>8, <1>9, <1>10 DEF Next

\* However answers are delayed or lost, a replica that publishes alone has at
\* most one request under way beyond what it found when it came to and what
\* was answered after its gate had reopened (tsp.ts:149-159).
THEOREM TspInvHolds == Spec => []TspInv
  <1>1. Init => TspInv
    BY InitInv
  <1>2. TspInv /\ [Next]_vars => TspInv'
    BY StepInv
  <1> QED
    BY <1>1, <1>2, PTL DEF Spec

-----------------------------------------------------------------------------
\* What a replica has observed never shows the VLT's green and a wait for it.
ForecastInv ==
    /\ DOMAIN feedback = Instance
    /\ \A i \in Instance : feedback[i].vltGreen => feedback[i].wait = 0

LEMMA ForecastInit == Init => ForecastInv
  BY DEF Init, ForecastInv, NoFeedback

\* Whoever asks for priority for a train not past the crossing has not seen
\* the VLT's green.
LEMMA AskerSeesNoGreen ==
  ASSUME ForecastInv, NEW i \in Instance, NEW pos \in Positions,
         Eligible(i, pos), pos.eta + Margin >= 0
  PROVE  ~feedback[i].vltGreen
  <1>1. pos.eta \in Int /\ Margin \in Nat
    BY TspAssumption
  <1>2. feedback[i] = NoFeedback => ~feedback[i].vltGreen
    BY DEF NoFeedback
  <1>3. CASE feedback[i] # NoFeedback /\ feedback[i].vltGreen
    <2>1. feedback[i].wait = 0 /\ feedback[i].wait > pos.eta + Margin
      BY <1>3 DEF ForecastInv, Eligible
    <2> QED
      BY <1>1, <2>1
  <1> QED
    BY <1>2, <1>3

LEMMA ForecastStep == ForecastInv /\ [Next]_vars => ForecastInv'
  <1> SUFFICES ASSUME ForecastInv, [Next]_vars PROVE ForecastInv'
    OBVIOUS
  <1> USE DEF ForecastInv
  <1>1. ASSUME NEW i \in Instance, OnCrossingState(i)
        PROVE  ForecastInv'
    <2>1. CrossingState.vltGreen => CrossingState.wait = 0
      <3>1. Horizon + Margin + 1 \in Nat
        BY TspAssumption
      <3>2. CrossingState.vltGreen => Signal!SecondsUntilGreen(Signal!VltPhase) = 0
        BY DEF CrossingState, Signal!SecondsUntilGreen
      <3>3. Signal!Smaller(0, Horizon + Margin + 1) = 0
        BY <3>1 DEF Signal!Smaller
      <3> QED
        BY <3>2, <3>3 DEF CrossingState
    <2>2. feedback' = [feedback EXCEPT ![i] = CrossingState]
      BY <1>1 DEF OnCrossingState
    <2> QED
      BY <2>1, <2>2
  <1>2. ASSUME NEW i \in Instance, Restart(i)
        PROVE  ForecastInv'
    BY <1>2 DEF Restart, NoFeedback
  <1>3. ASSUME \/ \E i \in Instance :
                    \/ \E pos \in Positions : OnPosition(i, pos)
                    \/ OnGrantResult(i) \/ LoseAnswer(i) \/ Inhibit(i) \/ Release(i)
                    \/ Lead(i) \/ Standby(i)
               \/ OnPriorityRequest \/ Second \/ UNCHANGED vars
        PROVE  ForecastInv'
    <2>1. UNCHANGED feedback
      BY <1>3 DEF OnPosition, OnGrantResult, LoseAnswer, Inhibit, Release, Lead, Standby,
                  OnPriorityRequest, Second, vars, atsVars
    <2> QED
      BY <2>1
  <1> QED
    BY <1>1, <1>2, <1>3 DEF Next

LEMMA ForecastHolds == Spec => [](TypeOK /\ ForecastInv)
  <1>1. TspInv => TypeOK
    BY DEF TspInv
  <1> QED
    BY <1>1, ForecastInit, ForecastStep, TspInvHolds, PTL DEF Spec

\* What is asked on feedback that is not out of date, for a train that is not
\* past the crossing, is granted, but for a truncation asked in the VLT's own
\* clearance (tsp.ts:193-195): whatever the plan, the margin and the horizon.
THEOREM FreshRequestsAcceptedHolds == Spec => FreshRequestsAccepted
  <1> DEFINE Asked(i, pos) == OnPosition(i, pos) /\ pos.eta + Margin >= 0
                              /\ feedback[i] = CrossingState
             Accepted == \/ ~Refused(Head(requests'))
                         \/ activePhase = Signal!VltPhase /\ color # "green"
  <1>1. TypeOK /\ ForecastInv
        => [requests = <<>> /\ requests' # <<>> =>
              \A i \in leaders, pos \in Positions : Asked(i, pos) => Accepted]_vars
    <2> SUFFICES ASSUME TypeOK, ForecastInv, requests = <<>>,
                        NEW i \in leaders, NEW pos \in Positions, Asked(i, pos)
                 PROVE  Accepted
      OBVIOUS
    <2>1. i \in Instance /\ Eligible(i, pos)
      BY DEF TypeOK, OnPosition
    <2>2. Head(requests') = StrategyFor(i, pos)
      BY DEF OnPosition
    <2>3. ~feedback[i].vltGreen
      BY <2>1, AskerSeesNoGreen
    <2>4. StrategyFor(i, pos) \in {"red_truncation", "phase_call"}
      BY <2>3 DEF StrategyFor
    <2>5. ~CrossingState.vltGreen
      BY <2>3
    <2> HIDE DEF Accepted
    <2>6. CASE StrategyFor(i, pos) = "phase_call"
      BY <2>2, <2>5, <2>6 DEF Refused, Accepted
    <2>7. CASE StrategyFor(i, pos) = "red_truncation"
      BY <2>2, <2>5, <2>7 DEF Refused, CrossingState, Accepted
    <2> QED
      BY <2>4, <2>6, <2>7
  <1> QED
    BY <1>1, ForecastHolds, PTL DEF FreshRequestsAccepted
=============================================================================
