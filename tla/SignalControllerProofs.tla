----------------------- MODULE SignalControllerProofs -----------------------
(***************************************************************************)
(* Proofs about SignalController, for every timing plan, tick length and   *)
(* mix of requests: the three restrictions priority may not violate, and   *)
(* the delay a granted request promises.                                   *)
(***************************************************************************)
EXTENDS SignalController, WellFoundedInduction, TLAPS

\* What a plan entry is made of, and that ring arithmetic stays in the ring.
LEMMA PlanFacts ==
    /\ Len(Plan) \in Nat \ {0}
    /\ VltPhase \in Phase
    /\ \A p \in Phase :
         /\ Plan[p].minGreen \in Nat /\ Plan[p].maxGreen \in Nat /\ Plan[p].yellow \in Nat
         /\ Plan[p].allRed \in Nat /\ Plan[p].splitGreen \in Nat \ {0}
         /\ Plan[p].minGreen <= Plan[p].splitGreen /\ Plan[p].splitGreen <= Plan[p].maxGreen
         /\ After(p) \in Phase
PROOF
<1>1. Len(Plan) \in Nat /\ Len(Plan) # 0
  BY PlanAssumption
<1>2. ASSUME NEW p \in Phase
      PROVE  /\ Plan[p].minGreen \in Nat /\ Plan[p].maxGreen \in Nat /\ Plan[p].yellow \in Nat
             /\ Plan[p].allRed \in Nat /\ Plan[p].splitGreen \in Nat \ {0}
             /\ Plan[p].minGreen <= Plan[p].splitGreen /\ Plan[p].splitGreen <= Plan[p].maxGreen
  <2>1. Plan[p] \in PhaseConfig
    BY PlanAssumption DEF Phase
  <2>2. /\ Plan[p].minGreen \in Nat /\ Plan[p].maxGreen \in Nat /\ Plan[p].yellow \in Nat
        /\ Plan[p].allRed \in Nat /\ Plan[p].splitGreen \in Nat
    BY <2>1 DEF PhaseConfig
  <2> QED
    BY <2>2, PlanAssumption
<1>3. \A p \in Phase : After(p) \in Phase
  BY <1>1 DEF Phase, After
<1>4. VltPhase \in Phase
  BY <1>1 DEF Phase, VltPhase
<1> QED
  BY <1>1, <1>2, <1>3, <1>4

\* The first interval satisfies the invariant.
LEMMA InitSignal == Init => SignalInv
PROOF
<1> SUFFICES ASSUME Init PROVE SignalInv
  OBVIOUS
<1>1. /\ Plan[VltPhase].splitGreen \in Nat \ {0} /\ Plan[VltPhase].maxGreen \in Nat
      /\ Plan[VltPhase].splitGreen <= Plan[VltPhase].maxGreen /\ VltPhase \in Phase
  BY PlanFacts
<1>2. pendingForceOff \in BOOLEAN
  BY DEF Init
<1> QED
  BY <1>1, <1>2 DEF Init, SignalInv, TypeOK, GreenBounded, ClearanceCounted, cfg, NoPhase

\* Every tick and every request preserves it: an extension is cut to the room
\* maxGreen leaves, and the clearance intervals only ever count up.
LEMMA StepSignal == SignalInv /\ [Next]_vars => SignalInv'
PROOF
<1> SUFFICES ASSUME SignalInv, [Next]_vars
             PROVE  SignalInv'
  OBVIOUS
<1> USE DEF SignalInv, TypeOK, GreenBounded, ClearanceCounted, cfg, now
<1>0. /\ activePhase \in Phase /\ Plan[activePhase].splitGreen \in Nat \ {0}
      /\ Plan[activePhase].maxGreen \in Nat /\ Plan[activePhase].minGreen \in Nat
      /\ Plan[activePhase].yellow \in Nat /\ Plan[activePhase].allRed \in Nat
      /\ Dt \in Nat \ {0}
  BY PlanFacts, TickAssumption
<1>1. CASE Hold
  <2>1. {d - Dt : d \in promised} \subseteq Int
    BY <1>0
  <2>2. color = "green" => now < cfg.splitGreen + grantedExtension
    BY <1>0, <1>1 DEF Hold, IntervalOver, GreenOver, Smaller
  <2> QED
    BY <1>0, <1>1, <2>1, <2>2 DEF Hold
<1>2. CASE EndGreen
  <2>1. {d - Dt : d \in promised} \subseteq Int
    BY <1>0
  <2>2. pendingForceOff' \in BOOLEAN
    BY <1>2 DEF EndGreen
  <2> QED
    BY <1>0, <1>2, <2>1, <2>2 DEF EndGreen
<1>3. CASE EndYellow
  <2>1. {d - Dt : d \in promised} \subseteq Int
    BY <1>0
  <2>2. clearance + Dt >= cfg.yellow
    BY <1>0, <1>3 DEF EndYellow, IntervalOver
  <2> QED
    BY <1>0, <1>3, <2>1, <2>2 DEF EndYellow
<1>4. CASE EndAllRed
  <2>1. {d - Dt : d \in promised} \subseteq Int
    BY <1>0
  <2>2. Following \in Phase
    BY PlanFacts DEF Following, NoPhase
  <2>3. color = "all_red" /\ color' = "green" /\ elapsed' = 0 /\ clearance' = 0
        /\ activePhase' = Following /\ pendingCall' = NoPhase
        /\ grantedExtension' = grantedExtension /\ pendingForceOff' = pendingForceOff
    BY <1>4 DEF EndAllRed
  <2>4. promised' \subseteq Int
    BY <1>4, <2>1 DEF EndAllRed
  <2>5. GreenBounded' /\ ClearanceCounted'
    <3>1. grantedExtension = 0
      BY <2>3
    <3>2. /\ Plan[Following].splitGreen \in Nat \ {0} /\ Plan[Following].maxGreen \in Nat
          /\ Plan[Following].splitGreen <= Plan[Following].maxGreen
      BY <2>2, PlanFacts
    <3> QED
      BY <2>3, <3>1, <3>2
  <2>6. TypeOK'
    BY <2>2, <2>3, <2>4
  <2> QED
    BY <2>5, <2>6
<1>5. CASE PriorityRequest
  <2> PICK p \in Requested \intersect Phase :
        GreenExtension(p) \/ RedTruncation(p) \/ PhaseCall(p)
    BY <1>5 DEF PriorityRequest
  <2>1. ASSUME NEW delay \in Int, Promise(p, delay)
        PROVE  promised' \subseteq Int
    BY <2>1 DEF Promise, Earliest
  <2>2. CASE GreenExtension(p)
    <3>1. grantedExtension' \in Nat
          /\ cfg.splitGreen + grantedExtension' <= cfg.maxGreen
          /\ grantedExtension <= grantedExtension'
      BY <1>0, <2>2, RequestAssumption DEF GreenExtension, Room, Smaller
    <3> QED
      BY <1>0, <2>2, <3>1 DEF GreenExtension
  <2>3. CASE RedTruncation(p)
    <3>1. Larger(0, cfg.minGreen - elapsed) + cfg.yellow + cfg.allRed \in Int
      BY <1>0 DEF Larger
    <3> QED
      BY <1>0, <2>1, <2>3, <3>1 DEF RedTruncation
  <2>4. CASE PhaseCall(p)
    <3>1. Larger(0, cfg.splitGreen - elapsed) + cfg.yellow + cfg.allRed \in Int
      BY <1>0 DEF Larger
    <3> QED
      BY <1>0, <2>1, <2>4, <3>1 DEF PhaseCall
  <2> QED
    BY <2>2, <2>3, <2>4
<1>6. CASE UNCHANGED vars
  BY <1>6 DEF vars, state
<1> QED
  BY <1>1, <1>2, <1>3, <1>4, <1>5, <1>6 DEF Next, Tick

\* controller.ts:10-18: no sequence of ticks and requests takes a green past
\* maxGreen or a clearance below its due.
THEOREM SignalInvHolds == Spec => []SignalInv
  BY InitSignal, StepSignal, PTL DEF Spec

\* Only EndGreen ends a green and only EndAllRed starts one.
LEMMA IntervalOrder ==
    ASSUME SignalInv, [Next]_vars
    PROVE  /\ color = "green" /\ color' # "green" => EndGreen
           /\ color # "green" /\ color' = "green" => EndAllRed
  BY DEF SignalInv, TypeOK, Next, Tick, Hold, EndGreen, EndYellow, EndAllRed, PriorityRequest,
         GreenExtension, RedTruncation, PhaseCall, vars, state

\* controller.ts:103-104: whatever priority asks for, no green ends before the
\* minimum of its phase.
THEOREM MinGreenServedHolds == Spec => MinGreenServed
PROOF
<1>1. SignalInv /\ [Next]_vars => [color = "green" /\ color' # "green" => now >= cfg.minGreen]_vars
  <2> SUFFICES ASSUME SignalInv, [Next]_vars, color = "green", color' # "green"
               PROVE  now >= cfg.minGreen
    OBVIOUS
  <2>1. EndGreen
    BY IntervalOrder
  <2>2. /\ Plan[activePhase].minGreen \in Nat /\ Plan[activePhase].maxGreen \in Nat
        /\ Plan[activePhase].splitGreen \in Nat
        /\ Plan[activePhase].minGreen <= Plan[activePhase].splitGreen
        /\ Plan[activePhase].splitGreen <= Plan[activePhase].maxGreen
    BY PlanFacts DEF SignalInv, TypeOK
  <2> QED
    BY <2>1, <2>2, TickAssumption
    DEF EndGreen, IntervalOver, GreenOver, Smaller, cfg, now, SignalInv, TypeOK
<1> QED
  BY <1>1, SignalInvHolds, PTL DEF Spec, MinGreenServed

\* controller.ts:14-15: no request shortens the yellow or the all-red.
THEOREM ClearanceKeptHolds == Spec => ClearanceKept
PROOF
<1>1. SignalInv /\ [Next]_vars
      => [color # "green" /\ color' = "green"
          => /\ clearance >= Plan[activePhase].yellow
             /\ clearance + Dt >= Plan[activePhase].yellow + Plan[activePhase].allRed]_vars
  <2> SUFFICES ASSUME SignalInv, [Next]_vars, color # "green", color' = "green"
               PROVE  /\ clearance >= Plan[activePhase].yellow
                      /\ clearance + Dt >= Plan[activePhase].yellow + Plan[activePhase].allRed
    OBVIOUS
  <2>1. EndAllRed
    BY IntervalOrder
  <2>2. Plan[activePhase].yellow \in Nat /\ Plan[activePhase].allRed \in Nat
    BY PlanFacts DEF SignalInv, TypeOK
  <2> QED
    BY <2>1, <2>2, TickAssumption
    DEF EndAllRed, IntervalOver, cfg, now, SignalInv, TypeOK, ClearanceCounted
<1> QED
  BY <1>1, SignalInvHolds, PTL DEF Spec, ClearanceKept

-----------------------------------------------------------------------------
\* What ats-core sends (services/ats-core/src/main.ts:270-276): requests for
\* the VLT's phase only.  No clearance interval of the plan is empty.
OnlyVltRequested ==
    /\ Requested \subseteq {VltPhase, NoPhase}
    /\ \A p \in Phase : Plan[p].yellow > 0 /\ Plan[p].allRed > 0

\* What is left of a promise covers what is left of the turn before the VLT's.
Covers(d) ==
    /\ pendingCall = VltPhase
    /\ color = "green" =>
         /\ activePhase # VltPhase
         /\ \/ d >= cfg.splitGreen - elapsed + cfg.yellow + cfg.allRed
            \/ /\ pendingForceOff
               /\ d >= Larger(0, cfg.minGreen - elapsed) + cfg.yellow + cfg.allRed
    /\ color = "yellow" => d >= cfg.yellow - elapsed + cfg.allRed - Dt
    /\ color = "all_red" => d >= cfg.allRed - elapsed + 1 - 2 * Dt

\* Why a promise is kept: until the VLT has its green its call is pending, and
\* every promise still open covers the rest of the turn.
PromiseInv ==
    /\ activePhase # VltPhase => grantedExtension = 0
    /\ color = "yellow" => elapsed < cfg.yellow
    /\ color = "all_red" => elapsed < cfg.allRed
    /\ \A d \in promised : Covers(d)

\* A promise open during a green leaves time for the clearance that follows it.
LEMMA GreenPromiseCovers ==
    ASSUME SignalInv, PromiseInv, OnlyVltRequested, color = "green", NEW d \in promised
    PROVE  d >= cfg.yellow + cfg.allRed
PROOF
<1>1. /\ cfg.splitGreen \in Nat /\ cfg.minGreen \in Nat /\ cfg.yellow \in Nat /\ cfg.allRed \in Nat
      /\ elapsed \in Nat /\ d \in Int
  BY PlanFacts DEF SignalInv, TypeOK, cfg
<1>2. Covers(d)
  BY DEF PromiseInv
<1>3. activePhase # VltPhase
  BY <1>2 DEF Covers
<1>4. elapsed < cfg.splitGreen
  <2>1. grantedExtension = 0
    BY <1>3 DEF PromiseInv
  <2>2. elapsed < cfg.splitGreen + grantedExtension
    BY DEF SignalInv, GreenBounded
  <2> QED
    BY <1>1, <2>1, <2>2
<1>5. CASE d >= cfg.splitGreen - elapsed + cfg.yellow + cfg.allRed
  BY <1>1, <1>4, <1>5
<1>6. CASE d >= Larger(0, cfg.minGreen - elapsed) + cfg.yellow + cfg.allRed
  BY <1>1, <1>6 DEF Larger
<1> QED
  BY <1>2, <1>5, <1>6 DEF Covers

\* A promise that covers the rest of the turn is not overdue.
LEMMA PromiseInvSuffices == SignalInv /\ PromiseInv /\ OnlyVltRequested => PromiseKept
PROOF
<1> SUFFICES ASSUME SignalInv, PromiseInv, OnlyVltRequested, NEW d \in promised
             PROVE  d + 2 * (Dt - 1) >= 0
  BY DEF PromiseKept
<1>1. /\ cfg.splitGreen \in Nat /\ cfg.minGreen \in Nat /\ cfg.yellow \in Nat /\ cfg.allRed \in Nat
      /\ cfg.yellow > 0 /\ cfg.allRed > 0 /\ elapsed \in Nat /\ d \in Int /\ Dt \in Nat \ {0}
      /\ color \in {"green", "yellow", "all_red"}
  BY PlanFacts, TickAssumption DEF SignalInv, TypeOK, OnlyVltRequested, cfg
<1>2. color = "green" => d >= cfg.yellow + cfg.allRed
  BY GreenPromiseCovers
<1> QED
  BY <1>1, <1>2 DEF PromiseInv, Covers

\* A tick takes Dt from the promise and no more than that from the turn, save
\* where an interval ends inside the tick; a request only adds a promise that
\* covers the turn as it stands.
LEMMA StepPromise ==
    ASSUME SignalInv, PromiseInv, OnlyVltRequested, [Next]_vars
    PROVE  PromiseInv'
PROOF
<1> USE DEF cfg, now
<1>0. /\ Plan[activePhase].splitGreen \in Nat /\ Plan[activePhase].minGreen \in Nat
      /\ Plan[activePhase].maxGreen \in Nat
      /\ Plan[activePhase].minGreen <= Plan[activePhase].splitGreen
      /\ Plan[activePhase].splitGreen <= Plan[activePhase].maxGreen
      /\ Plan[activePhase].yellow \in Nat \ {0} /\ Plan[activePhase].allRed \in Nat \ {0}
      /\ elapsed \in Nat /\ Dt \in Nat \ {0} /\ promised \subseteq Int
      /\ color \in {"green", "yellow", "all_red"} /\ pendingForceOff \in BOOLEAN
  BY PlanFacts, TickAssumption DEF SignalInv, TypeOK, OnlyVltRequested
<1>1. CASE Hold
  <2>0. color = "green" => ~GreenOver
    BY <1>1 DEF Hold, IntervalOver
  <2>1. /\ color = "green" => ~(pendingForceOff /\ now >= cfg.minGreen)
        /\ color = "yellow" => now < cfg.yellow
        /\ color = "all_red" => now < cfg.allRed
    <3>1. color = "green" => ~(pendingForceOff /\ now >= cfg.minGreen)
      BY <2>0, Zenon DEF GreenOver
    <3>2. /\ color = "yellow" => ~(now >= cfg.yellow)
          /\ color = "all_red" => ~(now >= cfg.allRed)
      BY <1>1 DEF Hold, IntervalOver
    <3> QED
      BY <1>0, <3>1, <3>2
  <2>2. ASSUME NEW d \in promised
        PROVE  Covers(d - Dt)'
    BY <1>0, <1>1, <2>1 DEF Hold, PromiseInv, Covers, Larger
  <2>3. /\ activePhase' = activePhase /\ color' = color /\ elapsed' = now
        /\ grantedExtension' = grantedExtension /\ promised' = {d - Dt : d \in promised}
    BY <1>1 DEF Hold
  <2>4. \A e \in promised' : Covers(e)'
    BY <2>2, <2>3
  <2> QED
    BY <2>1, <2>3, <2>4 DEF PromiseInv
<1>2. CASE EndGreen
  <2>2. \A d \in promised : d >= Plan[activePhase].yellow + Plan[activePhase].allRed
    BY <1>2, GreenPromiseCovers DEF EndGreen
  <2>3. ASSUME NEW d \in promised
        PROVE  Covers(d - Dt)'
    BY <1>0, <1>2, <2>2 DEF EndGreen, PromiseInv, Covers
  <2>4. /\ activePhase' = activePhase /\ color' = "yellow" /\ elapsed' = 0
        /\ grantedExtension' = 0 /\ promised' = {d - Dt : d \in promised}
    BY <1>2 DEF EndGreen
  <2>5. \A e \in promised' : Covers(e)'
    BY <2>3, <2>4
  <2> QED
    BY <1>0, <2>4, <2>5 DEF PromiseInv
<1>3. CASE EndYellow
  <2>1. ASSUME NEW d \in promised
        PROVE  Covers(d - Dt)'
    BY <1>0, <1>3 DEF EndYellow, PromiseInv, Covers
  <2>2. /\ activePhase' = activePhase /\ color' = "all_red" /\ elapsed' = 0
        /\ grantedExtension' = grantedExtension /\ promised' = {d - Dt : d \in promised}
    BY <1>3 DEF EndYellow
  <2>3. \A e \in promised' : Covers(e)'
    BY <2>1, <2>2
  <2> QED
    BY <1>0, <2>2, <2>3 DEF PromiseInv
<1>4. CASE EndAllRed
  <2>1. promised' = {}
    BY <1>4 DEF EndAllRed, PromiseInv, Covers, Following, VltPhase, NoPhase
  <2> QED
    BY <1>4, <2>1 DEF EndAllRed, PromiseInv, SignalInv, GreenBounded
<1>5. CASE PriorityRequest
  <2>1. PICK p \in Requested \intersect Phase :
          GreenExtension(p) \/ RedTruncation(p) \/ PhaseCall(p)
    BY <1>5 DEF PriorityRequest
  <2>2. p = VltPhase
    BY <2>1 DEF OnlyVltRequested, Phase, NoPhase, VltPhase
  <2>3. CASE GreenExtension(p)
    <3>1. ASSUME NEW d \in promised
          PROVE  Covers(d)'
      BY <2>2, <2>3 DEF GreenExtension, PromiseInv, Covers
    <3> QED
      BY <2>2, <2>3, <3>1 DEF GreenExtension, PromiseInv
  <2>4. CASE RedTruncation(p)
    <3>1. \A d \in promised' :
            d \in promised \/ d = Larger(0, cfg.minGreen - elapsed) + cfg.yellow + cfg.allRed
      BY <2>2, <2>4 DEF RedTruncation, Promise, Earliest
    <3>2. ASSUME NEW d \in promised
          PROVE  Covers(d)'
      BY <1>0, <2>2, <2>4 DEF RedTruncation, PromiseInv, Covers
    <3>3. Covers(Larger(0, cfg.minGreen - elapsed) + cfg.yellow + cfg.allRed)'
      BY <1>0, <2>2, <2>4 DEF RedTruncation, PromiseInv, Covers, Larger
    <3> QED
      BY <2>4, <3>1, <3>2, <3>3 DEF RedTruncation, PromiseInv
  <2>5. CASE PhaseCall(p)
    <3>1. \A d \in promised' :
            d \in promised \/ d = Larger(0, cfg.splitGreen - elapsed) + cfg.yellow + cfg.allRed
      BY <2>2, <2>5 DEF PhaseCall, Promise, Earliest
    <3>2. ASSUME NEW d \in promised
          PROVE  Covers(d)'
      BY <1>0, <2>2, <2>5 DEF PhaseCall, PromiseInv, Covers
    <3>3. Covers(Larger(0, cfg.splitGreen - elapsed) + cfg.yellow + cfg.allRed)'
      BY <1>0, <2>2, <2>5 DEF PhaseCall, PromiseInv, Covers, Larger
    <3> QED
      BY <2>5, <3>1, <3>2, <3>3 DEF PhaseCall, PromiseInv
  <2> QED
    BY <2>1, <2>3, <2>4, <2>5
<1>6. CASE UNCHANGED vars
  BY <1>6 DEF vars, state, PromiseInv, Covers
<1> QED
  BY <1>1, <1>2, <1>3, <1>4, <1>5, <1>6 DEF Next, Tick

\* controller.ts:182 and :195: however many requests follow and whenever they
\* arrive, the VLT's green is never later than the delay a grant announced, but
\* for the rounding to whole ticks.
THEOREM PromiseKeptHolds == OnlyVltRequested /\ Spec => []PromiseKept
PROOF
<1> SUFFICES ASSUME OnlyVltRequested
             PROVE  Spec => []PromiseKept
  OBVIOUS
<1>1. Init => PromiseInv
  BY DEF Init, PromiseInv
<1>2. SignalInv /\ PromiseInv /\ [Next]_vars => PromiseInv'
  BY StepPromise
<1>3. SignalInv /\ PromiseInv => PromiseKept
  BY PromiseInvSuffices
<1> QED
  BY <1>1, <1>2, <1>3, SignalInvHolds, PTL DEF Spec

-----------------------------------------------------------------------------
\* Sets of natural numbers have a least member.
LEMMA LeastNatural ==
    ASSUME NEW S \in SUBSET Nat, S # {}
    PROVE  \E n \in S : \A m \in S : n <= m
PROOF
<1>1. PICK n \in S : \A m \in S : <<m, n>> \notin OpToRel(<, Nat)
  BY NatLessThanWellFounded, WFMin
<1>2. \A m \in S : ~(m < n)
  BY <1>1 DEF OpToRel
<1> QED
  BY <1>2

\* The loop of secondsUntilGreen for the VLT, as an equation: the VLT's phase is
\* the first, so the turns left after a phase are those of the later ones.
Turns == TurnsUntil(VltPhase)
TurnsFrom(f, q) == IF After(q) = VltPhase THEN 0 ELSE TurnLength(After(q)) + f[After(q)]

LEMMA RingFacts ==
    ASSUME NEW q \in Phase
    PROVE  /\ q \in Nat /\ 1 <= q /\ q <= Len(Plan)
           /\ After(q) # VltPhase => After(q) = q + 1 /\ q < Len(Plan)
           /\ After(q) \in Phase
           /\ TurnLength(q) \in Nat
PROOF
<1>1. q \in Nat /\ 1 <= q /\ q <= Len(Plan) /\ Len(Plan) \in Nat \ {0}
  BY PlanFacts DEF Phase
<1>2. After(q) # VltPhase => After(q) = q + 1 /\ q < Len(Plan)
  BY <1>1 DEF After, VltPhase
<1>3. After(q) \in Phase /\ TurnLength(q) \in Nat
  BY PlanFacts DEF TurnLength
<1> QED
  BY <1>1, <1>2, <1>3

\* Going back from the last phase, n more phases at a time, there is a function
\* that satisfies it for all of them.
Solves(f, n) ==
    /\ f \in [Phase -> Nat]
    /\ \A q \in Phase : Len(Plan) - q <= n => f[q] = TurnsFrom(f, q)

LEMMA SolutionExists == \E f : Solves(f, Len(Plan))
PROOF
<1> DEFINE Unsolved == {n \in Nat : ~ \E f : Solves(f, n)}
<1>1. Unsolved = {}
  <2> SUFFICES ASSUME Unsolved # {} PROVE FALSE
    OBVIOUS
  <2>1. PICK n \in Unsolved : \A m \in Unsolved : n <= m
    <3>1. Unsolved \in SUBSET Nat
      OBVIOUS
    <3> HIDE DEF Unsolved
    <3> QED
      BY <3>1, LeastNatural
  <2>2. \E f : /\ f \in [Phase -> Nat]
               /\ \A q \in Phase : Len(Plan) - q <= n - 1 => f[q] = TurnsFrom(f, q)
    <3>1. CASE n = 0
      <4>1. [q \in Phase |-> 0] \in [Phase -> Nat]
        OBVIOUS
      <4>2. ASSUME NEW q \in Phase PROVE ~(Len(Plan) - q <= n - 1)
        <5>1. q \in Nat /\ q <= Len(Plan) /\ Len(Plan) \in Nat
          BY RingFacts, PlanFacts
        <5> QED
          BY <3>1, <5>1
      <4> QED
        BY <4>1, <4>2
    <3>2. CASE n # 0
      <4>1. n - 1 \in Nat /\ ~(n <= n - 1)
        BY <2>1, <3>2
      <4>2. n - 1 \notin Unsolved
        BY <2>1, <4>1
      <4> QED
        BY <4>1, <4>2 DEF Solves
    <3> QED
      BY <3>1, <3>2
  <2>3. PICK f : /\ f \in [Phase -> Nat]
                 /\ \A q \in Phase : Len(Plan) - q <= n - 1 => f[q] = TurnsFrom(f, q)
    BY <2>2
  <2> DEFINE g == [q \in Phase |-> TurnsFrom(f, q)]
  <2>4. g \in [Phase -> Nat]
    <3>1. ASSUME NEW q \in Phase PROVE TurnsFrom(f, q) \in Nat
      BY <2>3, RingFacts DEF TurnsFrom
    <3> QED
      BY <3>1
  <2>5. ASSUME NEW q \in Phase, Len(Plan) - q <= n PROVE g[q] = TurnsFrom(g, q)
    <3>1. CASE After(q) = VltPhase
      BY <3>1 DEF TurnsFrom
    <3>2. CASE After(q) # VltPhase
      <4>1. After(q) \in Phase /\ Len(Plan) - After(q) <= n - 1
        BY <2>1, <2>5, <3>2, RingFacts, PlanFacts
      <4>2. g[After(q)] = f[After(q)]
        BY <2>3, <4>1
      <4> QED
        BY <4>2 DEF TurnsFrom
    <3> QED
      BY <3>1, <3>2
  <2>6. Solves(g, n)
    BY <2>4, <2>5 DEF Solves
  <2> QED
    BY <2>1, <2>6
<1> QED
  BY <1>1, PlanFacts

\* What it takes to the VLT's turn is one turn less with every phase passed.
LEMMA TurnsFacts ==
    ASSUME NEW q \in Phase
    PROVE  /\ Turns[q] \in Nat
           /\ After(q) # VltPhase => Turns[q] = TurnLength(After(q)) + Turns[After(q)]
PROOF
<1>1. PICK f : Solves(f, Len(Plan))
  BY SolutionExists
<1>2. \A p \in Phase : Len(Plan) - p <= Len(Plan)
  BY RingFacts, PlanFacts
<1>3. f = [p \in Phase |-> TurnsFrom(f, p)]
  BY <1>1, <1>2 DEF Solves
<1>4. Turns = [p \in Phase |-> TurnsFrom(Turns, p)]
  BY <1>3, Zenon DEF Turns, TurnsUntil, TurnsFrom
<1> DEFINE Wrong == {n \in Nat : \E p \in Phase : n = Len(Plan) - p /\ Turns[p] \notin Nat}
<1>5. Wrong = {}
  <2> SUFFICES ASSUME Wrong # {} PROVE FALSE
    OBVIOUS
  <2>1. PICK n \in Wrong : \A m \in Wrong : n <= m
    <3>1. Wrong \in SUBSET Nat
      OBVIOUS
    <3> HIDE DEF Wrong
    <3> QED
      BY <3>1, LeastNatural
  <2>2. PICK p \in Phase : n = Len(Plan) - p /\ Turns[p] \notin Nat
    BY <2>1
  <2>3. Turns[p] = TurnsFrom(Turns, p)
    BY <1>4
  <2>4. After(p) # VltPhase
    BY <2>2, <2>3 DEF TurnsFrom
  <2>5. After(p) \in Phase /\ n - 1 = Len(Plan) - After(p) /\ n - 1 \in Nat /\ n \in Nat
    BY <2>2, <2>4, RingFacts, PlanFacts
  <2>6. Turns[After(p)] \in Nat
    BY <2>1, <2>5
  <2> QED
    BY <2>2, <2>3, <2>4, <2>5, <2>6, RingFacts DEF TurnsFrom
<1>6. Turns[q] \in Nat
  <2>1. Len(Plan) - q \in Nat
    BY RingFacts, PlanFacts
  <2> QED
    BY <1>5, <2>1
<1> QED
  BY <1>4, <1>6 DEF TurnsFrom

\* What the forecast is made of.
Forecast ==
    /\ activePhase \in Phase /\ RestOfTurn \in Nat \ {0} /\ Turns[activePhase] \in Nat
    /\ SecondsUntilGreen(VltPhase) = IF activePhase = VltPhase /\ color = "green"
                                     THEN 0 ELSE RestOfTurn + Turns[activePhase]

LEMMA ForecastFacts ==
    ASSUME SignalInv, PromiseInv, OnlyVltRequested
    PROVE  Forecast
PROOF
<1>1. /\ cfg.splitGreen \in Nat /\ cfg.yellow \in Nat \ {0} /\ cfg.allRed \in Nat \ {0}
      /\ elapsed \in Nat /\ grantedExtension \in Nat /\ activePhase \in Phase
      /\ color \in {"green", "yellow", "all_red"}
  BY PlanFacts DEF SignalInv, TypeOK, OnlyVltRequested, cfg
<1>2. RestOfTurn \in Nat \ {0}
  BY <1>1 DEF RestOfTurn, Larger, PromiseInv
<1> QED
  BY <1>1, <1>2, TurnsFacts DEF Forecast, SecondsUntilGreen, Turns

\* No other phase is ever called.
CallOfVlt == pendingCall \in {NoPhase, VltPhase}

LEMMA StepCall == OnlyVltRequested /\ CallOfVlt /\ [Next]_vars => CallOfVlt'
BY DEF OnlyVltRequested, CallOfVlt, Next, Tick, Hold, EndGreen, EndYellow, EndAllRed,
       PriorityRequest, GreenExtension, RedTruncation, PhaseCall, vars, state

\* A tick brings the VLT's green nearer, by whole seconds.
LEMMA TickForecast ==
    ASSUME SignalInv, PromiseInv, CallOfVlt, OnlyVltRequested, Tick,
           PromiseInv', Forecast, Forecast', SecondsUntilGreen(VltPhase) > 0
    PROVE  SecondsUntilGreen(VltPhase)' <= SecondsUntilGreen(VltPhase) - 1
PROOF
<1> DEFINE rest == RestOfTurn
           ahead == Turns[activePhase]
<1>1. /\ activePhase \in Phase /\ rest \in Nat \ {0} /\ ahead \in Nat
      /\ SecondsUntilGreen(VltPhase) = rest + ahead
      /\ ~(activePhase = VltPhase /\ color = "green")
  BY DEF Forecast
<1>2. /\ activePhase' \in Phase /\ rest' \in Nat \ {0} /\ Turns[activePhase'] \in Nat
      /\ SecondsUntilGreen(VltPhase)' = IF activePhase' = VltPhase /\ color' = "green"
                                        THEN 0 ELSE rest' + Turns[activePhase']
  BY DEF Forecast
<1>3. /\ Plan[activePhase].splitGreen \in Nat \ {0} /\ Plan[activePhase].yellow \in Nat \ {0}
      /\ Plan[activePhase].allRed \in Nat \ {0}
      /\ elapsed \in Nat /\ grantedExtension \in Nat
      /\ color \in {"green", "yellow", "all_red"}
      /\ color = "green" => elapsed < Plan[activePhase].splitGreen + grantedExtension
      /\ color = "yellow" => elapsed < Plan[activePhase].yellow
      /\ color = "all_red" => elapsed < Plan[activePhase].allRed
  BY PlanFacts DEF SignalInv, TypeOK, GreenBounded, OnlyVltRequested, PromiseInv, cfg
<1>4. CASE Hold
  <2>1. activePhase' = activePhase /\ color' = color /\ elapsed' = now
        /\ grantedExtension' = grantedExtension
    BY <1>4 DEF Hold
  <2>2. /\ color = "green" => elapsed' < Plan[activePhase].splitGreen + grantedExtension
        /\ color = "yellow" => elapsed' < Plan[activePhase].yellow
        /\ color = "all_red" => elapsed' < Plan[activePhase].allRed
    <3>1. now \in Nat
      BY <1>3, TickAssumption DEF now
    <3>2. /\ color = "green" => ~(now >= Smaller(cfg.splitGreen + grantedExtension, cfg.maxGreen))
          /\ color = "yellow" => ~(now >= cfg.yellow)
          /\ color = "all_red" => ~(now >= cfg.allRed)
      BY <1>4 DEF Hold, IntervalOver, GreenOver
    <3>3. cfg.splitGreen + grantedExtension <= cfg.maxGreen /\ cfg.maxGreen \in Nat
      BY <1>1, PlanFacts DEF SignalInv, GreenBounded, cfg
    <3> QED
      BY <1>3, <2>1, <3>1, <3>2, <3>3 DEF Smaller, cfg
  <2>3. rest' = rest - Dt
    BY <1>3, <2>1, <2>2, TickAssumption DEF RestOfTurn, Larger, cfg, now
  <2> QED
    BY <1>1, <1>2, <2>1, <2>3, TickAssumption
<1>5. CASE EndGreen
  <2>1. activePhase' = activePhase /\ color = "green" /\ color' = "yellow" /\ elapsed' = 0
    BY <1>5 DEF EndGreen
  <2>2. rest' <= rest - 1
    BY <1>3, <2>1 DEF RestOfTurn, Larger, cfg
  <2> QED
    BY <1>1, <1>2, <2>1, <2>2
<1>6. CASE EndYellow
  <2>1. activePhase' = activePhase /\ color = "yellow" /\ color' = "all_red" /\ elapsed' = 0
    BY <1>6 DEF EndYellow
  <2>2. rest' <= rest - 1
    BY <1>3, <2>1 DEF RestOfTurn, Larger, cfg
  <2> QED
    BY <1>1, <1>2, <2>1, <2>2
<1>7. CASE EndAllRed
  <2>1. activePhase' = Following /\ color' = "green" /\ elapsed' = 0
    BY <1>7 DEF EndAllRed
  <2>2. CASE activePhase' = VltPhase
    BY <1>1, <1>2, <2>1, <2>2
  <2>3. CASE activePhase' # VltPhase
    <3>1. pendingCall = NoPhase
      BY <2>1, <2>3 DEF Following, CallOfVlt
    <3>2. activePhase' = After(activePhase)
      BY <2>1, <3>1 DEF Following
    <3>3. ahead = TurnLength(activePhase') + Turns[activePhase']
      BY <1>1, <2>3, <3>2, TurnsFacts
    <3>4. rest' = TurnLength(activePhase')
      <4>1. grantedExtension' = 0
        BY <2>3 DEF PromiseInv
      <4>2. /\ Plan[activePhase'].splitGreen \in Nat /\ Plan[activePhase'].yellow \in Nat
            /\ Plan[activePhase'].allRed \in Nat
        BY <1>2, PlanFacts
      <4> QED
        BY <2>1, <4>1, <4>2 DEF RestOfTurn, Larger, cfg, TurnLength
    <3>5. TurnLength(activePhase') \in Nat
      BY <1>2, RingFacts
    <3> QED
      BY <1>1, <1>2, <2>3, <3>3, <3>4, <3>5
  <2> QED
    BY <2>2, <2>3
<1> QED
  BY <1>4, <1>5, <1>6, <1>7 DEF Tick

\* No request puts it off, whatever is asked for and when.
LEMMA StepForecast ==
    ASSUME SignalInv, PromiseInv, CallOfVlt, OnlyVltRequested, Next,
           PromiseInv', Forecast, Forecast', SecondsUntilGreen(VltPhase) > 0
    PROVE  /\ SecondsUntilGreen(VltPhase) \in Nat /\ SecondsUntilGreen(VltPhase)' \in Nat
           /\ SecondsUntilGreen(VltPhase)' <= SecondsUntilGreen(VltPhase)
           /\ Tick => SecondsUntilGreen(VltPhase)' <= SecondsUntilGreen(VltPhase) - 1
PROOF
<1>1. SecondsUntilGreen(VltPhase) \in Nat /\ SecondsUntilGreen(VltPhase)' \in Nat
  BY DEF Forecast
<1>2. Tick => SecondsUntilGreen(VltPhase)' <= SecondsUntilGreen(VltPhase) - 1
  BY TickForecast
<1>3. CASE Tick
  BY <1>1, <1>2, <1>3
<1>4. CASE PriorityRequest
  <2>1. PICK p \in Requested \intersect Phase :
          GreenExtension(p) \/ RedTruncation(p) \/ PhaseCall(p)
    BY <1>4 DEF PriorityRequest
  <2>2. ~GreenExtension(p)
    BY <2>1 DEF GreenExtension, OnlyVltRequested, Phase, NoPhase, VltPhase, SecondsUntilGreen
  <2>3. UNCHANGED <<activePhase, color, elapsed, grantedExtension>>
    BY <2>1, <2>2 DEF RedTruncation, PhaseCall
  <2>4. RestOfTurn' = RestOfTurn
    BY <2>3 DEF RestOfTurn, cfg
  <2>5. SecondsUntilGreen(VltPhase)' = SecondsUntilGreen(VltPhase)
    BY <2>3, <2>4 DEF Forecast
  <2> QED
    BY <1>1, <1>2, <2>5
<1> QED
  BY <1>3, <1>4 DEF Next

\* Along every behaviour, the facts StepForecast asks for.
LEMMA ForecastHolds == OnlyVltRequested /\ Spec => [](SignalInv /\ PromiseInv /\ CallOfVlt /\ Forecast)
PROOF
<1> SUFFICES ASSUME OnlyVltRequested
             PROVE  Spec => [](SignalInv /\ PromiseInv /\ CallOfVlt /\ Forecast)
  OBVIOUS
<1>1. Init => PromiseInv /\ CallOfVlt
  BY DEF Init, PromiseInv, CallOfVlt
<1>2. SignalInv /\ PromiseInv /\ [Next]_vars => PromiseInv'
  BY StepPromise
<1>3. CallOfVlt /\ [Next]_vars => CallOfVlt'
  BY StepCall
<1>4. SignalInv /\ PromiseInv => Forecast
  BY ForecastFacts
<1> QED
  BY <1>1, <1>2, <1>3, <1>4, SignalInvHolds, PTL DEF Spec

\* controller.ts:201-218: whatever is requested and whenever, no step puts the
\* VLT's green off beyond the forecast published before it, and every tick
\* brings it nearer.  For any plan, number of phases and speed of the clock.
THEOREM NeverPutOffHolds == OnlyVltRequested /\ Spec => NeverPutOff
PROOF
<1> SUFFICES ASSUME OnlyVltRequested PROVE Spec => NeverPutOff
  OBVIOUS
<1> DEFINE Facts == SignalInv /\ PromiseInv /\ CallOfVlt /\ Forecast
<1>1. Facts /\ Facts' /\ [Next]_vars
      => [LET estimate == SecondsUntilGreen(VltPhase)
          IN estimate > 0 => /\ SecondsUntilGreen(VltPhase)' <= estimate
                             /\ Tick => SecondsUntilGreen(VltPhase)' < estimate]_vars
  <2> SUFFICES ASSUME Facts, Facts', Next, SecondsUntilGreen(VltPhase) > 0
               PROVE  /\ SecondsUntilGreen(VltPhase)' <= SecondsUntilGreen(VltPhase)
                      /\ Tick => SecondsUntilGreen(VltPhase)' < SecondsUntilGreen(VltPhase)
    OBVIOUS
  <2> QED
    BY StepForecast
<1>2. Spec => []Facts
  BY ForecastHolds
<1> QED
  BY <1>1, <1>2, PTL DEF Spec, NeverPutOff

\* With the clock in real time (NTCIP_ACCEL = 1), every tick takes its second
\* from the forecast.
THEOREM EstimateCountsDownHolds == Dt = 1 /\ OnlyVltRequested /\ Spec => EstimateCountsDown
PROOF
<1> SUFFICES ASSUME Dt = 1, OnlyVltRequested PROVE Spec => EstimateCountsDown
  OBVIOUS
<1> DEFINE Facts == SignalInv /\ PromiseInv /\ CallOfVlt /\ Forecast
<1>1. Facts /\ Facts' /\ [Next]_vars
      => [LET estimate == SecondsUntilGreen(VltPhase)
          IN estimate > 0 => /\ SecondsUntilGreen(VltPhase)' <= estimate
                             /\ Tick => SecondsUntilGreen(VltPhase)' <= Larger(0, estimate - Dt)]_vars
  <2> SUFFICES ASSUME Facts, Facts', Next, SecondsUntilGreen(VltPhase) > 0
               PROVE  /\ SecondsUntilGreen(VltPhase)' <= SecondsUntilGreen(VltPhase)
                      /\ Tick => SecondsUntilGreen(VltPhase)'
                                 <= Larger(0, SecondsUntilGreen(VltPhase) - Dt)
    OBVIOUS
  <2> QED
    BY StepForecast DEF Larger
<1>2. Spec => []Facts
  BY ForecastHolds
<1> QED
  BY <1>1, <1>2, PTL DEF Spec, EstimateCountsDown
=============================================================================
