--------------------------- MODULE RegulationProofs ---------------------------
(***************************************************************************)
(* Proofs about Regulation, for every line, fleet, tick and period: what   *)
(* the passengers at a stop are promised whatever the controller computes, *)
(* and that measured intervals and setpoint have one base.                 *)
(***************************************************************************)
EXTENDS Regulation, FiniteSetTheorems, WellFoundedInduction, TLAPS

-----------------------------------------------------------------------------
(* The line: sections one after the other.                                 *)

\* A nonempty set of naturals has a least element: the provers' way to an
\* induction.
LEMMA LeastNatural ==
    ASSUME NEW S \in SUBSET Nat, S # {}
    PROVE  \E n \in S : \A m \in S : n <= m
PROOF
<1>1. PICK n \in S : \A m \in S : <<m, n>> \notin OpToRel(<, Nat)
  BY NatLessThanWellFounded, WFMin
<1>2. \A m \in S : ~(m < n)
  BY <1>1 DEF OpToRel
<1> QED
  BY <1>2

LEMMA GreatestNatural ==
    ASSUME NEW b \in Nat, NEW S \in SUBSET (0..b), S # {}
    PROVE  \E n \in S : \A m \in S : m <= n
PROOF
<1> DEFINE T == {b - n : n \in S}
<1>1. T \in SUBSET Nat /\ T # {}
  <2>1. \A n \in S : b - n \in Nat
    OBVIOUS
  <2> QED
    BY <2>1
<1>2. PICK k \in T : \A m \in T : k <= m
  <2> HIDE DEF T
  <2> QED
    BY <1>1, LeastNatural
<1>3. PICK n \in S : k = b - n
  BY <1>2
<1>4. ASSUME NEW m \in S PROVE m <= n
  <2>1. k <= b - m
    BY <1>2
  <2> QED
    BY <1>3, <2>1
<1> QED
  BY <1>4

LEMMA RunFacts ==
    /\ Len(Run) \in Nat \ {0} /\ Section = 1..Len(Run)
    /\ \A s \in Section : Run[s] \in Nat \ {0}
PROOF
  BY RegulationAssumption DEF Section

\* Starts up to a section.
StartsTo(n, f) ==
    f = [s \in 1..n |-> IF s = 1 THEN 0 ELSE f[s - 1] + Run[s - 1]]

LEMMA StartsExist == \A n \in 0..Len(Run) : \E f : f \in [1..n -> Nat] /\ StartsTo(n, f)
PROOF
<1> DEFINE Without == {n \in 0..Len(Run) : ~ \E f : f \in [1..n -> Nat] /\ StartsTo(n, f)}
<1> SUFFICES ASSUME Without # {} PROVE FALSE
  OBVIOUS
<1>0. Without \in SUBSET Nat
  BY RunFacts
<1>1. PICK n \in Without : \A m \in Without : n <= m
  <2> HIDE DEF Without
  <2> QED
    BY <1>0, LeastNatural
<1>2. n # 0
  <2>1. StartsTo(0, <<>>)
    BY DEF StartsTo
  <2>2. <<>> \in [1..0 -> Nat]
    OBVIOUS
  <2> QED
    BY <2>1, <2>2
<1>3. n \in Nat \ {0} /\ n <= Len(Run)
  BY <1>2, RunFacts
<1>4. PICK f : f \in [1..(n - 1) -> Nat] /\ StartsTo(n - 1, f)
  <2>1. n - 1 \in 0..Len(Run) /\ ~(n <= n - 1)
    BY <1>3, RunFacts
  <2>2. n - 1 \notin Without
    BY <1>1, <2>1, Zenon
  <2> QED
    BY <2>1, <2>2, Zenon
<1> DEFINE g == [s \in 1..n |-> IF s = n THEN IF n = 1 THEN 0 ELSE f[n - 1] + Run[n - 1] ELSE f[s]]
<1>5. g \in [1..n -> Nat]
  BY <1>3, <1>4, RunFacts
<1>6. \A s \in 1..n : g[s] = IF s = 1 THEN 0 ELSE g[s - 1] + Run[s - 1]
  <2> SUFFICES ASSUME NEW s \in 1..n PROVE g[s] = IF s = 1 THEN 0 ELSE g[s - 1] + Run[s - 1]
    OBVIOUS
  <2>1. CASE s = n
    BY <1>3, <2>1
  <2>2. CASE s # n
    <3>1. s \in 1..(n - 1) /\ g[s] = f[s] /\ (s # 1 => g[s - 1] = f[s - 1])
      BY <1>3, <2>2
    <3>2. f[s] = IF s = 1 THEN 0 ELSE f[s - 1] + Run[s - 1]
      BY <1>4, <3>1 DEF StartsTo
    <3> QED
      BY <3>1, <3>2
  <2> QED
    BY <2>1, <2>2
<1>7. StartsTo(n, g)
  BY <1>5, <1>6, Zenon DEF StartsTo
<1> QED
  BY <1>5, <1>7

LEMMA StartFacts ==
    /\ StartOf \in [Section -> Nat]
    /\ StartOf[1] = 0
    /\ \A s \in Section : s # 1 => StartOf[s] = StartOf[s - 1] + Run[s - 1]
PROOF
<1>1. PICK f : f \in [1..Len(Run) -> Nat] /\ StartsTo(Len(Run), f)
  BY StartsExist, RunFacts
<1>2. f = [s \in Section |-> IF s = 1 THEN 0 ELSE f[s - 1] + Run[s - 1]]
  BY <1>1, RunFacts DEF StartsTo
<1>3. StartOf = [s \in Section |-> IF s = 1 THEN 0 ELSE StartOf[s - 1] + Run[s - 1]]
  BY <1>2 DEF StartOf
<1>4. \A s \in Section : StartOf[s] = IF s = 1 THEN 0 ELSE StartOf[s - 1] + Run[s - 1]
  BY <1>3, Zenon
<1>5. \A s \in Section : s # 1 => StartOf[s] = StartOf[s - 1] + Run[s - 1]
  BY <1>4
<1>6. StartOf[1] = 0 /\ 1 \in Section
  BY <1>4, RunFacts
<1>7. \A s \in Section : StartOf[s] \in Nat
  <2> DEFINE Bad == {s \in Section : StartOf[s] \notin Nat}
  <2> SUFFICES ASSUME Bad # {} PROVE FALSE
    OBVIOUS
  <2>0. Bad \in SUBSET Nat
    BY RunFacts
  <2>1. PICK s \in Bad : \A t \in Bad : s <= t
    <3> HIDE DEF Bad
    <3> QED
      BY <2>0, LeastNatural
  <2>2. s # 1 /\ s - 1 \in Section /\ s - 1 \notin Bad
    BY <1>6, <2>1, RunFacts
  <2> QED
    BY <1>5, <2>2, RunFacts
<1>8. StartOf = [s \in Section |-> StartOf[s]]
  BY <1>3, Zenon
<1> QED
  BY <1>5, <1>6, <1>7, <1>8

\* A section ends where the next begins, and the last where the loop closes.
LEMMA StartsOrdered ==
    /\ Length \in Nat \ {0}
    /\ \A s \in Section : StartOf[s] + Run[s] <= Length
    /\ \A s, t \in Section : s < t => StartOf[s] + Run[s] <= StartOf[t]
PROOF
<1>1. \A s, t \in Section : s < t => StartOf[s] + Run[s] <= StartOf[t]
  <2> DEFINE Late(t) == \A s \in Section : s < t => StartOf[s] + Run[s] <= StartOf[t]
             Bad == {t \in Section : ~Late(t)}
  <2> SUFFICES ASSUME Bad # {} PROVE FALSE
    OBVIOUS
  <2>0. Bad \in SUBSET Nat
    BY RunFacts
  <2>1. PICK t \in Bad : \A u \in Bad : t <= u
    <3> HIDE DEF Bad
    <3> QED
      BY <2>0, LeastNatural
  <2>2. PICK s \in Section : s < t /\ ~(StartOf[s] + Run[s] <= StartOf[t])
    BY <2>1
  <2>3. t \in Section /\ t # 1 /\ t - 1 \in Section /\ ~(t <= t - 1)
    <3>1. t \in Section
      BY <2>1
    <3> QED
      BY <2>2, <3>1, RunFacts
  <2>4. Late(t - 1)
    BY <2>1, <2>3
  <2> HIDE DEF Late
  <2>5. StartOf[t] = StartOf[t - 1] + Run[t - 1]
    BY <2>3, StartFacts
  <2>6. /\ StartOf[s] \in Nat /\ StartOf[t] \in Nat /\ StartOf[t - 1] \in Nat
        /\ Run[s] \in Nat /\ Run[t - 1] \in Nat
    BY <2>3, StartFacts, RunFacts
  <2>7. s # t - 1
    <3> SUFFICES ASSUME s = t - 1 PROVE FALSE
      OBVIOUS
    <3> QED
      BY <2>2, <2>5, <2>6
  <2>8. s < t - 1
    BY <2>2, <2>3, <2>7, RunFacts
  <2>9. StartOf[s] + Run[s] <= StartOf[t - 1]
    BY <2>2, <2>4, <2>8 DEF Late
  <2> QED
    BY <2>2, <2>5, <2>6, <2>9
<1>2. Len(Run) \in Section
  BY RunFacts
<1>3. Length \in Nat \ {0}
  BY <1>2, StartFacts, RunFacts DEF Length
<1>4. ASSUME NEW s \in Section PROVE StartOf[s] + Run[s] <= Length
  <2>1. CASE s = Len(Run)
    BY <2>1, StartFacts, RunFacts DEF Length
  <2>2. CASE s # Len(Run)
    <3>1. StartOf[s] + Run[s] <= StartOf[Len(Run)]
      BY <1>1, <1>2, <2>2, RunFacts
    <3>2. {StartOf[s], Run[s], StartOf[Len(Run)], Run[Len(Run)]} \subseteq Nat
      BY <1>2, StartFacts, RunFacts
    <3> QED
      BY <3>1, <3>2 DEF Length
  <2> QED
    BY <2>1, <2>2
<1> QED
  BY <1>1, <1>3, <1>4

LEMMA LinearPositionFacts ==
    ASSUME NEW p \in [section : Section, run : Nat], p.run < Run[p.section]
    PROVE  LinearPosition(p) \in 0..(Length - 1)
PROOF
  BY StartsOrdered, StartFacts, RunFacts DEF LinearPosition

LEMMA StopFacts ==
    /\ IsFiniteSet(Section) /\ IsFiniteSet(Stops)
    /\ Cardinality(Stops) \in Nat /\ CycleTime \in Nat
    /\ \A n \in Nat : n > 0 => Setpoint(n) \in Int
PROOF
<1>1. IsFiniteSet(Section)
  BY FS_Interval, RunFacts
<1>2. IsFiniteSet(Stops) /\ Cardinality(Stops) \in Nat
  BY <1>1, FS_Subset, FS_CardinalityType, RegulationAssumption
<1>3. CycleTime \in Nat
  BY <1>2, StartsOrdered DEF CycleTime, DwellNominal
<1>4. ASSUME NEW n \in Nat, n > 0 PROVE Setpoint(n) \in Int
  <2> DEFINE m == 100 * n
  <2>1. m \in Nat /\ m > 0
    BY <1>4
  <2>2. Setpoint(n) = (CycleTime + m \div 2) \div m
    BY DEF Setpoint, Rounded
  <2> HIDE DEF m
  <2>3. m \div 2 \in Int
    BY <2>1
  <2>4. (CycleTime + m \div 2) \div m \in Int
    BY <1>3, <2>1, <2>3
  <2> QED
    BY <2>2, <2>4
<1> QED
  BY <1>1, <1>2, <1>3, <1>4

-----------------------------------------------------------------------------
(* The trains: in a strict order of the line, each with one ahead.         *)

LEMMA TrainFacts ==
    /\ IsFiniteSet(Train)
    /\ DOMAIN Trains \subseteq Nat
    /\ \A x \in Train : Rank(x) \in DOMAIN Trains /\ Trains[Rank(x)] = x
PROOF
<1>1. Len(Trains) \in Nat /\ DOMAIN Trains = 1..Len(Trains)
  BY RegulationAssumption
<1>2. Train = {Trains[i] : i \in 1..Len(Trains)}
  BY <1>1 DEF Train
<1>3. IsFiniteSet(Train)
  <2>1. IsFiniteSet(1..Len(Trains))
    BY <1>1, FS_Interval
  <2>2. Trains \in [1..Len(Trains) -> Train]
    BY <1>1, RegulationAssumption
  <2>3. Trains \in Surjection(1..Len(Trains), Train)
    BY <1>2, <2>2 DEF Surjection
  <2> QED
    BY <2>1, <2>3, FS_Surjection
<1>4. ASSUME NEW x \in Train PROVE Rank(x) \in DOMAIN Trains /\ Trains[Rank(x)] = x
  BY DEF Train, Rank
<1> QED
  BY <1>1, <1>3, <1>4

\* What ats-core knows of the trains, as far as order and gaps go.
Reported == report \in [Train -> [pos : 0..(Length - 1), age : Nat]]

LEMMA ReportFacts ==
    ASSUME Reported, NEW x \in Train
    PROVE  report[x].pos \in 0..(Length - 1) /\ report[x].pos \in Nat /\ report[x].age \in Nat
PROOF
  BY StartsOrdered DEF Reported

LEMMA FirstOfLine ==
    ASSUME Reported, NEW S \in SUBSET Train, S # {}
    PROVE  \E y \in S : \A z \in S : z = y \/ Precedes(y, z)
PROOF
<1> DEFINE P == {report[x].pos : x \in S}
<1>1. P \in SUBSET Nat /\ P # {}
  BY ReportFacts
<1>2. PICK p \in P : \A q \in P : p <= q
  <2> HIDE DEF P
  <2>1. PICK Q : Q = P
    OBVIOUS
  <2>2. PICK p \in Q : \A q \in Q : p <= q
    BY <1>1, <2>1, LeastNatural
  <2> QED
    BY <2>1, <2>2
<1> DEFINE R == {Rank(x) : x \in {y \in S : report[y].pos = p}}
<1>3. R \in SUBSET Nat /\ R # {}
  BY TrainFacts
<1>4. PICK r \in R : \A q \in R : r <= q
  <2> HIDE DEF R
  <2>1. PICK Q : Q = R
    OBVIOUS
  <2>2. PICK r \in Q : \A q \in Q : r <= q
    BY <1>3, <2>1, LeastNatural
  <2> QED
    BY <2>1, <2>2
<1>5. PICK y \in S : report[y].pos = p /\ Rank(y) = r
  BY <1>4
<1>6. ASSUME NEW z \in S PROVE z = y \/ Precedes(y, z)
  <2>1. report[z].pos \in Nat /\ p \in Nat /\ p <= report[z].pos /\ Rank(z) \in Nat /\ r \in Nat
    BY <1>2, <1>3, <1>4, ReportFacts, TrainFacts
  <2>2. CASE report[z].pos = p
    <3>1. r <= Rank(z)
      BY <1>4, <2>2
    <3>2. Rank(z) = r => z = y
      BY <1>5, TrainFacts
    <3> QED
      BY <1>5, <2>1, <2>2, <3>1, <3>2 DEF Precedes
  <2>3. CASE report[z].pos # p
    BY <1>5, <2>1, <2>3 DEF Precedes
  <2> QED
    BY <2>2, <2>3
<1> QED
  BY <1>6

\* The train ahead is the next of those further on, or else the first of all.
LEMMA AheadFacts ==
    ASSUME Reported, NEW x \in Active
    PROVE  LET later == {y \in Active : Precedes(x, y)}
               from == IF later # {} THEN later ELSE Active
           IN Ahead(x) \in from /\ \A z \in from : z = Ahead(x) \/ Precedes(Ahead(x), z)
PROOF
<1> DEFINE later == {y \in Active : Precedes(x, y)}
           from == IF later # {} THEN later ELSE Active
<1>1. from \subseteq Train /\ from # {}
  BY DEF Active
<1>2. PICK S : S = from
  OBVIOUS
<1>3. \E y \in S : \A z \in S : z = y \/ Precedes(y, z)
  <2> HIDE DEF from
  <2> QED
    BY <1>1, <1>2, FirstOfLine
<1>4. Ahead(x) = CHOOSE y \in from : \A z \in from : z = y \/ Precedes(y, z)
  BY DEF Ahead
<1> HIDE DEF from
<1>5. Ahead(x) \in from /\ \A z \in from : z = Ahead(x) \/ Precedes(Ahead(x), z)
  BY <1>2, <1>3, <1>4
<1> QED
  BY <1>5 DEF from

LEMMA HeadwayFacts ==
    ASSUME Reported, NEW x \in Active
    PROVE  /\ Ahead(x) \in Active /\ Gap(x) \in 1..Length
           /\ MeasuredHeadway(x) \in Int
PROOF
<1>1. Ahead(x) \in Active /\ x \in Train /\ Active \subseteq Train
  BY AheadFacts DEF Active
<1>2. Gap(x) \in 1..Length
  BY <1>1, ReportFacts, StartsOrdered DEF Gap
<1>3. Cardinality(StopsWithin(report[x].pos, Gap(x))) \in Nat
  <2>1. StopsWithin(report[x].pos, Gap(x)) \subseteq Stops
    BY DEF StopsWithin
  <2>2. PICK S : S = StopsWithin(report[x].pos, Gap(x))
    OBVIOUS
  <2>3. Cardinality(S) \in Nat
    BY <2>1, <2>2, StopFacts, FS_Subset, FS_CardinalityType
  <2> QED
    BY <2>2, <2>3
<1> QED
  BY <1>1, <1>2, <1>3, StartsOrdered DEF MeasuredHeadway, TraversalTime, DwellNominal

-----------------------------------------------------------------------------
(* What is advised and what is obeyed.                                     *)

LEMMA WithinFacts ==
    ASSUME NEW v \in Int, NEW lo \in Int, NEW hi \in Int, lo <= hi
    PROVE  Within(v, lo, hi) \in Int /\ lo <= Within(v, lo, hi) /\ Within(v, lo, hi) <= hi
PROOF
  BY DEF Within

LEMMA AdviceFacts ==
    ASSUME TypeOK, NEW x \in Regulated
    PROVE  Integral(x) \in Clamped /\ Advised(x) \in Advice
PROOF
<1>1. Reported /\ x \in Active /\ x \in Train
  BY DEF TypeOK, Reported, Regulated, Active
<1>2. Cardinality(Active) \in Nat /\ Cardinality(Active) >= 2
  <2>1. PICK S : S = Active
    OBVIOUS
  <2>2. Cardinality(S) \in Nat
    BY <2>1, TrainFacts, FS_Subset, FS_CardinalityType DEF Active
  <2> QED
    BY <2>1, <2>2 DEF Regulated
<1>3. Setpoint(Cardinality(Active)) \in Int
  <2>1. PICK n \in Nat : n = Cardinality(Active) /\ n > 0
    BY <1>2
  <2> QED
    BY <2>1, StopFacts
<1>4. Error(x) \in Int
  BY <1>1, <1>3, HeadwayFacts DEF Error
<1>5. pi[x].integral \in Int /\ Elapsed(x) \in Nat
  <2>1. pi[x].integral \in Clamped /\ pi[x].since \in -1..60
    BY <1>1 DEF TypeOK
  <2>2. pi[x].integral \in Int
    BY <2>1, SMT DEF Clamped
  <2>3. pi[x].since \in Int
    BY <2>1
  <2> QED
    BY <2>2, <2>3 DEF Elapsed
<1>6. Integral(x) \in Clamped
  <2>1. Error(x) * Elapsed(x) \in Int
    BY <1>4, <1>5
  <2>2. PICK v \in Int : v = pi[x].integral + Error(x) * Elapsed(x) * 17
    BY <1>5, <2>1
  <2> QED
    BY <2>2, SMT DEF Integral, Clamped, Within
<1>7. PICK d : /\ d = Rounded(Within(100000 * DwellNominal - (510 * Error(x) + Integral(x)),
                                100000 * DwellMin, 100000 * DwellMax), 100000)
               /\ d \in DwellMin..DwellMax
  <2>1. PICK v \in Int : v = 100000 * DwellNominal - (510 * Error(x) + Integral(x))
    BY <1>4, <1>6, SMT DEF Clamped, DwellNominal
  <2>2. PICK w \in Int : /\ w = Within(v, 100000 * DwellMin, 100000 * DwellMax)
                        /\ 2000000 <= w /\ w <= 9000000
    BY <2>1, SMT DEF Within, DwellMin, DwellMax
  <2>3. Rounded(w, 100000) = (w + 50000) \div 100000
    BY SMT DEF Rounded
  <2>4. Rounded(w, 100000) \in DwellMin..DwellMax
    BY <2>2, <2>3, SMT DEF DwellMin, DwellMax
  <2> QED
    BY <2>1, <2>2, <2>4
<1>8. PICK coast : /\ coast = Rounded(CoastMin * 18000 + Within(-Error(x) - 6000, 0, 18000) * (CoastMax - CoastMin), 18000)
                   /\ coast \in 0..CoastMax
  <2>1. PICK v \in Int : v = -Error(x) - 6000
    BY <1>4
  <2>2. PICK w \in Int : w = Within(v, 0, 18000) /\ 0 <= w /\ w <= 18000
    BY <2>1, SMT DEF Within
  <2>3. Rounded(CoastMin * 18000 + w * (CoastMax - CoastMin), 18000) = (72000 + w * 4 + 9000) \div 18000
    BY SMT DEF Rounded, CoastMin, CoastMax
  <2>4. Rounded(CoastMin * 18000 + w * (CoastMax - CoastMin), 18000) \in 0..CoastMax
    BY <2>2, <2>3, SMT DEF CoastMax
  <2> QED
    BY <2>1, <2>2, <2>4
<1>9. Advised(x) = [dwell |-> d, error |-> Error(x),
                    coast |-> IF Error(x) < -6000 /\ d >= DwellMax THEN coast ELSE 0]
  BY <1>7, <1>8, SMT DEF Advised
<1>10. Advised(x) \in Advice
  BY SMT, <1>4, <1>7, <1>8, <1>9 DEF Advice, CoastMax
<1> QED
  BY <1>6, <1>10

\* On board nothing of an advice is cut off.
LEMMA ObeyedFacts ==
    ASSUME NEW c \in Advice
    PROVE  Obeyed(c) \in [dwell : DwellMin..DwellMax, coast : 0..CoastMax]
PROOF
  BY DEF Obeyed, Advice, Within, DwellMin, DwellMax, DwellCeiling, CoastMax

\* A train goes on along the line, into the next section at the most.
LEMMA MovedFacts ==
    ASSUME TypeOK, NEW x \in Train
    PROVE  Moved(x) \in [section : Section, run : Nat] /\ Moved(x).run < Run[Moved(x).section]
PROOF
<1>1. /\ at[x] \in [section : Section, run : Nat] /\ at[x].run < Run[at[x].section]
      /\ commanded[x].coast \in 0..8
  BY DEF TypeOK, CoastMax
<1>2. PICK step \in Nat : step = (100 - commanded[x].coast) * Step /\ step <= 100 * Step
  <2>1. Step \in Nat
    BY RegulationAssumption
  <2>2. PICK c \in 0..8 : c = commanded[x].coast
    BY <1>1
  <2>3. (100 - c) * Step = 100 * Step - c * Step /\ c * Step \in Nat
    BY <2>1
  <2>4. c * Step <= 100 * Step
    BY <2>1
  <2>5. PICK step : step = (100 - c) * Step
    OBVIOUS
  <2>6. step \in Nat /\ step <= 100 * Step
    BY <2>1, <2>3, <2>4, <2>5
  <2> QED
    BY <2>2, <2>5, <2>6
<1>3. PICK run \in Nat : run = at[x].run + step
  BY <1>1, <1>2
<1> DEFINE next == (at[x].section % Len(Run)) + 1
<1>4. next \in Section /\ step <= Run[next] /\ Run[next] \in Nat /\ Run[at[x].section] \in Nat
  <2>1. next \in Section
    BY <1>1, RunFacts
  <2>2. Run[next] \in Nat /\ 100 * Step <= Run[next] /\ Step \in Nat /\ Run[at[x].section] \in Nat
    BY <1>1, <2>1, RunFacts, RegulationAssumption
  <2> HIDE DEF next
  <2> QED
    BY <1>2, <2>1, <2>2
<1>5. Moved(x) = IF run < Run[at[x].section] THEN [section |-> at[x].section, run |-> run]
                 ELSE [section |-> next, run |-> run - Run[at[x].section]]
  BY <1>2, <1>3 DEF Moved
<1> HIDE DEF next
<1>6. CASE run < Run[at[x].section]
  BY <1>1, <1>3, <1>5, <1>6
<1>7. CASE ~(run < Run[at[x].section])
  BY <1>1, <1>2, <1>3, <1>4, <1>5, <1>7
<1> QED
  BY <1>6, <1>7

-----------------------------------------------------------------------------
(* The inductive invariant: what a stop has left and what it has had make  *)
(* up what it was given; a dwell other than the nominal one comes from a   *)
(* command that has arrived; and cycles fall on ticks.                     *)

DwellAccounts == \A x \in Train : dwell[x] > 0 =>
    \E n \in Surges \union {0} : dwell[x] + stood[x] \in DwellMin..(DwellMax + n)
Untold == \A x \in Train : ~told[x] => commanded[x].dwell = DwellNominal
OnTheBeat == \E k \in Nat : sinceCycle = k * Beat

Kept == TypeOK /\ DwellAccounts /\ Untold /\ OnTheBeat

LEMMA InitKept == Init => Kept
PROOF
<1> SUFFICES ASSUME Init PROVE Kept
  OBVIOUS
<1>1. at \in [Train -> [section : Section, run : Nat]] /\ \A x \in Train : at[x].run < Run[at[x].section]
  BY RegulationAssumption DEF Init
<1>2. report \in [Train -> [pos : 0..(Length - 1), age : Nat]]
  <2>1. \A x \in Train : LinearPosition(at[x]) \in 0..(Length - 1)
    BY <1>1, LinearPositionFacts
  <2> QED
    BY <2>1 DEF Init
<1>3. Nominal \in Advice /\ [dwell |-> DwellNominal, coast |-> 0] \in [dwell : DwellMin..DwellMax, coast : 0..CoastMax]
  BY DEF Nominal, Advice, DwellNominal, DwellMin, DwellMax, CoastMax
<1>4. pi \in [Train -> [integral : Clamped, since : -1..60]]
  <2>1. 0 \in Clamped
    BY SMT DEF Clamped
  <2>2. -1 \in -1..60
    BY SMT
  <2> QED
    BY <2>1, <2>2 DEF Init
<1>5. sinceCycle \in 0..Period /\ {ticks, surges, faults} \subseteq Nat
  BY RegulationAssumption DEF Init
<1>6. TypeOK
  BY <1>1, <1>2, <1>3, <1>4, <1>5 DEF TypeOK, Init
<1>7. DwellAccounts /\ Untold
  BY DEF Init, DwellAccounts, Untold
<1>8. OnTheBeat
  BY RegulationAssumption DEF Init, OnTheBeat
<1> QED
  BY <1>6, <1>7, <1>8 DEF Kept

LEMMA RegulateKept == ASSUME Kept, Regulate PROVE Kept'
PROOF
<1>1. last' \in [Train -> Advice]
  BY AdviceFacts DEF Kept, TypeOK, Regulate
<1>2. pi' \in [Train -> [integral : Clamped, since : -1..60]]
  <2>1. \A x \in Train : x \in Regulated => Integral(x) \in Clamped
    BY AdviceFacts DEF Kept
  <2>2. 0 \in -1..60
    BY SMT
  <2>3. \A x \in Train : pi[x] \in [integral : Clamped, since : -1..60]
    BY DEF Kept, TypeOK
  <2> QED
    BY <2>1, <2>2, <2>3 DEF Regulate
<1>3. link' \in [Train -> Seq(Advice)]
  <2>1. \A x \in Train : link[x] \in Seq(Advice) /\ last'[x] \in Advice
    BY <1>1 DEF Kept, TypeOK
  <2>2. \A x \in Train : Append(link[x], last'[x]) \in Seq(Advice)
    BY <2>1
  <2> QED
    BY <2>1, <2>2 DEF Regulate
<1>4. TypeOK'
  <2>1. sinceCycle' \in 0..Period
    BY RegulationAssumption DEF Regulate
  <2> QED
    BY <1>1, <1>2, <1>3, <2>1, Zenon DEF Kept, TypeOK, Regulate
<1>5. DwellAccounts' /\ Untold'
  BY DEF Kept, DwellAccounts, Untold, Regulate
<1>6. OnTheBeat'
  BY RegulationAssumption DEF OnTheBeat, Regulate
<1> QED
  BY <1>4, <1>5, <1>6 DEF Kept

LEMMA DeliverKept ==
    ASSUME Kept, NEW x \in Train, NEW again \in BOOLEAN, Deliver(x, again)
    PROVE  Kept'
PROOF
<1>1. link[x] \in Seq(Advice) /\ link[x] # <<>>
  BY DEF Kept, TypeOK, Deliver
<1>2. Head(link[x]) \in Advice /\ Tail(link[x]) \in Seq(Advice)
  BY <1>1
<1>3. PICK c : c = Head(link[x]) /\ c \in Advice
  BY <1>2
<1>4. Obeyed(c) \in [dwell : DwellMin..DwellMax, coast : 0..CoastMax]
  BY <1>3, ObeyedFacts
<1>5. commanded' = [commanded EXCEPT ![x] = Obeyed(c)]
  BY <1>3 DEF Deliver
<1>6. commanded' \in [Train -> [dwell : DwellMin..DwellMax, coast : 0..CoastMax]]
  BY <1>4, <1>5 DEF Kept, TypeOK
<1>7. link' \in [Train -> Seq(Advice)]
  <2>1. link' = link \/ link' = [link EXCEPT ![x] = Tail(link[x])]
    BY DEF Deliver
  <2> QED
    BY <1>2, <2>1 DEF Kept, TypeOK
<1>8. told' = [told EXCEPT ![x] = TRUE] /\ told' \in [Train -> BOOLEAN] /\ told'[x] = TRUE
  BY DEF Kept, TypeOK, Deliver
<1>9. faults' \in Nat
  BY DEF Kept, TypeOK, Deliver
<1>10. TypeOK'
  BY <1>6, <1>7, <1>8, <1>9 DEF Kept, TypeOK, Deliver
<1>11. Untold'
  <2> SUFFICES ASSUME NEW y \in Train, ~told'[y] PROVE commanded'[y].dwell = DwellNominal
    BY DEF Untold
  <2>1. y # x
    BY <1>8
  <2>2. told'[y] = told[y] /\ commanded'[y] = commanded[y]
    BY <1>5, <1>8, <2>1 DEF Kept, TypeOK
  <2> QED
    BY <2>2 DEF Kept, Untold
<1>12. DwellAccounts' /\ OnTheBeat'
  BY DEF Kept, DwellAccounts, OnTheBeat, Deliver
<1> QED
  BY <1>10, <1>11, <1>12 DEF Kept

LEMMA LoseCommandKept ==
    ASSUME Kept, NEW x \in Train, LoseCommand(x)
    PROVE  Kept'
PROOF
<1>1. link' \in [Train -> Seq(Advice)]
  <2>1. link[x] \in Seq(Advice) /\ link[x] # <<>>
    BY DEF Kept, TypeOK, LoseCommand
  <2>2. Tail(link[x]) \in Seq(Advice)
    BY <2>1
  <2> QED
    BY <2>2 DEF Kept, TypeOK, LoseCommand
<1>2. TypeOK'
  <2>1. {ticks, surges, faults + 1} \subseteq Nat
    BY DEF Kept, TypeOK
  <2> QED
    BY <1>1, <2>1, Zenon DEF Kept, TypeOK, LoseCommand
<1>3. DwellAccounts' /\ Untold' /\ OnTheBeat'
  BY DEF Kept, DwellAccounts, Untold, OnTheBeat, LoseCommand
<1> QED
  BY <1>2, <1>3 DEF Kept

LEMMA InjectSurgeKept ==
    ASSUME Kept, NEW x \in Train, InjectSurge(x)
    PROVE  Kept'
PROOF
<1>1. TypeOK'
  <2>1. {ticks, surges + 1, faults} \subseteq Nat
    BY DEF Kept, TypeOK
  <2>2. surge' \in [Train -> Surges \union {0}]
    BY DEF Kept, TypeOK, InjectSurge
  <2> QED
    BY <2>1, <2>2, Zenon DEF Kept, TypeOK, InjectSurge
<1>2. DwellAccounts' /\ Untold' /\ OnTheBeat'
  BY DEF Kept, DwellAccounts, Untold, OnTheBeat, InjectSurge
<1> QED
  BY <1>1, <1>2 DEF Kept

\* What a tick makes of one train.
LEMMA TickOfTrain ==
    ASSUME Kept, Tick, NEW x \in Train
    PROVE  /\ at'[x] = IF dwell[x] > 0 THEN at[x] ELSE Moved(x)
           /\ dwell'[x] = IF dwell[x] > Step THEN dwell[x] - Step
                          ELSE IF Arrives(x) THEN commanded[x].dwell + surge[x] ELSE 0
           /\ stood'[x] = IF Arrives(x) THEN 0 ELSE IF dwell[x] > 0 THEN stood[x] + Step ELSE stood[x]
           /\ told'[x] = (told[x] /\ ~Departs(x))
           /\ commanded'[x] = IF Departs(x) THEN AfterStop(commanded[x])
                              ELSE IF Arrives(x) THEN AtStop(commanded[x]) ELSE commanded[x]
           /\ Arrives(x) => dwell[x] = 0
           /\ Departs(x) <=> 0 < dwell[x] /\ dwell[x] <= Step
PROOF
<1>1. dwell[x] \in Nat /\ Step \in Nat /\ Step > 0
  BY RegulationAssumption DEF Kept, TypeOK
<1>2. /\ Standing(x) <=> dwell[x] > 0
      /\ Arrives(x) => dwell[x] = 0
      /\ Departs(x) <=> 0 < dwell[x] /\ dwell[x] <= Step
  BY <1>1 DEF Standing, Arrives, Departs
<1>3. at'[x] = IF dwell[x] > 0 THEN at[x] ELSE Moved(x)
  BY <1>2 DEF Tick
<1>4. dwell'[x] = IF Standing(x) THEN IF Departs(x) THEN 0 ELSE dwell[x] - Step
                  ELSE IF Arrives(x) THEN commanded[x].dwell + surge[x] ELSE 0
  BY Zenon DEF Tick
<1>5. stood'[x] = IF Arrives(x) THEN 0 ELSE IF dwell[x] > 0 THEN stood[x] + Step ELSE stood[x]
  BY <1>2 DEF Tick
<1>6. told'[x] = (told[x] /\ ~Departs(x))
  BY Zenon DEF Tick
<1>7. commanded'[x] = IF Departs(x) THEN AfterStop(commanded[x])
                      ELSE IF Arrives(x) THEN AtStop(commanded[x]) ELSE commanded[x]
  BY Zenon DEF Tick
<1> QED
  BY <1>1, <1>2, <1>3, <1>4, <1>5, <1>6, <1>7

LEMMA TickTypeOK == ASSUME Kept, Tick PROVE TypeOK'
PROOF
<1>1. at' \in [Train -> [section : Section, run : Nat]] /\ \A x \in Train : at'[x].run < Run[at'[x].section]
  <2>1. \A x \in Train : /\ at'[x] \in [section : Section, run : Nat]
                         /\ at'[x].run < Run[at'[x].section]
    BY TickOfTrain, MovedFacts DEF Kept, TypeOK
  <2>2. at' = [x \in Train |-> at'[x]]
    BY DEF Tick
  <2> QED
    BY <2>1, <2>2
<1>2. dwell' \in [Train -> Nat]
  <2>1. ASSUME NEW x \in Train PROVE dwell'[x] \in Nat
    <3>1. dwell[x] \in Nat /\ Step \in Nat /\ commanded[x].dwell \in Nat /\ surge[x] \in Nat
      <4>1. dwell[x] \in Nat /\ commanded[x].dwell \in DwellMin..DwellMax /\ surge[x] \in Surges \union {0}
        BY DEF Kept, TypeOK
      <4>2. Step \in Nat /\ Surges \subseteq Nat
        BY RegulationAssumption
      <4>3. DwellMin..DwellMax \subseteq Nat
        BY DEF DwellMin, DwellMax
      <4>4. surge[x] \in Nat
        <5>1. surge[x] \in Surges \/ surge[x] = 0
          BY <4>1
        <5>2. CASE surge[x] \in Surges
          BY <4>2, <5>2
        <5>3. CASE surge[x] = 0
          BY <5>3
        <5> QED
          BY <5>1, <5>2, <5>3
      <4>5. commanded[x].dwell \in Nat
        BY <4>1, <4>3
      <4> QED
        BY <4>1, <4>2, <4>4, <4>5
    <3> QED
      BY <3>1, TickOfTrain
  <2>2. dwell' = [x \in Train |-> dwell'[x]]
    BY Zenon DEF Tick
  <2> QED
    BY <2>1, <2>2
<1>3. surge' \in [Train -> Surges \union {0}]
  BY DEF Kept, TypeOK, Tick
<1>4. commanded' \in [Train -> [dwell : DwellMin..DwellMax, coast : 0..CoastMax]]
  <2>1. ASSUME NEW x \in Train PROVE commanded'[x] \in [dwell : DwellMin..DwellMax, coast : 0..CoastMax]
    <3>1. commanded[x] \in [dwell : DwellMin..DwellMax, coast : 0..CoastMax]
      BY DEF Kept, TypeOK
    <3>2. DwellNominal \in DwellMin..DwellMax /\ 0 \in 0..CoastMax
      BY DEF DwellNominal, DwellMin, DwellMax, CoastMax
    <3>3. /\ AfterStop(commanded[x]) \in [dwell : DwellMin..DwellMax, coast : 0..CoastMax]
          /\ AtStop(commanded[x]) \in [dwell : DwellMin..DwellMax, coast : 0..CoastMax]
      BY <3>1, <3>2 DEF AfterStop, AtStop
    <3> QED
      BY <3>1, <3>3, TickOfTrain
  <2>2. commanded' = [x \in Train |-> commanded'[x]]
    BY Zenon DEF Tick
  <2> QED
    BY <2>1, <2>2
<1>5. report' \in [Train -> [pos : 0..(Length - 1), age : Nat]]
  <2>1. \A x \in Train : LinearPosition(at'[x]) \in 0..(Length - 1)
    BY <1>1, LinearPositionFacts
  <2>2. \A x \in Train : report[x].pos \in 0..(Length - 1) /\ report[x].age \in Nat
                         /\ report[x] \in [pos : 0..(Length - 1), age : Nat]
    BY DEF Kept, TypeOK
  <2>3. PICK heard \in SUBSET Train : report' = [x \in Train |->
              IF x \in heard THEN [pos |-> LinearPosition(at'[x]), age |-> 0]
              ELSE [report[x] EXCEPT !.age = IF @ > StaleAfter THEN @ ELSE @ + Beat]]
    BY Zenon DEF Tick
  <2>4. ASSUME NEW x \in Train PROVE report'[x] \in [pos : 0..(Length - 1), age : Nat]
    <3>1. CASE x \in heard
      BY <2>1, <2>3, <3>1
    <3>2. CASE x \notin heard
      <4>1. report'[x] = [report[x] EXCEPT !.age = IF report[x].age > StaleAfter THEN report[x].age ELSE report[x].age + Beat]
        BY <2>3, <3>2
      <4>2. Beat \in Nat
        BY RegulationAssumption
      <4> QED
        BY <2>2, <4>1, <4>2
    <3> QED
      BY <3>1, <3>2
  <2> QED
    BY <2>3, <2>4
<1>6. pi' \in [Train -> [integral : Clamped, since : -1..60]]
  <2>1. ASSUME NEW x \in Train PROVE pi'[x] \in [integral : Clamped, since : -1..60]
    <3>1. pi[x] \in [integral : Clamped, since : -1..60]
      BY DEF Kept, TypeOK
    <3>2. pi[x].since \in Int /\ Beat \in Nat
      <4>1. Beat \in Nat
        BY RegulationAssumption
      <4>2. pi[x].since \in -1..60
        BY <3>1
      <4> QED
        BY <4>1, <4>2
    <3>3. pi'[x] = pi[x] \/ pi'[x] = [pi[x] EXCEPT !.since = Within(pi[x].since + Beat, 0, 60)]
      BY Zenon DEF Tick
    <3>4. Within(pi[x].since + Beat, 0, 60) \in -1..60
      BY <3>2, SMT DEF Within
    <3> QED
      BY <3>1, <3>3, <3>4
  <2>2. pi' = [x \in Train |-> pi'[x]]
    BY Zenon DEF Tick
  <2> QED
    BY <2>1, <2>2
<1>7. stood' \in [Train -> Nat] /\ told' \in [Train -> BOOLEAN]
  <2>1. \A x \in Train : stood[x] \in Nat /\ told[x] \in BOOLEAN
    BY DEF Kept, TypeOK
  <2>2. ASSUME NEW x \in Train PROVE stood'[x] \in Nat
    <3>1. Step \in Nat
      BY RegulationAssumption
    <3>2. stood'[x] = IF Arrives(x) THEN 0 ELSE IF dwell[x] > 0 THEN stood[x] + Step ELSE stood[x]
      BY TickOfTrain
    <3> QED
      BY <2>1, <3>1, <3>2
  <2>3. \A x \in Train : told'[x] \in BOOLEAN
    BY <2>1, TickOfTrain, Zenon
  <2>4. stood' = [x \in Train |-> stood'[x]] /\ told' = [x \in Train |-> told'[x]]
    BY Zenon DEF Tick
  <2> QED
    BY <2>2, <2>3, <2>4
<1>8. sinceCycle' \in 0..Period
  <2>1. PICK k \in Nat : sinceCycle = k * Beat
    BY DEF Kept, OnTheBeat
  <2>2. Period \in Nat /\ Beat \in Nat /\ Beat > 0 /\ Period % Beat = 0
    BY RegulationAssumption
  <2>3. PICK m \in Nat : Period = m * Beat
    <3>1. Period = Beat * (Period \div Beat) + (Period % Beat) /\ Period \div Beat \in Nat
      BY <2>2
    <3>2. PICK m \in Nat : m = Period \div Beat
      BY <3>1
    <3> QED
      BY <2>2, <3>1, <3>2
  <2>4. k * Beat < m * Beat
    BY <2>1, <2>3 DEF Tick
  <2>5. k < m
    <3>1. ASSUME m <= k PROVE FALSE
      <4>1. k * Beat = m * Beat + (k - m) * Beat /\ (k - m) * Beat \in Nat
        BY <2>2, <3>1
      <4> QED
        BY <2>2, <2>4, <4>1
    <3> QED
      BY <3>1
  <2>6. (k + 1) * Beat <= m * Beat /\ (k + 1) * Beat = k * Beat + Beat
    <3>1. m * Beat = (k + 1) * Beat + (m - k - 1) * Beat /\ (m - k - 1) * Beat \in Nat
      BY <2>2, <2>5
    <3> QED
      BY <2>2, <3>1
  <2> QED
    BY <2>1, <2>2, <2>3, <2>6 DEF Tick
<1>9. {ticks', surges', faults'} \subseteq Nat
  <2>1. PICK heard \in SUBSET Train : faults' = faults + Cardinality(Train \ heard)
    BY Zenon DEF Tick
  <2>2. Cardinality(Train \ heard) \in Nat
    BY TrainFacts, FS_Subset, FS_CardinalityType
  <2>3. ticks \in Nat /\ surges \in Nat /\ faults \in Nat
    BY DEF Kept, TypeOK
  <2>4. ticks' = ticks + 1 /\ surges' = surges
    BY Zenon DEF Tick
  <2> QED
    BY <2>1, <2>2, <2>3, <2>4
<1> QED
  BY <1>1, <1>2, <1>3, <1>4, <1>5, <1>6, <1>7, <1>8, <1>9, Zenon DEF Kept, TypeOK, Tick

\* A train that arrives has its dwell before it; one that stands has the same
\* sum of what is left and what it has had, until it departs.
LEMMA TickAccounts == ASSUME Kept, Tick PROVE DwellAccounts'
PROOF
<1> SUFFICES ASSUME NEW x \in Train, dwell'[x] > 0
             PROVE  \E n \in Surges \union {0} : dwell'[x] + stood'[x] \in DwellMin..(DwellMax + n)
  BY DEF DwellAccounts
<1>1. dwell[x] \in Nat /\ stood[x] \in Nat /\ Step \in Nat /\ Step > 0 /\ Surges \subseteq Nat
  BY RegulationAssumption DEF Kept, TypeOK
<1>2. CASE dwell[x] > Step
  <2>1. dwell'[x] + stood'[x] = dwell[x] + stood[x]
    BY <1>1, <1>2, TickOfTrain
  <2> QED
    BY <1>1, <1>2, <2>1 DEF Kept, DwellAccounts
<1>3. CASE ~(dwell[x] > Step)
  <2>1. Arrives(x) /\ dwell'[x] = commanded[x].dwell + surge[x] /\ stood'[x] = 0
    BY <1>1, <1>3, TickOfTrain
  <2>2. commanded[x].dwell \in DwellMin..DwellMax /\ surge[x] \in Surges \union {0}
    BY DEF Kept, TypeOK
  <2>3. PICK c \in Int : c = commanded[x].dwell /\ DwellMin <= c /\ c <= DwellMax
    BY <2>2 DEF DwellMin, DwellMax
  <2>4. PICK n \in Surges \union {0} : n = surge[x] /\ n \in Nat
    BY <1>1, <2>2
  <2>5. dwell'[x] + stood'[x] \in DwellMin..(DwellMax + n)
    BY <2>1, <2>3, <2>4 DEF DwellMin, DwellMax
  <2> QED
    BY <2>5
<1> QED
  BY <1>2, <1>3

LEMMA TickKept == ASSUME Kept, Tick PROVE Kept'
PROOF
<1>1. Untold'
  <2> SUFFICES ASSUME NEW x \in Train, ~told'[x] PROVE commanded'[x].dwell = DwellNominal
    BY DEF Untold
  <2>1. commanded[x] \in [dwell : DwellMin..DwellMax, coast : 0..CoastMax]
    BY DEF Kept, TypeOK
  <2>2. AfterStop(commanded[x]).dwell = DwellNominal /\ AtStop(commanded[x]).dwell = commanded[x].dwell
    BY <2>1 DEF AfterStop, AtStop
  <2>3. Departs(x) \/ commanded[x].dwell = DwellNominal
    BY TickOfTrain DEF Kept, Untold
  <2> QED
    BY <2>2, <2>3, TickOfTrain
<1>2. OnTheBeat'
  <2>1. PICK k \in Nat : sinceCycle = k * Beat
    BY DEF Kept, OnTheBeat
  <2>2. sinceCycle' = (k + 1) * Beat
    BY <2>1, RegulationAssumption DEF Tick
  <2> QED
    BY <2>2 DEF OnTheBeat
<1> QED
  BY <1>1, <1>2, TickTypeOK, TickAccounts DEF Kept

LEMMA StepKept == Kept /\ [Next]_vars => Kept'
PROOF
<1> SUFFICES ASSUME Kept, [Next]_vars PROVE Kept'
  OBVIOUS
<1>1. CASE Tick
  BY <1>1, TickKept
<1>2. CASE Regulate
  BY <1>2, RegulateKept
<1>3. CASE \E x \in Train : InjectSurge(x)
  BY <1>3, InjectSurgeKept
<1>4. CASE \E x \in Train : LoseCommand(x)
  BY <1>4, LoseCommandKept
<1>5. CASE \E x \in Train, again \in BOOLEAN : Deliver(x, again)
  BY <1>5, DeliverKept
<1>6. CASE UNCHANGED vars
  BY <1>6 DEF vars, Kept, TypeOK, DwellAccounts, Untold, OnTheBeat
<1> QED
  BY <1>1, <1>2, <1>3, <1>4, <1>5, <1>6 DEF Next

\* The inductive invariant holds.
THEOREM KeptHolds == Spec => []Kept
PROOF
<1> QED
  BY InitKept, StepKept, PTL DEF Spec

-----------------------------------------------------------------------------
(* At the stops.                                                           *)

\* Only a tick moves what is left of a stop.
LEMMA OnlyTicksMoveDwell ==
    ASSUME Kept, [Next]_vars, NEW x \in Train, dwell'[x] # dwell[x]
    PROVE  Tick
PROOF
<1> QED
  BY DEF Next, vars, Regulate, InjectSurge, LoseCommand, Deliver

\* No stop is shorter than the accessibility floor or longer than the ceiling and
\* its surge of passengers, whatever is commanded and whenever it arrives
\* (fleet-sim.ts:108-131, plant/src/index.ts:89-132).
THEOREM StopsServedHolds == Spec => StopsServed
PROOF
<1> DEFINE Served == \A x \in Train : dwell[x] > 0 /\ dwell'[x] = 0 =>
             /\ stood'[x] >= DwellMin
             /\ \E n \in Surges \union {0} : stood'[x] < DwellMax + n + Step
<1>1. Kept /\ [Next]_vars => Served
  <2> SUFFICES ASSUME Kept, [Next]_vars, NEW x \in Train, dwell[x] > 0, dwell'[x] = 0
               PROVE  /\ stood'[x] >= DwellMin
                      /\ \E n \in Surges \union {0} : stood'[x] < DwellMax + n + Step
    OBVIOUS
  <2>1. dwell[x] \in Nat /\ stood[x] \in Nat /\ Step \in Nat /\ Step > 0 /\ Surges \subseteq Nat
    BY RegulationAssumption DEF Kept, TypeOK
  <2>2. Tick
    BY <2>1, OnlyTicksMoveDwell
  <2>3. stood'[x] = stood[x] + Step /\ dwell[x] <= Step
    BY <2>1, <2>2, TickOfTrain
  <2>4. PICK n \in Surges \union {0} : dwell[x] + stood[x] \in DwellMin..(DwellMax + n)
    BY DEF Kept, DwellAccounts
  <2>5. n \in Nat
    <3>1. Surges \subseteq Nat /\ 0 \in Nat
      BY <2>1
    <3> QED
      BY <3>1, Zenon
  <2>6. stood'[x] >= DwellMin /\ stood'[x] < DwellMax + n + Step
    BY <2>1, <2>3, <2>4, <2>5 DEF DwellMin, DwellMax
  <2> QED
    BY <2>6
<1>2. Spec => [][Served]_vars
  BY <1>1, KeptHolds, PTL DEF Spec
<1> QED
  BY <1>2 DEF StopsServed

\* A stop differs from the nominal one only by the passengers' surge unless a
\* command has arrived since the last departure (fleet-sim.ts:127-131).
THEOREM OneStopOnlyHolds == Spec => OneStopOnly
PROOF
<1> DEFINE Once == \A x \in Train : dwell[x] = 0 /\ dwell'[x] > 0 =>
             told[x] \/ dwell'[x] - surge[x] = DwellNominal
<1>1. Kept /\ [Next]_vars => Once
  <2> SUFFICES ASSUME Kept, [Next]_vars, NEW x \in Train, dwell[x] = 0, dwell'[x] > 0, ~told[x]
               PROVE  dwell'[x] - surge[x] = DwellNominal
    OBVIOUS
  <2>1. Tick
    BY OnlyTicksMoveDwell
  <2>2. Step \in Nat /\ surge[x] \in Nat
    BY RegulationAssumption DEF Kept, TypeOK
  <2>3. dwell'[x] = commanded[x].dwell + surge[x]
    BY <2>1, <2>2, TickOfTrain
  <2>4. commanded[x].dwell = DwellNominal
    BY DEF Kept, Untold
  <2> QED
    BY <2>2, <2>3, <2>4 DEF DwellNominal
<1>2. Spec => [][Once]_vars
  BY <1>1, KeptHolds, PTL DEF Spec
<1> QED
  BY <1>2 DEF OneStopOnly

-----------------------------------------------------------------------------
(* The sum of a finite set's values, in whatever order it is taken.        *)

Some(S) == CHOOSE y \in S : TRUE
IsFold(f, h, D) == f = [S \in D |-> IF S = {} THEN 0 ELSE h[Some(S)] + f[S \ {Some(S)}]]
UpTo(n) == {S \in SUBSET Train : Cardinality(S) <= n}

LEMMA SubsetFacts ==
    ASSUME NEW S \in SUBSET Train
    PROVE  /\ IsFiniteSet(S) /\ Cardinality(S) \in Nat
           /\ Cardinality(S) = 0 <=> S = {}
           /\ \A x \in S : S \ {x} \in SUBSET Train /\ Cardinality(S \ {x}) = Cardinality(S) - 1
           /\ S # {} => Some(S) \in S
PROOF
<1>1. IsFiniteSet(S)
  BY TrainFacts, FS_Subset
<1>2. Cardinality(S) \in Nat /\ (Cardinality(S) = 0 <=> S = {})
  BY <1>1, FS_CardinalityType, FS_EmptySet
<1>3. \A x \in S : S \ {x} \in SUBSET Train /\ Cardinality(S \ {x}) = Cardinality(S) - 1
  BY <1>1, FS_RemoveElement
<1>4. S # {} => Some(S) \in S
  BY DEF Some
<1> QED
  BY <1>1, <1>2, <1>3, <1>4

LEMMA FoldsExist == ASSUME NEW h PROVE \E f : IsFold(f, h, SUBSET Train)
PROOF
<1> DEFINE Without == {n \in Nat : ~ \E f : IsFold(f, h, UpTo(n))}
<1>1. Without = {}
  <2> SUFFICES ASSUME Without # {} PROVE FALSE
    OBVIOUS
  <2>1. PICK n \in Without : \A m \in Without : n <= m
    <3>1. Without \in SUBSET Nat
      OBVIOUS
    <3> HIDE DEF Without
    <3> QED
      BY <3>1, LeastNatural
  <2>2. n # 0
    <3> DEFINE f == [S \in UpTo(0) |-> 0]
    <3>1. \A S \in UpTo(0) : S = {}
      BY SubsetFacts DEF UpTo
    <3>2. IsFold(f, h, UpTo(0))
      BY <3>1, Zenon DEF IsFold
    <3> QED
      BY <3>2, Zenon
  <2>3. n \in Nat /\ n - 1 \in Nat /\ ~(n <= n - 1)
    BY <2>1, <2>2
  <2>4. PICK f : IsFold(f, h, UpTo(n - 1))
    <3>1. n - 1 \notin Without
      BY <2>1, <2>3, Zenon
    <3> QED
      BY <2>3, <3>1, Zenon
  <2> DEFINE g == [S \in UpTo(n) |-> IF S = {} THEN 0 ELSE h[Some(S)] + f[S \ {Some(S)}]]
  <2>5. ASSUME NEW S \in UpTo(n - 1) PROVE g[S] = f[S]
    <3>1. S \in UpTo(n)
      BY <2>3, SubsetFacts DEF UpTo
    <3> QED
      BY <2>4, <3>1, Zenon DEF IsFold
  <2>6. ASSUME NEW S \in UpTo(n), S # {} PROVE S \ {Some(S)} \in UpTo(n - 1)
    BY <2>3, <2>6, SubsetFacts DEF UpTo
  <2>7. IsFold(g, h, UpTo(n))
    <3>1. ASSUME NEW S \in UpTo(n)
          PROVE  g[S] = IF S = {} THEN 0 ELSE h[Some(S)] + g[S \ {Some(S)}]
      <4>1. CASE S = {}
        BY <4>1, Zenon
      <4>2. CASE S # {}
        <5>1. g[S \ {Some(S)}] = f[S \ {Some(S)}]
          BY <2>5, <2>6, <4>2, Zenon
        <5>2. g[S] = h[Some(S)] + f[S \ {Some(S)}]
          BY <4>2, Zenon
        <5> QED
          BY <4>2, <5>1, <5>2, Zenon
      <4> QED
        BY <4>1, <4>2
    <3>2. g = [S \in UpTo(n) |-> g[S]]
      BY Zenon
    <3> HIDE DEF g
    <3> QED
      BY <3>1, <3>2, Zenon DEF IsFold
  <2> QED
    BY <2>1, <2>7, Zenon
<1>2. UpTo(Cardinality(Train)) = SUBSET Train /\ Cardinality(Train) \in Nat
  <2>1. IsFiniteSet(Train)
    BY TrainFacts
  <2>2. \A S \in SUBSET Train : Cardinality(S) <= Cardinality(Train)
    BY <2>1, FS_Subset
  <2> QED
    BY <2>1, <2>2, FS_CardinalityType DEF UpTo
<1>3. PICK f : IsFold(f, h, UpTo(Cardinality(Train)))
  BY <1>1, <1>2, Zenon
<1> QED
  BY <1>2, <1>3, Zenon DEF IsFold

\* Of numbers, the sum is a number and any term may be taken first.
Numbers(h, A) == \A x \in A : h[x] \in Int
Adds(f, h, A) ==
    /\ f[{}] = 0
    /\ \A S \in SUBSET A : f[S] \in Int /\ \A x \in S : f[S] = h[x] + f[S \ {x}]

LEMMA FoldFacts ==
    ASSUME NEW h, NEW f, NEW A, A \subseteq Train, IsFold(f, h, SUBSET Train), Numbers(h, A)
    PROVE  Adds(f, h, A)
PROOF
<1>0. A \in SUBSET Train /\ \A x \in A : h[x] \in Int
  BY DEF Numbers
<1> DEFINE Good(S) == f[S] \in Int /\ \A x \in S : f[S] = h[x] + f[S \ {x}]
           Bad == {Cardinality(S) : S \in {R \in SUBSET A : ~Good(R)}}
<1>1. f[{}] = 0
  BY Zenon DEF IsFold
<1>2. ASSUME NEW S \in SUBSET A, S # {} PROVE f[S] = h[Some(S)] + f[S \ {Some(S)}]
  <2>1. S \in SUBSET Train
    OBVIOUS
  <2> QED
    BY <1>2, <2>1, Zenon DEF IsFold
<1>3. Bad = {}
  <2> SUFFICES ASSUME Bad # {} PROVE FALSE
    OBVIOUS
  <2>1. Bad \in SUBSET Nat
    BY SubsetFacts
  <2>2. PICK n \in Bad : \A m \in Bad : n <= m
    <3> HIDE DEF Bad
    <3> QED
      BY <2>1, LeastNatural
  <2>3. PICK S \in SUBSET A : n = Cardinality(S) /\ ~Good(S)
    BY <2>2
  <2> HIDE DEF Good
  <2>4. ASSUME NEW R \in SUBSET A, Cardinality(R) < n PROVE Good(R)
    <3>1. Cardinality(R) \in Nat
      BY SubsetFacts
    <3>2. Cardinality(R) \notin Bad
      BY <2>1, <2>2, <2>4, <3>1
    <3> QED
      BY <3>2
  <2>5. S # {}
    <3> SUFFICES ASSUME S = {} PROVE FALSE
      OBVIOUS
    <3>1. f[S] = 0 /\ \A x \in S : FALSE
      BY <1>1, Zenon
    <3>2. Good(S)
      BY <3>1 DEF Good
    <3> QED
      BY <2>3, <3>2
  <2>6. PICK c \in S : c = Some(S)
    BY <2>5, SubsetFacts
  <2>7. /\ \A x \in S : S \ {x} \in SUBSET A /\ Cardinality(S \ {x}) = n - 1 /\ n \in Nat
    BY <2>3, SubsetFacts
  <2>8. \A x \in S : Good(S \ {x})
    BY <2>4, <2>7
  <2>9. f[S] = h[c] + f[S \ {c}] /\ h[c] \in Int /\ f[S \ {c}] \in Int
    BY <1>0, <1>2, <2>5, <2>6, <2>8 DEF Good
  <2>10. ASSUME NEW x \in S, x # c PROVE f[S] = h[x] + f[S \ {x}]
    <3>1. x \in S \ {c} /\ c \in S \ {x} /\ (S \ {c}) \ {x} = (S \ {x}) \ {c}
      BY <2>10
    <3>2. f[S \ {c}] = h[x] + f[(S \ {c}) \ {x}]
      BY <2>8, <3>1 DEF Good
    <3>3. f[S \ {x}] = h[c] + f[(S \ {x}) \ {c}]
      BY <2>8, <3>1 DEF Good
    <3>4. h[x] \in Int /\ f[S \ {x}] \in Int
      BY <1>0, <2>8 DEF Good
    <3>5. f[(S \ {x}) \ {c}] \in Int
      <4>1. (S \ {x}) \ {c} \in SUBSET A /\ S \ {x} \in SUBSET Train
        OBVIOUS
      <4>2. Cardinality((S \ {x}) \ {c}) = n - 2 /\ n - 2 < n
        <5>1. Cardinality((S \ {x}) \ {c}) = Cardinality(S \ {x}) - 1
          BY <3>1, <4>1, SubsetFacts
        <5> QED
          BY <2>7, <5>1
      <4> QED
        BY <2>4, <4>1, <4>2 DEF Good
    <3>6. PICK v \in Int : v = f[(S \ {x}) \ {c}] /\ v = f[(S \ {c}) \ {x}]
      BY <3>1, <3>5, Zenon
    <3> QED
      BY <2>9, <3>2, <3>3, <3>4, <3>6
  <2>11. Good(S)
    <3>1. f[S] \in Int
      BY <2>9
    <3>2. ASSUME NEW x \in S PROVE f[S] = h[x] + f[S \ {x}]
      <4>1. CASE x = c
        BY <2>9, <4>1, Zenon
      <4>2. CASE x # c
        BY <2>10, <4>2
      <4> QED
        BY <4>1, <4>2
    <3> QED
      BY <3>1, <3>2, Zenon DEF Good
  <2> QED
    BY <2>3, <2>11
<1>4. ASSUME NEW S \in SUBSET A PROVE Good(S)
  BY <1>3
<1> QED
  BY <1>1, <1>4 DEF Adds

-----------------------------------------------------------------------------
(* Intervals measured round the loop.                                      *)

\* A finite ring of trains: m the first, t the last, next the one after a train.
Placed(A, p) ==
    /\ \A x \in A : p[x] \in Nat /\ p[x] <= Length
    /\ \A x, y \in A : p[x] = p[y] => x = y
Bounds(A, p, m, t) == m \in A /\ t \in A /\ \A x \in A : p[m] <= p[x] /\ p[x] <= p[t]
Follows(A, p, t, next) ==
    \A x \in A \ {t} : /\ next[x] \in A /\ p[x] < p[next[x]]
                       /\ \A y \in A : p[x] < p[y] => p[next[x]] <= p[y]

\* Each but the first follows one, and those behind it are that one and those
\* behind that one.
LEMMA Predecessor ==
    ASSUME NEW A, NEW p, NEW m, NEW t, NEW next,
           Placed(A, p), Bounds(A, p, m, t), Follows(A, p, t, next), NEW x \in A \ {m}
    PROVE  \E w \in A \ {t} : /\ p[w] < p[x] /\ next[w] = x
                              /\ {y \in A : p[y] < p[x]} \ {w} = {y \in A : p[y] < p[w]}
PROOF
<1> DEFINE Behind == {y \in A : p[y] < p[x]}
           W == {p[y] : y \in Behind}
<1>1. Length \in Nat
  BY StartsOrdered
<1>2. \A y \in A : p[y] \in Nat /\ p[y] <= Length
  BY DEF Placed
<1>3. m \in Behind
  BY <1>2 DEF Placed, Bounds
<1>4. W \in SUBSET (0..Length) /\ W # {}
  <2>1. \A y \in Behind : p[y] \in 0..Length
    BY <1>1, <1>2
  <2> HIDE DEF Behind
  <2> QED
    BY <1>3, <2>1
<1>5. PICK q \in W : \A k \in W : k <= q
  <2> HIDE DEF W
  <2> QED
    BY <1>1, <1>4, GreatestNatural
<1>6. PICK w \in Behind : q = p[w]
  BY <1>5
<1>7. \A y \in Behind : p[y] <= p[w]
  BY <1>5, <1>6
<1>8. w \in A /\ p[w] < p[x] /\ p[w] \in Nat /\ p[x] \in Nat
  BY <1>2
<1>9. w # t
  BY <1>2, <1>8 DEF Bounds
<1>10. next[w] = x
  <2>1. next[w] \in A /\ p[w] < p[next[w]] /\ p[next[w]] <= p[x]
    BY <1>8, <1>9 DEF Follows
  <2>2. p[next[w]] \in Nat
    BY <1>2, <2>1
  <2>3. ~(p[next[w]] < p[x])
    <3> SUFFICES ASSUME p[next[w]] < p[x] PROVE FALSE
      OBVIOUS
    <3>1. next[w] \in Behind
      BY <2>1
    <3>2. p[next[w]] <= p[w]
      BY <1>7, <3>1
    <3> QED
      BY <1>8, <2>1, <2>2, <3>2
  <2>4. p[next[w]] = p[x]
    BY <1>8, <2>1, <2>2, <2>3
  <2> QED
    BY <2>1, <2>4 DEF Placed
<1>11. ASSUME NEW y \in A PROVE y \in Behind \ {w} <=> p[y] < p[w]
  <2>1. p[y] \in Nat
    BY <1>2
  <2>2. ASSUME y \in Behind, y # w PROVE p[y] < p[w]
    <3>1. p[y] <= p[w]
      BY <1>7, <2>2
    <3>2. p[y] # p[w]
      BY <1>8, <2>2 DEF Placed
    <3> QED
      BY <1>8, <2>1, <3>1, <3>2
  <2>3. ASSUME p[y] < p[w] PROVE y \in Behind /\ y # w
    BY <1>8, <2>1, <2>3
  <2> QED
    BY <2>2, <2>3
<1>12. Behind \ {w} = {y \in A : p[y] < p[w]}
  BY <1>11
<1> QED
  BY <1>8, <1>9, <1>10, <1>12

Differences(A, h, u, t, next) == \A x \in A \ {t} : h[x] = u[next[x]] - u[x]
Closes(A, m, t, f, h, u) == f[A] = h[t] + u[t] - u[m]
Ring(A, p, m, t, next, f, h, u) ==
    /\ A \in SUBSET Train /\ Placed(A, p) /\ Bounds(A, p, m, t) /\ Follows(A, p, t, next)
    /\ IsFold(f, h, SUBSET Train) /\ Numbers(h, A)
    /\ Numbers(u, A) /\ Differences(A, h, u, t, next)

\* Terms that are differences to the next one round a ring add up to what the
\* last one closes the ring with.
LEMMA RingSum ==
    ASSUME NEW A, NEW p, NEW m, NEW t, NEW next, NEW f, NEW h, NEW u,
           Ring(A, p, m, t, next, f, h, u)
    PROVE  Closes(A, m, t, f, h, u)
PROOF
<1> USE DEF Ring, Closes
<1> DEFINE Behind(x) == {y \in A : p[y] < p[x]}
           Claim(x) == f[Behind(x)] = u[x] - u[m]
           Bad == {p[x] : x \in {z \in A : ~Claim(z)}}
<1>1. m \in A /\ t \in A /\ \A x \in A : u[x] \in Int /\ p[x] \in Nat /\ h[x] \in Int
  BY DEF Bounds, Placed, Numbers
<1>2. Adds(f, h, A)
  BY FoldFacts
<1>3. /\ f[{}] = 0
      /\ \A S \in SUBSET A : f[S] \in Int /\ \A x \in S : f[S] = h[x] + f[S \ {x}]
  BY <1>2 DEF Adds
<1>4. Bad = {}
  <2> SUFFICES ASSUME Bad # {} PROVE FALSE
    OBVIOUS
  <2>1. Bad \in SUBSET Nat
    BY <1>1
  <2>2. PICK n \in Bad : \A k \in Bad : n <= k
    <3> HIDE DEF Bad
    <3> QED
      BY <2>1, LeastNatural
  <2>3. PICK x \in A : n = p[x] /\ ~Claim(x)
    BY <2>2
  <2> HIDE DEF Claim
  <2>4. ASSUME NEW y \in A, p[y] < p[x] PROVE Claim(y)
    <3>1. p[y] \in Nat /\ p[x] \in Nat
      BY <1>1
    <3>2. ~(p[x] <= p[y])
      BY <2>4, <3>1
    <3>3. p[y] \notin Bad
      BY <2>2, <2>3, <3>2, Zenon
    <3> QED
      BY <3>3
  <2>5. x # m
    <3> SUFFICES ASSUME x = m PROVE FALSE
      OBVIOUS
    <3>1. \A y \in A : ~(p[y] < p[m])
      BY <1>1 DEF Bounds
    <3>2. Behind(m) = {}
      BY <3>1
    <3>3. f[Behind(m)] = u[m] - u[m]
      <4>1. f[Behind(m)] = 0
        BY <1>3, <3>2, Zenon
      <4>2. u[m] - u[m] = 0
        BY <1>1
      <4> QED
        BY <4>1, <4>2, Zenon
    <3> QED
      BY <2>3, <3>3, Zenon DEF Claim
  <2>6. PICK w \in A \ {t} : p[w] < p[x] /\ next[w] = x /\ Behind(x) \ {w} = Behind(w)
    BY <2>5, Predecessor
  <2>7. f[Behind(x)] = h[w] + f[Behind(x) \ {w}]
    <3>1. Behind(x) \in SUBSET A /\ w \in Behind(x)
      BY <2>6
    <3> HIDE DEF Behind
    <3> QED
      BY <1>3, <3>1
  <2>8. f[Behind(w)] = u[w] - u[m]
    BY <2>4, <2>6 DEF Claim
  <2>9. h[w] = u[x] - u[w]
    BY <2>6, Zenon DEF Differences
  <2>10. f[Behind(x)] = (u[x] - u[w]) + (u[w] - u[m])
    BY <2>6, <2>7, <2>8, <2>9, Zenon
  <2>11. u[w] \in Int /\ u[x] \in Int /\ u[m] \in Int
    BY <1>1
  <2> HIDE DEF Behind
  <2>12. f[Behind(x)] = u[x] - u[m]
    BY <2>10, <2>11
  <2> QED
    BY <2>3, <2>12 DEF Claim
<1>5. f[Behind(t)] = u[t] - u[m]
  BY <1>1, <1>4
<1>6. A \ {t} = Behind(t)
  <2>1. ASSUME NEW y \in A, y # t PROVE p[y] < p[t]
    <3>1. p[y] <= p[t] /\ p[y] # p[t]
      BY <1>1, <2>1, Zenon DEF Bounds, Placed
    <3>2. p[y] \in Nat /\ p[t] \in Nat
      BY <1>1
    <3> QED
      BY <3>1, <3>2
  <2>2. ~(p[t] < p[t])
    BY <1>1
  <2> QED
    BY <2>1, <2>2
<1>7. f[A] = h[t] + f[A \ {t}]
  BY <1>1, <1>3
<1>8. f[A] = h[t] + (u[t] - u[m])
  BY <1>5, <1>6, <1>7, Zenon
<1>9. h[t] \in Int /\ u[t] \in Int /\ u[m] \in Int
  BY <1>1
<1> QED
  BY <1>8, <1>9

\* Stops that a train stands exactly at are on nobody's way: they are past for
\* itself and not before the end of the gap of the one behind.
Taken(A, p) == {s \in Stops : \E x \in A : StartOf[s] = p[x]}
Free(A, p) == Stops \ Taken(A, p)
FreeBelow(A, p, v) == {s \in Free(A, p) : StartOf[s] < v}
Between(a, b) == {s \in Stops : a < StartOf[s] /\ StartOf[s] < b}
Outside(a, b) == {s \in Stops : a < StartOf[s] \/ StartOf[s] < b}

NominalStop == 100 * DwellNominal

LEMMA NominalFacts == NominalStop = 3000
PROOF
BY DEF NominalStop, DwellNominal

LEMMA StopStarts ==
    /\ \A s \in Stops : StartOf[s] \in Nat /\ StartOf[s] < Length
    /\ \A s, r \in Stops : StartOf[s] = StartOf[r] => s = r
PROOF
<1>1. Stops \subseteq Section
  BY RegulationAssumption
<1>2. ASSUME NEW s \in Stops PROVE StartOf[s] \in Nat /\ StartOf[s] < Length
  <2>1. s \in Section /\ StartOf[s] \in Nat /\ Run[s] \in Nat \ {0}
    BY <1>1, StartFacts, RunFacts
  <2>2. StartOf[s] + Run[s] <= Length /\ Length \in Nat
    BY <2>1, StartsOrdered
  <2> QED
    BY <2>1, <2>2
<1>3. ASSUME NEW s \in Stops, NEW r \in Stops, s < r PROVE StartOf[s] < StartOf[r]
  <2>1. StartOf[s] + Run[s] <= StartOf[r]
    BY <1>1, <1>3, StartsOrdered
  <2>2. StartOf[s] \in Nat /\ StartOf[r] \in Nat /\ Run[s] \in Nat \ {0}
    BY <1>1, StartFacts, RunFacts
  <2> QED
    BY <2>1, <2>2
<1>4. ASSUME NEW s \in Stops, NEW r \in Stops, StartOf[s] = StartOf[r] PROVE s = r
  <2>1. ~(s < r) /\ ~(r < s)
    BY <1>2, <1>3, <1>4
  <2>2. s \in Nat /\ r \in Nat
    BY <1>1, RunFacts
  <2> QED
    BY <2>1, <2>2
<1> QED
  BY <1>2, <1>4

LEMMA FreeFacts ==
    ASSUME NEW A, NEW p
    PROVE  /\ IsFiniteSet(Taken(A, p)) /\ IsFiniteSet(Free(A, p))
           /\ Cardinality(Taken(A, p)) \in Nat /\ Cardinality(Free(A, p)) \in Nat
           /\ Cardinality(Free(A, p)) = Cardinality(Stops) - Cardinality(Taken(A, p))
           /\ \A v : /\ IsFiniteSet(FreeBelow(A, p, v))
                    /\ Cardinality(FreeBelow(A, p, v)) \in Nat
PROOF
<1>1. IsFiniteSet(Stops) /\ Taken(A, p) \in SUBSET Stops
  BY StopFacts DEF Taken
<1>2. IsFiniteSet(Taken(A, p)) /\ IsFiniteSet(Free(A, p))
  BY <1>1, FS_Subset, FS_Difference DEF Free
<1>3. Cardinality(Free(A, p)) = Cardinality(Stops) - Cardinality(Stops \cap Taken(A, p))
  BY <1>1, FS_Difference DEF Free
<1>4. Stops \cap Taken(A, p) = Taken(A, p)
  BY <1>1
<1>5. ASSUME NEW v PROVE IsFiniteSet(FreeBelow(A, p, v)) /\ Cardinality(FreeBelow(A, p, v)) \in Nat
  <2>1. FreeBelow(A, p, v) \in SUBSET Free(A, p)
    BY DEF FreeBelow
  <2> QED
    BY <1>2, <2>1, FS_Subset, FS_CardinalityType
<1> QED
  BY <1>2, <1>3, <1>4, <1>5, FS_CardinalityType

NextUp(A, p, x, y) == x \in A /\ y \in A /\ p[x] < p[y] /\ \A z \in A : p[x] < p[z] => p[y] <= p[z]
Counted(A, p, x, y) ==
    Cardinality(Between(p[x], p[y])) = Cardinality(FreeBelow(A, p, p[y])) - Cardinality(FreeBelow(A, p, p[x]))

LEMMA StopsBetween ==
    ASSUME NEW A, NEW p, NEW x, NEW y, Placed(A, p), NextUp(A, p, x, y)
    PROVE  Counted(A, p, x, y)
PROOF
<1> USE DEF NextUp, Counted
<1> DEFINE B == {s \in Stops : p[x] < StartOf[s] /\ StartOf[s] < p[y]}
           F == FreeBelow(A, p, p[y])
           G == FreeBelow(A, p, p[x])
<1>1. \A z \in A : p[z] \in Nat
  BY DEF Placed
<1>2. ASSUME NEW s \in Stops PROVE s \in F <=> StartOf[s] < p[y] /\ s \notin Taken(A, p)
  BY DEF FreeBelow, Free
<1>3. ASSUME NEW s \in Stops PROVE s \in G <=> StartOf[s] < p[x] /\ s \notin Taken(A, p)
  BY DEF FreeBelow, Free
<1>4. ASSUME NEW s \in B PROVE s \notin Taken(A, p)
  <2> SUFFICES ASSUME NEW z \in A, StartOf[s] = p[z] PROVE FALSE
    BY DEF Taken
  <2>1. p[x] < p[z] /\ p[z] < p[y]
    OBVIOUS
  <2>2. p[y] <= p[z]
    BY <2>1
  <2> QED
    BY <1>1, <2>1, <2>2
<1>5. G \subseteq Stops /\ F \subseteq Stops /\ B \subseteq Stops
  BY DEF FreeBelow, Free
<1>6. \A s \in Stops : StartOf[s] = p[x] => s \in Taken(A, p)
  BY DEF Taken
<1>7. ASSUME NEW s \in Stops PROVE s \in B <=> s \in F /\ s \notin G
  <2>1. StartOf[s] \in Nat /\ p[x] \in Nat /\ p[y] \in Nat
    BY <1>1, StopStarts
  <2>2. s \in B <=> p[x] < StartOf[s] /\ StartOf[s] < p[y]
    OBVIOUS
  <2> HIDE DEF B, F, G
  <2>3. ASSUME s \in B PROVE s \in F /\ s \notin G
    BY <1>2, <1>3, <1>4, <2>1, <2>2, <2>3
  <2>4. ASSUME s \in F, s \notin G PROVE s \in B
    BY <1>2, <1>3, <1>6, <2>1, <2>2, <2>4
  <2> QED
    BY <2>3, <2>4
<1>8. ASSUME NEW s \in G PROVE s \in F
  <2>1. s \in Stops
    BY <1>5
  <2>2. StartOf[s] \in Nat /\ p[x] \in Nat /\ p[y] \in Nat
    BY <1>1, <2>1, StopStarts
  <2> HIDE DEF F, G
  <2> QED
    BY <1>2, <1>3, <2>1, <2>2
<1> HIDE DEF B, F, G
<1>9. B = F \ G /\ F \cap G = G
  BY <1>5, <1>7, <1>8
<1>10. IsFiniteSet(F)
  BY FreeFacts DEF F
<1>11. Cardinality(B) = Cardinality(F) - Cardinality(G)
  BY <1>9, <1>10, FS_Difference
<1> QED
  BY <1>11 DEF B, F, G, Between

LEMMA StopsPast ==
    ASSUME NEW A, NEW p, NEW m, NEW t, Placed(A, p), Bounds(A, p, m, t)
    PROVE  Cardinality(Outside(p[t], p[m]))
             = Cardinality(Free(A, p)) - Cardinality(FreeBelow(A, p, p[t]))
               + Cardinality(FreeBelow(A, p, p[m]))
PROOF
<1> DEFINE B == {s \in Stops : p[t] < StartOf[s] \/ StartOf[s] < p[m]}
           E == Free(A, p)
           F == FreeBelow(A, p, p[t])
           G == FreeBelow(A, p, p[m])
<1>1. m \in A /\ t \in A /\ p[m] <= p[t] /\ \A z \in A : p[z] \in Nat /\ p[m] <= p[z] /\ p[z] <= p[t]
  BY DEF Placed, Bounds
<1>2. E \subseteq Stops /\ F \subseteq E /\ G \subseteq E
  BY DEF FreeBelow, Free
<1>3. ASSUME NEW s \in Stops
      PROVE  /\ s \in E <=> s \notin Taken(A, p)
             /\ s \in F <=> s \in E /\ StartOf[s] < p[t]
             /\ s \in G <=> s \in E /\ StartOf[s] < p[m]
             /\ s \in B <=> p[t] < StartOf[s] \/ StartOf[s] < p[m]
  BY DEF FreeBelow, Free
<1>4. \A s \in Stops : StartOf[s] = p[t] => s \in Taken(A, p)
  BY <1>1 DEF Taken
<1>5. ASSUME NEW s \in B PROVE s \notin Taken(A, p)
  <2> SUFFICES ASSUME NEW z \in A, StartOf[s] = p[z] PROVE FALSE
    BY DEF Taken
  <2> QED
    BY <1>1
<1>6. ASSUME NEW s \in Stops
      PROVE  /\ s \in B <=> s \in E \ F \/ s \in G
             /\ ~(s \in E \ F /\ s \in G)
  <2>1. StartOf[s] \in Nat /\ p[m] \in Nat /\ p[t] \in Nat
    BY <1>1, StopStarts
  <2> HIDE DEF B, E, F, G
  <2>2. ASSUME s \in B PROVE s \in E \ F \/ s \in G
    BY <1>3, <1>5, <2>1, <2>2
  <2>3. ASSUME s \in E \ F PROVE s \in B
    BY <1>3, <1>4, <2>1, <2>3
  <2>4. ASSUME s \in G PROVE s \in B /\ s \in F
    BY <1>1, <1>3, <2>1, <2>4
  <2> QED
    BY <2>2, <2>3, <2>4
<1>7. B \subseteq Stops
  OBVIOUS
<1> HIDE DEF B, E, F, G
<1>8. B = (E \ F) \cup G /\ (E \ F) \cap G = {} /\ E \cap F = F
  BY <1>2, <1>6, <1>7
<1>9. IsFiniteSet(E) /\ IsFiniteSet(F) /\ IsFiniteSet(G)
  BY FreeFacts DEF E, F, G
<1>10. IsFiniteSet(E \ F) /\ Cardinality(E \ F) = Cardinality(E) - Cardinality(F)
  BY <1>8, <1>9, FS_Difference
<1>11. Cardinality(B) = Cardinality(E \ F) + Cardinality(G) - 0
  BY <1>8, <1>9, <1>10, FS_Union, FS_EmptySet
<1>12. Cardinality(E) \in Nat /\ Cardinality(F) \in Nat /\ Cardinality(G) \in Nat
  BY FreeFacts DEF E, F, G
<1> QED
  BY <1>10, <1>11, <1>12 DEF B, E, F, G, Outside

\* As many stops are taken as trains stand at one.
LEMMA TakenCount ==
    ASSUME NEW A, NEW p, Placed(A, p)
    PROVE  Cardinality(Taken(A, p)) = Cardinality({x \in A : \E s \in Stops : p[x] = StartOf[s]})
PROOF
<1> DEFINE T == Taken(A, p)
           X == {x \in A : \E s \in Stops : p[x] = StartOf[s]}
           standing(s) == CHOOSE x \in A : StartOf[s] = p[x]
           g == [s \in T |-> standing(s)]
<1>1. ASSUME NEW s \in T PROVE s \in Stops /\ standing(s) \in A /\ StartOf[s] = p[standing(s)] /\ standing(s) \in X
  BY DEF Taken
<1>2. ASSUME NEW x \in X PROVE \E s \in T : standing(s) = x
  <2>1. PICK s \in Stops : p[x] = StartOf[s]
    OBVIOUS
  <2>2. s \in T
    BY <2>1 DEF Taken
  <2>3. p[standing(s)] = p[x] /\ standing(s) \in A /\ x \in A
    BY <1>1, <2>1, <2>2
  <2>4. standing(s) = x
    BY <2>3 DEF Placed
  <2> QED
    BY <2>2, <2>4
<1>3. ASSUME NEW s \in T, NEW r \in T, standing(s) = standing(r) PROVE s = r
  <2>1. StartOf[s] = StartOf[r] /\ s \in Stops /\ r \in Stops
    BY <1>1, <1>3
  <2> QED
    BY <2>1, StopStarts
<1> HIDE DEF T, X, standing
<1>4. g \in [T -> X]
  BY <1>1
<1>5. g \in Bijection(T, X)
  <2>1. \A s, r \in T : g[s] = g[r] => s = r
    BY <1>3
  <2>2. \A x \in X : \E s \in T : g[s] = x
    BY <1>2
  <2> HIDE DEF g
  <2> QED
    BY <1>4, <2>1, <2>2 DEF Bijection, Injection, IsInjective, Surjection
<1>6. IsFiniteSet(T)
  BY FreeFacts DEF T
<1>7. Cardinality(T) = Cardinality(X)
  BY <1>5, <1>6, FS_Bijection DEF ExistsBijection
<1> QED
  BY <1>7 DEF T, X

\* How far ahead a stop is, going round the loop.
LEMMA WayTo ==
    ASSUME NEW d \in Int, -Length < d, d < Length
    PROVE  d % Length = IF d >= 0 THEN d ELSE d + Length
PROOF
<1>1. Length \in Nat \ {0}
  BY StartsOrdered
<1>2. PICK l \in Nat \ {0} : l = Length
  BY <1>1
<1>3. CASE d >= 0
  BY <1>2, <1>3
<1>4. CASE ~(d >= 0)
  BY <1>2, <1>4
<1> QED
  BY <1>3, <1>4

LEMMA WithinGap ==
    ASSUME NEW a \in 0..(Length - 1), NEW g \in 1..Length
    PROVE  /\ a + g < Length => StopsWithin(a, g) = {s \in Stops : a < StartOf[s] /\ StartOf[s] < a + g}
           /\ a + g >= Length => StopsWithin(a, g) = {s \in Stops : a < StartOf[s] \/ StartOf[s] < a + g - Length}
PROOF
<1>1. Length \in Nat \ {0}
  BY StartsOrdered
<1>2. ASSUME NEW s \in Stops
      PROVE  /\ StartOf[s] \in Nat /\ StartOf[s] < Length
             /\ (StartOf[s] - a) % Length = IF StartOf[s] >= a THEN StartOf[s] - a ELSE StartOf[s] - a + Length
  <2>1. StartOf[s] \in Nat /\ StartOf[s] < Length
    BY StopStarts
  <2>2. PICK d \in Int : d = StartOf[s] - a /\ -Length < d /\ d < Length
    BY <1>1, <2>1
  <2>3. d % Length = IF d >= 0 THEN d ELSE d + Length
    BY <2>2, WayTo
  <2> QED
    BY <1>1, <2>1, <2>2, <2>3
<1>3. ASSUME a + g < Length
      PROVE  StopsWithin(a, g) = {s \in Stops : a < StartOf[s] /\ StartOf[s] < a + g}
  <2>1. ASSUME NEW s \in Stops
        PROVE  (0 < (StartOf[s] - a) % Length /\ (StartOf[s] - a) % Length < g)
                 <=> a < StartOf[s] /\ StartOf[s] < a + g
    BY <1>1, <1>2, <1>3
  <2> QED
    BY <2>1 DEF StopsWithin
<1>4. ASSUME a + g >= Length
      PROVE  StopsWithin(a, g) = {s \in Stops : a < StartOf[s] \/ StartOf[s] < a + g - Length}
  <2>1. ASSUME NEW s \in Stops
        PROVE  (0 < (StartOf[s] - a) % Length /\ (StartOf[s] - a) % Length < g)
                 <=> a < StartOf[s] \/ StartOf[s] < a + g - Length
    BY <1>1, <1>2, <1>4
  <2> QED
    BY <2>1 DEF StopsWithin
<1> QED
  BY <1>3, <1>4

\* The sum the model takes is such a fold of the measured intervals.
LEMMA FoldedSumFacts == \E h, f : /\ h = [x \in Train |-> MeasuredHeadway(x)]
                                 /\ f = FoldedSum /\ IsFold(f, h, SUBSET Train)
PROOF
<1>1. PICK h : h = [x \in Train |-> MeasuredHeadway(x)]
  OBVIOUS
<1>2. ASSUME NEW f
      PROVE  [S \in SUBSET Train |-> IF S = {} THEN 0
                ELSE LET x == CHOOSE y \in S : TRUE IN MeasuredHeadway(x) + f[S \ {x}]]
             = [S \in SUBSET Train |-> IF S = {} THEN 0 ELSE h[Some(S)] + f[S \ {Some(S)}]]
  <2>1. ASSUME NEW S \in SUBSET Train
        PROVE  (IF S = {} THEN 0 ELSE LET x == CHOOSE y \in S : TRUE IN MeasuredHeadway(x) + f[S \ {x}])
               = (IF S = {} THEN 0 ELSE h[Some(S)] + f[S \ {Some(S)}])
    <3>1. CASE S = {}
      BY <3>1, Zenon
    <3>2. CASE S # {}
      <4>1. Some(S) \in Train
        BY <3>2, SubsetFacts
      <4>2. h[Some(S)] = MeasuredHeadway(Some(S))
        BY <1>1, <4>1
      <4>3. Some(S) = CHOOSE y \in S : TRUE
        BY DEF Some
      <4> QED
        BY <3>2, <4>2, <4>3, Zenon
    <3> QED
      BY <3>1, <3>2
  <2> QED
    BY <2>1, Zenon
<1>3. PICK f : IsFold(f, h, SUBSET Train)
  BY FoldsExist
<1>4. f = [S \in SUBSET Train |-> IF S = {} THEN 0
              ELSE LET x == CHOOSE y \in S : TRUE IN MeasuredHeadway(x) + f[S \ {x}]]
  BY <1>2, <1>3, Zenon DEF IsFold
<1>5. FoldedSum = [S \in SUBSET Train |-> IF S = {} THEN 0
              ELSE LET x == CHOOSE y \in S : TRUE IN MeasuredHeadway(x) + FoldedSum[S \ {x}]]
  BY <1>4, Zenon DEF FoldedSum
<1>6. PICK g : g = FoldedSum
  OBVIOUS
<1>7. g = [S \in SUBSET Train |-> IF S = {} THEN 0
              ELSE LET x == CHOOSE y \in S : TRUE IN MeasuredHeadway(x) + g[S \ {x}]]
  BY <1>5, <1>6, Zenon
<1>8. IsFold(g, h, SUBSET Train)
  BY <1>2, <1>7, Zenon DEF IsFold
<1> QED
  BY <1>1, <1>6, <1>8

\* Who is ahead, when no two trains are reported at one place.
LEMMA RingOfTrains ==
    ASSUME Reported, NEW A, A = Active, NEW p, p = [x \in Train |-> report[x].pos], Placed(A, p),
           NEW m, NEW t, Bounds(A, p, m, t)
    PROVE  /\ \A x \in A \ {t} : /\ Ahead(x) \in A /\ p[x] < p[Ahead(x)]
                                 /\ \A y \in A : p[x] < p[y] => p[Ahead(x)] <= p[y]
           /\ Ahead(t) = m
PROOF
<1>1. A \subseteq Train /\ \A x \in A : p[x] = report[x].pos /\ p[x] \in Nat
  BY ReportFacts DEF Active
<1>2. ASSUME NEW x \in A, NEW y \in A PROVE Precedes(x, y) <=> p[x] < p[y]
  <2>1. CASE x = y
    BY <1>1, <2>1, TrainFacts DEF Precedes
  <2>2. CASE x # y
    <3>1. p[x] # p[y]
      BY <2>2 DEF Placed
    <3> QED
      BY <1>1, <3>1 DEF Precedes
  <2> QED
    BY <2>1, <2>2
<1>3. t \in A /\ m \in A /\ \A x \in A : p[m] <= p[x] /\ p[x] <= p[t]
  BY DEF Bounds
<1>4. ASSUME NEW x \in A \ {t}
      PROVE  /\ Ahead(x) \in A /\ p[x] < p[Ahead(x)]
             /\ \A y \in A : p[x] < p[y] => p[Ahead(x)] <= p[y]
  <2>1. p[x] < p[t]
    <3>1. p[x] <= p[t] /\ p[x] # p[t]
      BY <1>3 DEF Placed
    <3> QED
      BY <1>1, <1>3, <3>1
  <2>2. {y \in A : Precedes(x, y)} # {}
    BY <1>2, <1>3, <2>1
  <2>3. /\ Ahead(x) \in {y \in A : Precedes(x, y)}
        /\ \A z \in {y \in A : Precedes(x, y)} : z = Ahead(x) \/ Precedes(Ahead(x), z)
    BY <2>2, AheadFacts
  <2>4. ASSUME NEW y \in A, p[x] < p[y] PROVE p[Ahead(x)] <= p[y]
    <3>1. y = Ahead(x) \/ Precedes(Ahead(x), y)
      BY <1>2, <2>3, <2>4
    <3>2. y = Ahead(x) \/ p[Ahead(x)] < p[y]
      BY <1>2, <2>3, <3>1
    <3>3. Ahead(x) \in A
      BY <2>3
    <3> QED
      BY <1>1, <3>2, <3>3
  <2> QED
    BY <1>2, <2>3, <2>4
<1>5. Ahead(t) = m
  <2>1. {y \in A : Precedes(t, y)} = {}
    BY <1>1, <1>2, <1>3
  <2>2. Ahead(t) \in A /\ \A z \in A : z = Ahead(t) \/ Precedes(Ahead(t), z)
    BY <1>3, <2>1, AheadFacts
  <2>3. m = Ahead(t) \/ p[Ahead(t)] < p[m]
    BY <1>2, <1>3, <2>2
  <2> QED
    BY <1>1, <1>3, <2>2, <2>3
<1> QED
  BY <1>4, <1>5

\* The interval to the train ahead: the running time, and the nominal dwell at
\* every free stop in between.
LEMMA IntervalFacts ==
    ASSUME Reported, NEW A, A = Active, NEW p, p = [x \in Train |-> report[x].pos], Placed(A, p),
           NEW m, NEW t, Bounds(A, p, m, t), m # t
    PROVE  /\ \A x \in A \ {t} : MeasuredHeadway(x) =
                 p[Ahead(x)] - p[x] + NominalStop * (Cardinality(FreeBelow(A, p, p[Ahead(x)]))
                                              - Cardinality(FreeBelow(A, p, p[x])))
           /\ MeasuredHeadway(t) =
                 p[m] - p[t] + Length + NominalStop * (Cardinality(Free(A, p)) - Cardinality(FreeBelow(A, p, p[t]))
                                                + Cardinality(FreeBelow(A, p, p[m])))
PROOF
<1>1. Length \in Nat \ {0}
  BY StartsOrdered
<1>2. A \subseteq Train /\ \A x \in A : p[x] = report[x].pos /\ p[x] \in 0..(Length - 1)
  BY ReportFacts DEF Active
<1>3. /\ \A x \in A \ {t} : /\ Ahead(x) \in A /\ p[x] < p[Ahead(x)]
                            /\ \A y \in A : p[x] < p[y] => p[Ahead(x)] <= p[y]
      /\ Ahead(t) = m
  BY RingOfTrains
<1>4. ASSUME NEW x \in A, NEW g \in 1..Length, g = Gap(x)
      PROVE  MeasuredHeadway(x) = g + NominalStop * Cardinality(StopsWithin(p[x], g))
  BY <1>2, <1>4 DEF MeasuredHeadway, TraversalTime, NominalStop
<1>5. ASSUME NEW x \in A \ {t}
      PROVE  MeasuredHeadway(x) =
                 p[Ahead(x)] - p[x] + NominalStop * (Cardinality(FreeBelow(A, p, p[Ahead(x)]))
                                              - Cardinality(FreeBelow(A, p, p[x])))
  <2>1. PICK y \in A : y = Ahead(x) /\ p[x] < p[y] /\ \A z \in A : p[x] < p[z] => p[y] <= p[z]
    BY <1>3
  <2>2. p[x] \in 0..(Length - 1) /\ p[y] \in 0..(Length - 1)
    BY <1>2
  <2>3. PICK g \in 1..Length : g = p[y] - p[x]
    BY <1>1, <2>1, <2>2
  <2>4. Gap(x) = g
    BY <1>2, <2>1, <2>2, <2>3 DEF Gap
  <2>5. p[x] + g = p[y] /\ p[y] < Length
    BY <1>1, <2>2, <2>3
  <2>6. StopsWithin(p[x], g) = Between(p[x], p[y])
    BY <2>2, <2>5, WithinGap DEF Between
  <2>7. Cardinality(Between(p[x], p[y]))
          = Cardinality(FreeBelow(A, p, p[y])) - Cardinality(FreeBelow(A, p, p[x]))
    <3>1. NextUp(A, p, x, y)
      BY <2>1 DEF NextUp
    <3>2. Counted(A, p, x, y)
      BY <3>1, StopsBetween, Zenon
    <3> QED
      BY <3>2, Zenon DEF Counted
  <2>8. MeasuredHeadway(x) = g + NominalStop * Cardinality(StopsWithin(p[x], g))
    BY <1>4, <2>4
  <2>9. MeasuredHeadway(x) =
          p[y] - p[x] + NominalStop * (Cardinality(FreeBelow(A, p, p[y])) - Cardinality(FreeBelow(A, p, p[x])))
    BY <2>3, <2>6, <2>7, <2>8, Zenon
  <2> QED
    BY <2>1, <2>9, Zenon
<1>6. MeasuredHeadway(t) =
         p[m] - p[t] + Length + NominalStop * (Cardinality(Free(A, p)) - Cardinality(FreeBelow(A, p, p[t]))
                                        + Cardinality(FreeBelow(A, p, p[m])))
  <2>1. t \in A /\ m \in A /\ p[m] < p[t]
    <3>1. t \in A /\ m \in A /\ p[m] <= p[t] /\ p[m] # p[t]
      BY DEF Bounds, Placed
    <3> QED
      BY <1>2, <3>1
  <2>2. p[m] \in 0..(Length - 1) /\ p[t] \in 0..(Length - 1)
    BY <1>2, <2>1
  <2>3. PICK g \in 1..Length : g = p[m] - p[t] + Length
    BY <1>1, <2>1, <2>2
  <2>4. Gap(t) = g
    BY <1>1, <1>2, <1>3, <2>1, <2>2, <2>3 DEF Gap
  <2>5. p[t] + g >= Length /\ p[t] + g - Length = p[m]
    BY <1>1, <2>2, <2>3
  <2>6. StopsWithin(p[t], g) = Outside(p[t], p[m])
    BY <2>2, <2>5, WithinGap DEF Outside
  <2>7. Cardinality(Outside(p[t], p[m])) = Cardinality(Free(A, p)) - Cardinality(FreeBelow(A, p, p[t]))
                                           + Cardinality(FreeBelow(A, p, p[m]))
    BY StopsPast
  <2>8. MeasuredHeadway(t) = g + NominalStop * Cardinality(StopsWithin(p[t], g))
    BY <1>4, <2>1, <2>4
  <2> QED
    BY <2>3, <2>6, <2>7, <2>8, Zenon
<1> QED
  BY <1>5, <1>6

LEMMA AddUp == TypeOK => IntervalsAddUp
PROOF
<1> SUFFICES ASSUME TypeOK, Cardinality(Active) > 1,
                    \A x, y \in Active : x # y => report[x].pos # report[y].pos
             PROVE  FoldedSum[Active] = CycleTime - 100 * DwellNominal *
                       Cardinality({x \in Active : \E s \in Stops : report[x].pos = StartOf[s]})
  BY Zenon DEF IntervalsAddUp
<1>1. Reported
  BY DEF TypeOK, Reported
<1>2. PICK A : A = Active
  OBVIOUS
<1>3. PICK p : p = [x \in Train |-> report[x].pos]
  OBVIOUS
<1>4. A \in SUBSET Train /\ \A x \in A : p[x] = report[x].pos /\ p[x] \in 0..(Length - 1) /\ p[x] \in Nat
  BY <1>1, <1>2, <1>3, ReportFacts DEF Active
<1>5. Length \in Nat \ {0}
  BY StartsOrdered
<1>6. Placed(A, p)
  <2>1. \A x \in A : p[x] \in Nat /\ p[x] <= Length
    BY <1>4, <1>5
  <2>2. \A x, y \in A : p[x] = p[y] => x = y
    BY <1>2, <1>4
  <2> QED
    BY <2>1, <2>2 DEF Placed
<1>7. A # {} /\ \A x : A # {x}
  <2>1. Cardinality(A) > 1
    BY <1>2
  <2>2. ASSUME A = {} PROVE FALSE
    <3>1. Cardinality(A) = 0
      BY <2>2, FS_EmptySet, Zenon
    <3> QED
      BY <2>1, <3>1
  <2>3. ASSUME NEW x, A = {x} PROVE FALSE
    <3>1. Cardinality(A) = 1
      BY <2>3, FS_Singleton, Zenon
    <3> QED
      BY <2>1, <3>1
  <2> QED
    BY <2>2, <2>3
<1>8. PICK m, t : Bounds(A, p, m, t)
  <2> DEFINE P == {p[x] : x \in A}
  <2>1. P \in SUBSET (0..(Length - 1)) /\ P \in SUBSET Nat /\ P # {} /\ Length - 1 \in Nat
    BY <1>4, <1>5, <1>7
  <2> HIDE DEF P
  <2>2. PICK lo \in P : \A q \in P : lo <= q
    BY <2>1, LeastNatural
  <2>3. PICK hi \in P : \A q \in P : q <= hi
    BY <2>1, GreatestNatural
  <2>4. PICK m, t \in A : lo = p[m] /\ hi = p[t]
    BY DEF P
  <2>5. \A x \in A : p[x] \in P
    BY DEF P
  <2> QED
    BY <2>2, <2>3, <2>4, <2>5 DEF Bounds
<1>9. m \in A /\ t \in A /\ m # t
  <2>1. m \in A /\ t \in A /\ \A x \in A : p[m] <= p[x] /\ p[x] <= p[t]
    BY <1>8 DEF Bounds
  <2>2. ASSUME m = t, NEW x \in A PROVE x = m
    <3>1. p[x] = p[m]
      BY <1>4, <2>1, <2>2
    <3> QED
      BY <1>6, <2>1, <3>1 DEF Placed
  <2> QED
    BY <1>7, <2>1, <2>2
<1>10. PICK h, f : h = [x \in Train |-> MeasuredHeadway(x)] /\ f = FoldedSum /\ IsFold(f, h, SUBSET Train)
  BY FoldedSumFacts
<1>11. \A x \in A : h[x] = MeasuredHeadway(x)
  BY <1>4, <1>10
<1>12. Numbers(h, A)
  BY <1>1, <1>2, <1>11, HeadwayFacts DEF Numbers
<1>13. PICK next : next = [x \in A |-> Ahead(x)]
  OBVIOUS
<1>14. /\ \A x \in A \ {t} : /\ Ahead(x) \in A /\ p[x] < p[Ahead(x)]
                              /\ \A y \in A : p[x] < p[y] => p[Ahead(x)] <= p[y]
       /\ Ahead(t) = m
  BY <1>1, <1>2, <1>3, <1>6, <1>8, RingOfTrains
<1>15. Follows(A, p, t, next)
  BY <1>13, <1>14 DEF Follows
<1> DEFINE u == [x \in A |-> p[x] + NominalStop * Cardinality(FreeBelow(A, p, p[x]))]
<1>16. \A v : Cardinality(FreeBelow(A, p, v)) \in Nat
  BY FreeFacts
<1>17. Numbers(u, A)
  BY <1>4, <1>16, NominalFacts DEF Numbers
<1>18. /\ \A x \in A \ {t} : MeasuredHeadway(x) =
                 p[Ahead(x)] - p[x] + NominalStop * (Cardinality(FreeBelow(A, p, p[Ahead(x)]))
                                              - Cardinality(FreeBelow(A, p, p[x])))
       /\ MeasuredHeadway(t) =
                 p[m] - p[t] + Length + NominalStop * (Cardinality(Free(A, p)) - Cardinality(FreeBelow(A, p, p[t]))
                                                + Cardinality(FreeBelow(A, p, p[m])))
  BY <1>1, <1>2, <1>3, <1>6, <1>8, <1>9, IntervalFacts
<1>19. ASSUME NEW x \in A \ {t} PROVE h[x] = u[next[x]] - u[x]
  <2>1. PICK y \in A : y = Ahead(x) /\ y = next[x]
    BY <1>13, <1>14
  <2>2. h[x] = p[y] - p[x] + NominalStop * (Cardinality(FreeBelow(A, p, p[y]))
                                     - Cardinality(FreeBelow(A, p, p[x])))
    <3>1. h[x] = MeasuredHeadway(x)
      BY <1>11
    <3>2. MeasuredHeadway(x) =
            p[Ahead(x)] - p[x] + NominalStop * (Cardinality(FreeBelow(A, p, p[Ahead(x)]))
                                         - Cardinality(FreeBelow(A, p, p[x])))
      BY <1>18, Zenon
    <3> QED
      BY <2>1, <3>1, <3>2, Zenon
  <2>3. /\ u[y] = p[y] + NominalStop * Cardinality(FreeBelow(A, p, p[y]))
        /\ u[x] = p[x] + NominalStop * Cardinality(FreeBelow(A, p, p[x]))
    OBVIOUS
  <2>4. p[x] \in Nat /\ p[y] \in Nat
    BY <1>4
  <2> HIDE DEF u
  <2>5. h[x] = u[y] - u[x]
    BY <1>16, <2>2, <2>3, <2>4, NominalFacts
  <2> QED
    BY <2>1, <2>5
<1>20. PICK w : w = u
  OBVIOUS
<1>21. f[A] = h[t] + w[t] - w[m]
  <2>1. Differences(A, h, u, t, next)
    BY <1>19, Zenon DEF Differences
  <2> HIDE DEF u
  <2>2. Numbers(w, A) /\ Differences(A, h, w, t, next)
    BY <1>17, <1>20, <2>1, Zenon
  <2>3. IsFold(f, h, SUBSET Train) /\ A \in SUBSET Train
    BY <1>4, <1>10
  <2>4. Ring(A, p, m, t, next, f, h, w)
    BY <1>6, <1>8, <1>12, <1>15, <2>2, <2>3 DEF Ring
  <2>5. Closes(A, m, t, f, h, w)
    BY <2>4, RingSum, Zenon
  <2> QED
    BY <2>5, Zenon DEF Closes
<1>22. f[A] = Length + NominalStop * Cardinality(Free(A, p))
  <2>1. /\ w[t] = p[t] + NominalStop * Cardinality(FreeBelow(A, p, p[t]))
        /\ w[m] = p[m] + NominalStop * Cardinality(FreeBelow(A, p, p[m]))
    BY <1>9, <1>20
  <2>2. h[t] = p[m] - p[t] + Length + NominalStop * (Cardinality(Free(A, p)) - Cardinality(FreeBelow(A, p, p[t]))
                                              + Cardinality(FreeBelow(A, p, p[m])))
    BY <1>9, <1>11, <1>18
  <2>3. p[t] \in Nat /\ p[m] \in Nat /\ Cardinality(Free(A, p)) \in Nat
    BY <1>4, <1>9, FreeFacts
  <2> QED
    BY <1>5, <1>16, <1>21, <2>1, <2>2, <2>3, NominalFacts
<1>23. Cardinality(Taken(A, p)) =
         Cardinality({x \in Active : \E s \in Stops : report[x].pos = StartOf[s]})
  <2>1. {x \in A : \E s \in Stops : p[x] = StartOf[s]}
          = {x \in Active : \E s \in Stops : report[x].pos = StartOf[s]}
    BY <1>2, <1>4
  <2> QED
    BY <1>6, <2>1, TakenCount
<1>24. /\ Cardinality(Free(A, p)) = Cardinality(Stops) - Cardinality(Taken(A, p))
       /\ Cardinality(Taken(A, p)) \in Nat /\ Cardinality(Stops) \in Nat
  BY FreeFacts, StopFacts
<1>25. CycleTime = Length + NominalStop * Cardinality(Stops)
  BY <1>5, <1>24 DEF CycleTime, NominalStop
<1>26. f[A] = CycleTime - NominalStop * Cardinality(Taken(A, p))
  BY <1>5, <1>22, <1>24, <1>25, NominalFacts
<1>27. FoldedSum[Active] = f[A]
  BY <1>2, <1>10
<1>28. PICK n, z \in Int : n = Cardinality(Taken(A, p)) /\ z = NominalStop * n
  BY <1>24, NominalFacts
<1>29. 100 * DwellNominal * n = z
  BY <1>24, <1>28, NominalFacts DEF DwellNominal
<1>30. FoldedSum[Active] = CycleTime - z
  BY <1>26, <1>27, <1>28, Zenon
<1> QED
  BY <1>23, <1>28, <1>29, <1>30, Zenon

\* The regulator's measures and its setpoint have one base, whatever the line, the
\* stops, the trains and what was heard of them (headway.ts:55-100 and 168-171,
\* topology.ts:140-169).
THEOREM RegulationInvHolds == Spec => []RegulationInv
PROOF
<1>1. Kept => RegulationInv
  BY AddUp DEF Kept, RegulationInv
<1> QED
  BY <1>1, KeptHolds, PTL
=============================================================================
