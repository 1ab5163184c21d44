------------------------ MODULE OperatorConsoleProofs ------------------------
(***************************************************************************)
(* Proofs about OperatorConsole, for any fleet, loop, restrictions,        *)
(* operators and rates of the simulation: the buttons, the release dialog, *)
(* the trains on the loop and the log.                                     *)
(***************************************************************************)
EXTENDS OperatorConsole, FiniteSetTheorems, FunctionTheorems, WellFoundedInduction, TLAPS

-----------------------------------------------------------------------------
(***************************************************************************)
(* The page, the palette and the dialog.                                   *)
(***************************************************************************)

\* An open dialog is the current operator's, on a restriction still active, and
\* its box is ticked only if that operator ticked it for that restriction.
DialogKept ==
    /\ release.target # None =>
          /\ operator # None /\ cleared[release.target] = None
          /\ release.cctv => verified = <<operator, release.target>>
    /\ release.target = None => release = Closed

PageInv == TypeOK /\ DialogKept

\* What the operator may press, kind by kind.
LEMMA OffersFacts ==
    ASSUME PageInv, NEW c \in Offers
    PROVE  \/ c.type = "login" /\ c.of \in Operator /\ operator = None /\ release.target = None
           \/ c.type = "logout" /\ operator # None /\ release.target = None
           \/ c.type = "ack" /\ c.of \in Alarm /\ operator # None /\ ack[c.of] = None
           \/ c.type \in {"action", "radio"} /\ operator # None
           \/ c.type = "advice" /\ operator # None /\ Holds(c.of)
           \/ c.type = "rate" /\ c.of \in SimRates
           \/ c.type = "select" /\ c.of \in Train \union {None}
           \/ /\ c.type = "clear" /\ c.of = release.target /\ release.target \in Active
              /\ operator # None /\ c.confirm = operator /\ release.cctv
              /\ release.target # None
PROOF
<1> USE DEF PageInv
<1>1. CASE c \in PageOffers
  <2>1. release.target = None
    BY <1>1 DEF PageOffers
  <2>2. CASE operator = None
    BY <1>1, <2>1, <2>2 DEF PageOffers, SimRate, Select, Login
  <2>3. CASE operator # None
    BY <1>1, <2>1, <2>3
    DEF PageOffers, SimRate, Select, Logout, Ack, AlarmAction, RadioCall, Advice, Unacked
  <2> QED
    BY <2>2, <2>3
<1>2. CASE c \in PaletteOffers
  BY <1>2 DEF PaletteOffers, SimRate, Select, Ack, Unacked
<1>3. CASE c \in DialogOffers
  <2>1. /\ c = Clear /\ release.target # None /\ operator # None
        /\ release.cctv /\ release.typed = operator
    BY <1>3 DEF DialogOffers
  <2>2. c.type = "clear" /\ c.of = release.target /\ c.confirm = release.typed
    BY <2>1 DEF Clear
  <2>3. release.target \in Active
    BY <2>1 DEF DialogKept, Active, TypeOK
  <2> QED
    BY <2>1, <2>2, <2>3
<1> QED
  BY <1>1, <1>2, <1>3 DEF Offers

\* The reducer takes what it is offered.
LEMMA OffersAccepted == PageInv => OfferedAccepted
PROOF
<1> SUFFICES ASSUME PageInv, NEW c \in Offers PROVE Accepts(c)
  BY DEF OfferedAccepted
<1> QED
  BY OffersFacts DEF Accepts

-----------------------------------------------------------------------------
(***************************************************************************)
(* The log, whose newest entry is the first.                               *)
(***************************************************************************)

EntryType == [kind : {"session", "ack", "clear", "action", "system"}, operator : Operator \union {None}]

\* How many entries of the log l are in E.
Count(l, E) == Cardinality({k \in DOMAIN l : l[k] \in E})

LEMMA CountFinite ==
    ASSUME NEW T, NEW l \in Seq(T), NEW E
    PROVE  IsFiniteSet({k \in DOMAIN l : l[k] \in E}) /\ Count(l, E) \in Nat
PROOF
<1>1. DOMAIN l = 1..Len(l) /\ Len(l) \in Nat
  OBVIOUS
<1>2. IsFiniteSet(DOMAIN l)
  BY <1>1, FS_Interval
<1>3. {k \in DOMAIN l : l[k] \in E} \in SUBSET (DOMAIN l)
  OBVIOUS
<1>4. IsFiniteSet({k \in DOMAIN l : l[k] \in E})
  BY <1>2, <1>3, FS_Subset
<1> QED
  BY <1>4, FS_CardinalityType DEF Count

\* What is put in front counts by itself.
LEMMA CountConcat ==
    ASSUME NEW T, NEW s \in Seq(T), NEW l \in Seq(T), NEW E
    PROVE  Count(s \o l, E) = Count(s, E) + Count(l, E)
PROOF
<1> DEFINE n == Len(s)
           A == {k \in DOMAIN s : s[k] \in E}
           B == {k \in DOMAIN l : l[k] \in E}
           C == {k \in DOMAIN (s \o l) : (s \o l)[k] \in E}
           D == C \ A
<1>1. /\ n \in Nat /\ Len(l) \in Nat /\ DOMAIN s = 1..n /\ DOMAIN l = 1..Len(l)
      /\ DOMAIN (s \o l) = 1..(n + Len(l))
      /\ \A k \in 1..(n + Len(l)) : (s \o l)[k] = IF k <= n THEN s[k] ELSE l[k - n]
  OBVIOUS
<1>2. A \subseteq C
  BY <1>1
<1>3. /\ \A k \in B : k + n \in D
      /\ \A k \in D : k - n \in B
      /\ B \subseteq Nat /\ D \subseteq Nat
  BY <1>1
<1>4. IsFiniteSet(A) /\ IsFiniteSet(B) /\ IsFiniteSet(C)
  <2>1. s \o l \in Seq(T)
    OBVIOUS
  <2> QED
    BY <2>1, CountFinite
<1> HIDE DEF A, B, C, D
<1>5. Cardinality(D) = Cardinality(B)
  <2> DEFINE f == [k \in B |-> k + n]
  <2>1. f \in [B -> D]
    BY <1>3
  <2>2. \A a, b \in B : f[a] = f[b] => a = b
    BY <1>1, <1>3
  <2>3. \A d \in D : \E b \in B : f[b] = d
    <3> SUFFICES ASSUME NEW d \in D PROVE \E b \in B : f[b] = d
      OBVIOUS
    <3>1. d - n \in B /\ f[d - n] = d
      BY <1>1, <1>3
    <3> QED
      BY <3>1
  <2> HIDE DEF f
  <2>4. f \in Bijection(B, D)
    BY <2>1, <2>2, <2>3, Fun_IsBij
  <2>5. ExistsBijection(B, D)
    BY <2>4 DEF ExistsBijection
  <2> QED
    BY <1>4, <2>5, FS_Bijection
<1>6. C \cap A = A
  BY <1>2
<1>7. Cardinality(D) = Cardinality(C) - Cardinality(A)
  <2>1. Cardinality(C \ A) = Cardinality(C) - Cardinality(C \cap A)
    BY <1>4, FS_Difference
  <2> QED
    BY <1>6, <2>1, Zenon DEF D
<1>8. Cardinality(A) \in Nat /\ Cardinality(B) \in Nat /\ Cardinality(C) \in Nat
  BY <1>4, FS_CardinalityType
<1>9. Cardinality(C) = Cardinality(A) + Cardinality(B)
  BY <1>5, <1>7, <1>8
<1> QED
  BY <1>9 DEF Count, A, B, C

\* One entry counts once, or not at all.
LEMMA CountOne ==
    ASSUME NEW e, NEW E
    PROVE  Count(<<e>>, E) = IF e \in E THEN 1 ELSE 0
PROOF
<1>1. DOMAIN <<e>> = {1} /\ <<e>>[1] = e
  OBVIOUS
<1>2. CASE e \in E
  <2>1. {k \in DOMAIN <<e>> : <<e>>[k] \in E} = {1}
    BY <1>1, <1>2
  <2> QED
    BY <1>2, <2>1, FS_Singleton DEF Count
<1>3. CASE e \notin E
  <2>1. {k \in DOMAIN <<e>> : <<e>>[k] \in E} = {}
    BY <1>1, <1>3
  <2> QED
    BY <1>3, <2>1, FS_EmptySet DEF Count
<1> QED
  BY <1>2, <1>3

LEMMA CountNone ==
    ASSUME NEW l, NEW E, \A k \in DOMAIN l : l[k] \notin E
    PROVE  Count(l, E) = 0
PROOF
<1>1. {k \in DOMAIN l : l[k] \in E} = {}
  OBVIOUS
<1> QED
  BY <1>1, FS_EmptySet DEF Count

\* The log stays within its cap; below it nothing has fallen off.
LEMMA WithLogFacts ==
    ASSUME log \in Seq(EntryType), NEW s \in Seq(EntryType)
    PROVE  /\ WithLog(s) \in Seq(EntryType)
           /\ Len(WithLog(s)) < LogCap => WithLog(s) = s \o log /\ Len(log) < LogCap
PROOF
<1> DEFINE all == s \o log
           n == IF Len(all) > LogCap THEN LogCap ELSE Len(all)
<1>1. all \in Seq(EntryType) /\ Len(all) = Len(s) + Len(log) /\ Len(s) \in Nat /\ Len(log) \in Nat
  OBVIOUS
<1>2. LogCap \in Nat
  BY ConsoleAssumption DEF ConsoleAssumption
<1>3. WithLog(s) = SubSeq(all, 1, n)
  BY DEF WithLog
<1> HIDE DEF all
<1>4. n \in Nat /\ n <= Len(all) /\ (n < LogCap => n = Len(all))
  BY <1>1, <1>2
<1> HIDE DEF n
<1>5. /\ SubSeq(all, 1, n) \in Seq(EntryType) /\ Len(SubSeq(all, 1, n)) = n
      /\ n = Len(all) => SubSeq(all, 1, n) = all
  BY <1>1, <1>4
<1> QED
  BY <1>1, <1>2, <1>3, <1>4, <1>5 DEF all

-----------------------------------------------------------------------------
(***************************************************************************)
(* The loop.                                                               *)
(***************************************************************************)

LEMMA WrapFacts ==
    ASSUME NEW t \in Int
    PROVE  /\ Wrap(t) \in Cell
           /\ t \in Cell => Wrap(t) = t
           /\ t \in (-LoopLength)..(-1) => Wrap(t) = t + LoopLength
           /\ t \in LoopLength..(2 * LoopLength - 1) => Wrap(t) = t - LoopLength
PROOF
<1>1. LoopLength \in Nat \ {0}
  BY ConsoleAssumption DEF ConsoleAssumption
<1>2. Wrap(t) \in Cell
  BY <1>1 DEF Wrap, Cell
<1>3. t \in Cell => Wrap(t) = t
  BY <1>1 DEF Wrap, Cell
<1>4. t \in (-LoopLength)..(-1) => Wrap(t) = t + LoopLength
  BY <1>1 DEF Wrap
<1>5. t \in LoopLength..(2 * LoopLength - 1) => Wrap(t) = t - LoopLength
  BY <1>1 DEF Wrap
<1> QED
  BY <1>2, <1>3, <1>4, <1>5

LEMMA ForwardFacts ==
    ASSUME NEW a \in Cell, NEW b \in Cell
    PROVE  /\ Forward(a, b) \in Cell
           /\ Forward(a, b) = IF a <= b THEN b - a ELSE b - a + LoopLength
           /\ LoopLength \in Nat /\ Cell \subseteq Nat /\ \A c \in Cell : c < LoopLength
PROOF
<1>1. LoopLength \in Nat \ {0}
  BY ConsoleAssumption DEF ConsoleAssumption
<1>2. /\ b - a \in Int /\ Cell \subseteq Nat /\ \A c \in Cell : c < LoopLength
      /\ a <= b => b - a \in Cell
      /\ ~(a <= b) => b - a \in (-LoopLength)..(-1)
  BY <1>1 DEF Cell
<1> QED
  BY <1>1, <1>2, WrapFacts DEF Forward

\* Distances from and to where a train gets by going d cells on from a.
LEMMA GoingOn ==
    ASSUME NEW a \in Cell, NEW b \in Cell, NEW d \in Cell
    PROVE  /\ Wrap(a + d) \in Cell
           /\ Forward(a, Wrap(a + d)) = d
           /\ Forward(b, Wrap(a + d)) = IF Forward(b, a) + d < LoopLength
                                        THEN Forward(b, a) + d
                                        ELSE Forward(b, a) + d - LoopLength
           /\ Forward(Wrap(a + d), b) = IF d <= Forward(a, b)
                                        THEN Forward(a, b) - d
                                        ELSE Forward(a, b) - d + LoopLength
           /\ Wrap(a + Forward(a, b)) = b
PROOF
<1>1. LoopLength \in Nat \ {0}
  BY ConsoleAssumption DEF ConsoleAssumption
<1>2. /\ a \in 0..(LoopLength - 1) /\ b \in 0..(LoopLength - 1) /\ d \in 0..(LoopLength - 1)
      /\ a + d \in Int
  BY <1>1 DEF Cell
<1>3. Wrap(a + d) = IF a + d < LoopLength THEN a + d ELSE a + d - LoopLength
  BY <1>1, <1>2, WrapFacts DEF Cell
<1>4. PICK c \in Cell : c = Wrap(a + d)
  BY <1>2, WrapFacts
<1>5. c \in 0..(LoopLength - 1)
  BY DEF Cell
<1>6. Forward(a, c) = d
  BY <1>1, <1>2, <1>3, <1>4, <1>5, ForwardFacts
<1>7. Forward(b, c) = IF Forward(b, a) + d < LoopLength THEN Forward(b, a) + d
                      ELSE Forward(b, a) + d - LoopLength
  <2>1. /\ Forward(b, c) = IF b <= c THEN c - b ELSE c - b + LoopLength
        /\ Forward(b, a) = IF b <= a THEN a - b ELSE a - b + LoopLength
    BY ForwardFacts
  <2> QED
    BY <1>1, <1>2, <1>3, <1>4, <1>5, <2>1
<1>8. Forward(c, b) = IF d <= Forward(a, b) THEN Forward(a, b) - d
                      ELSE Forward(a, b) - d + LoopLength
  <2>1. /\ Forward(c, b) = IF c <= b THEN b - c ELSE b - c + LoopLength
        /\ Forward(a, b) = IF a <= b THEN b - a ELSE b - a + LoopLength
    BY ForwardFacts
  <2> QED
    BY <1>1, <1>2, <1>3, <1>4, <1>5, <2>1
<1>9. Wrap(a + Forward(a, b)) = b
  <2>1. PICK f \in Cell : f = Forward(a, b)
    BY ForwardFacts
  <2>2. f = IF a <= b THEN b - a ELSE b - a + LoopLength
    BY <2>1, ForwardFacts
  <2>3. /\ a + f \in Int
        /\ a <= b => a + f = b
        /\ ~(a <= b) => a + f = b + LoopLength /\ a + f \in LoopLength..(2 * LoopLength - 1)
    BY <1>1, <1>2, <2>2
  <2>4. Wrap(a + f) = b
    BY <1>1, <1>2, <2>3, WrapFacts
  <2> QED
    BY <2>1, <2>4
<1> QED
  BY <1>4, <1>6, <1>7, <1>8, <1>9

\* The stretch from a stop point through its section, seen from the stop point.
Stretch(r) == Forward(Sections[r][1], Sections[r][2])

LEMMA SectionFacts ==
    ASSUME NEW r \in Restriction
    PROVE  /\ HoldAt(r) \in Cell
           /\ Margin \in Nat /\ Margin > 0 /\ Stretch(r) \in Nat
           /\ \A n \in SimRates : n \in Nat /\ n + Margin + Stretch(r) <= LoopLength
           /\ Margin + Stretch(r) < LoopLength
           /\ \A t \in Cell : IsInside(t, Sections[r])
                              <=> Forward(HoldAt(r), t) \in Margin..(Margin + Stretch(r))
PROOF
<1> DEFINE a == Sections[r][1]
           b == Sections[r][2]
           h == HoldAt(r)
<1>1. /\ LoopLength \in Nat \ {0} /\ a \in Cell /\ b \in Cell /\ Margin \in Nat
      /\ SimRates \subseteq Nat /\ 1 \in SimRates
  BY ConsoleAssumption DEF ConsoleAssumption
<1>2. Margin > 0 /\ \A n \in SimRates : n + Margin + Stretch(r) <= LoopLength
  BY LineAssumption DEF LineAssumption, Stretch
<1>3. Stretch(r) \in Cell /\ Stretch(r) \in Nat
  BY <1>1, ForwardFacts DEF Stretch
<1>4. 1 + Margin + Stretch(r) <= LoopLength
  BY <1>1, <1>2
<1>5. Margin + Stretch(r) < LoopLength /\ Margin \in Cell
  BY <1>1, <1>3, <1>4 DEF Cell
<1>6. a - Margin \in Int
  BY <1>1 DEF Cell
<1>7. h \in Cell
  BY <1>6, WrapFacts DEF HoldAt
<1>8. Wrap(h + Margin) = a
  <2>1. h = IF Margin <= a THEN a - Margin ELSE a - Margin + LoopLength
    <3>1. CASE Margin <= a
      <4>1. a - Margin \in Cell
        BY <1>1, <3>1 DEF Cell
      <4> QED
        BY <1>6, <3>1, <4>1, WrapFacts DEF HoldAt
    <3>2. CASE ~(Margin <= a)
      <4>1. a - Margin \in (-LoopLength)..(-1)
        BY <1>1, <1>5, <3>2 DEF Cell
      <4> QED
        BY <1>6, <3>2, <4>1, WrapFacts DEF HoldAt
    <3> QED
      BY <3>1, <3>2
  <2> HIDE DEF a, h
  <2>2. /\ h + Margin \in Int
        /\ Margin <= a => h + Margin = a
        /\ ~(Margin <= a) => h + Margin = a + LoopLength
                             /\ h + Margin \in LoopLength..(2 * LoopLength - 1)
    BY <1>1, <1>5, <1>7, <2>1 DEF Cell
  <2> QED
    BY <1>1, <2>2, WrapFacts DEF Cell
<1>9. ASSUME NEW t \in Cell
      PROVE  IsInside(t, Sections[r]) <=> Forward(h, t) \in Margin..(Margin + Stretch(r))
  <2>1. IsInside(t, Sections[r]) <=> Forward(a, t) <= Stretch(r)
    BY DEF IsInside, Stretch
  <2> HIDE DEF a, h
  <2>2. Forward(a, t) = IF Margin <= Forward(h, t) THEN Forward(h, t) - Margin
                        ELSE Forward(h, t) - Margin + LoopLength
    BY <1>5, <1>7, <1>8, GoingOn
  <2>3. Forward(h, t) \in Nat /\ Forward(h, t) < LoopLength
    BY <1>7, ForwardFacts
  <2> QED
    BY <1>1, <1>3, <1>5, <2>1, <2>2, <2>3
<1> QED
  BY <1>1, <1>2, <1>3, <1>5, <1>7, <1>9

-----------------------------------------------------------------------------
(***************************************************************************)
(* How far a train gets.                                                   *)
(***************************************************************************)

TrainType == [t : Cell, dev : Int, hold : Restriction \union Train \union {None}]
ConstraintType == [distance : Cell, position : Cell, reason : Restriction \union Train]

LEMMA TrainFacts ==
    ASSUME TypeOK, NEW x \in Train
    PROVE  trains[x] \in TrainType /\ trains[x].t \in Cell /\ trains[x].dev \in Int
PROOF
<1>1. trains \in [Train -> TrainType]
  BY DEF TypeOK, TrainType
<1>2. trains[x] \in TrainType
  BY <1>1
<1> QED
  BY <1>2 DEF TrainType

\* The distance to keep is never overrun: a constraint names the cell as far away
\* as it says, and a train ahead is as far away as the gap to it allows.
LEMMA ConstraintFacts ==
    ASSUME TypeOK, TrainsApart, NEW x \in Train
    PROVE  /\ \A c \in Constraints(x) : /\ c \in ConstraintType
                                        /\ c.position = Wrap(trains[x].t + c.distance)
           /\ \A r \in Binding(trains[x].t) : \E c \in Constraints(x) :
                 c.distance = Forward(trains[x].t, HoldAt(r))
           /\ \A y \in Train \ {x} : \E c \in Constraints(x) :
                 c.distance = Forward(trains[x].t, trains[y].t) - MinGap
PROOF
<1> DEFINE t == trains[x].t
           OfSection(r) == [distance |-> Forward(t, HoldAt(r)), position |-> HoldAt(r), reason |-> r]
           Room(y) == Forward(t, trains[y].t) - MinGap
           OfTrain(y) == [distance |-> IF Room(y) > 0 THEN Room(y) ELSE 0,
                          position |-> IF Room(y) > 0 THEN Wrap(trains[y].t - MinGap) ELSE t,
                          reason |-> y]
<1>1. t \in Cell /\ MinGap \in Nat /\ LoopLength \in Nat \ {0}
  BY TrainFacts, ConsoleAssumption DEF ConsoleAssumption
<1>2. Constraints(x) = {OfSection(r) : r \in Binding(t)} \union {OfTrain(y) : y \in Train \ {x}}
  BY DEF Constraints
<1>3. ASSUME NEW r \in Binding(t)
      PROVE  /\ OfSection(r) \in ConstraintType
             /\ OfSection(r).position = Wrap(t + OfSection(r).distance)
  <2>1. r \in Restriction
    BY DEF Binding, Active
  <2>2. HoldAt(r) \in Cell
    BY <2>1, SectionFacts
  <2> HIDE DEF t
  <2>3. Forward(t, HoldAt(r)) \in Cell
    BY <1>1, <2>2, ForwardFacts
  <2>4. Wrap(t + Forward(t, HoldAt(r))) = HoldAt(r)
    BY <1>1, <2>2, <2>3, GoingOn
  <2> QED
    BY <2>1, <2>2, <2>3, <2>4 DEF ConstraintType
<1>4. ASSUME NEW y \in Train \ {x}
      PROVE  /\ OfTrain(y) \in ConstraintType
             /\ OfTrain(y).position = Wrap(t + OfTrain(y).distance)
             /\ OfTrain(y).distance = Room(y)
  <2>1. PICK u \in Cell : u = trains[y].t
    BY TrainFacts
  <2>2. PICK f \in Cell : f = Forward(t, u)
    BY <1>1, ForwardFacts
  <2>3. Room(y) = f - MinGap /\ f >= MinGap
    BY <2>1, <2>2 DEF TrainsApart
  <2>4. f \in 0..(LoopLength - 1) /\ t \in 0..(LoopLength - 1) /\ u \in 0..(LoopLength - 1)
    BY <1>1 DEF Cell
  <2>5. Room(y) \in Cell
    BY <1>1, <2>3, <2>4 DEF Cell
  <2>6. CASE Room(y) > 0
    <3>1. f = IF t <= u THEN u - t ELSE u - t + LoopLength
      BY <1>1, <2>2, ForwardFacts
    <3>2. Wrap(t + (f - MinGap)) = Wrap(u - MinGap)
      <4>1. CASE t <= u
        <5>1. t + (f - MinGap) = u - MinGap
          BY <1>1, <2>4, <3>1, <4>1
        <5> QED
          BY <5>1
      <4>2. CASE ~(t <= u)
        <5>1. t + (f - MinGap) = u - MinGap + LoopLength
          BY <1>1, <2>4, <3>1, <4>2
        <5>2. CASE u - MinGap < 0
          <6>1. u - MinGap \in (-LoopLength)..(-1) /\ u - MinGap + LoopLength \in Cell
            BY <1>1, <2>3, <2>4, <4>2, <5>2 DEF Cell
          <6>2. u - MinGap \in Int /\ u - MinGap + LoopLength \in Int
            BY <1>1, <2>4
          <6>3. Wrap(u - MinGap) = u - MinGap + LoopLength
            BY <6>1, <6>2, WrapFacts
          <6>4. Wrap(u - MinGap + LoopLength) = u - MinGap + LoopLength
            BY <6>1, <6>2, WrapFacts
          <6> QED
            BY <5>1, <6>3, <6>4
        <5>3. CASE ~(u - MinGap < 0)
          <6>1. u - MinGap \in Cell /\ u - MinGap + LoopLength \in LoopLength..(2 * LoopLength - 1)
            BY <1>1, <2>4, <5>3 DEF Cell
          <6>2. u - MinGap \in Int /\ u - MinGap + LoopLength \in Int
            BY <1>1, <2>4
          <6>3. Wrap(u - MinGap) = u - MinGap
            BY <6>1, <6>2, WrapFacts
          <6>4. PICK w \in LoopLength..(2 * LoopLength - 1) : w = u - MinGap + LoopLength
            BY <6>1
          <6>5. w \in Int /\ w - LoopLength = u - MinGap
            BY <1>1, <2>4, <6>4
          <6>6. Wrap(w) = w - LoopLength
            BY <6>5, WrapFacts
          <6> QED
            BY <5>1, <6>3, <6>4, <6>5, <6>6
        <5> QED
          BY <5>2, <5>3
      <4> QED
        BY <4>1, <4>2
    <3>3. u - MinGap \in Int
      BY <1>1, <2>4
    <3>4. Wrap(u - MinGap) \in Cell
      BY <3>3, WrapFacts
    <3>5. OfTrain(y) = [distance |-> Room(y), position |-> Wrap(u - MinGap), reason |-> y]
      BY <2>1, <2>6
    <3> HIDE DEF OfTrain, Room, t
    <3> QED
      BY <2>3, <2>5, <3>2, <3>4, <3>5 DEF ConstraintType
  <2>7. CASE ~(Room(y) > 0)
    <3>1. Room(y) = 0
      BY <1>1, <2>3, <2>4, <2>7
    <3>2. t + 0 = t /\ t \in Int /\ 0 \in Cell
      BY <1>1, <2>4 DEF Cell
    <3>3. Wrap(t + 0) = t
      BY <1>1, <3>2, WrapFacts
    <3>4. OfTrain(y) = [distance |-> 0, position |-> t, reason |-> y]
      BY <2>7
    <3> HIDE DEF OfTrain, Room, t
    <3> QED
      BY <1>1, <3>1, <3>2, <3>3, <3>4 DEF ConstraintType
  <2> QED
    BY <2>6, <2>7
<1>5. \A r \in Binding(t) : OfSection(r).distance = Forward(t, HoldAt(r))
  OBVIOUS
<1> HIDE DEF OfSection, OfTrain
<1> QED
  BY <1>2, <1>3, <1>4, <1>5

\* There is a train ahead.
LEMMA AnotherTrain ==
    ASSUME NEW x \in Train
    PROVE  \E y \in Train : y # x
PROOF
<1> SUFFICES ASSUME \A y \in Train : y = x PROVE FALSE
  OBVIOUS
<1>1. Train = {x}
  OBVIOUS
<1>2. Cardinality(Train) = 1
  BY <1>1, FS_Singleton
<1> QED
  BY <1>2, ConsoleAssumption DEF ConsoleAssumption

\* There is a nearest constraint.
LEMMA NearestFacts ==
    ASSUME TypeOK, TrainsApart, NEW x \in Train
    PROVE  /\ NearestConstraint(x) \in Constraints(x)
           /\ \A d \in Constraints(x) : NearestConstraint(x).distance <= d.distance
PROOF
<1> DEFINE T == {c.distance : c \in Constraints(x)}
<1>1. \A c \in Constraints(x) : c.distance \in Nat
  BY ConstraintFacts DEF ConstraintType, Cell
<1>2. Constraints(x) # {}
  BY ConstraintFacts, AnotherTrain
<1>3. T \subseteq Nat /\ T # {}
  BY <1>1, <1>2
<1>4. PICK m \in T : \A y \in T : ~(<<y, m>> \in OpToRel(<, Nat))
  <2> HIDE DEF T
  <2> QED
    BY <1>3, NatLessThanWellFounded, WFMin
<1>5. m \in Nat /\ \A d \in Constraints(x) : m <= d.distance
  <2>1. \A y \in T : ~(y < m)
    BY <1>3, <1>4 DEF OpToRel
  <2> QED
    BY <1>1, <1>3, <2>1
<1>6. \E c \in Constraints(x) : \A d \in Constraints(x) : Before(c, d)
  <2>1. CASE \E c \in Constraints(x) : c.distance = m /\ c.reason \in Restriction
    BY <1>1, <1>5, <2>1 DEF Before
  <2>2. CASE \A c \in Constraints(x) : c.distance = m => c.reason \notin Restriction
    <3>1. PICK c \in Constraints(x) : c.distance = m
      OBVIOUS
    <3>2. ASSUME NEW d \in Constraints(x) PROVE Before(c, d)
      BY <1>1, <1>5, <2>2, <3>1 DEF Before
    <3> QED
      BY <3>2
  <2> QED
    BY <2>1, <2>2
<1> DEFINE n == NearestConstraint(x)
<1>7. n \in Constraints(x) /\ \A d \in Constraints(x) : Before(n, d)
  BY <1>6 DEF NearestConstraint
<1> HIDE DEF n, T
<1>8. \A d \in Constraints(x) : n.distance <= d.distance
  BY <1>1, <1>7 DEF Before
<1> QED
  BY <1>7, <1>8 DEF n

\* The cells a train goes on by in a tick.
Move(x, step) == IF NearestConstraint(x).distance <= step THEN NearestConstraint(x).distance ELSE step

LEMMA AdvancedFacts ==
    ASSUME TypeOK, TrainsApart, NEW x \in Train, NEW step \in Nat
    PROVE  /\ Advanced(x, step) \in TrainType
           /\ Advanced(x, step).t = Wrap(trains[x].t + Move(x, step))
           /\ Move(x, step) \in Cell /\ Move(x, step) <= step
           /\ \A r \in Binding(trains[x].t) : Move(x, step) <= Forward(trains[x].t, HoldAt(r))
           /\ \A y \in Train \ {x} :
                 Move(x, step) <= Forward(trains[x].t, trains[y].t) - MinGap
PROOF
<1> DEFINE n == NearestConstraint(x)
<1>1. /\ n \in Constraints(x) /\ n \in ConstraintType /\ n.position = Wrap(trains[x].t + n.distance)
      /\ \A d \in Constraints(x) : n.distance <= d.distance
  BY NearestFacts, ConstraintFacts
<1>2. trains[x].t \in Cell /\ trains[x].dev \in Int /\ HoldThreshold \in Nat
      /\ LoopLength \in Nat \ {0}
  BY TrainFacts, ConsoleAssumption DEF ConsoleAssumption
<1> DEFINE late == trains[x].dev + (IF n.distance <= step THEN step - n.distance ELSE 0)
<1>3. Advanced(x, step) =
        [t |-> IF n.distance <= step THEN n.position ELSE Wrap(trains[x].t + step),
         dev |-> IF late > HoldThreshold THEN HoldThreshold ELSE late,
         hold |-> IF n.distance < step THEN n.reason ELSE None]
  BY <1>1 DEF Advanced
<1>4. Move(x, step) = IF n.distance <= step THEN n.distance ELSE step
  BY DEF Move
<1> HIDE DEF n
<1>5. n.distance \in 0..(LoopLength - 1) /\ n.position \in Cell /\ n.reason \in Restriction \union Train
  BY <1>1 DEF ConstraintType, Cell
<1>6. Move(x, step) \in Cell /\ Move(x, step) <= step /\ Move(x, step) <= n.distance
  BY <1>2, <1>4, <1>5 DEF Cell
<1>7. late \in Int
  BY <1>2, <1>5
<1> HIDE DEF late
<1>8. Advanced(x, step).t = Wrap(trains[x].t + Move(x, step))
  BY <1>1, <1>3, <1>4
<1>9. Advanced(x, step) \in TrainType
  <2>1. trains[x].t + step \in Int
    BY <1>2 DEF Cell
  <2>2. Wrap(trains[x].t + step) \in Cell
    BY <2>1, WrapFacts
  <2>3. (IF late > HoldThreshold THEN HoldThreshold ELSE late) \in Int
    BY <1>2, <1>7
  <2> QED
    BY <1>3, <1>5, <2>2, <2>3 DEF TrainType
<1>10. \A c \in Constraints(x) : Move(x, step) <= c.distance
  <2>1. \A c \in Constraints(x) : c.distance \in Int
    BY ConstraintFacts DEF ConstraintType, Cell
  <2>2. Move(x, step) \in Int /\ n.distance \in Int
    BY <1>5, <1>6 DEF Cell
  <2> QED
    BY <1>1, <1>6, <2>1, <2>2
<1>11. /\ \A r \in Binding(trains[x].t) : Move(x, step) <= Forward(trains[x].t, HoldAt(r))
       /\ \A y \in Train \ {x} : Move(x, step) <= Forward(trains[x].t, trains[y].t) - MinGap
  BY <1>10, ConstraintFacts
<1> QED
  BY <1>6, <1>8, <1>9, <1>11

-----------------------------------------------------------------------------
(***************************************************************************)
(* The trains on the loop.                                                 *)
(***************************************************************************)

\* No train stands between a stop point and its section.
NoneBetween ==
    \A x \in Train, r \in Active : Forward(HoldAt(r), trains[x].t) \notin 1..(Margin - 1)

\* Going on by d from a cell that is not between: from inside the section no
\* tick leads there; from outside, to the stop point at most, neither there nor
\* inside.
LEMMA SectionStep ==
    ASSUME NEW r \in Restriction, NEW a \in Cell, NEW d \in Cell,
           Forward(HoldAt(r), a) \notin 1..(Margin - 1)
    PROVE  LET c == Wrap(a + d) IN
           /\ IsInside(a, Sections[r]) /\ (\E n \in SimRates : d <= n) =>
                 Forward(HoldAt(r), c) \notin 1..(Margin - 1)
           /\ ~IsInside(a, Sections[r]) /\ d <= Forward(a, HoldAt(r)) =>
                 ~IsInside(c, Sections[r]) /\ Forward(HoldAt(r), c) \notin 1..(Margin - 1)
PROOF
<1>1. PICK h \in Cell : h = HoldAt(r)
  BY SectionFacts
<1>2. PICK p \in Cell : p = Forward(h, a)
  BY ForwardFacts
<1>3. PICK c \in Cell : c = Wrap(a + d)
  BY GoingOn
<1>4. PICK q \in Cell : q = Forward(h, c)
  BY ForwardFacts
<1>5. q = IF p + d < LoopLength THEN p + d ELSE p + d - LoopLength
  BY <1>2, <1>3, <1>4, GoingOn
<1>6. /\ LoopLength \in Nat \ {0} /\ Margin \in Nat /\ Margin > 0 /\ Stretch(r) \in Nat
      /\ \A n \in SimRates : n \in Nat /\ n + Margin + Stretch(r) <= LoopLength
      /\ Margin + Stretch(r) < LoopLength
  BY SectionFacts, ConsoleAssumption DEF ConsoleAssumption
<1>7. /\ p \in 0..(LoopLength - 1) /\ q \in 0..(LoopLength - 1) /\ d \in 0..(LoopLength - 1)
      /\ p \notin 1..(Margin - 1)
  BY <1>1, <1>2 DEF Cell
<1>8. /\ IsInside(a, Sections[r]) <=> p \in Margin..(Margin + Stretch(r))
      /\ IsInside(c, Sections[r]) <=> q \in Margin..(Margin + Stretch(r))
  BY <1>1, <1>2, <1>4, SectionFacts
<1>9. ASSUME IsInside(a, Sections[r]), NEW n \in SimRates, d <= n
      PROVE  q \notin 1..(Margin - 1)
  <2>1. n \in Nat /\ n + Margin + Stretch(r) <= LoopLength
    BY <1>6
  <2> QED
    BY <1>5, <1>6, <1>7, <1>8, <1>9, <2>1
<1>10. ASSUME ~IsInside(a, Sections[r]), d <= Forward(a, h)
       PROVE  ~IsInside(c, Sections[r]) /\ q \notin 1..(Margin - 1)
  <2>1. /\ Forward(a, h) = IF a <= h THEN h - a ELSE h - a + LoopLength
        /\ p = IF h <= a THEN a - h ELSE a - h + LoopLength
    BY <1>2, ForwardFacts
  <2>2. a \in 0..(LoopLength - 1) /\ h \in 0..(LoopLength - 1)
    BY DEF Cell
  <2>3. Forward(a, h) = IF p = 0 THEN 0 ELSE LoopLength - p
    BY <1>6, <1>7, <2>1, <2>2
  <2> QED
    BY <1>5, <1>6, <1>7, <1>8, <1>10, <2>3
<1> QED
  BY <1>1, <1>3, <1>4, <1>9, <1>10

\* Two trains that each go on no farther than the gap to the other allows.
LEMMA ApartStep ==
    ASSUME NEW a \in Cell, NEW b \in Cell, NEW d \in Cell, NEW e \in Cell,
           d <= Forward(a, b) - MinGap, e <= Forward(b, a) - MinGap
    PROVE  Forward(Wrap(a + d), Wrap(b + e)) >= MinGap
PROOF
<1>1. LoopLength \in Nat \ {0} /\ MinGap \in Nat
  BY ConsoleAssumption DEF ConsoleAssumption
<1>2. PICK f \in Cell : f = Forward(a, b)
  BY ForwardFacts
<1>3. PICK g \in Cell : g = Forward(b, a)
  BY ForwardFacts
<1>4. /\ f = IF a <= b THEN b - a ELSE b - a + LoopLength
      /\ g = IF b <= a THEN a - b ELSE a - b + LoopLength
  BY <1>2, <1>3, ForwardFacts
<1>5. /\ a \in 0..(LoopLength - 1) /\ b \in 0..(LoopLength - 1) /\ d \in 0..(LoopLength - 1)
      /\ e \in 0..(LoopLength - 1) /\ f \in 0..(LoopLength - 1) /\ g \in 0..(LoopLength - 1)
  BY DEF Cell
<1>6. PICK c \in Cell : c = Wrap(a + d)
  BY GoingOn
<1>7. Forward(c, b) = f - d
  <2>1. Forward(c, b) = IF d <= f THEN f - d ELSE f - d + LoopLength
    BY <1>2, <1>6, GoingOn
  <2> QED
    BY <1>1, <1>2, <1>5, <2>1
<1>8. Forward(c, Wrap(b + e)) = IF f - d + e < LoopLength THEN f - d + e ELSE f - d + e - LoopLength
  BY <1>7, GoingOn
<1>9. Forward(c, Wrap(b + e)) >= MinGap
  BY <1>1, <1>2, <1>3, <1>4, <1>5, <1>8
<1> QED
  BY <1>6, <1>9

LineInv == TypeOK /\ TrainsApart /\ NoneBetween

\* A tick keeps the trains apart and out of the sections, and sweeps none.
LEMMA TickLine ==
    ASSUME LineInv, Tick
    PROVE  /\ trains' \in [Train -> TrainType] /\ TrainsApart' /\ NoneBetween'
           /\ \A x \in Train, r \in Active :
                 IsInside(trains[x].t, Sections[r]) \/ \A c \in Swept(x) : ~IsInside(c, Sections[r])
PROOF
<1> USE DEF LineInv
<1>1. simRate \in Nat /\ simRate \in SimRates
  BY ConsoleAssumption DEF TypeOK, ConsoleAssumption
<1>2. PICK step \in Nat : step = simRate
  BY <1>1
<1>3. trains' = [x \in Train |-> Advanced(x, step)] /\ cleared' = cleared
  BY <1>2 DEF Tick
<1>4. trains' \in [Train -> TrainType]
  BY <1>3, AdvancedFacts
<1>5. Active' = Active /\ Active \subseteq Restriction
  BY <1>3 DEF Active
<1>6. ASSUME NEW x \in Train
      PROVE  \E d \in Cell : /\ trains'[x].t = Wrap(trains[x].t + d) /\ d <= step
                             /\ \A r \in Binding(trains[x].t) : d <= Forward(trains[x].t, HoldAt(r))
                             /\ \A y \in Train \ {x} : d <= Forward(trains[x].t, trains[y].t) - MinGap
  <2>1. trains'[x].t = Wrap(trains[x].t + Move(x, step))
    BY <1>3, AdvancedFacts
  <2> QED
    BY <2>1, AdvancedFacts
<1>7. ASSUME NEW x \in Train, NEW y \in Train, x # y
      PROVE  Forward(trains'[x].t, trains'[y].t) >= MinGap
  <2>1. PICK a \in Cell : a = trains[x].t
    BY TrainFacts
  <2>2. PICK b \in Cell : b = trains[y].t
    BY TrainFacts
  <2>3. PICK d \in Cell : trains'[x].t = Wrap(a + d) /\ d <= Forward(a, b) - MinGap
    BY <1>6, <1>7, <2>1, <2>2
  <2>4. PICK e \in Cell : trains'[y].t = Wrap(b + e) /\ e <= Forward(b, a) - MinGap
    BY <1>6, <1>7, <2>1, <2>2
  <2> QED
    BY <2>3, <2>4, ApartStep
<1>8. ASSUME NEW x \in Train, NEW r \in Active
      PROVE  /\ Forward(HoldAt(r), trains'[x].t) \notin 1..(Margin - 1)
             /\ IsInside(trains'[x].t, Sections[r]) => IsInside(trains[x].t, Sections[r])
             /\ ~IsInside(trains[x].t, Sections[r]) => \A c \in Swept(x) : ~IsInside(c, Sections[r])
  <2>1. PICK a \in Cell : a = trains[x].t
    BY TrainFacts
  <2>2. PICK d \in Cell : /\ trains'[x].t = Wrap(a + d) /\ d <= step
                          /\ \A q \in Binding(a) : d <= Forward(a, HoldAt(q))
    BY <1>6, <2>1
  <2>3. r \in Restriction /\ Forward(HoldAt(r), a) \notin 1..(Margin - 1)
    BY <1>5, <2>1 DEF NoneBetween
  <2>4. CASE IsInside(a, Sections[r])
    <3>1. \E n \in SimRates : d <= n
      BY <1>1, <1>2, <2>2
    <3> QED
      BY <2>1, <2>2, <2>3, <2>4, <3>1, SectionStep
  <2>5. CASE ~IsInside(a, Sections[r])
    <3>1. r \in Binding(a)
      BY <2>5 DEF Binding
    <3>2. d <= Forward(a, HoldAt(r))
      BY <2>2, <3>1
    <3>3. /\ ~IsInside(trains'[x].t, Sections[r])
          /\ Forward(HoldAt(r), trains'[x].t) \notin 1..(Margin - 1)
      BY <2>2, <2>3, <2>5, <3>2, SectionStep
    <3>4. ASSUME NEW c \in Swept(x) PROVE ~IsInside(c, Sections[r])
      <4>1. Forward(a, trains'[x].t) = d
        BY <2>2, GoingOn
      <4>2. PICK e \in 1..d : c = Wrap(a + e)
        BY <2>1, <4>1 DEF Swept
      <4>3. /\ e \in Cell /\ e <= d /\ d \in Int /\ e \in Int
        BY ConsoleAssumption DEF Cell, ConsoleAssumption
      <4>4. PICK f \in Cell : f = Forward(a, HoldAt(r))
        BY <2>3, SectionFacts, ForwardFacts
      <4>5. e <= f
        BY <3>2, <4>3, <4>4 DEF Cell
      <4> QED
        BY <2>3, <2>5, <4>2, <4>3, <4>4, <4>5, SectionStep
    <3> QED
      BY <2>1, <2>5, <3>3, <3>4
  <2> QED
    BY <2>4, <2>5
<1>9. TrainsApart'
  BY <1>5, <1>7, <1>8 DEF TrainsApart
<1>10. NoneBetween'
  BY <1>5, <1>8 DEF NoneBetween
<1> QED
  BY <1>4, <1>8, <1>9, <1>10

-----------------------------------------------------------------------------
(***************************************************************************)
(* What the log accounts for.                                              *)
(***************************************************************************)

Line(kind, who) == [kind |-> kind, operator |-> who]
Sessions == {e \in EntryType : e.kind = "session"}

LEMMA ToldCount ==
    ASSUME NEW l \in Seq(EntryType)
    PROVE  /\ \A kind, who : Cardinality({k \in DOMAIN l : l[k] = Entry(kind, who)[1]})
                             = Count(l, {Line(kind, who)})
           /\ Cardinality({k \in DOMAIN l : l[k].kind = "session"}) = Count(l, Sessions)
PROOF
<1>1. \A k \in DOMAIN l : l[k] \in EntryType
  OBVIOUS
<1>2. ASSUME NEW kind, NEW who
      PROVE  Cardinality({k \in DOMAIN l : l[k] = Entry(kind, who)[1]}) = Count(l, {Line(kind, who)})
  <2>1. Entry(kind, who)[1] = Line(kind, who)
    BY DEF Entry, Line
  <2>2. {k \in DOMAIN l : l[k] = Entry(kind, who)[1]} = {k \in DOMAIN l : l[k] \in {Line(kind, who)}}
    BY <2>1
  <2> QED
    BY <2>2 DEF Count
<1>3. {k \in DOMAIN l : l[k].kind = "session"} = {k \in DOMAIN l : l[k] \in Sessions}
  BY <1>1 DEF Sessions
<1> QED
  BY <1>2, <1>3 DEF Count

\* How many of S are marked as p's.
Marks(S, f, p) == Cardinality({x \in S : f[x] = p})

LEMMA MarksFinite ==
    ASSUME NEW S, IsFiniteSet(S), NEW f, NEW p
    PROVE  Marks(S, f, p) \in Nat
PROOF
<1>1. {x \in S : f[x] = p} \in SUBSET S
  OBVIOUS
<1>2. IsFiniteSet({x \in S : f[x] = p})
  BY <1>1, FS_Subset
<1> QED
  BY <1>2, FS_CardinalityType DEF Marks

\* The account the log gives of who acknowledged, who released, who came and went.
Account(l, f, g, o) ==
    /\ \A p \in Operator :
          /\ Count(l, {Line("ack", p)}) = Marks(Alarm, f, p)
          /\ Count(l, {Line("clear", p)}) = Marks(Restriction, g, p)
    /\ (o # None) <=> (Count(l, Sessions) % 2 = 1)

LEMMA AccountGiven ==
    ASSUME TypeOK
    PROVE  LogAccounts <=> (Len(log) < LogCap => Account(log, ack, cleared, operator))
PROOF
<1>1. log \in Seq(EntryType)
  BY DEF TypeOK, EntryType
<1>2. \A kind, who : Told(kind, who) = Count(log, {Line(kind, who)})
  BY <1>1, ToldCount, Zenon DEF Told
<1>3. Cardinality({k \in DOMAIN log : log[k].kind = "session"}) = Count(log, Sessions)
  BY <1>1, ToldCount, Zenon
<1> QED
  BY <1>2, <1>3 DEF LogAccounts, Account, Marks

\* The account after entries s are logged, if it is right about the effects.
LEMMA AccountKept ==
    ASSUME TypeOK, TypeOK', LogAccounts, NEW s \in Seq(EntryType), log' = WithLog(s),
           \A p \in Operator :
              /\ Marks(Alarm, ack', p)
                 = Count(s, {Line("ack", p)}) + Marks(Alarm, ack, p)
              /\ Marks(Restriction, cleared', p)
                 = Count(s, {Line("clear", p)}) + Marks(Restriction, cleared, p),
           \/ Count(s, Sessions) = 0 /\ ((operator' # None) <=> (operator # None))
           \/ Count(s, Sessions) = 1 /\ ((operator' # None) <=> (operator = None))
    PROVE  LogAccounts'
PROOF
<1>1. log \in Seq(EntryType) /\ log' \in Seq(EntryType)
  BY DEF TypeOK, EntryType
<1>2. SUFFICES ASSUME Len(log') < LogCap
               PROVE  Account(log', ack', cleared', operator')
  <2>1. \A kind, who : Told(kind, who)' = Count(log', {Line(kind, who)})
    <3> SUFFICES ASSUME NEW kind, NEW who
                 PROVE  Cardinality({k \in DOMAIN log' : log'[k] = Entry(kind, who)[1]})
                        = Count(log', {Line(kind, who)})
      BY DEF Told, Entry
    <3>1. PICK l \in Seq(EntryType) : l = log'
      BY <1>1
    <3>2. Cardinality({k \in DOMAIN l : l[k] = Entry(kind, who)[1]}) = Count(l, {Line(kind, who)})
      BY ToldCount
    <3> QED
      BY <3>1, <3>2, Zenon
  <2>2. Cardinality({k \in DOMAIN log' : log'[k].kind = "session"}) = Count(log', Sessions)
    BY <1>1, ToldCount, Zenon
  <2> QED
    BY <2>1, <2>2 DEF LogAccounts, Account, Marks
<1>3. log' = s \o log /\ Len(log) < LogCap
  BY <1>1, <1>2, WithLogFacts
<1>4. Account(log, ack, cleared, operator)
  BY <1>3, AccountGiven
<1>5. ASSUME NEW E
      PROVE  Count(log', E) = Count(s, E) + Count(log, E) /\ Count(log, E) \in Nat
  <2>1. PICK l \in Seq(EntryType) : l = log
    BY <1>1
  <2>2. Count(s \o l, E) = Count(s, E) + Count(l, E)
    BY CountConcat
  <2>3. Count(l, E) \in Nat
    BY CountFinite
  <2> QED
    BY <1>3, <2>1, <2>2, <2>3
<1>6. \A p \in Operator :
         /\ Count(log', {Line("ack", p)}) = Marks(Alarm, ack', p)
         /\ Count(log', {Line("clear", p)}) = Marks(Restriction, cleared', p)
  <2> SUFFICES ASSUME NEW p \in Operator
               PROVE  /\ Count(log', {Line("ack", p)}) = Marks(Alarm, ack', p)
                      /\ Count(log', {Line("clear", p)})
                         = Marks(Restriction, cleared', p)
    OBVIOUS
  <2>1. /\ Count(log, {Line("ack", p)}) = Marks(Alarm, ack, p)
        /\ Count(log, {Line("clear", p)}) = Marks(Restriction, cleared, p)
    BY <1>4 DEF Account
  <2>2. /\ Count(log', {Line("ack", p)}) = Count(s, {Line("ack", p)}) + Count(log, {Line("ack", p)})
        /\ Count(log', {Line("clear", p)})
           = Count(s, {Line("clear", p)}) + Count(log, {Line("clear", p)})
    BY <1>5
  <2> QED
    BY <2>1, <2>2
<1>7. (operator' # None) <=> (Count(log', Sessions) % 2 = 1)
  <2>1. PICK n \in Nat : n = Count(log, Sessions)
    BY <1>5
  <2>2. (operator # None) <=> (n % 2 = 1)
    BY <1>4, <2>1 DEF Account
  <2>3. Count(log', Sessions) = Count(s, Sessions) + n
    BY <1>5, <2>1
  <2>4. CASE Count(s, Sessions) = 0 /\ ((operator' # None) <=> (operator # None))
    BY <2>2, <2>3, <2>4
  <2>5. CASE Count(s, Sessions) = 1 /\ ((operator' # None) <=> (operator = None))
    <3>1. Count(log', Sessions) = n + 1
      BY <2>1, <2>3, <2>5
    <3>2. ((n + 1) % 2 = 1) <=> ~(n % 2 = 1)
      OBVIOUS
    <3> QED
      BY <2>2, <2>5, <3>1, <3>2
  <2> QED
    BY <2>4, <2>5
<1> QED
  BY <1>6, <1>7 DEF Account

\* Marking one more item as o's.
LEMMA MarkOne ==
    ASSUME NEW S, IsFiniteSet(S), NEW f, NEW g, NEW a \in S, NEW o, f[a] # o,
           \A x \in S : g[x] = IF x = a THEN o ELSE f[x],
           NEW p, p # f[a]
    PROVE  Marks(S, g, p) = (IF p = o THEN 1 ELSE 0) + Marks(S, f, p)
PROOF
<1> DEFINE old == {x \in S : f[x] = p}
           new == {x \in S : g[x] = p}
<1>1. IsFiniteSet(old)
  <2>1. old \in SUBSET S
    OBVIOUS
  <2> QED
    BY <2>1, FS_Subset
<1>2. Cardinality(old) \in Nat
  BY <1>1, FS_CardinalityType
<1>3. CASE p = o
  <2>1. new = old \union {a} /\ a \notin old
    BY <1>3
  <2> HIDE DEF old, new
  <2>2. Cardinality(new) = Cardinality(old) + 1
    BY <1>1, <2>1, FS_AddElement
  <2> QED
    BY <1>2, <1>3, <2>2 DEF old, new, Marks
<1>4. CASE p # o
  <2>1. new = old
    BY <1>4
  <2> QED
    BY <1>2, <1>4, <2>1 DEF Marks
<1> QED
  BY <1>3, <1>4

-----------------------------------------------------------------------------
(***************************************************************************)
(* The invariant and the steps.                                            *)
(***************************************************************************)

Kept == TypeOK /\ DialogKept /\ TrainsApart /\ NoneBetween /\ LogAccounts

LEMMA InitKept == Init => Kept
PROOF
<1> SUFFICES ASSUME Init PROVE Kept
  OBVIOUS
<1>1. /\ Seed \in Operator /\ None \notin Operator \union Restriction \union Train
      /\ 1 \in SimRates /\ Start \in [Train -> [t : Cell, dev : Int]]
  BY ConsoleAssumption DEF ConsoleAssumption
<1>2. log = <<Line("session", Seed)>> /\ Line("session", Seed) \in EntryType
  BY <1>1 DEF Init, Entry, Line, EntryType
<1>3. log \in Seq(EntryType)
  BY <1>2
<1>4. TypeOK
  <2>1. trains \in [Train -> [t : Cell, dev : Int, hold : Restriction \union Train \union {None}]]
    <3>1. \A x \in Train : Start[x].t \in Cell /\ Start[x].dev \in Int
      BY <1>1
    <3> QED
      BY <3>1 DEF Init
  <2>2. /\ operator \in Operator /\ ack \in [Alarm -> Operator \union {None}]
        /\ cleared \in [Restriction -> Operator \union {None}]
        /\ selected \in Train \union {None} /\ simRate \in SimRates
    BY <1>1 DEF Init
  <2>3. release \in [target : Restriction \union {None}, cctv : BOOLEAN, typed : Operator \union {None}]
    BY DEF Init, Closed
  <2> QED
    BY <1>3, <2>1, <2>2, <2>3 DEF TypeOK, EntryType
<1>5. DialogKept
  BY DEF Init, Closed, DialogKept
<1>6. \A x \in Train : trains[x].t = Start[x].t
  BY DEF Init
<1>7. TrainsApart /\ NoneBetween
  BY <1>6, LineAssumption DEF LineAssumption, TrainsApart, NoneBetween, Active
<1>8. Account(log, ack, cleared, operator)
  <2>1. ASSUME NEW p \in Operator
        PROVE  /\ Count(log, {Line("ack", p)}) = Marks(Alarm, ack, p)
               /\ Count(log, {Line("clear", p)}) = Marks(Restriction, cleared, p)
    <3>1. {a \in Alarm : ack[a] = p} = {} /\ {r \in Restriction : cleared[r] = p} = {}
      BY <1>1 DEF Init
    <3>2. Line("session", Seed) \notin {Line("ack", p)} /\ Line("session", Seed) \notin {Line("clear", p)}
      BY DEF Line
    <3>3. Count(log, {Line("ack", p)}) = 0 /\ Count(log, {Line("clear", p)}) = 0
      BY <1>2, <3>2, CountOne
    <3> QED
      BY <3>1, <3>3, FS_EmptySet DEF Marks
  <2>2. operator # None /\ Count(log, Sessions) = 1
    <3>1. Line("session", Seed) \in Sessions
      BY <1>2 DEF Sessions, Line
    <3> QED
      BY <1>1, <1>2, <3>1, CountOne DEF Init
  <2>3. (operator # None) <=> (Count(log, Sessions) % 2 = 1)
    BY <2>2
  <2> QED
    BY <2>1, <2>3, Zenon DEF Account
<1>9. LogAccounts
  BY <1>4, <1>8, AccountGiven
<1> QED
  BY <1>4, <1>5, <1>7, <1>9 DEF Kept

\* A tick logs only what trains stopped or went on.
LEMMA TickStep ==
    ASSUME Kept, Tick
    PROVE  Kept'
PROOF
<1> USE DEF Kept
<1>1. /\ trains' \in [Train -> TrainType] /\ TrainsApart' /\ NoneBetween'
  BY TickLine DEF LineInv
<1>2. UNCHANGED <<operator, ack, cleared, selected, simRate, release, verified, commands>>
  BY DEF Tick
<1>3. PICK n \in Nat : log' = WithLog([k \in 1..n |-> Entry("system", None)[1]])
  <2> DEFINE told == {x \in Train :
                        (trains[x].hold \in Restriction) # (trains'[x].hold \in Restriction)}
  <2>1. log' = WithLog([k \in 1..Cardinality(told) |-> Entry("system", None)[1]])
    BY DEF Tick
  <2>2. IsFiniteSet(told)
    <3>1. IsFiniteSet(Train) /\ told \in SUBSET Train
      BY ConsoleAssumption DEF ConsoleAssumption
    <3> QED
      BY <3>1, FS_Subset
  <2>3. Cardinality(told) \in Nat
    BY <2>2, FS_CardinalityType
  <2> QED
    BY <2>1, <2>3
<1> DEFINE s == [k \in 1..n |-> Entry("system", None)[1]]
<1>4. s \in Seq(EntryType) /\ \A k \in DOMAIN s : s[k].kind = "system"
  BY DEF Entry, EntryType
<1>5. /\ \A p \in Operator : Count(s, {Line("ack", p)}) = 0 /\ Count(s, {Line("clear", p)}) = 0
      /\ Count(s, Sessions) = 0
  <2> HIDE DEF s
  <2> QED
    BY <1>4, CountNone DEF Line, Sessions
<1>6. log' = WithLog(s)
  BY <1>3
<1> HIDE DEF s
<1>7. TypeOK'
  <2>1. log' \in Seq(EntryType)
    BY <1>4, <1>6, WithLogFacts DEF TypeOK, EntryType
  <2> QED
    BY <1>1, <1>2, <2>1 DEF TypeOK, TrainType, EntryType
<1>8. DialogKept'
  BY <1>2 DEF DialogKept, Closed
<1>9. LogAccounts'
  <2>1. /\ IsFiniteSet(Alarm) /\ IsFiniteSet(Restriction)
    BY ConsoleAssumption DEF ConsoleAssumption
  <2>2. \A p : Marks(Alarm, ack, p) \in Nat /\ Marks(Restriction, cleared, p) \in Nat
    BY <2>1, MarksFinite
  <2>3. \A p \in Operator :
           /\ Marks(Alarm, ack', p)
              = Count(s, {Line("ack", p)}) + Marks(Alarm, ack, p)
           /\ Marks(Restriction, cleared', p)
              = Count(s, {Line("clear", p)}) + Marks(Restriction, cleared, p)
    BY <1>2, <1>5, <2>2
  <2> QED
    BY <1>2, <1>4, <1>5, <1>6, <1>7, <2>3, AccountKept
<1> QED
  BY <1>1, <1>7, <1>8, <1>9

\* What a command logs and changes, kind by kind.
LEMMA CommandEffects ==
    ASSUME Kept, NEW c \in Offers, Command(c)
    PROVE  /\ UNCHANGED <<trains, verified>>
           /\ \/ /\ c.type = "login" /\ operator = None /\ operator' \in Operator
                 /\ release.target = None /\ log' = WithLog(<<Line("session", operator')>>)
                 /\ UNCHANGED <<ack, cleared, selected, simRate, release>>
              \/ /\ c.type = "logout" /\ operator \in Operator /\ operator' = None
                 /\ release.target = None /\ log' = WithLog(<<Line("session", operator)>>)
                 /\ UNCHANGED <<ack, cleared, selected, simRate, release>>
              \/ /\ c.type = "ack" /\ c.of \in Alarm /\ operator \in Operator /\ ack[c.of] = None
                 /\ ack' = [ack EXCEPT ![c.of] = operator]
                 /\ log' = WithLog(<<Line("ack", operator)>>)
                 /\ UNCHANGED <<operator, cleared, selected, simRate, release>>
              \/ /\ c.type \in {"action", "radio", "advice"} /\ operator \in Operator
                 /\ log' = WithLog(<<Line("action", operator)>>)
                 /\ UNCHANGED <<operator, ack, cleared, selected, simRate, release>>
              \/ /\ c.type \in {"rate", "select"} /\ log' = WithLog(<<>>)
                 /\ selected' \in Train \union {None} /\ simRate' \in SimRates
                 /\ UNCHANGED <<operator, ack, cleared, release>>
              \/ /\ c.type = "clear" /\ operator \in Operator /\ release.target \in Active
                 /\ verified = <<operator, release.target>>
                 /\ cleared' = [cleared EXCEPT ![release.target] = operator]
                 /\ log' = WithLog(<<Line("clear", operator)>>) /\ release' = Closed
                 /\ UNCHANGED <<operator, ack, selected, simRate>>
PROOF
<1> USE DEF Kept
<1>1. Accepts(c)
  BY OffersAccepted DEF PageInv, OfferedAccepted
<1>2. Reduce(c) /\ verified' = verified /\ release' = IF c.type = "clear" THEN Closed ELSE release
  BY <1>1 DEF Command
<1>3. /\ operator # None => operator \in Operator
      /\ selected \in Train \union {None} /\ simRate \in SimRates
  BY DEF TypeOK
<1>4. None \notin Operator
  BY ConsoleAssumption DEF ConsoleAssumption
<1>5. trains' = trains
  BY <1>2 DEF Reduce
<1>6. CASE c.type = "login" /\ c.of \in Operator /\ operator = None /\ release.target = None
  BY <1>2, <1>6 DEF Reduce, Noted, Entry, Line
<1>7. CASE c.type = "logout" /\ operator # None /\ release.target = None
  BY <1>2, <1>3, <1>7 DEF Reduce, Noted, Entry, Line
<1>8. CASE c.type = "ack" /\ c.of \in Alarm /\ operator # None /\ ack[c.of] = None
  BY <1>2, <1>3, <1>8 DEF Reduce, Noted, Entry, Line
<1>9. CASE c.type \in {"action", "radio", "advice"} /\ operator # None
  BY <1>2, <1>3, <1>9 DEF Reduce, Noted, Entry, Line
<1>10. CASE c.type = "rate" /\ c.of \in SimRates
  BY <1>2, <1>3, <1>10 DEF Reduce, Noted
<1>11. CASE c.type = "select" /\ c.of \in Train \union {None}
  BY <1>2, <1>3, <1>11 DEF Reduce, Noted
<1>12. CASE /\ c.type = "clear" /\ c.of = release.target /\ release.target \in Active
            /\ operator # None /\ release.cctv /\ release.target # None
  <2>1. verified = <<operator, release.target>>
    BY <1>12 DEF DialogKept
  <2> QED
    BY <1>2, <1>3, <1>12, <2>1 DEF Reduce, Noted, Entry, Line
<1> QED
  BY <1>2, <1>5, <1>6, <1>7, <1>8, <1>9, <1>10, <1>11, <1>12, OffersFacts DEF PageInv

\* The trains are where they were, and no more is restricted than was.
LEMMA LineKept ==
    ASSUME Kept, trains' = trains, Active' \subseteq Active
    PROVE  TrainsApart' /\ NoneBetween'
  BY DEF Kept, TrainsApart, NoneBetween

\* The account after one entry of an operator is logged.
LEMMA LogStep ==
    ASSUME Kept, TypeOK', NEW kind \in {"session", "ack", "clear", "action"}, NEW o \in Operator,
           log' = WithLog(<<Line(kind, o)>>),
           \A p \in Operator :
              /\ Marks(Alarm, ack', p)
                 = (IF kind = "ack" /\ p = o THEN 1 ELSE 0) + Marks(Alarm, ack, p)
              /\ Marks(Restriction, cleared', p)
                 = (IF kind = "clear" /\ p = o THEN 1 ELSE 0) + Marks(Restriction, cleared, p),
           \/ kind = "session" /\ ((operator' # None) <=> (operator = None))
           \/ kind # "session" /\ operator' = operator
    PROVE  LogAccounts'
PROOF
<1>1. Line(kind, o) \in EntryType /\ Line(kind, o).kind = kind
  BY DEF Line, EntryType
<1>2. /\ Line(kind, o) \in Sessions <=> kind = "session"
      /\ \A p : /\ Line(kind, o) \in {Line("ack", p)} <=> kind = "ack" /\ o = p
                /\ Line(kind, o) \in {Line("clear", p)} <=> kind = "clear" /\ o = p
  BY <1>1 DEF Line, Sessions
<1>3. PICK s \in Seq(EntryType) : s = <<Line(kind, o)>>
  <2> DEFINE e == Line(kind, o)
  <2>1. e \in EntryType
    BY <1>1
  <2> HIDE DEF e
  <2>2. <<e>> \in Seq(EntryType)
    BY <2>1
  <2> QED
    BY <2>2 DEF e
<1>4. \A E : Count(s, E) = IF Line(kind, o) \in E THEN 1 ELSE 0
  BY <1>3, CountOne
<1>5. Count(s, Sessions) = IF kind = "session" THEN 1 ELSE 0
  BY <1>2, <1>4
<1>6. \A p \in Operator : /\ Count(s, {Line("ack", p)}) = IF kind = "ack" /\ p = o THEN 1 ELSE 0
                          /\ Count(s, {Line("clear", p)}) = IF kind = "clear" /\ p = o THEN 1 ELSE 0
  BY <1>2, <1>4
<1>7. \A p \in Operator :
         /\ Marks(Alarm, ack', p) = Count(s, {Line("ack", p)}) + Marks(Alarm, ack, p)
         /\ Marks(Restriction, cleared', p)
            = Count(s, {Line("clear", p)}) + Marks(Restriction, cleared, p)
  BY <1>6
<1>8. \/ Count(s, Sessions) = 0 /\ ((operator' # None) <=> (operator # None))
      \/ Count(s, Sessions) = 1 /\ ((operator' # None) <=> (operator = None))
  BY <1>5
<1>9. TypeOK /\ LogAccounts /\ log' = WithLog(s)
  BY <1>3 DEF Kept
<1> QED
  BY <1>7, <1>8, <1>9, AccountKept

LEMMA CommandStep ==
    ASSUME Kept, NEW c \in Offers, Command(c)
    PROVE  Kept'
PROOF
<1> USE DEF Kept
<1>1. /\ trains' = trains /\ verified' = verified /\ None \notin Operator
      /\ None \notin Restriction /\ IsFiniteSet(Alarm) /\ IsFiniteSet(Restriction)
  BY CommandEffects, ConsoleAssumption DEF ConsoleAssumption
<1>2. /\ log \in Seq(EntryType) /\ ack \in [Alarm -> Operator \union {None}]
      /\ cleared \in [Restriction -> Operator \union {None}]
      /\ operator \in Operator \union {None}
      /\ release \in [target : Restriction \union {None}, cctv : BOOLEAN, typed : Operator \union {None}]
  BY DEF TypeOK, EntryType
<1>3. Closed \in [target : Restriction \union {None}, cctv : BOOLEAN, typed : Operator \union {None}]
  BY DEF Closed
<1>4. \A p : Marks(Alarm, ack, p) \in Nat /\ Marks(Restriction, cleared, p) \in Nat
  BY <1>1, MarksFinite
<1>5. \A kind \in {"session", "ack", "clear", "action"}, o \in Operator :
         <<Line(kind, o)>> \in Seq(EntryType)
  <2>1. \A kind \in {"session", "ack", "clear", "action"}, o \in Operator : Line(kind, o) \in EntryType
    BY DEF Line, EntryType
  <2> QED
    BY <2>1
<1>6. CASE /\ c.type = "login" /\ operator = None /\ operator' \in Operator
           /\ release.target = None /\ log' = WithLog(<<Line("session", operator')>>)
           /\ UNCHANGED <<ack, cleared, selected, simRate, release>>
  <2>1. log' \in Seq(EntryType)
    BY <1>2, <1>5, <1>6, WithLogFacts
  <2>2. TypeOK'
    BY <1>1, <1>6, <2>1 DEF TypeOK, EntryType
  <2>3. DialogKept'
    BY <1>1, <1>6 DEF DialogKept, Closed
  <2>4. Active' = Active
    BY <1>6 DEF Active
  <2>5. LogAccounts'
    <3>1. PICK o \in Operator : o = operator'
      BY <1>6
    <3>2. operator' # None /\ log' = WithLog(<<Line("session", o)>>)
      BY <1>1, <1>6, <3>1
    <3>3. \A p \in Operator : /\ Marks(Alarm, ack', p) = 0 + Marks(Alarm, ack, p)
                              /\ Marks(Restriction, cleared', p) = 0 + Marks(Restriction, cleared, p)
      BY <1>4, <1>6
    <3> HIDE DEF Kept
    <3> QED
      BY <1>6, <2>2, <3>2, <3>3, LogStep
  <2> QED
    BY <1>1, <2>2, <2>3, <2>4, <2>5, LineKept
<1>7. CASE /\ c.type = "logout" /\ operator \in Operator /\ operator' = None
           /\ release.target = None /\ log' = WithLog(<<Line("session", operator)>>)
           /\ UNCHANGED <<ack, cleared, selected, simRate, release>>
  <2>1. log' \in Seq(EntryType)
    BY <1>2, <1>5, <1>7, WithLogFacts
  <2>2. TypeOK'
    BY <1>1, <1>7, <2>1 DEF TypeOK, EntryType
  <2>3. DialogKept'
    BY <1>1, <1>7 DEF DialogKept, Closed
  <2>4. Active' = Active
    BY <1>7 DEF Active
  <2>5. LogAccounts'
    <3>1. PICK o \in Operator : o = operator
      BY <1>7
    <3>2. operator # None /\ log' = WithLog(<<Line("session", o)>>)
      BY <1>1, <1>7, <3>1
    <3>3. \A p \in Operator : /\ Marks(Alarm, ack', p) = 0 + Marks(Alarm, ack, p)
                              /\ Marks(Restriction, cleared', p) = 0 + Marks(Restriction, cleared, p)
      BY <1>4, <1>7
    <3> HIDE DEF Kept
    <3> QED
      BY <1>7, <2>2, <3>2, <3>3, LogStep
  <2> QED
    BY <1>1, <2>2, <2>3, <2>4, <2>5, LineKept
<1>8. CASE /\ c.type = "ack" /\ c.of \in Alarm /\ operator \in Operator /\ ack[c.of] = None
           /\ ack' = [ack EXCEPT ![c.of] = operator]
           /\ log' = WithLog(<<Line("ack", operator)>>)
           /\ UNCHANGED <<operator, cleared, selected, simRate, release>>
  <2>1. log' \in Seq(EntryType)
    BY <1>2, <1>5, <1>8, WithLogFacts
  <2>2. TypeOK'
    BY <1>1, <1>2, <1>8, <2>1 DEF TypeOK, EntryType
  <2>3. DialogKept'
    BY <1>1, <1>8 DEF DialogKept, Closed
  <2>4. Active' = Active
    BY <1>8 DEF Active
  <2>5. PICK o \in Operator : o = operator
    BY <1>8
  <2>6. \A p \in Operator : Marks(Alarm, ack', p) = (IF p = o THEN 1 ELSE 0) + Marks(Alarm, ack, p)
    <3>1. PICK f \in [Alarm -> Operator \union {None}] : f = ack
      BY <1>2
    <3>2. PICK a \in Alarm : a = c.of
      BY <1>8
    <3>3. PICK g : g = ack'
      OBVIOUS
    <3>4. f[a] = None /\ None # o /\ \A x \in Alarm : g[x] = IF x = a THEN o ELSE f[x]
      BY <1>1, <1>8, <2>5, <3>1, <3>2, <3>3
    <3>5. ASSUME NEW p \in Operator
          PROVE  Marks(Alarm, g, p) = (IF p = o THEN 1 ELSE 0) + Marks(Alarm, f, p)
      <4>1. p # f[a] /\ f[a] # o /\ IsFiniteSet(Alarm)
        BY <1>1, <3>4
      <4> QED
        BY <3>4, <4>1, MarkOne
    <3> QED
      BY <3>1, <3>3, <3>5
  <2>7. LogAccounts'
    <3>1. log' = WithLog(<<Line("ack", o)>>) /\ operator' = operator
      BY <1>8, <2>5
    <3>2. \A p \in Operator : Marks(Restriction, cleared', p) = 0 + Marks(Restriction, cleared, p)
      BY <1>4, <1>8
    <3> HIDE DEF Kept
    <3> QED
      BY <2>2, <2>6, <3>1, <3>2, LogStep
  <2> QED
    BY <1>1, <2>2, <2>3, <2>4, <2>7, LineKept
<1>9. CASE /\ c.type \in {"action", "radio", "advice"} /\ operator \in Operator
           /\ log' = WithLog(<<Line("action", operator)>>)
           /\ UNCHANGED <<operator, ack, cleared, selected, simRate, release>>
  <2>1. log' \in Seq(EntryType)
    BY <1>2, <1>5, <1>9, WithLogFacts
  <2>2. TypeOK'
    BY <1>1, <1>9, <2>1 DEF TypeOK, EntryType
  <2>3. DialogKept'
    BY <1>1, <1>9 DEF DialogKept, Closed
  <2>4. Active' = Active
    BY <1>9 DEF Active
  <2>5. LogAccounts'
    <3>1. PICK o \in Operator : o = operator
      BY <1>9
    <3>2. log' = WithLog(<<Line("action", o)>>)
      BY <1>9, <3>1
    <3>3. \A p \in Operator : /\ Marks(Alarm, ack', p) = 0 + Marks(Alarm, ack, p)
                              /\ Marks(Restriction, cleared', p) = 0 + Marks(Restriction, cleared, p)
      BY <1>4, <1>9
    <3> HIDE DEF Kept
    <3> QED
      BY <1>9, <2>2, <3>2, <3>3, LogStep
  <2> QED
    BY <1>1, <2>2, <2>3, <2>4, <2>5, LineKept
<1>10. CASE /\ c.type \in {"rate", "select"} /\ log' = WithLog(<<>>)
            /\ selected' \in Train \union {None} /\ simRate' \in SimRates
            /\ UNCHANGED <<operator, ack, cleared, release>>
  <2>1. <<>> \in Seq(EntryType) /\ \A E : Count(<<>>, E) = 0
    <3>1. DOMAIN <<>> = {}
      OBVIOUS
    <3> QED
      BY <3>1, CountNone
  <2>2. log' \in Seq(EntryType)
    BY <1>2, <1>10, <2>1, WithLogFacts
  <2>3. TypeOK'
    BY <1>1, <1>10, <2>2 DEF TypeOK, EntryType
  <2>4. DialogKept'
    BY <1>1, <1>10 DEF DialogKept, Closed
  <2>5. Active' = Active
    BY <1>10 DEF Active
  <2>6. LogAccounts'
    <3>1. PICK s \in Seq(EntryType) : s = <<>>
      BY <2>1
    <3>2. \A p \in Operator :
             /\ Marks(Alarm, ack', p) = Count(s, {Line("ack", p)}) + Marks(Alarm, ack, p)
             /\ Marks(Restriction, cleared', p)
                = Count(s, {Line("clear", p)}) + Marks(Restriction, cleared, p)
      BY <1>4, <1>10, <2>1, <3>1
    <3>3. Count(s, Sessions) = 0 /\ ((operator' # None) <=> (operator # None))
      BY <1>10, <2>1, <3>1
    <3>4. log' = WithLog(s)
      BY <1>10, <3>1
    <3> QED
      BY <2>3, <3>2, <3>3, <3>4, AccountKept
  <2> QED
    BY <1>1, <2>3, <2>4, <2>5, <2>6, LineKept
<1>11. CASE /\ c.type = "clear" /\ operator \in Operator /\ release.target \in Active
            /\ cleared' = [cleared EXCEPT ![release.target] = operator]
            /\ log' = WithLog(<<Line("clear", operator)>>) /\ release' = Closed
            /\ UNCHANGED <<operator, ack, selected, simRate>>
  <2>1. log' \in Seq(EntryType)
    BY <1>2, <1>5, <1>11, WithLogFacts
  <2>2. TypeOK'
    BY <1>1, <1>2, <1>3, <1>11, <2>1 DEF TypeOK, EntryType
  <2>3. DialogKept'
    BY <1>11 DEF DialogKept, Closed
  <2>4. release.target \in Restriction /\ cleared[release.target] = None
    BY <1>11 DEF Active
  <2>5. Active' \subseteq Active
    BY <1>2, <1>11, <2>4 DEF Active
  <2>6. PICK o \in Operator : o = operator
    BY <1>11
  <2>7. \A p \in Operator :
           Marks(Restriction, cleared', p) = (IF p = o THEN 1 ELSE 0) + Marks(Restriction, cleared, p)
    <3>1. PICK f \in [Restriction -> Operator \union {None}] : f = cleared
      BY <1>2
    <3>2. PICK r \in Restriction : r = release.target
      BY <2>4
    <3>3. PICK g : g = cleared'
      OBVIOUS
    <3>4. f[r] = None /\ None # o /\ \A x \in Restriction : g[x] = IF x = r THEN o ELSE f[x]
      BY <1>1, <1>11, <2>4, <2>6, <3>1, <3>2, <3>3
    <3>5. ASSUME NEW p \in Operator
          PROVE  Marks(Restriction, g, p) = (IF p = o THEN 1 ELSE 0) + Marks(Restriction, f, p)
      <4>1. p # f[r] /\ f[r] # o /\ IsFiniteSet(Restriction)
        BY <1>1, <3>4
      <4> QED
        BY <3>4, <4>1, MarkOne
    <3> QED
      BY <3>1, <3>3, <3>5
  <2>8. LogAccounts'
    <3>1. log' = WithLog(<<Line("clear", o)>>) /\ operator' = operator
      BY <1>11, <2>6
    <3>2. \A p \in Operator : Marks(Alarm, ack', p) = 0 + Marks(Alarm, ack, p)
      BY <1>4, <1>11
    <3> HIDE DEF Kept
    <3> QED
      BY <2>2, <2>7, <3>1, <3>2, LogStep
  <2> QED
    BY <1>1, <2>2, <2>3, <2>5, <2>8, LineKept
<1> QED
  BY <1>6, <1>7, <1>8, <1>9, <1>10, <1>11, CommandEffects

\* The dialog changes nothing but itself, and what was ticked in it.
DialogAction ==
    \/ CheckCctv \/ CloseRelease
    \/ \E r \in Restriction : OpenRelease(r)
    \/ \E o \in Operator : Type(o)

LEMMA DialogStep ==
    ASSUME Kept, DialogAction
    PROVE  Kept'
PROOF
<1> USE DEF Kept
<1>1. UNCHANGED <<operator, trains, ack, cleared, log, selected, simRate>>
  BY DEF DialogAction, CheckCctv, CloseRelease, OpenRelease, Type
<1>2. None \notin Restriction
  BY ConsoleAssumption DEF ConsoleAssumption
<1> DEFINE Dialog == [target : Restriction \union {None}, cctv : BOOLEAN, typed : Operator \union {None}]
<1>3. release \in Dialog
  BY DEF TypeOK
<1>4. release' \in Dialog /\ DialogKept'
  <2>1. CASE CheckCctv
    <3>1. release' = [target |-> release.target, cctv |-> ~release.cctv, typed |-> release.typed]
      BY <1>3, <2>1 DEF CheckCctv
    <3>2. release.target # None /\ verified' = IF release'.cctv THEN <<operator, release.target>> ELSE verified
      BY <2>1 DEF CheckCctv
    <3> QED
      BY <1>1, <1>3, <3>1, <3>2 DEF DialogKept
  <2>2. CASE CloseRelease
    BY <1>1, <2>2 DEF CloseRelease, DialogKept, Closed
  <2>3. ASSUME NEW r \in Restriction, OpenRelease(r)
        PROVE  release' \in Dialog /\ DialogKept'
    <3>1. operator # None /\ cleared[r] = None /\ verified' = verified
      BY <2>3 DEF OpenRelease, Active
    <3>2. CASE release.target = r
      <4>1. release' = release
        BY <2>3, <3>2 DEF OpenRelease, Opened
      <4> QED
        BY <1>1, <1>3, <3>1, <4>1 DEF DialogKept, Closed
    <3>3. CASE release.target # r
      <4>1. release' = [target |-> r, cctv |-> FALSE, typed |-> None]
        BY <2>3, <3>3 DEF OpenRelease, Opened, Closed
      <4> QED
        BY <1>1, <1>2, <3>1, <4>1 DEF DialogKept, Closed
    <3> QED
      BY <3>2, <3>3
  <2>4. ASSUME NEW o \in Operator, Type(o)
        PROVE  release' \in Dialog /\ DialogKept'
    <3>1. release' = [target |-> release.target, cctv |-> release.cctv, typed |-> o]
          /\ release.target # None /\ verified' = verified
      BY <1>3, <2>4 DEF Type
    <3> QED
      BY <1>1, <1>3, <3>1 DEF DialogKept
  <2> QED
    BY <2>1, <2>2, <2>3, <2>4 DEF DialogAction
<1>5. TypeOK'
  BY <1>1, <1>4 DEF TypeOK
<1>6. TrainsApart' /\ NoneBetween'
  <2>1. Active' = Active
    BY <1>1 DEF Active
  <2> QED
    BY <1>1, <2>1, LineKept
<1>7. LogAccounts'
  <2>1. log' = log /\ ack' = ack /\ cleared' = cleared /\ operator' = operator
    BY <1>1
  <2> QED
    BY <2>1 DEF LogAccounts, Told, Entry
<1> QED
  BY <1>4, <1>5, <1>6, <1>7

LEMMA StepKept == Kept /\ [Next]_vars => Kept'
PROOF
<1> SUFFICES ASSUME Kept, [Next]_vars PROVE Kept'
  OBVIOUS
<1>1. CASE Tick
  BY <1>1, TickStep
<1>2. ASSUME NEW c \in Offers, Command(c) PROVE Kept'
  BY <1>2, CommandStep
<1>3. CASE DialogAction
  BY <1>3, DialogStep
<1>4. CASE UNCHANGED vars
  <2>1. UNCHANGED <<operator, trains, ack, cleared, log, selected, simRate, release, verified>>
    BY <1>4 DEF vars
  <2>2. Active' = Active
    BY <2>1 DEF Active
  <2>3. TrainsApart' /\ NoneBetween'
    BY <2>1, <2>2, LineKept
  <2>4. LogAccounts'
    BY <2>1 DEF Kept, LogAccounts, Told, Entry
  <2> QED
    BY <2>1, <2>3, <2>4 DEF Kept, TypeOK, DialogKept, Closed
<1> QED
  BY <1>1, <1>2, <1>3, <1>4 DEF Next, DialogAction

LEMMA KeptHolds == Spec => []Kept
PROOF
<1>1. Init => Kept
  BY InitKept
<1>2. Kept /\ [Next]_vars => Kept'
  BY StepKept
<1> QED
  BY <1>1, <1>2, PTL DEF Spec

-----------------------------------------------------------------------------
(***************************************************************************)
(* The theorems.                                                           *)
(***************************************************************************)

\* The console's state is well formed; no two trains come closer than the gap to
\* keep, none enters a restricted section; and until entries fall off, the log
\* accounts for the state (reducer.ts:58-128).
THEOREM ConsoleInvHolds == Spec => []ConsoleInv
PROOF
<1>1. Kept => ConsoleInv
  BY DEF Kept, ConsoleInv
<1> QED
  BY <1>1, KeptHolds, PTL

\* Whatever the page, the palette or the dialog offers, the reducer accepts
\* (reducer.ts:135-214).
THEOREM OfferedAcceptedHolds == Spec => []OfferedAccepted
PROOF
<1>1. Kept => OfferedAccepted
  BY OffersAccepted DEF Kept, PageInv
<1> QED
  BY <1>1, KeptHolds, PTL

\* A restriction is released only by the operator at the post, and only after
\* that operator ticked the box of this restriction (ReleaseDialog.tsx:20-43,
\* 100-106).
THEOREM ReleaseVerifiedHolds == Spec => ReleaseVerified
PROOF
<1>1. Kept /\ [Next]_vars =>
         [\A r \in Active : cleared'[r] # None =>
             /\ cleared'[r] = operator
             /\ verified = <<operator, r>>]_vars
  <2> SUFFICES ASSUME Kept, [Next]_vars, NEW r \in Active, cleared'[r] # None
               PROVE  cleared'[r] = operator /\ verified = <<operator, r>>
    OBVIOUS
  <2>1. cleared' # cleared
    BY DEF Active
  <2>2. PICK c \in Offers : Command(c)
    BY <2>1 DEF Next, vars, Tick, CheckCctv, CloseRelease, OpenRelease, Type
  <2>3. /\ verified = <<operator, release.target>> /\ release.target \in Active
        /\ cleared' = [cleared EXCEPT ![release.target] = operator]
    BY <2>1, <2>2, CommandEffects
  <2>4. r = release.target
    BY <2>3 DEF Active
  <2>5. cleared \in [Restriction -> Operator \union {None}] /\ release.target \in Restriction
    BY <2>3 DEF Active, Kept, TypeOK
  <2> QED
    BY <2>3, <2>4, <2>5
<1> QED
  BY <1>1, KeptHolds, PTL DEF Spec, ReleaseVerified

\* No train outside a restricted section runs through it in a tick, whatever the
\* tick stands for (reducer.ts:78-128).
THEOREM NoRunThroughHolds == Spec => NoRunThrough
PROOF
<1>1. Kept /\ [Next]_vars =>
         [\A x \in Train, r \in Active :
             IsInside(trains[x].t, Sections[r]) \/ \A c \in Swept(x) : ~IsInside(c, Sections[r])]_vars
  <2> SUFFICES ASSUME Kept, [Next]_vars
               PROVE  \A x \in Train, r \in Active :
                         \/ IsInside(trains[x].t, Sections[r])
                         \/ \A c \in Swept(x) : ~IsInside(c, Sections[r])
    OBVIOUS
  <2>1. CASE Tick
    BY <2>1, TickLine DEF Kept, LineInv
  <2>2. CASE trains' = trains
    <3>1. ASSUME NEW x \in Train PROVE Swept(x) = {}
      <4>1. PICK a \in Cell : a = trains[x].t
        BY TrainFacts DEF Kept
      <4>2. Forward(a, a) = a - a /\ a \in Int
        BY ForwardFacts DEF Cell
      <4>3. Forward(trains[x].t, trains'[x].t) = 0
        BY <2>2, <4>1, <4>2
      <4>4. 1..0 = {}
        OBVIOUS
      <4> QED
        BY <4>3, <4>4 DEF Swept
    <3> QED
      BY <3>1
  <2>3. Tick \/ trains' = trains
    BY CommandEffects DEF Next, vars, CheckCctv, CloseRelease, OpenRelease, Type
  <2> QED
    BY <2>1, <2>2, <2>3
<1> QED
  BY <1>1, KeptHolds, PTL DEF Spec, NoRunThrough
=============================================================================
