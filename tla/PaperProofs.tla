----------------------------- MODULE PaperProofs -----------------------------
(***************************************************************************)
(* Theorems about PaperBroker: that it keeps the inductive invariant of    *)
(* PaperInvariant, and what that invariant implies.                        *)
(***************************************************************************)
EXTENDS PaperInvariant, FiniteSetTheorems, FunctionTheorems, SequenceTheorems, TLAPS

------------------------------
(* The folds of the model, each with its step *)

\* A set of numbers that is not empty has a smallest.
LEMMA Smallest ==
  ASSUME NEW S \in SUBSET Nat, S # {}
  PROVE  \E m \in S : \A n \in S : m <= n
<1> DEFINE I == {0..n : n \in S}
<1>1. IsWellFoundedOn(StrictSubsetOrdering(Nat), FiniteSubsetsOf(Nat))
  BY FS_StrictSubsetOrderingWellFounded
<1>2. I \subseteq FiniteSubsetsOf(Nat) /\ I # {}
  <2>1. \A n \in S : IsFiniteSet(0..n) /\ 0..n \subseteq Nat BY FS_Interval
  <2> QED BY <2>1 DEF FiniteSubsetsOf
<1> HIDE DEF I
<1>3. PICK x \in I : \A y \in I : ~ (<<y, x>> \in StrictSubsetOrdering(Nat)) BY <1>1, <1>2, WFMin
<1>4. PICK m \in S : x = 0..m BY DEF I
<1>5. ASSUME NEW n \in S, n < m PROVE FALSE
  <2>1. 0..n \in I BY DEF I
  <2>2. <<0..n, 0..m>> \in StrictSubsetOrdering(Nat) BY <1>5 DEF StrictSubsetOrdering
  <2> QED BY <2>1, <2>2, <1>3, <1>4
<1> QED BY <1>5

\* A sequence of two.
LEMMA PairOf ==
  ASSUME NEW S, NEW x \in S, NEW y \in S
  PROVE  /\ <<x>> \o <<y>> \in Seq(S) /\ Len(<<x>> \o <<y>>) = 2 /\ <<x>> \o <<y>> # <<>>
         /\ (<<x>> \o <<y>>)[1] = x /\ (<<x>> \o <<y>>)[2] = y
OBVIOUS

\* What every instance rests on.
LEMMA WellOrders ==
  /\ Sums!WellOrdered
  /\ Sweeping!WellOrdered
  /\ Inputs!WellOrdered
  /\ Tallying!WellOrdered
  /\ Bookings!WellOrdered
  /\ Growing!WellOrdered
  /\ Summing!WellOrdered
  /\ Replaying!WellOrdered
BY Smallest DEF Sums!WellOrdered, Sweeping!WellOrdered, Inputs!WellOrdered, Tallying!WellOrdered,
   Bookings!WellOrdered, Growing!WellOrdered, Summing!WellOrdered, Replaying!WellOrdered

\* Induction up to a bound.
LEMMA UpTo ==
  ASSUME NEW N \in Nat, NEW S, 0 \in S, \A n \in 0..(N - 1) : n \in S => n + 1 \in S
  PROVE  \A n \in 0..N : n \in S
BY WellOrders, Sums!UpTo

------------------------------
(* Ids in ascending order *)

\* A finite set of numbers that is not empty has a largest.
LEMMA Largest ==
  ASSUME NEW S \in SUBSET Nat, IsFiniteSet(S), S # {}
  PROVE  \E m \in S : \A n \in S : n <= m
<1> DEFINE Bounded == {k \in Nat : \A T \in SUBSET Nat :
                          IsFiniteSet(T) /\ Cardinality(T) = k /\ T # {} =>
                             \E m \in T : \A n \in T : n <= m}
           N == Cardinality(S)
<1>1. N \in Nat BY FS_CardinalityType
<1>2. 0 \in Bounded BY FS_EmptySet
<1>3. ASSUME NEW k \in 0..(N - 1), k \in Bounded PROVE k + 1 \in Bounded
  <2> SUFFICES ASSUME NEW T \in SUBSET Nat, IsFiniteSet(T), Cardinality(T) = k + 1, T # {}
               PROVE  \E m \in T : \A n \in T : n <= m
    OBVIOUS
  <2>1. PICK x \in T : TRUE OBVIOUS
  <2>2. Cardinality(T \ {x}) = Cardinality(T) - 1 /\ IsFiniteSet(T \ {x}) BY <2>1, FS_RemoveElement
  <2>3. CASE T \ {x} = {} BY <2>3, <2>1
  <2>4. CASE T \ {x} # {}
    <3>1. T \ {x} \in SUBSET Nat /\ Cardinality(T \ {x}) = k BY <2>2
    <3>2. PICK m \in T \ {x} : \A n \in T \ {x} : n <= m BY <1>3, <2>2, <2>4, <3>1
    <3>3. CASE x <= m BY <3>2, <3>3
    <3>4. CASE ~ (x <= m)
      <4>1. \A n \in T : n <= x BY <3>2, <3>4
      <4> QED BY <4>1, <2>1
    <3> QED BY <3>3, <3>4
  <2> QED BY <2>3, <2>4
<1>4. \A n \in 0..N : n \in Bounded
  <2> HIDE DEF Bounded, N
  <2> QED BY <1>1, <1>2, <1>3, UpTo
<1> QED BY <1>1, <1>4

\* A finite set of numbers can be listed in ascending order.
LEMMA Ascending ==
  ASSUME NEW ids \in SUBSET Nat, IsFiniteSet(ids)
  PROVE  \E q \in [1..Cardinality(ids) -> ids] : Increasing(q)
<1> DEFINE Listed == {k \in Nat : \A T \in SUBSET Nat :
                         IsFiniteSet(T) /\ Cardinality(T) = k =>
                            \E q \in [1..k -> T] : Increasing(q)}
           N == Cardinality(ids)
<1>1. N \in Nat BY FS_CardinalityType
<1>2. 0 \in Listed
  <2> SUFFICES ASSUME NEW T \in SUBSET Nat
               PROVE  \E q \in [1..0 -> T] : Increasing(q)
    OBVIOUS
  <2> DEFINE q == [n \in 1..0 |-> 0]
  <2>1. q \in [1..0 -> T] /\ Increasing(q) BY DEF Increasing
  <2> QED BY <2>1
<1>3. ASSUME NEW k \in 0..(N - 1), k \in Listed PROVE k + 1 \in Listed
  <2> SUFFICES ASSUME NEW T \in SUBSET Nat, IsFiniteSet(T), Cardinality(T) = k + 1
               PROVE  \E q \in [1..(k + 1) -> T] : Increasing(q)
    OBVIOUS
  <2>1. T # {} BY FS_EmptySet
  <2>2. PICK m \in T : \A n \in T : n <= m BY <2>1, Largest
  <2>3. Cardinality(T \ {m}) = Cardinality(T) - 1 /\ IsFiniteSet(T \ {m}) BY FS_RemoveElement
  <2>4. PICK p \in [1..k -> T \ {m}] : Increasing(p)
    <3>1. T \ {m} \in SUBSET Nat /\ Cardinality(T \ {m}) = k BY <2>3
    <3> QED BY <3>1, <2>3, <1>3
  <2> DEFINE q == [n \in 1..(k + 1) |-> IF n = k + 1 THEN m ELSE p[n]]
  <2>5. q \in [1..(k + 1) -> T] BY <2>4
  <2>6. Increasing(q)
    <3> SUFFICES ASSUME NEW a \in 1..(k + 1), NEW b \in 1..(k + 1), a < b
                 PROVE  q[a] < q[b]
      BY DEF Increasing
    <3>1. a \in 1..k /\ q[a] = p[a] /\ p[a] \in T \ {m} BY <2>4
    <3>2. CASE b = k + 1
      <4>1. q[b] = m /\ p[a] <= m /\ p[a] # m /\ p[a] \in Nat /\ m \in Nat BY <3>1, <3>2, <2>2
      <4> QED BY <4>1, <3>1
    <3>3. CASE b # k + 1
      <4>1. b \in 1..k /\ q[b] = p[b] BY <3>3
      <4>2. p[a] < p[b] BY <4>1, <3>1, <2>4 DEF Increasing
      <4> QED BY <4>1, <4>2, <3>1
    <3> QED BY <3>2, <3>3
  <2> QED BY <2>5, <2>6
<1>4. \A n \in 0..N : n \in Listed
  <2> HIDE DEF Listed, N
  <2> QED BY <1>1, <1>2, <1>3, UpTo
<1> QED BY <1>1, <1>4

\* InOrder lists the ids, each once.
LEMMA InOrderLists ==
  ASSUME NEW ids \in SUBSET Nat, IsFiniteSet(ids)
  PROVE  /\ InOrder(ids) \in Seq(ids)
         /\ Len(InOrder(ids)) = Cardinality(ids)
         /\ DOMAIN InOrder(ids) = 1..Cardinality(ids)
         /\ \A m, n \in 1..Cardinality(ids) : m < n => InOrder(ids)[m] < InOrder(ids)[n]
         /\ \A x \in ids : \E n \in 1..Cardinality(ids) : InOrder(ids)[n] = x
<1> DEFINE N == Cardinality(ids)
           q == InOrder(ids)
<1>1. N \in Nat BY FS_CardinalityType
<1>2. q \in [1..N -> ids] /\ Increasing(q) BY Ascending DEF InOrder, Increasing
<1> HIDE DEF q
<1>3. q \in Seq(ids) /\ Len(q) = N /\ DOMAIN q = 1..N BY <1>1, <1>2
<1>4. \A m, n \in 1..N : m < n => q[m] < q[n] BY <1>2, <1>3 DEF Increasing
<1>5. q \in Injection(1..N, ids)
  <2>1. ASSUME NEW m \in 1..N, NEW n \in 1..N, q[m] = q[n] PROVE m = n
    <3>1. q[m] \in Nat /\ q[n] \in Nat BY <1>2
    <3>2. m < n \/ n < m \/ m = n OBVIOUS
    <3>3. m < n => q[m] < q[n] BY <1>4
    <3>4. n < m => q[n] < q[m] BY <1>4
    <3> QED BY <2>1, <3>1, <3>2, <3>3, <3>4
  <2> QED BY <2>1, <1>2 DEF Injection, IsInjective
<1>6. IsFiniteSet(1..N) /\ Cardinality(1..N) = N BY <1>1, FS_Interval
<1>7. q \in Surjection(1..N, ids) BY <1>5, <1>6, FS_Injection
<1>8. \A x \in ids : \E n \in 1..N : q[n] = x BY <1>7 DEF Surjection
<1> QED BY <1>3, <1>4, <1>8 DEF q

------------------------------
(* The operators of the model that fold *)

\* The sweep is a fold over the active orders.
LEMMA SweepFolds ==
  ASSUME NEW acc, NEW i, NEW bar, NEW at
  PROVE  Sweep(acc, i, bar, at) =
            Sweeping!Fold([bar |-> bar, at |-> at], Swept(acc, bar), InOrder(acc.s.active[i]))
<1>1. ASSUME NEW c
      PROVE  Sweep(acc, i, c.bar, c.at) =
                Sweeping!Fold(c, Swept(acc, c.bar), InOrder(acc.s.active[i]))
  BY DEF Sweep, Swept, Sweeping!Fold, FoldLeft, MapThenFoldSet, SweepStep,
     Sweeping!MapThenFoldSet, Max, Sweeping!Highest
<1> DEFINE c == [bar |-> bar, at |-> at]
<1>2. c.bar = bar /\ c.at = at OBVIOUS
<1> HIDE DEF c
<1>3. Sweep(acc, i, c.bar, c.at) = Sweeping!Fold(c, Swept(acc, c.bar), InOrder(acc.s.active[i]))
  BY <1>1
<1> QED BY <1>2, <1>3 DEF c

\* The market kernel is a fold over its inputs.
LEMMA CohortFolds ==
  ASSUME NEW s, NEW inputs, NEW at
  PROVE  MarketKernel(s, inputs, at) =
            IF \E n \in DOMAIN inputs : IsNew(inputs[n])
            THEN Marked(Cohort(s, inputs, at)) ELSE Cohort(s, inputs, at)
<1>1. ASSUME NEW c
      PROVE  FoldLeft(LAMBDA acc, input : MarketInput(acc, input, c.at), Done(s, <<>>), inputs)
                = Inputs!Fold(c, Done(s, <<>>), inputs)
  BY DEF Inputs!Fold, FoldLeft, MapThenFoldSet, InputStep, Inputs!MapThenFoldSet, Max,
     Inputs!Highest
<1> DEFINE c == [at |-> at]
<1>2. c.at = at OBVIOUS
<1> HIDE DEF c
<1>3. MarketKernel(s, inputs, c.at) =
         IF \E n \in DOMAIN inputs : IsNew(inputs[n])
         THEN Marked(Inputs!Fold(c, Done(s, <<>>), inputs))
         ELSE Inputs!Fold(c, Done(s, <<>>), inputs)
  BY <1>1 DEF MarketKernel
<1> QED BY <1>2, <1>3 DEF c, Cohort

\* So is the tally of an answer over its fills.
LEMMA TallyFolds ==
  ASSUME NEW s, NEW r, NEW e
  PROVE  Tally(s, r, e) =
            Tallying!Fold([l |-> s.ledger, r |-> r, e |-> e],
               [ok |-> TRUE, ids |-> {}, key |-> r.last, quantity |-> 0, spent |-> 0,
                cash |-> s.ledger.cash, held |-> s.ledger.held[r.intent.instrument]], e.fills)
<1> DEFINE base == [ok |-> TRUE, ids |-> {}, key |-> r.last, quantity |-> 0, spent |-> 0,
                    cash |-> s.ledger.cash, held |-> s.ledger.held[r.intent.instrument]]
<1>1. Tally(s, r, e) = FoldLeft(LAMBDA sum, f : TallyFill(s.ledger, r, e, sum, f), base, e.fills)
  BY DEF Tally
<1> HIDE DEF base
<1>2. ASSUME NEW c, NEW fills
      PROVE  FoldLeft(LAMBDA sum, f : TallyFill(c.l, c.r, c.e, sum, f), base, fills)
                = Tallying!Fold(c, base, fills)
  BY DEF Tallying!Fold, FoldLeft, MapThenFoldSet, TallyStep, Tallying!MapThenFoldSet, Max,
     Tallying!Highest
<1> DEFINE c == [l |-> s.ledger, r |-> r, e |-> e]
<1>3. c.l = s.ledger /\ c.r = r /\ c.e = e OBVIOUS
<1> HIDE DEF c
<1>4. FoldLeft(LAMBDA sum, f : TallyFill(c.l, c.r, c.e, sum, f), base, e.fills)
         = Tallying!Fold(c, base, e.fills)
  BY <1>2
<1>5. FoldLeft(LAMBDA sum, f : TallyFill(c.l, c.r, c.e, sum, f), base, e.fills)
         = FoldLeft(LAMBDA sum, f : TallyFill(s.ledger, r, e, sum, f), base, e.fills)
  BY <1>3
<1> QED BY <1>1, <1>4, <1>5 DEF base, c

\* So are the bookings, and what a fill row tells of the record.
LEMMA BookingsFold ==
  ASSUME NEW l, NEW bookings
  PROVE  FoldLeft(ApplyFill, l, bookings) = Bookings!Fold(0, l, bookings)
BY DEF Bookings!Fold, FoldLeft, MapThenFoldSet, BookStep, Bookings!MapThenFoldSet, Max,
   Bookings!Highest

\* What fill rows tell of a record is a fold over the fills.
LEMMA GrowthFolds ==
  ASSUME NEW r, NEW bookings
  PROVE  FoldLeft(Grown, r, bookings) = Growing!Fold(0, r, bookings)
BY DEF Growing!Fold, FoldLeft, MapThenFoldSet, GrowStep, Growing!MapThenFoldSet, Max,
   Growing!Highest

\* Replay of a log is a fold over its groups.
LEMMA ReplayFolds ==
  ASSUME NEW groups
  PROVE  Replay(groups) = Replaying!Fold(0, Started, groups)
BY DEF Replay, Started, Replaying!Fold, FoldLeft, MapThenFoldSet, ReplayStep,
   Replaying!MapThenFoldSet, Max, Replaying!Highest

\* A sum is a fold over its numbers.
LEMMA AddedFolds ==
  ASSUME NEW numbers
  PROVE  Added(numbers) = Sums!Fold(0, 0, numbers)
BY DEF Added, Sums!Fold, FoldLeft, MapThenFoldSet, AddStep, Sums!MapThenFoldSet, Max,
   Sums!Highest

------------------------------
(* Types *)

\* The two instances of the lifecycle have the same statuses.
LEMMA SameStatuses ==
  /\ Logged!Statuses = Lifecycle!Statuses
  /\ Logged!Closed = Lifecycle!Closed
  /\ \A st : Logged!Executable(st) <=> Lifecycle!Executable(st)
  /\ \A st : Logged!Allowed(st) = Lifecycle!Allowed(st)
BY DEF Logged!Statuses, Lifecycle!Statuses, Logged!Closed, Lifecycle!Closed, Logged!Executable,
   Lifecycle!Executable, Logged!Allowed, Lifecycle!Allowed

\* Every intent offered has the type of one.
LEMMA IntentsTyped == Intents \subseteq IntentType
BY OffersAssumption DEF Intents

\* The fields of an intent.
LEMMA IntentParts ==
  ASSUME NEW in \in Intents
  PROVE  /\ in.instrument \in Instruments /\ in.side \in {"buy", "sell"}
         /\ in.type \in {"market", "limit", "stop", "stop_limit"}
         /\ in.quantity \in Nat /\ in.notional \in Nat /\ in.limit \in Nat
         /\ in.trigger \in Nat /\ in.stop \in Nat /\ in.take \in Nat /\ in.expires \in Nat
BY IntentsTyped DEF IntentType

\* Integer division rounds down.
LEMMA DivisionIsBelow ==
  ASSUME NEW n \in Int, NEW d \in Nat, d > 0
  PROVE  n \div d \in Int /\ (n \div d) * d \in Int /\ (n \div d) * d <= n
         /\ (n \in Nat => n \div d \in Nat)
OBVIOUS

\* A product of naturals.
LEMMA Product ==
  ASSUME NEW a \in Nat, NEW b \in Nat
  PROVE  a * b \in Nat
OBVIOUS

\* Rounding down to the lot step.
LEMMA FloorIsInt ==
  ASSUME NEW q \in Int
  PROVE  /\ FloorQuantity(q) \in Int /\ FloorQuantity(q) <= q
         /\ q \in Nat => FloorQuantity(q) \in Nat
<1>1. Step \in Nat /\ Step > 0 BY StepAssumption
<1>2. /\ q \div Step \in Int /\ (q \div Step) * Step \in Int /\ (q \div Step) * Step <= q
      /\ q \in Nat => q \div Step \in Nat
  BY <1>1, DivisionIsBelow
<1>3. q \in Nat => (q \div Step) * Step \in Nat BY <1>1, <1>2, Product
<1> QED BY <1>2, <1>3 DEF FloorQuantity

\* An allocation is within what is left of the order and of the liquidity.
LEMMA AllocateIsInt ==
  ASSUME NEW remaining \in Int, NEW liquidity \in Int
  PROVE  /\ Allocate(remaining, liquidity) \in Int
         /\ Allocate(remaining, liquidity) <= remaining
         /\ Allocate(remaining, liquidity) <= liquidity
<1>1. /\ Smaller(remaining, liquidity) \in Int /\ Smaller(remaining, liquidity) <= remaining
      /\ Smaller(remaining, liquidity) <= liquidity
  BY DEF Smaller
<1> HIDE DEF Smaller
<1>2. /\ FloorQuantity(Smaller(remaining, liquidity)) \in Int
      /\ FloorQuantity(Smaller(remaining, liquidity)) <= Smaller(remaining, liquidity)
  BY <1>1, FloorIsInt
<1> QED BY <1>1, <1>2 DEF Allocate

\* The same of naturals.
LEMMA Quotient ==
  ASSUME NEW a \in Nat, NEW b \in Nat, b > 0
  PROVE  a \div b \in Nat /\ (a \div b) * b \in Nat /\ (a \div b) * b <= a
<1>1. a \div b \in Nat /\ (a \div b) * b <= a BY DivisionIsBelow
<1> QED BY <1>1, Product

\* A fill price.
LEMMA FillPriceIsNat ==
  ASSUME NEW side, NEW reference \in Nat
  PROVE  FillPrice(side, reference) \in Nat
<1>1. /\ Scale \in Nat /\ Scale > 0 /\ ImpactRate \in Nat /\ Scale + ImpactRate \in Nat
      /\ Scale - ImpactRate \in Nat
  BY ScaleAssumption, FillModelAssumption
<1> DEFINE u == reference * (Scale + ImpactRate)
           d == reference * (Scale - ImpactRate)
<1>2. u \in Nat /\ d \in Nat BY <1>1, Product
<1>3. FillPrice(side, reference) = IF side = "buy" THEN (u + Scale - 1) \div Scale
                                                   ELSE d \div Scale
  BY DEF FillPrice
<1> HIDE DEF u, d
<1>4. u + Scale - 1 \in Nat BY <1>1, <1>2
<1>5. (u + Scale - 1) \div Scale \in Nat /\ d \div Scale \in Nat BY <1>1, <1>2, <1>4, Quotient
<1> QED BY <1>3, <1>5

\* The liquidity of a bar: a number of lots within the permitted part of its volume.
LEMMA BudgetIsNat ==
  ASSUME NEW volume \in Nat
  PROVE  /\ LiquidityBudget(volume) \in Nat
         /\ LiquidityBudget(volume) * Scale <= volume * Participation
<1> DEFINE v == volume * Participation
           w == v \div Scale
<1>1. Scale \in Nat /\ Scale > 0 /\ Participation \in Nat /\ Step \in Nat /\ Step > 0
  BY ScaleAssumption, FillModelAssumption, StepAssumption
<1>2. v \in Nat BY <1>1, Product
<1> HIDE DEF v
<1>3. w \in Nat /\ w * Scale \in Nat /\ w * Scale <= v BY <1>1, <1>2, Quotient
<1> HIDE DEF w
<1>4. (w \div Step) * Step \in Nat /\ (w \div Step) * Step <= w BY <1>1, <1>3, Quotient
<1> DEFINE b == LiquidityBudget(volume)
<1>5. b \in Nat /\ b <= w BY <1>4 DEF LiquidityBudget, FloorQuantity, w, v
<1> HIDE DEF b
<1>6. b * Scale <= w * Scale BY <1>1, <1>3, <1>5
<1>7. b * Scale \in Nat BY <1>1, <1>5, Product
<1>8. b * Scale <= v BY <1>2, <1>3, <1>6, <1>7
<1> QED BY <1>5, <1>8 DEF b, v

\* A reference price, and whether a stop triggers.
LEMMA ReferenceTyped ==
  ASSUME NEW r, r.intent \in Intents, r.triggered \in BOOLEAN, NEW bar \in BarType
  PROVE  /\ Reference(r, bar).price \in Nat /\ Reference(r, bar).triggers \in BOOLEAN
         /\ Reference(r, bar).triggers =>
               ~ r.triggered /\ r.intent.type \in {"stop", "stop_limit"}
<1> DEFINE in == r.intent
<1>1. /\ in.type \in {"market", "limit", "stop", "stop_limit"} /\ in.limit \in Nat
      /\ in.trigger \in Nat
  BY IntentParts
<1>2. bar.open \in Nat /\ bar.high \in Nat /\ bar.low \in Nat BY DEF BarType
<1>3. LimitReference(in, bar) \in Nat BY <1>1, <1>2 DEF LimitReference, Smaller, Larger
<1> DEFINE worse == IF in.side = "buy" THEN Larger(bar.open, in.trigger)
                                       ELSE Smaller(bar.open, in.trigger)
<1>4. worse \in Nat BY <1>1, <1>2 DEF Smaller, Larger
<1>5. Reference(r, bar) \in {[price |-> bar.open, triggers |-> FALSE],
                             [price |-> LimitReference(in, bar), triggers |-> FALSE],
                             [price |-> 0, triggers |-> FALSE]}
      \/ /\ Reference(r, bar) \in {[price |-> worse, triggers |-> TRUE],
                                   [price |-> 0, triggers |-> TRUE]}
         /\ ~ r.triggered /\ r.intent.type \in {"stop", "stop_limit"}
  <2> HIDE DEF worse
  <2>1. CASE in.type = "market" BY <2>1 DEF Reference
  <2>2. CASE in.type = "limit" BY <2>2 DEF Reference
  <2>3. CASE in.type = "stop" BY <2>3 DEF Reference, worse
  <2>4. CASE in.type = "stop_limit" BY <2>4 DEF Reference
  <2> QED BY <1>1, <2>1, <2>2, <2>3, <2>4
<1> HIDE DEF worse
<1> DEFINE limited == LimitReference(in, bar)
           ref == Reference(r, bar)
<1> HIDE DEF limited, ref
<1>6. limited \in Nat BY <1>3 DEF limited
<1>7. ref \in {[price |-> bar.open, triggers |-> FALSE], [price |-> limited, triggers |-> FALSE],
               [price |-> 0, triggers |-> FALSE]}
      \/ /\ ref \in {[price |-> worse, triggers |-> TRUE], [price |-> 0, triggers |-> TRUE]}
         /\ ~ r.triggered /\ r.intent.type \in {"stop", "stop_limit"}
  BY <1>5 DEF limited, ref
<1>8. /\ ref.price \in Nat /\ ref.triggers \in BOOLEAN
      /\ ref.triggers => ~ r.triggered /\ r.intent.type \in {"stop", "stop_limit"}
  <2>1. CASE ref \in {[price |-> bar.open, triggers |-> FALSE],
                      [price |-> limited, triggers |-> FALSE],
                      [price |-> 0, triggers |-> FALSE]}
    <3>1. ref.price \in Nat /\ ref.triggers = FALSE BY <2>1, <1>2, <1>6
    <3> QED BY <3>1
  <2>2. CASE /\ ref \in {[price |-> worse, triggers |-> TRUE], [price |-> 0, triggers |-> TRUE]}
             /\ ~ r.triggered /\ r.intent.type \in {"stop", "stop_limit"}
    <3>1. ref.price \in Nat /\ ref.triggers = TRUE BY <2>2, <1>4
    <3> QED BY <3>1, <2>2
  <2> QED BY <2>1, <2>2, <1>7
<1> QED BY <1>8 DEF ref

\* The fields of a state.
LEMMA TypedParts ==
  ASSUME NEW s, Typed(s)
  PROVE  /\ s = [orders |-> s.orders, clients |-> s.clients, active |-> s.active,
                 unknown |-> s.unknown, seen |-> s.seen, marks |-> s.marks,
                 known |-> s.known, fills |-> s.fills, fillSeq |-> s.fillSeq,
                 events |-> s.events, ops |-> s.ops, ledger |-> s.ledger,
                 latest |-> s.latest, lastKey |-> s.lastKey]
         /\ s.orders \in [DOMAIN s.orders -> OrderRecord] /\ DOMAIN s.orders \subseteq Orders
         /\ s.clients \in SUBSET Orders /\ s.active \in Entries /\ s.unknown \in Entries
         /\ s.seen \in [Instruments -> SeenType] /\ s.marks \in [Instruments -> Nat]
         /\ s.known \in SUBSET Instruments /\ s.fills \in Seq(FillType)
         /\ s.fillSeq \in Nat /\ s.events \in Nat /\ s.ops \in Nat
         /\ s.ledger \in LedgerType /\ s.latest \in Instants
         /\ s.lastKey \in [at : Instants, instrument : Instruments \cup {0}]
BY DEF Typed, Instants

\* What makes a state of them.
LEMMA TypedOf ==
  ASSUME NEW orders, NEW clients, NEW active, NEW unknown, NEW seen, NEW marks, NEW known,
         NEW fills, NEW fillSeq, NEW events, NEW ops, NEW ledger, NEW latest, NEW lastKey,
         orders \in [DOMAIN orders -> OrderRecord], DOMAIN orders \subseteq Orders,
         clients \in SUBSET Orders, active \in Entries, unknown \in Entries,
         seen \in [Instruments -> SeenType], marks \in [Instruments -> Nat],
         known \in SUBSET Instruments, fills \in Seq(FillType), fillSeq \in Nat,
         events \in Nat, ops \in Nat, ledger \in LedgerType, latest \in Instants,
         lastKey \in [at : Instants, instrument : Instruments \cup {0}]
  PROVE  Typed([orders |-> orders, clients |-> clients, active |-> active,
                unknown |-> unknown, seen |-> seen, marks |-> marks, known |-> known,
                fills |-> fills, fillSeq |-> fillSeq, events |-> events, ops |-> ops,
                ledger |-> ledger, latest |-> latest, lastKey |-> lastKey])
BY DEF Typed, Instants

\* The fields of an order.
LEMMA RecordParts ==
  ASSUME NEW r \in OrderRecord
  PROVE  /\ r = [intent |-> r.intent, status |-> r.status, filled |-> r.filled,
                 spent |-> r.spent, submitted |-> r.submitted, updated |-> r.updated,
                 reference |-> r.reference, remaining |-> r.remaining,
                 triggered |-> r.triggered, count |-> r.count, last |-> r.last]
         /\ r.intent \in Intents /\ r.status \in Logged!Statuses
         /\ r.filled \in Nat /\ r.spent \in Nat /\ r.submitted \in Times
         /\ r.updated \in Times /\ r.reference \in Nat /\ r.remaining \in Nat
         /\ r.triggered \in BOOLEAN /\ r.count \in Nat
         /\ r.last \in [at : Times, id : Nat]
BY DEF OrderRecord, Intents

\* The fields of a ledger.
LEMMA LedgerParts ==
  ASSUME NEW l \in LedgerType
  PROVE  /\ l = [cash |-> l.cash, held |-> l.held, prices |-> l.prices,
                 fills |-> l.fills, equity |-> l.equity, peak |-> l.peak]
         /\ l.cash \in Int /\ l.held \in [Instruments -> Nat]
         /\ l.prices \in [Instruments -> Nat] /\ l.fills \in SUBSET Nat
         /\ l.equity \in Int /\ l.peak \in Int
BY DEF LedgerType

\* A fee.
LEMMA FeeIsNat ==
  ASSUME NEW q \in Nat, NEW p \in Nat
  PROVE  Fee(q, p) \in Nat /\ q * p \in Nat /\ q * p * Scale \in Nat
<1> DEFINE u == q * p
<1>1. u \in Nat /\ Scale \in Nat /\ FeeRate \in Nat BY ScaleAssumption, FillModelAssumption
<1> HIDE DEF u
<1>2. u * FeeRate \in Nat /\ u * Scale \in Nat BY <1>1, Product
<1> QED BY <1>1, <1>2 DEF Fee, u

\* Times are instants after the first.
LEMMA TimesAreInstants == Times \subseteq Instants /\ Instants \subseteq Nat /\ Times \subseteq Nat
BY BoundsAssumption DEF Times, Instants

\* The fields of an offered fill.
LEMMA OfferIs ==
  ASSUME NEW s, Typed(s), NEW o \in DOMAIN s.orders, NEW reference \in Nat, reference > 0,
         NEW at \in Times, NEW liquidity \in Int,
         NEW f, f = Offer(s, o, reference, at, liquidity)
  PROVE  /\ f.order = o /\ f.at = at /\ f.id = s.fillSeq + 1
         /\ f.instrument = s.orders[o].intent.instrument
         /\ f.side = s.orders[o].intent.side
         /\ f.price = FillPrice(f.side, reference) /\ f.price \in Nat
         /\ f.quantity \in Int /\ f.quantity <= liquidity
         /\ f.fee = Fee(f.quantity, f.price)
         /\ s.orders[o].intent.notional = 0 =>
               f.quantity <= s.orders[o].intent.quantity - s.orders[o].filled
         /\ f.quantity \in Nat => f \in FillType
<1> DEFINE r == s.orders[o]
           in == r.intent
           price == FillPrice(in.side, reference)
           worth == r.remaining \div reference
           left == in.quantity - r.filled
           first == Allocate(IF in.notional = 0 THEN left ELSE worth, liquidity)
           again == Allocate(r.remaining \div price, liquidity)
           quantity == IF in.notional = 0 \/ first = 0 \/ price = 0 THEN first
                       ELSE Smaller(first, again)
<1>1. r \in OrderRecord /\ o \in Orders /\ s.fillSeq \in Nat BY TypedParts
<1>2. in \in Intents /\ r.filled \in Nat /\ r.remaining \in Nat BY <1>1, RecordParts
<1>3. /\ in.instrument \in Instruments /\ in.side \in {"buy", "sell"} /\ in.quantity \in Nat
      /\ in.notional \in Nat
  BY <1>2, IntentParts
<1>4. price \in Nat BY FillPriceIsNat
<1>5. worth \in Int BY <1>2, Quotient
<1>6. left \in Int BY <1>2, <1>3
<1>7. f = [id |-> s.fillSeq + 1, order |-> o, instrument |-> in.instrument,
           side |-> in.side, quantity |-> quantity, price |-> price,
           fee |-> Fee(quantity, price), at |-> at]
  BY DEF Offer
<1> HIDE DEF worth, left
<1>8. first \in Int /\ first <= liquidity /\ (in.notional = 0 => first <= left)
  BY <1>5, <1>6, AllocateIsInt
<1> HIDE DEF price
<1>9. price # 0 => again \in Int /\ again <= liquidity
  <2> SUFFICES ASSUME price # 0 PROVE again \in Int /\ again <= liquidity OBVIOUS
  <2>1. r.remaining \div price \in Int BY <1>2, <1>4, Quotient
  <2> QED BY <2>1, AllocateIsInt
<1> HIDE DEF first, again
<1>10. /\ quantity \in Int /\ quantity <= liquidity
       /\ in.notional = 0 => quantity <= left
  BY <1>8, <1>9 DEF Smaller
<1> HIDE DEF quantity
<1>11. quantity \in Nat => Fee(quantity, price) \in Nat BY <1>4, FeeIsNat
<1>12. at \in Nat BY TimesAreInstants
<1>13. quantity \in Nat => f \in FillType BY <1>1, <1>3, <1>4, <1>7, <1>11, <1>12 DEF FillType
<1> QED BY <1>4, <1>7, <1>10, <1>13 DEF left, price

------------------------------
(* The ledger *)

\* The valuation is cash and what the holdings are worth.
LEMMA ValuationIs ==
  ASSUME NEW cash, NEW held, NEW prices
  PROVE  Valuation(cash, held, prices) = cash + Scale * Worth(held, prices)[Instruments]
BY DEF Valuation, MapThenSumSet, MapThenFoldSet, Worth, Worths, Choice

\* The sum exists, and is an integer.
LEMMA WorthIsInt ==
  ASSUME NEW held \in [Instruments -> Nat], NEW prices \in [Instruments -> Nat]
  PROVE  Worth(held, prices)[Instruments] \in Int
<1> DEFINE N == Cardinality(Instruments)
           Sub(k) == {t \in SUBSET Instruments : Cardinality(t) <= k}
           Sum(t, h) == IF t = {} THEN 0
                        ELSE held[Choice(t)] * prices[Choice(t)] + h[t \ {Choice(t)}]
           Small(k, h) == h \in [Sub(k) -> Int] /\ \A t \in Sub(k) : h[t] = Sum(t, h)
           S == {k \in Nat : \E h : Small(k, h)}
<1>1. N \in Nat /\ \A t \in SUBSET Instruments : IsFiniteSet(t) /\ Cardinality(t) \in Nat
                                                  /\ Cardinality(t) <= N
  BY LedgerAssumption, FS_Subset, FS_CardinalityType
<1>2. ASSUME NEW t \in SUBSET Instruments, t # {}
      PROVE  /\ Choice(t) \in t
             /\ Cardinality(t \ {Choice(t)}) = Cardinality(t) - 1
             /\ t \ {Choice(t)} \in SUBSET Instruments
             /\ held[Choice(t)] * prices[Choice(t)] \in Int
  <2>1. Choice(t) \in t BY <1>2 DEF Choice
  <2>2. Cardinality(t \ {Choice(t)}) = Cardinality(t) - 1 BY <2>1, <1>1, FS_RemoveElement
  <2>3. held[Choice(t)] \in Nat /\ prices[Choice(t)] \in Nat BY <2>1
  <2>4. held[Choice(t)] * prices[Choice(t)] \in Nat BY <2>3, Product
  <2> QED BY <2>1, <2>2, <2>4
<1>3. 0 \in S
  <2> DEFINE h == [t \in Sub(0) |-> 0]
  <2>1. \A t \in Sub(0) : t = {} BY <1>1, FS_EmptySet
  <2>2. Small(0, h) BY <2>1
  <2> HIDE DEF Small
  <2> QED BY <2>2
<1>2a. ASSUME NEW k \in 0..(N - 1), NEW t \in Sub(k + 1), t # {}
       PROVE  t \ {Choice(t)} \in Sub(k)
  <2>1. /\ Cardinality(t \ {Choice(t)}) = Cardinality(t) - 1
        /\ t \ {Choice(t)} \in SUBSET Instruments
    BY <1>2, <1>2a
  <2>2. Cardinality(t) \in Nat /\ Cardinality(t) <= k + 1 BY <1>1
  <2>3. Cardinality(t \ {Choice(t)}) <= k BY <2>1, <2>2
  <2> QED BY <2>1, <2>3
<1>2b. \A t \in Sub(0) : t = {} BY <1>1, FS_EmptySet
<1>4. ASSUME NEW k \in 0..(N - 1), k \in S PROVE k + 1 \in S
  <2>1. PICK h : Small(k, h) BY <1>4
  <2> DEFINE g == [t \in Sub(k + 1) |-> Sum(t, h)]
  <2>2. \A t \in Sub(k + 1) : t # {} => t \ {Choice(t)} \in Sub(k) BY <1>2a
  <2>3. \A t \in Sub(k) : t \in Sub(k + 1) /\ g[t] = h[t]
    <3> SUFFICES ASSUME NEW t \in Sub(k) PROVE t \in Sub(k + 1) /\ g[t] = h[t] OBVIOUS
    <3>1. t \in Sub(k + 1)
      <4>1. Cardinality(t) \in Nat /\ Cardinality(t) <= k BY <1>1
      <4>2. Cardinality(t) <= k + 1 BY ONLY <4>1, k \in 0..(N - 1)
      <4> QED BY <4>2
    <3>2. h[t] = Sum(t, h) BY ONLY Zenon, <2>1, t \in Sub(k)
    <3>3. g[t] = Sum(t, h) BY ONLY <3>1
    <3> QED BY <3>1, <3>2, <3>3
  <2>4. g \in [Sub(k + 1) -> Int]
    <3> SUFFICES ASSUME NEW t \in Sub(k + 1) PROVE Sum(t, h) \in Int OBVIOUS
    <3>1. CASE t = {} BY <3>1
    <3>2. CASE t # {}
      <4>1. h[t \ {Choice(t)}] \in Int BY <2>1, <2>2, <3>2
      <4>2. held[Choice(t)] * prices[Choice(t)] \in Int BY <1>2, <3>2
      <4> DEFINE u == held[Choice(t)] * prices[Choice(t)]
                 v == h[t \ {Choice(t)}]
      <4>3. Sum(t, h) = u + v BY <3>2
      <4> HIDE DEF u, v
      <4>4. u \in Int /\ v \in Int BY <4>1, <4>2 DEF u, v
      <4> QED BY <4>3, <4>4
    <3> QED BY <3>1, <3>2
  <2>5. \A t \in Sub(k + 1) : g[t] = Sum(t, g)
    <3> SUFFICES ASSUME NEW t \in Sub(k + 1) PROVE Sum(t, h) = Sum(t, g) OBVIOUS
    <3>1. t # {} => g[t \ {Choice(t)}] = h[t \ {Choice(t)}] BY <2>2, <2>3
    <3> HIDE DEF g
    <3> QED BY <3>1
  <2>6. Small(k + 1, g)
    <3> HIDE DEF g
    <3> QED BY <2>4, <2>5
  <2> HIDE DEF Small
  <2> QED BY <2>6
<1>5. N \in S
  <2> HIDE DEF S
  <2> QED BY <1>1, <1>3, <1>4, UpTo
<1>6. PICK h : Small(N, h) BY <1>5
<1>7. Sub(N) = SUBSET Instruments BY <1>1
<1>8. Worths(held, prices, h)
  <2>1. h = [t \in SUBSET Instruments |-> h[t]] /\ \A t \in SUBSET Instruments : h[t] = Sum(t, h)
    BY <1>6, <1>7
  <2> QED BY <2>1 DEF Worths
<1> DEFINE w == Worth(held, prices)
<1>9. Worths(held, prices, w) BY <1>8 DEF Worth
<1>10. w = h
  <2> DEFINE T == {k \in Nat : \A t \in Sub(k) : w[t] = h[t]}
  <2> HIDE DEF w
  <2>1. \A t \in SUBSET Instruments : w[t] = Sum(t, w) /\ h[t] = Sum(t, h) BY <1>8, <1>9 DEF Worths
  <2>2. 0 \in T
    <3> SUFFICES ASSUME NEW t \in Sub(0) PROVE w[t] = h[t] OBVIOUS
    <3>1. t = {} /\ t \in SUBSET Instruments BY <1>2b
    <3> QED BY <3>1, <2>1
  <2>3. ASSUME NEW k \in 0..(N - 1), k \in T PROVE k + 1 \in T
    <3> SUFFICES ASSUME NEW t \in Sub(k + 1) PROVE w[t] = h[t] OBVIOUS
    <3>1. t # {} => t \ {Choice(t)} \in Sub(k) BY <1>2a
    <3>2. t # {} => w[t \ {Choice(t)}] = h[t \ {Choice(t)}] BY <3>1, <2>3
    <3> QED BY <3>2, <2>1
  <2>4. N \in T
    <3> HIDE DEF T
    <3> QED BY <1>1, <2>2, <2>3, UpTo
  <2>5. \A t \in SUBSET Instruments : w[t] = h[t] BY <1>7, <2>4
  <2> QED BY <2>5, <1>8, <1>9 DEF Worths
<1> QED BY <1>6, <1>7, <1>10

\* The worth of cash and positions is an integer.
LEMMA ValuationIsInt ==
  ASSUME NEW cash \in Int, NEW held \in [Instruments -> Nat],
         NEW prices \in [Instruments -> Nat]
  PROVE  Valuation(cash, held, prices) \in Int
<1> DEFINE w == Worth(held, prices)[Instruments]
<1>1. w \in Int /\ Scale \in Int BY WorthIsInt, ScaleAssumption
<1>2. Valuation(cash, held, prices) = cash + Scale * w BY ValuationIs
<1> HIDE DEF w
<1>3. Scale * w \in Int BY <1>1
<1> QED BY <1>2, <1>3

\* What a purchase or a sale does to cash and positions.
LEMMA BookedFields ==
  ASSUME NEW l, IsLedger(l), NEW f, NEW n, n = f.quantity * f.price * Scale,
         NEW m, m = Booked(l, f)
  PROVE  BookedTo(l, f, n, m)
<1> DEFINE less == l.cash - (n + f.fee)
           more == l.cash + n - f.fee
           i == f.instrument
           added == l.held[i] + f.quantity
           taken == l.held[i] - f.quantity
<1>1. m = IF f.side = "buy" THEN [l EXCEPT !.cash = less, !.held[i] = added]
                            ELSE [l EXCEPT !.cash = more, !.held[i] = taken]
  BY DEF Booked
<1> HIDE DEF less, more, added, taken, i
<1>2. CASE f.side = "buy"
  <2>1. m = [l EXCEPT !.cash = less, !.held[i] = added] BY <1>1, <1>2
  <2>2. /\ m = [cash |-> m.cash, held |-> m.held, prices |-> m.prices,
                fills |-> m.fills, equity |-> m.equity, peak |-> m.peak]
        /\ m.cash = less /\ m.held = [l.held EXCEPT ![i] = added]
        /\ m.prices = l.prices /\ m.fills = l.fills
        /\ m.equity = l.equity /\ m.peak = l.peak
    BY <2>1 DEF IsLedger
  <2> QED BY <2>2, <1>2 DEF BookedTo, IsLedger, less, added, i
<1>3. CASE f.side # "buy"
  <2>1. m = [l EXCEPT !.cash = more, !.held[i] = taken] BY <1>1, <1>3
  <2>2. /\ m = [cash |-> m.cash, held |-> m.held, prices |-> m.prices,
                fills |-> m.fills, equity |-> m.equity, peak |-> m.peak]
        /\ m.cash = more /\ m.held = [l.held EXCEPT ![i] = taken]
        /\ m.prices = l.prices /\ m.fills = l.fills
        /\ m.equity = l.equity /\ m.peak = l.peak
    BY <2>1 DEF IsLedger
  <2> QED BY <2>2, <1>3 DEF BookedTo, IsLedger, more, taken, i
<1> QED BY <1>2, <1>3

\* What a valuation does.
LEMMA RevaluedFields ==
  ASSUME NEW l, IsLedger(l), NEW m, m = Revalued(l)
  PROVE  /\ IsLedger(m) /\ m.cash = l.cash /\ m.held = l.held /\ m.prices = l.prices
         /\ m.fills = l.fills /\ m.equity = Valuation(l.cash, l.held, l.prices)
         /\ m.peak = Larger(l.peak, m.equity)
<1> DEFINE worth == Valuation(l.cash, l.held, l.prices)
           top == Larger(l.peak, worth)
<1>1. m = [l EXCEPT !.equity = worth, !.peak = top] BY DEF Revalued
<1> HIDE DEF worth, top
<1>2. /\ m = [cash |-> m.cash, held |-> m.held, prices |-> m.prices,
              fills |-> m.fills, equity |-> m.equity, peak |-> m.peak]
      /\ m.cash = l.cash /\ m.held = l.held /\ m.prices = l.prices /\ m.fills = l.fills
      /\ m.equity = worth /\ m.peak = top
  BY <1>1 DEF IsLedger
<1> QED BY <1>2 DEF IsLedger, worth, top

\* A valuation of a well-typed ledger.
LEMMA RevaluedTyped ==
  ASSUME NEW l, IsLedger(l), l.cash \in Int, l.held \in [Instruments -> Nat],
         l.prices \in [Instruments -> Nat], l.fills \in SUBSET Nat, l.peak \in Int
  PROVE  Revalued(l) \in LedgerType
<1> DEFINE m == Revalued(l)
<1>1. /\ IsLedger(m) /\ m.cash = l.cash /\ m.held = l.held /\ m.prices = l.prices
      /\ m.fills = l.fills /\ m.equity = Valuation(l.cash, l.held, l.prices)
      /\ m.peak = Larger(l.peak, m.equity)
  <2> HIDE DEF m
  <2> QED BY RevaluedFields DEF m
<1>2. Valuation(l.cash, l.held, l.prices) \in Int BY ValuationIsInt
<1> HIDE DEF m
<1>3. m.equity \in Int /\ m.peak \in Int BY <1>1, <1>2 DEF Larger
<1>4. m \in LedgerType BY <1>1, <1>3 DEF LedgerType, IsLedger
<1> QED BY <1>4 DEF m

\* A fill that is covered leaves a ledger; its fields.
LEMMA ApplyFillFields ==
  ASSUME NEW l \in LedgerType, NEW f \in FillType,
         f.side = "sell" => f.quantity <= l.held[f.instrument],
         NEW n, n = f.quantity * f.price * Scale,
         NEW m, m = ApplyFill(l, f)
  PROVE  /\ m \in LedgerType
         /\ m.cash = IF f.side = "buy" THEN l.cash - (n + f.fee) ELSE l.cash + n - f.fee
         /\ m.held = [l.held EXCEPT ![f.instrument] =
                         IF f.side = "buy" THEN @ + f.quantity ELSE @ - f.quantity]
         /\ m.prices = [l.prices EXCEPT ![f.instrument] = f.price]
         /\ m.fills = l.fills \cup {f.id}
         /\ m.equity = Valuation(m.cash, m.held, m.prices)
         /\ m.peak = Larger(l.peak, m.equity)
<1>1. /\ f.id \in Nat /\ f.instrument \in Instruments /\ f.side \in {"buy", "sell"}
      /\ f.quantity \in Nat /\ f.price \in Nat /\ f.fee \in Nat
  BY DEF FillType
<1>2. n \in Nat BY <1>1, FeeIsNat
<1>3. /\ l.cash \in Int /\ l.held \in [Instruments -> Nat] /\ l.prices \in [Instruments -> Nat]
      /\ l.fills \in SUBSET Nat /\ l.equity \in Int /\ l.peak \in Int /\ IsLedger(l)
  BY LedgerParts DEF IsLedger
<1> DEFINE b == Booked(l, f)
           c == [b EXCEPT !.fills = @ \cup {f.id}, !.prices[f.instrument] = f.price]
<1>4. /\ IsLedger(b) /\ b.prices = l.prices /\ b.fills = l.fills
      /\ b.equity = l.equity /\ b.peak = l.peak
      /\ b.cash = IF f.side = "buy" THEN l.cash - (n + f.fee) ELSE l.cash + n - f.fee
      /\ b.held = [l.held EXCEPT ![f.instrument] =
                      IF f.side = "buy" THEN @ + f.quantity ELSE @ - f.quantity]
  <2>1. b = Booked(l, f) OBVIOUS
  <2> HIDE DEF b
  <2>2. BookedTo(l, f, n, b) BY Zenon, <1>3, <2>1, BookedFields
  <2> QED BY ONLY Zenon, <2>2 DEF BookedTo
<1>5. m = Revalued(c) BY DEF ApplyFill
<1> HIDE DEF b
<1>6. /\ IsLedger(c) /\ c.cash = b.cash /\ c.held = b.held
      /\ c.prices = [b.prices EXCEPT ![f.instrument] = f.price] /\ c.fills = b.fills \cup {f.id}
      /\ c.equity = b.equity /\ c.peak = b.peak
  <2> DEFINE i == f.instrument
             price == f.price
             ids == b.fills \cup {f.id}
  <2>1. c = [b EXCEPT !.fills = ids, !.prices[i] = price] OBVIOUS
  <2> HIDE DEF c, ids, i, price
  <2>2. /\ c = [cash |-> c.cash, held |-> c.held, prices |-> c.prices,
                fills |-> c.fills, equity |-> c.equity, peak |-> c.peak]
        /\ c.cash = b.cash /\ c.held = b.held
        /\ c.prices = [b.prices EXCEPT ![i] = price] /\ c.fills = ids
        /\ c.equity = b.equity /\ c.peak = b.peak
    BY <2>1, <1>4 DEF IsLedger
  <2> QED BY <2>2 DEF IsLedger, ids, i, price
<1> HIDE DEF c
<1>7. c.cash \in Int /\ c.peak \in Int /\ c.fills \in SUBSET Nat BY <1>1, <1>2, <1>3, <1>4, <1>6
<1>8. c.held \in [Instruments -> Nat] /\ c.prices \in [Instruments -> Nat]
  <2>1. IF f.side = "buy" THEN l.held[f.instrument] + f.quantity \in Nat
                          ELSE l.held[f.instrument] - f.quantity \in Nat
    BY <1>1, <1>3
  <2> QED BY <2>1, <1>1, <1>3, <1>4, <1>6
<1>9. m \in LedgerType BY <1>5, <1>6, <1>7, <1>8, RevaluedTyped
<1>10. /\ m.cash = c.cash /\ m.held = c.held /\ m.prices = c.prices
       /\ m.fills = c.fills /\ m.equity = Valuation(c.cash, c.held, c.prices)
       /\ m.peak = Larger(c.peak, m.equity)
  BY <1>5, <1>6, RevaluedFields
<1> QED BY <1>4, <1>6, <1>9, <1>10

\* A mark changes prices and the valuation only.
LEMMA MarkFields ==
  ASSUME NEW l \in LedgerType, NEW marks \in [Instruments -> Nat],
         NEW m, m = Mark(l, marks)
  PROVE  /\ m \in LedgerType /\ m.cash = l.cash /\ m.held = l.held /\ m.fills = l.fills
         /\ m.prices = [i \in Instruments |-> IF marks[i] = 0 THEN l.prices[i] ELSE marks[i]]
         /\ m.equity = Valuation(m.cash, m.held, m.prices)
         /\ m.peak = Larger(l.peak, m.equity)
<1> DEFINE q == [i \in Instruments |-> IF marks[i] = 0 THEN l.prices[i] ELSE marks[i]]
           c == [l EXCEPT !.prices = q]
<1>1. /\ l.cash \in Int /\ l.held \in [Instruments -> Nat] /\ l.prices \in [Instruments -> Nat]
      /\ l.fills \in SUBSET Nat /\ l.equity \in Int /\ l.peak \in Int /\ IsLedger(l)
  BY LedgerParts DEF IsLedger
<1>2. q \in [Instruments -> Nat] BY <1>1
<1>3. m = Revalued(c) BY DEF Mark
<1> HIDE DEF q
<1>4. /\ IsLedger(c) /\ c.cash = l.cash /\ c.held = l.held /\ c.prices = q
      /\ c.fills = l.fills /\ c.equity = l.equity /\ c.peak = l.peak
  <2>1. /\ c = [cash |-> c.cash, held |-> c.held, prices |-> c.prices,
                fills |-> c.fills, equity |-> c.equity, peak |-> c.peak]
        /\ c.cash = l.cash /\ c.held = l.held /\ c.prices = q
        /\ c.fills = l.fills /\ c.equity = l.equity /\ c.peak = l.peak
    BY <1>1 DEF IsLedger
  <2> QED BY <2>1 DEF IsLedger
<1> HIDE DEF c
<1>5. m \in LedgerType BY <1>1, <1>2, <1>3, <1>4, RevaluedTyped
<1>6. /\ m.cash = c.cash /\ m.held = c.held /\ m.prices = c.prices
      /\ m.fills = c.fills /\ m.equity = Valuation(c.cash, c.held, c.prices)
      /\ m.peak = Larger(c.peak, m.equity)
  BY <1>3, <1>4, RevaluedFields
<1> QED BY <1>4, <1>5, <1>6 DEF q

------------------------------
(* One order's turn in a sweep *)

\* A fill that the order affords grows its record by that fill.
LEMMA FilledRecordFields ==
  ASSUME NEW r \in OrderRecord, NEW f,
         f.quantity \in Nat, f.price \in Nat, f.at \in Times, f.id \in Nat,
         Affords(r, f), NEW m, m = FilledRecord(r, f)
  PROVE  /\ m \in OrderRecord /\ SameOrder(r, m) /\ Grew(r, m, f)
         /\ m.triggered = r.triggered
<1> DEFINE n == Money(f)
<1>1. /\ r = [intent |-> r.intent, status |-> r.status, filled |-> r.filled,
              spent |-> r.spent, submitted |-> r.submitted, updated |-> r.updated,
              reference |-> r.reference, remaining |-> r.remaining,
              triggered |-> r.triggered, count |-> r.count, last |-> r.last]
      /\ r.intent \in Intents /\ r.filled \in Nat /\ r.spent \in Nat /\ r.submitted \in Times
      /\ r.reference \in Nat /\ r.remaining \in Nat /\ r.triggered \in BOOLEAN
      /\ r.count \in Nat
  BY RecordParts
<1>2. r.intent.notional \in Nat BY <1>1, IntentParts
<1>3. n \in Nat /\ n = f.quantity * f.price BY Product DEF Money
<1> HIDE DEF n
<1> DEFINE left == IF r.intent.notional = 0 THEN 0 ELSE r.remaining - n
           status == IF IF r.intent.notional = 0
                        THEN r.filled + f.quantity = r.intent.quantity ELSE left = 0
                     THEN "filled" ELSE "partially_filled"
           filled == r.filled + f.quantity
           spent == r.spent + n
           count == r.count + 1
           last == [at |-> f.at, id |-> f.id]
<1>4. m = [r EXCEPT !.status = status, !.filled = filled, !.spent = spent,
                    !.remaining = left, !.updated = f.at, !.count = count, !.last = last]
  BY <1>3 DEF FilledRecord
<1>5. /\ left \in Nat /\ status \in {"filled", "partially_filled"} /\ filled \in Nat
      /\ spent \in Nat /\ count \in Nat /\ last \in [at : Times, id : Nat]
  <2>1. r.intent.notional > 0 => n <= r.remaining BY DEF Affords, n
  <2> QED BY <1>1, <1>2, <1>3, <2>1
<1> HIDE DEF left, status, filled, spent, count, last
<1>6. m = [intent |-> r.intent, status |-> status, filled |-> filled,
           spent |-> spent, submitted |-> r.submitted, updated |-> f.at,
           reference |-> r.reference, remaining |-> left,
           triggered |-> r.triggered, count |-> count, last |-> last]
  BY <1>1, <1>4
<1>7. status \in Logged!Statuses BY <1>5 DEF Logged!Statuses, Logged!Closed
<1>8. m \in OrderRecord BY <1>1, <1>5, <1>6, <1>7 DEF OrderRecord, Intents
<1>9. /\ m.intent = r.intent /\ m.submitted = r.submitted /\ m.reference = r.reference
      /\ m.triggered = r.triggered /\ m.filled = filled /\ m.spent = spent
      /\ m.remaining = left /\ m.status = status /\ m.count = count /\ m.updated = f.at
      /\ m.last = last
  BY <1>6
<1> QED BY <1>5, <1>8, <1>9 DEF SameOrder, Grew, left, filled, spent, n

\* The fields of what a sweep carries.
LEMMA AccParts ==
  ASSUME NEW acc, AccTyped(acc), NEW o \in DOMAIN acc.s.orders
  PROVE  /\ IsAcc(acc) /\ IsState(acc.s) /\ acc.ok \in BOOLEAN
         /\ acc.rows \in Seq(RowType) /\ acc.liquidity \in Int
         /\ acc.s.orders \in [DOMAIN acc.s.orders -> OrderRecord] /\ o \in Orders
         /\ acc.s.orders[o] \in OrderRecord /\ acc.s.ledger \in LedgerType
         /\ acc.s.fills \in Seq(FillType) /\ acc.s.fillSeq \in Nat
BY TypedParts DEF AccTyped, IsAcc, IsState

\* What is put together again is well typed.
LEMMA AccOf ==
  ASSUME NEW acc, AccTyped(acc), NEW next, IsAcc(next), IsState(next.s),
         Aside(acc.s, next.s), next.ok \in BOOLEAN, next.rows \in Seq(RowType),
         next.liquidity \in Int, next.s.orders \in [DOMAIN acc.s.orders -> OrderRecord],
         next.s.ledger \in LedgerType, next.s.fills \in Seq(FillType),
         next.s.fillSeq \in Nat
  PROVE  AccTyped(next)
<1>1. Typed(next.s)
  <2>1. Typed(acc.s) BY DEF AccTyped
  <2>2. /\ DOMAIN acc.s.orders \subseteq Orders
        /\ acc.s.clients \in SUBSET Orders /\ acc.s.active \in Entries
        /\ acc.s.unknown \in Entries
        /\ acc.s.seen \in [Instruments -> SeenType] /\ acc.s.marks \in [Instruments -> Nat]
        /\ acc.s.known \in SUBSET Instruments
        /\ acc.s.events \in Nat /\ acc.s.ops \in Nat /\ acc.s.latest \in Instants
        /\ acc.s.lastKey \in [at : Instants, instrument : Instruments \cup {0}]
    BY <2>1, TypedParts
  <2>3. DOMAIN next.s.orders = DOMAIN acc.s.orders OBVIOUS
  <2>4. /\ next.s.clients = acc.s.clients /\ next.s.active = acc.s.active
        /\ next.s.unknown = acc.s.unknown /\ next.s.seen = acc.s.seen
        /\ next.s.marks = acc.s.marks /\ next.s.known = acc.s.known
        /\ next.s.events = acc.s.events /\ next.s.ops = acc.s.ops
        /\ next.s.latest = acc.s.latest /\ next.s.lastKey = acc.s.lastKey
    BY DEF Aside
  <2> QED BY <2>2, <2>3, <2>4 DEF Typed, IsState, Instants
<1> QED BY <1>1 DEF AccTyped, IsAcc

\* A new record of an order.
LEMMA Replaced ==
  ASSUME NEW orders, NEW D, orders \in [D -> OrderRecord], NEW o \in D,
         NEW k \in OrderRecord
  PROVE  /\ [orders EXCEPT ![o] = k] \in [D -> OrderRecord]
         /\ [orders EXCEPT ![o] = k][o] = k
OBVIOUS

\* The rows of a turn are rows.
LEMMA RowsTyped ==
  ASSUME NEW o \in Orders, NEW from \in Logged!Statuses, NEW to \in Logged!Statuses,
         NEW at \in Times
  PROVE  /\ TransitionRow(o, from, to, at) \in RowType /\ StopRow(o, at) \in RowType
         /\ \A f \in FillType, r \in OrderRecord :
               f.order = o => FillRow(f, from, to, at, r) \in RowType
<1>1. at \in Instants BY TimesAreInstants
<1>2. TransitionRow(o, from, to, at) \in RowType BY <1>1 DEF TransitionRow, RowType
<1>3. StopRow(o, at) \in RowType BY <1>1 DEF StopRow, RowType
<1>4. ASSUME NEW f \in FillType, NEW r \in OrderRecord, f.order = o
      PROVE  FillRow(f, from, to, at, r) \in RowType
  <2>1. r.filled \in Nat /\ r.spent \in Nat BY RecordParts
  <2>2. FillRow(f, from, to, at, r) \in [kind : {"fill"}, order : Orders, fill : FillType,
          from : Logged!Statuses, to : Logged!Statuses, at : Instants, filled : Nat,
          spent : Nat, external : BOOLEAN]
    BY <1>1, <1>4, <2>1 DEF FillRow
  <2> QED BY <2>2 DEF RowType
<1> QED BY <1>2, <1>3, <1>4

\* An order that expires.
LEMMA ExpireTurns ==
  ASSUME NEW acc, AccTyped(acc), NEW o \in DOMAIN acc.s.orders, NEW at \in Times,
         NEW r, r = acc.s.orders[o], at > r.submitted, at >= r.intent.expires
  PROVE  Turned(acc, Expire(acc, o, r, at), o, at)
<1> DEFINE next == Expire(acc, o, r, at)
           k == [r EXCEPT !.status = "expired", !.updated = at]
           row == TransitionRow(o, r.status, "expired", at)
           orders == [acc.s.orders EXCEPT ![o] = k]
           rows == Append(acc.rows, row)
<1>1. /\ IsAcc(acc) /\ IsState(acc.s) /\ acc.rows \in Seq(RowType) /\ acc.ok \in BOOLEAN
      /\ acc.liquidity \in Int /\ acc.s.orders \in [DOMAIN acc.s.orders -> OrderRecord]
      /\ o \in Orders /\ r \in OrderRecord /\ acc.s.ledger \in LedgerType
      /\ acc.s.fills \in Seq(FillType) /\ acc.s.fillSeq \in Nat
  BY AccParts
<1>2. /\ k \in OrderRecord /\ k.intent = r.intent /\ k.submitted = r.submitted
      /\ k.reference = r.reference /\ k.filled = r.filled /\ k.spent = r.spent
      /\ k.remaining = r.remaining /\ k.triggered = r.triggered /\ k.status = "expired"
  BY <1>1 DEF OrderRecord, Logged!Statuses, Logged!Closed
<1>3. row \in RowType
  <2>1. r.status \in Logged!Statuses /\ "expired" \in Logged!Statuses
    BY <1>1, RecordParts DEF Logged!Statuses, Logged!Closed
  <2> QED BY <1>1, <2>1, RowsTyped
<1>4. next = [acc EXCEPT !.s.orders = orders, !.rows = rows]
  <2>1. [acc.s.orders EXCEPT ![o].status = "expired", ![o].updated = at]
           = [acc.s.orders EXCEPT ![o] = k]
    BY <1>1
  <2> QED BY <2>1 DEF Expire
<1>5. rows \in Seq(RowType) BY <1>1, <1>3
<1>6. orders \in [DOMAIN acc.s.orders -> OrderRecord] /\ orders[o] = k BY <1>1, <1>2, Replaced
<1> HIDE DEF next, orders, rows, k
<1>7. /\ IsAcc(next) /\ IsState(next.s) /\ next.ok = acc.ok
      /\ next.liquidity = acc.liquidity /\ next.rows = rows
      /\ next.s.orders = orders /\ Aside(acc.s, next.s) /\ SameMoney(acc.s, next.s)
  <2>1. /\ IsAcc(acc) /\ IsState(acc.s) BY <1>1
  <2> QED BY <2>1, <1>4 DEF IsAcc, IsState, Aside, SameMoney
<1>8. AccTyped(next) BY <1>1, <1>5, <1>6, <1>7, AccOf DEF SameMoney
<1>9. Expires(acc, next, o, r, k, at) BY <1>2, <1>7 DEF Expires, rows
<1>10. Turned(acc, next, o, at) BY <1>2, <1>6, <1>7, <1>8, <1>9 DEF Turned, SameOrder, orders
<1> QED BY <1>10 DEF next

\* An order whose stop triggers, or not.
LEMMA LatchTurns ==
  ASSUME NEW acc, AccTyped(acc), NEW o \in DOMAIN acc.s.orders, NEW at \in Times,
         NEW r, r = acc.s.orders[o], InTime(r, at), NEW ref, ref.triggers \in BOOLEAN,
         ref.triggers => ~ r.triggered
  PROVE  Turned(acc, Latch(acc, o, ref, at), o, at)
<1> DEFINE next == Latch(acc, o, ref, at)
           k == [r EXCEPT !.triggered = TRUE]
           row == StopRow(o, at)
           orders == [acc.s.orders EXCEPT ![o] = k]
           rows == Append(acc.rows, row)
<1>1. /\ IsAcc(acc) /\ IsState(acc.s) /\ acc.rows \in Seq(RowType) /\ acc.ok \in BOOLEAN
      /\ acc.liquidity \in Int /\ acc.s.orders \in [DOMAIN acc.s.orders -> OrderRecord]
      /\ o \in Orders /\ r \in OrderRecord /\ acc.s.ledger \in LedgerType
      /\ acc.s.fills \in Seq(FillType) /\ acc.s.fillSeq \in Nat
  BY AccParts
<1>2. CASE ~ ref.triggers
  <2>1. next = acc BY <1>2 DEF Latch
  <2>2. acc.s.orders = [acc.s.orders EXCEPT ![o] = r] BY <1>1
  <2> HIDE DEF next
  <2>3. Aside(acc.s, acc.s) /\ Still(acc, acc) BY DEF Aside, Still
  <2>4. Turned(acc, acc, o, at) BY <2>2, <2>3 DEF Turned, SameOrder
  <2> QED BY <2>1, <2>4 DEF next
<1>3. CASE ref.triggers
  <2>1. /\ k \in OrderRecord /\ k.intent = r.intent /\ k.submitted = r.submitted
        /\ k.reference = r.reference /\ k.filled = r.filled /\ k.spent = r.spent
        /\ k.remaining = r.remaining /\ k.triggered /\ k.status = r.status
    BY <1>1 DEF OrderRecord
  <2>2. row \in RowType
    <3>1. r.status \in Logged!Statuses BY <1>1, RecordParts
    <3> QED BY <1>1, <3>1, RowsTyped
  <2>3. next = [acc EXCEPT !.s.orders = orders, !.rows = rows]
    <3>1. [acc.s.orders EXCEPT ![o].triggered = TRUE] = [acc.s.orders EXCEPT ![o] = k] BY <1>1
    <3> QED BY <3>1, <1>3 DEF Latch, StopRow
  <2>4. rows \in Seq(RowType) BY <1>1, <2>2
  <2>5. orders \in [DOMAIN acc.s.orders -> OrderRecord] /\ orders[o] = k BY <1>1, <2>1, Replaced
  <2> HIDE DEF next, orders, rows, k
  <2>6. /\ IsAcc(next) /\ IsState(next.s) /\ next.ok = acc.ok
        /\ next.liquidity = acc.liquidity /\ next.rows = rows
        /\ next.s.orders = orders /\ Aside(acc.s, next.s) /\ SameMoney(acc.s, next.s)
    <3>1. /\ IsAcc(acc) /\ IsState(acc.s) BY <1>1
    <3> QED BY <3>1, <2>3 DEF IsAcc, IsState, Aside, SameMoney
  <2>7. AccTyped(next) BY <1>1, <2>4, <2>5, <2>6, AccOf DEF SameMoney
  <2>8. Latches(acc, next, o, r, k, at) BY <1>3, <2>1, <2>6 DEF Latches, rows
  <2>9. Turned(acc, next, o, at) BY <2>1, <2>5, <2>6, <2>7, <2>8 DEF Turned, SameOrder, orders
  <2> QED BY <2>9 DEF next
<1> QED BY <1>2, <1>3

\* The call raises: nothing but ok changes.
LEMMA FailTurns ==
  ASSUME NEW acc, AccTyped(acc), NEW o \in DOMAIN acc.s.orders, NEW at
  PROVE  Turned(acc, [acc EXCEPT !.ok = FALSE], o, at)
<1> DEFINE next == [acc EXCEPT !.ok = FALSE]
<1>1. /\ IsAcc(acc) /\ IsState(acc.s) /\ acc.rows \in Seq(RowType) /\ acc.ok \in BOOLEAN
      /\ acc.liquidity \in Int /\ acc.s.orders \in [DOMAIN acc.s.orders -> OrderRecord]
      /\ o \in Orders /\ acc.s.ledger \in LedgerType
      /\ acc.s.fills \in Seq(FillType) /\ acc.s.fillSeq \in Nat
  BY AccParts
<1>2. /\ IsAcc(next) /\ next.s = acc.s /\ next.rows = acc.rows
      /\ next.liquidity = acc.liquidity /\ next.ok = FALSE
  <2>1. ASSUME NEW x, NEW m, m = [acc EXCEPT !.ok = x]
        PROVE  IsAcc(m) /\ m.s = acc.s /\ m.rows = acc.rows
               /\ m.liquidity = acc.liquidity /\ m.ok = x
    <3>1. IsAcc(acc) BY <1>1
    <3> QED BY <3>1, <2>1 DEF IsAcc
  <2> QED BY <2>1
<1>3. Typed(acc.s) BY DEF AccTyped
<1> HIDE DEF next
<1>4. AccTyped(next) BY <1>1, <1>2, <1>3 DEF AccTyped, IsAcc
<1>5. acc.s.orders = [acc.s.orders EXCEPT ![o] = acc.s.orders[o]] BY <1>1
<1>6. Aside(acc.s, next.s) /\ Still(acc, next) BY <1>2 DEF Aside, Still
<1>7. Turned(acc, next, o, at) BY <1>2, <1>4, <1>5, <1>6 DEF Turned, SameOrder
<1> QED BY <1>7 DEF next

\* A stop that triggers sets the flag of its order and appends its row; the rest stays.
LEMMA LatchFields ==
  ASSUME NEW acc, IsAcc(acc), IsState(acc.s), NEW o, NEW at,
         NEW ref, ref.triggers \in BOOLEAN,
         acc.s.orders \in [DOMAIN acc.s.orders -> OrderRecord],
         NEW m, m = Latch(acc, o, ref, at)
  PROVE  LatchedFrom(acc, m, o, ref, at)
<1>1. CASE ~ ref.triggers
  <2>1. m = acc BY <1>1 DEF Latch
  <2> QED BY <1>1, <2>1 DEF Aside, SameMoney, LatchedFrom
<1>2. CASE ref.triggers
  <2> DEFINE orders == [acc.s.orders EXCEPT ![o].triggered = TRUE]
             rows == Append(acc.rows, StopRow(o, at))
  <2>1. m = [acc EXCEPT !.s.orders = orders, !.rows = rows] BY <1>2 DEF Latch, StopRow
  <2>2. ASSUME NEW k PROVE [orders EXCEPT ![o] = k] = [acc.s.orders EXCEPT ![o] = k] OBVIOUS
  <2> HIDE DEF orders, rows
  <2> DEFINE q == [acc.s EXCEPT !.orders = orders]
  <2>3. /\ IsAcc(m) /\ m.s = q /\ m.rows = rows /\ m.ok = acc.ok /\ m.liquidity = acc.liquidity
    <3> HIDE DEF q
    <3>1. m = [acc EXCEPT !.s = q, !.rows = rows] BY <2>1 DEF q
    <3> QED BY <3>1 DEF IsAcc
  <2>4. IsState(q) /\ q.orders = orders /\ Aside(acc.s, q) /\ SameMoney(acc.s, q)
    BY DEF IsState, Aside, SameMoney
  <2> HIDE DEF q
  <2> QED BY <1>2, <2>2, <2>3, <2>4 DEF rows, LatchedFrom
<1> QED BY <1>1, <1>2

\* An offer that is taken.
LEMMA TradeTurns ==
  ASSUME NEW acc, AccTyped(acc), NEW o \in DOMAIN acc.s.orders, NEW at \in Times,
         NEW r, r = acc.s.orders[o], InTime(r, at), NEW ref, ref.triggers \in BOOLEAN,
         ref.triggers => ~ r.triggered, Triggering(r, ref),
         NEW f \in FillType, Sold(acc.s, o, r, f, at), f.quantity <= acc.liquidity
  PROVE  Turned(acc, Trade(Latch(acc, o, ref, at), r, ref, f), o, at)
<1> DEFINE latched == Latch(acc, o, ref, at)
           next == Trade(latched, r, ref, f)
           pre == IF ref.triggers THEN Append(acc.rows, StopRow(o, at)) ELSE acc.rows
           trig == r.triggered \/ ref.triggers
           k == FilledRecord([r EXCEPT !.triggered = trig], f)
           told == <<TransitionRow(o, r.status, k.status, at),
                     FillRow(f, r.status, k.status, at, k)>>
           orders == [acc.s.orders EXCEPT ![o] = k]
           ledger == ApplyFill(acc.s.ledger, f)
           seq == acc.s.fillSeq + 1
           fills == Append(acc.s.fills, f)
           liquidity == acc.liquidity - f.quantity
           rows == pre \o told
<1>1. /\ IsAcc(acc) /\ IsState(acc.s) /\ acc.rows \in Seq(RowType) /\ acc.ok \in BOOLEAN
      /\ acc.liquidity \in Int /\ acc.s.orders \in [DOMAIN acc.s.orders -> OrderRecord]
      /\ o \in Orders /\ r \in OrderRecord /\ acc.s.ledger \in LedgerType
      /\ acc.s.fills \in Seq(FillType) /\ acc.s.fillSeq \in Nat
  BY AccParts
<1>2. /\ f.id \in Nat /\ f.quantity \in Nat /\ f.price \in Nat /\ f.at = at /\ f.order = o
      /\ f.instrument = r.intent.instrument /\ f.side = r.intent.side
  BY DEF Sold, FillType
<1>4. k \in OrderRecord /\ SameOrder(r, k) /\ Grew(r, k, f) /\ k.triggered = trig
  <2> DEFINE q == [r EXCEPT !.triggered = trig]
  <2>1. trig \in BOOLEAN /\ k = FilledRecord(q, f) BY <1>1, RecordParts
  <2> HIDE DEF k, trig
  <2>2. /\ q \in OrderRecord /\ q.intent = r.intent /\ q.submitted = r.submitted
        /\ q.reference = r.reference /\ q.triggered = trig /\ q.filled = r.filled
        /\ q.spent = r.spent /\ q.remaining = r.remaining
    BY <1>1, <2>1 DEF OrderRecord
  <2>3. Affords(q, f) BY <2>2 DEF Sold, Affords
  <2> HIDE DEF q
  <2>4. k \in OrderRecord /\ SameOrder(q, k) /\ Grew(q, k, f) /\ k.triggered = q.triggered
    BY <1>2, <2>1, <2>2, <2>3, FilledRecordFields
  <2> QED BY <2>2, <2>4 DEF SameOrder, Grew
<1>5. latched = Latch(acc, o, ref, at) OBVIOUS
<1>6. next = [latched EXCEPT !.s.orders = [@ EXCEPT ![o] = k], !.s.ledger = ApplyFill(@, f),
                             !.s.fillSeq = @ + 1, !.s.fills = Append(@, f),
                             !.liquidity = @ - f.quantity, !.rows = @ \o told]
  BY <1>2 DEF Trade
<1> HIDE DEF next, latched, k, told
<1>7. /\ IsAcc(latched) /\ IsState(latched.s) /\ latched.ok = acc.ok
      /\ latched.liquidity = acc.liquidity
      /\ Aside(acc.s, latched.s) /\ SameMoney(acc.s, latched.s) /\ latched.rows = pre
      /\ \A x : [latched.s.orders EXCEPT ![o] = x] = [acc.s.orders EXCEPT ![o] = x]
  <2>1. LatchedFrom(acc, latched, o, ref, at) BY <1>1, <1>5, LatchFields
  <2> QED BY <2>1 DEF LatchedFrom, pre
<1> HIDE DEF pre
<1>9. next = [latched EXCEPT !.s.orders = orders, !.s.ledger = ledger,
                             !.s.fillSeq = seq, !.s.fills = fills,
                             !.liquidity = liquidity, !.rows = rows]
  <2>1. /\ [latched.s.orders EXCEPT ![o] = k] = orders /\ ApplyFill(latched.s.ledger, f) = ledger
        /\ latched.s.fillSeq + 1 = seq /\ Append(latched.s.fills, f) = fills
        /\ latched.liquidity - f.quantity = liquidity /\ latched.rows \o told = rows
    BY <1>7 DEF SameMoney
  <2> HIDE DEF orders, ledger, seq, fills, liquidity, rows
  <2> QED BY <2>1, <1>6
<1>10. told \in Seq(RowType) /\ pre \in Seq(RowType)
  <2>1. r.status \in Logged!Statuses /\ k.status \in Logged!Statuses BY <1>1, <1>4, RecordParts
  <2>2. /\ TransitionRow(o, r.status, k.status, at) \in RowType
        /\ FillRow(f, r.status, k.status, at, k) \in RowType /\ StopRow(o, at) \in RowType
    BY <1>1, <1>2, <1>4, <2>1, RowsTyped
  <2> QED BY <1>1, <2>2 DEF told, pre
<1>11. rows \in Seq(RowType) BY <1>10
<1>12. orders \in [DOMAIN acc.s.orders -> OrderRecord] /\ orders[o] = k BY <1>1, <1>4, Replaced
<1>13. ledger \in LedgerType
  <2>1. f.side = "sell" => f.quantity <= acc.s.ledger.held[f.instrument]
    <3>1. acc.s.ledger.held[f.instrument] \in Nat BY <1>1, LedgerParts DEF FillType
    <3>2. f.side = "sell" => ~ (f.quantity > acc.s.ledger.held[f.instrument])
      BY Zenon DEF Sold, FillRefused
    <3>3. f.quantity \in Nat BY <1>2
    <3> QED BY ONLY <3>1, <3>2, <3>3
  <2> DEFINE w == f.quantity * f.price * Scale
             m == ApplyFill(acc.s.ledger, f)
  <2> HIDE DEF w, m
  <2>2. m \in LedgerType
    <3>1. \A z : z = f.quantity * f.price * Scale => m \in LedgerType
      BY <1>1, <2>1, ApplyFillFields DEF m
    <3> QED BY <3>1
  <2> QED BY <2>2 DEF m
<1>14. fills \in Seq(FillType) /\ seq \in Nat /\ liquidity \in Int BY <1>1, <1>2
<1> HIDE DEF orders, ledger, seq, fills, liquidity, rows
<1>15. /\ IsAcc(next) /\ IsState(next.s) /\ next.ok = acc.ok
       /\ next.liquidity = liquidity /\ next.rows = rows
       /\ next.s.orders = orders /\ next.s.ledger = ledger /\ next.s.fillSeq = seq
       /\ next.s.fills = fills /\ Aside(latched.s, next.s)
  <2>1. IsAcc(latched) /\ IsState(latched.s) /\ latched.ok = acc.ok BY <1>7
  <2> QED BY <2>1, <1>9 DEF IsAcc, IsState, Aside
<1>16. Aside(acc.s, next.s) BY <1>7, <1>15 DEF Aside
<1>17. AccTyped(next) BY <1>1, <1>11, <1>12, <1>13, <1>14, <1>15, <1>16, AccOf
<1>18. /\ Sold(acc.s, o, r, f, at) /\ Paid(acc.s, next.s, f) /\ Grew(r, k, f)
  BY <1>4, <1>15 DEF Paid, fills, seq, ledger
<1>19. /\ pre \in {acc.rows, Append(acc.rows, StopRow(o, at))}
       /\ next.rows = pre \o <<TransitionRow(o, r.status, k.status, at),
                               FillRow(f, r.status, k.status, at, k)>>
  BY <1>15 DEF pre, rows, told
<1>20. /\ pre # acc.rows => ~ r.triggered /\ r.intent.type = "stop" /\ k.triggered
       /\ pre = acc.rows => k.triggered = r.triggered
  <2>1. acc.rows # Append(acc.rows, StopRow(o, at))
    <3>1. Len(Append(acc.rows, StopRow(o, at))) = Len(acc.rows) + 1 /\ Len(acc.rows) \in Nat BY <1>1
    <3> QED BY <3>1
  <2>2. r.triggered \in BOOLEAN BY <1>1, RecordParts
  <2> QED BY <2>1, <2>2, <1>4 DEF pre, Triggering
<1>21. r.intent.type = "stop" => k.triggered BY <1>4 DEF Triggering
<1>22. Deals(acc, next, o, r, k, f, at) BY <1>15, <1>18, <1>19, <1>20, <1>21 DEF Deals, liquidity, Triggering
<1>23. Turned(acc, next, o, at)
  BY <1>4, <1>12, <1>15, <1>16, <1>17, <1>22 DEF Turned, SameOrder, orders
<1> QED BY <1>23 DEF next, latched

\* A price to trade at means that a stop has triggered, and only a stop triggers now.
LEMMA ReferenceTriggers ==
  ASSUME NEW r, r.intent \in Intents, r.triggered \in BOOLEAN, NEW bar,
         NEW ref, ref = Reference(r, bar), ref.price # 0
  PROVE  Triggering(r, ref)
<1>1. r.intent.type \in {"market", "limit", "stop", "stop_limit"} BY IntentParts
<1>2. CASE r.intent.type = "market" BY <1>2 DEF Reference, Triggering
<1>3. CASE r.intent.type = "limit" BY <1>3 DEF Reference, Triggering
<1>4. CASE r.intent.type = "stop" BY <1>4 DEF Reference, Triggering
<1>5. CASE r.intent.type = "stop_limit" BY <1>5 DEF Reference, Triggering
<1> QED BY <1>1, <1>2, <1>3, <1>4, <1>5

\* An attempt to fill.
LEMMA AttemptTurns ==
  ASSUME NEW acc, AccTyped(acc), NEW o \in DOMAIN acc.s.orders, NEW at \in Times,
         NEW r, r = acc.s.orders[o], InTime(r, at), NEW bar \in BarType,
         NEW ref, ref = Reference(r, bar),
         NEW f, f = Offer(acc.s, o, ref.price, at, acc.liquidity)
  PROVE  Turned(acc, Attempt(acc, r, ref, f), o, at)
<1>1. /\ r \in OrderRecord /\ Typed(acc.s) /\ acc.liquidity \in Int BY AccParts DEF AccTyped
<1>2. r.intent \in Intents /\ r.triggered \in BOOLEAN BY <1>1, RecordParts
<1>3. ref.price \in Nat /\ ref.triggers \in BOOLEAN /\ (ref.triggers => ~ r.triggered)
  <2>1. \A b \in BarType : /\ Reference(r, b).price \in Nat /\ Reference(r, b).triggers \in BOOLEAN
                           /\ Reference(r, b).triggers => ~ r.triggered
    BY <1>2, ReferenceTyped
  <2> QED BY <2>1
<1>4. f.order = o /\ f.at = at BY DEF Offer
<1>5. Turned(acc, Latch(acc, o, ref, at), o, at) BY <1>3, LatchTurns
<1>6. CASE ref.price = 0
  <2>1. Attempt(acc, r, ref, f) = Latch(acc, o, ref, at) BY <1>4, <1>6 DEF Attempt
  <2> QED BY <2>1, <1>5
<1>7. CASE ref.price > 0 /\ OrderRaises(acc.s, r, ref.price, f)
  <2>1. Attempt(acc, r, ref, f) = [acc EXCEPT !.ok = FALSE] BY <1>7 DEF Attempt
  <2> QED BY <2>1, FailTurns
<1>8. CASE ref.price > 0 /\ ~ OrderRaises(acc.s, r, ref.price, f)
  <2>1. Attempt(acc, r, ref, f) = IF Takes(acc.s, r, ref.price, f)
                                  THEN Trade(Latch(acc, o, ref, at), r, ref, f)
                                  ELSE Latch(acc, o, ref, at)
    BY <1>4, <1>8 DEF Attempt
  <2>2. CASE ~ Takes(acc.s, r, ref.price, f) BY <2>1, <2>2, <1>5
  <2>3. CASE Takes(acc.s, r, ref.price, f)
    <3>1. /\ f.id = acc.s.fillSeq + 1 /\ f.instrument = r.intent.instrument
          /\ f.side = r.intent.side /\ f.price \in Nat
          /\ f.quantity \in Int /\ f.quantity <= acc.liquidity
          /\ f.fee = Fee(f.quantity, f.price)
          /\ r.intent.notional = 0 => f.quantity <= r.intent.quantity - r.filled
          /\ f.quantity \in Nat => f \in FillType
      BY <1>1, <1>3, <1>8, OfferIs
    <3>2. /\ f.quantity > 0 /\ RespectsPrices(r.intent, f.price)
          /\ r.intent.notional > 0 => f.quantity * f.price <= r.remaining
          /\ Covered(acc.s.ledger, r.intent, f)
      BY <2>3 DEF Takes
    <3>3. f.price # 0 /\ ~ FillRefused(acc.s.ledger, f) BY <1>8, <2>3, <3>2 DEF OrderRaises
    <3>4. r.filled \in Nat /\ r.intent.quantity \in Nat BY <1>1, <1>2, RecordParts, IntentParts
    <3>5. r.intent.notional = 0 => r.filled + f.quantity <= r.intent.quantity BY <3>1, <3>4
    <3>6. Sold(acc.s, o, r, f, at)
      <4>1. f.price > 0
        <5>1. f.price \in Nat /\ f.price # 0 BY <3>1, <3>3
        <5> QED BY ONLY <5>1
      <4>2. Affords(r, f) BY Zenon, <3>2 DEF Affords, Money
      <4> QED BY ONLY Zenon, <1>4, <3>1, <3>2, <3>3, <3>5, <4>1, <4>2 DEF Sold
    <3>7. f \in FillType
      <4>1. f.quantity \in Int /\ f.quantity > 0 BY Zenon, <3>1, <3>2
      <4>2. f.quantity \in Nat BY ONLY <4>1
      <4> QED BY ONLY Zenon, <3>1, <4>2
    <3>8. Triggering(r, ref) BY <1>2, <1>8, ReferenceTriggers
    <3>9. f.quantity <= acc.liquidity BY Zenon, <3>1
    <3>10. Turned(acc, Trade(Latch(acc, o, ref, at), r, ref, f), o, at)
      BY <1>3, <3>6, <3>7, <3>8, <3>9, TradeTurns
    <3> QED BY <2>1, <2>3, <3>10
  <2> QED BY <2>2, <2>3
<1> QED BY <1>3, <1>6, <1>7, <1>8

\* Whatever a turn does, it is one of these.
LEMMA ProcessTurns ==
  ASSUME NEW acc, AccTyped(acc), acc.ok, NEW o \in DOMAIN acc.s.orders, NEW at \in Times,
         NEW bar \in BarType
  PROVE  Turned(acc, Process(acc, o, bar, at), o, at)
<1> DEFINE r == acc.s.orders[o]
           ref == Reference(r, bar)
           f == Offer(acc.s, o, ref.price, at, acc.liquidity)
<1>1. Process(acc, o, bar, at) = ProcessOrder(acc, o, r, ref, at) BY DEF Process
<1>2. /\ acc.s.orders \in [DOMAIN acc.s.orders -> OrderRecord] /\ r \in OrderRecord BY AccParts
<1>3. r.submitted \in Nat /\ r.intent.expires \in Nat /\ at \in Nat
  BY <1>2, RecordParts, IntentParts, TimesAreInstants
<1>4. CASE at <= r.submitted
  <2>1. ProcessOrder(acc, o, r, ref, at) = acc BY <1>3, <1>4 DEF ProcessOrder
  <2>2. Turned(acc, acc, o, at)
    <3>1. acc.s.orders = [acc.s.orders EXCEPT ![o] = acc.s.orders[o]] BY <1>2
    <3>2. Aside(acc.s, acc.s) /\ Still(acc, acc) BY DEF Aside, Still
    <3> QED BY <3>1, <3>2 DEF Turned, SameOrder
  <2> QED BY <1>1, <2>1, <2>2
<1>5. CASE at > r.submitted /\ at >= r.intent.expires
  <2>1. ProcessOrder(acc, o, r, ref, at) = Expire(acc, o, r, at) BY <1>3, <1>5 DEF ProcessOrder
  <2> QED BY <1>1, <1>5, <2>1, ExpireTurns
<1>6. CASE at > r.submitted /\ at < r.intent.expires /\ ~ LatencyOver(r.submitted, at)
  <2>1. ProcessOrder(acc, o, r, ref, at) = acc BY <1>3, <1>6 DEF ProcessOrder
  <2>2. Turned(acc, acc, o, at)
    <3>1. acc.s.orders = [acc.s.orders EXCEPT ![o] = acc.s.orders[o]] BY <1>2
    <3>2. Aside(acc.s, acc.s) /\ Still(acc, acc) BY DEF Aside, Still
    <3> QED BY <3>1, <3>2 DEF Turned, SameOrder
  <2> QED BY <1>1, <2>1, <2>2
<1>7. CASE InTime(r, at)
  <2>1. ProcessOrder(acc, o, r, ref, at) = Attempt(acc, r, ref, f)
    BY <1>3, <1>7 DEF ProcessOrder, InTime
  <2> HIDE DEF r, ref, f
  <2>2. Turned(acc, Attempt(acc, r, ref, f), o, at) BY <1>7, AttemptTurns DEF r, ref, f
  <2> QED BY <1>1, <2>1, <2>2
<1> QED BY <1>3, <1>4, <1>5, <1>6, <1>7 DEF InTime

------------------------------
(* What an operation may touch, and its rollback *)

\* The entries of a mapping on the instruments, put back.
LEMMA PutBack ==
  ASSUME NEW f, NEW g, NEW X, NEW Y, f \in [Instruments -> X], g \in [Instruments -> Y],
         NEW I \in SUBSET Instruments, Beside(f, g, I)
  PROVE  Overlay(Restrict(f, I), g) = f
BY DEF Overlay, Restrict, Beside

\* The entries of orders that were there, put back, and those of new orders removed.
LEMMA OrdersPutBack ==
  ASSUME NEW f, NEW g, NEW X, NEW Y, f \in [DOMAIN f -> X], g \in [DOMAIN g -> Y], NEW O,
         DOMAIN f \subseteq DOMAIN g, DOMAIN g \subseteq DOMAIN f \cup O,
         \A o \in DOMAIN f \ O : g[o] = f[o]
  PROVE  Overlay(Restrict(f, O \cap DOMAIN f),
                 Restrict(g, DOMAIN g \ (O \ DOMAIN f))) = f
<1> DEFINE h == Overlay(Restrict(f, O \cap DOMAIN f), Restrict(g, DOMAIN g \ (O \ DOMAIN f)))
<1>1. DOMAIN h = DOMAIN f BY DEF Overlay, Restrict
<1>2. \A o \in DOMAIN f : h[o] = f[o] BY DEF Overlay, Restrict
<1>3. h = [o \in DOMAIN h |-> h[o]] BY DEF Overlay
<1> HIDE DEF h
<1>4. h = f BY <1>1, <1>2, <1>3
<1> QED BY <1>4 DEF h

\* rollback takes back whatever an operation did, and cannot fail.
LEMMA RollsBack ==
  ASSUME NEW s, Typed(s), NEW t, Typed(t), NEW O, NEW C, NEW I \in SUBSET Instruments,
         Frame(s, t, O, C, I), NEW j, j = Capture(s, O, C, I)
  PROVE  /\ RolledBack(t, j) = s
         /\ ~ RestoreRefused(t.ledger, j.ledger, AddedFills(t, j))
<1>1. IsState(s) /\ IsState(t) BY TypedParts DEF IsState
<1>2. /\ j.orders = Restrict(s.orders, O \cap DOMAIN s.orders)
      /\ j.newOrders = O \ DOMAIN s.orders /\ j.newClients = C \ s.clients
      /\ j.active = Restrict(s.active, I) /\ j.unknown = Restrict(s.unknown, I)
      /\ j.seen = Restrict(s.seen, I) /\ j.marks = Restrict(s.marks, I)
      /\ j.unmet = I \ s.known /\ j.fills = Len(s.fills) /\ j.ledger = Compact(s.ledger)
      /\ j.fillSeq = s.fillSeq /\ j.events = s.events /\ j.ops = s.ops
      /\ j.latest = s.latest /\ j.lastKey = s.lastKey
  BY DEF Capture
<1>3. AddedFills(t, j) = NewIds(s, t) BY <1>2 DEF AddedFills, NewIds
<1>4. /\ Overlay(j.active, t.active) = s.active /\ Overlay(j.unknown, t.unknown) = s.unknown
      /\ Overlay(j.seen, t.seen) = s.seen /\ Overlay(j.marks, t.marks) = s.marks
  <2>1. /\ s.active \in [Instruments -> SUBSET Orders] /\ t.active \in [Instruments -> SUBSET Orders]
        /\ s.unknown \in [Instruments -> SUBSET Orders]
        /\ t.unknown \in [Instruments -> SUBSET Orders]
        /\ s.seen \in [Instruments -> SeenType] /\ t.seen \in [Instruments -> SeenType]
        /\ s.marks \in [Instruments -> Nat] /\ t.marks \in [Instruments -> Nat]
    BY TypedParts DEF Entries
  <2>2. /\ Beside(s.active, t.active, I) /\ Beside(s.unknown, t.unknown, I)
        /\ Beside(s.seen, t.seen, I) /\ Beside(s.marks, t.marks, I)
    BY DEF Frame
  <2>3. Overlay(Restrict(s.active, I), t.active) = s.active BY <2>1, <2>2, PutBack
  <2>4. Overlay(Restrict(s.unknown, I), t.unknown) = s.unknown BY <2>1, <2>2, PutBack
  <2>5. Overlay(Restrict(s.seen, I), t.seen) = s.seen BY <2>1, <2>2, PutBack
  <2>6. Overlay(Restrict(s.marks, I), t.marks) = s.marks BY <2>1, <2>2, PutBack
  <2> QED BY <1>2, <2>3, <2>4, <2>5, <2>6
<1>5. Overlay(j.orders, Restrict(t.orders, DOMAIN t.orders \ j.newOrders)) = s.orders
  <2>1. /\ s.orders \in [DOMAIN s.orders -> OrderRecord]
        /\ t.orders \in [DOMAIN t.orders -> OrderRecord]
    BY TypedParts
  <2>2. /\ DOMAIN s.orders \subseteq DOMAIN t.orders
        /\ DOMAIN t.orders \subseteq DOMAIN s.orders \cup O
        /\ \A o \in DOMAIN s.orders \ O : t.orders[o] = s.orders[o]
    BY DEF Frame
  <2>3. Overlay(Restrict(s.orders, O \cap DOMAIN s.orders),
                Restrict(t.orders, DOMAIN t.orders \ (O \ DOMAIN s.orders))) = s.orders
    BY <2>1, <2>2, OrdersPutBack
  <2> QED BY <1>2, <2>3
<1>6. t.clients \ j.newClients = s.clients /\ t.known \ j.unmet = s.known BY <1>2 DEF Frame
<1>7. Extends(s, t) BY DEF Frame
<1>8. SubSeq(t.fills, 1, j.fills) = s.fills
  <2>1. s.fills \in Seq(FillType) /\ t.fills \in Seq(FillType) BY TypedParts
  <2>2. /\ Len(s.fills) <= Len(t.fills)
        /\ \A n \in 1..Len(s.fills) : t.fills[n] = s.fills[n]
    BY <1>7 DEF Extends
  <2> HIDE DEF Frame
  <2> QED BY <1>2, <2>1, <2>2
<1>9. t.ledger.fills \ AddedFills(t, j) = s.ledger.fills /\ AddedFills(t, j) \subseteq t.ledger.fills
  BY <1>3, <1>7 DEF Extends
<1>9a. /\ j.ledger.cash = s.ledger.cash /\ j.ledger.held = s.ledger.held
       /\ j.ledger.prices = s.ledger.prices /\ j.ledger.count = Cardinality(s.ledger.fills)
       /\ j.ledger.equity = s.ledger.equity /\ j.ledger.peak = s.ledger.peak
  <2>1. j.ledger = Compact(s.ledger) BY <1>2
  <2> QED BY <2>1 DEF Compact
<1>10. Restore(t.ledger, j.ledger, AddedFills(t, j)) = s.ledger
  <2>1. s.ledger \in LedgerType BY TypedParts
  <2>2. s.ledger = [cash |-> s.ledger.cash, held |-> s.ledger.held, prices |-> s.ledger.prices,
                    fills |-> s.ledger.fills, equity |-> s.ledger.equity,
                    peak |-> s.ledger.peak]
    BY <2>1, LedgerParts
  <2> QED BY <1>9, <1>9a, <2>2 DEF Restore
<1>11. ~ RestoreRefused(t.ledger, j.ledger, AddedFills(t, j)) BY <1>9, <1>9a DEF RestoreRefused
<1>12. RolledBack(t, j) = s
  <2> DEFINE u == Reindexed(t, j)
             ledger == Restore(t.ledger, j.ledger, AddedFills(t, j))
             fills == SubSeq(t.fills, 1, j.fills)
             orders == Overlay(j.orders, Restrict(t.orders, DOMAIN t.orders \ j.newOrders))
             seen == Overlay(j.seen, t.seen)
             marks == Overlay(j.marks, t.marks)
             active == Overlay(j.active, t.active)
             unknown == Overlay(j.unknown, t.unknown)
  <2>1. u = [t EXCEPT !.active = active, !.unknown = unknown] BY DEF Reindexed
  <2> HIDE DEF active, unknown, u
  <2>2. u = [t EXCEPT !.active = active, !.unknown = unknown] /\ IsState(t) BY <1>1, <2>1
  <2>3. /\ IsState(u) /\ u.active = active /\ u.unknown = unknown /\ u.orders = t.orders
        /\ u.clients = t.clients /\ u.seen = t.seen /\ u.marks = t.marks
        /\ u.known = t.known /\ u.fills = t.fills /\ u.ledger = t.ledger
    BY <2>2 DEF IsState
  <2> DEFINE clients == t.clients \ j.newClients
             known == t.known \ j.unmet
             m == RolledBack(t, j)
  <2>4. m = [u EXCEPT !.ledger = ledger, !.fills = fills, !.orders = orders,
           !.clients = clients, !.seen = seen, !.marks = marks,
           !.known = known, !.fillSeq = j.fillSeq, !.events = j.events,
           !.ops = j.ops, !.latest = j.latest, !.lastKey = j.lastKey]
    BY <2>3 DEF RolledBack, u
  <2> HIDE DEF ledger, fills, orders, seen, marks, clients, known, m
  <2>5. m = [orders |-> orders, clients |-> clients, active |-> active,
             unknown |-> unknown, seen |-> seen, marks |-> marks, known |-> known,
             fills |-> fills, fillSeq |-> j.fillSeq, events |-> j.events, ops |-> j.ops,
             ledger |-> ledger, latest |-> j.latest, lastKey |-> j.lastKey]
    <3>1. IsState(u) /\ u.active = active /\ u.unknown = unknown BY <2>3
    <3> QED BY <3>1, <2>4 DEF IsState
  <2>6. /\ orders = s.orders /\ active = s.active /\ unknown = s.unknown /\ seen = s.seen
        /\ marks = s.marks /\ fills = s.fills /\ ledger = s.ledger
        /\ clients = s.clients /\ known = s.known
    BY <1>4, <1>5, <1>6, <1>8, <1>10
       DEF orders, active, unknown, seen, marks, fills, ledger, clients, known
  <2>7. m = s BY <1>1, <1>2, <2>5, <2>6 DEF IsState
  <2> QED BY <2>7 DEF m
<1> QED BY <1>11, <1>12

\* One operation after another only adds fills.
LEMMA ExtendsThen ==
  ASSUME NEW s, NEW t, NEW u, s.fills \in Seq(FillType), t.fills \in Seq(FillType),
         u.fills \in Seq(FillType), Extends(s, t), Extends(t, u)
  PROVE  Extends(s, u)
<1>1. Len(s.fills) \in Nat /\ Len(t.fills) \in Nat /\ Len(u.fills) \in Nat OBVIOUS
<1>2. /\ Len(s.fills) <= Len(t.fills) /\ Len(t.fills) <= Len(u.fills)
      /\ \A n \in 1..Len(s.fills) : t.fills[n] = s.fills[n]
      /\ \A n \in 1..Len(t.fills) : u.fills[n] = t.fills[n]
      /\ t.ledger.fills = s.ledger.fills \cup NewIds(s, t)
      /\ NewIds(s, t) \cap s.ledger.fills = {}
      /\ u.ledger.fills = t.ledger.fills \cup NewIds(t, u)
      /\ NewIds(t, u) \cap t.ledger.fills = {}
  BY DEF Extends
<1>3. NewIds(s, u) = NewIds(s, t) \cup NewIds(t, u)
  <2>1. ASSUME NEW x \in NewIds(s, u) PROVE x \in NewIds(s, t) \cup NewIds(t, u)
    <3>1. PICK n \in (Len(s.fills) + 1)..Len(u.fills) : x = u.fills[n].id BY <2>1 DEF NewIds
    <3>2. CASE n <= Len(t.fills)
      <4>1. n \in (Len(s.fills) + 1)..Len(t.fills) /\ n \in 1..Len(t.fills) BY <1>1, <3>2
      <4>2. x = t.fills[n].id BY <1>2, <3>1, <4>1
      <4> QED BY <4>1, <4>2 DEF NewIds
    <3>3. CASE ~ (n <= Len(t.fills))
      <4>1. n \in (Len(t.fills) + 1)..Len(u.fills) BY <1>1, <3>3
      <4> QED BY <3>1, <4>1 DEF NewIds
    <3> QED BY <3>2, <3>3
  <2>2. ASSUME NEW x \in NewIds(s, t) PROVE x \in NewIds(s, u)
    <3>1. PICK n \in (Len(s.fills) + 1)..Len(t.fills) : x = t.fills[n].id BY <2>2 DEF NewIds
    <3>2. n \in (Len(s.fills) + 1)..Len(u.fills) /\ n \in 1..Len(t.fills) BY <1>1, <1>2
    <3>3. x = u.fills[n].id BY <1>2, <3>1, <3>2
    <3> QED BY <3>2, <3>3 DEF NewIds
  <2>3. ASSUME NEW x \in NewIds(t, u) PROVE x \in NewIds(s, u)
    <3>1. PICK n \in (Len(t.fills) + 1)..Len(u.fills) : x = u.fills[n].id BY <2>3 DEF NewIds
    <3>2. n \in (Len(s.fills) + 1)..Len(u.fills) BY <1>1, <1>2
    <3> QED BY <3>1, <3>2 DEF NewIds
  <2> QED BY <2>1, <2>2, <2>3
<1>4. Len(s.fills) <= Len(u.fills) BY <1>1, <1>2
<1>5. \A n \in 1..Len(s.fills) : u.fills[n] = s.fills[n] BY <1>1, <1>2
<1>6. u.ledger.fills = s.ledger.fills \cup NewIds(s, u) BY <1>2, <1>3
<1>7. NewIds(s, u) \cap s.ledger.fills = {} BY <1>2, <1>3
<1> QED BY <1>4, <1>5, <1>6, <1>7 DEF Extends

\* No fill at all is a way of only adding.
LEMMA ExtendsSame ==
  ASSUME NEW s, NEW t, s.fills \in Seq(FillType), t.fills = s.fills,
         t.ledger.fills = s.ledger.fills
  PROVE  Extends(s, t)
<1>1. NewIds(s, t) = {}
  <2>1. (Len(s.fills) + 1)..Len(t.fills) = {} OBVIOUS
  <2> QED BY <2>1 DEF NewIds
<1> QED BY <1>1 DEF Extends

\* One fill more.
LEMMA ExtendsByOne ==
  ASSUME NEW s, NEW t, s.fills \in Seq(FillType), NEW f \in FillType,
         t.fills = Append(s.fills, f), t.ledger.fills = s.ledger.fills \cup {f.id},
         f.id \notin s.ledger.fills
  PROVE  Extends(s, t)
<1>1. Len(t.fills) = Len(s.fills) + 1 /\ Len(s.fills) \in Nat OBVIOUS
<1>2. /\ \A n \in 1..Len(s.fills) : t.fills[n] = s.fills[n]
      /\ t.fills[Len(s.fills) + 1] = f
  OBVIOUS
<1>3. (Len(s.fills) + 1)..Len(t.fills) = {Len(s.fills) + 1} BY <1>1
<1>4. NewIds(s, t) = {f.id} BY <1>2, <1>3 DEF NewIds
<1> QED BY <1>1, <1>2, <1>4 DEF Extends

\* What two steps leave alone, the two together leave alone.
LEMMA FrameThen ==
  ASSUME NEW s, NEW t, NEW u, Typed(s), Typed(t), Typed(u), NEW O, NEW C, NEW I,
         Frame(s, t, O, C, I), Frame(t, u, O, C, I)
  PROVE  Frame(s, u, O, C, I)
<1>1. Extends(s, u)
  <2>1. s.fills \in Seq(FillType) /\ t.fills \in Seq(FillType) /\ u.fills \in Seq(FillType)
    BY TypedParts
  <2>2. Extends(s, t) /\ Extends(t, u) BY DEF Frame
  <2> QED BY <2>1, <2>2, ExtendsThen
<1>2. /\ DOMAIN s.orders \subseteq DOMAIN u.orders
      /\ DOMAIN u.orders \subseteq DOMAIN s.orders \cup O
      /\ \A o \in DOMAIN s.orders \ O : u.orders[o] = s.orders[o]
      /\ s.clients \subseteq u.clients /\ u.clients \subseteq s.clients \cup C
      /\ s.known \subseteq u.known /\ u.known \subseteq s.known \cup I
  BY DEF Frame
<1>3. /\ Beside(s.active, u.active, I) /\ Beside(s.unknown, u.unknown, I)
      /\ Beside(s.seen, u.seen, I) /\ Beside(s.marks, u.marks, I)
  BY DEF Frame, Beside
<1> QED BY <1>1, <1>2, <1>3 DEF Frame

------------------------------
(* The books *)

\* A sum of integers is one.
LEMMA AddedIsInt ==
  ASSUME NEW numbers \in Seq(Int)
  PROVE  Added(numbers) \in Int
<1> DEFINE N == Len(numbers)
<1>1. PICK path : Sums!IsPath(0, 0, numbers, path) BY WellOrders, Sums!Path
<1>2. /\ path[0] = 0 /\ path[N] = Added(numbers)
      /\ \A n \in 1..N : path[n] = path[n - 1] + numbers[n]
  BY <1>1, AddedFolds DEF Sums!IsPath, Sums!Steps, Sums!Leads, AddStep
<1> DEFINE S == {n \in 0..N : path[n] \in Int}
<1>3. N \in Nat /\ 0 \in S BY <1>2
<1>4. ASSUME NEW n \in 0..(N - 1), n \in S PROVE n + 1 \in S
  <2>1. n + 1 \in 1..N /\ n + 1 \in 0..N /\ (n + 1) - 1 = n /\ path[n] \in Int BY <1>3, <1>4
  <2>2. path[n + 1] = path[n] + numbers[n + 1] /\ numbers[n + 1] \in Int BY <1>2, <2>1
  <2> QED BY <2>1, <2>2
<1>5. \A n \in 0..N : n \in S
  <2> HIDE DEF S, N
  <2> QED BY <1>3, <1>4, UpTo
<1> QED BY <1>2, <1>3, <1>5

\* One number more.
LEMMA AddedMore ==
  ASSUME NEW numbers \in Seq(Int), NEW x \in Int
  PROVE  Added(Append(numbers, x)) = Added(numbers) + x
BY AddedFolds, WellOrders, Sums!FoldAppend DEF AddStep

\* The weights are functions to the integers.
LEMMA WeightsAreInt ==
  ASSUME NEW w \in Weights
  PROVE  w \in [FillType -> Int]
<1>1. ASSUME NEW f \in FillType
      PROVE  /\ f.quantity \in Int /\ f.fee \in Int /\ Money(f) \in Int /\ Money(f) * Scale \in Int
  <2>1. f.quantity \in Nat /\ f.price \in Nat /\ f.fee \in Nat BY DEF FillType
  <2>2. Money(f) \in Nat BY <2>1, Product DEF Money
  <2>3. Money(f) * Scale \in Nat BY <2>2, Product, ScaleAssumption
  <2> QED BY <2>1, <2>2, <2>3
<1> QED BY <1>1 DEF Weights, Spending, Earning, Incoming, Outgoing, Filling, Paying

\* The sum of the fills, and of one fill more.
LEMMA SummedMore ==
  ASSUME NEW fills \in Seq(FillType), NEW f \in FillType, NEW w \in Weights
  PROVE  /\ Summed(fills, w) \in Int /\ w[f] \in Int
         /\ Summed(Append(fills, f), w) = Summed(fills, w) + w[f]
<1> DEFINE numbers == [n \in DOMAIN fills |-> w[fills[n]]]
           more == [n \in DOMAIN Append(fills, f) |-> w[Append(fills, f)[n]]]
<1>1. w \in [FillType -> Int] BY WeightsAreInt
<1>2. numbers \in Seq(Int) /\ w[f] \in Int BY <1>1
<1>3. more = Append(numbers, w[f]) BY <1>1, <1>2
<1> HIDE DEF numbers, more
<1>4. Added(numbers) \in Int /\ Added(more) = Added(numbers) + w[f]
  BY <1>2, <1>3, AddedIsInt, AddedMore
<1> QED BY <1>2, <1>4 DEF Summed, numbers, more

\* Booking a fill moves cash, holding and price as it says and values the result.
LEMMA ApplyFillDoes ==
  ASSUME NEW l \in LedgerType, NEW f \in FillType,
         f.side = "sell" => f.quantity <= l.held[f.instrument]
  PROVE  Applied(l, f, ApplyFill(l, f))
<1> DEFINE n == f.quantity * f.price * Scale
           m == ApplyFill(l, f)
<1>1. /\ m \in LedgerType
      /\ m.cash = IF f.side = "buy" THEN l.cash - (n + f.fee) ELSE l.cash + n - f.fee
      /\ m.held = [l.held EXCEPT ![f.instrument] =
                      IF f.side = "buy" THEN @ + f.quantity ELSE @ - f.quantity]
      /\ m.prices = [l.prices EXCEPT ![f.instrument] = f.price]
      /\ m.fills = l.fills \cup {f.id}
      /\ m.equity = Valuation(m.cash, m.held, m.prices)
      /\ m.peak = Larger(l.peak, m.equity)
  BY ApplyFillFields
<1>2. n = Money(f) * Scale BY DEF Money
<1> HIDE DEF m, n
<1>3. Applied(l, f, m) BY <1>1, <1>2 DEF Applied
<1> QED BY <1>3 DEF m

\* A ledger that from_state would take back is one after a fill.
LEMMA FillRestorable ==
  ASSUME NEW l \in LedgerType, Restorable(l), NEW f \in FillType, f.price > 0,
         NEW m, Applied(l, f, m)
  PROVE  Restorable(m)
<1>1. /\ l.held \in [Instruments -> Nat] /\ l.prices \in [Instruments -> Nat] /\ l.peak \in Int
      /\ m.held \in [Instruments -> Nat] /\ m.equity \in Int /\ l.equity \in Int
  BY LedgerParts DEF Applied
<1>2. /\ \A i \in Instruments : i # f.instrument => m.held[i] = l.held[i] /\ m.prices[i] = l.prices[i]
      /\ f.instrument \in Instruments /\ m.prices[f.instrument] = f.price
  BY <1>1 DEF Applied, FillType
<1>3. \A i \in Positions(m) : m.prices[i] > 0 BY <1>2 DEF Restorable, Positions
<1>4. m.equity = Valuation(m.cash, m.held, m.prices) /\ m.peak = Larger(l.peak, m.equity)
  BY DEF Applied
<1>5. l.peak >= StartingCash * Scale /\ StartingCash * Scale \in Nat
  <2>1. StartingCash * Scale \in Nat BY Product, ScaleAssumption, LedgerAssumption
  <2>2. l.peak >= Larger(StartingCash * Scale, l.equity) BY DEF Restorable
  <2> DEFINE n == StartingCash * Scale
  <2> HIDE DEF n
  <2>3. l.peak >= n BY <1>1, <2>1, <2>2 DEF Larger, n
  <2> QED BY <2>1, <2>3 DEF n
<1>6. m.peak >= Larger(StartingCash * Scale, m.equity)
  <2> DEFINE n == StartingCash * Scale
  <2>1. n \in Nat /\ l.peak >= n BY <1>5
  <2> HIDE DEF n
  <2>2. m.peak >= Larger(n, m.equity) BY <1>1, <1>4, <2>1 DEF Larger
  <2> QED BY <2>2 DEF n
<1> QED BY <1>3, <1>4, <1>6 DEF Restorable

\* A fill that is booked keeps the ledger and the fills in agreement.
LEMMA FillBalances ==
  ASSUME NEW l \in LedgerType, NEW fills \in Seq(FillType), Balanced(fills, l),
         NEW f \in FillType, Bookable(l, f), NEW m, Applied(l, f, m)
  PROVE  Balanced(Append(fills, f), m)
<1> DEFINE more == Append(fills, f)
           N == Len(fills)
           cost == Money(f) * Scale
<1>1. /\ more \in Seq(FillType) /\ Len(more) = N + 1 /\ more[N + 1] = f /\ N \in Nat
      /\ \A n \in 1..N : more[n] = fills[n]
      /\ DOMAIN fills = 1..N /\ DOMAIN more = 1..(N + 1)
  OBVIOUS
<1>2. /\ f.quantity \in Nat /\ f.fee \in Nat /\ f.instrument \in Instruments
      /\ f.side \in {"buy", "sell"} /\ cost \in Nat
  <2>1. f.quantity \in Nat /\ f.price \in Nat BY DEF FillType
  <2>2. Money(f) \in Nat BY <2>1, Product DEF Money
  <2>3. cost \in Nat BY <2>2, Product, ScaleAssumption
  <2> QED BY <2>3 DEF FillType
<1>3. /\ l.cash \in Int /\ l.held \in [Instruments -> Nat] /\ l.fills \in SUBSET Nat BY LedgerParts
<1>4. \A w \in Weights : /\ Summed(fills, w) \in Int /\ w[f] \in Int
                         /\ Summed(more, w) = Summed(fills, w) + w[f]
  BY SummedMore
<1>5. m.cash = IF f.side = "buy" THEN l.cash - (cost + f.fee) ELSE l.cash + cost - f.fee
  BY DEF Applied
<1>6. (\A n \in DOMAIN more : Worthwhile(more[n])) => m.cash >= 0
  <2> SUFFICES ASSUME \A n \in DOMAIN more : Worthwhile(more[n]) PROVE m.cash >= 0 OBVIOUS
  <2>1. Worthwhile(f) /\ \A n \in DOMAIN fills : Worthwhile(fills[n])
    <3>1. N + 1 \in DOMAIN more /\ \A n \in DOMAIN fills : n \in DOMAIN more BY <1>1
    <3> QED BY <1>1, <3>1
  <2>2. l.cash >= 0 BY <2>1 DEF Balanced
  <2>3. f.side = "sell" => f.fee <= cost BY <2>1 DEF Worthwhile
  <2>4. f.side = "buy" => cost + f.fee <= l.cash BY DEF Bookable
  <2> HIDE DEF cost, more, N
  <2> QED BY <1>2, <1>3, <1>5, <2>2, <2>3, <2>4
<1>7. m.cash + Summed(more, Spending) = StartingCash * Scale + Summed(more, Earning)
  <2>1. Spending \in Weights /\ Earning \in Weights BY DEF Weights
  <2>2. /\ Spending[f] = IF f.side = "buy" THEN cost + f.fee ELSE 0
        /\ Earning[f] = IF f.side = "sell" THEN cost - f.fee ELSE 0
    BY DEF Spending, Earning
  <2>3. l.cash + Summed(fills, Spending) = StartingCash * Scale + Summed(fills, Earning)
    BY DEF Balanced
  <2> DEFINE n == StartingCash * Scale
             a == Summed(fills, Spending)
             b == Summed(fills, Earning)
             c == Summed(more, Spending)
             d == Summed(more, Earning)
  <2>4. n \in Nat BY Product, ScaleAssumption, LedgerAssumption
  <2>5. /\ a \in Int /\ b \in Int /\ c = a + Spending[f] /\ d = b + Earning[f]
        /\ l.cash + a = n + b
    BY <1>4, <2>1, <2>3
  <2> HIDE DEF n, a, b, c, d, cost, more, N
  <2>6. CASE f.side = "buy"
    <3>1. /\ Spending[f] = cost + f.fee /\ Earning[f] = 0 /\ m.cash = l.cash - (cost + f.fee)
      BY <1>5, <2>2, <2>6
    <3>2. ASSUME NEW x \in Int, NEW y \in Int, NEW p \in Int, NEW q \in Int, NEW u \in Int,
                 x + y = p + q
          PROVE  (x - u) + (y + u) = p + (q + 0)
      BY ONLY <3>2
    <3>3. (l.cash - (cost + f.fee)) + (a + (cost + f.fee)) = n + (b + 0)
      BY <1>2, <1>3, <2>4, <2>5, <3>2
    <3>4. m.cash + c = n + d BY <2>5, <3>1, <3>3
    <3> QED BY <3>4 DEF n, c, d
  <2>7. CASE f.side = "sell"
    <3>1. /\ Spending[f] = 0 /\ Earning[f] = cost - f.fee /\ m.cash = l.cash + cost - f.fee
      BY <1>5, <2>2, <2>7
    <3>2. (l.cash + cost - f.fee) + (a + 0) = n + (b + (cost - f.fee))
      <4> DEFINE x == l.cash
                 v == f.fee
      <4>1. /\ x \in Int /\ a \in Int /\ n \in Int /\ b \in Int /\ cost \in Int
            /\ v \in Int /\ x + a = n + b
        BY <1>2, <1>3, <2>4, <2>5
      <4> HIDE DEF x, v
      <4>2. (x + cost - v) + (a + 0) = n + (b + (cost - v)) BY ONLY <4>1
      <4> QED BY <4>2 DEF x, v
    <3>3. m.cash + c = n + d BY <2>5, <3>1, <3>2
    <3> QED BY <3>3 DEF n, c, d
  <2> QED BY <1>2, <2>6, <2>7
<1>8. ASSUME NEW i \in Instruments
      PROVE  m.held[i] + Summed(more, Outgoing(i)) = Summed(more, Incoming(i))
  <2>1. Incoming(i) \in Weights /\ Outgoing(i) \in Weights BY DEF Weights
  <2>2. /\ Incoming(i)[f] = IF f.side = "buy" /\ f.instrument = i THEN f.quantity ELSE 0
        /\ Outgoing(i)[f] = IF f.side = "sell" /\ f.instrument = i THEN f.quantity ELSE 0
    BY DEF Incoming, Outgoing
  <2>3. l.held[i] + Summed(fills, Outgoing(i)) = Summed(fills, Incoming(i)) BY DEF Balanced
  <2>4. m.held[i] = IF i # f.instrument THEN l.held[i]
                    ELSE IF f.side = "buy" THEN l.held[i] + f.quantity ELSE l.held[i] - f.quantity
    BY <1>2, <1>3 DEF Applied
  <2>5. l.held[i] \in Nat BY <1>3
  <2> DEFINE a == Summed(fills, Outgoing(i))
             b == Summed(fills, Incoming(i))
             c == Summed(more, Outgoing(i))
             d == Summed(more, Incoming(i))
  <2>6. /\ a \in Int /\ b \in Int /\ c = a + Outgoing(i)[f] /\ d = b + Incoming(i)[f]
        /\ l.held[i] + a = b
    BY <1>4, <2>1, <2>3
  <2> HIDE DEF a, b, c, d, cost, more, N
  <2> DEFINE x == Outgoing(i)[f]
             y == Incoming(i)[f]
             h == l.held[i]
             g == m.held[i]
  <2>7. x \in Nat /\ y \in Nat /\ h \in Nat /\ g = h + y - x BY <1>2, <2>2, <2>4, <2>5
  <2>8. c = a + x /\ d = b + y /\ a \in Int /\ b \in Int /\ h + a = b BY <2>6
  <2> HIDE DEF x, y, h, g
  <2>9. g + c = d BY ONLY <2>7, <2>8
  <2> QED BY <2>9 DEF c, d, g
<1>9. /\ m.fills = {more[n].id : n \in DOMAIN more}
      /\ IsFiniteSet(m.fills) /\ Cardinality(m.fills) = Len(more)
  <2>1. m.fills = l.fills \cup {f.id} /\ f.id \notin l.fills BY DEF Applied, Bookable
  <2>2. /\ l.fills = {fills[n].id : n \in 1..N}
        /\ IsFiniteSet(l.fills) /\ Cardinality(l.fills) = N
    BY <1>1 DEF Balanced
  <2>3. m.fills = {more[n].id : n \in 1..(N + 1)}
    <3>1. \A n \in 1..(N + 1) : n \in 1..N \/ n = N + 1 BY <1>1
    <3>2. N + 1 \in 1..(N + 1) /\ 1..N \subseteq 1..(N + 1) BY <1>1
    <3> HIDE DEF more, N
    <3>3. ASSUME NEW x \in m.fills PROVE \E n \in 1..(N + 1) : x = more[n].id
      BY <1>1, <2>1, <2>2, <3>2
    <3>4. ASSUME NEW n \in 1..(N + 1) PROVE more[n].id \in m.fills BY <1>1, <2>1, <2>2, <3>1
    <3> QED BY <3>3, <3>4
  <2>4. IsFiniteSet(m.fills) /\ Cardinality(m.fills) = N + 1
    <3> DEFINE S == l.fills
    <3>1. IsFiniteSet(S) /\ Cardinality(S) = N /\ f.id \notin S /\ m.fills = S \cup {f.id}
      BY <2>1, <2>2
    <3> HIDE DEF S
    <3>2. IsFiniteSet(S \cup {f.id}) /\ Cardinality(S \cup {f.id}) = Cardinality(S) + 1
      BY <3>1, FS_AddElement
    <3> QED BY <3>1, <3>2
  <2> QED BY <1>1, <2>3, <2>4
<1>10. Restorable(m)
  <2>1. Restorable(l) /\ f.price > 0 BY DEF Balanced, Bookable
  <2> QED BY <2>1, FillRestorable
<1> QED BY <1>6, <1>7, <1>8, <1>9, <1>10 DEF Balanced

\* So it does for the orders, when its order grows by it.
LEMMA FillAccounted ==
  ASSUME NEW fills \in Seq(FillType), NEW orders, orders \in [DOMAIN orders -> OrderRecord],
         Accounted(orders, fills), NEW o \in DOMAIN orders, o \in Orders,
         NEW f \in FillType, f.order = o, NEW k, Grew(orders[o], k, f),
         NEW next, next = [orders EXCEPT ![o] = k]
  PROVE  Accounted(next, Append(fills, f))
<1> DEFINE more == Append(fills, f)
<1>1. DOMAIN next = DOMAIN orders /\ next[o] = k /\ \A q \in DOMAIN orders : q # o => next[q] = orders[q]
  OBVIOUS
<1>2. \A w \in Weights : /\ Summed(fills, w) \in Int /\ w[f] \in Int
                         /\ Summed(more, w) = Summed(fills, w) + w[f]
  BY SummedMore
<1> HIDE DEF more
<1> SUFFICES ASSUME NEW q \in Orders
             PROVE  /\ Summed(more, Filling(q)) = IF q \in DOMAIN next THEN next[q].filled ELSE 0
                    /\ Summed(more, Paying(q)) = IF q \in DOMAIN next THEN next[q].spent ELSE 0
  BY DEF Accounted, more
<1>3. /\ Filling(q) \in Weights /\ Paying(q) \in Weights
      /\ Filling(q)[f] = (IF o = q THEN f.quantity ELSE 0)
      /\ Paying(q)[f] = (IF o = q THEN Money(f) ELSE 0)
  BY DEF Weights, Filling, Paying
<1>4. /\ Summed(fills, Filling(q)) = IF q \in DOMAIN orders THEN orders[q].filled ELSE 0
      /\ Summed(fills, Paying(q)) = IF q \in DOMAIN orders THEN orders[q].spent ELSE 0
  BY DEF Accounted
<1>5. k.filled = orders[o].filled + f.quantity /\ k.spent = orders[o].spent + Money(f) BY DEF Grew
<1>6. /\ Summed(fills, Filling(q)) \in Int /\ Summed(fills, Paying(q)) \in Int
      /\ Summed(more, Filling(q)) = Summed(fills, Filling(q)) + Filling(q)[f]
      /\ Summed(more, Paying(q)) = Summed(fills, Paying(q)) + Paying(q)[f]
  BY <1>2, <1>3
<1>7. CASE q = o BY <1>1, <1>3, <1>4, <1>5, <1>6, <1>7
<1>8. CASE q # o
  <2>1. Summed(more, Filling(q)) = Summed(fills, Filling(q))
        /\ Summed(more, Paying(q)) = Summed(fills, Paying(q))
    BY <1>3, <1>6, <1>8
  <2> QED BY <1>1, <1>4, <1>8, <2>1
<1> QED BY <1>7, <1>8

\* Nothing is worth nothing.
LEMMA NothingWorth ==
  ASSUME NEW zero, zero = [i \in Instruments |-> 0]
  PROVE  Worth(zero, zero)[Instruments] = 0
<1> DEFINE N == Cardinality(Instruments)
           Sub(k) == {t \in SUBSET Instruments : Cardinality(t) <= k}
           h == [t \in SUBSET Instruments |-> 0]
           w == Worth(zero, zero)
           S == {k \in Nat : \A t \in Sub(k) : w[t] = 0}
<1>1. N \in Nat /\ \A t \in SUBSET Instruments : IsFiniteSet(t) /\ Cardinality(t) \in Nat
                                                  /\ Cardinality(t) <= N
  BY LedgerAssumption, FS_Subset, FS_CardinalityType
<1>2. ASSUME NEW t \in SUBSET Instruments, t # {}
      PROVE  /\ zero[Choice(t)] * zero[Choice(t)] = 0
             /\ t \ {Choice(t)} \in SUBSET Instruments
             /\ Cardinality(t \ {Choice(t)}) = Cardinality(t) - 1
  <2>1. Choice(t) \in t BY <1>2 DEF Choice
  <2>2. Cardinality(t \ {Choice(t)}) = Cardinality(t) - 1 BY <2>1, <1>1, FS_RemoveElement
  <2>3. zero[Choice(t)] = 0 BY <2>1
  <2> QED BY <2>2, <2>3
<1>3. Worths(zero, zero, h)
  <2>1. ASSUME NEW t \in SUBSET Instruments
        PROVE  0 = IF t = {} THEN 0 ELSE zero[Choice(t)] * zero[Choice(t)] + h[t \ {Choice(t)}]
    <3>1. t # {} => h[t \ {Choice(t)}] = 0 /\ zero[Choice(t)] * zero[Choice(t)] = 0 BY <1>2
    <3> HIDE DEF h
    <3> QED BY <3>1
  <2> QED BY <2>1 DEF Worths
<1>4. Worths(zero, zero, w) BY <1>3 DEF Worth
<1> HIDE DEF h, w
<1>5. \A t \in SUBSET Instruments :
         w[t] = IF t = {} THEN 0 ELSE zero[Choice(t)] * zero[Choice(t)] + w[t \ {Choice(t)}]
  BY <1>4 DEF Worths
<1>6. 0 \in S
  <2>1. \A t \in Sub(0) : t = {} BY <1>1, FS_EmptySet
  <2> QED BY <1>5, <2>1
<1>7. ASSUME NEW k \in 0..(N - 1), k \in S PROVE k + 1 \in S
  <2> SUFFICES ASSUME NEW t \in Sub(k + 1) PROVE w[t] = 0 OBVIOUS
  <2>5. CASE t = {} BY <1>5, <2>5
  <2>6. CASE t # {}
    <3>1. /\ Cardinality(t \ {Choice(t)}) = Cardinality(t) - 1
          /\ t \ {Choice(t)} \in SUBSET Instruments
          /\ zero[Choice(t)] * zero[Choice(t)] = 0
      BY <1>2, <2>6
    <3>2. Cardinality(t) \in Nat /\ Cardinality(t) <= k + 1 BY <1>1
    <3>3. t \ {Choice(t)} \in Sub(k) BY <3>1, <3>2
    <3>4. w[t \ {Choice(t)}] = 0 BY <3>3, <1>7
    <3> DEFINE u == zero[Choice(t)] * zero[Choice(t)]
               v == w[t \ {Choice(t)}]
    <3>5. w[t] = u + v /\ u = 0 /\ v = 0 BY <1>5, <2>6, <3>1, <3>4
    <3> HIDE DEF u, v
    <3> QED BY <3>5
  <2> QED BY <2>5, <2>6
<1>8. N \in S
  <2> HIDE DEF S
  <2> QED BY <1>1, <1>6, <1>7, UpTo
<1>9. Instruments \in Sub(N) BY <1>1
<1> QED BY <1>8, <1>9 DEF w

\* A fill that a kernel books.
LEMMA FillPays ==
  ASSUME NEW s, Typed(s), NEW t, NEW o \in DOMAIN s.orders, NEW r, r = s.orders[o], NEW k,
         NEW f \in FillType, f.order = o, Bookable(s.ledger, f), SameOrder(r, k), Grew(r, k, f),
         Affords(r, f), r.intent.notional = 0 => r.filled + f.quantity <= r.intent.quantity,
         t.orders = [s.orders EXCEPT ![o] = k], t.fills = Append(s.fills, f),
         Applied(s.ledger, f, t.ledger)
  PROVE  Pays(s, t)
<1> SUFFICES ASSUME Solvent(s) PROVE Solvent(t) BY DEF Pays
<1>1. /\ s.fills \in Seq(FillType) /\ s.ledger \in LedgerType /\ o \in Orders
      /\ s.orders \in [DOMAIN s.orders -> OrderRecord] /\ r \in OrderRecord
  BY TypedParts
<1>2. /\ Balanced(s.fills, s.ledger) /\ Accounted(s.orders, s.fills)
      /\ \A q \in DOMAIN s.orders : Sized(s.orders[q])
  BY DEF Solvent
<1>3. Balanced(t.fills, t.ledger) BY <1>1, <1>2, FillBalances
<1>4. Accounted(t.orders, t.fills) BY <1>1, <1>2, FillAccounted
<1>5. Sized(k)
  <2>1. /\ r.intent \in Intents /\ r.filled \in Nat /\ r.spent \in Nat /\ r.remaining \in Nat
    BY <1>1, RecordParts
  <2>2. r.intent.notional \in Nat /\ r.intent.quantity \in Nat BY <2>1, IntentParts
  <2>3. /\ k.filled = r.filled + f.quantity /\ k.spent = r.spent + Money(f)
        /\ k.remaining = (IF r.intent.notional = 0 THEN 0 ELSE r.remaining - Money(f))
        /\ k.intent = r.intent
    BY DEF Grew, SameOrder
  <2>4. Money(f) \in Nat
    <3>1. f.quantity \in Nat /\ f.price \in Nat BY DEF FillType
    <3> QED BY <3>1, Product DEF Money
  <2>5. Sized(r) BY <1>2
  <2>6. r.intent.notional > 0 => k.remaining + k.spent = r.intent.notional
    <3> SUFFICES ASSUME r.intent.notional > 0 PROVE k.remaining + k.spent = r.intent.notional
      OBVIOUS
    <3>1. k.remaining = r.remaining - Money(f) /\ r.remaining + r.spent = r.intent.notional
      BY <2>2, <2>3, <2>5 DEF Sized
    <3> QED BY <2>1, <2>3, <2>4, <3>1
  <2> QED BY <2>3, <2>6 DEF Sized
<1>6. \A q \in DOMAIN t.orders : Sized(t.orders[q]) BY <1>2, <1>5
<1> QED BY <1>3, <1>4, <1>6 DEF Solvent

\* An order that keeps its size and its fills leaves the books as they are.
LEMMA OrderPays ==
  ASSUME NEW s, NEW t, NEW o \in DOMAIN s.orders, NEW k, SameSize(s.orders[o], k),
         t.orders = [s.orders EXCEPT ![o] = k], t.fills = s.fills, t.ledger = s.ledger
  PROVE  Pays(s, t)
<1>1. /\ DOMAIN t.orders = DOMAIN s.orders
      /\ \A q \in DOMAIN s.orders : SameSize(s.orders[q], t.orders[q])
  BY DEF SameSize
<1> QED BY <1>1 DEF Pays, Solvent, Accounted, Sized, SameSize

\* A new order has no fills.
LEMMA SubmittedPays ==
  ASSUME NEW s, NEW t, NEW o \in Orders, o \notin DOMAIN s.orders,
         DOMAIN t.orders = DOMAIN s.orders \cup {o}, NEW k, t.orders[o] = k,
         \A q \in DOMAIN s.orders : t.orders[q] = s.orders[q],
         k.filled = 0, k.spent = 0, k.remaining = k.intent.notional,
         k.intent.quantity \in Nat, k.intent.notional \in Nat,
         t.fills = s.fills, t.ledger = s.ledger
  PROVE  Pays(s, t)
<1> SUFFICES ASSUME Solvent(s) PROVE Solvent(t) BY DEF Pays
<1>1. Accounted(t.orders, t.fills) BY DEF Solvent, Accounted
<1>2. Sized(k) BY DEF Sized
<1> QED BY <1>1, <1>2 DEF Solvent

\* What changes nothing that the books are made of.
LEMMA SamePays ==
  ASSUME NEW s, NEW t, t.orders = s.orders, t.fills = s.fills, t.ledger = s.ledger
  PROVE  Pays(s, t)
BY DEF Pays, Solvent

\* A mark to market.
LEMMA MarkPays ==
  ASSUME NEW s, Typed(s), NEW t, t.orders = s.orders, t.fills = s.fills,
         t.ledger = Mark(s.ledger, s.marks)
  PROVE  Pays(s, t)
<1> SUFFICES ASSUME Solvent(s) PROVE Solvent(t) BY DEF Pays
<1> DEFINE l == s.ledger
           m == t.ledger
           marks == s.marks
<1>1. l \in LedgerType /\ marks \in [Instruments -> Nat] BY TypedParts
<1>2. Balanced(s.fills, l) BY DEF Solvent
<1> HIDE DEF l, m, marks
<1>3. /\ m \in LedgerType /\ m.cash = l.cash /\ m.held = l.held /\ m.fills = l.fills
      /\ m.prices = [i \in Instruments |-> IF marks[i] = 0 THEN l.prices[i] ELSE marks[i]]
      /\ m.equity = Valuation(m.cash, m.held, m.prices)
      /\ m.peak = Larger(l.peak, m.equity)
  BY <1>1, MarkFields DEF l, m, marks
<1>4. Restorable(m)
  <2>1. Restorable(l) /\ l.equity \in Int /\ l.peak \in Int /\ m.equity \in Int
    BY <1>1, <1>2, <1>3, LedgerParts DEF Balanced
  <2>2. \A i \in Positions(m) : m.prices[i] > 0 BY <1>1, <1>3, <2>1 DEF Restorable, Positions
  <2> DEFINE n == StartingCash * Scale
  <2>3. n \in Nat /\ l.peak >= Larger(n, l.equity)
    BY <2>1, Product, ScaleAssumption, LedgerAssumption DEF Restorable
  <2> HIDE DEF n
  <2>4. m.peak >= Larger(n, m.equity) BY <1>3, <2>1, <2>3 DEF Larger
  <2> QED BY <1>3, <2>2, <2>4 DEF Restorable, n
<1>5. Balanced(s.fills, m) BY <1>2, <1>3, <1>4 DEF Balanced
<1> QED BY <1>5 DEF Solvent, m

\* One after the other.
LEMMA PaysThen ==
  ASSUME NEW s, NEW t, NEW u, Pays(s, t), Pays(t, u)
  PROVE  Pays(s, u)
BY DEF Pays

\* A session starts with its cash and no fills.
LEMMA BlankSolvent == Solvent(BlankState)
<1> DEFINE s == BlankState
<1>1. s.fills = <<>> /\ s.orders = <<>> /\ s.ledger = EmptyLedger BY DEF BlankState
<1>2. DOMAIN s.orders = {} /\ DOMAIN s.fills = {} /\ Len(s.fills) = 0 BY <1>1
<1>3. \A w : Summed(s.fills, w) = 0
  <2>1. \A w : [n \in DOMAIN s.fills |-> w[s.fills[n]]] = << >> BY <1>2
  <2>2. Added(<< >>) = 0 BY WellOrders, AddedFolds, Sums!FoldEmpty
  <2> QED BY <2>1, <2>2 DEF Summed
<1>4. StartingCash * Scale \in Nat BY Product, ScaleAssumption, LedgerAssumption
<1> DEFINE l == s.ledger
<1>5. /\ l.cash = StartingCash * Scale /\ l.held = [i \in Instruments |-> 0]
      /\ l.prices = [i \in Instruments |-> 0] /\ l.fills = {} /\ l.equity = StartingCash * Scale
      /\ l.peak = StartingCash * Scale
  BY <1>1 DEF EmptyLedger
<1> HIDE DEF l
<1>6. Restorable(l)
  <2>1. Positions(l) = {} BY <1>5 DEF Positions
  <2>2. Valuation(l.cash, l.held, l.prices) = l.cash
    <3> DEFINE zero == [i \in Instruments |-> 0]
    <3>1. Worth(zero, zero)[Instruments] = 0 BY NothingWorth
    <3> QED BY <1>4, <1>5, <3>1, ValuationIs, ScaleAssumption
  <2> QED BY <1>4, <1>5, <2>1, <2>2 DEF Restorable, Larger
<1>7. Balanced(s.fills, l)
  <2>1. l.fills = {s.fills[n].id : n \in DOMAIN s.fills} BY <1>2, <1>5
  <2>2. IsFiniteSet(l.fills) /\ Cardinality(l.fills) = 0 BY <1>5, FS_EmptySet
  <2>3. l.cash >= 0 /\ l.cash + 0 = StartingCash * Scale + 0 BY <1>4, <1>5
  <2>4. \A i \in Instruments : l.held[i] + 0 = 0 BY <1>5
  <2> QED BY <1>2, <1>3, <1>6, <2>1, <2>2, <2>3, <2>4 DEF Balanced
<1>8. Accounted(s.orders, s.fills) BY <1>2, <1>3 DEF Accounted
<1> QED BY <1>2, <1>7, <1>8 DEF Solvent, l

------------------------------
(* What the rows of a market event say of liquidity *)

\* The rows with a fill.
LEMMA FillRows ==
  ASSUME NEW x \in RowType, x.kind = "fill"
  PROVE  /\ x.order \in Orders /\ x.fill \in FillType /\ x.fill.quantity \in Nat
         /\ x.from \in Logged!Statuses /\ x.filled \in Nat /\ x.spent \in Nat
         /\ x.external \in BOOLEAN
BY DEF RowType, FillType

\* It is a number.
LEMMA TakingIsNat == \A i : Taking(i) \in [RowType -> Nat]
<1> SUFFICES ASSUME NEW i PROVE Taking(i) \in [RowType -> Nat] OBVIOUS
<1>1. \A y \in RowType : y.kind = "fill" => y.fill.quantity \in Nat BY FillRows
<1> HIDE DEF RowType
<1> QED BY <1>1 DEF Taking

\* What the rows of an instrument take is a number.
LEMMA TakenIsInt ==
  ASSUME NEW rows \in Seq(RowType), NEW i
  PROVE  Taken(rows, i) \in Int
<1> DEFINE numbers == [n \in DOMAIN rows |-> Taking(i)[rows[n]]]
<1> HIDE DEF RowType
<1>1. numbers \in Seq(Int) BY TakingIsNat
<1> QED BY <1>1, AddedIsInt DEF Taken

\* One row more.
LEMMA TakenMore ==
  ASSUME NEW rows \in Seq(RowType), NEW x \in RowType, NEW i
  PROVE  /\ Taken(rows, i) \in Int /\ Taking(i)[x] \in Nat
         /\ Taken(Append(rows, x), i) = Taken(rows, i) + Taking(i)[x]
<1> DEFINE numbers == [n \in DOMAIN rows |-> Taking(i)[rows[n]]]
           more == [n \in DOMAIN Append(rows, x) |-> Taking(i)[Append(rows, x)[n]]]
<1>1. Taking(i) \in [RowType -> Nat] BY TakingIsNat
<1> HIDE DEF RowType
<1>2. numbers \in Seq(Int) /\ Taking(i)[x] \in Nat BY <1>1
<1>3. more = Append(numbers, Taking(i)[x]) BY <1>1, <1>2
<1> HIDE DEF numbers, more
<1>4. Added(numbers) \in Int /\ Added(more) = Added(numbers) + Taking(i)[x]
  <2>1. Taking(i)[x] \in Int BY <1>2
  <2> QED BY <1>2, <1>3, <2>1, AddedIsInt, AddedMore
<1> QED BY <1>2, <1>4 DEF Taken, numbers, more

\* No rows take nothing.
LEMMA TakenNone == \A i : Taken(<<>>, i) = 0
BY AddedFolds, WellOrders, Sums!FoldEmpty DEF Taken

\* A row that is no fill takes nothing.
LEMMA TakenSame ==
  ASSUME NEW rows \in Seq(RowType), NEW x \in RowType, x.kind # "fill", NEW i
  PROVE  Taken(Append(rows, x), i) = Taken(rows, i)
<1>1. Taking(i)[x] = 0
  <2> HIDE DEF RowType
  <2> QED BY DEF Taking
<1>2. Taken(rows, i) \in Int /\ Taken(Append(rows, x), i) = Taken(rows, i) + Taking(i)[x]
  BY TakenMore
<1> QED BY <1>1, <1>2

\* One after the other.
LEMMA DrawsThen ==
  ASSUME NEW rows, NEW more, NEW most, NEW l, NEW m, NEW n, NEW i,
         Draws(rows, l, more, m, i), Draws(more, m, most, n, i)
  PROVE  Draws(rows, l, most, n, i)
BY DEF Draws

\* The turn of an order takes the quantity of its fill.
LEMMA TurnDraws ==
  ASSUME NEW a, AccTyped(a), NEW b, NEW i \in Instruments, NEW o \in DOMAIN a.s.orders,
         a.s.orders[o].intent.instrument = i, NEW at \in Times, Turned(a, b, o, at)
  PROVE  Draws(a.rows, a.liquidity, b.rows, b.liquidity, i)
<1> DEFINE r == a.s.orders[o]
           k == b.s.orders[o]
<1>1. /\ a.rows \in Seq(RowType) /\ a.liquidity \in Int /\ r \in OrderRecord /\ o \in Orders
      /\ a.s.orders \in [DOMAIN a.s.orders -> OrderRecord]
  BY AccParts
<1>2. /\ AccTyped(b) /\ b.s.orders = [a.s.orders EXCEPT ![o] = k]
      /\ \/ Still(a, b)
         \/ Expires(a, b, o, r, k, at)
         \/ Latches(a, b, o, r, k, at)
         \/ \E f \in FillType : Deals(a, b, o, r, k, f, at)
  BY DEF Turned
<1>3. r.status \in Logged!Statuses /\ k \in OrderRecord /\ k.status \in Logged!Statuses
      /\ "expired" \in Logged!Statuses
  <2>1. o \in DOMAIN b.s.orders BY <1>1, <1>2
  <2>2. k \in OrderRecord BY <1>2, <2>1, AccParts
  <2>3. "expired" \in Logged!Statuses BY DEF Logged!Statuses, Logged!Closed
  <2> QED BY <1>1, <2>2, <2>3, RecordParts
<1>3a. r.intent.instrument = i OBVIOUS
<1> HIDE DEF r, k
<1>4. /\ StopRow(o, at) \in RowType /\ StopRow(o, at).kind = "stop_triggered"
      /\ \A from, to \in Logged!Statuses : /\ TransitionRow(o, from, to, at) \in RowType
                                           /\ TransitionRow(o, from, to, at).kind = "transition"
  <2>1. \A from, to \in Logged!Statuses : TransitionRow(o, from, to, at) \in RowType
                                          /\ StopRow(o, at) \in RowType
    BY <1>1, RowsTyped
  <2> QED BY <1>3, <2>1 DEF StopRow, TransitionRow
<1>5. CASE Still(a, b) BY <1>5 DEF Still, Draws
<1>6. CASE Expires(a, b, o, r, k, at)
  <2> DEFINE x == TransitionRow(o, r.status, "expired", at)
  <2>1. x \in RowType /\ x.kind # "fill" /\ b.rows = Append(a.rows, x) /\ b.liquidity = a.liquidity
    BY <1>3, <1>4, <1>6 DEF Expires
  <2> HIDE DEF x
  <2>2. \A j : Taken(b.rows, j) = Taken(a.rows, j) BY <1>1, <2>1, TakenSame
  <2> QED BY <2>1, <2>2 DEF Draws
<1>7. CASE Latches(a, b, o, r, k, at)
  <2> DEFINE x == StopRow(o, at)
  <2>1. x \in RowType /\ x.kind # "fill" /\ b.rows = Append(a.rows, x) /\ b.liquidity = a.liquidity
    BY <1>4, <1>7 DEF Latches
  <2> HIDE DEF x
  <2>2. \A j : Taken(b.rows, j) = Taken(a.rows, j) BY <1>1, <2>1, TakenSame
  <2> QED BY <2>1, <2>2 DEF Draws
<1>8. ASSUME NEW f \in FillType, Deals(a, b, o, r, k, f, at)
      PROVE  Draws(a.rows, a.liquidity, b.rows, b.liquidity, i)
  <2> DEFINE x == TransitionRow(o, r.status, k.status, at)
             y == FillRow(f, r.status, k.status, at, k)
             z == StopRow(o, at)
  <2>1. /\ f.order = o /\ f.instrument = i /\ f.quantity \in Nat /\ f.quantity <= a.liquidity
        /\ b.liquidity = a.liquidity - f.quantity
    BY <1>8, <1>3a DEF Deals, Sold, FillType
  <2>2. PICK pre \in {a.rows, Append(a.rows, z)} : b.rows = pre \o <<x, y>> BY <1>8 DEF Deals
  <2>3. /\ x \in RowType /\ x.kind # "fill" /\ y \in RowType /\ y.kind = "fill" /\ y.fill = f
        /\ z \in RowType /\ z.kind # "fill"
    <3>1. y \in RowType BY <1>1, <1>3, <2>1, RowsTyped
    <3>2. y.kind = "fill" /\ y.fill = f BY DEF FillRow
    <3> QED BY <1>3, <1>4, <3>1, <3>2
  <2> HIDE DEF x, y, z
  <2>4. pre \in Seq(RowType) /\ \A j : Taken(pre, j) = Taken(a.rows, j)
    <3>1. \A j : Taken(Append(a.rows, z), j) = Taken(a.rows, j) BY <1>1, <2>3, TakenSame
    <3> HIDE DEF RowType
    <3>2. Append(a.rows, z) \in Seq(RowType) BY <1>1, <2>3
    <3>3. CASE pre = a.rows BY <1>1, <3>3
    <3>4. CASE pre = Append(a.rows, z) BY <3>1, <3>2, <3>4
    <3> QED BY <2>2, <3>3, <3>4
  <2> HIDE DEF RowType
  <2>5. Append(pre, x) \in Seq(RowType) /\ b.rows = Append(Append(pre, x), y) BY <2>2, <2>3, <2>4
  <2>6. ASSUME NEW j
        PROVE  /\ Taken(a.rows, j) \in Int /\ Taken(b.rows, j) = Taken(a.rows, j) + Taking(j)[y]
    <3>1. Taken(pre, j) \in Int /\ Taken(Append(pre, x), j) = Taken(pre, j)
      BY <2>3, <2>4, TakenMore, TakenSame
    <3>2. Taken(Append(Append(pre, x), y), j) = Taken(Append(pre, x), j) + Taking(j)[y]
      BY <2>3, <2>5, TakenMore
    <3> QED BY <2>4, <2>5, <3>1, <3>2
  <2>7. Taking(i)[y] = f.quantity /\ \A j : j # i => Taking(j)[y] = 0 BY <2>1, <2>3 DEF Taking
  <2>8. \A j \in Instruments \ {i} : Taken(b.rows, j) = Taken(a.rows, j)
    <3> SUFFICES ASSUME NEW j \in Instruments \ {i} PROVE Taken(b.rows, j) = Taken(a.rows, j)
      OBVIOUS
    <3>1. Taking(j)[y] = 0 BY <2>7
    <3> QED BY <2>6, <3>1
  <2>9. a.liquidity \in Nat => b.liquidity \in Nat
                               /\ Taken(b.rows, i) + b.liquidity = Taken(a.rows, i) + a.liquidity
    BY <1>1, <2>1, <2>6, <2>7
  <2> QED BY <2>8, <2>9 DEF Draws
<1> QED BY <1>2, <1>5, <1>6, <1>7, <1>8

------------------------------
(* The sweep of an instrument *)

\* No rows tell of an instant.
LEMMA TellsNothing ==
  ASSUME NEW rows \in Seq(RowType), NEW at
  PROVE  Tells(rows, rows, at)
<1>1. << >> \in Seq(RowType) /\ rows = rows \o << >> /\ 1..Len(<< >>) = {} OBVIOUS
<1> QED BY <1>1 DEF Tells

\* One row of an order may be told.
LEMMA TellsOne ==
  ASSUME NEW rows \in Seq(RowType), NEW x \in RowType, NEW at, x.at = at,
         x.kind \in {"transition", "fill", "stop_triggered"}
  PROVE  Tells(rows, Append(rows, x), at)
<1>1. <<x>> \in Seq(RowType) /\ Append(rows, x) = rows \o <<x>> /\ Len(<<x>>) = 1 OBVIOUS
<1>2. \A n \in 1..1 : <<x>>[n] = x OBVIOUS
<1> QED BY <1>1, <1>2 DEF Tells

\* What is told twice is told together.
LEMMA TellsThen ==
  ASSUME NEW rows \in Seq(RowType), NEW more, NEW most, NEW at,
         Tells(rows, more, at), Tells(more, most, at)
  PROVE  Tells(rows, most, at)
<1>1. PICK p \in Seq(RowType) :
         /\ more = rows \o p
         /\ \A n \in 1..Len(p) : p[n].at = at
                                 /\ p[n].kind \in {"transition", "fill", "stop_triggered"}
  BY DEF Tells
<1>2. PICK q \in Seq(RowType) :
         /\ most = more \o q
         /\ \A n \in 1..Len(q) : q[n].at = at
                                 /\ q[n].kind \in {"transition", "fill", "stop_triggered"}
  BY DEF Tells
<1> HIDE DEF RowType
<1>3. p \o q \in Seq(RowType) /\ Len(p \o q) = Len(p) + Len(q) OBVIOUS
<1>4. most = rows \o (p \o q)
  <2>1. rows \in Seq(RowType) /\ p \in Seq(RowType) /\ q \in Seq(RowType) OBVIOUS
  <2>2. (rows \o p) \o q = rows \o (p \o q) BY ONLY <2>1, ConcatAssociative
  <2> QED BY ONLY Zenon, <1>1, <1>2, <2>2
<1>5. ASSUME NEW n \in 1..Len(p \o q)
      PROVE  (p \o q)[n].at = at
             /\ (p \o q)[n].kind \in {"transition", "fill", "stop_triggered"}
  <2>1. CASE n <= Len(p)
    <3>1. n \in 1..Len(p) /\ (p \o q)[n] = p[n] BY <2>1, <1>3
    <3> QED BY <3>1, <1>1
  <2>2. CASE ~ (n <= Len(p))
    <3>1. n - Len(p) \in 1..Len(q) /\ (p \o q)[n] = q[n - Len(p)] BY <2>2, <1>3
    <3> QED BY <3>1, <1>2
  <2> QED BY <2>1, <2>2
<1> QED BY <1>3, <1>4, <1>5 DEF Tells

\* A sweep over no order.
LEMMA SweepsNothing ==
  ASSUME NEW a, AccTyped(a), NEW i, NEW at
  PROVE  Sweeps(a, a, i, at)
<1>1. a.rows \in Seq(RowType) /\ a.s.fills \in Seq(FillType) BY TypedParts DEF AccTyped
<1>2. Aside(a.s, a.s) /\ OrdersMarch(a.s.orders, a.s.orders, a.s.active[i])
  BY DEF Aside, OrdersMarch, SameOrder
<1>3. Extends(a.s, a.s) BY <1>1, ExtendsSame
<1>4. Tells(a.rows, a.rows, at) BY <1>1, TellsNothing
<1>5. Pays(a.s, a.s) BY SamePays
<1> QED BY <1>2, <1>3, <1>4, <1>5 DEF Sweeps

\* Two pieces of a sweep are a sweep.
LEMMA SweepsThen ==
  ASSUME NEW a, AccTyped(a), NEW b, NEW c, NEW i, NEW at, Sweeps(a, b, i, at),
         Sweeps(b, c, i, at)
  PROVE  Sweeps(a, c, i, at)
<1>1. /\ AccTyped(b) /\ AccTyped(c) /\ Aside(a.s, b.s) /\ Aside(b.s, c.s)
      /\ OrdersMarch(a.s.orders, b.s.orders, a.s.active[i])
      /\ OrdersMarch(b.s.orders, c.s.orders, b.s.active[i])
      /\ Extends(a.s, b.s) /\ Extends(b.s, c.s)
      /\ Positions(b.s.ledger) \subseteq Positions(a.s.ledger) \cup {i}
      /\ Positions(c.s.ledger) \subseteq Positions(b.s.ledger) \cup {i}
      /\ Tells(a.rows, b.rows, at) /\ Tells(b.rows, c.rows, at)
      /\ Pays(a.s, b.s) /\ Pays(b.s, c.s)
  BY DEF Sweeps
<1>2. Aside(a.s, c.s) /\ b.s.active = a.s.active BY <1>1 DEF Aside
<1>3. OrdersMarch(a.s.orders, c.s.orders, a.s.active[i]) BY <1>1, <1>2 DEF OrdersMarch, SameOrder
<1>4. Extends(a.s, c.s)
  <2>1. a.s.fills \in Seq(FillType) /\ b.s.fills \in Seq(FillType) /\ c.s.fills \in Seq(FillType)
    BY <1>1, TypedParts DEF AccTyped
  <2> QED BY <1>1, <2>1, ExtendsThen
<1>5. Tells(a.rows, c.rows, at)
  <2>1. a.rows \in Seq(RowType) BY DEF AccTyped
  <2> QED BY <1>1, <2>1, TellsThen
<1>6. Pays(a.s, c.s) BY <1>1, PaysThen
<1> QED BY <1>1, <1>2, <1>3, <1>4, <1>5, <1>6 DEF Sweeps

\* The turn of an order keeps the books in balance.
LEMMA TurnPays ==
  ASSUME NEW a, AccTyped(a), NEW b, NEW o \in DOMAIN a.s.orders, NEW at \in Times,
         Turned(a, b, o, at)
  PROVE  Pays(a.s, b.s)
<1> DEFINE s == a.s
           t == b.s
           r == s.orders[o]
           k == t.orders[o]
<1>1. /\ Typed(s) /\ r \in OrderRecord /\ s.ledger \in LedgerType
      /\ t.orders = [s.orders EXCEPT ![o] = k] /\ SameOrder(r, k)
      /\ \/ Still(a, b)
         \/ Expires(a, b, o, r, k, at)
         \/ Latches(a, b, o, r, k, at)
         \/ \E f \in FillType : Deals(a, b, o, r, k, f, at)
  BY AccParts DEF Turned, AccTyped
<1>2. CASE Still(a, b)
  <2>1. t = s BY <1>2 DEF Still
  <2> QED BY <2>1, SamePays
<1>3. CASE Expires(a, b, o, r, k, at) \/ Latches(a, b, o, r, k, at)
  <2>1. SameMoney(s, t) /\ SameSize(r, k) BY <1>1, <1>3 DEF Expires, Latches, SameOrder, SameSize
  <2> HIDE DEF k
  <2>2. t.fills = s.fills /\ t.ledger = s.ledger BY <2>1 DEF SameMoney
  <2> QED BY <1>1, <2>1, <2>2, OrderPays
<1>4. ASSUME NEW f \in FillType, Deals(a, b, o, r, k, f, at) PROVE Pays(s, t)
  <2> HIDE DEF s, t, r, k
  <2>1. Sold(s, o, r, f, at) /\ Paid(s, t, f) /\ Grew(r, k, f) BY <1>4 DEF Deals, s, t
  <2>2. /\ f.order = o /\ f.price > 0 /\ f.instrument = r.intent.instrument
        /\ f.side = r.intent.side /\ f.side \in {"buy", "sell"}
        /\ f.quantity \in Nat /\ f.instrument \in Instruments
        /\ Covered(s.ledger, r.intent, f) /\ ~ FillRefused(s.ledger, f) /\ Affords(r, f)
        /\ r.intent.notional = 0 => r.filled + f.quantity <= r.intent.quantity
    BY <2>1 DEF Sold, FillType
  <2>3. Bookable(s.ledger, f) BY <2>2 DEF Bookable, Covered, FillRefused, Money
  <2>4. Applied(s.ledger, f, t.ledger) BY <1>1, <2>1, <2>3, ApplyFillDoes DEF Paid, Bookable
  <2>5. t.fills = Append(s.fills, f) BY <2>1 DEF Paid
  <2>6. k.intent = r.intent /\ o \in DOMAIN s.orders /\ r = s.orders[o] /\ SameOrder(r, k)
    BY <1>1 DEF SameOrder, r, s
  <2>7. \A g \in FillType :
           /\ g.order = o /\ Bookable(s.ledger, g) /\ Grew(r, k, g) /\ Affords(r, g)
           /\ r.intent.notional = 0 => r.filled + g.quantity <= r.intent.quantity
           /\ t.fills = Append(s.fills, g) /\ Applied(s.ledger, g, t.ledger)
           => Pays(s, t)
    BY ONLY <1>1, <2>6, FillPays
  <2> QED BY <2>1, <2>2, <2>3, <2>4, <2>5, <2>7
<1> QED BY <1>1, <1>2, <1>3, <1>4

\* The turn of one of those orders is such a march.
LEMMA TurnSweeps ==
  ASSUME NEW a, AccTyped(a), NEW b, NEW i \in Instruments, NEW o \in DOMAIN a.s.orders,
         o \in a.s.active[i], a.s.orders[o].intent.instrument = i, NEW at \in Times,
         Turned(a, b, o, at)
  PROVE  Sweeps(a, b, i, at)
<1> DEFINE r == a.s.orders[o]
           k == b.s.orders[o]
<1>1. /\ a.rows \in Seq(RowType) /\ a.s.fills \in Seq(FillType) /\ a.s.ledger \in LedgerType
      /\ a.s.orders \in [DOMAIN a.s.orders -> OrderRecord] /\ r \in OrderRecord /\ o \in Orders
      /\ r.intent.instrument = i
  BY AccParts
<1>2. /\ AccTyped(b) /\ Aside(a.s, b.s)
      /\ b.s.orders = [a.s.orders EXCEPT ![o] = k] /\ SameOrder(r, k)
      /\ \/ Still(a, b)
         \/ Expires(a, b, o, r, k, at)
         \/ Latches(a, b, o, r, k, at)
         \/ \E f \in FillType : Deals(a, b, o, r, k, f, at)
  BY DEF Turned
<1>3. r.status \in Logged!Statuses /\ k \in OrderRecord /\ k.status \in Logged!Statuses
  <2>1. o \in DOMAIN b.s.orders BY <1>1, <1>2
  <2>2. k \in OrderRecord BY <1>2, <2>1, AccParts
  <2> QED BY <1>1, <2>2, RecordParts
<1> HIDE DEF r, k
<1>4. /\ r.status # "unknown" => k.status # "unknown"
      /\ Extends(a.s, b.s) /\ Positions(b.s.ledger) \subseteq Positions(a.s.ledger) \cup {i}
      /\ Tells(a.rows, b.rows, at)
  <2>1. CASE Still(a, b)
    <3>1. b.s = a.s /\ b.rows = a.rows BY <2>1 DEF Still
    <3> QED BY <1>1, <3>1, ExtendsSame, TellsNothing DEF r, k
  <2>2. CASE Expires(a, b, o, r, k, at)
    <3>1. /\ SameMoney(a.s, b.s) /\ k.status = "expired"
          /\ b.rows = Append(a.rows, TransitionRow(o, r.status, "expired", at))
      BY <2>2 DEF Expires
    <3>2. TransitionRow(o, r.status, "expired", at) \in RowType
      <4>1. "expired" \in Logged!Statuses BY DEF Logged!Statuses, Logged!Closed
      <4> QED BY <1>1, <1>3, <4>1, RowsTyped
    <3>3. Tells(a.rows, b.rows, at)
      <4> DEFINE x == TransitionRow(o, r.status, "expired", at)
      <4>1. x \in RowType /\ x.at = at /\ x.kind = "transition" /\ b.rows = Append(a.rows, x)
        BY <3>1, <3>2 DEF TransitionRow
      <4> HIDE DEF x
      <4> QED BY <1>1, <4>1, TellsOne
    <3> QED BY <1>1, <3>1, <3>3, ExtendsSame DEF SameMoney
  <2>3. CASE Latches(a, b, o, r, k, at)
    <3>1. /\ SameMoney(a.s, b.s) /\ k.status = r.status
          /\ b.rows = Append(a.rows, StopRow(o, at))
      BY <2>3 DEF Latches
    <3>2. StopRow(o, at) \in RowType BY <1>1, <1>3, RowsTyped
    <3>3. Tells(a.rows, b.rows, at)
      <4> DEFINE x == StopRow(o, at)
      <4>1. x \in RowType /\ x.at = at /\ x.kind = "stop_triggered" /\ b.rows = Append(a.rows, x)
        BY <3>1, <3>2 DEF StopRow
      <4> HIDE DEF x
      <4> QED BY <1>1, <4>1, TellsOne
    <3> QED BY <1>1, <3>1, <3>3, ExtendsSame DEF SameMoney
  <2>4. ASSUME NEW f \in FillType, Deals(a, b, o, r, k, f, at)
        PROVE  /\ r.status # "unknown" => k.status # "unknown"
               /\ Extends(a.s, b.s)
               /\ Positions(b.s.ledger) \subseteq Positions(a.s.ledger) \cup {i}
               /\ Tells(a.rows, b.rows, at)
    <3>1. /\ Sold(a.s, o, r, f, at) /\ Paid(a.s, b.s, f) /\ k.status \in {"filled", "partially_filled"}
      BY <2>4 DEF Deals, Grew
    <3>2. PICK pre \in {a.rows, Append(a.rows, StopRow(o, at))} :
             b.rows = pre \o <<TransitionRow(o, r.status, k.status, at),
                               FillRow(f, r.status, k.status, at, k)>>
      BY <2>4 DEF Deals
    <3>3. /\ f.id \notin a.s.ledger.fills /\ f.order = o /\ f.instrument = i
          /\ f.side = "sell" => f.quantity <= a.s.ledger.held[f.instrument]
      <4>1. f.quantity \in Nat /\ f.instrument \in Instruments BY DEF FillType
      <4>2. a.s.ledger.held[f.instrument] \in Nat BY <1>1, <4>1, LedgerParts
      <4> QED BY <1>1, <3>1, <4>1, <4>2 DEF Sold, FillRefused
    <3>4. /\ b.s.fills = Append(a.s.fills, f) /\ b.s.ledger = ApplyFill(a.s.ledger, f)
      BY <3>1 DEF Paid
    <3>5. /\ b.s.ledger.fills = a.s.ledger.fills \cup {f.id}
          /\ b.s.ledger.held = [a.s.ledger.held EXCEPT ![i] =
                                   IF f.side = "buy" THEN @ + f.quantity ELSE @ - f.quantity]
      <4> DEFINE l == a.s.ledger
                 m == b.s.ledger
      <4>1. l \in LedgerType /\ m = ApplyFill(l, f)
            /\ (f.side = "sell" => f.quantity <= l.held[f.instrument])
        BY <1>1, <3>3, <3>4
      <4> HIDE DEF l, m
      <4>2. /\ m.fills = l.fills \cup {f.id}
            /\ m.held = [l.held EXCEPT ![f.instrument] =
                           IF f.side = "buy" THEN @ + f.quantity ELSE @ - f.quantity]
        BY <4>1, ApplyFillDoes DEF Applied
      <4> QED BY <3>3, <4>2 DEF l, m
    <3>6. Extends(a.s, b.s) BY <1>1, <3>3, <3>4, <3>5, ExtendsByOne
    <3>7. Positions(b.s.ledger) \subseteq Positions(a.s.ledger) \cup {i}
      <4>1. a.s.ledger.held \in [Instruments -> Nat] BY <1>1, LedgerParts
      <4> QED BY <3>5, <4>1 DEF Positions
    <3>8. Tells(a.rows, pre, at)
      <4>1. StopRow(o, at) \in RowType /\ StopRow(o, at).at = at
            /\ StopRow(o, at).kind = "stop_triggered"
        BY <1>1, <1>3, RowsTyped DEF StopRow
      <4>2. Tells(a.rows, a.rows, at) /\ Tells(a.rows, Append(a.rows, StopRow(o, at)), at)
        BY <1>1, <4>1, TellsNothing, TellsOne
      <4> QED BY <4>2
    <3>9. Tells(pre, b.rows, at)
      <4> DEFINE x == TransitionRow(o, r.status, k.status, at)
                 y == FillRow(f, r.status, k.status, at, k)
      <4>1. x \in RowType /\ y \in RowType BY <1>1, <1>3, <3>3, RowsTyped
      <4>2. x.at = at /\ x.kind = "transition" /\ y.at = at /\ y.kind = "fill"
        BY DEF TransitionRow, FillRow
      <4> HIDE DEF x, y
      <4>3. b.rows = pre \o <<x, y>> BY <3>2 DEF x, y
      <4>4. <<x, y>> \in Seq(RowType) /\ 1..Len(<<x, y>>) = {1, 2}
            /\ <<x, y>>[1] = x /\ <<x, y>>[2] = y
        BY <4>1
      <4> QED BY <4>2, <4>3, <4>4 DEF Tells
    <3>10. Tells(a.rows, b.rows, at) BY <1>1, <3>8, <3>9, TellsThen
    <3> QED BY <3>1, <3>6, <3>7, <3>10
  <2> QED BY <1>2, <2>1, <2>2, <2>3, <2>4
<1>5. OrdersMarch(a.s.orders, b.s.orders, a.s.active[i])
  <2>1. \A q \in DOMAIN a.s.orders : q # o => b.s.orders[q] = a.s.orders[q] BY <1>2
  <2>2. DOMAIN b.s.orders = DOMAIN a.s.orders BY <1>2
  <2>3. SameOrder(a.s.orders[o], b.s.orders[o])
        /\ (a.s.orders[o].status # "unknown" => b.s.orders[o].status # "unknown")
    BY <1>2, <1>4 DEF r, k
  <2> QED BY <2>1, <2>2, <2>3 DEF OrdersMarch, SameOrder
<1>6. Pays(a.s, b.s) BY TurnPays
<1> QED BY <1>2, <1>4, <1>5, <1>6 DEF Sweeps

\* The budget is what a sweep has to give.
LEMMA SweptBase ==
  ASSUME NEW acc, acc.ok = TRUE, Typed(acc.s), acc.rows \in Seq(RowType), NEW bar \in BarType
  PROVE  /\ AccTyped(Swept(acc, bar)) /\ Swept(acc, bar).s = acc.s
         /\ Swept(acc, bar).rows = acc.rows /\ Swept(acc, bar).ok
         /\ Swept(acc, bar).liquidity = LiquidityBudget(bar.volume)
         /\ LiquidityBudget(bar.volume) \in Nat
<1>1. bar.volume \in Nat BY DEF BarType
<1>2. LiquidityBudget(bar.volume) \in Nat BY <1>1, BudgetIsNat
<1> DEFINE budget == LiquidityBudget(bar.volume)
<1>3. budget \in Nat /\ budget \in Int BY <1>2
<1> HIDE DEF budget
<1>4. Swept(acc, bar) = [ok |-> TRUE, s |-> acc.s, rows |-> acc.rows, liquidity |-> budget]
  BY DEF Swept, budget
<1> QED BY <1>3, <1>4 DEF AccTyped, budget

\* A sweep is one turn after the other.
LEMMA SweepPath ==
  ASSUME NEW acc, NEW i \in Instruments, Sweepable(acc, i), NEW at \in Times,
         NEW bar \in BarType, NEW ids, ids = InOrder(acc.s.active[i])
  PROVE  /\ ids \in Seq(acc.s.active[i])
         /\ \E path : /\ Toured(Swept(acc, bar), ids, path, i, at)
                      /\ path[Len(ids)] = Sweep(acc, i, bar, at)
<1> DEFINE N == Len(ids)
           c == [bar |-> bar, at |-> at]
           base == Swept(acc, bar)
<1>0. /\ acc.ok = TRUE /\ Typed(acc.s) /\ acc.rows \in Seq(RowType)
      /\ IsFiniteSet(acc.s.active[i])
      /\ \A o \in acc.s.active[i] : o \in DOMAIN acc.s.orders
                                    /\ acc.s.orders[o].intent.instrument = i
  BY DEF Sweepable
<1>1. ids \in Seq(acc.s.active[i])
  <2>1. acc.s.active[i] \in SUBSET Orders BY <1>0, TypedParts DEF Entries
  <2>2. acc.s.active[i] \in SUBSET Nat BY <2>1, IdsAssumption
  <2> QED BY <1>0, <2>2, InOrderLists
<1>2. AccTyped(base) /\ base.s = acc.s /\ base.rows = acc.rows /\ base.ok BY <1>0, SweptBase
<1>3. Sweep(acc, i, bar, at) = Sweeping!Fold(c, base, ids) BY SweepFolds
<1> HIDE DEF base, c
<1>4. PICK path : Sweeping!IsPath(c, base, ids, path) BY <1>1, WellOrders, Sweeping!Path
<1>5. /\ path[0] = base /\ path[N] = Sweep(acc, i, bar, at)
      /\ \A n \in 1..N : path[n] = Process(path[n - 1], ids[n], bar, at)
  <2>1. /\ path[0] = base /\ path[N] = Sweeping!Fold(c, base, ids)
        /\ \A n \in 1..N : path[n] = SweepStep(c, path[n - 1], ids[n])
    BY <1>4 DEF Sweeping!IsPath, Sweeping!Steps, Sweeping!Leads
  <2> QED BY <2>1, <1>3 DEF SweepStep, c
<1> DEFINE S == {n \in 0..N : Sweeps(base, path[n], i, at)}
<1>6. N \in Nat /\ 0 \in S BY <1>1, <1>2, <1>5, SweepsNothing
<1>7. ASSUME NEW n \in 0..(N - 1), n \in S
      PROVE  n + 1 \in S /\ Goes(path[n], path[n + 1], i, ids[n + 1], at)
  <2> DEFINE a == path[n]
             b == path[n + 1]
             o == ids[n + 1]
  <2>1. n + 1 \in 1..N /\ n + 1 \in 0..N /\ (n + 1) - 1 = n BY <1>6
  <2>2. b = Process(a, o, bar, at) BY <1>5, <2>1
  <2>3. o \in acc.s.active[i] BY <1>1, <2>1
  <2>4. Sweeps(base, a, i, at) BY <1>7
  <2> HIDE DEF a, b, o, S
  <2>5. AccTyped(a) /\ Aside(base.s, a.s) /\ OrdersMarch(base.s.orders, a.s.orders, base.s.active[i])
    BY <2>4 DEF Sweeps
  <2>6. /\ o \in DOMAIN a.s.orders /\ o \in a.s.active[i]
        /\ a.s.orders[o].intent.instrument = i
    BY <1>0, <1>2, <2>3, <2>5 DEF OrdersMarch, Aside, SameOrder
  <2>7. (b = a \/ Turned(a, b, o, at)) /\ Sweeps(a, b, i, at)
    <3>1. CASE a.ok
      <4>1. Turned(a, b, o, at) BY <2>2, <2>5, <2>6, <3>1, ProcessTurns
      <4> QED BY <2>5, <2>6, <4>1, TurnSweeps
    <3>2. CASE ~ a.ok
      <4>1. b = a BY <2>2, <3>2 DEF Process
      <4> QED BY <2>5, <4>1, SweepsNothing
    <3> QED BY <3>1, <3>2
  <2>8. Sweeps(base, b, i, at) BY <1>2, <2>4, <2>7, SweepsThen
  <2>9. Goes(a, b, i, o, at) BY <2>6, <2>7 DEF Goes
  <2> QED BY <2>1, <2>8, <2>9 DEF S, a, b, o
<1>8. \A n \in 0..N : n \in S
  <2> HIDE DEF S, N
  <2> QED BY <1>6, <1>7, UpTo
<1>9. Toured(base, ids, path, i, at) BY ONLY <1>5, <1>7, <1>8 DEF Toured
<1> QED BY <1>1, <1>5, <1>9 DEF base

\* So is the whole sweep.
LEMMA SweepSweeps ==
  ASSUME NEW acc, NEW i \in Instruments, Sweepable(acc, i), NEW at \in Times,
         NEW bar \in BarType
  PROVE  Sweeps(acc, Sweep(acc, i, bar, at), i, at)
<1> DEFINE ids == InOrder(acc.s.active[i])
           base == Swept(acc, bar)
<1>1. ids \in Seq(acc.s.active[i]) BY SweepPath
<1>2. PICK path : Toured(base, ids, path, i, at) /\ path[Len(ids)] = Sweep(acc, i, bar, at)
  BY SweepPath
<1>3. base.s = acc.s /\ base.rows = acc.rows BY SweptBase DEF Sweepable
<1> HIDE DEF ids, base
<1>4. Len(ids) \in Nat /\ Len(ids) \in 0..Len(ids) BY <1>1
<1>5. Sweeps(base, Sweep(acc, i, bar, at), i, at) BY <1>2, <1>4 DEF Toured
<1> QED BY <1>3, <1>5 DEF Sweeps

\* A row that is no fill takes nothing from any budget.
LEMMA WithinSame ==
  ASSUME NEW rows \in Seq(RowType), NEW x \in RowType, x.kind # "fill", NEW i
  PROVE  Within(rows, Append(rows, x), i, 0)
<1>1. \A j : Taken(Append(rows, x), j) = Taken(rows, j) BY TakenSame
<1>2. Taken(rows, i) \in Int BY TakenIsInt
<1> DEFINE more == Append(rows, x)
<1> HIDE DEF more, RowType
<1>3. Within(rows, more, i, 0) BY <1>1, <1>2 DEF Within, more
<1> QED BY <1>3 DEF more

\* A sweep takes no more than the liquidity of its bar.
LEMMA SweepWithin ==
  ASSUME NEW acc, NEW i \in Instruments, Sweepable(acc, i), NEW at \in Times,
         NEW bar \in BarType
  PROVE  Within(acc.rows, Sweep(acc, i, bar, at).rows, i, LiquidityBudget(bar.volume))
<1> DEFINE ids == InOrder(acc.s.active[i])
           base == Swept(acc, bar)
           N == Len(ids)
           budget == LiquidityBudget(bar.volume)
<1>1. ids \in Seq(acc.s.active[i]) BY SweepPath
<1>2. PICK path : Toured(base, ids, path, i, at) /\ path[N] = Sweep(acc, i, bar, at) BY SweepPath
<1>3. /\ AccTyped(base) /\ base.rows = acc.rows /\ base.liquidity = budget
      /\ budget \in Nat /\ acc.rows \in Seq(RowType)
  BY SweptBase DEF Sweepable
<1> DEFINE S == {n \in 0..N : Draws(base.rows, budget, path[n].rows, path[n].liquidity, i)}
<1> HIDE DEF base, budget
<1>4. N \in Nat /\ 0 \in S
  <2>1. path[0] = base BY <1>2 DEF Toured
  <2> QED BY <1>1, <1>3, <2>1 DEF Draws
<1> HIDE DEF ids
<1>5. ASSUME NEW n \in 0..(N - 1), n \in S PROVE n + 1 \in S
  <2> DEFINE a == path[n]
             b == path[n + 1]
  <2>1. n \in 0..N /\ n + 1 \in 0..N BY <1>4
  <2>2. Sweeps(base, a, i, at) /\ Goes(a, b, i, ids[n + 1], at) BY <1>2, <2>1 DEF Toured
  <2>3. Draws(base.rows, budget, a.rows, a.liquidity, i) BY <1>5
  <2> HIDE DEF a, b, S
  <2>4. Draws(a.rows, a.liquidity, b.rows, b.liquidity, i)
    <3>1. AccTyped(a) BY <2>2 DEF Sweeps
    <3>2. CASE b = a BY <3>2 DEF Draws
    <3>3. CASE b # a BY <2>2, <3>1, <3>3, TurnDraws DEF Goes
    <3> QED BY <3>2, <3>3
  <2>5. Draws(base.rows, budget, b.rows, b.liquidity, i) BY <2>3, <2>4, DrawsThen
  <2> QED BY <2>1, <2>5 DEF S, b
<1>6. \A n \in 0..N : n \in S
  <2> HIDE DEF S, N
  <2> QED BY <1>4, <1>5, UpTo
<1> DEFINE end == Sweep(acc, i, bar, at)
<1>7. Draws(base.rows, budget, end.rows, end.liquidity, i) /\ Sweeps(base, end, i, at)
  BY <1>2, <1>4, <1>6 DEF Toured
<1> HIDE DEF end
<1>8. end.rows \in Seq(RowType) BY <1>7 DEF Sweeps, AccTyped
<1>9. Taken(end.rows, i) \in Int /\ Taken(acc.rows, i) \in Int BY <1>3, <1>8, TakenIsInt
<1>10. Within(acc.rows, end.rows, i, budget) BY <1>3, <1>7, <1>9 DEF Draws, Within
<1> QED BY <1>10 DEF end, budget

------------------------------
(* A state between operations *)

\* What an instrument's orders and their turns need of a good state.
LEMMA GoodActive ==
  ASSUME NEW s, Good(s), NEW i \in Instruments
  PROVE  /\ IsFiniteSet(s.active[i]) /\ s.active[i] \subseteq DOMAIN s.orders
         /\ \A o \in s.active[i] : s.orders[o].intent.instrument = i
<1>1. /\ s.active[i] = {o \in On(s, i) : Lifecycle!Executable(s.orders[o].status)}
      /\ IsFiniteSet(DOMAIN s.orders)
  BY DEF Good, Indexed
<1>2. s.active[i] \subseteq DOMAIN s.orders BY <1>1 DEF On
<1>3. IsFiniteSet(s.active[i]) BY <1>1, <1>2, FS_Subset
<1> QED BY <1>1, <1>2, <1>3 DEF On

\* The mark of a bar reaches the instrument and no other.
LEMMA OpenedIs ==
  ASSUME NEW s, Typed(s), NEW i \in Instruments, NEW close \in Nat,
         NEW t, t = [s EXCEPT !.marks = [s.marks EXCEPT ![i] = close], !.known = s.known \cup {i}]
  PROVE  Opened(s, t, i)
<1> DEFINE marks == [s.marks EXCEPT ![i] = close]
           known == s.known \cup {i}
<1>1. /\ IsState(s) /\ s.marks \in [Instruments -> Nat] /\ s.known \in SUBSET Instruments
  BY TypedParts DEF IsState
<1>2. marks \in [Instruments -> Nat] /\ Beside(s.marks, marks, {i}) /\ known \in SUBSET Instruments
  BY <1>1 DEF Beside
<1> HIDE DEF marks, known
<1>3. t = [orders |-> s.orders, clients |-> s.clients, active |-> s.active,
           unknown |-> s.unknown, seen |-> s.seen, marks |-> marks, known |-> known,
           fills |-> s.fills, fillSeq |-> s.fillSeq, events |-> s.events, ops |-> s.ops,
           ledger |-> s.ledger, latest |-> s.latest, lastKey |-> s.lastKey]
  <2>1. t = [s EXCEPT !.marks = marks, !.known = known] BY DEF marks, known
  <2>2. IsState(s) BY <1>1
  <2> QED BY <2>1, <2>2 DEF IsState
<1>4. Typed(t)
  <2>1. /\ s.orders \in [DOMAIN s.orders -> OrderRecord] /\ DOMAIN s.orders \subseteq Orders
        /\ s.clients \in SUBSET Orders /\ s.active \in Entries /\ s.unknown \in Entries
        /\ s.seen \in [Instruments -> SeenType] /\ s.fills \in Seq(FillType)
        /\ s.fillSeq \in Nat /\ s.events \in Nat /\ s.ops \in Nat
        /\ s.ledger \in LedgerType /\ s.latest \in Instants
        /\ s.lastKey \in [at : Instants, instrument : Instruments \cup {0}]
    BY TypedParts
  <2>2. Typed([orders |-> s.orders, clients |-> s.clients, active |-> s.active,
               unknown |-> s.unknown, seen |-> s.seen, marks |-> marks, known |-> known,
               fills |-> s.fills, fillSeq |-> s.fillSeq, events |-> s.events, ops |-> s.ops,
               ledger |-> s.ledger, latest |-> s.latest, lastKey |-> s.lastKey])
    BY <1>2, <2>1, TypedOf
  <2> QED BY <1>3, <2>2
<1>5. /\ t.orders = s.orders /\ t.clients = s.clients /\ t.active = s.active
      /\ t.unknown = s.unknown /\ t.seen = s.seen /\ t.marks = marks
      /\ t.known = known /\ t.fills = s.fills /\ t.ledger = s.ledger
      /\ t.events = s.events /\ t.ops = s.ops /\ t.latest = s.latest
  <2>1. t = [s EXCEPT !.marks = marks, !.known = known] BY DEF marks, known
  <2>2. IsState(s) BY <1>1
  <2> QED BY <2>1, <2>2 DEF IsState
<1> QED BY <1>2, <1>4, <1>5 DEF Opened, known

\* The end of an observation drops what has finished and keeps the snapshot.
LEMMA ClosedIs ==
  ASSUME NEW t, Typed(t), NEW i \in Instruments, NEW at \in Times, NEW seen \in SeenType,
         seen.at = at, NEW active,
         active = {o \in t.active[i] : Lifecycle!Executable(t.orders[o].status)},
         NEW u, u = [t EXCEPT !.active = [t.active EXCEPT ![i] = active],
                              !.seen = [t.seen EXCEPT ![i] = seen],
                              !.latest = Larger(t.latest, at),
                              !.lastKey = [at |-> at, instrument |-> i]]
  PROVE  Concluded(t, u, i, at)
<1> DEFINE actives == [t.active EXCEPT ![i] = active]
           seens == [t.seen EXCEPT ![i] = seen]
           latest == Larger(t.latest, at)
           key == [at |-> at, instrument |-> i]
<1>1. /\ IsState(t) /\ t.active \in [Instruments -> SUBSET Orders]
      /\ t.seen \in [Instruments -> SeenType] /\ t.latest \in Instants
  BY TypedParts DEF IsState, Entries
<1>2. /\ actives \in Entries /\ seens \in [Instruments -> SeenType]
      /\ Beside(t.seen, seens, {i}) /\ seens[i] = seen
      /\ latest \in Instants /\ key \in [at : Instants, instrument : Instruments \cup {0}]
  <2>1. active \in SUBSET Orders BY <1>1
  <2>2. actives \in Entries BY <1>1, <2>1 DEF Entries
  <2>3. seens \in [Instruments -> SeenType] /\ Beside(t.seen, seens, {i}) /\ seens[i] = seen
    BY <1>1 DEF Beside
  <2>4. at \in Instants BY TimesAreInstants
  <2> QED BY <1>1, <2>2, <2>3, <2>4 DEF Larger
<1>2a. actives = [t.active EXCEPT ![i] = {o \in @ : Lifecycle!Executable(t.orders[o].status)}]
  OBVIOUS
<1> HIDE DEF actives, seens, latest, key
<1>3. u = [orders |-> t.orders, clients |-> t.clients, active |-> actives,
           unknown |-> t.unknown, seen |-> seens, marks |-> t.marks, known |-> t.known,
           fills |-> t.fills, fillSeq |-> t.fillSeq, events |-> t.events, ops |-> t.ops,
           ledger |-> t.ledger, latest |-> latest, lastKey |-> key]
  <2>1. u = [t EXCEPT !.active = actives, !.seen = seens, !.latest = latest, !.lastKey = key]
    BY DEF actives, seens, latest, key
  <2>2. IsState(t) BY <1>1
  <2> QED BY <2>1, <2>2 DEF IsState
<1>4. Typed(u)
  <2>1. /\ t.orders \in [DOMAIN t.orders -> OrderRecord] /\ DOMAIN t.orders \subseteq Orders
        /\ t.clients \in SUBSET Orders /\ t.unknown \in Entries
        /\ t.marks \in [Instruments -> Nat]
        /\ t.known \in SUBSET Instruments /\ t.fills \in Seq(FillType)
        /\ t.fillSeq \in Nat /\ t.events \in Nat /\ t.ops \in Nat
        /\ t.ledger \in LedgerType
    BY TypedParts
  <2>2. Typed([orders |-> t.orders, clients |-> t.clients, active |-> actives,
               unknown |-> t.unknown, seen |-> seens, marks |-> t.marks, known |-> t.known,
               fills |-> t.fills, fillSeq |-> t.fillSeq, events |-> t.events, ops |-> t.ops,
               ledger |-> t.ledger, latest |-> latest, lastKey |-> key])
    BY <1>2, <2>1, TypedOf
  <2> QED BY <1>3, <2>2
<1>5. /\ u.orders = t.orders /\ u.clients = t.clients /\ u.active = actives
      /\ u.unknown = t.unknown /\ u.seen = seens /\ u.marks = t.marks /\ u.known = t.known
      /\ u.fills = t.fills /\ u.ledger = t.ledger /\ u.events = t.events /\ u.ops = t.ops
      /\ u.latest = latest
  <2>1. u = [t EXCEPT !.active = actives, !.seen = seens, !.latest = latest, !.lastKey = key]
    BY DEF actives, seens, latest, key
  <2>2. IsState(t) BY <1>1
  <2> QED BY <2>1, <2>2 DEF IsState
<1> QED BY <1>2, <1>2a, <1>4, <1>5 DEF Concluded, latest

\* What an instrument's turn may touch, also when an order raises half-way.
LEMMA SweptFrame ==
  ASSUME NEW s, NEW t, NEW v, Typed(s), Typed(v), NEW i \in Instruments, Opened(s, t, i),
         Aside(t, v), OrdersMarch(t.orders, v.orders, t.active[i]), Extends(t, v),
         NEW O, s.active[i] \subseteq O, NEW C, NEW I, i \in I
  PROVE  Frame(s, v, O, C, I)
<1>1. Extends(s, v) BY DEF Opened, Extends, NewIds
<1>2. /\ DOMAIN v.orders = DOMAIN s.orders /\ v.clients = s.clients
      /\ \A o \in DOMAIN s.orders \ O : v.orders[o] = s.orders[o]
      /\ v.active = s.active /\ v.unknown = s.unknown /\ v.seen = s.seen
      /\ Beside(s.marks, v.marks, {i}) /\ v.known = s.known \cup {i}
  <2>1. /\ t.orders = s.orders /\ t.clients = s.clients /\ t.active = s.active
        /\ t.unknown = s.unknown /\ t.seen = s.seen /\ Beside(s.marks, t.marks, {i})
        /\ t.known = s.known \cup {i}
    BY DEF Opened
  <2>2. /\ v.clients = t.clients /\ v.active = t.active /\ v.unknown = t.unknown
        /\ v.seen = t.seen /\ v.marks = t.marks /\ v.known = t.known
    BY DEF Aside
  <2>3. /\ DOMAIN v.orders = DOMAIN t.orders
        /\ \A k \in DOMAIN t.orders : k \notin t.active[i] => v.orders[k] = t.orders[k]
    BY DEF OrdersMarch
  <2> QED BY <2>1, <2>2, <2>3
<1>3. /\ Beside(s.active, v.active, I) /\ Beside(s.unknown, v.unknown, I)
      /\ Beside(s.seen, v.seen, I) /\ Beside(s.marks, v.marks, I)
  BY <1>2 DEF Beside
<1> QED BY <1>1, <1>2, <1>3 DEF Frame

\* The end of an observation stays within the frame of its sweep.
LEMMA ClosedFrame ==
  ASSUME NEW s, NEW v, NEW u, Typed(s), Typed(v), NEW i \in Instruments, NEW at,
         NEW O, NEW C, NEW I, i \in I, Frame(s, v, O, C, I), Concluded(v, u, i, at)
  PROVE  Frame(s, u, O, C, I)
<1>1. /\ u.orders = v.orders /\ u.clients = v.clients
      /\ u.active = [v.active EXCEPT ![i] =
                        {o \in @ : Lifecycle!Executable(v.orders[o].status)}]
      /\ u.unknown = v.unknown /\ Beside(v.seen, u.seen, {i})
      /\ u.marks = v.marks /\ u.known = v.known /\ u.fills = v.fills /\ u.ledger = v.ledger
  BY DEF Concluded
<1>2. Extends(s, u) BY <1>1 DEF Frame, Extends, NewIds
<1>3. /\ Beside(s.active, u.active, I) /\ Beside(s.unknown, u.unknown, I)
      /\ Beside(s.seen, u.seen, I) /\ Beside(s.marks, u.marks, I)
  <2>1. /\ Beside(s.active, v.active, I) /\ Beside(s.unknown, v.unknown, I)
        /\ Beside(s.seen, v.seen, I) /\ Beside(s.marks, v.marks, I)
    BY DEF Frame
  <2>2. v.active \in [Instruments -> SUBSET Orders] BY TypedParts DEF Entries
  <2>3. Beside(v.active, u.active, {i}) BY <1>1, <2>2 DEF Beside
  <2> QED BY <1>1, <2>1, <2>3 DEF Beside
<1> QED BY <1>1, <1>2, <1>3 DEF Frame

\* After its turn the maps agree again.
LEMMA ObservedGood ==
  ASSUME NEW s, NEW t, NEW v, NEW u, Good(s), Typed(v), NEW i \in Instruments,
         Opened(s, t, i), Aside(t, v), OrdersMarch(t.orders, v.orders, t.active[i]),
         Pays(t, v), NEW at \in Times, Concluded(v, u, i, at)
  PROVE  Kept(s, u) /\ at <= u.latest
<1>1. /\ u.orders = v.orders /\ u.clients = s.clients
      /\ u.active = [s.active EXCEPT ![i] =
                        {o \in @ : Lifecycle!Executable(v.orders[o].status)}]
      /\ u.unknown = s.unknown /\ Beside(s.seen, u.seen, {i}) /\ u.seen[i].at = at
      /\ u.latest = Larger(s.latest, at) /\ u.events = s.events /\ u.ops = s.ops /\ Typed(u)
      /\ OrdersMarch(s.orders, v.orders, s.active[i])
  BY DEF Opened, Aside, Concluded
<1>2. /\ Typed(s) /\ s.active \in [Instruments -> SUBSET Orders] /\ s.latest \in Nat
      /\ at \in Nat /\ at >= 1 /\ u.seen \in [Instruments -> SeenType]
      /\ s.seen \in [Instruments -> SeenType]
  <2>1. Typed(s) /\ u.seen \in [Instruments -> SeenType] BY <1>1, TypedParts DEF Good
  <2>2. s.active \in Entries /\ s.seen \in [Instruments -> SeenType] /\ s.latest \in Instants
    BY ONLY <2>1, TypedParts
  <2>3. s.latest \in Nat /\ at \in Nat BY <2>2, TimesAreInstants
  <2>4. at >= 1 BY DEF Times
  <2> QED BY ONLY Zenon, <2>1, <2>2, <2>3, <2>4 DEF Entries
<1>3. \A j \in Instruments : u.active[j] \subseteq s.active[j] BY <1>1, <1>2
<1>4. s.latest <= u.latest /\ at <= u.latest /\ u.latest \in Nat BY <1>1, <1>2 DEF Larger
<1>5. Indexed(u)
  <2>1. Indexed(s) BY DEF Good
  <2>2. u.clients = DOMAIN u.orders BY <1>1, <2>1 DEF Indexed, OrdersMarch
  <2>3. ASSUME NEW j \in Instruments
        PROVE  /\ u.active[j] = {o \in On(u, j) : Lifecycle!Executable(u.orders[o].status)}
               /\ u.unknown[j] = {o \in On(u, j) : u.orders[o].status = "unknown"}
               /\ u.active[j] \cup u.unknown[j] # {} => u.seen[j] # Unseen
    <3>1. On(u, j) = On(s, j) BY <1>1 DEF On, OrdersMarch, SameOrder
    <3>2. /\ s.active[j] = {o \in On(s, j) : Lifecycle!Executable(s.orders[o].status)}
          /\ s.unknown[j] = {o \in On(s, j) : s.orders[o].status = "unknown"}
          /\ s.active[j] \cup s.unknown[j] # {} => s.seen[j] # Unseen
      BY <2>1 DEF Indexed
    <3>3. \A o \in s.active[i] : o \in On(s, i) /\ Lifecycle!Executable(s.orders[o].status)
      BY <2>1 DEF Indexed
    <3>4. \A o : Lifecycle!Executable(s.orders[o].status) => s.orders[o].status # "unknown"
      BY DEF Lifecycle!Executable
    <3>5. \A o \in On(s, j) : /\ o \in DOMAIN s.orders /\ s.orders[o].intent.instrument = j
                              /\ o \notin s.active[i] => u.orders[o] = s.orders[o]
                              /\ s.orders[o].status # "unknown" => u.orders[o].status # "unknown"
      BY <1>1 DEF On, OrdersMarch
    <3>6. u.unknown[j] = {o \in On(u, j) : u.orders[o].status = "unknown"}
      <4>1. ASSUME NEW o \in On(s, j)
            PROVE  u.orders[o].status = "unknown" <=> s.orders[o].status = "unknown"
        <5>1. CASE o \in s.active[i] BY <5>1, <3>3, <3>4, <3>5
        <5>2. CASE o \notin s.active[i] BY <5>2, <3>5
        <5> QED BY <5>1, <5>2
      <4> QED BY <1>1, <3>1, <3>2, <4>1
    <3>7. u.active[j] = {o \in On(u, j) : Lifecycle!Executable(u.orders[o].status)}
      <4>1. CASE j = i
        <5>1. u.active[i] = {o \in s.active[i] : Lifecycle!Executable(u.orders[o].status)}
          BY <1>1, <1>2
        <5>2. ASSUME NEW o \in On(s, i), Lifecycle!Executable(u.orders[o].status)
              PROVE  o \in s.active[i]
          BY <3>2, <3>5, <4>1, <5>2
        <5> QED BY <3>1, <3>2, <4>1, <5>1, <5>2
      <4>2. CASE j # i
        <5>1. u.active[j] = s.active[j] BY <1>1, <1>2, <4>2
        <5>2. \A o \in On(s, j) : o \notin s.active[i] BY <3>3, <3>5, <4>2 DEF On
        <5> QED BY <3>1, <3>2, <3>5, <5>1, <5>2
      <4> QED BY <4>1, <4>2
    <3>8. u.active[j] \cup u.unknown[j] # {} => u.seen[j] # Unseen
      <4>1. CASE j = i
        <5>1. Unseen.at = 0 BY DEF Unseen
        <5> QED BY <1>1, <1>2, <4>1, <5>1
      <4>2. CASE j # i BY <1>1, <1>3, <3>2, <4>2 DEF Beside
      <4> QED BY <4>1, <4>2
    <3> QED BY <3>6, <3>7, <3>8
  <2> QED BY <2>2, <2>3 DEF Indexed
<1>6. Current(u)
  <2>1. ASSUME NEW j \in Instruments
        PROVE  u.seen[j].at <= u.latest /\ Dated(u.seen[j])
    <3>1. CASE j = i BY <1>1, <1>4, <3>1 DEF Dated
    <3>2. CASE j # i
      <4>1. u.seen[j] = s.seen[j] BY <1>1, <3>2 DEF Beside
      <4>2. s.seen[j].at <= s.latest /\ s.seen[j].at \in Nat /\ Dated(s.seen[j])
        BY <1>2 DEF Good, Current, SeenType
      <4> QED BY <1>2, <1>4, <4>1, <4>2
    <3> QED BY <3>1, <3>2
  <2> QED BY <2>1 DEF Current
<1>7. IsFiniteSet(DOMAIN u.orders) BY <1>1 DEF Good, OrdersMarch
<1>8. Pays(s, u)
  <2>1. Pays(s, t) /\ Pays(v, u) BY SamePays DEF Opened, Concluded
  <2>2. Pays(s, v) BY <2>1, PaysThen
  <2> QED BY <2>1, <2>2, PaysThen
<1> QED BY <1>1, <1>3, <1>4, <1>5, <1>6, <1>7, <1>8 DEF Good, Kept

------------------------------
(* What the rows say of the life of an order *)

\* No rows, no story.
LEMMA StoryNothing == \A o, st : Story(<<>>, o, st, st)
<1>1. 1..Len(<<>>) = {} OBVIOUS
<1> QED BY <1>1 DEF Story

\* A row that is no move of an order leaves its story alone.
LEMMA StorySame ==
  ASSUME NEW rows \in Seq(RowType), NEW x \in RowType, NEW o, ~ IsMove(x, o), NEW from, NEW to,
         Story(rows, o, from, to)
  PROVE  Story(Append(rows, x), o, from, to)
<1> DEFINE more == Append(rows, x)
<1> HIDE DEF RowType
<1>1. /\ Len(rows) \in Nat /\ Len(more) = Len(rows) + 1 /\ more[Len(rows) + 1] = x
      /\ \A n \in 1..Len(rows) : more[n] = rows[n]
  OBVIOUS
<1> HIDE DEF more
<1>2. \A n \in 1..Len(more) : n \in 1..Len(rows) \/ n = Len(rows) + 1 BY <1>1
<1>3. ~ IsMove(more[Len(rows) + 1], o) BY <1>1
<1>4. CASE (\A n \in 1..Len(rows) : ~ IsMove(rows[n], o)) /\ to = from
  <2>1. \A n \in 1..Len(more) : ~ IsMove(more[n], o) BY <1>1, <1>2, <1>3, <1>4
  <2> QED BY <1>4, <2>1 DEF Story, more
<1>5. ASSUME NEW n \in 1..Len(rows), IsMove(rows[n], o), rows[n].to = to,
             \A m \in (n + 1)..Len(rows) : ~ IsMove(rows[m], o)
      PROVE  Story(more, o, from, to)
  <2>1. n \in 1..Len(more) /\ more[n] = rows[n] BY <1>1
  <2>2. ASSUME NEW m \in (n + 1)..Len(more) PROVE ~ IsMove(more[m], o)
    <3>1. m \in 1..Len(more) BY <1>1
    <3>2. CASE m = Len(rows) + 1 BY <1>3, <3>2
    <3>3. CASE m # Len(rows) + 1
      <4>1. m \in 1..Len(rows) /\ m \in (n + 1)..Len(rows) BY <1>1, <1>2, <3>1, <3>3
      <4> QED BY <1>1, <1>5, <4>1
    <3> QED BY <3>2, <3>3
  <2> QED BY <1>5, <2>1, <2>2 DEF Story
<1> QED BY <1>4, <1>5 DEF Story, more

\* A move is the last word.
LEMMA StoryMove ==
  ASSUME NEW rows \in Seq(RowType), NEW x \in RowType, NEW o, IsMove(x, o), NEW from
  PROVE  Story(Append(rows, x), o, from, x.to)
<1> DEFINE more == Append(rows, x)
           n == Len(rows) + 1
<1> HIDE DEF RowType
<1>1. Len(more) = n /\ n \in 1..n /\ (n + 1)..n = {} OBVIOUS
<1>2. more[n] = x OBVIOUS
<1> HIDE DEF more, n
<1> QED BY <1>1, <1>2 DEF Story, more

\* A state and its rows carry themselves.
LEMMA CarriesSame ==
  ASSUME NEW s, NEW rows, NEW t, t.orders = s.orders
  PROVE  Carries(s, rows, t, rows)
BY DEF Carries, Trades, StatusOf

\* One after the other.
LEMMA CarriesThen ==
  ASSUME NEW s, NEW rows, NEW t, NEW more, NEW u, NEW most,
         Carries(s, rows, t, more), Carries(t, more, u, most)
  PROVE  Carries(s, rows, u, most)
BY DEF Carries, Trades, Working

\* A row that moves no order.
LEMMA CarriesOne ==
  ASSUME NEW s, NEW rows \in Seq(RowType), NEW t, t.orders = s.orders,
         NEW x \in RowType, x.kind # "transition"
  PROVE  Carries(s, rows, t, Append(rows, x))
<1>1. \A o : ~ IsMove(x, o) BY DEF IsMove
<1>2. \A o, from, to : Story(rows, o, from, to) => Story(Append(rows, x), o, from, to)
  <2> HIDE DEF RowType
  <2> QED BY <1>1, StorySame
<1>3. \A o : StatusOf(t, o) = StatusOf(s, o) BY DEF StatusOf
<1> DEFINE more == Append(rows, x)
<1> HIDE DEF more
<1> QED BY <1>2, <1>3 DEF Carries, Trades, more

\* A row that moves one.
LEMMA CarriesMove ==
  ASSUME NEW s, NEW rows \in Seq(RowType), NEW t, NEW o \in DOMAIN s.orders,
         NEW x \in RowType, IsMove(x, o), NEW k, t.orders = [s.orders EXCEPT ![o] = k],
         k.status = x.to, Trades(s.orders[o].status, x.to)
  PROVE  Carries(s, rows, t, Append(rows, x))
<1> DEFINE more == Append(rows, x)
<1>1. StatusOf(s, o) = s.orders[o].status /\ StatusOf(t, o) = x.to BY DEF StatusOf
<1>2. \A q : q # o => StatusOf(t, q) = StatusOf(s, q) /\ ~ IsMove(x, q) BY DEF StatusOf, IsMove
<1>3. \A q, from, to : q # o /\ Story(rows, q, from, to) => Story(more, q, from, to)
  <2> HIDE DEF RowType
  <2> QED BY <1>2, StorySame
<1>4. \A from : Story(more, o, from, x.to) BY StoryMove
<1> HIDE DEF more
<1>5. ASSUME NEW q \in Orders
      PROVE  /\ Trades(StatusOf(s, q), StatusOf(t, q))
             /\ \A from : Story(rows, q, from, StatusOf(s, q)) => Story(more, q, from, StatusOf(t, q))
  <2>1. CASE q = o BY <1>1, <1>4, <2>1
  <2>2. CASE q # o BY <1>2, <1>3, <2>2 DEF Trades
  <2> QED BY <2>1, <2>2
<1> QED BY <1>5 DEF Carries, more

\* The turn of a working order moves it, or does not; and it is the only one that has a turn.
LEMMA TurnCarries ==
  ASSUME NEW a, AccTyped(a), NEW b, NEW o \in DOMAIN a.s.orders, NEW at \in Times,
         a.s.orders[o].status \in Working, Turned(a, b, o, at)
  PROVE  /\ Carries(a.s, a.rows, b.s, b.rows)
         /\ \A q \in DOMAIN a.s.orders : q # o => b.s.orders[q] = a.s.orders[q]
<1> DEFINE r == a.s.orders[o]
           k == b.s.orders[o]
<1>1. /\ a.rows \in Seq(RowType) /\ r \in OrderRecord /\ o \in Orders
      /\ a.s.orders \in [DOMAIN a.s.orders -> OrderRecord]
  BY AccParts
<1>2. /\ AccTyped(b) /\ b.s.orders = [a.s.orders EXCEPT ![o] = k]
      /\ \/ Still(a, b)
         \/ Expires(a, b, o, r, k, at)
         \/ Latches(a, b, o, r, k, at)
         \/ \E f \in FillType : Deals(a, b, o, r, k, f, at)
  BY DEF Turned
<1>3. r.status \in Logged!Statuses /\ k \in OrderRecord /\ k.status \in Logged!Statuses
      /\ "expired" \in Logged!Statuses
  <2>1. o \in DOMAIN b.s.orders BY <1>1, <1>2
  <2>2. k \in OrderRecord BY <1>2, <2>1, AccParts
  <2>3. "expired" \in Logged!Statuses BY DEF Logged!Statuses, Logged!Closed
  <2> QED BY <1>1, <2>2, <2>3, RecordParts
<1>3a. r.status \in Working OBVIOUS
<1>4. /\ StopRow(o, at) \in RowType /\ StopRow(o, at).kind = "stop_triggered"
      /\ \A from, to \in Logged!Statuses : /\ TransitionRow(o, from, to, at) \in RowType
                                           /\ IsMove(TransitionRow(o, from, to, at), o)
                                           /\ TransitionRow(o, from, to, at).to = to
  <2>1. \A from, to \in Logged!Statuses : TransitionRow(o, from, to, at) \in RowType
                                          /\ StopRow(o, at) \in RowType
    BY <1>1, RowsTyped
  <2> QED BY <1>3, <2>1 DEF StopRow, TransitionRow, IsMove
<1>5. CASE Still(a, b) BY <1>5, CarriesSame DEF Still
<1>6. CASE Expires(a, b, o, r, k, at)
  <2> DEFINE x == TransitionRow(o, r.status, "expired", at)
  <2>1. /\ x \in RowType /\ IsMove(x, o) /\ x.to = "expired" /\ k.status = x.to
        /\ b.rows = Append(a.rows, x)
    BY <1>3, <1>4, <1>6 DEF Expires
  <2>2. Trades(a.s.orders[o].status, x.to) BY <2>1 DEF Trades
  <2> HIDE DEF x, k, RowType
  <2>3. Carries(a.s, a.rows, b.s, Append(a.rows, x))
    <3>1. a.rows \in Seq(RowType) /\ b.s.orders = [a.s.orders EXCEPT ![o] = k] BY <1>1, <1>2
    <3> QED BY <2>1, <2>2, <3>1, CarriesMove
  <2> QED BY <1>2, <2>1, <2>3
<1>7. CASE Latches(a, b, o, r, k, at)
  <2> DEFINE x == StopRow(o, at)
  <2>1. x \in RowType /\ x.kind # "transition" /\ b.rows = Append(a.rows, x) /\ k.status = r.status
    BY <1>4, <1>7 DEF Latches
  <2> HIDE DEF x, RowType
  <2>2. \A q : StatusOf(b.s, q) = StatusOf(a.s, q) BY <1>1, <1>2, <2>1 DEF StatusOf
  <2>3. Carries(a.s, a.rows, a.s, b.rows) BY <1>1, <2>1, CarriesOne
  <2>4. Carries(a.s, a.rows, b.s, b.rows) BY <2>2, <2>3 DEF Carries
  <2> QED BY <1>2, <2>4
<1>8. ASSUME NEW f \in FillType, Deals(a, b, o, r, k, f, at)
      PROVE  Carries(a.s, a.rows, b.s, b.rows)
  <2> DEFINE x == TransitionRow(o, r.status, k.status, at)
             y == FillRow(f, r.status, k.status, at, k)
             z == StopRow(o, at)
  <2>1. f.order = o /\ k.status \in {"filled", "partially_filled"} BY <1>8 DEF Deals, Sold, Grew
  <2>2. PICK pre \in {a.rows, Append(a.rows, z)} : b.rows = pre \o <<x, y>> BY <1>8 DEF Deals
  <2>3. /\ x \in RowType /\ IsMove(x, o) /\ x.to = k.status
        /\ y \in RowType /\ y.kind # "transition"
        /\ z \in RowType /\ z.kind # "transition"
    <3>1. y \in RowType BY <1>1, <1>3, <2>1, RowsTyped
    <3>2. y.kind = "fill" BY DEF FillRow
    <3> QED BY <1>3, <1>4, <3>1, <3>2
  <2> HIDE DEF x, y, z, RowType
  <2>4. pre \in Seq(RowType) /\ Carries(a.s, a.rows, a.s, pre)
    <3>1. CASE pre = a.rows BY <1>1, <3>1, CarriesSame
    <3>2. CASE pre = Append(a.rows, z) BY <1>1, <2>3, <3>2, CarriesOne
    <3> QED BY <2>2, <3>1, <3>2
  <2>5. Append(pre, x) \in Seq(RowType) /\ b.rows = Append(Append(pre, x), y) BY <2>2, <2>3, <2>4
  <2>6. Carries(a.s, pre, b.s, Append(pre, x))
    <3>1. Trades(a.s.orders[o].status, x.to) BY <2>1, <2>3 DEF Trades
    <3> HIDE DEF k
    <3> QED BY <1>2, <2>3, <2>4, <3>1, CarriesMove
  <2>7. Carries(b.s, Append(pre, x), b.s, b.rows) BY <2>3, <2>5, CarriesOne
  <2>8. Carries(a.s, a.rows, b.s, Append(pre, x)) BY <2>4, <2>6, CarriesThen
  <2> QED BY <2>7, <2>8, CarriesThen
<1>9. \A q \in DOMAIN a.s.orders : q # o => b.s.orders[q] = a.s.orders[q] BY <1>2
<1> QED BY <1>2, <1>5, <1>6, <1>7, <1>8, <1>9

\* An order that waits for its turn in a sweep is left alone until then: it has one.
LEMMA SweepWaits ==
  ASSUME NEW acc, NEW i \in Instruments, Sweepable(acc, i), NEW at \in Times,
         NEW bar \in BarType
  PROVE  Waiting(acc, i, bar, at)
<1> DEFINE ids == InOrder(acc.s.active[i])
           base == Swept(acc, bar)
           end == Sweep(acc, i, bar, at)
<1>0. ids = InOrder(acc.s.active[i]) /\ base = Swept(acc, bar) /\ end = Sweep(acc, i, bar, at)
  OBVIOUS
<1> DEFINE N == Len(ids)
<1> HIDE DEF ids, base, end
<1>1. ids \in Seq(acc.s.active[i]) BY <1>0, SweepPath
<1>2. PICK path : Toured(base, ids, path, i, at) /\ path[N] = end BY <1>0, SweepPath
<1>3. AccTyped(base) /\ base.rows = acc.rows /\ base.s = acc.s BY <1>0, SweptBase DEF Sweepable
<1>4. \A m, n \in 1..N : m # n => ids[m] # ids[n]
  <2>1. acc.s.active[i] \in SUBSET Nat /\ IsFiniteSet(acc.s.active[i])
    <3>1. acc.s.active[i] \in SUBSET Orders BY TypedParts DEF Sweepable, Entries
    <3> QED BY <3>1, IdsAssumption DEF Sweepable
  <2>2. /\ N = Cardinality(acc.s.active[i])
        /\ \A m, n \in 1..Cardinality(acc.s.active[i]) : m < n => ids[m] < ids[n]
    BY <1>0, <2>1, InOrderLists
  <2>3. \A m \in 1..N : ids[m] \in Nat BY <1>1, <2>1
  <2>4. N \in Nat BY <1>1
  <2> HIDE DEF N
  <2>5. ASSUME NEW m \in 1..N, NEW n \in 1..N, m # n PROVE ids[m] # ids[n]
    <3>1. m < n \/ n < m BY <2>4, <2>5
    <3> QED BY <2>2, <2>3, <3>1
  <2> QED BY <2>5
<1>5. N \in Nat /\ \A m \in 1..N : ids[m] \in acc.s.active[i] /\ ids[m] \in DOMAIN acc.s.orders
  BY <1>1 DEF Sweepable
<1> DEFINE Waits(n) == \A m \in (n + 1)..N : path[n].s.orders[ids[m]] = acc.s.orders[ids[m]]
           S == {n \in 0..N : Waits(n)}
<1> HIDE DEF N
<1>6. 0 \in S BY <1>2, <1>3, <1>5 DEF Toured
<1>7. ASSUME NEW n \in 0..(N - 1), n \in S PROVE n + 1 \in S
  <2> DEFINE a == path[n]
             b == path[n + 1]
             o == ids[n + 1]
  <2>1. n + 1 \in 0..N /\ n + 1 \in 1..N /\ (n + 1) + 1 = n + 2
        /\ \A m \in (n + 2)..N : m \in (n + 1)..N /\ m \in 1..N /\ m # n + 1
    BY <1>5
  <2>2. Goes(a, b, i, o, at) BY <1>2 DEF Toured, N
  <2>3. Waits(n) BY <1>7
  <2>4. \A q \in DOMAIN a.s.orders : q # o => b.s.orders[q] = a.s.orders[q]
    <3> HIDE DEF a, b, o
    <3>1. CASE b = a BY <3>1
    <3>2. CASE b # a
      <4>1. Turned(a, b, o, at) BY <2>2, <3>2 DEF Goes
      <4>2. b.s.orders = [a.s.orders EXCEPT ![o] = b.s.orders[o]] BY <4>1 DEF Turned
      <4> QED BY <4>2
    <3> QED BY <3>1, <3>2
  <2>5. DOMAIN a.s.orders = DOMAIN acc.s.orders
    <3>1. n \in 0..Len(ids) BY <1>5 DEF N
    <3>2. Sweeps(base, a, i, at) BY <1>2, <3>1 DEF Toured
    <3> QED BY <1>3, <3>2 DEF Sweeps, OrdersMarch
  <2>6. \A m \in (n + 2)..N : b.s.orders[ids[m]] = acc.s.orders[ids[m]]
    BY <1>4, <1>5, <2>1, <2>3, <2>4, <2>5
  <2> QED BY <2>1, <2>6
<1> HIDE DEF S
<1>8. \A n \in 0..N : n \in S BY <1>5, <1>6, <1>7, UpTo
<1>9. ASSUME NEW n \in 0..(N - 1)
      PROVE  /\ ids[n + 1] \in acc.s.active[i] /\ ids[n + 1] \in DOMAIN acc.s.orders
             /\ path[n].s.orders[ids[n + 1]] = acc.s.orders[ids[n + 1]]
  <2>1. n \in 0..N /\ n + 1 \in 1..N /\ n + 1 \in (n + 1)..N BY <1>5
  <2> QED BY <1>5, <1>8, <2>1 DEF S
<1> QED BY <1>0, <1>1, <1>2, <1>3, <1>9 DEF N, Waiting

\* A sweep goes on with the stories of the orders it turns to, each of them once.
LEMMA SweepCarries ==
  ASSUME NEW acc, NEW i \in Instruments, Sweepable(acc, i), NEW at \in Times,
         NEW bar \in BarType, \A o \in acc.s.active[i] : acc.s.orders[o].status \in Working,
         NEW end, end = Sweep(acc, i, bar, at)
  PROVE  Carries(acc.s, acc.rows, end.s, end.rows)
<1> DEFINE ids == InOrder(acc.s.active[i])
           base == Swept(acc, bar)
           N == Len(ids)
<1>0. Waiting(acc, i, bar, at) BY Zenon, SweepWaits
<1>1. ids \in Seq(acc.s.active[i]) /\ base.rows = acc.rows /\ base.s = acc.s BY <1>0 DEF Waiting
<1>2. PICK path :
         /\ Toured(base, ids, path, i, at) /\ path[N] = Sweep(acc, i, bar, at)
         /\ \A n \in 0..(N - 1) :
               /\ ids[n + 1] \in acc.s.active[i] /\ ids[n + 1] \in DOMAIN acc.s.orders
               /\ path[n].s.orders[ids[n + 1]] = acc.s.orders[ids[n + 1]]
  BY ONLY Zenon, <1>0 DEF Waiting
<1> HIDE DEF base
<1>3. N \in Nat BY <1>1
<1> HIDE DEF ids
<1> DEFINE S == {n \in 0..N : Carries(acc.s, acc.rows, path[n].s, path[n].rows)}
<1>4. 0 \in S
  <2>1. path[0].s = acc.s /\ path[0].rows = acc.rows BY <1>1, <1>2 DEF Toured
  <2>2. Carries(acc.s, acc.rows, path[0].s, path[0].rows) BY <2>1, CarriesSame
  <2> QED BY <1>3, <2>2
<1>5. ASSUME NEW n \in 0..(N - 1), n \in S PROVE n + 1 \in S
  <2> DEFINE a == path[n]
             b == path[n + 1]
             o == ids[n + 1]
  <2>1. n \in 0..N /\ n + 1 \in 0..N BY <1>3
  <2>2. Sweeps(base, a, i, at) /\ Goes(a, b, i, o, at) BY <1>2, <2>1 DEF Toured
  <2>3. a.s.orders[o].status \in Working /\ Carries(acc.s, acc.rows, a.s, a.rows) BY <1>2, <1>5
  <2> HIDE DEF a, b, o, S
  <2>4. Carries(a.s, a.rows, b.s, b.rows)
    <3>1. AccTyped(a) /\ o \in DOMAIN a.s.orders BY <2>2 DEF Sweeps, Goes
    <3>2. CASE b = a BY <3>2, CarriesSame
    <3>3. CASE b # a
      <4>1. Turned(a, b, o, at) BY <2>2, <3>3 DEF Goes
      <4> QED BY <2>3, <3>1, <4>1, TurnCarries
    <3> QED BY <3>2, <3>3
  <2>5. Carries(acc.s, acc.rows, b.s, b.rows) BY <2>3, <2>4, CarriesThen
  <2> QED BY <2>1, <2>5 DEF S, b
<1>6. \A n \in 0..N : n \in S
  <2> HIDE DEF S, N
  <2> QED BY <1>3, <1>4, <1>5, UpTo
<1> QED BY <1>2, <1>3, <1>6

\* What a market event does to the status of an order is an edge, and so is what ends in
\* the middle of one.
LEMMA TradesLive ==
  ASSUME NEW from, NEW to, Trades(from, to)
  PROVE  (from = to \/ Logged!Edge(from, to)) /\ (from \in Lived => to \in Lived)
BY DEF Trades, Working, Logged!Edge, Logged!Allowed, Lived

\* No edge leads out of these.
LEMMA EdgeLives ==
  ASSUME NEW from \in Lived, NEW to, Logged!Edge(from, to)
  PROVE  to \in Lived /\ to \in Logged!Statuses
<1>1. from = Absent => Logged!Allowed(from) = {}
  BY AbsentAssumption DEF Logged!Allowed, Lifecycle!Statuses, Lifecycle!Closed
<1> QED BY <1>1 DEF Lived, Logged!Edge, Logged!Allowed, Logged!Statuses, Logged!Closed

\* A group that moves orders by edges leaves only statuses that submission reaches.
LEMMA MovedOrderly ==
  ASSUME NEW s, Orderly(s), NEW rows, NEW t, Moved(s, rows, t)
  PROVE  Orderly(t)
BY EdgeLives DEF Orderly, Moved

\* So does each turn of a sweep.
LEMMA CarriesOrderly ==
  ASSUME NEW s, NEW rows, NEW t, NEW more, Orderly(s), Carries(s, rows, t, more)
  PROVE  Orderly(t)
BY TradesLive DEF Orderly, Carries

\* A market event moves its orders.
LEMMA CarriedMoved ==
  ASSUME NEW s, NEW t, NEW rows, Carries(s, <<>>, t, rows)
  PROVE  Moved(s, rows, t)
BY StoryNothing, TradesLive DEF Carries, Moved

\* An operation that moves no order.
LEMMA MovedNothing ==
  ASSUME NEW s, NEW rows, NEW t, t.orders = s.orders,
         \A n \in 1..Len(rows) : rows[n].kind # "transition"
  PROVE  Moved(s, rows, t)
BY DEF Moved, Story, IsMove, StatusOf

\* An operation that moves one, by the last of its transitions.
LEMMA MovedOne ==
  ASSUME NEW s, NEW rows, NEW t, NEW o, NEW n \in 1..Len(rows), IsMove(rows[n], o),
         rows[n].to = StatusOf(t, o), Logged!Edge(StatusOf(s, o), StatusOf(t, o)),
         \A m \in (n + 1)..Len(rows) : rows[m].kind # "transition",
         \A m \in 1..Len(rows) : rows[m].kind = "transition" => rows[m].order = o,
         \A q \in Orders \ {o} : StatusOf(t, q) = StatusOf(s, q)
  PROVE  Moved(s, rows, t)
<1>1. Story(rows, o, StatusOf(s, o), StatusOf(t, o)) BY DEF Story, IsMove
<1>2. \A q \in Orders \ {o} : Story(rows, q, StatusOf(s, q), StatusOf(t, q)) BY DEF Story, IsMove
<1> QED BY <1>1, <1>2 DEF Moved

\* An active order is at work.
LEMMA ActiveWorks ==
  ASSUME NEW s, Good(s), Orderly(s), NEW i \in Instruments
  PROVE  \A o \in s.active[i] : s.orders[o].status \in Working
<1> SUFFICES ASSUME NEW o \in s.active[i] PROVE s.orders[o].status \in Working OBVIOUS
<1>1. o \in On(s, i) /\ Lifecycle!Executable(s.orders[o].status) BY DEF Good, Indexed
<1>2. o \in DOMAIN s.orders /\ o \in Orders BY <1>1, TypedParts DEF On, Good
<1>3. s.orders[o].status \in Lived /\ s.orders[o].status # Absent
  <2>1. s.orders[o].status \in Logged!Statuses BY <1>2, TypedParts, RecordParts DEF Good
  <2> QED BY <1>2, <2>1, SameStatuses, AbsentAssumption DEF Orderly, StatusOf
<1> QED BY <1>1, <1>3 DEF Lived, Working, Lifecycle!Executable, Lifecycle!Closed

\* What rows tell of two stretches of a sweep, one after the other, they tell of both.
LEMMA TradedThen ==
  ASSUME NEW s, NEW rows, NEW t, NEW more, NEW u, NEW most,
         Traded(s, rows, t, more), Traded(t, more, u, most)
  PROVE  Traded(s, rows, u, most)
BY CarriesOrderly, CarriesThen DEF Traded

------------------------------
(* What the rows say of the fills *)

\* Rows that grow go on growing.
LEMMA GrowsThen ==
  ASSUME NEW rows, NEW more, NEW most, Grows(rows, more), Grows(more, most)
  PROVE  /\ Grows(rows, most)
         /\ \A n \in Later(rows, more) : n \in Later(rows, most) /\ most[n] = more[n]
         /\ \A n \in Later(more, most) : n \in Later(rows, most)
         /\ \A n \in Later(rows, most) : n \in Later(rows, more) \/ n \in Later(more, most)
BY DEF Grows, Later

\* What a row says it says in longer rows.
LEMMA LawfulMore ==
  ASSUME NEW s, NEW rows, NEW more, Grows(rows, more), NEW n \in 1..Len(rows),
         Lawful(s, rows, n)
  PROVE  Lawful(s, more, n)
<1>1. more[n] = rows[n] /\ \A m \in 1..(n - 1) : more[m] = rows[m] BY DEF Grows
<1> QED BY <1>1 DEF Lawful, Tripped

\* And of another state that has the record of the order.
LEMMA LawfulSame ==
  ASSUME NEW s, NEW t, NEW rows, NEW n, Lawful(t, rows, n),
         rows[n].fill.order \in DOMAIN s.orders,
         s.orders[rows[n].fill.order] = t.orders[rows[n].fill.order]
  PROVE  Lawful(s, rows, n)
BY DEF Lawful

\* Nothing has happened.
LEMMA ConductedSame ==
  ASSUME NEW s, NEW t, t.orders = s.orders, NEW rows \in Seq(RowType), NEW who, NEW at
  PROVE  Conducted(s, rows, t, rows, who, at)
<1>1. Grows(rows, rows) /\ Later(rows, rows) = {}
  <2> HIDE DEF RowType
  <2>1. Len(rows) \in Nat OBVIOUS
  <2> QED BY <2>1 DEF Grows, Later
<1> QED BY <1>1 DEF Conducted, SameOrder

\* More orders have turns, whose records were left alone before.
LEMMA ConductedThen ==
  ASSUME NEW s, NEW rows, NEW t, NEW more, NEW u, NEW most, NEW at, NEW who,
         NEW some \in SUBSET who, Conducted(s, rows, t, more, who, at),
         Conducted(t, more, u, most, some, at), \A o \in some : t.orders[o] = s.orders[o]
  PROVE  Conducted(s, rows, u, most, who, at)
<1>1. /\ Grows(rows, more) /\ Grows(more, most) /\ Grows(rows, most)
      /\ \A n \in Later(rows, more) : n \in Later(rows, most) /\ most[n] = more[n]
      /\ \A n \in Later(more, most) : n \in Later(rows, most)
      /\ \A n \in Later(rows, most) : n \in Later(rows, more) \/ n \in Later(more, most)
  BY GrowsThen DEF Conducted
<1>2. DOMAIN t.orders = DOMAIN s.orders /\ DOMAIN u.orders = DOMAIN t.orders BY DEF Conducted
<1>3. ASSUME NEW o \in DOMAIN s.orders
      PROVE  /\ SameOrder(s.orders[o], u.orders[o])
             /\ u.orders[o].triggered =>
                   s.orders[o].triggered \/ (o \in who /\ Latched(rows, most, o, at))
  <2>1. SameOrder(s.orders[o], t.orders[o]) /\ SameOrder(t.orders[o], u.orders[o])
    BY <1>2 DEF Conducted
  <2>2. u.orders[o].triggered =>
           t.orders[o].triggered \/ (o \in some /\ Latched(more, most, o, at))
    BY <1>2 DEF Conducted
  <2>3. t.orders[o].triggered =>
           s.orders[o].triggered \/ (o \in who /\ Latched(rows, more, o, at))
    BY DEF Conducted
  <2>4. Latched(rows, more, o, at) \/ Latched(more, most, o, at) => Latched(rows, most, o, at)
    BY <1>1 DEF Latched
  <2> QED BY <2>1, <2>2, <2>3, <2>4 DEF SameOrder
<1>4. ASSUME NEW n \in Later(rows, most), most[n].kind = "fill"
      PROVE  Lawful(s, most, n) /\ most[n].fill.at = at /\ most[n].fill.order \in who
  <2>1. CASE n \in Later(rows, more)
    <3>1. /\ Lawful(s, more, n) /\ more[n].fill.at = at /\ most[n] = more[n]
          /\ more[n].fill.order \in who
      BY <1>1, <1>4, <2>1 DEF Conducted
    <3>2. n \in 1..Len(more) BY <1>1, <2>1 DEF Grows, Later
    <3> QED BY <1>1, <3>1, <3>2, LawfulMore
  <2>2. CASE n \in Later(more, most)
    <3>1. Lawful(t, most, n) /\ most[n].fill.at = at /\ most[n].fill.order \in some
      BY <1>4, <2>2 DEF Conducted
    <3>2. most[n].fill.order \in DOMAIN s.orders BY <1>2, <3>1 DEF Lawful
    <3> QED BY <3>1, <3>2, LawfulSame
  <2> QED BY <1>1, <2>1, <2>2
<1> QED BY <1>1, <1>2, <1>3, <1>4 DEF Conducted

\* One row more, and two.
LEMMA GrowsByOne ==
  ASSUME NEW rows \in Seq(RowType), NEW x \in RowType, NEW more, more = Append(rows, x)
  PROVE  /\ more \in Seq(RowType) /\ Grows(rows, more) /\ Len(more) = Len(rows) + 1
         /\ Later(rows, more) = {Len(more)} /\ more[Len(more)] = x
<1> HIDE DEF RowType
<1>1. /\ more \in Seq(RowType) /\ Len(rows) \in Nat /\ Len(more) = Len(rows) + 1
      /\ more[Len(rows) + 1] = x /\ \A n \in 1..Len(rows) : more[n] = rows[n]
  OBVIOUS
<1>2. Grows(rows, more) BY <1>1 DEF Grows
<1>3. Later(rows, more) = {Len(more)} BY <1>1 DEF Later
<1> QED BY <1>1, <1>2, <1>3

\* A row that tells of no fill and of no stop the state does not know.
LEMMA ConductedOne ==
  ASSUME NEW s, NEW rows \in Seq(RowType), NEW t, NEW x \in RowType, NEW who, NEW at,
         x.kind # "fill", DOMAIN t.orders = DOMAIN s.orders,
         \A o \in DOMAIN s.orders :
            /\ SameOrder(s.orders[o], t.orders[o])
            /\ t.orders[o].triggered =>
                  s.orders[o].triggered \/ (o \in who /\ Stopped(x, o) /\ x.at = at)
  PROVE  Conducted(s, rows, t, Append(rows, x), who, at)
<1> DEFINE more == Append(rows, x)
<1>1. Grows(rows, more) /\ Later(rows, more) = {Len(more)} /\ more[Len(more)] = x BY GrowsByOne
<1> HIDE DEF more
<1> QED BY <1>1 DEF Conducted, Latched, more

\* The turn of an order at work is conducted, and tells of no other order's fills.
LEMMA TurnConducts ==
  ASSUME NEW a, AccTyped(a), NEW b, NEW o \in DOMAIN a.s.orders, NEW at \in Times,
         a.s.orders[o].status \notin Lifecycle!Closed, Sized(a.s.orders[o]),
         Turned(a, b, o, at)
  PROVE  Conducted(a.s, a.rows, b.s, b.rows, {o}, at)
<1> DEFINE r == a.s.orders[o]
           k == b.s.orders[o]
<1>0. \A rows \in Seq(RowType), x \in RowType : \A m : m = Append(rows, x)
         => /\ m \in Seq(RowType) /\ Grows(rows, m)
            /\ Later(rows, m) = {Len(m)} /\ m[Len(m)] = x
  BY ONLY GrowsByOne
<1>1. /\ a.rows \in Seq(RowType) /\ r \in OrderRecord /\ o \in Orders
      /\ a.s.orders \in [DOMAIN a.s.orders -> OrderRecord]
  BY AccParts
<1>2. /\ AccTyped(b) /\ b.s.orders = [a.s.orders EXCEPT ![o] = k] /\ SameOrder(r, k)
      /\ \/ Still(a, b)
         \/ Expires(a, b, o, r, k, at)
         \/ Latches(a, b, o, r, k, at)
         \/ \E f \in FillType : Deals(a, b, o, r, k, f, at)
  BY DEF Turned
<1>3. /\ DOMAIN b.s.orders = DOMAIN a.s.orders /\ b.rows \in Seq(RowType)
      /\ \A q \in DOMAIN a.s.orders : q # o => b.s.orders[q] = a.s.orders[q]
  BY <1>1, <1>2 DEF AccTyped
<1>4. r.status \in Logged!Statuses /\ k.status \in Logged!Statuses
      /\ "expired" \in Logged!Statuses
  <2>1. o \in DOMAIN b.s.orders BY <1>3
  <2>2. k \in OrderRecord BY <1>2, <2>1, AccParts
  <2>3. "expired" \in Logged!Statuses BY DEF Logged!Statuses, Logged!Closed
  <2> QED BY <1>1, <2>2, <2>3, RecordParts
<1>5. /\ StopRow(o, at) \in RowType /\ StopRow(o, at).kind = "stop_triggered"
      /\ StopRow(o, at).order = o /\ StopRow(o, at).at = at
      /\ \A from, to \in Logged!Statuses : /\ TransitionRow(o, from, to, at) \in RowType
                                           /\ TransitionRow(o, from, to, at).kind = "transition"
  <2>1. \A from, to \in Logged!Statuses : TransitionRow(o, from, to, at) \in RowType
                                          /\ StopRow(o, at) \in RowType
    BY <1>1, RowsTyped
  <2> QED BY <1>4, <2>1 DEF StopRow, TransitionRow
<1>6. r.status \notin Lifecycle!Closed /\ Sized(r) OBVIOUS
<1> HIDE DEF r, k
<1>7. CASE Still(a, b)
  <2>1. b.rows = a.rows /\ b.s.orders = a.s.orders BY <1>7 DEF Still
  <2> QED BY <1>1, <2>1, ConductedSame
<1>8. ASSUME NEW x \in RowType, x.kind # "fill", b.rows = Append(a.rows, x),
             k.triggered => r.triggered \/ (Stopped(x, o) /\ x.at = at)
      PROVE  Conducted(a.s, a.rows, b.s, b.rows, {o}, at)
  <2>1. ASSUME NEW q \in DOMAIN a.s.orders
        PROVE  /\ SameOrder(a.s.orders[q], b.s.orders[q])
               /\ b.s.orders[q].triggered =>
                     a.s.orders[q].triggered \/ (q \in {o} /\ Stopped(x, q) /\ x.at = at)
    <3>1. CASE q = o BY <1>2, <1>8, <3>1 DEF r, k
    <3>2. CASE q # o BY <1>3, <3>2 DEF SameOrder
    <3> QED BY <3>1, <3>2
  <2> QED BY <1>1, <1>3, <1>8, <2>1, ConductedOne
<1>9. CASE Expires(a, b, o, r, k, at)
  <2>1. /\ b.rows = Append(a.rows, TransitionRow(o, r.status, "expired", at))
        /\ k.triggered = r.triggered
    BY <1>9 DEF Expires
  <2>2. TransitionRow(o, r.status, "expired", at) \in RowType
        /\ TransitionRow(o, r.status, "expired", at).kind # "fill"
    BY <1>4, <1>5
  <2> QED BY <1>3, <1>8, <2>1, <2>2
<1>10. CASE Latches(a, b, o, r, k, at)
  <2>1. b.rows = Append(a.rows, StopRow(o, at)) BY <1>10 DEF Latches
  <2>2. Stopped(StopRow(o, at), o) /\ StopRow(o, at).kind # "fill" BY <1>5 DEF Stopped
  <2> QED BY <1>3, <1>5, <1>8, <2>1, <2>2
<1>11. ASSUME NEW f \in FillType, Deals(a, b, o, r, k, f, at)
       PROVE  Conducted(a.s, a.rows, b.s, b.rows, {o}, at)
  <2> DEFINE x == TransitionRow(o, r.status, k.status, at)
             y == FillRow(f, r.status, k.status, at, k)
             z == StopRow(o, at)
  <2>1. /\ InTime(r, at) /\ f.order = o /\ f.at = at /\ RespectsPrices(r.intent, f.price)
        /\ r.intent.notional = 0 => r.filled + f.quantity <= r.intent.quantity
        /\ r.intent.notional > 0 => Money(f) <= r.remaining
        /\ k.filled = r.filled + f.quantity /\ k.spent = r.spent + Money(f)
        /\ r.intent.type = "stop" => k.triggered
        /\ r.intent.type = "stop_limit" => r.triggered
    BY <1>11 DEF Deals, Sold, Grew, Affords
  <2>2. PICK pre \in {a.rows, Append(a.rows, z)} :
           /\ b.rows = pre \o <<x, y>>
           /\ pre # a.rows => ~ r.triggered /\ r.intent.type = "stop" /\ k.triggered
           /\ pre = a.rows => k.triggered = r.triggered
    BY <1>11 DEF Deals
  <2>3. /\ x \in RowType /\ x.kind = "transition" /\ y \in RowType /\ y.kind = "fill"
        /\ y.fill = f /\ y.from = r.status /\ y.filled = k.filled /\ y.spent = k.spent
        /\ ~ y.external
        /\ z \in RowType /\ Stopped(z, o) /\ z.at = at
    <3>1. y \in RowType
      <4>1. k \in OrderRecord BY <1>2, <1>3, AccParts DEF k
      <4>2. f.order = o BY <2>1
      <4> QED BY <1>1, <1>4, <4>1, <4>2, RowsTyped
    <3> QED BY <1>4, <1>5, <3>1 DEF FillRow, Stopped
  <2>4. Keeps(y, r)
    <3>1. r.intent.notional > 0 => k.spent <= r.intent.notional
      <4>1. r.spent \in Nat /\ r.remaining \in Nat BY <1>1, RecordParts
      <4>2. Money(f) \in Nat
        <5>1. f.quantity \in Nat /\ f.price \in Nat BY DEF FillType
        <5> QED BY <5>1, Product DEF Money
      <4>3. r.intent.notional > 0 => r.remaining + r.spent = r.intent.notional BY <1>6 DEF Sized
      <4> DEFINE m == Money(f)
      <4> HIDE DEF m
      <4>4. m \in Nat /\ (r.intent.notional > 0 => m <= r.remaining) /\ k.spent = r.spent + m
        BY <2>1, <4>2 DEF m
      <4> QED BY <4>1, <4>3, <4>4
    <3>2. InTime(r, y.fill.at) BY <2>1, <2>3
    <3> HIDE DEF y
    <3> QED BY <1>6, <2>1, <2>3, <3>1, <3>2 DEF Keeps
  <2> HIDE DEF x, y, z, RowType
  <2>5. pre \in Seq(RowType) /\ Grows(a.rows, pre)
        /\ (pre # a.rows => pre = Append(a.rows, z) /\ Later(a.rows, pre) = {Len(pre)}
                            /\ pre[Len(pre)] = z)
        /\ (pre = a.rows => Later(a.rows, pre) = {})
    <3>1. CASE pre = a.rows
      <4>1. Len(a.rows) \in Nat BY <1>1
      <4> QED BY <1>1, <3>1, <4>1 DEF Grows, Later
    <3>2. CASE pre # a.rows
      <4>1. pre = Append(a.rows, z) BY <2>2, <3>2
      <4>2. \A m : m = Append(a.rows, z)
                     => m \in Seq(RowType) /\ Grows(a.rows, m) /\ Later(a.rows, m) = {Len(m)}
                        /\ m[Len(m)] = z
        BY ONLY <1>0, <1>1, <2>3
      <4> QED BY <3>2, <4>1, <4>2
    <3> QED BY <3>1, <3>2
  <2> DEFINE p == Len(pre)
             all == b.rows
  <2>6. /\ p \in Nat /\ Len(all) = p + 2 /\ all[p + 1] = x /\ all[p + 2] = y
        /\ \A n \in 1..p : all[n] = pre[n]
    <3>1. /\ Len(pre \o <<x, y>>) = p + 2 /\ (pre \o <<x, y>>)[p + 1] = x
          /\ (pre \o <<x, y>>)[p + 2] = y
          /\ \A n \in 1..p : (pre \o <<x, y>>)[n] = pre[n]
          /\ p \in Nat
      BY <2>3, <2>5
    <3> QED BY <2>2, <3>1
  <2>7. Grows(a.rows, all) /\ Later(a.rows, all) = Later(a.rows, pre) \cup {p + 1, p + 2}
    <3>1. Len(a.rows) \in Nat /\ Len(a.rows) <= p /\ \A n \in 1..Len(a.rows) : pre[n] = a.rows[n]
      BY <2>5 DEF Grows
    <3> HIDE DEF p, all
    <3>2. Grows(a.rows, all) BY <2>6, <3>1 DEF Grows
    <3>3. Later(a.rows, all) = Later(a.rows, pre) \cup {p + 1, p + 2} BY <2>6, <3>1 DEF Later, p
    <3> QED BY <3>2, <3>3
  <2>8. \A n \in Later(a.rows, pre) : n = p /\ n \in 1..p /\ pre # a.rows /\ Stopped(all[n], o)
                                      /\ all[n].at = at /\ all[n].kind # "fill"
    <3>1. \A n \in Later(a.rows, pre) : pre # a.rows /\ n = p /\ n \in 1..p /\ pre[n] = z
      <4> SUFFICES ASSUME NEW n \in Later(a.rows, pre)
                   PROVE  pre # a.rows /\ n = p /\ n \in 1..p /\ pre[n] = z
        OBVIOUS
      <4>1. pre # a.rows /\ n = p /\ pre[n] = z BY <2>5
      <4>2. n \in (Len(a.rows) + 1)..p /\ Len(a.rows) \in Nat BY <2>5 DEF Later, Grows
      <4> QED BY <4>1, <4>2
    <3> QED BY <2>3, <2>6, <3>1 DEF Stopped
  <2>9. \A n \in Later(a.rows, all) : all[n].kind = "fill" => n = p + 2 BY <2>3, <2>6, <2>7, <2>8
  <2>10. Lawful(a.s, all, p + 2)
    <3>1. all[p + 2].fill.order = o /\ Keeps(all[p + 2], a.s.orders[o])
      BY <2>1, <2>3, <2>4, <2>6 DEF r
    <3>2. Tripped(all, p + 2, a.s.orders[o])
      <4>1. CASE r.intent.type # "stop" BY <4>1 DEF Tripped, r
      <4>2. CASE r.intent.type = "stop" /\ pre = a.rows BY <2>1, <2>2, <4>2 DEF Tripped, r
      <4>3. CASE pre # a.rows
        <5>1. p \in Later(a.rows, pre) BY <2>5, <4>3
        <5>2. p \in 1..((p + 2) - 1) /\ Stopped(all[p], o) BY <2>6, <2>8, <5>1
        <5> QED BY <3>1, <5>2 DEF Tripped
      <4> QED BY <4>1, <4>2, <4>3
    <3> QED BY <3>1, <3>2 DEF Lawful
  <2>11. /\ SameOrder(a.s.orders[o], b.s.orders[o])
         /\ b.s.orders[o].triggered =>
               a.s.orders[o].triggered \/ Latched(a.rows, all, o, at)
    <3>1. CASE pre = a.rows BY <1>2, <2>2, <3>1 DEF r, k
    <3>2. CASE pre # a.rows
      <4>1. p \in Later(a.rows, pre) BY <2>5, <3>2
      <4>2. p \in Later(a.rows, all) /\ Stopped(all[p], o) /\ all[p].at = at BY <2>7, <2>8, <4>1
      <4> QED BY <1>2, <4>2 DEF r, k, Latched
    <3> QED BY <3>1, <3>2
  <2>12. \A q \in DOMAIN a.s.orders :
           /\ SameOrder(a.s.orders[q], b.s.orders[q])
           /\ b.s.orders[q].triggered =>
                 a.s.orders[q].triggered \/ (q \in {o} /\ Latched(a.rows, all, q, at))
    BY <1>3, <2>11 DEF SameOrder
  <2>13. \A n \in Later(a.rows, all) : all[n].kind = "fill" =>
            Lawful(a.s, all, n) /\ all[n].fill.at = at /\ all[n].fill.order \in {o}
    BY <2>1, <2>3, <2>6, <2>9, <2>10
  <2> HIDE DEF all
  <2>14. Conducted(a.s, a.rows, b.s, all, {o}, at) BY <1>3, <2>7, <2>12, <2>13 DEF Conducted
  <2> QED BY <2>14 DEF all
<1> QED BY <1>2, <1>3, <1>7, <1>9, <1>10, <1>11

\* A sweep is conducted.
LEMMA SweepConducts ==
  ASSUME NEW acc, NEW i \in Instruments, Sweepable(acc, i), NEW at \in Times,
         NEW bar \in BarType,
         \A o \in acc.s.active[i] : acc.s.orders[o].status \notin Lifecycle!Closed,
         \A o \in DOMAIN acc.s.orders : Sized(acc.s.orders[o]),
         NEW end, end = Sweep(acc, i, bar, at)
  PROVE  Conducted(acc.s, acc.rows, end.s, end.rows, acc.s.active[i], at)
<1> DEFINE ids == InOrder(acc.s.active[i])
           base == Swept(acc, bar)
           who == acc.s.active[i]
           N == Len(ids)
<1>0. acc.rows \in Seq(RowType) BY DEF Sweepable
<1>0a. Waiting(acc, i, bar, at) BY Zenon, SweepWaits
<1>1. ids \in Seq(who) /\ base.rows = acc.rows /\ base.s = acc.s BY <1>0a DEF Waiting
<1>2. PICK path :
         /\ Toured(base, ids, path, i, at) /\ path[N] = Sweep(acc, i, bar, at)
         /\ \A n \in 0..(N - 1) :
               /\ ids[n + 1] \in who /\ ids[n + 1] \in DOMAIN acc.s.orders
               /\ path[n].s.orders[ids[n + 1]] = acc.s.orders[ids[n + 1]]
  BY ONLY Zenon, <1>0a DEF Waiting
<1> HIDE DEF base
<1>3. N \in Nat BY <1>1
<1> HIDE DEF ids, who
<1> DEFINE S == {n \in 0..N : Conducted(acc.s, acc.rows, path[n].s, path[n].rows, who, at)}
<1>4. 0 \in S
  <2>1. path[0].s = acc.s /\ path[0].rows = acc.rows BY <1>1, <1>2 DEF Toured
  <2>2. Conducted(acc.s, acc.rows, path[0].s, path[0].rows, who, at) BY <1>0, <2>1, ConductedSame
  <2> QED BY <1>3, <2>2
<1>5. ASSUME NEW n \in 0..(N - 1), n \in S PROVE n + 1 \in S
  <2> DEFINE a == path[n]
             b == path[n + 1]
             o == ids[n + 1]
  <2>1. n \in 0..N /\ n + 1 \in 0..N BY <1>3
  <2>2. Sweeps(base, a, i, at) /\ Goes(a, b, i, o, at) BY <1>2, <2>1 DEF Toured
  <2>3. /\ a.s.orders[o] = acc.s.orders[o] /\ a.s.orders[o].status \notin Lifecycle!Closed
        /\ Sized(a.s.orders[o]) /\ o \in who /\ Conducted(acc.s, acc.rows, a.s, a.rows, who, at)
    BY <1>2, <1>5 DEF who
  <2> HIDE DEF a, b, o, S
  <2>4. Conducted(a.s, a.rows, b.s, b.rows, {o}, at)
    <3>1. AccTyped(a) /\ o \in DOMAIN a.s.orders /\ a.rows \in Seq(RowType)
      <4>1. AccTyped(a) /\ o \in DOMAIN a.s.orders BY <2>2 DEF Sweeps, Goes
      <4> QED BY <4>1 DEF AccTyped
    <3>2. CASE b = a BY <3>1, <3>2, ConductedSame
    <3>3. CASE b # a
      <4>1. Turned(a, b, o, at) BY <2>2, <3>3 DEF Goes
      <4> QED BY <2>3, <3>1, <4>1, TurnConducts
    <3> QED BY <3>2, <3>3
  <2>5. Conducted(acc.s, acc.rows, b.s, b.rows, who, at)
    <3>1. {o} \in SUBSET who /\ \A q \in {o} : a.s.orders[q] = acc.s.orders[q] BY <2>3
    <3> QED BY <2>3, <2>4, <3>1, ConductedThen
  <2> QED BY <2>1, <2>5 DEF S, b
<1>6. \A n \in 0..N : n \in S
  <2> HIDE DEF S, N
  <2> QED BY <1>3, <1>4, <1>5, UpTo
<1> QED BY <1>2, <1>3, <1>6 DEF who

\* Conduct is not hurt by orders that might have had a turn.
LEMMA ConductedWider ==
  ASSUME NEW s, NEW rows, NEW t, NEW more, NEW at, NEW all, NEW who \in SUBSET all,
         Conducted(s, rows, t, more, who, at)
  PROVE  Conducted(s, rows, t, more, all, at)
BY DEF Conducted

\* Nothing has happened but a row that tells of neither fill nor stop.
LEMMA ActedSame ==
  ASSUME NEW s, NEW rows \in Seq(RowType), NEW x \in RowType, x.kind # "fill", NEW at
  PROVE  Acted(s, rows, s, rows, {}, at) /\ Acted(s, rows, s, Append(rows, x), {}, at)
<1> DEFINE more == Append(rows, x)
<1>1. Conducted(s, rows, s, rows, Placed(s, {}), at) BY ConductedSame
<1>2. Conducted(s, rows, s, more, Placed(s, {}), at) BY ConductedOne DEF SameOrder
<1> HIDE DEF more
<1>3. Acts(s, rows, s, rows, {}, at) /\ Acts(s, rows, s, more, {}, at) BY <1>1, <1>2 DEF Acts
<1> QED BY <1>3 DEF Acted, more

\* A sweep between the opening of an observation and its row.
LEMMA SweepActs ==
  ASSUME NEW s, NEW t, t.orders = s.orders, t.seen = s.seen, NEW rows \in Seq(RowType),
         NEW i \in Instruments, NEW who \in SUBSET Placed(s, {i}), NEW v, NEW at,
         NEW more \in Seq(RowType), Conducted(t, rows, v, more, who, at),
         OrdersMarch(t.orders, v.orders, who), v.seen = t.seen,
         NEW u, u.orders = v.orders, Beside(v.seen, u.seen, {i}), u.seen[i].at = at,
         NEW x \in RowType, x.kind # "fill"
  PROVE  Acts(s, rows, u, Append(more, x), {i}, at)
<1> DEFINE most == Append(more, x)
           all == Placed(s, {i})
<1>1. Conducted(v, more, u, most, {}, at) BY ConductedOne DEF SameOrder
<1>2. Conducted(s, rows, v, more, who, at) BY DEF Conducted, Lawful
<1> HIDE DEF most, all
<1>3. Conducted(s, rows, u, most, who, at) BY <1>1, <1>2, ConductedThen
<1>4. Conducted(s, rows, u, most, all, at) BY <1>3, ConductedWider DEF all
<1>5. \A o \in DOMAIN s.orders \ all : u.orders[o] = s.orders[o] BY DEF OrdersMarch, all
<1>6. \A j \in Instruments \ {i} : u.seen[j] = s.seen[j] BY DEF Beside
<1> QED BY <1>4, <1>5, <1>6 DEF Acts, all, most

\* The orders on more instruments have turns.
LEMMA ActedThen ==
  ASSUME NEW s, NEW rows, NEW t, NEW more, NEW u, NEW most, NEW at,
         NEW is \in SUBSET Instruments, NEW js, is \cap js = {}, Pays(s, t),
         Acted(s, rows, t, more, is, at), Acted(t, more, u, most, js, at)
  PROVE  Acted(s, rows, u, most, is \cup js, at)
<1> SUFFICES ASSUME Solvent(s) PROVE Acts(s, rows, u, most, is \cup js, at) BY DEF Acted
<1>1. Acts(s, rows, t, more, is, at) /\ Acts(t, more, u, most, js, at) BY DEF Acted, Pays
<1> DEFINE all == Placed(s, is \cup js)
           some == Placed(t, js)
<1>2. /\ DOMAIN t.orders = DOMAIN s.orders
      /\ \A o \in DOMAIN s.orders : SameOrder(s.orders[o], t.orders[o])
  BY <1>1 DEF Acts, Conducted
<1>3. some = Placed(s, js) /\ Placed(s, is) \subseteq all /\ Placed(s, js) \subseteq all
  BY <1>2 DEF Placed, SameOrder
<1>4. \A o \in some : t.orders[o] = s.orders[o] BY <1>1, <1>3 DEF Acts, Placed
<1>5. Conducted(s, rows, u, most, all, at)
  <2>1. /\ Conducted(s, rows, t, more, Placed(s, is), at)
        /\ Conducted(t, more, u, most, some, at)
    BY <1>1 DEF Acts
  <2> HIDE DEF all, some
  <2>2. Conducted(s, rows, t, more, all, at) BY <1>3, <2>1, ConductedWider
  <2> QED BY <1>3, <1>4, <2>1, <2>2, ConductedThen
<1>6. \A o \in DOMAIN s.orders \ all : u.orders[o] = s.orders[o]
  <2> SUFFICES ASSUME NEW o \in DOMAIN s.orders, o \notin all PROVE u.orders[o] = s.orders[o]
    OBVIOUS
  <2>1. o \notin Placed(s, is) /\ o \notin some /\ o \in DOMAIN t.orders BY <1>2, <1>3
  <2> HIDE DEF all, some
  <2> QED BY <1>1, <2>1 DEF Acts, some
<1>7. \A i \in is \cup js : u.seen[i].at = at
  <2> SUFFICES ASSUME NEW i \in is \cup js PROVE u.seen[i].at = at OBVIOUS
  <2>1. CASE i \in js BY <1>1, <2>1 DEF Acts
  <2>2. CASE i \in is /\ i \in Instruments
    <3>1. u.seen[i] = t.seen[i] BY <1>1, <2>2 DEF Acts
    <3> QED BY <1>1, <2>2, <3>1 DEF Acts
  <2> QED BY <2>1, <2>2
<1>8. \A i \in Instruments \ (is \cup js) : u.seen[i] = s.seen[i] BY <1>1 DEF Acts
<1> QED BY <1>5, <1>6, <1>7, <1>8 DEF Acts

------------------------------
(* A market event *)

\* A state is within its own frame.
LEMMA FrameSame ==
  ASSUME NEW s, Typed(s), NEW O, NEW C, NEW I
  PROVE  Frame(s, s, O, C, I)
<1>1. Extends(s, s) BY TypedParts, ExtendsSame
<1> QED BY <1>1 DEF Frame, Beside

\* A state that is good is kept as it is.
LEMMA KeptSame ==
  ASSUME NEW s, Good(s)
  PROVE  Kept(s, s)
<1>1. s.latest \in Nat BY TypedParts, TimesAreInstants DEF Good
<1>2. Pays(s, s) BY SamePays
<1> QED BY <1>1, <1>2 DEF Kept

\* Observe is the end of an observation on what the sweep left.
LEMMA ObserveIs ==
  ASSUME NEW swept, swept.ok = TRUE, NEW input, NEW at, NEW v, v = swept.s, IsState(v),
         NEW i, i = input.instrument, NEW active,
         active = {o \in v.active[i] : Lifecycle!Executable(v.orders[o].status)},
         NEW seen, seen = [at |-> at, close |-> input.bar.close, bars |-> v.seen[i].bars + 1],
         NEW x, x = [kind |-> "observed", instrument |-> i, bar |-> input.bar,
                     seen |-> seen, at |-> at]
  PROVE  Observes(swept, input, at, v, i, active, seen, x)
<1> DEFINE u == [swept.s EXCEPT !.active = [@ EXCEPT ![i] = active],
                                !.seen = [@ EXCEPT ![i] = seen], !.latest = Larger(@, at),
                                !.lastKey = [at |-> at, instrument |-> i]]
<1>1. Observe(swept, input, at) = Done(u, Append(swept.rows, x)) BY DEF Observe
<1>2. u = [v EXCEPT !.active = [v.active EXCEPT ![i] = active],
                    !.seen = [v.seen EXCEPT ![i] = seen], !.latest = Larger(v.latest, at),
                    !.lastKey = [at |-> at, instrument |-> i]]
  BY DEF IsState
<1> QED BY <1>1, <1>2 DEF Observes

\* An input.
LEMMA InputDoes ==
  ASSUME NEW a, IsResult(a), a.ok = TRUE, Good(a.s), a.rows \in Seq(RowType),
         NEW input, IsInput(input), NEW at \in Times,
         NEW O, a.s.active[input.instrument] \subseteq O, NEW C, NEW I, input.instrument \in I
  PROVE  InputDone(a, MarketInput(a, input, at), input, at, O, C, I)
<1> DEFINE i == input.instrument
           b == MarketInput(a, input, at)
<1>1. i \in Instruments /\ Typed(a.s) /\ at \in Instants BY TimesAreInstants DEF IsInput, Good
<1>2. CASE input.duplicate
  <2> DEFINE x == [kind |-> "duplicate_snapshot", instrument |-> i, seen |-> a.s.seen[i], at |-> at]
             rows == Append(a.rows, x)
  <2>1. b = [a EXCEPT !.rows = rows] BY <1>2 DEF MarketInput
  <2>2. x \in RowType
    <3>1. a.s.seen[i] \in SeenType BY <1>1, TypedParts
    <3> QED BY <1>1, <3>1 DEF RowType
  <2>3. About(x, input, at) BY <1>2 DEF About
  <2>2a. x.kind # "fill" /\ x.kind # "transition" OBVIOUS
  <2> HIDE DEF x
  <2>4. rows \in Seq(RowType) /\ Reports(a.rows, rows, input, at)
    BY <2>2, <2>3, TellsNothing DEF Reports
  <2> HIDE DEF rows, b
  <2>5. IsResult(b) /\ b.ok /\ b.s = a.s /\ b.rows = rows
    <3>1. IsResult(a) OBVIOUS
    <3> QED BY <2>1, <3>1 DEF IsResult
  <2>5a. Within(a.rows, rows, i, Ration(input)) BY <1>2, <2>2, <2>2a, WithinSame DEF Ration, rows
  <2>5b. Traded(a.s, a.rows, a.s, rows) BY <2>2, <2>2a, CarriesOne DEF Traded, rows
  <2>5c. Acted(a.s, a.rows, a.s, rows, News(input), at)
    BY <1>2, <2>2, <2>2a, ActedSame DEF News, rows
  <2>6. InputDone(a, b, input, at, O, C, I)
    BY <1>1, <1>2, <2>4, <2>5, <2>5a, <2>5b, <2>5c, FrameSame, KeptSame DEF InputDone
  <2> QED BY <2>6 DEF b
<1>3. CASE ~ input.duplicate
  <2> DEFINE close == input.bar.close
             opened == [a EXCEPT !.s.marks = [@ EXCEPT ![i] = close], !.s.known = @ \cup {i}]
             t == [a.s EXCEPT !.marks = [a.s.marks EXCEPT ![i] = close], !.known = a.s.known \cup {i}]
             swept == Sweep(opened, i, input.bar, at)
             v == swept.s
  <2>1. input.bar \in BarType /\ close \in Nat BY <1>3 DEF IsInput, BarType
  <2>2. Opened(a.s, t, i) BY <1>1, <2>1, OpenedIs
  <2>3. opened.s = t /\ opened.ok = TRUE /\ opened.rows = a.rows
    <3>1. IsResult(a) /\ IsState(a.s) /\ a.ok = TRUE BY <1>1, TypedParts DEF IsState
    <3> QED BY <3>1 DEF IsResult, IsState
  <2>4. b = Observe(swept, input, at) BY <1>3 DEF MarketInput
  <2> HIDE DEF t, opened, swept
  <2>5. /\ Typed(t) /\ t.active = a.s.active /\ t.orders = a.s.orders /\ t.ledger = a.s.ledger
        /\ t.latest = a.s.latest /\ t.events = a.s.events /\ t.ops = a.s.ops
    BY <2>2 DEF Opened
  <2>6. /\ Sweeps(opened, swept, i, at) /\ Within(a.rows, swept.rows, i, Ration(input))
        /\ Traded(a.s, a.rows, v, swept.rows)
        /\ Solvent(a.s) => Conducted(t, a.rows, v, swept.rows, a.s.active[i], at)
    <3>1. /\ IsFiniteSet(a.s.active[i]) /\ a.s.active[i] \subseteq DOMAIN a.s.orders
          /\ \A o \in a.s.active[i] : a.s.orders[o].intent.instrument = i
      BY <1>1, GoodActive
    <3>2. /\ IsFiniteSet(opened.s.active[i]) /\ Typed(opened.s) /\ opened.rows \in Seq(RowType)
          /\ \A o \in opened.s.active[i] : o \in DOMAIN opened.s.orders
                                          /\ opened.s.orders[o].intent.instrument = i
      BY <2>3, <2>5, <3>1
    <3>3. Sweepable(opened, i) BY <2>3, <3>2 DEF Sweepable
    <3>4. Within(opened.rows, swept.rows, i, LiquidityBudget(input.bar.volume))
      BY <1>1, <2>1, <3>3, SweepWithin DEF swept
    <3>5. Traded(a.s, a.rows, v, swept.rows)
      <4> SUFFICES ASSUME Orderly(a.s) PROVE Carries(a.s, a.rows, v, swept.rows) BY DEF Traded
      <4>1. \A o \in opened.s.active[i] : opened.s.orders[o].status \in Working
        BY <1>1, <2>3, <2>5, ActiveWorks
      <4>2. Carries(opened.s, opened.rows, swept.s, swept.rows)
        BY <1>1, <2>1, <3>3, <4>1, SweepCarries DEF swept
      <4>3. \A o : StatusOf(opened.s, o) = StatusOf(a.s, o) BY <2>3, <2>5 DEF StatusOf
      <4> QED BY <2>3, <4>2, <4>3 DEF Carries
    <3>6. ASSUME Solvent(a.s) PROVE Conducted(t, a.rows, v, swept.rows, a.s.active[i], at)
      <4>1. \A o \in DOMAIN opened.s.orders : Sized(opened.s.orders[o])
        BY <2>3, <2>5, <3>6 DEF Solvent
      <4>2. \A o \in opened.s.active[i] :
               opened.s.orders[o].status \notin Lifecycle!Closed
        <5>1. \A o \in a.s.active[i] : Lifecycle!Executable(a.s.orders[o].status)
          BY <1>1 DEF Good, Indexed
        <5> QED BY <2>3, <2>5, <5>1 DEF Lifecycle!Executable, Lifecycle!Closed
      <4>3. Conducted(opened.s, opened.rows, swept.s, swept.rows, opened.s.active[i], at)
        BY <1>1, <2>1, <3>3, <4>1, <4>2, SweepConducts DEF swept
      <4> QED BY <2>3, <2>5, <4>3
    <3> QED BY <1>1, <1>3, <2>1, <2>3, <3>3, <3>4, <3>5, <3>6, SweepSweeps DEF swept, Ration
  <2>7. /\ AccTyped(swept) /\ Aside(t, v) /\ OrdersMarch(t.orders, v.orders, t.active[i])
        /\ Extends(t, v) /\ Positions(v.ledger) \subseteq Positions(t.ledger) \cup {i}
        /\ Tells(a.rows, swept.rows, at) /\ Pays(t, v)
    BY <2>3, <2>6 DEF Sweeps
  <2>8. /\ Typed(v) /\ swept.rows \in Seq(RowType) /\ swept.ok \in BOOLEAN BY <2>7 DEF AccTyped
  <2>9. Frame(a.s, v, O, C, I) BY <1>1, <2>2, <2>7, <2>8, SweptFrame
  <2>10. v.events = a.s.events /\ v.ops = a.s.ops BY <2>5, <2>7 DEF Aside
  <2> HIDE DEF b
  <2>11. CASE ~ swept.ok
    <3>1. b = [ok |-> FALSE, s |-> v, rows |-> <<>>] BY <2>4, <2>11 DEF Observe, Raised
    <3> HIDE DEF v
    <3>2. IsResult(b) /\ b.ok = FALSE /\ b.s = v /\ b.rows = <<>> BY <3>1 DEF IsResult
    <3>3. b.rows \in Seq(RowType) BY <3>2
    <3>4. InputDone(a, b, input, at, O, C, I) BY <2>8, <2>9, <2>10, <3>2, <3>3 DEF InputDone
    <3> QED BY <3>4 DEF b
  <2>12. CASE swept.ok
    <3> DEFINE seen == [at |-> at, close |-> close, bars |-> v.seen[i].bars + 1]
               active == {o \in v.active[i] : Lifecycle!Executable(v.orders[o].status)}
               u == [v EXCEPT !.active = [v.active EXCEPT ![i] = active],
                              !.seen = [v.seen EXCEPT ![i] = seen],
                              !.latest = Larger(v.latest, at),
                              !.lastKey = [at |-> at, instrument |-> i]]
               x == [kind |-> "observed", instrument |-> i, bar |-> input.bar,
                     seen |-> seen, at |-> at]
               rows == Append(swept.rows, x)
    <3>1. b = [ok |-> TRUE, s |-> u, rows |-> rows]
      <4>1. swept.ok = TRUE /\ IsState(v) BY <2>8, <2>12, TypedParts DEF IsState
      <4> HIDE DEF v, active, seen, x
      <4>2. v = swept.s /\ active = {o \in v.active[i] : Lifecycle!Executable(v.orders[o].status)}
            /\ seen = [at |-> at, close |-> input.bar.close, bars |-> v.seen[i].bars + 1]
            /\ x = [kind |-> "observed", instrument |-> i, bar |-> input.bar,
                    seen |-> seen, at |-> at]
        BY DEF v, active, seen, x
      <4>3. Observes(swept, input, at, v, i, active, seen, x)
        <5> HIDE DEF i
        <5> QED BY <4>1, <4>2, ObserveIs DEF i
      <4>4. Observe(swept, input, at) = Done(u, rows) BY <4>3 DEF Observes
      <4> QED BY <2>4, <4>4 DEF Done
    <3>2. seen \in SeenType /\ seen.at = at
      <4>1. v.seen[i] \in SeenType BY <1>1, <2>8, TypedParts
      <4>2. v.seen[i].bars + 1 \in Nat /\ at \in Nat BY <4>1, TimesAreInstants DEF SeenType
      <4> QED BY <2>1, <4>2 DEF SeenType
    <3>3. x \in RowType /\ About(x, input, at) /\ x.kind # "fill" /\ x.kind # "transition"
      <4>1. x \in RowType BY <1>1, <2>1, <3>2 DEF RowType
      <4>2. About(x, input, at) BY <1>3 DEF About
      <4> QED BY <4>1, <4>2
    <3> HIDE DEF x
    <3>4. rows \in Seq(RowType) /\ Reports(a.rows, rows, input, at) BY <2>7, <2>8, <3>3 DEF Reports
    <3>4a. Within(a.rows, rows, i, Ration(input))
      <4>1. \A j : Taken(rows, j) = Taken(swept.rows, j) BY <2>8, <3>3, TakenSame
      <4> HIDE DEF rows
      <4> QED BY <2>6, <4>1 DEF Within
    <3>4b. Traded(a.s, a.rows, u, rows)
      <4>1. u.orders = v.orders BY <2>8, TypedParts
      <4> HIDE DEF u, v
      <4>2. Carries(v, swept.rows, u, rows) BY <2>8, <3>3, <4>1, CarriesOne
      <4> HIDE DEF rows
      <4>3. Traded(v, swept.rows, u, rows) BY <4>2 DEF Traded
      <4> QED BY <2>6, <4>3, TradedThen
    <3>5. Concluded(v, u, i, at)
      <4> HIDE DEF seen, v
      <4> QED BY <1>1, <2>8, <3>2, ClosedIs
    <3>5a. Acted(a.s, a.rows, u, rows, News(input), at)
      <4> SUFFICES ASSUME Solvent(a.s) PROVE Acts(a.s, a.rows, u, rows, {i}, at)
        BY <1>3 DEF Acted, News
      <4> DEFINE who == a.s.active[i]
      <4>1. who \in SUBSET Placed(a.s, {i}) BY <1>1, GoodActive DEF Placed
      <4>2. Conducted(t, a.rows, v, swept.rows, who, at) BY <2>6
      <4>3. OrdersMarch(t.orders, v.orders, who) /\ v.seen = t.seen BY <2>5, <2>7 DEF Aside
      <4>4. t.orders = a.s.orders /\ t.seen = a.s.seen BY <2>2 DEF Opened
      <4>5. u.orders = v.orders /\ Beside(v.seen, u.seen, {i}) /\ u.seen[i].at = at
        BY <3>5 DEF Concluded
      <4> HIDE DEF who, u, v, i
      <4>6. Acts(a.s, a.rows, u, Append(swept.rows, x), {i}, at)
        BY <1>1, <2>8, <3>3, <4>1, <4>2, <4>3, <4>4, <4>5, SweepActs
      <4> QED BY <4>6 DEF i
    <3> HIDE DEF u, rows
    <3>6. IsResult(b) /\ b.ok = TRUE /\ b.s = u /\ b.rows = rows BY <3>1 DEF IsResult
    <3>7. Frame(a.s, u, O, C, I) BY <1>1, <2>8, <2>9, <3>5, ClosedFrame
    <3>8. Kept(a.s, u) /\ at <= u.latest
      <4> HIDE DEF v
      <4> QED BY <1>1, <2>2, <2>7, <2>8, <3>5, ObservedGood
    <3>9. Positions(u.ledger) \subseteq Positions(a.s.ledger) \cup {i}
      BY <2>5, <2>7, <3>5 DEF Concluded
    <3>10. InputDone(a, b, input, at, O, C, I)
      BY <3>4, <3>4a, <3>4b, <3>5a, <3>6, <3>7, <3>8, <3>9 DEF InputDone, Kept, Good
    <3> QED BY <3>10 DEF b
  <2> QED BY <2>8, <2>11, <2>12
<1> QED BY <1>2, <1>3 DEF IsInput

\* The rows after one more input.
LEMMA ReportsRows ==
  ASSUME NEW rows \in Seq(RowType), NEW more, NEW input, NEW at, Reports(rows, more, input, at)
  PROVE  /\ more \in Seq(RowType) /\ Len(more) >= Len(rows) + 1
         /\ \A m \in 1..Len(rows) : more[m] = rows[m]
         /\ \A m \in (Len(rows) + 1)..(Len(more) - 1) :
               more[m].at = at /\ more[m].kind \in {"transition", "fill", "stop_triggered"}
         /\ About(more[Len(more)], input, at)
<1>1. PICK mid \in Seq(RowType), x \in RowType :
         Tells(rows, mid, at) /\ About(x, input, at) /\ more = Append(mid, x)
  BY DEF Reports
<1>2. PICK p \in Seq(RowType) :
         /\ mid = rows \o p
         /\ \A n \in 1..Len(p) : p[n].at = at
                                 /\ p[n].kind \in {"transition", "fill", "stop_triggered"}
  BY <1>1 DEF Tells
<1> HIDE DEF RowType
<1>3. /\ Len(mid) = Len(rows) + Len(p) /\ Len(more) = Len(mid) + 1 /\ more[Len(more)] = x
      /\ more \in Seq(RowType)
      /\ \A m \in 1..Len(rows) : mid[m] = rows[m]
      /\ \A m \in (Len(rows) + 1)..Len(mid) : mid[m] = p[m - Len(rows)]
      /\ \A m \in 1..Len(mid) : more[m] = mid[m]
  BY <1>1, <1>2
<1>4. ASSUME NEW m \in (Len(rows) + 1)..(Len(more) - 1)
      PROVE  more[m].at = at /\ more[m].kind \in {"transition", "fill", "stop_triggered"}
  <2>1. m \in 1..Len(mid) /\ m \in (Len(rows) + 1)..Len(mid) /\ m - Len(rows) \in 1..Len(p) BY <1>3
  <2>2. more[m] = p[m - Len(rows)] BY <1>3, <2>1
  <2> QED BY <1>2, <2>1, <2>2
<1>5. Len(more) >= Len(rows) + 1 BY <1>3
<1>6. \A m \in 1..Len(rows) : more[m] = rows[m] BY <1>3
<1> QED BY <1>1, <1>3, <1>4, <1>5, <1>6

\* The rows of one input more.
LEMMA ReportedNext ==
  ASSUME NEW rows \in Seq(RowType), NEW more, NEW X, NEW inputs \in Seq(X), Distinct(inputs),
         NEW n \in Nat, n + 1 \in DOMAIN inputs, NEW at,
         Reported(rows, inputs, n, at), Reports(rows, more, inputs[n + 1], at)
  PROVE  Reported(more, inputs, n + 1, at)
<1> DEFINE N == Len(rows)
           M == Len(more)
<1>1. /\ more \in Seq(RowType) /\ M >= N + 1
      /\ \A m \in 1..N : more[m] = rows[m]
      /\ \A m \in (N + 1)..(M - 1) :
            more[m].at = at /\ more[m].kind \in {"transition", "fill", "stop_triggered"}
      /\ About(more[M], inputs[n + 1], at)
  BY ReportsRows
<1>2. N \in Nat /\ M \in Nat /\ DOMAIN rows = 1..N /\ DOMAIN more = 1..M BY <1>1
<1> HIDE DEF N, M
<1>3. /\ more[M].at = at /\ more[M].kind \in {"observed", "duplicate_snapshot"}
      /\ more[M].instrument = inputs[n + 1].instrument
  BY <1>1 DEF About
<1>4. \A m \in 1..M : m \in 1..N \/ m \in (N + 1)..(M - 1) \/ m = M BY <1>1, <1>2
<1>5. InputRows(more) = InputRows(rows) \cup {M}
  <2>1. M \in 1..M BY <1>1, <1>2
  <2>2. \A m \in 1..N : m \in 1..M BY <1>1, <1>2
  <2>3. ASSUME NEW m \in InputRows(more) PROVE m \in InputRows(rows) \cup {M}
    <3>1. m \in 1..M /\ more[m].kind \in {"observed", "duplicate_snapshot"} BY <1>2 DEF InputRows
    <3>2. m \notin (N + 1)..(M - 1) BY <1>1, <3>1
    <3> QED BY <1>1, <1>2, <1>4, <3>1, <3>2 DEF InputRows
  <2>4. ASSUME NEW m \in InputRows(rows) PROVE m \in InputRows(more)
    <3>1. m \in 1..N /\ rows[m].kind \in {"observed", "duplicate_snapshot"} BY <1>2 DEF InputRows
    <3>2. more[m] = rows[m] /\ m \in 1..M BY <1>1, <2>2, <3>1
    <3> QED BY <1>2, <3>1, <3>2 DEF InputRows
  <2>5. M \in InputRows(more) BY <1>2, <1>3, <2>1 DEF InputRows
  <2> QED BY <2>3, <2>4, <2>5
<1>6. \A m \in InputRows(rows) : m \in 1..N /\ more[m] = rows[m] BY <1>1, <1>2 DEF InputRows
<1>7. /\ \A m \in 1..N : rows[m].at = at /\ rows[m].kind \in MarketKinds
      /\ \A k \in 1..n : \E m \in InputRows(rows) : About(rows[m], inputs[k], at)
      /\ \A m \in InputRows(rows) : \E k \in 1..n : About(rows[m], inputs[k], at)
      /\ \A m, l \in InputRows(rows) : m # l => rows[m].instrument # rows[l].instrument
  BY DEF Reported, N
<1>8. \A m \in 1..M : more[m].at = at /\ more[m].kind \in MarketKinds
  BY <1>1, <1>3, <1>4, <1>7 DEF MarketKinds
<1>9. \A k \in 1..(n + 1) : \E m \in InputRows(more) : About(more[m], inputs[k], at)
  <2>1. ASSUME NEW k \in 1..n PROVE \E m \in InputRows(more) : About(more[m], inputs[k], at)
    BY <1>5, <1>6, <1>7
  <2>2. \A k \in 1..(n + 1) : k \in 1..n \/ k = n + 1 OBVIOUS
  <2> QED BY <1>1, <1>5, <2>1, <2>2
<1>10. \A m \in InputRows(more) : \E k \in 1..(n + 1) : About(more[m], inputs[k], at)
  <2>1. \A k \in 1..n : k \in 1..(n + 1) OBVIOUS
  <2>2. n + 1 \in 1..(n + 1) OBVIOUS
  <2> QED BY <1>1, <1>5, <1>6, <1>7, <2>1, <2>2
<1>11. ASSUME NEW m \in InputRows(rows) PROVE more[m].instrument # more[M].instrument
  <2>1. PICK k \in 1..n : About(rows[m], inputs[k], at) BY <1>7
  <2>2. rows[m].instrument = inputs[k].instrument BY <2>1 DEF About
  <2>3. k \in DOMAIN inputs /\ k # n + 1 OBVIOUS
  <2>4. inputs[k].instrument # inputs[n + 1].instrument BY <2>3 DEF Distinct
  <2> QED BY <1>3, <1>6, <2>2, <2>4
<1>12. \A m, l \in InputRows(more) : m # l => more[m].instrument # more[l].instrument
  BY <1>5, <1>6, <1>7, <1>11
<1> QED BY <1>8, <1>9, <1>10, <1>12 DEF Reported, M

\* The liquidity of a market input is a natural number.
LEMMA RationIsNat ==
  ASSUME NEW input, IsInput(input)
  PROVE  Ration(input) \in Nat
<1>1. ASSUME ~ input.duplicate PROVE Ration(input) \in Nat
  <2>1. input.bar \in BarType BY <1>1 DEF IsInput
  <2>2. input.bar.volume \in Nat BY <2>1 DEF BarType
  <2>3. LiquidityBudget(input.bar.volume) \in Nat BY <2>2, BudgetIsNat
  <2> QED BY <1>1, <2>3 DEF Ration
<1> QED BY <1>1 DEF Ration

\* An input that stays within its liquidity extends the inputs that did.
LEMMA RationedNext ==
  ASSUME NEW rows, NEW more, NEW X, NEW inputs \in Seq(X), Distinct(inputs),
         NEW n \in Nat, n + 1 \in DOMAIN inputs, Rationed(rows, inputs, n),
         \A k \in 1..(n + 1) : inputs[k].instrument \in Instruments,
         Ration(inputs[n + 1]) \in Nat, Taken(more, inputs[n + 1].instrument) \in Int,
         Within(rows, more, inputs[n + 1].instrument, Ration(inputs[n + 1]))
  PROVE  Rationed(more, inputs, n + 1)
<1> DEFINE i == inputs[n + 1].instrument
           budget == Ration(inputs[n + 1])
<1>1. \A k \in 1..n : inputs[k].instrument \in Instruments \ {i}
  <2>1. \A k \in 1..n : k \in DOMAIN inputs /\ k # n + 1 OBVIOUS
  <2> QED BY <2>1 DEF Distinct
<1>2. n + 1 \in 1..(n + 1) /\ i \in Instruments /\ \A k \in 1..(n + 1) : k \in 1..n \/ k = n + 1
  OBVIOUS
<1>3. /\ Taken(more, i) <= Taken(rows, i) + budget
      /\ \A j \in Instruments \ {i} : Taken(more, j) = Taken(rows, j)
  BY DEF Within
<1>4. Taken(rows, i) = 0 BY <1>1, <1>2 DEF Rationed
<1>5. Taken(more, i) <= budget BY <1>3, <1>4
<1> HIDE DEF i, budget
<1>6. \A k \in 1..n : Taken(more, inputs[k].instrument) <= Ration(inputs[k])
  BY <1>1, <1>3 DEF Rationed
<1>7. \A k \in 1..(n + 1) : Taken(more, inputs[k].instrument) <= Ration(inputs[k])
  BY <1>2, <1>5, <1>6 DEF i, budget
<1>8. ASSUME NEW j \in Instruments, \A k \in 1..(n + 1) : inputs[k].instrument # j
      PROVE  Taken(more, j) = 0
  <2>1. j \in Instruments \ {i} /\ \A k \in 1..n : inputs[k].instrument # j BY <1>2, <1>8 DEF i
  <2> QED BY <1>3, <2>1 DEF Rationed
<1> QED BY <1>7, <1>8 DEF Rationed

\* Inputs of different instruments that keep to their liquidity share out the budgets.
LEMMA RationsShare ==
  ASSUME NEW rows \in Seq(RowType), NEW inputs, NEW n \in Nat, NEW at,
         \A k \in 1..n : IsInput(inputs[k]),
         Reported(rows, inputs, n, at), Rationed(rows, inputs, n)
  PROVE  Shares(rows)
<1> SUFFICES ASSUME NEW m \in DOMAIN rows, rows[m].kind = "observed"
             PROVE  Taken(rows, rows[m].instrument) * Scale <= rows[m].bar.volume * Participation
  BY DEF Shares
<1>1. m \in InputRows(rows) BY DEF InputRows
<1>2. PICK k \in 1..n : About(rows[m], inputs[k], at) BY <1>1 DEF Reported
<1>3. /\ rows[m].instrument = inputs[k].instrument /\ ~ inputs[k].duplicate
      /\ rows[m].bar = inputs[k].bar
  BY <1>2 DEF About
<1>4. inputs[k].bar \in BarType BY <1>3 DEF IsInput
<1> DEFINE volume == inputs[k].bar.volume
           budget == LiquidityBudget(volume)
           taken == Taken(rows, rows[m].instrument)
<1>5. volume \in Nat BY <1>4 DEF BarType
<1>6. budget \in Nat /\ budget * Scale <= volume * Participation BY <1>5, BudgetIsNat
<1>7. taken \in Int /\ taken <= budget
  <2>1. taken \in Int BY TakenIsInt
  <2>2. taken <= Ration(inputs[k]) BY <1>3 DEF Rationed
  <2> QED BY <1>3, <2>1, <2>2 DEF Ration
<1>8. volume * Participation \in Int /\ Scale \in Nat
  BY <1>5, Product, FillModelAssumption, ScaleAssumption
<1> DEFINE cap == volume * Participation
<1>9. cap \in Int /\ budget * Scale <= cap BY <1>6, <1>8
<1> HIDE DEF volume, budget, taken, cap
<1>10. taken * Scale <= budget * Scale BY <1>6, <1>7, <1>8
<1>11. taken * Scale \in Int /\ budget * Scale \in Int BY <1>6, <1>7, <1>8
<1>12. taken * Scale <= cap BY <1>9, <1>10, <1>11
<1> QED BY <1>3, <1>12 DEF cap, volume, taken

\* What two steps keep, the two together keep.
LEMMA KeptThen ==
  ASSUME NEW s, NEW t, NEW u, Typed(s), Kept(s, t), Kept(t, u)
  PROVE  Kept(s, u) /\ s.latest <= t.latest /\ t.latest <= u.latest
<1>1. s.latest \in Nat /\ t.latest \in Nat /\ u.latest \in Nat
  BY TypedParts, TimesAreInstants DEF Kept, Good
<1>2. Pays(s, u) BY PaysThen DEF Kept
<1> QED BY <1>1, <1>2 DEF Kept

\* And what one more shows.
LEMMA NewsNext ==
  ASSUME NEW inputs \in Seq(InputType), Distinct(inputs), NEW n \in Nat,
         n + 1 \in 1..Len(inputs)
  PROVE  /\ Newly(inputs, n + 1) = Newly(inputs, n) \cup News(inputs[n + 1])
         /\ Newly(inputs, n) \cap News(inputs[n + 1]) = {}
         /\ Newly(inputs, n) \in SUBSET Instruments
<1>1. /\ DOMAIN inputs = 1..Len(inputs)
      /\ \A m \in 1..Len(inputs) : inputs[m].instrument \in Instruments
  <2>1. \A x \in InputType : x.instrument \in Instruments BY DEF InputType
  <2> HIDE DEF InputType
  <2>2. DOMAIN inputs = 1..Len(inputs) /\ \A m \in 1..Len(inputs) : inputs[m] \in InputType OBVIOUS
  <2> QED BY <2>1, <2>2
<1>2. /\ \A m \in 1..n : m \in 1..Len(inputs) /\ m # n + 1 /\ m \in 1..(n + 1)
      /\ \A m \in 1..(n + 1) : m \in 1..n \/ m = n + 1
      /\ n + 1 \in 1..(n + 1)
  OBVIOUS
<1>3. \A m \in 1..n : inputs[m].instrument # inputs[n + 1].instrument BY <1>1, <1>2 DEF Distinct
<1>4. Newly(inputs, n + 1) = Newly(inputs, n) \cup News(inputs[n + 1]) BY <1>2 DEF Newly, News
<1>5. Newly(inputs, n) \cap News(inputs[n + 1]) = {} BY <1>3 DEF Newly, News
<1>6. Newly(inputs, n) \in SUBSET Instruments BY <1>1, <1>2 DEF Newly
<1> QED BY <1>4, <1>5, <1>6

\* One input more.
LEMMA ReachedNext ==
  ASSUME NEW s, Good(s), NEW inputs, NEW at, IsCohort(s, inputs, at), NEW O, NEW C, NEW I,
         Named(inputs) \subseteq I, \A i \in Named(inputs) : s.active[i] \subseteq O,
         NEW a, NEW n \in Nat, n + 1 \in 1..Len(inputs),
         Reached(s, inputs, at, a, n, O, C, I),
         NEW b, b = MarketInput(a, inputs[n + 1], at)
  PROVE  Reached(s, inputs, at, b, n + 1, O, C, I)
<1> DEFINE input == inputs[n + 1]
<1>1. /\ inputs \in Seq(InputType) /\ Distinct(inputs) /\ IsInput(input)
      /\ n + 1 \in DOMAIN inputs /\ input.instrument \in Named(inputs) /\ at \in Times
  BY DEF IsCohort, Named
<1>2. /\ IsResult(a) /\ a.ok \in BOOLEAN /\ Typed(a.s) /\ a.rows \in Seq(RowType)
      /\ Frame(s, a.s, O, C, I) /\ a.s.events = s.events /\ a.s.ops = s.ops
  BY DEF Reached
<1>3. CASE ~ a.ok
  <2>1. b = a BY <1>3 DEF MarketInput
  <2> QED BY <1>2, <1>3, <2>1 DEF Reached
<1>4. CASE a.ok
  <2>1. /\ Kept(s, a.s) /\ Reported(a.rows, inputs, n, at) /\ Rationed(a.rows, inputs, n)
        /\ Traded(s, <<>>, a.s, a.rows) /\ Acted(s, <<>>, a.s, a.rows, Newly(inputs, n), at)
        /\ Positions(a.s.ledger) \subseteq Positions(s.ledger) \cup Named(inputs)
        /\ \A m \in 1..n : ~ inputs[m].duplicate => at <= a.s.latest
    BY <1>4 DEF Reached
  <2>2. /\ Good(a.s) /\ input.instrument \in I /\ a.s.active[input.instrument] \subseteq O
        /\ input.instrument \in Instruments
    <3>1. input.instrument \in Instruments BY <1>1 DEF IsInput
    <3> QED BY <1>1, <2>1, <3>1 DEF Kept
  <2>3. InputDone(a, b, input, at, O, C, I)
    <3>1. a.ok = TRUE BY <1>2, <1>4
    <3> HIDE DEF input
    <3> QED BY <1>1, <1>2, <2>2, <3>1, InputDoes DEF input
  <2> HIDE DEF input
  <2>4. /\ IsResult(b) /\ b.ok \in BOOLEAN /\ Typed(b.s) /\ b.rows \in Seq(RowType)
        /\ Frame(a.s, b.s, O, C, I) /\ b.s.events = a.s.events /\ b.s.ops = a.s.ops
        /\ b.ok => /\ Kept(a.s, b.s) /\ Reports(a.rows, b.rows, input, at)
                   /\ Within(a.rows, b.rows, input.instrument, Ration(input))
                   /\ Traded(a.s, a.rows, b.s, b.rows)
                   /\ Acted(a.s, a.rows, b.s, b.rows, News(input), at)
                   /\ Positions(b.s.ledger) \subseteq Positions(a.s.ledger) \cup {input.instrument}
                   /\ ~ input.duplicate => at <= b.s.latest
    BY <2>3 DEF InputDone
  <2>5. Frame(s, b.s, O, C, I)
    <3>1. Typed(s) BY DEF Good
    <3> QED BY <1>2, <2>4, <3>1, FrameThen
  <2>6. ASSUME b.ok
        PROVE  /\ Kept(s, b.s) /\ Reported(b.rows, inputs, n + 1, at)
               /\ Rationed(b.rows, inputs, n + 1) /\ Traded(s, <<>>, b.s, b.rows)
               /\ Acted(s, <<>>, b.s, b.rows, Newly(inputs, n + 1), at)
               /\ Positions(b.s.ledger) \subseteq Positions(s.ledger) \cup Named(inputs)
               /\ \A m \in 1..(n + 1) : ~ inputs[m].duplicate => at <= b.s.latest
    <3>1. Kept(s, b.s) /\ a.s.latest <= b.s.latest
      <4>1. Typed(s) BY DEF Good
      <4> QED BY <2>1, <2>4, <2>6, <4>1, KeptThen
    <3>2. Reported(b.rows, inputs, n + 1, at)
      <4>1. Reports(a.rows, b.rows, inputs[n + 1], at) BY <2>4, <2>6 DEF input
      <4> QED BY <1>1, <1>2, <2>1, <4>1, ReportedNext
    <3>4. Rationed(b.rows, inputs, n + 1)
      <4>1. Ration(inputs[n + 1]) \in Nat BY <1>1, RationIsNat DEF input
      <4>2. Taken(b.rows, inputs[n + 1].instrument) \in Int BY <2>4, TakenIsInt
      <4>3. Within(a.rows, b.rows, inputs[n + 1].instrument, Ration(inputs[n + 1]))
        BY <2>4, <2>6 DEF input
      <4>4. \A k \in 1..(n + 1) : inputs[k].instrument \in Instruments
        <5>1. \A k \in 1..(n + 1) : k \in DOMAIN inputs BY <1>1
        <5> QED BY <5>1 DEF IsCohort, IsInput
      <4> QED BY <1>1, <2>1, <4>1, <4>2, <4>3, <4>4, RationedNext
    <3>5. Traded(s, <<>>, b.s, b.rows) BY <2>1, <2>4, <2>6, TradedThen
    <3>6. Acted(s, <<>>, b.s, b.rows, Newly(inputs, n + 1), at)
      <4> DEFINE is == Newly(inputs, n)
                 js == News(inputs[n + 1])
      <4>1. Newly(inputs, n + 1) = is \cup js /\ is \cap js = {} /\ is \in SUBSET Instruments
        BY <1>1, NewsNext
      <4>2. Acted(s, <<>>, a.s, a.rows, is, at) /\ Acted(a.s, a.rows, b.s, b.rows, js, at)
        BY <2>1, <2>4, <2>6 DEF input
      <4>3. Pays(s, a.s) BY <2>1 DEF Kept
      <4> HIDE DEF is, js
      <4>4. Acted(s, <<>>, b.s, b.rows, is \cup js, at) BY <4>1, <4>2, <4>3, ActedThen
      <4> QED BY <4>1, <4>4
    <3>3. \A m \in 1..(n + 1) : ~ inputs[m].duplicate => at <= b.s.latest
      <4>1. \A m \in 1..(n + 1) : m \in 1..n \/ m = n + 1 OBVIOUS
      <4>2. a.s.latest \in Nat /\ b.s.latest \in Nat /\ at \in Nat
        BY <1>1, <1>2, <2>4, TypedParts, TimesAreInstants
      <4>3. ~ inputs[n + 1].duplicate => at <= b.s.latest BY <2>4, <2>6 DEF input
      <4>4. ASSUME NEW m \in 1..n, ~ inputs[m].duplicate PROVE at <= b.s.latest
        BY <2>1, <3>1, <4>2, <4>4
      <4> QED BY <4>1, <4>3, <4>4
    <3> QED BY <1>1, <2>1, <2>4, <2>6, <3>1, <3>2, <3>3, <3>4, <3>5, <3>6
  <2> QED BY <1>2, <2>4, <2>5, <2>6 DEF Reached
<1> QED BY <1>2, <1>3, <1>4

\* All of them.
LEMMA CohortReaches ==
  ASSUME NEW s, Good(s), NEW inputs, NEW at, IsCohort(s, inputs, at), NEW O, NEW C, NEW I,
         Named(inputs) \subseteq I, \A i \in Named(inputs) : s.active[i] \subseteq O
  PROVE  Reached(s, inputs, at, Cohort(s, inputs, at), Len(inputs), O, C, I)
<1> DEFINE N == Len(inputs)
           c == [at |-> at]
           base == Done(s, <<>>)
<1>1. inputs \in Seq(InputType) /\ N \in Nat BY DEF IsCohort
<1>2. PICK path : Inputs!IsPath(c, base, inputs, path) BY <1>1, WellOrders, Inputs!Path
<1>3. /\ path[0] = base /\ path[N] = Cohort(s, inputs, at)
      /\ \A n \in 1..N : path[n] = MarketInput(path[n - 1], inputs[n], at)
  <2> HIDE DEF c
  <2>1. /\ path[0] = base /\ path[N] = Inputs!Fold(c, base, inputs)
        /\ \A n \in 1..N : path[n] = InputStep(c, path[n - 1], inputs[n])
    BY <1>2 DEF Inputs!IsPath, Inputs!Steps, Inputs!Leads
  <2>2. c.at = at BY DEF c
  <2>3. Inputs!Fold(c, base, inputs) = Cohort(s, inputs, at) BY DEF Cohort, c
  <2> QED BY <2>1, <2>2, <2>3 DEF InputStep
<1> DEFINE S == {n \in 0..N : Reached(s, inputs, at, path[n], n, O, C, I)}
<1>4. 0 \in S
  <2>1. IsResult(base) /\ base.ok = TRUE /\ base.s = s /\ base.rows = <<>> BY DEF Done, IsResult
  <2> HIDE DEF base
  <2>2. Typed(s) /\ Frame(s, s, O, C, I) /\ Kept(s, s) BY FrameSame, KeptSame DEF Good
  <2>3. Reported(<<>>, inputs, 0, at) BY DEF Reported, InputRows
  <2>4. base.rows \in Seq(RowType) BY <2>1
  <2>5. \A m \in 1..0 : ~ inputs[m].duplicate => at <= base.s.latest OBVIOUS
  <2>5a. Rationed(<<>>, inputs, 0) BY TakenNone DEF Rationed
  <2>5b. Traded(s, <<>>, s, <<>>) BY CarriesSame DEF Traded
  <2>5c. Acted(s, <<>>, s, <<>>, Newly(inputs, 0), at)
    <3>1. Conducted(s, <<>>, s, <<>>, Placed(s, {}), at) BY <2>1, <2>4, ConductedSame
    <3>2. Newly(inputs, 0) = {} BY DEF Newly
    <3> QED BY <3>1, <3>2 DEF Acted, Acts
  <2>6. Reached(s, inputs, at, base, 0, O, C, I)
    BY <2>1, <2>2, <2>3, <2>4, <2>5, <2>5a, <2>5b, <2>5c DEF Reached
  <2> QED BY <1>1, <1>3, <2>6
<1>5. ASSUME NEW n \in 0..(N - 1), n \in S PROVE n + 1 \in S
  <2>1. n \in Nat /\ n + 1 \in 1..N /\ n + 1 \in 0..N /\ (n + 1) - 1 = n BY <1>1
  <2>2. path[n + 1] = MarketInput(path[n], inputs[n + 1], at) BY <1>3, <2>1
  <2>3. Reached(s, inputs, at, path[n], n, O, C, I) BY <1>5
  <2>4. Reached(s, inputs, at, path[n + 1], n + 1, O, C, I) BY <2>1, <2>2, <2>3, ReachedNext
  <2> QED BY <2>1, <2>4
<1>6. \A n \in 0..N : n \in S
  <2> HIDE DEF S, N
  <2> QED BY <1>1, <1>4, <1>5, UpTo
<1> QED BY <1>1, <1>3, <1>6

\* The rows of a market event tell its inputs.
LEMMA CohortTold ==
  ASSUME NEW s, NEW inputs, NEW at, IsCohort(s, inputs, at), ById(inputs),
         NEW rows \in Seq(RowType), Reported(rows, inputs, Len(inputs), at)
  PROVE  /\ CohortOf(rows) = inputs /\ ~ ToldTwice(rows) /\ rows # <<>>
         /\ Last(rows).at = at /\ OperationKind(rows) = "MARKET"
<1> DEFINE N == Len(inputs)
<1>1. /\ inputs \in Seq(InputType) /\ N \in Nat /\ DOMAIN inputs = 1..N /\ inputs # <<>>
      /\ Distinct(inputs) /\ \A n \in 1..N : IsInput(inputs[n])
  BY DEF IsCohort
<1>2. /\ \A m \in 1..Len(rows) : rows[m].at = at /\ rows[m].kind \in MarketKinds
      /\ \A k \in 1..N : \E m \in InputRows(rows) : About(rows[m], inputs[k], at)
      /\ \A m \in InputRows(rows) : \E k \in 1..N : About(rows[m], inputs[k], at)
      /\ \A m, l \in InputRows(rows) : m # l => rows[m].instrument # rows[l].instrument
  BY DEF Reported
<1>3. DOMAIN rows = 1..Len(rows) /\ Len(rows) \in Nat OBVIOUS
<1> HIDE DEF N
<1>4. ~ ToldTwice(rows) BY <1>2 DEF ToldTwice
<1>5. PICK first \in InputRows(rows) : TRUE
  <2>1. N >= 1 BY <1>1
  <2> QED BY <1>1, <1>2, <2>1
<1>6. first \in 1..Len(rows) /\ rows[first].kind \in {"observed", "duplicate_snapshot"}
  BY <1>3 DEF InputRows
<1>7. rows # <<>> /\ Len(rows) \in 1..Len(rows) BY <1>3, <1>6
<1>8. Last(rows).at = at BY <1>2, <1>7 DEF Last
<1>9. OperationKind(rows) = "MARKET"
  <2>1. Kinds(rows) \cap {"submitted"} = {} BY <1>2, <1>3 DEF Kinds, MarketKinds
  <2>2. Kinds(rows) \cap {"observed", "duplicate_snapshot"} # {} BY <1>3, <1>6 DEF Kinds
  <2> QED BY <2>1, <2>2 DEF OperationKind
<1>10. {rows[m].instrument : m \in InputRows(rows)} = Named(inputs)
  <2>1. ASSUME NEW m \in InputRows(rows) PROVE rows[m].instrument \in Named(inputs)
    <3>1. PICK k \in 1..N : About(rows[m], inputs[k], at) BY <1>2
    <3> QED BY <1>1, <3>1 DEF About, Named
  <2>2. ASSUME NEW k \in 1..N
        PROVE  inputs[k].instrument \in {rows[m].instrument : m \in InputRows(rows)}
    <3>1. PICK m \in InputRows(rows) : About(rows[m], inputs[k], at) BY <1>2
    <3> QED BY <3>1 DEF About
  <2> QED BY <1>1, <2>1, <2>2 DEF Named
<1> DEFINE ids == InOrder(Named(inputs))
           Tell(i) == rows[CHOOSE m \in InputRows(rows) : rows[m].instrument = i]
           Input(x) == [instrument |-> x.instrument, duplicate |-> x.kind # "observed",
                        bar |-> IF x.kind = "observed" THEN x.bar ELSE NoBar]
<1>11. DOMAIN ids = 1..N /\ \A n \in 1..N : inputs[n].instrument = ids[n] BY <1>1 DEF ById
<1>12. CohortOf(rows) = [n \in DOMAIN ids |-> Input(Tell(ids[n]))]
  <2>1. ASSUME NEW ids_, ids_ = InOrder({rows[m].instrument : m \in InputRows(rows)})
        PROVE  CohortOf(rows) = [n \in DOMAIN ids_ |-> Input(Tell(ids_[n]))]
    BY <2>1 DEF CohortOf
  <2> HIDE DEF Tell, Input
  <2> QED BY <1>10, <2>1
<1>13. ASSUME NEW n \in 1..N PROVE Input(Tell(ids[n])) = inputs[n]
  <2> DEFINE m == CHOOSE m \in InputRows(rows) : rows[m].instrument = ids[n]
             x == rows[m]
  <2>1. m \in InputRows(rows) /\ rows[m].instrument = ids[n]
    <3>1. PICK l \in InputRows(rows) : About(rows[l], inputs[n], at) BY <1>2
    <3>2. rows[l].instrument = ids[n] BY <1>11, <3>1 DEF About
    <3> QED BY <3>2
  <2>2. Tell(ids[n]) = x OBVIOUS
  <2> HIDE DEF m, Tell
  <2>3. PICK k \in 1..N : About(x, inputs[k], at) BY <1>2, <2>1
  <2>4. inputs[k].instrument = inputs[n].instrument BY <1>11, <2>1, <2>3 DEF About
  <2>5. k = n BY <1>1, <2>4 DEF Distinct
  <2>6. /\ x.instrument = inputs[n].instrument
        /\ x.kind = IF inputs[n].duplicate THEN "duplicate_snapshot" ELSE "observed"
        /\ ~ inputs[n].duplicate => x.bar = inputs[n].bar
    BY <2>3, <2>5 DEF About
  <2>7. IsInput(inputs[n]) BY <1>1
  <2> HIDE DEF x, ids
  <2> DEFINE y == inputs[n]
  <2>7a. y = [instrument |-> y.instrument, duplicate |-> y.duplicate, bar |-> y.bar]
         /\ y.duplicate \in BOOLEAN /\ (y.duplicate => y.bar = NoBar)
    BY <2>7 DEF IsInput
  <2>7b. /\ x.instrument = y.instrument
         /\ x.kind = IF y.duplicate THEN "duplicate_snapshot" ELSE "observed"
         /\ ~ y.duplicate => x.bar = y.bar
    BY <2>6
  <2> HIDE DEF y
  <2>8. Input(x) = y
    <3>1. CASE y.duplicate
      <4>1. y.duplicate = TRUE /\ (x.kind # "observed") = TRUE BY <2>7a, <2>7b, <3>1
      <4> QED BY <2>7a, <2>7b, <3>1, <4>1
    <3>2. CASE ~ y.duplicate
      <4>1. y.duplicate = FALSE /\ x.kind = "observed" /\ (x.kind # "observed") = FALSE
        BY <2>7a, <2>7b, <3>2
      <4> QED BY <2>7a, <2>7b, <3>2, <4>1
    <3> QED BY <3>1, <3>2
  <2> QED BY <2>2, <2>8 DEF y
<1>14. CohortOf(rows) = inputs
  <2>1. inputs = [n \in 1..N |-> inputs[n]] BY <1>1
  <2> HIDE DEF ids, Tell, Input
  <2>2. CohortOf(rows) = [n \in 1..N |-> inputs[n]] BY <1>11, <1>12, <1>13
  <2> QED BY <2>1, <2>2
<1> QED BY <1>4, <1>7, <1>8, <1>9, <1>14

------------------------------
(* What a kernel comes to *)

\* The rows of every other operation.
LEMMA NothingObserved ==
  ASSUME NEW rows, \A n \in DOMAIN rows : rows[n].kind # "observed"
  PROVE  Shares(rows)
BY DEF Shares

\* Where nothing was filled or triggered, and every order stays.
LEMMA BearsQuiet ==
  ASSUME NEW s, Typed(s), NEW t, NEW rows, \A n \in 1..Len(rows) : rows[n].kind # "fill",
         DOMAIN t.orders = DOMAIN s.orders, t.seen = s.seen,
         \A o \in DOMAIN s.orders : /\ SameOrder(s.orders[o], t.orders[o])
                                    /\ t.orders[o].triggered = s.orders[o].triggered
  PROVE  Bears(s, rows, t)
<1>1. \A i \in Instruments : s.seen[i].at <= t.seen[i].at
  <2>1. \A i \in Instruments : s.seen[i].at \in Nat BY TypedParts DEF SeenType
  <2> QED BY <2>1
<1> QED BY <1>1 DEF Bears, Remains

\* A market event that observes what it has news of.
LEMMA BearsNews ==
  ASSUME NEW s, Good(s), NEW inputs, NEW at, IsCohort(s, inputs, at), NEW t, Typed(t),
         NEW rows, Acts(s, <<>>, t, rows, Newly(inputs, Len(inputs)), at)
  PROVE  Bears(s, rows, t)
<1> DEFINE N == Len(inputs)
           is == Newly(inputs, N)
<1>1. /\ Conducted(s, <<>>, t, rows, Placed(s, is), at)
      /\ \A i \in is : t.seen[i].at = at
      /\ \A i \in Instruments \ is : t.seen[i] = s.seen[i]
  BY DEF Acts
<1>2. \A i \in Instruments : s.seen[i].at \in Nat /\ t.seen[i].at \in Nat
  BY TypedParts DEF SeenType, Good
<1>3. at \in Nat /\ DOMAIN inputs = 1..N BY TimesAreInstants DEF IsCohort
<1>4. \A i \in is : s.seen[i].at < at BY <1>3 DEF IsCohort, Newly
<1> HIDE DEF is
<1>5. Grows(<<>>, rows) /\ Later(<<>>, rows) = 1..Len(rows) BY <1>1 DEF Conducted, Later
<1>6. ASSUME NEW n \in 1..Len(rows), rows[n].kind = "fill"
      PROVE  Lawful(s, rows, n) /\ Fresh(s, rows[n])
  <2>1. /\ Lawful(s, rows, n) /\ rows[n].fill.at = at
        /\ rows[n].fill.order \in Placed(s, is)
    BY <1>1, <1>5, <1>6 DEF Conducted
  <2> QED BY <1>4, <2>1 DEF Placed, Fresh
<1>7. \A i \in Instruments : s.seen[i].at <= t.seen[i].at
  <2> SUFFICES ASSUME NEW i \in Instruments PROVE s.seen[i].at <= t.seen[i].at OBVIOUS
  <2>1. CASE i \in is BY <1>1, <1>2, <1>3, <1>4, <2>1
  <2>2. CASE i \notin is BY <1>1, <1>2, <2>2
  <2> QED BY <2>1, <2>2
<1>8. DOMAIN t.orders = DOMAIN s.orders BY <1>1 DEF Conducted
<1>9. ASSUME NEW o \in DOMAIN s.orders PROVE Remains(s, rows, t, o)
  <2>1. /\ SameOrder(s.orders[o], t.orders[o])
        /\ t.orders[o].triggered =>
              s.orders[o].triggered \/ (o \in Placed(s, is) /\ Latched(<<>>, rows, o, at))
    BY <1>1 DEF Conducted
  <2>2. ASSUME o \in Placed(s, is), Latched(<<>>, rows, o, at)
        PROVE  \E n \in 1..Len(rows) :
                  /\ Stopped(rows[n], o)
                  /\ rows[n].at <= t.seen[t.orders[o].intent.instrument].at
    <3>1. t.seen[t.orders[o].intent.instrument].at = at BY <1>1, <2>1, <2>2 DEF Placed, SameOrder
    <3> QED BY <1>3, <1>5, <2>2, <3>1 DEF Latched
  <2> QED BY <2>1, <2>2 DEF Remains
<1> QED BY <1>6, <1>7, <1>8, <1>9 DEF Bears

\* A submission: the order that comes is the one whose intent is told.
LEMMA BearsEntry ==
  ASSUME NEW s, Typed(s), NEW t, Typed(t), NEW o, o \notin DOMAIN s.orders,
         DOMAIN t.orders = DOMAIN s.orders \cup {o},
         \A k \in DOMAIN s.orders : t.orders[k] = s.orders[k],
         WellShaped(t.orders[o].intent), ~ t.orders[o].triggered,
         \A i \in Instruments : t.seen[i] = s.seen[i] \/ s.seen[i].at = 0,
         NEW rows, \A n \in 1..Len(rows) : rows[n].kind # "fill",
         NEW m \in 1..Len(rows), Submits(rows[m], o, t.orders[o])
  PROVE  Bears(s, rows, t)
<1>1. \A i \in Instruments : s.seen[i].at <= t.seen[i].at
  <2>1. \A i \in Instruments : s.seen[i].at \in Nat /\ t.seen[i].at \in Nat
    BY TypedParts DEF SeenType
  <2> QED BY <2>1
<1>2. \A k \in DOMAIN s.orders : Remains(s, rows, t, k) BY DEF Remains, SameOrder
<1>3. Enters(rows, t, o) BY DEF Enters
<1> QED BY <1>1, <1>2, <1>3 DEF Bears

\* It says nothing of the counters.
LEMMA ExplainsSame ==
  ASSUME NEW s, NEW rows, NEW t, Explains(s, rows, t), NEW u, u.orders = t.orders, u.seen = t.seen
  PROVE  Explains(s, rows, u)
<1>1. \A o : StatusOf(u, o) = StatusOf(t, o) BY DEF StatusOf
<1>2. Bears(s, rows, t) => Bears(s, rows, u) BY DEF Bears, Remains, Enters
<1> QED BY <1>1, <1>2 DEF Explains, Moved

\* What is reserved is finite.
LEMMA ReservedFinite ==
  ASSUME NEW s, Good(s)
  PROVE  IsFiniteSet(Reserved(s)) /\ IsFiniteSet(ReservedInstruments(s))
<1>1. Reserved(s) \subseteq DOMAIN s.orders BY DEF Good, Indexed, Reserved, On
<1>2. IsFiniteSet(Reserved(s)) BY <1>1, FS_Subset DEF Good
<1>3. ReservedInstruments(s) \subseteq Instruments /\ IsFiniteSet(Instruments)
  BY LedgerAssumption DEF ReservedInstruments, Positions
<1> QED BY <1>2, <1>3, FS_Subset

\* Less to reserve takes fewer rows.
LEMMA FewerRows ==
  ASSUME NEW A, NEW B, NEW S, NEW T, IsFiniteSet(A), IsFiniteSet(S), B \subseteq A,
         T \subseteq S
  PROVE  /\ WorstRows(B, Cardinality(T)) \in Nat /\ WorstRows(A, Cardinality(S)) \in Nat
         /\ WorstRows(B, Cardinality(T)) <= WorstRows(A, Cardinality(S))
<1>1. IsFiniteSet(B) /\ IsFiniteSet(T) BY FS_Subset
<1>2. /\ Cardinality(A) \in Nat /\ Cardinality(B) \in Nat /\ Cardinality(S) \in Nat
      /\ Cardinality(T) \in Nat /\ Cardinality(B) <= Cardinality(A)
      /\ Cardinality(T) <= Cardinality(S)
  BY <1>1, FS_Subset, FS_CardinalityType
<1> QED BY <1>2 DEF WorstRows

\* A state that reserves less than one that fits, fits.
LEMMA FitsLess ==
  ASSUME NEW s, Good(s), NEW t, Fits(s), Reserved(t) \subseteq Reserved(s),
         ReservedInstruments(t) \subseteq ReservedInstruments(s)
  PROVE  Fits(t)
<1> DEFINE A == ReservedInstruments(s)
           B == ReservedInstruments(t)
           S == Reserved(s)
           T == Reserved(t)
<1>1. IsFiniteSet(S) /\ IsFiniteSet(A) BY ReservedFinite
<1>2. B \subseteq A /\ T \subseteq S /\ WorstRows(A, Cardinality(S)) <= MaxGroup BY DEF Fits
<1> HIDE DEF A, B, S, T
<1>3. /\ WorstRows(B, Cardinality(T)) \in Nat /\ WorstRows(A, Cardinality(S)) \in Nat
      /\ WorstRows(B, Cardinality(T)) <= WorstRows(A, Cardinality(S))
  BY <1>1, <1>2, FewerRows
<1>4. MaxGroup \in Nat BY LimitsAssumption
<1>5. WorstRows(B, Cardinality(T)) <= MaxGroup BY <1>2, <1>3, <1>4
<1> QED BY <1>5 DEF Fits, B, T

\* A mark changes the ledger's prices, equity and peak and nothing else.
LEMMA MarkedState ==
  ASSUME NEW t, Typed(t), NEW u, u = [t EXCEPT !.ledger = Mark(t.ledger, t.marks)]
  PROVE  Remarked(t, u)
<1> DEFINE l == Mark(t.ledger, t.marks)
<1>1. IsState(t) /\ t.ledger \in LedgerType /\ t.marks \in [Instruments -> Nat]
  BY TypedParts DEF IsState
<1>2. l \in LedgerType /\ l.fills = t.ledger.fills /\ l.held = t.ledger.held
  <2> DEFINE k == t.ledger
             marks == t.marks
  <2>1. k \in LedgerType /\ marks \in [Instruments -> Nat] /\ l = Mark(k, marks) BY <1>1
  <2> HIDE DEF l, k, marks
  <2>2. /\ l \in LedgerType /\ l.cash = k.cash /\ l.held = k.held /\ l.fills = k.fills
        /\ l.prices = [i \in Instruments |-> IF marks[i] = 0 THEN k.prices[i] ELSE marks[i]]
        /\ l.equity = Valuation(l.cash, l.held, l.prices)
        /\ l.peak = Larger(k.peak, l.equity)
    BY <2>1, MarkFields
  <2> QED BY <2>2 DEF k
<1>3. l = Mark(t.ledger, t.marks) OBVIOUS
<1> HIDE DEF l
<1>4. /\ u = [orders |-> t.orders, clients |-> t.clients, active |-> t.active,
              unknown |-> t.unknown, seen |-> t.seen, marks |-> t.marks, known |-> t.known,
              fills |-> t.fills, fillSeq |-> t.fillSeq, events |-> t.events, ops |-> t.ops,
              ledger |-> l, latest |-> t.latest, lastKey |-> t.lastKey]
      /\ u.orders = t.orders /\ u.clients = t.clients /\ u.active = t.active
      /\ u.unknown = t.unknown /\ u.seen = t.seen /\ u.marks = t.marks /\ u.known = t.known
      /\ u.fills = t.fills /\ u.events = t.events /\ u.ops = t.ops /\ u.latest = t.latest
      /\ u.ledger = l
  <2>1. u = [t EXCEPT !.ledger = l] BY DEF l
  <2>2. IsState(t) BY <1>1
  <2> QED BY <2>1, <2>2 DEF IsState
<1>5. Typed(u)
  <2>1. /\ t.orders \in [DOMAIN t.orders -> OrderRecord] /\ DOMAIN t.orders \subseteq Orders
        /\ t.clients \in SUBSET Orders /\ t.active \in Entries /\ t.unknown \in Entries
        /\ t.seen \in [Instruments -> SeenType] /\ t.marks \in [Instruments -> Nat]
        /\ t.known \in SUBSET Instruments /\ t.fills \in Seq(FillType)
        /\ t.fillSeq \in Nat /\ t.events \in Nat /\ t.ops \in Nat /\ t.latest \in Instants
        /\ t.lastKey \in [at : Instants, instrument : Instruments \cup {0}]
    BY TypedParts
  <2>2. Typed([orders |-> t.orders, clients |-> t.clients, active |-> t.active,
               unknown |-> t.unknown, seen |-> t.seen, marks |-> t.marks, known |-> t.known,
               fills |-> t.fills, fillSeq |-> t.fillSeq, events |-> t.events, ops |-> t.ops,
               ledger |-> l, latest |-> t.latest, lastKey |-> t.lastKey])
    BY <1>2, <2>1, TypedOf
  <2> QED BY <1>4, <2>2
<1> QED BY <1>2, <1>3, <1>4, <1>5 DEF Remarked

\* Marked either fails and leaves the state or marks it and keeps the rows.
LEMMA MarkedIs ==
  ASSUME NEW a, IsResult(a), a.ok \in BOOLEAN, Typed(a.s), a.rows \in Seq(RowType)
  PROVE  /\ Marked(a).ok \in BOOLEAN /\ Typed(Marked(a).s)
         /\ ~ Marked(a).ok => Marked(a).s = a.s
         /\ Marked(a).ok => a.ok /\ Marked(a).rows = a.rows /\ Remarked(a.s, Marked(a).s)
                            /\ ~ MarkRefused(a.s.ledger, a.s.marks)
<1>1. CASE ~ a.ok
  <2>1. Marked(a) = a BY <1>1 DEF Marked
  <2> QED BY <1>1, <2>1
<1>2. CASE a.ok /\ MarkRefused(a.s.ledger, a.s.marks)
  <2>1. Marked(a) = [ok |-> FALSE, s |-> a.s, rows |-> <<>>] BY <1>2 DEF Marked, Raised
  <2> QED BY <2>1
<1>3. CASE a.ok /\ ~ MarkRefused(a.s.ledger, a.s.marks)
  <2> DEFINE m == Marked(a)
             u == [a.s EXCEPT !.ledger = Mark(a.s.ledger, a.s.marks)]
  <2>1. m = [a EXCEPT !.s.ledger = Mark(@, a.s.marks)] BY <1>3 DEF Marked
  <2>2. m.ok = a.ok /\ m.s = u /\ m.rows = a.rows
    <3>1. IsResult(a) /\ IsState(a.s) BY TypedParts DEF IsState
    <3> HIDE DEF m
    <3> QED BY <2>1, <3>1 DEF IsResult, IsState
  <2> HIDE DEF m, u
  <2>3. Remarked(a.s, u) BY MarkedState DEF u
  <2>4. Typed(u) BY <2>3 DEF Remarked
  <2> QED BY <1>3, <2>2, <2>3, <2>4 DEF m
<1> QED BY <1>1, <1>2, <1>3

\* A mark changes nothing a state between operations rests on.
LEMMA RemarkedKeeps ==
  ASSUME NEW t, NEW u, Remarked(t, u)
  PROVE  /\ Good(t) => Good(u)
         /\ \A s, O, C, I : Frame(s, t, O, C, I) => Frame(s, u, O, C, I)
         /\ Reserved(u) = Reserved(t) /\ ReservedInstruments(u) = ReservedInstruments(t)
         /\ Positions(u.ledger) = Positions(t.ledger)
         /\ Typed(t) => Pays(t, u)
<1>1. /\ Typed(u) /\ u.orders = t.orders /\ u.clients = t.clients /\ u.active = t.active
      /\ u.unknown = t.unknown /\ u.seen = t.seen /\ u.marks = t.marks /\ u.known = t.known
      /\ u.fills = t.fills /\ u.latest = t.latest
      /\ u.ledger.fills = t.ledger.fills /\ u.ledger.held = t.ledger.held
  BY DEF Remarked
<1>2. Good(t) => Good(u) BY <1>1 DEF Good, Indexed, Current, On
<1>3. \A s, O, C, I : Frame(s, t, O, C, I) => Frame(s, u, O, C, I)
  BY <1>1 DEF Frame, Extends, NewIds
<1>4. /\ Reserved(u) = Reserved(t) /\ ReservedInstruments(u) = ReservedInstruments(t)
      /\ Positions(u.ledger) = Positions(t.ledger)
  BY <1>1 DEF Reserved, ReservedInstruments, Positions
<1>5. Typed(t) => Pays(t, u)
  <2>1. u.ledger = Mark(t.ledger, t.marks) BY DEF Remarked
  <2> QED BY <1>1, <2>1, MarkPays
<1> QED BY <1>2, <1>3, <1>4, <1>5

\* A market event.
LEMMA MarketOutcome ==
  ASSUME NEW s, Good(s), NEW inputs, NEW at, IsCohort(s, inputs, at), ById(inputs),
         ~ CohortRefused(s, inputs, at), NEW O, NEW C, NEW I,
         Named(inputs) \subseteq I, \A i \in Named(inputs) : s.active[i] \subseteq O
  PROVE  Outcome(s, MarketKernel(s, inputs, at), at, O, C, I)
<1> DEFINE a == Cohort(s, inputs, at)
           r == MarketKernel(s, inputs, at)
           N == Len(inputs)
           new == \E n \in DOMAIN inputs : IsNew(inputs[n])
<1>1. r = IF new THEN Marked(a) ELSE a BY CohortFolds
<1>2. Reached(s, inputs, at, a, N, O, C, I) BY CohortReaches
<1>3. /\ inputs \in Seq(InputType) /\ inputs # <<>> /\ N \in Nat /\ DOMAIN inputs = 1..N
      /\ Named(inputs) = Relevant(s) /\ at \in Times /\ s.latest <= at
      /\ \A n \in 1..N : inputs[n].duplicate => s.seen[inputs[n].instrument].at = at
      /\ \A n \in 1..N : ~ inputs[n].duplicate => s.seen[inputs[n].instrument].at < at
      /\ \A n \in 1..N : inputs[n].instrument \in Instruments
  BY DEF IsCohort, IsInput
<1> HIDE DEF a, N
<1>4. /\ IsResult(a) /\ a.ok \in BOOLEAN /\ Typed(a.s) /\ a.rows \in Seq(RowType)
      /\ Frame(s, a.s, O, C, I) /\ a.s.events = s.events /\ a.s.ops = s.ops
      /\ a.ok => /\ Kept(s, a.s) /\ Reported(a.rows, inputs, N, at)
                 /\ Rationed(a.rows, inputs, N) /\ Traded(s, <<>>, a.s, a.rows)
                 /\ Acted(s, <<>>, a.s, a.rows, Newly(inputs, N), at)
                 /\ Positions(a.s.ledger) \subseteq Positions(s.ledger) \cup Named(inputs)
                 /\ \A m \in 1..N : ~ inputs[m].duplicate => at <= a.s.latest
  BY <1>2 DEF Reached
<1>5. /\ r.ok \in BOOLEAN /\ Typed(r.s) /\ Frame(s, r.s, O, C, I)
      /\ r.s.events = s.events /\ r.s.ops = s.ops
      /\ r.ok => /\ a.ok /\ r.rows = a.rows /\ r.s.latest = a.s.latest
                 /\ r.s.orders = a.s.orders /\ r.s.seen = a.s.seen
                 /\ Good(a.s) => Good(r.s)
                 /\ Reserved(r.s) = Reserved(a.s)
                 /\ ReservedInstruments(r.s) = ReservedInstruments(a.s)
                 /\ Pays(a.s, r.s)
  <2> HIDE DEF r, new
  <2>1. CASE ~ new
    <3>1. r = a /\ Pays(a.s, a.s) BY <1>1, <2>1, SamePays
    <3> QED BY <1>4, <3>1
  <2>2. CASE new
    <3>1. r = Marked(a) BY <1>1, <2>2
    <3>2. /\ r.ok \in BOOLEAN /\ Typed(r.s) /\ (~ r.ok => r.s = a.s)
          /\ r.ok => a.ok /\ r.rows = a.rows /\ Remarked(a.s, r.s)
      BY <1>4, <3>1, MarkedIs
    <3>3. CASE ~ r.ok BY <1>4, <3>2, <3>3
    <3>4. CASE r.ok
      <4>1. Remarked(a.s, r.s) BY <3>2, <3>4
      <4>2. /\ r.s.events = a.s.events /\ r.s.ops = a.s.ops /\ r.s.latest = a.s.latest
            /\ r.s.orders = a.s.orders /\ r.s.seen = a.s.seen
        BY <4>1 DEF Remarked
      <4>3. /\ Good(a.s) => Good(r.s)
            /\ Frame(s, a.s, O, C, I) => Frame(s, r.s, O, C, I)
            /\ Reserved(r.s) = Reserved(a.s)
            /\ ReservedInstruments(r.s) = ReservedInstruments(a.s)
            /\ Typed(a.s) => Pays(a.s, r.s)
        BY <4>1, RemarkedKeeps
      <4> QED BY <1>4, <3>2, <3>4, <4>2, <4>3
    <3> QED BY <3>2, <3>3, <3>4
  <2> QED BY <2>1, <2>2
<1>6. ASSUME r.ok
      PROVE  /\ Good(r.s) /\ r.rows \in Seq(RowType) /\ r.rows # <<>>
             /\ \A n \in 1..Len(r.rows) : r.rows[n].at = at
             /\ s.latest <= at /\ at <= r.s.latest
             /\ Again(s, r.rows) = r
             /\ Fits(s) => Fits(r.s)
             /\ Pays(s, r.s)
             /\ Explains(s, r.rows, r.s)
  <2>1. /\ Kept(s, a.s) /\ Reported(a.rows, inputs, N, at) /\ r.rows = a.rows
        /\ Rationed(a.rows, inputs, N) /\ Traded(s, <<>>, a.s, a.rows)
        /\ Acted(s, <<>>, a.s, a.rows, Newly(inputs, N), at)
        /\ Positions(a.s.ledger) \subseteq Positions(s.ledger) \cup Named(inputs)
        /\ \A m \in 1..N : ~ inputs[m].duplicate => at <= a.s.latest
        /\ r.s.latest = a.s.latest /\ Good(r.s)
    <3> HIDE DEF r, new
    <3> QED BY <1>4, <1>5, <1>6 DEF Kept
  <2>2. /\ CohortOf(r.rows) = inputs /\ ~ ToldTwice(r.rows) /\ r.rows # <<>>
        /\ Last(r.rows).at = at /\ OperationKind(r.rows) = "MARKET"
    <3>1. /\ CohortOf(a.rows) = inputs /\ ~ ToldTwice(a.rows) /\ a.rows # <<>>
          /\ Last(a.rows).at = at /\ OperationKind(a.rows) = "MARKET"
      BY <1>4, <2>1, CohortTold DEF N
    <3> HIDE DEF r
    <3> QED BY <2>1, <3>1
  <2>3. \A n \in 1..Len(r.rows) : r.rows[n].at = at
    <3> HIDE DEF r
    <3> QED BY <2>1 DEF Reported
  <2>4. at <= r.s.latest
    <3>1. 1 \in 1..N BY <1>3 DEF N
    <3>2. CASE inputs[1].duplicate
      <4> DEFINE i == inputs[1].instrument
      <4>1. i \in Instruments /\ s.seen[i].at = at BY <1>3, <3>1, <3>2
      <4>2. s.seen[i].at <= s.latest BY <4>1 DEF Good, Current
      <4>3. s.latest <= a.s.latest BY <2>1 DEF Kept
      <4>4. s.latest \in Nat /\ a.s.latest \in Nat /\ at \in Nat
        BY <1>3, <1>4, TypedParts, TimesAreInstants DEF Good
      <4> HIDE DEF r
      <4> QED BY <2>1, <4>1, <4>2, <4>3, <4>4
    <3>3. CASE ~ inputs[1].duplicate
      <4> HIDE DEF r
      <4> QED BY <2>1, <3>1, <3>3
    <3> QED BY <3>2, <3>3
  <2>5. Again(s, r.rows) = r
    <3>1. MarketAgain(s, r.rows) = r
      <4> DEFINE rows == r.rows
      <4>1. CohortOf(rows) = inputs /\ Last(rows).at = at /\ ~ ToldTwice(rows) BY <2>2
      <4> HIDE DEF rows
      <4>2. MarketAgain(s, rows) = MarketKernel(s, inputs, at) BY <1>3, <4>1 DEF MarketAgain
      <4> QED BY <4>2 DEF rows
    <3> HIDE DEF r
    <3> QED BY <2>2, <3>1 DEF Again
  <2>6. Fits(s) => Fits(r.s)
    <3>1. Reserved(a.s) \subseteq Reserved(s) BY <2>1 DEF Kept, Reserved
    <3>2. ReservedInstruments(a.s) \subseteq ReservedInstruments(s)
      <4>1. Named(inputs) \subseteq ReservedInstruments(s) BY <1>3 DEF Relevant, ReservedInstruments
      <4> QED BY <2>1, <4>1 DEF Kept, ReservedInstruments
    <3> HIDE DEF r
    <3> QED BY <1>5, <1>6, <3>1, <3>2, FitsLess
  <2>7. Pays(s, r.s)
    <3> HIDE DEF r
    <3>1. Pays(s, a.s) /\ Pays(a.s, r.s) BY <1>5, <1>6, <2>1 DEF Kept
    <3> QED BY <3>1, PaysThen
  <2>8. Explains(s, r.rows, r.s)
    <3> HIDE DEF r, new
    <3>1. \A k \in 1..N : IsInput(inputs[k]) BY <1>3 DEF IsCohort
    <3>2. Shares(a.rows) BY <1>3, <1>4, <2>1, <3>1, RationsShare
    <3>3. Orderly(s) => Moved(s, a.rows, a.s) BY <2>1, CarriedMoved DEF Traded
    <3>4. ASSUME Solvent(s) PROVE Bears(s, a.rows, a.s)
      <4>1. Acts(s, <<>>, a.s, a.rows, Newly(inputs, Len(inputs)), at) BY <2>1, <3>4 DEF Acted, N
      <4> QED BY <1>4, <4>1, BearsNews
    <3>5. Explains(s, a.rows, a.s) BY <3>2, <3>3, <3>4 DEF Explains
    <3> QED BY <1>5, <1>6, <2>1, <3>5, ExplainsSame
  <2> HIDE DEF r
  <2> QED BY <1>3, <1>4, <2>1, <2>2, <2>3, <2>4, <2>5, <2>6, <2>7, <2>8
<1> HIDE DEF r
<1>7. Outcome(s, r, at, O, C, I) BY <1>5, <1>6 DEF Outcome
<1> QED BY <1>7 DEF r

\* A kernel that raises before it changes anything.
LEMMA RaisedOutcome ==
  ASSUME NEW s, Good(s), NEW at, NEW O, NEW C, NEW I
  PROVE  Outcome(s, Raised(s), at, O, C, I)
<1> DEFINE r == Raised(s)
<1>1. r.ok = FALSE /\ r.s = s BY DEF Raised
<1>2. Typed(s) BY DEF Good
<1>3. Frame(s, s, O, C, I) BY <1>2, FrameSame
<1> HIDE DEF r
<1>4. Outcome(s, r, at, O, C, I) BY <1>1, <1>2, <1>3 DEF Outcome
<1> QED BY <1>4 DEF r

\* An intent submitted again.
LEMMA IdempotencyOutcome ==
  ASSUME NEW s, Good(s), NEW o \in Orders, NEW in \in Intents, NEW O, NEW C, NEW I
  PROVE  Outcome(s, IdempotencyKernel(s, o, in), s.latest, O, C, I)
<1> DEFINE r == IdempotencyKernel(s, o, in)
<1>1. CASE ~ WellShaped(in) \/ o \notin s.clients
  <2>1. r = Raised(s) BY <1>1 DEF IdempotencyKernel
  <2> HIDE DEF r
  <2> QED BY <2>1, RaisedOutcome DEF r
<1>2. CASE ~ (~ WellShaped(in) \/ o \notin s.clients)
  <2> DEFINE kind == IF s.orders[o].intent = in THEN "duplicate" ELSE "duplicate_conflict"
             row == [kind |-> kind, order |-> o, intent |-> in, at |-> s.latest,
                     from |-> s.orders[o].status]
  <2>1. r = Done(s, <<row>>) BY <1>2 DEF IdempotencyKernel
  <2>2. r.ok = TRUE /\ r.s = s /\ r.rows = <<row>>
    <3> HIDE DEF row
    <3> QED BY <2>1 DEF Done
  <2>3. Typed(s) /\ s.latest \in Instants /\ s.latest \in Nat /\ o \in DOMAIN s.orders
    BY <1>2, TypedParts, TimesAreInstants DEF Good, Indexed
  <2>4. s.orders[o].status \in Logged!Statuses BY <2>3, TypedParts, RecordParts
  <2>5. row \in RowType BY <2>3, <2>4 DEF RowType
  <2>6. /\ row.kind \in {"duplicate", "duplicate_conflict"} /\ row.order = o
        /\ row.intent = in /\ row.at = s.latest
    OBVIOUS
  <2> HIDE DEF row
  <2>7. /\ r.rows \in Seq(RowType) /\ r.rows # <<>> /\ Len(r.rows) = 1 /\ r.rows[1] = row
        /\ DOMAIN r.rows = {1}
    <3> HIDE DEF r, RowType
    <3> QED BY <2>2, <2>5
  <2>8. Again(s, r.rows) = r
    <3> DEFINE rows == r.rows
    <3>1. DOMAIN rows = {1} /\ rows[1] = row BY <2>7
    <3> HIDE DEF rows
    <3>2. Kinds(rows) = {row.kind} BY <3>1 DEF Kinds
    <3>3. OperationKind(rows) = "IDEMPOTENCY" BY <2>6, <3>2 DEF OperationKind
    <3>4. Again(s, rows) = IdempotencyKernel(s, rows[1].order, rows[1].intent) BY <3>3 DEF Again
    <3> QED BY <2>6, <3>1, <3>4 DEF rows
  <2> HIDE DEF r
  <2>9. Frame(s, s, O, C, I) BY <2>3, FrameSame
  <2>10. \A n \in 1..Len(r.rows) : r.rows[n].at = s.latest BY <2>6, <2>7
  <2>11. s.latest <= s.latest /\ r.ok \in BOOLEAN /\ Typed(r.s) /\ Frame(s, r.s, O, C, I)
         /\ r.s.latest = s.latest /\ Good(r.s) /\ (Fits(s) => Fits(r.s))
         /\ r.s.events = s.events /\ r.s.ops = s.ops /\ Pays(s, r.s)
    <3>1. r.ok \in BOOLEAN /\ r.s = s /\ Good(s) /\ Pays(s, r.s) BY <2>2, SamePays
    <3>2. s.latest <= s.latest BY <2>3
    <3> QED BY <2>3, <2>9, <3>1, <3>2
  <2> HIDE DEF RowType
  <2>11a. Explains(s, r.rows, r.s)
    <3>1. \A n \in 1..Len(r.rows) : r.rows[n].kind \in {"duplicate", "duplicate_conflict"}
      BY <2>6, <2>7
    <3>2. Shares(r.rows) BY <2>6, <2>7, NothingObserved
    <3>3. Moved(s, r.rows, r.s) BY <2>2, <3>1, MovedNothing
    <3>4. Bears(s, r.rows, r.s)
      <4>1. \A n \in 1..Len(r.rows) : r.rows[n].kind # "fill" BY <3>1
      <4> QED BY <2>2, <2>3, <4>1, BearsQuiet DEF SameOrder
    <3> QED BY <3>2, <3>3, <3>4 DEF Explains
  <2>12. Outcome(s, r, s.latest, O, C, I) BY <2>7, <2>8, <2>10, <2>11, <2>11a DEF Outcome
  <2> QED BY <2>12 DEF r
<1> QED BY <1>1, <1>2

------------------------------
(* The indexes of an order *)

\* SyncIndexes enters the order by its status and changes nothing else.
LEMMA SyncIs ==
  ASSUME NEW s, Typed(s), NEW o \in DOMAIN s.orders, NEW i \in Instruments,
         s.orders[o].intent.instrument = i, NEW t, t = SyncIndexes(s, o)
  PROVE  Synced(s, t, o, i, s.orders[o].status)
<1> DEFINE status == s.orders[o].status
           active == Indexes(s.active, i, o, Lifecycle!Executable(status))
           unknown == Indexes(s.unknown, i, o, status = "unknown")
<1>1. /\ IsState(s) /\ o \in Orders /\ s.active \in [Instruments -> SUBSET Orders]
      /\ s.unknown \in [Instruments -> SUBSET Orders]
  BY TypedParts DEF IsState, Entries
<1>2. active \in Entries /\ unknown \in Entries BY <1>1 DEF Indexes, Entries
<1>3. t = [s EXCEPT !.active = active, !.unknown = unknown]
  BY <1>1 DEF SyncIndexes, Indexes, IsState
<1> HIDE DEF active, unknown, status
<1>4. /\ t = [orders |-> s.orders, clients |-> s.clients, active |-> active,
              unknown |-> unknown, seen |-> s.seen, marks |-> s.marks, known |-> s.known,
              fills |-> s.fills, fillSeq |-> s.fillSeq, events |-> s.events, ops |-> s.ops,
              ledger |-> s.ledger, latest |-> s.latest, lastKey |-> s.lastKey]
      /\ t.orders = s.orders /\ t.clients = s.clients /\ t.active = active
      /\ t.unknown = unknown /\ t.seen = s.seen /\ t.marks = s.marks /\ t.known = s.known
      /\ t.fills = s.fills /\ t.fillSeq = s.fillSeq /\ t.events = s.events /\ t.ops = s.ops
      /\ t.ledger = s.ledger /\ t.latest = s.latest /\ t.lastKey = s.lastKey
  <2>1. IsState(s) BY <1>1
  <2> QED BY <1>3, <2>1 DEF IsState
<1>5. Typed(t)
  <2>1. /\ s.orders \in [DOMAIN s.orders -> OrderRecord] /\ DOMAIN s.orders \subseteq Orders
        /\ s.clients \in SUBSET Orders
        /\ s.seen \in [Instruments -> SeenType] /\ s.marks \in [Instruments -> Nat]
        /\ s.known \in SUBSET Instruments /\ s.fills \in Seq(FillType)
        /\ s.fillSeq \in Nat /\ s.events \in Nat /\ s.ops \in Nat
        /\ s.ledger \in LedgerType /\ s.latest \in Instants
        /\ s.lastKey \in [at : Instants, instrument : Instruments \cup {0}]
    BY TypedParts
  <2>2. Typed([orders |-> s.orders, clients |-> s.clients, active |-> active,
               unknown |-> unknown, seen |-> s.seen, marks |-> s.marks, known |-> s.known,
               fills |-> s.fills, fillSeq |-> s.fillSeq, events |-> s.events, ops |-> s.ops,
               ledger |-> s.ledger, latest |-> s.latest, lastKey |-> s.lastKey])
    BY <1>2, <2>1, TypedOf
  <2> QED BY <1>4, <2>2
<1> QED BY <1>4, <1>5 DEF Synced, active, unknown, status

\* The indexes agree with the orders after one order is entered.
LEMMA IndexedAfter ==
  ASSUME NEW s, Good(s), NEW t, Typed(t), NEW o, NEW i \in Instruments, OrderIndexed(s, t, o, i)
  PROVE  Indexed(t) /\ IsFiniteSet(DOMAIN t.orders)
<1>1. /\ DOMAIN t.orders = DOMAIN s.orders \cup {o} /\ t.clients = s.clients \cup {o}
      /\ t.orders[o].intent.instrument = i
      /\ o \in DOMAIN s.orders => s.orders[o].intent.instrument = i
      /\ \A k \in DOMAIN s.orders \ {o} : t.orders[k] = s.orders[k]
      /\ t.active = Indexes(s.active, i, o, Lifecycle!Executable(t.orders[o].status))
      /\ t.unknown = Indexes(s.unknown, i, o, t.orders[o].status = "unknown")
      /\ \A j \in Instruments : s.seen[j] # Unseen => t.seen[j] # Unseen
      /\ t.active[i] \cup t.unknown[i] # {} => t.seen[i] # Unseen
  BY DEF OrderIndexed
<1>2. /\ Indexed(s) /\ Typed(s) /\ s.active \in [Instruments -> SUBSET Orders]
      /\ s.unknown \in [Instruments -> SUBSET Orders]
  BY TypedParts DEF Good, Entries
<1>3. t.clients = DOMAIN t.orders BY <1>1, <1>2 DEF Indexed
<1>4. IsFiniteSet(DOMAIN t.orders) BY <1>1, FS_AddElement DEF Good
<1>5. ASSUME NEW j \in Instruments
      PROVE  /\ t.active[j] = {k \in On(t, j) : Lifecycle!Executable(t.orders[k].status)}
             /\ t.unknown[j] = {k \in On(t, j) : t.orders[k].status = "unknown"}
             /\ t.active[j] \cup t.unknown[j] # {} => t.seen[j] # Unseen
  <2>1. /\ s.active[j] = {k \in On(s, j) : Lifecycle!Executable(s.orders[k].status)}
        /\ s.unknown[j] = {k \in On(s, j) : s.orders[k].status = "unknown"}
        /\ s.active[j] \cup s.unknown[j] # {} => s.seen[j] # Unseen
    BY <1>2 DEF Indexed
  <2>2. CASE j = i
    <3>1. On(t, i) = On(s, i) \cup {o} BY <1>1 DEF On
    <3>2. \A k \in On(s, i) : k # o => t.orders[k] = s.orders[k] BY <1>1 DEF On
    <3>3. /\ t.active[i] = IF Lifecycle!Executable(t.orders[o].status)
                           THEN s.active[i] \cup {o} ELSE s.active[i] \ {o}
          /\ t.unknown[i] = IF t.orders[o].status = "unknown"
                            THEN s.unknown[i] \cup {o} ELSE s.unknown[i] \ {o}
      BY <1>1, <1>2 DEF Indexes
    <3>4. t.active[i] = {k \in On(t, i) : Lifecycle!Executable(t.orders[k].status)}
      BY <2>1, <2>2, <3>1, <3>2, <3>3
    <3>5. t.unknown[i] = {k \in On(t, i) : t.orders[k].status = "unknown"}
      BY <2>1, <2>2, <3>1, <3>2, <3>3
    <3> QED BY <1>1, <2>2, <3>4, <3>5
  <2>3. CASE j # i
    <3>1. On(t, j) = On(s, j) /\ o \notin On(s, j) BY <1>1, <2>3 DEF On
    <3>2. \A k \in On(s, j) : t.orders[k] = s.orders[k] BY <1>1, <3>1 DEF On
    <3>3. t.active[j] = s.active[j] /\ t.unknown[j] = s.unknown[j] BY <1>1, <1>2, <2>3 DEF Indexes
    <3> QED BY <1>1, <2>1, <3>1, <3>2, <3>3
  <2> QED BY <2>2, <2>3
<1> QED BY <1>3, <1>4, <1>5 DEF Indexed

\* A new set of orders changes nothing else.
LEMMA OrdersOnly ==
  ASSUME NEW s, Typed(s), NEW orders, orders \in [DOMAIN orders -> OrderRecord],
         DOMAIN orders \subseteq Orders, NEW t, t = [s EXCEPT !.orders = orders]
  PROVE  WithOrders(s, t, orders)
<1>1. IsState(s) BY TypedParts DEF IsState
<1>2. /\ t = [orders |-> orders, clients |-> s.clients, active |-> s.active,
              unknown |-> s.unknown, seen |-> s.seen, marks |-> s.marks, known |-> s.known,
              fills |-> s.fills, fillSeq |-> s.fillSeq, events |-> s.events, ops |-> s.ops,
              ledger |-> s.ledger, latest |-> s.latest, lastKey |-> s.lastKey]
      /\ t.orders = orders /\ t.clients = s.clients /\ t.active = s.active
      /\ t.unknown = s.unknown /\ t.seen = s.seen /\ t.marks = s.marks /\ t.known = s.known
      /\ t.fills = s.fills /\ t.fillSeq = s.fillSeq /\ t.events = s.events /\ t.ops = s.ops
      /\ t.ledger = s.ledger /\ t.latest = s.latest /\ t.lastKey = s.lastKey
  BY <1>1 DEF IsState
<1>3. Typed(t)
  <2>1. /\ s.clients \in SUBSET Orders /\ s.active \in Entries /\ s.unknown \in Entries
        /\ s.seen \in [Instruments -> SeenType] /\ s.marks \in [Instruments -> Nat]
        /\ s.known \in SUBSET Instruments /\ s.fills \in Seq(FillType)
        /\ s.fillSeq \in Nat /\ s.events \in Nat /\ s.ops \in Nat
        /\ s.ledger \in LedgerType /\ s.latest \in Instants
        /\ s.lastKey \in [at : Instants, instrument : Instruments \cup {0}]
    BY TypedParts
  <2>2. Typed([orders |-> orders, clients |-> s.clients, active |-> s.active,
               unknown |-> s.unknown, seen |-> s.seen, marks |-> s.marks, known |-> s.known,
               fills |-> s.fills, fillSeq |-> s.fillSeq, events |-> s.events, ops |-> s.ops,
               ledger |-> s.ledger, latest |-> s.latest, lastKey |-> s.lastKey])
    BY <2>1, TypedOf
  <2> QED BY <1>2, <2>2
<1> QED BY <1>2, <1>3 DEF WithOrders

\* The end of a submission changes clients, snapshots and the clock.
LEMMA FinishedIs ==
  ASSUME NEW s, Typed(s), NEW clients \in SUBSET Orders,
         NEW seen \in [Instruments -> SeenType], NEW latest \in Instants,
         NEW t, t = [s EXCEPT !.clients = clients, !.seen = seen, !.latest = latest]
  PROVE  Finished(s, t, clients, seen, latest)
<1>1. IsState(s) BY TypedParts DEF IsState
<1>2. /\ t = [orders |-> s.orders, clients |-> clients, active |-> s.active,
              unknown |-> s.unknown, seen |-> seen, marks |-> s.marks, known |-> s.known,
              fills |-> s.fills, fillSeq |-> s.fillSeq, events |-> s.events, ops |-> s.ops,
              ledger |-> s.ledger, latest |-> latest, lastKey |-> s.lastKey]
      /\ t.orders = s.orders /\ t.clients = clients /\ t.active = s.active
      /\ t.unknown = s.unknown /\ t.seen = seen /\ t.marks = s.marks /\ t.known = s.known
      /\ t.fills = s.fills /\ t.fillSeq = s.fillSeq /\ t.events = s.events /\ t.ops = s.ops
      /\ t.ledger = s.ledger /\ t.latest = latest /\ t.lastKey = s.lastKey
  BY <1>1 DEF IsState
<1>3. Typed(t)
  <2>1. /\ s.orders \in [DOMAIN s.orders -> OrderRecord] /\ DOMAIN s.orders \subseteq Orders
        /\ s.active \in Entries /\ s.unknown \in Entries
        /\ s.marks \in [Instruments -> Nat]
        /\ s.known \in SUBSET Instruments /\ s.fills \in Seq(FillType)
        /\ s.fillSeq \in Nat /\ s.events \in Nat /\ s.ops \in Nat
        /\ s.ledger \in LedgerType
        /\ s.lastKey \in [at : Instants, instrument : Instruments \cup {0}]
    BY TypedParts
  <2>2. Typed([orders |-> s.orders, clients |-> clients, active |-> s.active,
               unknown |-> s.unknown, seen |-> seen, marks |-> s.marks, known |-> s.known,
               fills |-> s.fills, fillSeq |-> s.fillSeq, events |-> s.events, ops |-> s.ops,
               ledger |-> s.ledger, latest |-> latest, lastKey |-> s.lastKey])
    BY <2>1, TypedOf
  <2> QED BY <1>2, <2>2
<1> QED BY <1>2, <1>3 DEF Finished

\* A change of one order's record keeps the state good and reserves no more.
LEMMA ReworkedKeeps ==
  ASSUME NEW s, Good(s), NEW o, NEW i, NEW k, Reworkable(s, o, i, k),
         NEW u, Reworked(s, u, o, i, k), NEW O, o \in O, NEW C, NEW I, i \in I
  PROVE  KeptWithin(s, u, O, C, I)
<1>0. /\ o \in DOMAIN s.orders /\ i \in Instruments
      /\ s.orders[o].intent.instrument = i /\ k.intent = s.orders[o].intent
      /\ s.orders[o].status = "unknown" \/ Lifecycle!Executable(s.orders[o].status)
  BY DEF Reworkable
<1> USE <1>0
<1>1. /\ Typed(u) /\ u.orders = [s.orders EXCEPT ![o] = k] /\ u.clients = s.clients
      /\ u.active = Indexes(s.active, i, o, Lifecycle!Executable(k.status))
      /\ u.unknown = Indexes(s.unknown, i, o, k.status = "unknown") /\ u.seen = s.seen
      /\ Beside(s.marks, u.marks, {i}) /\ s.known \subseteq u.known
      /\ u.known \subseteq s.known \cup {i} /\ Extends(s, u) /\ s.latest <= u.latest
  BY DEF Reworked
<1>2. /\ Typed(s) /\ s.active \in [Instruments -> SUBSET Orders]
      /\ s.unknown \in [Instruments -> SUBSET Orders] /\ s.latest \in Nat /\ u.latest \in Nat
      /\ s.orders \in [DOMAIN s.orders -> OrderRecord] /\ s.clients = DOMAIN s.orders
      /\ s.seen \in [Instruments -> SeenType]
  BY <1>1, TypedParts, TimesAreInstants DEF Good, Entries, Indexed
<1>3. /\ u.orders[o] = k /\ DOMAIN u.orders = DOMAIN s.orders
      /\ \A l \in DOMAIN s.orders \ {o} : u.orders[l] = s.orders[l]
  BY <1>1, <1>2
<1>4. /\ \A j \in Instruments \ {i} : u.active[j] = s.active[j] /\ u.unknown[j] = s.unknown[j]
      /\ u.active[i] \subseteq s.active[i] \cup {o} /\ u.unknown[i] \subseteq s.unknown[i] \cup {o}
  BY <1>1, <1>2 DEF Indexes
<1>5. o \in s.active[i] \cup s.unknown[i] /\ s.seen[i] # Unseen
  <2>1. /\ s.active[i] = {l \in On(s, i) : Lifecycle!Executable(s.orders[l].status)}
        /\ s.unknown[i] = {l \in On(s, i) : s.orders[l].status = "unknown"}
        /\ s.active[i] \cup s.unknown[i] # {} => s.seen[i] # Unseen
    BY DEF Good, Indexed
  <2>2. o \in On(s, i) BY DEF On
  <2>3. o \in s.active[i] \cup s.unknown[i] BY <2>1, <2>2
  <2> QED BY <2>1, <2>3
<1>6. OrderIndexed(s, u, o, i)
  <2>1. u.orders[o].intent.instrument = i /\ u.clients = s.clients \cup {o}
        /\ DOMAIN u.orders = DOMAIN s.orders \cup {o}
    BY <1>1, <1>2, <1>3
  <2> QED BY <1>1, <1>3, <1>5, <2>1 DEF OrderIndexed
<1>7. Indexed(u) /\ IsFiniteSet(DOMAIN u.orders) BY <1>1, <1>6, IndexedAfter
<1>8. Current(u)
  <2>1. \A j \in Instruments : s.seen[j].at \in Nat /\ s.seen[j].at <= s.latest
                               /\ Dated(s.seen[j])
    BY <1>2 DEF Good, Current, SeenType
  <2> QED BY <1>1, <1>2, <2>1 DEF Current
<1>9. Frame(s, u, O, C, I)
  <2>1. /\ Beside(s.active, u.active, I) /\ Beside(s.unknown, u.unknown, I)
        /\ Beside(s.seen, u.seen, I) /\ Beside(s.marks, u.marks, I)
    BY <1>1, <1>4 DEF Beside
  <2> QED BY <1>1, <1>3, <2>1 DEF Frame
<1>10. Reserved(u) \subseteq Reserved(s)
  <2>1. ASSUME NEW j \in Instruments
        PROVE  u.active[j] \cup u.unknown[j] \subseteq s.active[j] \cup s.unknown[j]
    BY <1>4, <1>5
  <2> QED BY <2>1 DEF Reserved
<1>11. \A j \in Instruments : u.active[j] \cup u.unknown[j] # {} =>
                                 s.active[j] \cup s.unknown[j] # {}
  BY <1>4, <1>5
<1> QED BY <1>1, <1>7, <1>8, <1>9, <1>10, <1>11 DEF Good, KeptWithin

\* cancel, reject, expire, mark_unknown and the end of reconcile_unknown.
LEMMA ResolutionOutcome ==
  ASSUME NEW s, Good(s), NEW o \in Orders, NEW to, NEW at \in Times, NEW rejects \in BOOLEAN,
         NEW O, o \in O, NEW C, NEW I,
         \A k \in {o} \cap DOMAIN s.orders : s.orders[k].intent.instrument \in I
  PROVE  Outcome(s, ResolutionKernel(s, o, to, at, rejects), at, O, C, I)
<1> DEFINE r == ResolutionKernel(s, o, to, at, rejects)
<1>1. CASE ResolutionRefused(s, o, to, at)
  <2>1. r = Raised(s) BY <1>1 DEF ResolutionKernel
  <2> HIDE DEF r
  <2> QED BY <2>1, RaisedOutcome DEF r
<1>2. CASE ~ ResolutionRefused(s, o, to, at)
  <2> DEFINE x == s.orders[o]
             i == x.intent.instrument
             k == [x EXCEPT !.status = to, !.updated = at]
             orders == [s.orders EXCEPT ![o] = k]
             staged == [s EXCEPT !.orders = orders]
             synced == SyncIndexes(staged, o)
             u == [synced EXCEPT !.latest = at]
             reason == [kind |-> "rejected", order |-> o, from |-> x.status, to |-> to, at |-> at]
             move == TransitionRow(o, x.status, to, at)
             rows == (IF rejects THEN <<reason>> ELSE <<>>) \o <<move>>
  <2>1. /\ o \in DOMAIN s.orders /\ s.latest <= at /\ to \in Lifecycle!Allowed(x.status)
        /\ Typed(s) /\ s.latest \in Nat /\ at \in Nat /\ at \in Instants
    <3>1. o \in DOMAIN s.orders /\ ~ (at < s.latest) /\ to \in Lifecycle!Allowed(x.status)
      BY <1>2 DEF ResolutionRefused, Regresses
    <3>2. Typed(s) /\ s.latest \in Nat /\ at \in Nat /\ at \in Instants
      BY TypedParts, TimesAreInstants DEF Good
    <3> QED BY <3>1, <3>2
  <2>2. s.orders \in [DOMAIN s.orders -> OrderRecord] /\ DOMAIN s.orders \subseteq Orders /\ IsState(s)
    BY <2>1, TypedParts DEF IsState
  <2>3. x \in OrderRecord /\ i \in Instruments
    <3>1. x \in OrderRecord BY <2>1, <2>2
    <3> QED BY <3>1, RecordParts, IntentParts
  <2>4. /\ to \in Logged!Statuses
        /\ x.status = "unknown" \/ Lifecycle!Executable(x.status)
    <3>1. to \in Lifecycle!Statuses
      BY <2>1 DEF Lifecycle!Allowed, Lifecycle!Statuses, Lifecycle!Closed
    <3>2. x.status \notin Lifecycle!Closed BY <2>1 DEF Lifecycle!Allowed, Lifecycle!Closed
    <3> QED BY <3>1, <3>2, SameStatuses DEF Lifecycle!Executable
  <2>5. /\ k \in OrderRecord /\ k.intent = x.intent /\ k.status = to
    <3> HIDE DEF x
    <3> QED BY <2>3, <2>4 DEF OrderRecord
  <2>6. r = Done(u, rows)
    <3>1. staged = [s EXCEPT !.orders = [@ EXCEPT ![o].status = to, ![o].updated = at]]
      BY <2>1, <2>2 DEF IsState
    <3> HIDE DEF staged
    <3> QED BY <1>2, <3>1 DEF ResolutionKernel
  <2> HIDE DEF k, r, rows
  <2>7. orders \in [DOMAIN orders -> OrderRecord] /\ DOMAIN orders = DOMAIN s.orders /\ orders[o] = k
    BY <2>1, <2>2, <2>5
  <2> HIDE DEF orders
  <2>8. WithOrders(s, staged, orders) BY <2>1, <2>2, <2>7, OrdersOnly
  <2> HIDE DEF staged
  <2>9. Typed(staged) /\ staged.orders = orders BY <2>8 DEF WithOrders
  <2>10. Synced(staged, synced, o, i, to)
    <3>1. o \in DOMAIN staged.orders /\ staged.orders[o].intent.instrument = i
          /\ staged.orders[o].status = to
      BY <2>1, <2>5, <2>7, <2>9
    <3> HIDE DEF synced, i
    <3>2. Synced(staged, synced, o, i, staged.orders[o].status)
      BY <2>3, <2>9, <3>1, SyncIs DEF synced, i
    <3> QED BY <3>1, <3>2
  <2> HIDE DEF synced
  <2>11. Typed(synced) BY <2>10 DEF Synced
  <2>12. Finished(synced, u, synced.clients, synced.seen, at)
    <3>1. /\ IsState(synced) /\ synced.clients \in SUBSET Orders
          /\ synced.seen \in [Instruments -> SeenType]
      BY <2>11, TypedParts DEF IsState
    <3>2. u = [synced EXCEPT !.clients = synced.clients, !.seen = synced.seen, !.latest = at]
      BY <3>1 DEF IsState
    <3> HIDE DEF u
    <3> QED BY <2>1, <2>11, <3>1, <3>2, FinishedIs
  <2> HIDE DEF u
  <2>13. Reworked(s, u, o, i, k)
    <3>1. /\ Typed(u) /\ u.orders = orders /\ u.clients = s.clients
          /\ u.active = Indexes(s.active, i, o, Lifecycle!Executable(to))
          /\ u.unknown = Indexes(s.unknown, i, o, to = "unknown") /\ u.seen = s.seen
          /\ u.marks = s.marks /\ u.known = s.known /\ u.fills = s.fills
          /\ u.ledger = s.ledger /\ u.latest = at /\ u.events = s.events /\ u.ops = s.ops
      BY <2>8, <2>10, <2>12 DEF WithOrders, Synced, Finished
    <3>2. Extends(s, u) BY <2>1, <3>1, TypedParts, ExtendsSame
    <3> HIDE DEF i, x
    <3> QED BY <2>1, <2>5, <3>1, <3>2 DEF Reworked, Beside, orders
  <2>14. /\ Good(u) /\ Frame(s, u, O, C, I) /\ Reserved(u) \subseteq Reserved(s)
         /\ \A j \in Instruments : u.active[j] \cup u.unknown[j] # {} =>
                                      s.active[j] \cup s.unknown[j] # {}
    <3>1. i \in I BY <2>1
    <3>2. Reworkable(s, o, i, k) BY <2>1, <2>3, <2>4, <2>5 DEF Reworkable
    <3> HIDE DEF i, k
    <3>3. KeptWithin(s, u, O, C, I) BY Zenon, <2>13, <3>1, <3>2, ReworkedKeeps
    <3> QED BY ONLY Zenon, <3>3 DEF KeptWithin
  <2>15. r.ok = TRUE /\ r.s = u /\ r.rows = rows BY <2>6 DEF Done
  <2>16. u.latest = at /\ u.events = s.events /\ u.ops = s.ops /\ u.ledger = s.ledger
    BY <2>8, <2>10, <2>12 DEF WithOrders, Synced, Finished
  <2>16a. Pays(s, u)
    <3>1. u.orders = orders /\ u.fills = s.fills /\ u.ledger = s.ledger
      BY <2>8, <2>10, <2>12 DEF WithOrders, Synced, Finished
    <3>2. SameSize(x, k)
      <4> HIDE DEF x
      <4>1. x = [intent |-> x.intent, status |-> x.status, filled |-> x.filled,
                 spent |-> x.spent, submitted |-> x.submitted, updated |-> x.updated,
                 reference |-> x.reference, remaining |-> x.remaining,
                 triggered |-> x.triggered, count |-> x.count, last |-> x.last]
        BY <2>3, RecordParts
      <4> QED BY <4>1 DEF SameSize, k
    <3>3. \A v : SameSize(s.orders[o], v) /\ u.orders = [s.orders EXCEPT ![o] = v]
                 /\ u.fills = s.fills /\ u.ledger = s.ledger => Pays(s, u)
      BY ONLY <2>1, OrderPays
    <3> QED BY <3>1, <3>2, <3>3 DEF orders
  <2>17. reason \in RowType /\ move \in RowType
    <3>1. x.status \in Logged!Statuses BY <2>3, RecordParts
    <3>2. move \in RowType BY <2>4, <3>1, RowsTyped
    <3>3. reason \in RowType BY <2>1, <2>4, <3>1 DEF RowType
    <3> QED BY <3>2, <3>3
  <2>18. /\ reason.kind = "rejected" /\ reason.at = at /\ move.kind = "transition"
         /\ move.at = at /\ move.order = o /\ move.to = to
    BY DEF TransitionRow
  <2> HIDE DEF reason, move, RowType
  <2>19. /\ rows \in Seq(RowType) /\ rows # <<>> /\ Len(rows) \in 1..2 /\ rows[Len(rows)] = move
         /\ (Len(rows) = 2) = rejects
         /\ \A n \in 1..Len(rows) : rows[n] \in {reason, move}
    <3>1. CASE rejects
      <4>1. rows = <<reason>> \o <<move>> /\ rejects = TRUE BY <3>1 DEF rows
      <4> HIDE DEF rows
      <4>4. /\ rows \in Seq(RowType) /\ Len(rows) = 2 /\ rows[1] = reason /\ rows[2] = move
           /\ rows # <<>>
        BY <2>17, <4>1, PairOf
      <4>5. (Len(rows) = 2) = TRUE BY ONLY <4>4
      <4>6. (Len(rows) = 2) = rejects BY <4>1, <4>5
      <4>7. Len(rows) \in 1..2 /\ rows[Len(rows)] = move
            /\ \A n \in 1..Len(rows) : rows[n] \in {reason, move}
        BY <4>4, <4>5
      <4> QED BY <4>4, <4>5, <4>6, <4>7
    <3>2. CASE ~ rejects
      <4>1. rows = <<move>> /\ rejects = FALSE BY <3>2 DEF rows
      <4> QED BY <2>17, <4>1
    <3> QED BY <3>1, <3>2
  <2>20. \A n \in 1..Len(rows) : rows[n].at = at /\ rows[n].kind \in {"rejected", "transition"}
    BY <2>18, <2>19
  <2>21. Again(s, rows) = r
    <3>1. DOMAIN rows = 1..Len(rows) BY <2>19
    <3>2. Kinds(rows) \subseteq {"rejected", "transition"} BY <2>20, <3>1 DEF Kinds
    <3>3. OperationKind(rows) = "RESOLUTION" BY <3>2 DEF OperationKind
    <3>4. Last(rows) = move BY <2>19 DEF Last
    <3>5. ResolveAgain(s, rows) = ResolutionKernel(s, o, to, at, Len(rows) = 2)
      BY <2>18, <3>4 DEF ResolveAgain
    <3>6. Again(s, rows) = ResolveAgain(s, rows) BY <3>3 DEF Again
    <3>7. ResolutionKernel(s, o, to, at, Len(rows) = 2) = r BY <2>19 DEF r
    <3> QED BY <3>5, <3>6, <3>7
  <2>22a. Explains(s, rows, u)
    <3>1. DOMAIN rows = 1..Len(rows) BY <2>19
    <3>2. Shares(rows) BY <2>20, <3>1, NothingObserved
    <3>3. Moved(s, rows, u)
      <4> DEFINE n == Len(rows)
      <4>1. n \in 1..n /\ (n + 1)..n = {} /\ rows[n] = move BY <2>19
      <4>2. u.orders = [s.orders EXCEPT ![o] = k] /\ k.status = to BY <2>5, <2>13 DEF Reworked
      <4>3. /\ StatusOf(s, o) = s.orders[o].status /\ StatusOf(u, o) = to
            /\ \A q \in Orders \ {o} : StatusOf(u, q) = StatusOf(s, q)
        <5> HIDE DEF k, u
        <5> QED BY <2>1, <4>2 DEF StatusOf
      <4>4. Logged!Edge(StatusOf(s, o), StatusOf(u, o)) BY <2>1, <4>3, SameStatuses DEF Logged!Edge
      <4>5. IsMove(rows[n], o) /\ rows[n].to = to BY <2>18, <4>1 DEF IsMove
      <4>6. \A m \in 1..n : rows[m].kind = "transition" => rows[m].order = o BY <2>18, <2>19
      <4>7. \A m \in (n + 1)..n : rows[m].kind # "transition" BY <4>1
      <4> HIDE DEF x
      <4> QED BY <4>1, <4>3, <4>4, <4>5, <4>6, <4>7, MovedOne
    <3>4. Bears(s, rows, u)
      <4>1. SameOrder(x, k) /\ k.triggered = x.triggered
        <5> HIDE DEF x
        <5> QED BY <2>3, RecordParts DEF SameOrder, k
      <4>2. u.orders = [s.orders EXCEPT ![o] = k] /\ u.seen = s.seen BY <2>13 DEF Reworked
      <4>3. \A q \in DOMAIN s.orders :
               SameOrder(s.orders[q], u.orders[q])
                  /\ u.orders[q].triggered = s.orders[q].triggered
        BY <2>1, <4>1, <4>2 DEF SameOrder
      <4>4. \A n \in 1..Len(rows) : rows[n].kind # "fill" BY <2>20
      <4>5. DOMAIN u.orders = DOMAIN s.orders BY <4>2
      <4> QED BY <2>1, <4>2, <4>3, <4>4, <4>5, BearsQuiet
    <3> QED BY <3>2, <3>3, <3>4 DEF Explains
  <2>22. Fits(s) => Fits(u)
    <3>1. ReservedInstruments(u) \subseteq ReservedInstruments(s)
      BY <2>14, <2>16 DEF ReservedInstruments
    <3> QED BY <2>14, <3>1, FitsLess
  <2>23. /\ r.ok \in BOOLEAN /\ Typed(r.s) /\ Frame(s, r.s, O, C, I)
         /\ r.s.events = s.events /\ r.s.ops = s.ops /\ Good(r.s)
         /\ s.latest <= at /\ at <= r.s.latest /\ (Fits(s) => Fits(r.s))
         /\ Pays(s, r.s) /\ Explains(s, r.rows, r.s)
    <3>1. Typed(u) /\ at <= u.latest BY <2>1, <2>14, <2>16 DEF Good
    <3> QED BY <2>1, <2>14, <2>15, <2>16, <2>16a, <2>22, <2>22a, <3>1
  <2>24. /\ r.rows \in Seq(RowType) /\ r.rows # <<>>
         /\ \A n \in 1..Len(r.rows) : r.rows[n].at = at
         /\ Again(s, r.rows) = r
    BY <2>15, <2>19, <2>20, <2>21
  <2>25. Outcome(s, r, at, O, C, I) BY <2>23, <2>24 DEF Outcome
  <2> QED BY <2>25 DEF r
<1> QED BY <1>1, <1>2

------------------------------
(* A submission *)

\* A submission has six rows, all of its instant.
LEMMA SubmissionRows ==
  ASSUME NEW market \in RowType, NEW submitted \in RowType, NEW o \in Orders,
         NEW at \in Times, market.at = at, submitted.at = at, NEW rows,
         rows = <<market, submitted>> \o
                [j \in 1..4 |-> TransitionRow(o, SubmissionPath[j], SubmissionPath[j + 1], at)]
  PROVE  Submission(rows, market, submitted, o, at)
<1> DEFINE p == <<market, submitted>>
           q == [j \in 1..4 |-> TransitionRow(o, SubmissionPath[j], SubmissionPath[j + 1], at)]
<1>1. \A j \in 1..5 : SubmissionPath[j] \in Logged!Statuses
  <2>1. {"proposed", "risk_approved", "confirmed", "submitting", "acknowledged"}
           \subseteq Logged!Statuses
    BY DEF Logged!Statuses
  <2>2. \A j \in 1..5 : SubmissionPath[j] \in
           {"proposed", "risk_approved", "confirmed", "submitting", "acknowledged"}
    BY DEF SubmissionPath
  <2> QED BY <2>1, <2>2
<1>2. \A j \in 1..4 : q[j] \in RowType /\ q[j].at = at
  <2>1. ASSUME NEW j \in 1..4 PROVE q[j] \in RowType /\ q[j].at = at
    <3>1. SubmissionPath[j] \in Logged!Statuses /\ SubmissionPath[j + 1] \in Logged!Statuses BY <1>1
    <3> HIDE DEF RowType
    <3>2. q[j] = TransitionRow(o, SubmissionPath[j], SubmissionPath[j + 1], at) OBVIOUS
    <3>3. q[j] \in RowType BY <3>1, <3>2, RowsTyped
    <3>4. q[j].at = at BY <3>2 DEF TransitionRow
    <3> QED BY <3>3, <3>4
  <2> QED BY <2>1
<1>2a. \A n \in 3..6 : q[n - 2] = TransitionRow(o, SubmissionPath[n - 2], SubmissionPath[n - 1], at)
  <2>1. ASSUME NEW n \in 3..6
        PROVE  q[n - 2] = TransitionRow(o, SubmissionPath[n - 2], SubmissionPath[n - 1], at)
    <3>1. n - 2 \in 1..4 /\ (n - 2) + 1 = n - 1 OBVIOUS
    <3>2. q[n - 2] = TransitionRow(o, SubmissionPath[n - 2], SubmissionPath[(n - 2) + 1], at)
      BY <3>1
    <3> QED BY <3>1, <3>2
  <2> QED BY <2>1
<1> HIDE DEF RowType
<1>3. q \in Seq(RowType) /\ Len(q) = 4 BY <1>2
<1>4. /\ p \in Seq(RowType) /\ Len(p) = 2 /\ p[1] = market /\ p[2] = submitted OBVIOUS
<1>5. rows = p \o q OBVIOUS
<1> HIDE DEF p, q
<1>6. /\ p \o q \in Seq(RowType) /\ Len(p \o q) = Len(p) + Len(q)
      /\ \A n \in 1..(Len(p) + Len(q)) :
            (p \o q)[n] = IF n <= Len(p) THEN p[n] ELSE q[n - Len(p)]
  BY <1>3, <1>4, ConcatProperties
<1>6a. /\ rows \in Seq(RowType) /\ Len(rows) = 6
       /\ \A n \in 1..6 : rows[n] = IF n <= 2 THEN p[n] ELSE q[n - 2]
  <2>1. Len(p) + Len(q) = 6 BY <1>3, <1>4
  <2> QED BY <1>4, <1>5, <1>6, <2>1
<1>7. rows[1] = market /\ rows[2] = submitted
  <2>1. rows[1] = p[1] BY <1>6a
  <2>2. rows[2] = p[2] BY <1>6a
  <2> QED BY <1>4, <2>1, <2>2
<1>8. ASSUME NEW n \in 1..6 PROVE rows[n].at = at
  <2>1. CASE n <= 2
    <3>1. n = 1 \/ n = 2 BY <2>1
    <3> QED BY <1>7, <3>1
  <2>2. CASE ~ (n <= 2)
    <3>1. rows[n] = q[n - 2] BY <1>6a, <2>2
    <3>2. n - 2 \in 1..4 BY <2>2
    <3> QED BY <1>2, <3>1, <3>2
  <2> QED BY <2>1, <2>2
<1>9. \A n \in 3..6 : rows[n] = TransitionRow(o, SubmissionPath[n - 2], SubmissionPath[n - 1], at)
  <2>1. ASSUME NEW n \in 3..6 PROVE rows[n] = q[n - 2] BY <1>6a
  <2> QED BY <1>2a, <2>1
<1> QED BY <1>6a, <1>7, <1>8, <1>9 DEF Submission

\* Admission leaves room for the rows of the worst next market event.
LEMMA AdmittedFits ==
  ASSUME NEW s, Good(s), NEW i \in Instruments, Admissible(s, i), NEW o, o \notin DOMAIN s.orders,
         NEW u, Reserved(u) \subseteq Reserved(s) \cup {o},
         ReservedInstruments(u) \subseteq ReservedInstruments(s) \cup {i}
  PROVE  Fits(u)
<1> DEFINE A == ReservedInstruments(s) \cup {i}
           S == Reserved(s) \cup {o}
           B == ReservedInstruments(u)
           T == Reserved(u)
<1>1. IsFiniteSet(Reserved(s)) /\ IsFiniteSet(ReservedInstruments(s)) BY ReservedFinite
<1>2. o \notin Reserved(s) BY DEF Good, Indexed, Reserved, On
<1>3. IsFiniteSet(A) /\ IsFiniteSet(S) /\ Cardinality(S) = Cardinality(Reserved(s)) + 1
  BY <1>1, <1>2, FS_AddElement
<1>4. WorstRows(A, Cardinality(S)) <= MaxGroup BY <1>3 DEF Admissible
<1>5. B \subseteq A /\ T \subseteq S OBVIOUS
<1> HIDE DEF A, B, S, T
<1>6. /\ WorstRows(B, Cardinality(T)) \in Nat /\ WorstRows(A, Cardinality(S)) \in Nat
      /\ WorstRows(B, Cardinality(T)) <= WorstRows(A, Cardinality(S))
  BY <1>3, <1>5, FewerRows
<1>7. MaxGroup \in Nat BY LimitsAssumption
<1>8. WorstRows(B, Cardinality(T)) <= MaxGroup BY <1>4, <1>6, <1>7
<1> QED BY <1>8 DEF Fits, B, T

\* submit, of an intent not seen before.
LEMMA SubmitOutcome ==
  ASSUME NEW s, Good(s), NEW o \in Orders, NEW in \in Intents, NEW seen \in SeenType,
         seen.at \in Times, NEW O, o \in O, NEW C, o \in C, NEW I, in.instrument \in I
  PROVE  Outcome(s, SubmitKernel(s, o, in, seen), seen.at, O, C, I)
<1> DEFINE r == SubmitKernel(s, o, in, seen)
<1>1. CASE SubmitRefused(s, o, in, seen)
  <2>1. r = Raised(s) BY <1>1 DEF SubmitKernel
  <2> HIDE DEF r
  <2> QED BY <2>1, RaisedOutcome DEF r
<1>2. CASE ~ SubmitRefused(s, o, in, seen)
  <2> DEFINE at == seen.at
             i == in.instrument
             fresh == s.seen[i] = Unseen
             market == [kind |-> IF fresh THEN "submission" ELSE "submission_reference",
                        instrument |-> i, seen |-> seen, at |-> at]
             submitted == [kind |-> "submitted", order |-> o, intent |-> in, at |-> at]
             record == [intent |-> in, status |-> "acknowledged", filled |-> 0, spent |-> 0,
                        submitted |-> at, updated |-> at,
                        reference |-> seen.close, remaining |-> in.notional,
                        triggered |-> FALSE, count |-> 0, last |-> [at |-> at, id |-> 0]]
             orders == Overlay([k \in {o} |-> record], s.orders)
             first == [s EXCEPT !.orders = orders]
             staged == SyncIndexes(first, o)
             clients == staged.clients \cup {o}
             seens == [staged.seen EXCEPT ![i] = seen]
             latest == Larger(staged.latest, at)
             u == [staged EXCEPT !.clients = clients, !.seen = seens, !.latest = latest]
             rows == <<market, submitted>> \o
                     [j \in 1..4 |-> TransitionRow(o, SubmissionPath[j], SubmissionPath[j + 1], at)]
  <2>1. /\ o \notin s.clients /\ s.latest <= at /\ Admissible(s, i)
        /\ s.seen[i] = Unseen \/ s.seen[i] = seen
        /\ Typed(s) /\ s.latest \in Nat /\ at \in Nat /\ at \in Instants /\ at \in Times
    <3>1. /\ o \notin s.clients /\ ~ (at < s.latest) /\ Admissible(s, i)
          /\ s.seen[i] = Unseen \/ s.seen[i] = seen
      BY <1>2 DEF SubmitRefused, Regresses
    <3>2. Typed(s) /\ s.latest \in Nat /\ at \in Nat /\ at \in Instants
      BY TypedParts, TimesAreInstants DEF Good
    <3> QED BY <3>1, <3>2
  <2>2. /\ s.orders \in [DOMAIN s.orders -> OrderRecord] /\ DOMAIN s.orders \subseteq Orders
        /\ IsState(s) /\ s.clients = DOMAIN s.orders /\ s.seen \in [Instruments -> SeenType]
    BY <2>1, TypedParts DEF IsState, Good, Indexed
  <2>3. /\ i \in Instruments /\ seen.close \in Nat /\ in.notional \in Nat
    BY IntentParts DEF SeenType
  <2>4. r = Done(u, rows)
    <3>1. staged = SyncIndexes([s EXCEPT !.orders = Overlay([k \in {o} |-> record], @)], o)
      BY <2>2 DEF IsState
    <3> HIDE DEF staged
    <3>2. r = Done([staged EXCEPT !.clients = @ \cup {o},
                                  !.seen = [@ EXCEPT ![in.instrument] = seen],
                                  !.latest = Larger(@, seen.at)], rows)
      BY <1>2, <3>1 DEF SubmitKernel
    <3> QED BY <3>2
  <2>5. /\ record \in OrderRecord /\ record.intent = in /\ record.status = "acknowledged"
        /\ record.filled = 0 /\ record.spent = 0 /\ record.remaining = in.notional
        /\ record.submitted = at /\ ~ record.triggered
    <3>1. "acknowledged" \in Logged!Statuses BY DEF Logged!Statuses
    <3> QED BY <2>1, <2>3, <3>1 DEF OrderRecord, Intents
  <2> HIDE DEF record, r
  <2>6. /\ orders \in [DOMAIN orders -> OrderRecord] /\ DOMAIN orders = DOMAIN s.orders \cup {o}
        /\ DOMAIN orders \subseteq Orders /\ orders[o] = record
        /\ \A k \in DOMAIN s.orders \ {o} : orders[k] = s.orders[k]
    BY <2>2, <2>5 DEF Overlay
  <2> HIDE DEF orders
  <2>7. WithOrders(s, first, orders) BY <2>1, <2>6, OrdersOnly
  <2> HIDE DEF first
  <2>8. Typed(first) /\ first.orders = orders BY <2>7 DEF WithOrders
  <2>9. Synced(first, staged, o, i, "acknowledged")
    <3>1. /\ o \in DOMAIN first.orders /\ first.orders[o].intent.instrument = i
          /\ first.orders[o].status = "acknowledged"
      BY <2>5, <2>6, <2>8
    <3> HIDE DEF staged, i
    <3>2. Synced(first, staged, o, i, first.orders[o].status) BY <2>3, <2>8, <3>1, SyncIs DEF staged
    <3> QED BY <3>1, <3>2
  <2> HIDE DEF staged
  <2>10. /\ Typed(staged) /\ staged.clients = s.clients /\ staged.seen = s.seen
         /\ staged.latest = s.latest
    BY <2>7, <2>9 DEF WithOrders, Synced
  <2>11. /\ clients \in SUBSET Orders /\ seens \in [Instruments -> SeenType] /\ latest \in Instants
         /\ seens[i] = seen /\ \A j \in Instruments \ {i} : seens[j] = s.seen[j]
         /\ clients = s.clients \cup {o} /\ s.latest <= latest /\ at <= latest /\ latest \in Nat
    <3>1. s.clients \in SUBSET Orders /\ s.latest \in Instants BY <2>1, TypedParts
    <3>2. clients \in SUBSET Orders /\ clients = s.clients \cup {o} BY <2>10, <3>1
    <3>3. /\ seens \in [Instruments -> SeenType] /\ seens[i] = seen
          /\ \A j \in Instruments \ {i} : seens[j] = s.seen[j]
      BY <2>2, <2>3, <2>10
    <3>4. latest \in Instants /\ s.latest <= latest /\ at <= latest /\ latest \in Nat
      BY <2>1, <2>10, <3>1 DEF Larger
    <3> QED BY <3>2, <3>3, <3>4
  <2> HIDE DEF clients, seens, latest
  <2>12. Finished(staged, u, clients, seens, latest)
    <3> HIDE DEF u
    <3> QED BY <2>10, <2>11, FinishedIs DEF u
  <2> HIDE DEF u
  <2>13. /\ Typed(u) /\ u.orders = orders /\ u.clients = s.clients \cup {o}
         /\ u.active = Indexes(s.active, i, o, Lifecycle!Executable("acknowledged"))
         /\ u.unknown = Indexes(s.unknown, i, o, "acknowledged" = "unknown") /\ u.seen = seens
         /\ u.marks = s.marks /\ u.known = s.known /\ u.fills = s.fills
         /\ u.ledger = s.ledger /\ u.latest = latest /\ u.events = s.events /\ u.ops = s.ops
    BY <2>7, <2>9, <2>11, <2>12 DEF WithOrders, Synced, Finished
  <2>14. seen # Unseen /\ Dated(seen)
    <3>1. Unseen.at = 0 /\ at >= 1 BY <2>1 DEF Unseen, Times
    <3> QED BY <2>1, <3>1 DEF Dated
  <2>15. OrderIndexed(s, u, o, i)
    <3>1. u.orders[o].intent.instrument = i /\ u.orders[o].status = "acknowledged"
      BY <2>5, <2>6, <2>13
    <3>2. o \notin DOMAIN s.orders BY <2>1, <2>2
    <3>3. \A j \in Instruments : s.seen[j] # Unseen => u.seen[j] # Unseen BY <2>11, <2>13, <2>14
    <3>4. u.seen[i] # Unseen BY <2>11, <2>13, <2>14
    <3>5. DOMAIN u.orders = DOMAIN s.orders \cup {o}
          /\ \A k \in DOMAIN s.orders \ {o} : u.orders[k] = s.orders[k]
      BY <2>6, <2>13
    <3> HIDE DEF i
    <3> QED BY <2>13, <3>1, <3>2, <3>3, <3>4, <3>5 DEF OrderIndexed
  <2>16. Indexed(u) /\ IsFiniteSet(DOMAIN u.orders) BY <2>3, <2>13, <2>15, IndexedAfter
  <2>17. Current(u)
    <3>1. ASSUME NEW j \in Instruments PROVE u.seen[j].at <= u.latest /\ Dated(u.seen[j])
      <4>1. CASE j = i BY <2>11, <2>13, <2>14, <4>1
      <4>2. CASE j # i
        <5>1. u.seen[j] = s.seen[j] BY <2>11, <2>13, <4>2
        <5>2. s.seen[j].at <= s.latest /\ s.seen[j].at \in Nat /\ Dated(s.seen[j])
          BY <2>2 DEF Good, Current, SeenType
        <5> QED BY <2>1, <2>11, <2>13, <5>1, <5>2
      <4> QED BY <4>1, <4>2
    <3> QED BY <3>1 DEF Current
  <2>18. Good(u) BY <2>13, <2>16, <2>17 DEF Good
  <2>19. /\ \A j \in Instruments \ {i} : u.active[j] = s.active[j] /\ u.unknown[j] = s.unknown[j]
         /\ u.active[i] \subseteq s.active[i] \cup {o}
         /\ u.unknown[i] \subseteq s.unknown[i] \cup {o}
    <3>1. s.active \in [Instruments -> SUBSET Orders] /\ s.unknown \in [Instruments -> SUBSET Orders]
      BY <2>1, TypedParts DEF Entries
    <3> QED BY <2>3, <2>13, <3>1 DEF Indexes
  <2>20. Frame(s, u, O, C, I)
    <3>1. Extends(s, u) BY <2>1, <2>13, TypedParts, ExtendsSame
    <3>2. /\ Beside(s.active, u.active, I) /\ Beside(s.unknown, u.unknown, I)
          /\ Beside(s.seen, u.seen, I) /\ Beside(s.marks, u.marks, I)
      BY <2>11, <2>13, <2>19 DEF Beside
    <3> QED BY <2>6, <2>13, <3>1, <3>2 DEF Frame
  <2>21. Fits(u)
    <3>1. Reserved(u) \subseteq Reserved(s) \cup {o}
      <4>1. \A j \in Instruments : u.active[j] \cup u.unknown[j]
                                      \subseteq s.active[j] \cup s.unknown[j] \cup {o}
        BY <2>19
      <4> QED BY <4>1 DEF Reserved
    <3>2. ReservedInstruments(u) \subseteq ReservedInstruments(s) \cup {i}
      BY <2>13, <2>19 DEF ReservedInstruments
    <3>3. o \notin DOMAIN s.orders BY <2>1, <2>2
    <3> HIDE DEF i
    <3> QED BY <2>1, <2>3, <3>1, <3>2, <3>3, AdmittedFits DEF i
  <2>21a. Pays(s, u)
    <3>1. /\ o \notin DOMAIN s.orders /\ DOMAIN u.orders = DOMAIN s.orders \cup {o}
          /\ u.orders[o] = record /\ u.fills = s.fills /\ u.ledger = s.ledger
          /\ \A q \in DOMAIN s.orders : u.orders[q] = s.orders[q]
          /\ record.intent.quantity \in Nat /\ record.intent.notional \in Nat
      BY <2>1, <2>2, <2>5, <2>6, <2>13, IntentParts
    <3> QED BY <2>5, <3>1, SubmittedPays
  <2>22. r.ok = TRUE /\ r.s = u /\ r.rows = rows
    <3> HIDE DEF rows
    <3> QED BY <2>4 DEF Done
  <2>23. /\ market \in RowType /\ submitted \in RowType /\ market.at = at /\ submitted.at = at
         /\ market.kind = (IF fresh THEN "submission" ELSE "submission_reference")
         /\ market.seen = seen /\ submitted.kind = "submitted" /\ submitted.order = o
         /\ submitted.intent = in
    BY <2>1, <2>3 DEF RowType
  <2> HIDE DEF market, submitted
  <2>24. Submission(rows, market, submitted, o, at)
    <3> HIDE DEF rows, at
    <3> QED BY <2>1, <2>23, SubmissionRows DEF rows
  <2> HIDE DEF rows, RowType
  <2>25. /\ rows \in Seq(RowType) /\ Len(rows) = 6 /\ rows[1] = market /\ rows[2] = submitted
         /\ \A n \in 1..6 : rows[n].at = at
         /\ \A n \in 3..6 : rows[n].kind = "transition"
    BY <2>24 DEF Submission, TransitionRow
  <2>25a. Explains(s, rows, u)
    <3>1. \A n \in 1..6 : n = 1 \/ n = 2 \/ n \in 3..6 OBVIOUS
    <3>2. \A n \in DOMAIN rows : rows[n].kind # "observed" BY <2>23, <2>25, <3>1
    <3>3. Moved(s, rows, u)
      <4>1. o \notin DOMAIN s.orders /\ o \in DOMAIN u.orders /\ u.orders[o].status = "acknowledged"
            /\ \A q \in Orders \ {o} : /\ q \in DOMAIN u.orders <=> q \in DOMAIN s.orders
                                       /\ q \in DOMAIN s.orders => u.orders[q] = s.orders[q]
        BY <2>1, <2>2, <2>5, <2>6, <2>13
      <4>2. /\ StatusOf(s, o) = Absent /\ StatusOf(u, o) = "acknowledged"
            /\ \A q \in Orders \ {o} : StatusOf(u, q) = StatusOf(s, q)
        BY <4>1 DEF StatusOf
      <4>3. Logged!Edge(StatusOf(s, o), StatusOf(u, o)) BY <4>2 DEF Logged!Edge
      <4>4. \A n \in 3..6 : rows[n] = TransitionRow(o, SubmissionPath[n - 2], SubmissionPath[n - 1], at)
        BY <2>24 DEF Submission
      <4>5. IsMove(rows[6], o) /\ rows[6].to = "acknowledged"
        BY <4>4 DEF IsMove, TransitionRow, SubmissionPath
      <4>6. \A n \in 1..6 : rows[n].kind = "transition" => rows[n].order = o
        BY <2>23, <2>25, <3>1, <4>4 DEF TransitionRow
      <4>7. 6 \in 1..Len(rows) /\ Len(rows) = 6 /\ (6 + 1)..6 = {} BY <2>25
      <4>8. \A m \in (6 + 1)..Len(rows) : rows[m].kind # "transition" BY <4>7
      <4> QED BY <4>2, <4>3, <4>5, <4>6, <4>7, <4>8, MovedOne
    <3>4. Shares(rows) BY <3>2, NothingObserved
    <3>5. Bears(s, rows, u)
      <4>1. /\ o \notin DOMAIN s.orders /\ DOMAIN u.orders = DOMAIN s.orders \cup {o}
            /\ \A q \in DOMAIN s.orders : u.orders[q] = s.orders[q]
            /\ u.orders[o] = record
        BY <2>1, <2>2, <2>6, <2>13
      <4>2. WellShaped(in) BY <1>2 DEF SubmitRefused
      <4>3. 2 \in 1..Len(rows) /\ Submits(rows[2], o, record) BY <2>5, <2>23, <2>25 DEF Submits
      <4>4. \A n \in 1..Len(rows) : rows[n].kind # "fill" BY <2>23, <2>25, <3>1
      <4>5. \A j \in Instruments : u.seen[j] = s.seen[j] \/ s.seen[j].at = 0
        BY <2>1, <2>11, <2>13 DEF Unseen
      <4> HIDE DEF i, at
      <4> QED BY <2>1, <2>5, <2>13, <4>1, <4>2, <4>3, <4>4, <4>5, BearsEntry
    <3> QED BY <3>3, <3>4, <3>5 DEF Explains
  <2>26. Again(s, rows) = r
    <3>1. DOMAIN rows = 1..6 BY <2>25
    <3>2. "submitted" \in Kinds(rows) BY <2>23, <2>25, <3>1 DEF Kinds
    <3>3. OperationKind(rows) = "SUBMIT" BY <3>2 DEF OperationKind
    <3>4. Again(s, rows) = SubmitAgain(s, rows) BY <3>3 DEF Again
    <3>5. (IF rows[1].kind = "submission" THEN rows[1].seen ELSE s.seen[i]) = seen
      BY <2>1, <2>23, <2>25
    <3>6. rows[2].intent = in /\ rows[2].order = o BY <2>23, <2>25
    <3>7. SubmitAgain(s, rows) = SubmitKernel(s, o, in, seen) BY <3>5, <3>6 DEF SubmitAgain
    <3> QED BY <3>4, <3>7 DEF r
  <2>27. /\ r.ok \in BOOLEAN /\ Typed(r.s) /\ Frame(s, r.s, O, C, I)
         /\ r.s.events = s.events /\ r.s.ops = s.ops /\ Good(r.s)
         /\ s.latest <= at /\ at <= r.s.latest /\ (Fits(s) => Fits(r.s))
         /\ Pays(s, r.s) /\ Explains(s, r.rows, r.s)
    BY <2>1, <2>11, <2>13, <2>18, <2>20, <2>21, <2>21a, <2>22, <2>25a
  <2>28. /\ r.rows \in Seq(RowType) /\ r.rows # <<>>
         /\ \A n \in 1..Len(r.rows) : r.rows[n].at = at
         /\ Again(s, r.rows) = r
    <3>1. rows # <<>>
      <4>1. Len(rows) = 6 /\ Len(<<>>) = 0 BY <2>25
      <4> HIDE DEF rows
      <4> QED BY ONLY <4>1
    <3>2. r.rows = rows BY <2>22
    <3> HIDE DEF r, rows
    <3> QED BY <2>25, <2>26, <3>1, <3>2
  <2>29. Outcome(s, r, at, O, C, I) BY <2>27, <2>28 DEF Outcome
  <2> QED BY <2>29 DEF r
<1> QED BY <1>1, <1>2

------------------------------
(* Evidence of one fill *)

\* The reconciliation kernel, on an answer of one fill.
LEMMA EvidenceIs ==
  ASSUME NEW s, NEW e, NEW x, e.fills = <<x>>, NEW o, o = e.order, NEW at, at = e.at,
         NEW status, status = e.status, NEW filled, filled = e.filled
  PROVE  EvidenceKernel(s, e) =
            IF 2 > MaxGroup \/ o \notin DOMAIN s.orders THEN Raised(s)
            ELSE LET r == s.orders[o]
                     sum == Sum1(s, r, at, x)
                     b == <<Booked1(o, r, x)>>
                 IN IF Declined(s, status, at, filled, r, sum) THEN Raised(s)
                    ELSE Marked(Done(Answer(s, o, status, at, filled, x.price, r, sum, b),
                                     AnswerRows(o, status, at, r, b)))
<1> DEFINE r == s.orders[o]
           sum == Tally(s, r, e)
           b == [n \in DOMAIN e.fills |-> Booking(e, r, e.fills[n])]
<1>1. Len(e.fills) = 1 /\ e.fills # <<>> /\ e.fills[1] = x /\ Last(e.fills) = x
      /\ DOMAIN e.fills = {1}
  BY DEF Last
<1>2. sum = Sum1(s, r, at, x)
  <2> DEFINE c == [l |-> s.ledger, r |-> r, e |-> e]
             base == Blank(s, r)
  <2>1. sum = Tallying!Fold(c, base, e.fills) BY TallyFolds DEF Blank
  <2>2. Tallying!Fold(c, base, <<x>>) = TallyStep(c, base, x)
    <3> HIDE DEF c, base
    <3> QED BY WellOrders, Tallying!FoldOne
  <2>3. TallyStep(c, base, x) = TallyFill(s.ledger, r, e, base, x)
    <3> HIDE DEF base
    <3> QED BY DEF TallyStep
  <2>4. ASSUME NEW l, NEW k, NEW y
        PROVE  TallyFill(l, k, e, y, x)
                  = Tallied(k, l, y, e.at, x.id, x.at, x.quantity, x.price, x.fee)
    BY DEF TallyFill, Tallied, FillAccepted, Approves, KeyAfter, Covered
  <2> HIDE DEF base, c, sum
  <2>5. TallyFill(s.ledger, r, e, base, x) = Sum1(s, r, at, x) BY <2>4 DEF Sum1, base
  <2> QED BY <2>1, <2>2, <2>3, <2>5
<1>3. b = <<Booked1(o, r, x)>>
  <2>1. b = [n \in {1} |-> Booking(e, r, e.fills[n])] BY <1>1
  <2>2. Booking(e, r, e.fills[1]) = Booked1(o, r, x) BY <1>1 DEF Booking, Booked1
  <2> DEFINE y == Booked1(o, r, x)
  <2>3. b = [n \in {1} |-> y] BY <2>1, <2>2
  <2> HIDE DEF y, b
  <2>4. <<y>> = [n \in {1} |-> y] OBVIOUS
  <2> QED BY <2>3, <2>4 DEF y
<1>4. ASSUME NEW k, NEW y, NEW bookings
      PROVE  /\ EvidenceRefused(s, e, k, y) = Declined(s, status, at, filled, k, y)
             /\ Reconciled(s, e, k, y, bookings)
                   = Answer(s, o, status, at, filled, x.price, k, y, bookings)
             /\ EvidenceRows(e, k, bookings) = AnswerRows(o, status, at, k, bookings)
  <2>1. EvidenceRefused(s, e, k, y) = Declined(s, status, at, filled, k, y)
    BY <1>1 DEF EvidenceRefused, Declined
  <2>2. Reconciled(s, e, k, y, bookings)
           = Answer(s, e.order, e.status, e.at, e.filled, Last(e.fills).price, k, y, bookings)
    BY <1>1 DEF Reconciled, Answer
  <2>3. EvidenceRows(e, k, bookings) = AnswerRows(e.order, e.status, e.at, k, bookings)
    BY DEF EvidenceRows, AnswerRows
  <2> QED BY <1>1, <2>1, <2>2, <2>3
<1> HIDE DEF r, sum, b
<1>5. ASSUME NEW k, NEW y
      PROVE  Weigh(s, e, k, y) =
                LET bs == [n \in DOMAIN e.fills |-> Booking(e, k, e.fills[n])]
                IN IF EvidenceRefused(s, e, k, y) THEN Raised(s)
                   ELSE Marked(Done(Reconciled(s, e, k, y, bs), EvidenceRows(e, k, bs)))
  BY DEF Weigh
<1>6. Weigh(s, e, r, sum) =
         IF Declined(s, status, at, filled, r, sum) THEN Raised(s)
         ELSE Marked(Done(Answer(s, o, status, at, filled, x.price, r, sum, b),
                          AnswerRows(o, status, at, r, b)))
  BY <1>4, <1>5 DEF b
<1>7. EvidenceKernel(s, e) =
         IF 2 > MaxGroup \/ o \notin DOMAIN s.orders THEN Raised(s)
         ELSE Weigh(s, e, r, sum)
  BY <1>1 DEF EvidenceKernel, r, sum
<1> QED BY <1>2, <1>3, <1>6, <1>7 DEF r

\* The kernel reads no more of a fill than its booking holds.
LEMMA EvidenceSame ==
  ASSUME NEW s, NEW e, NEW x, e.fills = <<x>>, NEW g, NEW f, g.fills = <<f>>,
         g.order = e.order, g.at = e.at, g.status = e.status, g.filled = e.filled,
         f.id = x.id, f.at = x.at, f.quantity = x.quantity, f.price = x.price, f.fee = x.fee
  PROVE  EvidenceKernel(s, g) = EvidenceKernel(s, e)
<1> DEFINE o == e.order
           at == e.at
           status == e.status
           filled == e.filled
           r == s.orders[o]
           K(y) == IF 2 > MaxGroup \/ o \notin DOMAIN s.orders THEN Raised(s)
                   ELSE LET sum == Sum1(s, r, at, y)
                            b == <<Booked1(o, r, y)>>
                        IN IF Declined(s, status, at, filled, r, sum) THEN Raised(s)
                           ELSE Marked(Done(Answer(s, o, status, at, filled, y.price, r, sum, b),
                                            AnswerRows(o, status, at, r, b)))
<1>1. EvidenceKernel(s, e) = K(x) BY EvidenceIs
<1>2. EvidenceKernel(s, g) = K(f)
  <2>1. o = g.order /\ at = g.at /\ status = g.status /\ filled = g.filled OBVIOUS
  <2> HIDE DEF o, at, status, filled
  <2> QED BY <2>1, EvidenceIs
<1>3. /\ Sum1(s, r, at, f) = Sum1(s, r, at, x) /\ Booked1(o, r, f) = Booked1(o, r, x)
      /\ f.price = x.price
  BY DEF Sum1, Booked1
<1>4. K(f) = K(x)
  <2> HIDE DEF o, at, status, filled, r
  <2> QED BY <1>3
<1> QED BY <1>1, <1>2, <1>4

\* A tally that is accepted satisfies every check of the fill it tallied.
LEMMA SumIs ==
  ASSUME NEW s, Typed(s), NEW r \in OrderRecord, NEW at, NEW x \in External,
         NEW sum, sum = Sum1(s, r, at, x), sum.ok
  PROVE  Approved(s, r, at, x, sum)
<1> DEFINE base == Blank(s, r)
           i == r.intent.instrument
           l == s.ledger
           k == [l EXCEPT !.cash = base.cash, !.held = [@ EXCEPT ![i] = base.held]]
           id == x.id
           made == x.at
           quantity == x.quantity
           price == x.price
           fee == x.fee
           good == Approves(r, l, base, at, id, made, quantity, price, fee)
<1>1. /\ id \in Nat /\ quantity \in Nat /\ price \in Nat /\ fee \in Nat /\ i \in Instruments
      /\ l \in LedgerType
  BY TypedParts, RecordParts, IntentParts DEF External
<1>2. sum = Tallied(r, l, base, at, id, made, quantity, price, fee) BY DEF Sum1
<1>3. /\ base.ok = TRUE /\ base.ids = {} /\ base.quantity = 0 /\ base.spent = 0
      /\ base.cash = l.cash /\ base.held = l.held[i]
      /\ base = [ok |-> base.ok, ids |-> base.ids, key |-> base.key,
                 quantity |-> base.quantity, spent |-> base.spent, cash |-> base.cash,
                 held |-> base.held]
  BY DEF Blank
<1> HIDE DEF base
<1>4. k = l /\ k.cash = l.cash /\ k.held[i] = l.held[i]
  <2>1. /\ l = [cash |-> l.cash, held |-> l.held, prices |-> l.prices,
                fills |-> l.fills, equity |-> l.equity, peak |-> l.peak]
        /\ l.held \in [Instruments -> Nat]
    BY <1>1, LedgerParts
  <2>2. [l.held EXCEPT ![i] = l.held[i]] = l.held BY <1>1, <2>1
  <2>3. k = l BY <1>3, <2>1, <2>2
  <2> QED BY <2>3
<1>5. good
  <2>1. ASSUME ~ good PROVE FALSE
    <3>1. sum = [base EXCEPT !.ok = FALSE] BY <1>2, <2>1 DEF Tallied
    <3>2. sum.ok = FALSE BY <1>3, <3>1
    <3> QED BY <3>2
  <2> QED BY <2>1
<1>6. /\ id \notin l.fills /\ made >= r.submitted /\ made <= at /\ quantity > 0 /\ price > 0
      /\ RespectsPrices(r.intent, price)
      /\ IF r.intent.side = "buy" THEN quantity * price * Scale + fee <= l.cash
                                  ELSE quantity <= l.held[i]
  <2>1. IF r.intent.side = "buy" THEN quantity * price * Scale + fee <= k.cash
                                 ELSE quantity <= k.held[i]
    BY <1>5 DEF Approves
  <2>2. /\ id \notin l.fills /\ made >= r.submitted /\ made <= at /\ quantity > 0 /\ price > 0
        /\ RespectsPrices(r.intent, price)
    BY <1>5 DEF Approves
  <2> HIDE DEF k, l, i, quantity, price, fee
  <2> QED BY <1>4, <2>1, <2>2
<1> DEFINE ids == base.ids \cup {id}
           key == [at |-> made, id |-> id]
           q == base.quantity + quantity
           spent == base.spent + quantity * price
           cash == IF r.intent.side = "buy"
                   THEN base.cash - (quantity * price * Scale + fee) ELSE base.cash
           held == IF r.intent.side = "buy" THEN base.held ELSE base.held - quantity
<1>7. sum = [base EXCEPT !.ids = ids, !.key = key, !.quantity = q, !.spent = spent,
                         !.cash = cash, !.held = held]
  BY <1>2, <1>3, <1>5 DEF Tallied
<1>8. q = quantity /\ spent = quantity * price BY <1>1, <1>3
<1> HIDE DEF ids, key, q, spent, cash, held
<1>9. sum.quantity = q /\ sum.spent = spent /\ sum.key = key BY <1>3, <1>7
<1> QED BY <1>6, <1>8, <1>9 DEF Approved, key

\* An answer that is not declined books its fill and reworks its order.
LEMMA AnswerIs ==
  ASSUME NEW s, Good(s), NEW o \in DOMAIN s.orders, NEW at \in Times, NEW x \in External, NEW status,
         ~ Declined(s, status, at, s.orders[o].filled + x.quantity, s.orders[o],
                    Sum1(s, s.orders[o], at, x))
  PROVE  \E k : /\ Answered(s, Answer(s, o, status, at, s.orders[o].filled + x.quantity, x.price,
                                     s.orders[o], Sum1(s, s.orders[o], at, x),
                                     <<Booked1(o, s.orders[o], x)>>),
                           o, s.orders[o], k, Booked1(o, s.orders[o], x), at)
               /\ k.status = status
<1> DEFINE r == s.orders[o]
           sum == Sum1(s, r, at, x)
           filled == r.filled + x.quantity
           f == Booked1(o, r, x)
           u == Answer(s, o, status, at, filled, x.price, r, sum, <<f>>)
<1> SUFFICES \E k : Answered(s, u, o, r, k, f, at) /\ k.status = status OBVIOUS
<1>0. /\ r = s.orders[o] /\ sum = Sum1(s, r, at, x) /\ filled = r.filled + x.quantity
      /\ ~ Declined(s, status, at, filled, r, sum) /\ f = Booked1(o, r, x)
      /\ u = Answer(s, o, status, at, filled, x.price, r, sum, <<f>>)
  OBVIOUS
<1> HIDE DEF r, sum, filled, f, u
<1> USE <1>0
<1> DEFINE i == r.intent.instrument
           spent == r.spent + sum.spent
           count == r.count + 1
           remaining == IF r.intent.notional = 0 THEN 0 ELSE r.remaining - sum.spent
           last == sum.key
           k == [r EXCEPT !.status = status, !.filled = filled, !.updated = at, !.spent = spent,
                          !.count = count, !.remaining = remaining, !.last = last]
           l == s.ledger
           m == ApplyFill(l, f)
           fills == s.fills \o <<f>>
           orders == [s.orders EXCEPT ![o] = k]
           seq == s.fillSeq + 1
           marks == [s.marks EXCEPT ![i] = x.price]
           known == s.known \cup {i}
           v == [s EXCEPT !.ledger = m, !.fills = fills, !.orders = orders, !.fillSeq = seq,
                          !.marks = marks, !.known = known, !.latest = at]
<1>1. /\ Typed(s) /\ r \in OrderRecord /\ o \in Orders /\ IsState(s)
      /\ s.orders \in [DOMAIN s.orders -> OrderRecord] /\ DOMAIN s.orders \subseteq Orders
      /\ l \in LedgerType /\ s.fills \in Seq(FillType) /\ s.fillSeq \in Nat
      /\ s.marks \in [Instruments -> Nat] /\ s.known \in SUBSET Instruments /\ s.latest \in Nat
      /\ at \in Nat /\ at \in Instants
  BY TypedParts, TimesAreInstants DEF Good, IsState
<1>2. /\ r.intent \in Intents /\ i \in Instruments /\ r.filled \in Nat /\ r.spent \in Nat
      /\ r.count \in Nat /\ r.remaining \in Nat /\ r.intent.side \in {"buy", "sell"}
      /\ r.intent.notional \in Nat /\ r.intent.quantity \in Nat
  BY <1>1, RecordParts, IntentParts
<1>3. /\ x.id \in Nat /\ x.quantity \in Nat /\ x.price \in Nat /\ x.fee \in Nat /\ x.at \in Times
      /\ x.at \in Nat
  BY TimesAreInstants DEF External
<1>4. /\ r.status = "unknown" /\ s.latest <= at /\ status \in {"partially_filled", "filled"}
      /\ i \in s.known /\ sum.ok /\ (r.intent.notional = 0 => filled <= r.intent.quantity)
      /\ (r.intent.notional > 0 => ~ (sum.spent > r.remaining))
  <2>1. /\ r.status = "unknown" /\ ~ (at < s.latest) /\ status \in {"partially_filled", "filled"}
        /\ i \in s.known /\ sum.ok /\ (r.intent.notional = 0 => ~ (filled > r.intent.quantity))
        /\ (r.intent.notional > 0 => ~ (sum.spent > r.remaining))
    BY DEF Declined, Regresses
  <2> HIDE DEF i
  <2>2. s.latest <= at BY <1>1, <2>1
  <2>3. filled \in Nat BY <1>2, <1>3
  <2>4. r.intent.notional = 0 => filled <= r.intent.quantity BY <1>2, <2>1, <2>3
  <2> QED BY Zenon, <2>1, <2>2, <2>4
<1>5. Approved(s, r, at, x, sum) BY <1>1, <1>4, SumIs
<1> DEFINE p == x.quantity * x.price
<1>6. /\ sum.spent = p /\ last = [at |-> x.at, id |-> x.id] /\ x.id \notin l.fills
      /\ x.quantity > 0 /\ x.price > 0 /\ RespectsPrices(r.intent, x.price)
      /\ IF r.intent.side = "buy" THEN p * Scale + x.fee <= l.cash ELSE x.quantity <= l.held[i]
  BY <1>5 DEF Approved
<1>7. /\ f.id = x.id /\ f.order = o /\ f.instrument = i /\ f.side = r.intent.side
      /\ f.quantity = x.quantity /\ f.price = x.price /\ f.fee = x.fee /\ f.at = x.at
      /\ f \in FillType
  BY <1>1, <1>2, <1>3 DEF Booked1, FillType
<1>8. Money(f) = p /\ p \in Nat BY <1>3, <1>7, Product DEF Money
<1> HIDE DEF i, p, l
<1>9. /\ spent \in Nat /\ count \in Nat /\ remaining \in Nat /\ filled \in Nat
      /\ last \in [at : Times, id : Nat] /\ spent = r.spent + p
      /\ remaining = (IF r.intent.notional = 0 THEN 0 ELSE r.remaining - p)
      /\ (r.intent.notional > 0 => p <= r.remaining)
  <2>1. r.intent.notional > 0 => p <= r.remaining BY <1>2, <1>4, <1>6, <1>8
  <2>2. last \in [at : Times, id : Nat] BY <1>3, <1>6
  <2>3. spent \in Nat /\ count \in Nat /\ filled \in Nat /\ spent = r.spent + p
    BY <1>2, <1>3, <1>6, <1>8
  <2>4. remaining \in Nat /\ remaining = (IF r.intent.notional = 0 THEN 0 ELSE r.remaining - p)
    BY <1>2, <1>6, <1>8, <2>1
  <2> QED BY <2>1, <2>2, <2>3, <2>4
<1> HIDE DEF spent, count, remaining, last
<1>10. /\ k \in OrderRecord /\ k.intent = r.intent /\ k.status = status
       /\ k.submitted = r.submitted /\ k.reference = r.reference
       /\ k.filled = filled /\ k.spent = spent /\ k.remaining = remaining
       /\ k.triggered = r.triggered
  <2>1. {"partially_filled", "filled"} \subseteq Logged!Statuses
    BY DEF Logged!Statuses, Logged!Closed
  <2>2. status \in Logged!Statuses BY <1>4, <2>1
  <2> QED BY <1>1, <1>9, <2>2 DEF OrderRecord
<1> HIDE DEF k
<1>11. Applied(l, f, m) /\ m \in LedgerType
  <2>1. l \in LedgerType /\ (f.side = "sell" => f.quantity <= l.held[f.instrument])
    BY <1>1, <1>6, <1>7 DEF l
  <2>2. Applied(l, f, ApplyFill(l, f)) BY <1>7, <2>1, ApplyFillDoes
  <2> QED BY <2>2 DEF Applied
<1>12. FoldLeft(ApplyFill, l, <<f>>) = m
  <2>1. FoldLeft(ApplyFill, l, <<f>>) = Bookings!Fold(0, l, <<f>>) BY BookingsFold
  <2>2. Bookings!Fold(0, l, <<f>>) = BookStep(0, l, f) BY WellOrders, Bookings!FoldOne
  <2> QED BY <2>1, <2>2 DEF BookStep
<1> HIDE DEF m
<1>13. fills = Append(s.fills, f) /\ fills \in Seq(FillType) BY <1>1, <1>7
<1> HIDE DEF fills
<1>14. /\ orders \in [DOMAIN orders -> OrderRecord] /\ DOMAIN orders = DOMAIN s.orders
       /\ orders[o] = k /\ seq \in Nat /\ marks \in [Instruments -> Nat]
       /\ known = s.known /\ known \in SUBSET Instruments /\ Beside(s.marks, marks, {i})
  <2>1. marks \in [Instruments -> Nat] /\ Beside(s.marks, marks, {i}) BY <1>1, <1>2, <1>3 DEF Beside
  <2> QED BY <1>1, <1>4, <1>10, <2>1
<1>15. u = SyncIndexes(v, o)
  <2>1. v = [s EXCEPT !.ledger = FoldLeft(ApplyFill, s.ledger, <<f>>), !.fills = s.fills \o <<f>>,
                      !.orders = [s.orders EXCEPT ![o] = k], !.fillSeq = s.fillSeq + 1,
                      !.marks = [s.marks EXCEPT ![i] = x.price],
                      !.known = s.known \cup {i}, !.latest = at]
    BY <1>12 DEF fills, l
  <2>2. k = [r EXCEPT !.status = status, !.filled = filled, !.updated = at,
                      !.spent = @ + sum.spent, !.count = @ + 1,
                      !.remaining = IF r.intent.notional = 0 THEN 0 ELSE @ - sum.spent,
                      !.last = sum.key]
    BY <1>1 DEF k, spent, count, remaining, last
  <2> HIDE DEF v
  <2>3. v = [s EXCEPT !.ledger = FoldLeft(ApplyFill, @, <<f>>), !.fills = @ \o <<f>>,
                      !.orders = [@ EXCEPT ![o] = k], !.fillSeq = @ + 1,
                      !.marks = [@ EXCEPT ![i] = x.price],
                      !.known = @ \cup {i}, !.latest = at]
    BY <2>1
  <2>4. ASSUME NEW kk, kk = [r EXCEPT !.status = status, !.filled = filled, !.updated = at,
                      !.spent = @ + sum.spent, !.count = @ + 1,
                      !.remaining = IF r.intent.notional = 0 THEN 0 ELSE @ - sum.spent,
                      !.last = sum.key]
        PROVE  Answer(s, o, status, at, filled, x.price, r, sum, <<f>>) =
                 SyncIndexes([s EXCEPT !.ledger = FoldLeft(ApplyFill, @, <<f>>),
                             !.fills = @ \o <<f>>,
                             !.orders = [@ EXCEPT ![o] = kk],
                             !.fillSeq = @ + 1,
                             !.marks = [@ EXCEPT ![i] = x.price],
                             !.known = @ \cup {i}, !.latest = at], o)
    BY <2>4 DEF Answer, i
  <2> QED BY <2>2, <2>3, <2>4
<1> HIDE DEF orders, seq, marks, known
<1>16. /\ v = [orders |-> orders, clients |-> s.clients, active |-> s.active,
               unknown |-> s.unknown, seen |-> s.seen, marks |-> marks, known |-> known,
               fills |-> fills, fillSeq |-> seq, events |-> s.events, ops |-> s.ops,
               ledger |-> m, latest |-> at, lastKey |-> s.lastKey]
       /\ v.orders = orders /\ v.clients = s.clients /\ v.active = s.active
       /\ v.unknown = s.unknown /\ v.seen = s.seen /\ v.marks = marks /\ v.known = known
       /\ v.fills = fills /\ v.fillSeq = seq /\ v.events = s.events /\ v.ops = s.ops
       /\ v.ledger = m /\ v.latest = at
  <2>1. v = [s EXCEPT !.ledger = m, !.fills = fills, !.orders = orders, !.fillSeq = seq,
                      !.marks = marks, !.known = known, !.latest = at]
    OBVIOUS
  <2>2. IsState(s) BY <1>1
  <2> HIDE DEF v
  <2>3. v = [orders |-> orders, clients |-> s.clients, active |-> s.active,
             unknown |-> s.unknown, seen |-> s.seen, marks |-> marks, known |-> known,
             fills |-> fills, fillSeq |-> seq, events |-> s.events, ops |-> s.ops,
             ledger |-> m, latest |-> at, lastKey |-> s.lastKey]
    BY <2>1, <2>2 DEF IsState
  <2> QED BY <2>3
<1>17. Typed(v)
  <2>1. /\ s.clients \in SUBSET Orders /\ s.active \in Entries /\ s.unknown \in Entries
        /\ s.seen \in [Instruments -> SeenType] /\ s.events \in Nat /\ s.ops \in Nat
        /\ s.lastKey \in [at : Instants, instrument : Instruments \cup {0}]
    BY <1>1, TypedParts
  <2>2. /\ orders \in [DOMAIN orders -> OrderRecord] /\ DOMAIN orders \subseteq Orders
        /\ marks \in [Instruments -> Nat] /\ known \in SUBSET Instruments
        /\ fills \in Seq(FillType) /\ seq \in Nat /\ m \in LedgerType /\ at \in Instants
    BY <1>1, <1>11, <1>13, <1>14
  <2> HIDE DEF v
  <2>3. Typed([orders |-> orders, clients |-> s.clients, active |-> s.active,
               unknown |-> s.unknown, seen |-> s.seen, marks |-> marks, known |-> known,
               fills |-> fills, fillSeq |-> seq, events |-> s.events, ops |-> s.ops,
               ledger |-> m, latest |-> at, lastKey |-> s.lastKey])
    BY ONLY <2>1, <2>2, TypedOf
  <2> QED BY <1>16, <2>3
<1> HIDE DEF v
<1>18. Synced(v, u, o, i, status)
  <2>1. /\ o \in DOMAIN v.orders /\ v.orders[o].intent.instrument = i
        /\ v.orders[o].status = status
    BY <1>10, <1>14, <1>16 DEF i
  <2>2. Synced(v, u, o, i, v.orders[o].status) BY <1>2, <1>15, <1>17, <2>1, SyncIs
  <2> QED BY <2>1, <2>2
<1>19. /\ Typed(u) /\ u.orders = orders /\ u.clients = s.clients
       /\ u.active = Indexes(s.active, i, o, Lifecycle!Executable(status))
       /\ u.unknown = Indexes(s.unknown, i, o, status = "unknown") /\ u.seen = s.seen
       /\ u.marks = marks /\ u.known = s.known /\ u.fills = fills /\ u.fillSeq = seq
       /\ u.ledger = m /\ u.latest = at /\ u.events = s.events /\ u.ops = s.ops
  BY <1>14, <1>16, <1>18 DEF Synced
<1>20. Reworked(s, u, o, i, k)
  <2>1. Extends(s, u)
    <3>1. u.fills = Append(s.fills, f) /\ u.ledger.fills = s.ledger.fills \cup {f.id}
      BY <1>11, <1>13, <1>19 DEF Applied, l
    <3>2. f.id \notin s.ledger.fills BY <1>6, <1>7 DEF l
    <3> QED BY <1>1, <1>7, <3>1, <3>2, ExtendsByOne
  <2>2. u.orders = [s.orders EXCEPT ![o] = k] BY <1>19 DEF orders
  <2> QED BY <1>4, <1>10, <1>14, <1>19, <2>1, <2>2 DEF Reworked
<1>21. Answered(s, u, o, r, k, f, at)
  <2>1. /\ f.quantity > 0 /\ f.price > 0 /\ RespectsPrices(r.intent, f.price)
        /\ (f.side = "sell" => f.quantity <= s.ledger.held[f.instrument])
        /\ (f.side = "buy" => Money(f) * Scale + f.fee <= s.ledger.cash)
        /\ f.id \notin s.ledger.fills
    BY <1>6, <1>7, <1>8 DEF l
  <2>2. Affords(r, f) /\ SameOrder(r, k) /\ Grew(r, k, f)
    BY <1>4, <1>7, <1>8, <1>9, <1>10 DEF Affords, SameOrder, Grew
  <2>3. Applied(s.ledger, f, u.ledger) /\ u.fills = Append(s.fills, f) /\ u.fillSeq = s.fillSeq + 1
    BY <1>11, <1>13, <1>19 DEF l, seq
  <2>4. r.intent.notional = 0 => k.filled <= r.intent.quantity BY <1>4, <1>10
  <2>5. Reworked(s, u, o, r.intent.instrument, k) BY <1>20 DEF i
  <2>6. f.instrument = r.intent.instrument BY <1>7 DEF i
  <2> QED BY <1>4, <1>7, <1>10, <1>19, <2>1, <2>2, <2>3, <2>4, <2>5, <2>6 DEF Answered
<1> QED BY <1>10, <1>21

\* An accepted answer keeps the books in balance.
LEMMA AnsweredPays ==
  ASSUME NEW s, Typed(s), NEW u, NEW o \in DOMAIN s.orders, NEW r, r = s.orders[o],
         NEW k, NEW f, NEW at, Answered(s, u, o, r, k, f, at)
  PROVE  Pays(s, u)
<1>1. /\ f \in FillType /\ f.order = o /\ SameOrder(r, k) /\ Grew(r, k, f) /\ Affords(r, f)
      /\ Bookable(s.ledger, f) /\ Applied(s.ledger, f, u.ledger) /\ u.fills = Append(s.fills, f)
  BY DEF Answered, Bookable
<1>2. u.orders = [s.orders EXCEPT ![o] = k] BY DEF Answered, Reworked
<1>3. r.intent.notional = 0 => r.filled + f.quantity <= r.intent.quantity BY DEF Answered, Grew
<1> QED BY <1>1, <1>2, <1>3, FillPays

\* The rows of an answer tell its status and its fill.
LEMMA AnswerTold ==
  ASSUME NEW o \in Orders, NEW status \in Logged!Statuses, NEW at \in Times,
         NEW r \in OrderRecord, NEW f \in FillType, f.order = o
  PROVE  Told(AnswerRows(o, status, at, r, <<f>>), o, status, at, r, f)
<1> DEFINE rows == AnswerRows(o, status, at, r, <<f>>)
           bookings == <<f>>
           k(n) == FoldLeft(Grown, r, SubSeq(bookings, 1, n))
           Of(n) == [FillRow(bookings[n], "unknown", status, at, k(n)) EXCEPT !.external = TRUE]
           move == TransitionRow(o, "unknown", status, at)
           filled == r.filled + f.quantity
           spent == r.spent + Money(f)
           told == [kind |-> "fill", order |-> o, fill |-> f, from |-> "unknown", to |-> status,
                    at |-> at, filled |-> filled, spent |-> spent, external |-> TRUE]
<1>1. rows = <<move>> \o [n \in DOMAIN bookings |-> Of(n)] BY DEF AnswerRows
<1>2. k(1).filled = filled /\ k(1).spent = spent
  <2>1. SubSeq(bookings, 1, 1) = <<f>>
    <3>1. bookings \in Seq(FillType) /\ Len(bookings) = 1 /\ bookings[1] = f OBVIOUS
    <3> HIDE DEF bookings
    <3>2. /\ SubSeq(bookings, 1, 1) \in Seq(FillType) /\ Len(SubSeq(bookings, 1, 1)) = 1
          /\ SubSeq(bookings, 1, 1)[1] = f
      BY <3>1
    <3> DEFINE q == SubSeq(bookings, 1, 1)
    <3>3. q \in Seq(FillType) /\ Len(q) = 1 /\ q[1] = f BY <3>2
    <3> HIDE DEF q
    <3>4. <<f>> \in Seq(FillType) /\ Len(<<f>>) = 1 /\ <<f>>[1] = f OBVIOUS
    <3> DEFINE u == <<f>>
    <3>5. u \in Seq(FillType) /\ Len(u) = 1 /\ u[1] = f BY <3>4
    <3> HIDE DEF u
    <3>6. q = u BY <3>3, <3>5, SeqEqual
    <3> QED BY <3>6 DEF q, u
  <2>2. FoldLeft(Grown, r, <<f>>) = Growing!Fold(0, r, <<f>>) BY GrowthFolds
  <2>3. Growing!Fold(0, r, <<f>>) = GrowStep(0, r, f) BY WellOrders, Growing!FoldOne
  <2>4. k(1) = Grown(r, f) BY <2>1, <2>2, <2>3 DEF GrowStep
  <2>5. Grown(r, f).filled = filled /\ Grown(r, f).spent = spent
    <3>1. r = [intent |-> r.intent, status |-> r.status, filled |-> r.filled,
               spent |-> r.spent, submitted |-> r.submitted, updated |-> r.updated,
               reference |-> r.reference, remaining |-> r.remaining,
               triggered |-> r.triggered, count |-> r.count, last |-> r.last]
      BY RecordParts
    <3>2. Grown(r, f) = [r EXCEPT !.filled = filled, !.spent = spent] BY <3>1 DEF Grown, Money
    <3> HIDE DEF filled, spent
    <3> QED BY <3>1, <3>2
  <2> QED BY <2>4, <2>5
<1> HIDE DEF k, filled, spent
<1>3. Of(1) = told
  <2>1. ASSUME NEW x, x.filled = filled, x.spent = spent
        PROVE  [FillRow(f, "unknown", status, at, x) EXCEPT !.external = TRUE] = told
    <3> DEFINE row == [kind |-> "fill", order |-> o, fill |-> f, from |-> "unknown",
                       to |-> status, at |-> at, filled |-> filled, spent |-> spent,
                       external |-> FALSE]
    <3>1. FillRow(f, "unknown", status, at, x) = row BY <2>1 DEF FillRow
    <3>2. ASSUME NEW yes
          PROVE  [row EXCEPT !.external = yes] =
                   [kind |-> "fill", order |-> o, fill |-> f, from |-> "unknown",
                    to |-> status, at |-> at, filled |-> filled, spent |-> spent,
                    external |-> yes]
      OBVIOUS
    <3> HIDE DEF row
    <3> QED BY <3>1, <3>2
  <2>2. bookings[1] = f OBVIOUS
  <2> HIDE DEF told, bookings
  <2> QED BY <1>2, <2>1, <2>2
<1> HIDE DEF Of
<1>4. [n \in DOMAIN bookings |-> Of(n)] = <<told>>
  <2>1. DOMAIN bookings = {1} OBVIOUS
  <2>2. [n \in {1} |-> Of(n)] = [n \in {1} |-> told] BY <1>3
  <2> HIDE DEF told
  <2>3. <<told>> = [n \in {1} |-> told] OBVIOUS
  <2> QED BY <2>1, <2>2, <2>3
<1>5. move \in RowType /\ told \in RowType
  <2>1. "unknown" \in Logged!Statuses BY DEF Logged!Statuses, Logged!Closed
  <2>2. filled \in Nat /\ spent \in Nat
    <3>1. r.filled \in Nat /\ r.spent \in Nat /\ f.quantity \in Nat /\ f.price \in Nat
      BY RecordParts DEF FillType
    <3>2. Money(f) \in Nat BY <3>1, Product DEF Money
    <3> QED BY <3>1, <3>2 DEF filled, spent
  <2>3. told \in [kind : {"fill"}, order : Orders, fill : FillType, from : Logged!Statuses,
          to : Logged!Statuses, at : Instants, filled : Nat, spent : Nat, external : BOOLEAN]
    BY <2>1, <2>2, TimesAreInstants
  <2>4. told \in RowType
    <3> HIDE DEF told
    <3> QED BY <2>3 DEF RowType
  <2> HIDE DEF told
  <2> QED BY <2>1, <2>4, RowsTyped
<1> HIDE DEF move, told, RowType
<1>6. /\ rows \in Seq(RowType) /\ Len(rows) = 2 /\ rows[1] = move /\ rows[2] = told
  <2>1. rows = <<move>> \o <<told>> BY <1>1, <1>4
  <2> HIDE DEF rows
  <2> QED BY <1>5, <2>1, PairOf
<1> HIDE DEF rows
<1>7. Told(rows, o, status, at, r, f) BY <1>6 DEF Told, move, told, filled, spent
<1> QED BY <1>7 DEF rows

\* An accepted answer keeps to the terms of its order.
LEMMA BearsAnswer ==
  ASSUME NEW s, Good(s), Solvent(s), NEW u, NEW o \in DOMAIN s.orders, NEW r, r = s.orders[o],
         r \in OrderRecord, NEW z, NEW f, NEW at, Answered(s, u, o, r, z, f, at),
         NEW status, NEW rows, Told(rows, o, status, at, r, f),
         NEW t, t.orders = u.orders, t.seen = u.seen
  PROVE  Bears(s, rows, t)
<1>1. /\ f \in FillType /\ f.order = o /\ RespectsPrices(r.intent, f.price) /\ Affords(r, f)
      /\ SameOrder(r, z) /\ z.triggered = r.triggered
      /\ z.filled = r.filled + f.quantity
      /\ r.intent.notional = 0 => z.filled <= r.intent.quantity
      /\ t.orders = [s.orders EXCEPT ![o] = z] /\ t.seen = s.seen
  BY DEF Answered, Grew, Reworked
<1> DEFINE x == rows[2]
           spent == r.spent
           money == Money(f)
           whole == r.intent.notional
           rest == r.remaining
<1>2. /\ Len(rows) = 2 /\ rows[1].kind = "transition" /\ x.fill = f /\ x.from = "unknown"
      /\ x.filled = r.filled + f.quantity /\ x.spent = spent + money /\ x.external = TRUE
  <2>1. /\ Len(rows) = 2 /\ rows[1] = TransitionRow(o, "unknown", status, at)
        /\ x = [kind |-> "fill", order |-> o, fill |-> f, from |-> "unknown", to |-> status,
                at |-> at, filled |-> r.filled + f.quantity, spent |-> r.spent + Money(f),
                external |-> TRUE]
    BY DEF Told
  <2> HIDE DEF x
  <2> QED BY <2>1 DEF TransitionRow
<1>3. whole > 0 => spent + money <= whole
  <2>1. Sized(r) BY DEF Solvent
  <2>2. whole > 0 => rest + spent = whole /\ money <= rest BY <1>1, <2>1 DEF Sized, Affords
  <2>3. whole \in Nat /\ spent \in Nat /\ rest \in Nat /\ money \in Nat
    <3>1. whole \in Nat /\ spent \in Nat /\ rest \in Nat BY RecordParts, IntentParts
    <3>2. money \in Nat BY <1>1, Product DEF Money, FillType
    <3> QED BY <3>1, <3>2
  <2> HIDE DEF whole, spent, rest, money
  <2> QED BY <2>2, <2>3
<1>4. "unknown" \notin Lifecycle!Closed BY DEF Lifecycle!Closed
<1> HIDE DEF x
<1>5. Keeps(x, r) BY <1>1, <1>2, <1>3, <1>4 DEF Keeps
<1>6. ASSUME NEW n \in 1..Len(rows), rows[n].kind = "fill"
      PROVE  Lawful(s, rows, n) /\ (~ rows[n].external => Fresh(s, rows[n]))
  <2>1. n = 2 BY <1>2, <1>6
  <2>2. rows[n] = x BY <2>1 DEF x
  <2> QED BY <1>1, <1>2, <1>5, <2>2 DEF Lawful, Tripped
<1>7. \A i \in Instruments : s.seen[i].at <= t.seen[i].at
  <2>1. \A i \in Instruments : s.seen[i].at \in Nat BY TypedParts DEF SeenType, Good
  <2> QED BY <1>1, <2>1
<1>8. DOMAIN t.orders = DOMAIN s.orders BY <1>1
<1>9. \A k \in DOMAIN s.orders : Remains(s, rows, t, k) BY <1>1 DEF Remains, SameOrder
<1> QED BY <1>6, <1>7, <1>8, <1>9 DEF Bears

\* Evidence of one fill.
LEMMA EvidenceOutcome ==
  ASSUME NEW s, Good(s), NEW o \in DOMAIN s.orders, NEW x \in External, NEW at \in Times,
         NEW status, NEW e, e.fills = <<x>>, e.order = o, e.at = at, e.status = status,
         e.filled = s.orders[o].filled + x.quantity,
         NEW O, o \in O, NEW C, NEW I, s.orders[o].intent.instrument \in I
  PROVE  Outcome(s, EvidenceKernel(s, e), at, O, C, I)
<1> DEFINE k == EvidenceKernel(s, e)
           r == s.orders[o]
           filled == r.filled + x.quantity
           sum == Sum1(s, r, at, x)
           f == Booked1(o, r, x)
           declined == Declined(s, status, at, filled, r, sum)
           u == Answer(s, o, status, at, filled, x.price, r, sum, <<f>>)
           rows == AnswerRows(o, status, at, r, <<f>>)
           a == Done(u, rows)
           i == r.intent.instrument
<1>1. k = IF 2 > MaxGroup \/ o \notin DOMAIN s.orders THEN Raised(s)
          ELSE IF declined THEN Raised(s) ELSE Marked(a)
  <2>1. o = e.order /\ at = e.at /\ status = e.status /\ filled = e.filled OBVIOUS
  <2> HIDE DEF filled
  <2> QED BY <2>1, EvidenceIs
<1>2. CASE k = Raised(s)
  <2> HIDE DEF k
  <2> QED BY <1>2, RaisedOutcome DEF k
<1>3. CASE k # Raised(s)
  <2>1. k = Marked(a) /\ ~ declined
    <3> HIDE DEF k, a, declined
    <3> QED BY <1>1, <1>3
  <2>2. PICK z : Answered(s, u, o, r, z, f, at) /\ z.status = status
    BY <2>1, AnswerIs
  <2>3. /\ f \in FillType /\ f.order = o /\ f.instrument = i /\ z \in OrderRecord
        /\ SameOrder(r, z) /\ r.status = "unknown" /\ s.latest <= at /\ u.latest = at
        /\ Reworked(s, u, o, i, z) /\ Applied(s.ledger, f, u.ledger)
        /\ (r.intent.notional = 0 => z.filled <= r.intent.quantity)
    <3> HIDE DEF r, f, u
    <3> QED BY <2>2 DEF Answered, i
  <2>4. /\ r \in OrderRecord /\ o \in Orders /\ i \in Instruments /\ at \in Nat /\ s.latest \in Nat
        /\ s.ledger \in LedgerType
    <3>1. s.orders \in [DOMAIN s.orders -> OrderRecord] /\ DOMAIN s.orders \subseteq Orders
          /\ s.ledger \in LedgerType /\ s.latest \in Nat /\ at \in Nat
      BY TypedParts, TimesAreInstants DEF Good
    <3>2. r \in OrderRecord /\ o \in Orders BY <3>1
    <3> HIDE DEF r
    <3> QED BY <3>1, <3>2, RecordParts, IntentParts DEF i
  <2>5. /\ Good(u) /\ Frame(s, u, O, C, I) /\ Reserved(u) \subseteq Reserved(s)
        /\ \A j \in Instruments : u.active[j] \cup u.unknown[j] # {} =>
                                     s.active[j] \cup s.unknown[j] # {}
    <3>1. Reworkable(s, o, i, z) /\ i \in I BY <2>3, <2>4 DEF SameOrder, Reworkable
    <3> HIDE DEF r, u, i
    <3>2. KeptWithin(s, u, O, C, I) BY Zenon, <2>3, <3>1, ReworkedKeeps
    <3> QED BY ONLY Zenon, <3>2 DEF KeptWithin
  <2>5a. Pays(s, u)
    <3> HIDE DEF r, u, i, f
    <3>1. Typed(s) /\ o \in DOMAIN s.orders /\ r = s.orders[o] BY DEF Good, r
    <3> QED BY <2>2, <3>1, AnsweredPays
  <2>6. u.events = s.events /\ u.ops = s.ops /\ Typed(u)
    <3> HIDE DEF r, u, i
    <3> QED BY <2>3 DEF Reworked
  <2>7. Told(rows, o, status, at, r, f)
    <3>1. status \in Logged!Statuses
      <4>1. z.status \in Logged!Statuses BY <2>3, RecordParts
      <4> QED BY <2>2, <4>1
    <3> HIDE DEF f, r
    <3> QED BY <2>3, <2>4, <3>1, AnswerTold
  <2> HIDE DEF u, rows, f, sum, declined
  <2>8. /\ rows \in Seq(RowType) /\ Len(rows) = 2 /\ rows # <<>>
        /\ rows[1].kind = "transition" /\ rows[1].order = o /\ rows[1].to = status
        /\ rows[1].at = at
        /\ rows[2].kind = "fill" /\ rows[2].fill = f /\ rows[2].at = at
    <3>1. /\ rows \in Seq(RowType) /\ Len(rows) = 2
          /\ rows[1] = TransitionRow(o, "unknown", status, at)
          /\ rows[2] = [kind |-> "fill", order |-> o, fill |-> f, from |-> "unknown",
                        to |-> status, at |-> at, filled |-> r.filled + f.quantity,
                        spent |-> r.spent + Money(f), external |-> TRUE]
      BY <2>7 DEF Told
    <3>2. rows # <<>>
      <4> SUFFICES ASSUME rows = <<>> PROVE FALSE OBVIOUS
      <4>1. Len(rows) = 0 OBVIOUS
      <4> QED BY <3>1, <4>1
    <3>3. /\ rows[2].kind = "fill" /\ rows[2].fill = f /\ rows[2].at = at BY <3>1
    <3>4. /\ rows[1].kind = "transition" /\ rows[1].order = o /\ rows[1].to = status
          /\ rows[1].at = at
      BY <3>1 DEF TransitionRow
    <3> QED BY <3>1, <3>2, <3>3, <3>4
  <2>9. \A n \in 1..Len(rows) : rows[n].at = at BY <2>8
  <2>10. IsResult(a) /\ a.ok = TRUE /\ a.s = u /\ a.rows = rows BY DEF Done, IsResult
  <2> HIDE DEF a
  <2>11. /\ k.ok \in BOOLEAN /\ Typed(k.s)
         /\ ~ k.ok => k.s = u
         /\ k.ok => k.rows = rows /\ Remarked(u, k.s)
    <3>1. a.ok \in BOOLEAN /\ Typed(a.s) /\ a.rows \in Seq(RowType) BY <2>6, <2>8, <2>10
    <3>2. /\ Marked(a).ok \in BOOLEAN /\ Typed(Marked(a).s)
          /\ ~ Marked(a).ok => Marked(a).s = a.s
          /\ Marked(a).ok => a.ok /\ Marked(a).rows = a.rows /\ Remarked(a.s, Marked(a).s)
      BY <2>10, <3>1, MarkedIs
    <3> QED BY <2>1, <2>10, <3>2
  <2> HIDE DEF k
  <2>12. CASE ~ k.ok
    <3>1. k.s = u BY <2>11, <2>12
    <3> QED BY <2>5, <2>6, <2>11, <2>12, <3>1 DEF Outcome, k
  <2>13. CASE k.ok
    <3>1. k.rows = rows /\ Remarked(u, k.s) BY <2>11, <2>13
    <3>2. /\ Good(k.s) /\ Frame(s, k.s, O, C, I)
          /\ Reserved(k.s) = Reserved(u) /\ ReservedInstruments(k.s) = ReservedInstruments(u)
      BY <2>5, <3>1, RemarkedKeeps
    <3>2a. Pays(s, k.s)
      <4>1. Typed(u) /\ Pays(u, k.s) BY <2>6, <3>1, RemarkedKeeps
      <4>2. Pays(s, u) BY <2>5a
      <4> QED BY <4>1, <4>2, PaysThen
    <3>2b. Explains(s, k.rows, k.s)
      <4>1. DOMAIN rows = 1..2 /\ \A n \in 1..2 : n = 1 \/ n = 2 BY <2>8
      <4>2. Shares(rows) BY <2>8, <4>1, NothingObserved
      <4>3. k.s.orders = [s.orders EXCEPT ![o] = z] /\ z.status = status
            /\ status \in {"partially_filled", "filled"} /\ s.orders[o].status = "unknown"
        <5>1. z.status \in {"filled", "partially_filled"} /\ r.status = "unknown"
          BY <2>2 DEF Answered, Grew
        <5>2. u.orders = [s.orders EXCEPT ![o] = z] /\ k.s.orders = u.orders
          BY <2>3, <3>1 DEF Reworked, Remarked
        <5> QED BY <2>2, <5>1, <5>2
      <4>4. /\ StatusOf(s, o) = "unknown" /\ StatusOf(k.s, o) = status
            /\ \A q \in Orders \ {o} : StatusOf(k.s, q) = StatusOf(s, q)
        <5> HIDE DEF k
        <5> QED BY ONLY <4>3, o \in DOMAIN s.orders DEF StatusOf
      <4>5. Logged!Edge(StatusOf(s, o), StatusOf(k.s, o)) BY <4>3, <4>4 DEF Logged!Edge
      <4>6. IsMove(rows[1], o) /\ rows[1].to = status BY <2>8 DEF IsMove
      <4>7. \A m \in 1..2 : rows[m].kind = "transition" => rows[m].order = o BY <2>8, <4>1
      <4>8. 1 \in 1..Len(rows) /\ Len(rows) = 2
            /\ \A m \in (1 + 1)..Len(rows) : rows[m].kind # "transition"
        <5>1. \A m \in (1 + 1)..2 : m = 2 OBVIOUS
        <5> QED BY <2>8, <5>1
      <4>9. Moved(s, rows, k.s) BY <4>4, <4>5, <4>6, <4>7, <4>8, MovedOne
      <4>10. ASSUME Solvent(s) PROVE Bears(s, rows, k.s)
        <5>1. r = s.orders[o] /\ r \in OrderRecord /\ Answered(s, u, o, r, z, f, at)
              /\ Told(rows, o, status, at, r, f)
              /\ k.s.orders = u.orders /\ k.s.seen = u.seen
          BY <2>2, <2>4, <2>7, <3>1 DEF Remarked
        <5> HIDE DEF r, k
        <5> QED BY <4>10, <5>1, BearsAnswer
      <4> QED BY <3>1, <4>2, <4>9, <4>10 DEF Explains
    <3>3. k.s.events = s.events /\ k.s.ops = s.ops /\ at <= k.s.latest
      BY <2>3, <2>4, <2>6, <3>1 DEF Remarked
    <3>4. Fits(s) => Fits(k.s)
      <4>1. ReservedInstruments(u) \subseteq ReservedInstruments(s)
        <5>1. ASSUME NEW j \in Positions(u.ledger) PROVE j \in Positions(s.ledger) \cup {i}
          <6>1. u.ledger.held = [s.ledger.held EXCEPT ![i] =
                    IF f.side = "buy" THEN @ + f.quantity ELSE @ - f.quantity]
            BY <2>3 DEF Applied
          <6>2. s.ledger.held \in [Instruments -> Nat] BY <2>4, LedgerParts
          <6>3. j # i => u.ledger.held[j] = s.ledger.held[j] BY <2>4, <5>1, <6>1, <6>2 DEF Positions
          <6> QED BY <5>1, <6>3 DEF Positions
        <5>2. s.active[i] # {} \/ s.unknown[i] # {}
          <6>1. o \in s.unknown[i] BY <2>3, <2>4 DEF Good, Indexed, On
          <6> QED BY <6>1
        <5>3. i \in ReservedInstruments(s) BY <2>4, <5>2 DEF ReservedInstruments
        <5> QED BY <2>5, <5>1, <5>3 DEF ReservedInstruments
      <4>2. Reserved(k.s) \subseteq Reserved(s) /\ ReservedInstruments(k.s) \subseteq ReservedInstruments(s)
        BY <2>5, <3>2, <4>1
      <4> QED BY <4>2, FitsLess
    <3>5. Again(s, rows) = k
      <4>1. OperationKind(rows) = "RECONCILIATION"
        <5>1. DOMAIN rows = 1..2 BY <2>8
        <5>2. Kinds(rows) = {"transition", "fill"} BY <2>8, <5>1 DEF Kinds
        <5> QED BY <5>2 DEF OperationKind
      <4>2. Again(s, rows) = ReconcileAgain(s, rows) BY <4>1 DEF Again
      <4> DEFINE g == [order |-> o, status |-> status, at |-> at, filled |-> filled,
                       fills |-> <<f>>]
                 Sum(q, y) == q + y.quantity
      <4>3. f.id = x.id /\ f.at = x.at /\ f.quantity = x.quantity /\ f.price = x.price
            /\ f.fee = x.fee
        BY DEF f, Booked1
      <4>4. [n \in 1..(Len(rows) - 1) |-> rows[n + 1].fill] = <<f>>
        <5>1. Len(rows) - 1 = 1 BY <2>8
        <5>2. [n \in 1..1 |-> rows[n + 1].fill] = [n \in 1..1 |-> f] BY <2>8
        <5> HIDE DEF rows
        <5>3. <<f>> = [n \in 1..1 |-> f] OBVIOUS
        <5> QED BY <5>1, <5>2, <5>3
      <4>5. FoldLeft(Sum, r.filled, <<f>>) = filled
        <5>1. FoldLeft(Sum, r.filled, <<f>>) = Summing!Fold(0, r.filled, <<f>>)
          BY DEF Summing!Fold, FoldLeft, MapThenFoldSet, QuantityStep, Summing!MapThenFoldSet,
             Max, Summing!Highest
        <5>2. Summing!Fold(0, r.filled, <<f>>) = QuantityStep(0, r.filled, f)
          BY WellOrders, Summing!FoldOne
        <5> QED BY <4>3, <5>1, <5>2 DEF QuantityStep
      <4>6. ReconcileAgain(s, rows) = EvidenceKernel(s, g)
        <5> HIDE DEF r, filled
        <5>1. ASSUME NEW fills, fills = [n \in 1..(Len(rows) - 1) |-> rows[n + 1].fill]
              PROVE  ReconcileAgain(s, rows) =
                        EvidenceKernel(s, [order |-> rows[1].order, status |-> rows[1].to,
                            at |-> rows[1].at,
                            filled |-> FoldLeft(Sum, s.orders[rows[1].order].filled, fills),
                            fills |-> fills])
          BY <5>1 DEF ReconcileAgain
        <5>2. s.orders[rows[1].order].filled = r.filled BY <2>8 DEF r
        <5> HIDE DEF Sum
        <5> QED BY <2>8, <4>4, <4>5, <5>1, <5>2
      <4>7. EvidenceKernel(s, g) = EvidenceKernel(s, e)
        <5>1. g.fills = <<f>> /\ g.order = e.order /\ g.at = e.at /\ g.status = e.status
              /\ g.filled = e.filled
          OBVIOUS
        <5> HIDE DEF g
        <5> QED BY <4>3, <5>1, EvidenceSame
      <4> QED BY <4>2, <4>6, <4>7 DEF k
    <3>6. Outcome(s, k, at, O, C, I)
      BY <2>3, <2>8, <2>9, <2>11, <3>1, <3>2, <3>2a, <3>2b, <3>3, <3>4, <3>5 DEF Outcome
    <3> QED BY <3>6 DEF k
  <2> QED BY <2>11, <2>12, <2>13
<1> QED BY <1>2, <1>3

------------------------------
(* Operations on top of a state *)

\* Counting the rows of a group changes nothing else.
LEMMA CountedIs ==
  ASSUME NEW t, Typed(t), NEW rows, Len(rows) \in Nat
  PROVE  Recounted(t, Counted(t, rows), Len(rows))
<1> DEFINE u == Counted(t, rows)
           events == t.events + Len(rows) + 1
           ops == t.ops + 1
<1>1. IsState(t) /\ events \in Nat /\ ops \in Nat
  <2>1. t.events \in Nat /\ t.ops \in Nat BY ONLY Typed(t), TypedParts
  <2> QED BY <2>1, TypedParts DEF IsState
<1>2. u = [t EXCEPT !.events = events, !.ops = ops] BY <1>1 DEF Counted, IsState
<1>3. events = t.events + Len(rows) + 1 /\ ops = t.ops + 1 OBVIOUS
<1> HIDE DEF events, ops, u
<1>4. u = [orders |-> t.orders, clients |-> t.clients, active |-> t.active,
           unknown |-> t.unknown, seen |-> t.seen, marks |-> t.marks, known |-> t.known,
           fills |-> t.fills, fillSeq |-> t.fillSeq, events |-> events, ops |-> ops,
           ledger |-> t.ledger, latest |-> t.latest, lastKey |-> t.lastKey]
  BY <1>1, <1>2 DEF IsState
<1>5. Typed(u)
  <2>1. /\ t.orders \in [DOMAIN t.orders -> OrderRecord] /\ DOMAIN t.orders \subseteq Orders
        /\ t.clients \in SUBSET Orders /\ t.active \in Entries /\ t.unknown \in Entries
        /\ t.seen \in [Instruments -> SeenType] /\ t.marks \in [Instruments -> Nat]
        /\ t.known \in SUBSET Instruments /\ t.fills \in Seq(FillType)
        /\ t.fillSeq \in Nat /\ t.ledger \in LedgerType /\ t.latest \in Instants
        /\ t.lastKey \in [at : Instants, instrument : Instruments \cup {0}]
    BY TypedParts
  <2>2. Typed([orders |-> t.orders, clients |-> t.clients, active |-> t.active,
               unknown |-> t.unknown, seen |-> t.seen, marks |-> t.marks, known |-> t.known,
               fills |-> t.fills, fillSeq |-> t.fillSeq, events |-> events, ops |-> ops,
               ledger |-> t.ledger, latest |-> t.latest, lastKey |-> t.lastKey])
    BY <1>1, <2>1, TypedOf
  <2> QED BY <1>4, <2>2
<1>6. Recounted(t, u, Len(rows)) BY <1>3, <1>4, <1>5 DEF Recounted
<1> QED BY <1>6 DEF u

\* What a count keeps.
LEMMA RecountedKeeps ==
  ASSUME NEW t, NEW u, NEW n, Recounted(t, u, n)
  PROVE  /\ Typed(u) /\ u.ops = t.ops + 1 /\ u.latest = t.latest
         /\ Good(t) => Good(u)
         /\ Fits(t) => Fits(u)
         /\ Solvent(t) => Solvent(u)
         /\ \A s, O, C, I : Frame(s, t, O, C, I) => Frame(s, u, O, C, I)
         /\ \A s, rows : Explains(s, rows, t) => Explains(s, rows, u)
<1>1. /\ Typed(u) /\ u.orders = t.orders /\ u.clients = t.clients /\ u.active = t.active
      /\ u.unknown = t.unknown /\ u.seen = t.seen /\ u.marks = t.marks /\ u.known = t.known
      /\ u.fills = t.fills /\ u.latest = t.latest /\ u.ledger = t.ledger
      /\ u.ops = t.ops + 1
  BY DEF Recounted
<1>2. Good(t) => Good(u) BY <1>1 DEF Good, Indexed, Current, On
<1>3. Fits(t) => Fits(u)
  <2>1. Reserved(u) = Reserved(t) /\ ReservedInstruments(u) = ReservedInstruments(t)
    BY <1>1 DEF Reserved, ReservedInstruments
  <2> QED BY <2>1 DEF Fits
<1>4. \A s, O, C, I : Frame(s, t, O, C, I) => Frame(s, u, O, C, I)
  BY <1>1 DEF Frame, Extends, NewIds
<1>5. Solvent(t) => Solvent(u) BY <1>1 DEF Solvent
<1>6. \A s, rows : Explains(s, rows, t) => Explains(s, rows, u) BY <1>1, ExplainsSame
<1> QED BY <1>1, <1>2, <1>3, <1>4, <1>5, <1>6

\* Whatever a kernel comes to is on top of the state it started from.
LEMMA StagesOnTop ==
  ASSUME NEW s, Good(s), Fits(s), Solvent(s), NEW r, NEW at \in Nat, NEW O, NEW C,
         NEW I \in SUBSET Instruments, Outcome(s, r, at, O, C, I)
  PROVE  OnTop(s, Stages(r, Capture(s, O, C, I), at))
<1> DEFINE j == Capture(s, O, C, I)
           x == Stages(r, j, at)
           u == Counted(r.s, r.rows)
           staged == r.ok /\ WithinLimits(u, r.rows)
<1>1. /\ r.ok \in BOOLEAN /\ Typed(r.s) /\ Frame(s, r.s, O, C, I) /\ Typed(s)
      /\ r.s.events = s.events /\ r.s.ops = s.ops
      /\ r.ok => /\ Good(r.s) /\ r.rows \in Seq(RowType) /\ r.rows # <<>>
                 /\ \A n \in 1..Len(r.rows) : r.rows[n].at = at
                 /\ s.latest <= at /\ at <= r.s.latest
                 /\ Again(s, r.rows) = r
                 /\ Fits(r.s) /\ Solvent(r.s) /\ Explains(s, r.rows, r.s)
  BY DEF Outcome, Good, Pays
<1>2. /\ x.pc = (IF staged THEN "staged" ELSE "raised")
      /\ x.s = (IF r.ok THEN u ELSE r.s)
      /\ x.journal = j /\ x.rows = r.rows /\ x.at = at
  BY DEF Stages
<1>3. j.ops = s.ops BY DEF Capture
<1>4. r.ok => /\ Typed(u) /\ u.ops = s.ops + 1 /\ u.latest = r.s.latest /\ Good(u) /\ Fits(u)
              /\ Solvent(u) /\ Frame(s, u, O, C, I) /\ Explains(s, r.rows, u)
  <2> SUFFICES ASSUME r.ok PROVE /\ Typed(u) /\ u.ops = s.ops + 1 /\ u.latest = r.s.latest
                                 /\ Good(u) /\ Fits(u) /\ Solvent(u)
                                 /\ Frame(s, u, O, C, I) /\ Explains(s, r.rows, u)
    OBVIOUS
  <2>1. Len(r.rows) \in Nat BY <1>1
  <2>2. Recounted(r.s, u, Len(r.rows)) BY <1>1, <2>1, CountedIs
  <2> HIDE DEF u
  <2>3. /\ Typed(u) /\ u.ops = r.s.ops + 1 /\ u.latest = r.s.latest
        /\ Good(r.s) => Good(u)
        /\ Fits(r.s) => Fits(u)
        /\ Solvent(r.s) => Solvent(u)
        /\ Frame(s, r.s, O, C, I) => Frame(s, u, O, C, I)
        /\ Explains(s, r.rows, r.s) => Explains(s, r.rows, u)
    BY <2>2, RecountedKeeps
  <2> QED BY <1>1, <2>3
<1> HIDE DEF x, u, j
<1>5. Typed(x.s) /\ Frame(s, x.s, O, C, I) BY <1>1, <1>2, <1>4
<1>6. /\ RolledBack(x.s, j) = s
      /\ ~ RestoreRefused(x.s.ledger, j.ledger, AddedFills(x.s, j))
  BY <1>1, <1>5, RollsBack DEF j
<1>7. ASSUME staged PROVE Ready(s, x)
  <2>1. r.ok /\ x.s = u /\ WithinLimits(u, r.rows) BY <1>2, <1>7
  <2>2. /\ Good(x.s) /\ Fits(x.s) /\ Solvent(x.s) /\ x.s.ops = s.ops + 1
        /\ Explains(s, x.rows, x.s)
        /\ x.rows \in Seq(RowType) /\ x.rows # <<>> /\ x.at = at
        /\ s.latest <= x.at /\ x.at <= x.s.latest
        /\ \A n \in 1..Len(x.rows) : x.rows[n].at = x.at
    BY <1>1, <1>2, <1>4, <2>1
  <2>3. /\ Again(s, x.rows).ok /\ Again(s, x.rows).rows = x.rows
        /\ Counted(Again(s, x.rows).s, x.rows) = x.s /\ WithinLimits(x.s, x.rows)
    BY <1>1, <1>2, <2>1 DEF u
  <2> QED BY <2>2, <2>3 DEF Ready
<1>8. x.pc \in {"staged", "raised"} /\ (x.pc = "staged" => staged)
  <2> HIDE DEF staged
  <2> QED BY <1>2
<1> HIDE DEF staged
<1>9. OnTop(s, x) BY <1>2, <1>3, <1>5, <1>6, <1>7, <1>8 DEF OnTop
<1> QED BY <1>9 DEF x, j

------------------------------
(* The log *)

\* A session starts in a state between operations.
LEMMA BlankGood == Good(BlankState) /\ Fits(BlankState) /\ BlankState.ops = 0
<1> SUFFICES ASSUME NEW s, s = BlankState, NEW l, l = EmptyLedger
             PROVE  Good(s) /\ Fits(s) /\ s.ops = 0
  OBVIOUS
<1> DEFINE none == [i \in Instruments |-> {}]
           unseen == [i \in Instruments |-> Unseen]
           marks == [i \in Instruments |-> 0]
           key == [at |-> 0, instrument |-> 0]
<1>1. /\ s.orders = <<>> /\ s.clients = {} /\ s.active = none /\ s.unknown = none
      /\ s.seen = unseen /\ s.marks = marks /\ s.known = {} /\ s.fills = <<>> /\ s.ledger = l
      /\ s.latest = 0 /\ s.ops = 0
      /\ s = [orders |-> <<>>, clients |-> {}, active |-> none, unknown |-> none,
              seen |-> unseen, marks |-> marks, known |-> {}, fills |-> <<>>, fillSeq |-> 0,
              events |-> 0, ops |-> 0, ledger |-> l, latest |-> 0, lastKey |-> key]
  BY DEF BlankState
<1>2. l \in LedgerType /\ \A i \in Instruments : l.held[i] = 0
  <2>1. StartingCash \in Nat /\ Scale \in Nat BY LedgerAssumption, ScaleAssumption
  <2> DEFINE c == StartingCash * Scale
  <2>2. c \in Int BY <2>1, Product
  <2>3. l = [cash |-> c, held |-> [i \in Instruments |-> 0],
             prices |-> [i \in Instruments |-> 0], fills |-> {}, equity |-> c, peak |-> c]
    BY DEF EmptyLedger
  <2> HIDE DEF c
  <2>4. l \in LedgerType BY <2>2, <2>3 DEF LedgerType
  <2> QED BY <2>3, <2>4
<1>3. DOMAIN <<>> = {} /\ <<>> \in [DOMAIN <<>> -> OrderRecord] /\ <<>> \in Seq(FillType) OBVIOUS
<1>4. Unseen \in SeenType /\ unseen \in [Instruments -> SeenType] BY DEF Unseen, SeenType
<1>5. none \in Entries BY DEF Entries
<1>6. 0 \in Instants /\ key \in [at : Instants, instrument : Instruments \cup {0}]
  BY BoundsAssumption DEF Instants
<1> HIDE DEF none, unseen, marks, key
<1>7. Typed(s)
  <2> SUFFICES ASSUME NEW orders, orders = <<>>, NEW fills, fills = <<>>
               PROVE  Typed(s)
    OBVIOUS
  <2>1. orders \in [DOMAIN orders -> OrderRecord] /\ DOMAIN orders \subseteq Orders
        /\ fills \in Seq(FillType)
    BY <1>3
  <2>2. marks \in [Instruments -> Nat] BY DEF marks
  <2>3. s = [orders |-> orders, clients |-> {}, active |-> none, unknown |-> none,
             seen |-> unseen, marks |-> marks, known |-> {}, fills |-> fills, fillSeq |-> 0,
             events |-> 0, ops |-> 0, ledger |-> l, latest |-> 0, lastKey |-> key]
    BY <1>1
  <2>4. {} \in SUBSET Orders /\ {} \in SUBSET Instruments /\ 0 \in Nat OBVIOUS
  <2>5. Typed([orders |-> orders, clients |-> {}, active |-> none, unknown |-> none,
             seen |-> unseen, marks |-> marks, known |-> {}, fills |-> fills, fillSeq |-> 0,
             events |-> 0, ops |-> 0, ledger |-> l, latest |-> 0, lastKey |-> key])
    BY ZenonT(30), <1>2, <1>4, <1>5, <1>6, <2>1, <2>2, <2>4, TypedOf
  <2> QED BY <2>3, <2>5
<1>8. DOMAIN s.orders = {} /\ IsFiniteSet(DOMAIN s.orders) BY <1>1, <1>3, FS_EmptySet
<1>9. Indexed(s) BY <1>1, <1>8 DEF Indexed, On, none
<1>10. Current(s) BY <1>1 DEF Current, Dated, unseen, Unseen
<1>11. Fits(s)
  <2>1. Reserved(s) = {} /\ ReservedInstruments(s) = {}
    BY <1>1, <1>2 DEF Reserved, ReservedInstruments, Positions, none
  <2>2. Cardinality({}) = 0 BY FS_EmptySet
  <2>3. WorstRows({}, 0) = 0 /\ MaxGroup \in Nat BY <2>2, LimitsAssumption DEF WorstRows
  <2> QED BY <2>1, <2>2, <2>3 DEF Fits
<1>12. Good(s) /\ Fits(s) /\ s.ops = 0 BY <1>1, <1>7, <1>8, <1>9, <1>10, <1>11 DEF Good
<1> QED BY <1>12

\* The empty log.
LEMMA EmptyLog == SoundLog(<<>>) /\ Recovered(<<>>, 0).s = BlankState
<1>1. SubSeq(<<>>, 1, 0) = <<>> BY SubSeqEmpty
<1>2. Recovered(<<>>, 0) = Started
  BY <1>1, ReplayFolds, WellOrders, Replaying!FoldEmpty DEF Recovered
<1>3. Started = [ok |-> TRUE, s |-> Started.s, at |-> Started.at] /\ Started.s = BlankState
      /\ Started.at = 0
  BY DEF Started
<1>4. BlankState.latest = 0 BY DEF BlankState
<1>5. IsRecovery(Started, 0) BY <1>3, <1>4, BlankGood, BlankSolvent DEF IsRecovery
<1>6. <<>> \in Seq({}) /\ Len(<<>>) = 0 /\ (\A n \in 0..0 : n = 0) /\ 1..0 = {} OBVIOUS
<1> QED BY <1>2, <1>3, <1>5, <1>6 DEF SoundLog

\* A log of one group more begins with the log.
LEMMA LongerLog ==
  ASSUME NEW X, NEW l \in Seq(X), NEW g, NEW k, k = Append(l, g), NEW Y, Y = X \cup {g}
  PROVE  Longer(l, k, Y)
<1>1. l \in Seq(Y) OBVIOUS
<1>2. k \in Seq(Y) /\ Len(k) = Len(l) + 1 /\ \A m \in 1..Len(l) : k[m] = l[m] BY <1>1
<1>3. Len(l) \in Nat /\ \A m \in 1..Len(l) : l[m] \in Y BY <1>1
<1>4. Len(k) \in Nat /\ \A m \in 1..Len(k) : k[m] \in Y BY <1>2
<1>5. ASSUME NEW n \in 0..Len(l) PROVE SubSeq(k, 1, n) = SubSeq(l, 1, n)
  <2> DEFINE p == SubSeq(k, 1, n)
             q == SubSeq(l, 1, n)
  <2>1. /\ p \in Seq(Y) /\ Len(p) = IF 1 <= n THEN n - 1 + 1 ELSE 0
        /\ \A m \in 1..n - 1 + 1 : p[m] = k[1 + m - 1]
    BY <1>2, <1>3, <1>4, SubSeqProperties
  <2>2. /\ q \in Seq(Y) /\ Len(q) = IF 1 <= n THEN n - 1 + 1 ELSE 0
        /\ \A m \in 1..n - 1 + 1 : q[m] = l[1 + m - 1]
    BY <1>3, SubSeqProperties
  <2> HIDE DEF p, q
  <2>3. Len(p) = n /\ Len(q) = n BY <1>3, <2>1, <2>2
  <2>4. \A m \in 1..n : p[m] = q[m] BY <1>2, <1>3, <2>1, <2>2
  <2>5. p = q BY <2>1, <2>2, <2>3, <2>4, SeqEqual
  <2> QED BY <2>5 DEF p, q
<1>6. ASSUME NEW t \in Seq(Y) PROVE SubSeq(t, 1, Len(t)) = t
  <2> DEFINE p == SubSeq(t, 1, Len(t))
  <2>1. Len(t) \in Nat /\ \A m \in 1..Len(t) : t[m] \in Y OBVIOUS
  <2>2. /\ p \in Seq(Y) /\ Len(p) = IF 1 <= Len(t) THEN Len(t) - 1 + 1 ELSE 0
        /\ \A m \in 1..Len(t) - 1 + 1 : p[m] = t[1 + m - 1]
    BY <2>1, SubSeqProperties
  <2> HIDE DEF p
  <2>3. Len(p) = Len(t) /\ \A m \in 1..Len(t) : p[m] = t[m] BY <2>1, <2>2
  <2>4. p = t BY <2>2, <2>3, SeqEqual
  <2> QED BY <2>4 DEF p
<1>7. SubSeq(l, 1, Len(l)) = l /\ SubSeq(k, 1, Len(k)) = k BY <1>1, <1>2, <1>6
<1>8. /\ \A n \in 0..Len(l) : SubSeq(k, 1, n) = SubSeq(l, 1, n)
      /\ SubSeq(l, 1, Len(l)) = l /\ SubSeq(k, 1, Len(l) + 1) = k
      /\ k \in Seq(Y) /\ Len(k) = Len(l) + 1 /\ Len(l) \in Nat
  BY <1>2, <1>3, <1>5, <1>7
<1> QED BY <1>8 DEF Longer

\* A ready operation makes the log one group longer, and recovery leads to its state.
LEMMA CommitSound ==
  ASSUME NEW l, SoundLog(l), NEW x, OnTop(Recovered(l, Len(l)).s, x), x.pc = "staged",
         NEW g, g = [rows |-> x.rows,
                     checkpoint |-> Checkpoint(x.s, OperationKind(x.rows), x.at)]
  PROVE  /\ SoundLog(Append(l, g)) /\ Len(Append(l, g)) = Len(l) + 1
         /\ \A n \in 0..Len(l) : Recovered(Append(l, g), n) = Recovered(l, n)
         /\ Recovered(Append(l, g), Len(l) + 1).s = x.s /\ x.s.ops = Len(l) + 1
<1> DEFINE acc == Recovered(l, Len(l))
           s == acc.s
           k == Append(l, g)
<1>1. PICK X : l \in Seq(X) BY DEF SoundLog
<1>2. /\ \A n \in 0..Len(l) : SubSeq(k, 1, n) = SubSeq(l, 1, n)
      /\ SubSeq(l, 1, Len(l)) = l /\ SubSeq(k, 1, Len(l) + 1) = k
      /\ k \in Seq(X \cup {g}) /\ Len(k) = Len(l) + 1 /\ Len(l) \in Nat
  <2> HIDE DEF acc, s
  <2> DEFINE Y == X \cup {g}
  <2>1. k = Append(l, g) /\ Y = X \cup {g} OBVIOUS
  <2> HIDE DEF k, Y
  <2>2. Longer(l, k, Y) BY <1>1, <2>1, LongerLog
  <2> QED BY <2>1, <2>2 DEF Longer
<1>3. IsRecovery(acc, Len(l)) BY <1>2 DEF SoundLog
<1>4. /\ acc = [ok |-> TRUE, s |-> s, at |-> acc.at] /\ acc.ok = TRUE
      /\ Good(s) /\ s.ops = Len(l) /\ acc.at \in Nat /\ acc.at <= s.latest /\ s.latest \in Nat
  BY <1>3, TypedParts, TimesAreInstants DEF IsRecovery, Good
<1>5. Ready(s, x) BY DEF OnTop
<1>6. /\ Good(x.s) /\ Fits(x.s) /\ Solvent(x.s) /\ x.s.ops = s.ops + 1
      /\ Explains(s, x.rows, x.s)
      /\ x.rows \in Seq(RowType) /\ x.rows # <<>>
      /\ \A n \in 1..Len(x.rows) : x.rows[n].at = x.at
      /\ x.at \in Nat /\ s.latest <= x.at /\ x.at <= x.s.latest
      /\ Again(s, x.rows).ok /\ Again(s, x.rows).rows = x.rows
      /\ Counted(Again(s, x.rows).s, x.rows) = x.s /\ WithinLimits(x.s, x.rows)
  BY <1>5 DEF Ready
<1>7. g.rows = x.rows /\ g.checkpoint = Checkpoint(x.s, OperationKind(x.rows), x.at) OBVIOUS
<1>8. x.rows[1].at = x.at /\ Last(x.rows).at = x.at
  <2>1. Len(x.rows) \in Nat \ {0} BY <1>6
  <2> QED BY <1>6, <2>1 DEF Last
<1>9. ReplayGroup(acc, g) = [ok |-> TRUE, s |-> x.s, at |-> x.at]
  <2> DEFINE again == Again(s, x.rows)
             next == Counted(again.s, x.rows)
  <2>1. ReplayGroup(acc, g) = Accepted(acc, again, g) BY <1>7 DEF ReplayGroup
  <2>2. Closes(x.s, g) BY <1>6, <1>7, <1>8 DEF Closes
  <2>3. acc.at <= g.rows[1].at BY <1>4, <1>6, <1>7, <1>8
  <2>4. next = x.s /\ again.ok /\ again.rows = g.rows BY <1>6, <1>7
  <2> HIDE DEF acc, again
  <2>5. Accepted(acc, again, g) = [ok |-> TRUE, s |-> next, at |-> Last(g.rows).at]
    BY <1>4, <1>7, <2>2, <2>3, <2>4 DEF Accepted
  <2> QED BY <1>7, <1>8, <2>1, <2>4, <2>5
<1>10. Recovered(k, Len(l) + 1) = [ok |-> TRUE, s |-> x.s, at |-> x.at]
  <2>1. Recovered(k, Len(l) + 1) = Replaying!Fold(0, Started, k) BY <1>2, ReplayFolds DEF Recovered
  <2>2. acc = Replaying!Fold(0, Started, l) BY <1>2, ReplayFolds DEF Recovered
  <2>3. Replaying!Fold(0, Started, k) = ReplayStep(0, Replaying!Fold(0, Started, l), g)
    <3>1. l \in Seq(X \cup {g}) /\ g \in X \cup {g} BY <1>1
    <3> HIDE DEF acc, s
    <3> QED BY <3>1, WellOrders, Replaying!FoldAppend
  <2> QED BY <1>9, <2>1, <2>2, <2>3 DEF ReplayStep
<1>10a. /\ \A n \in 1..Len(l) : k[n] = l[n]
        /\ k[Len(l) + 1] = g
  BY <1>1
<1> HIDE DEF k, acc
<1>11. \A n \in 0..Len(l) : Recovered(k, n) = Recovered(l, n) BY <1>2 DEF Recovered
<1>12. SoundLog(k)
  <2>1. IsRecovery(Recovered(k, Len(l) + 1), Len(l) + 1)
    <3> DEFINE y == Recovered(k, Len(l) + 1)
    <3>1. /\ y = [ok |-> TRUE, s |-> y.s, at |-> y.at] /\ y.s = x.s /\ y.at = x.at
      <4>1. y = [ok |-> TRUE, s |-> x.s, at |-> x.at] BY <1>10
      <4> HIDE DEF y
      <4>2. y.s = x.s /\ y.at = x.at BY <4>1
      <4> QED BY <4>1, <4>2
    <3> HIDE DEF y
    <3>2. IsRecovery(y, Len(l) + 1) BY <1>4, <1>6, <3>1 DEF IsRecovery
    <3> QED BY <3>2 DEF y
  <2>2. \A n \in 0..Len(k) : n \in 0..Len(l) \/ n = Len(l) + 1 BY <1>2
  <2>3. \A n \in 0..Len(k) : IsRecovery(Recovered(k, n), n) BY <1>11, <2>1, <2>2 DEF SoundLog
  <2>4. ASSUME NEW n \in 1..Len(k)
        PROVE  k[n].rows \in Seq(RowType)
               /\ Explains(Recovered(k, n - 1).s, k[n].rows, Recovered(k, n).s)
    <3>1. CASE n \in 1..Len(l)
      <4>1. n \in 0..Len(l) /\ n - 1 \in 0..Len(l) BY <1>2, <3>1
      <4>2. l[n].rows \in Seq(RowType)
            /\ Explains(Recovered(l, n - 1).s, l[n].rows, Recovered(l, n).s)
        BY <3>1 DEF SoundLog
      <4> QED BY <1>10a, <1>11, <3>1, <4>1, <4>2
    <3>2. CASE n = Len(l) + 1
      <4>1. n - 1 = Len(l) /\ Len(l) \in 0..Len(l) BY <1>2, <3>2
      <4>2. Recovered(k, n - 1).s = s /\ Recovered(k, n).s = x.s /\ k[n].rows = x.rows
        BY <1>7, <1>10, <1>10a, <1>11, <3>2, <4>1 DEF acc
      <4> QED BY <1>6, <4>2
    <3> QED BY <1>2, <3>1, <3>2
  <2> QED BY <1>2, <2>3, <2>4 DEF SoundLog
<1>13. x.s.ops = Len(l) + 1 /\ Recovered(k, Len(l) + 1).s = x.s BY <1>4, <1>6, <1>10
<1> QED BY <1>2, <1>11, <1>12, <1>13 DEF k

------------------------------
(* The inductive invariant *)

\* What an idle object holds.
LEMMA IdleHolds ==
  ASSUME NEW l, SoundLog(l), NEW x, HeldBy(l, x), x.pc = "idle"
  PROVE  /\ Good(x.s) /\ Fits(x.s) /\ Solvent(x.s)
         /\ x.s.ops \in 0..Len(l) /\ x.s = Recovered(l, x.s.ops).s
<1>1. x # Down BY DEF Down, Idle
<1>2. ~ OnTop(Recovered(l, x.journal.ops).s, x) BY DEF OnTop
<1>3. x.s.ops \in 0..Len(l) /\ x.s = Recovered(l, x.s.ops).s BY <1>1, <1>2 DEF HeldBy
<1>4. IsRecovery(Recovered(l, x.s.ops), x.s.ops) BY <1>3 DEF SoundLog
<1>5. /\ Good(Recovered(l, x.s.ops).s) /\ Fits(Recovered(l, x.s.ops).s)
      /\ Solvent(Recovered(l, x.s.ops).s)
  BY <1>4 DEF IsRecovery
<1> QED BY <1>3, <1>5

\* An object inside of an operation.
LEMMA BusyHolds ==
  ASSUME NEW l, SoundLog(l), NEW x, HeldBy(l, x), x.pc \in {"staged", "raised"}
  PROVE  /\ x.journal.ops \in 0..Len(l) /\ OnTop(Recovered(l, x.journal.ops).s, x)
         /\ Recovered(l, x.journal.ops).s.ops = x.journal.ops
<1>1. Down.pc = "down" BY DEF Down, Idle
<1>2. x.journal.ops \in 0..Len(l) /\ OnTop(Recovered(l, x.journal.ops).s, x) BY <1>1 DEF HeldBy
<1>3. IsRecovery(Recovered(l, x.journal.ops), x.journal.ops) BY <1>2 DEF SoundLog
<1> QED BY <1>2, <1>3 DEF IsRecovery

\* Whatever an object is doing, its state has the type of one.
LEMMA HeldTyped ==
  ASSUME NEW l, SoundLog(l), NEW x, HeldBy(l, x)
  PROVE  x.pc \in {"down", "idle", "staged", "raised"} /\ Typed(x.s)
<1>1. CASE x = Down
  <2>1. x.pc = "down" /\ x.s = BlankState BY <1>1 DEF Down, Idle
  <2> QED BY <2>1, BlankGood DEF Good
<1>2. CASE x.pc = "idle" BY <1>2, IdleHolds DEF Good
<1>3. CASE x # Down /\ x.pc # "idle"
  <2>1. OnTop(Recovered(l, x.journal.ops).s, x) BY <1>3 DEF HeldBy
  <2> QED BY <2>1 DEF OnTop
<1> QED BY <1>1, <1>2, <1>3

\* Putting an object back where recovery leads.
LEMMA BackHeld ==
  ASSUME NEW l, SoundLog(l), NEW n \in 0..Len(l), NEW s, s = Recovered(l, n).s
  PROVE  HeldBy(l, Idle(s))
<1>1. IsRecovery(Recovered(l, n), n) BY DEF SoundLog
<1>2. s.ops = n BY <1>1 DEF IsRecovery
<1>3. Idle(s).pc = "idle" /\ Idle(s).s = s BY DEF Idle
<1> QED BY <1>2, <1>3 DEF HeldBy

\* A step that assigns one object.
LEMMA OneObject ==
  ASSUME IInv, NEW b \in Brokers, NEW x, broker' = [broker EXCEPT ![b] = x],
         SoundLog(log'), HeldBy(log', x), \A y : HeldBy(log, y) => HeldBy(log', y),
         saved' \in 0..Len(log'), AskedOf(asked')
  PROVE  IInv'
<1>1. /\ broker = [c \in Brokers |-> broker[c]]
      /\ \A c \in Brokers : HeldBy(log, broker[c])
  BY DEF IInv
<1>2. /\ broker' = [c \in Brokers |-> broker'[c]] /\ broker'[b] = x
      /\ \A c \in Brokers : c # b => broker'[c] = broker[c]
  BY <1>1
<1>3. \A c \in Brokers : HeldBy(log', broker'[c]) BY <1>1, <1>2
<1>4. IInv' = (/\ SoundLog(log') /\ saved' \in 0..Len(log')
               /\ broker' = [c \in Brokers |-> broker'[c]]
               /\ \A c \in Brokers : HeldBy(log', broker'[c])
               /\ AskedOf(asked'))
  BY DEF IInv, SoundLog, HeldBy, AskedOf, IsRecovery, Recovered
<1> QED BY <1>2, <1>3, <1>4

\* An operation of an idle broker that stages what its kernel came to.
LEMMA StageStep ==
  ASSUME IInv, NEW b \in Brokers, At(b, "idle"), NEW r, NEW at \in Nat, NEW O, NEW C,
         NEW I \in SUBSET Instruments, Outcome(State(b), r, at, O, C, I),
         Stage(b, r, Capture(State(b), O, C, I), at), UNCHANGED <<log, saved>>,
         AskedOf(asked')
  PROVE  IInv'
<1> DEFINE s == State(b)
           j == Capture(s, O, C, I)
           x == Stages(r, j, at)
<1>1. SoundLog(log) /\ HeldBy(log, broker[b]) /\ broker[b].pc = "idle" /\ s = broker[b].s
      /\ saved \in 0..Len(log)
  BY DEF IInv, At, State
<1>2. Good(s) /\ Fits(s) /\ Solvent(s) /\ s.ops \in 0..Len(log) /\ s = Recovered(log, s.ops).s
  BY <1>1, IdleHolds
<1>3. broker' = [broker EXCEPT ![b] = x] BY DEF Stage, Stages
<1> HIDE DEF s
<1>4. OnTop(s, x) BY <1>2, StagesOnTop DEF s
<1>5. x.journal.ops = s.ops BY <1>4 DEF OnTop
<1> HIDE DEF x
<1>6. HeldBy(log, x) BY <1>2, <1>4, <1>5 DEF HeldBy
<1>7. log' = log /\ saved' = saved OBVIOUS
<1> QED BY <1>1, <1>3, <1>6, <1>7, OneObject

------------------------------
(* The steps *)

\* An intent offered again, or for the first time.
LEMMA SubmitStep ==
  ASSUME IInv, NEW b \in Brokers, Submit(b)
  PROVE  IInv'
<1> DEFINE s == State(b)
<1>1. At(b, "idle") /\ UNCHANGED <<log, saved>> /\ AskedOf(asked') BY DEF Submit, Begins, IInv
<1>2. Good(s) BY <1>1, IdleHolds DEF IInv, At, State
<1>3. PICK offer \in Offers :
        LET o == offer.order
            i == offer.intent.instrument
        IN IF o \in s.clients
           THEN Stage(b, IdempotencyKernel(s, o, offer.intent),
                      Capture(s, {o}, {o}, {s.orders[o].intent.instrument}), s.latest)
           ELSE \E seen \in IF s.seen[i] = Unseen THEN FirstSeen ELSE {s.seen[i]} :
                   Stage(b, SubmitKernel(s, o, offer.intent, seen),
                         Capture(s, {o}, {o}, {i}), seen.at)
  BY DEF Submit
<1> DEFINE o == offer.order
           in == offer.intent
           i == in.instrument
<1>4. o \in Orders /\ in \in Intents /\ i \in Instruments
  <2>1. offer \in [order : Orders, intent : IntentType] BY OffersAssumption
  <2>2. o \in Orders /\ in \in Intents BY <2>1 DEF Intents
  <2> HIDE DEF in
  <2> QED BY <2>2, IntentParts
<1>5. /\ Typed(s) /\ s.latest \in Nat /\ s.seen \in [Instruments -> SeenType]
      /\ s.clients = DOMAIN s.orders /\ s.orders \in [DOMAIN s.orders -> OrderRecord]
  BY <1>2, TypedParts, TimesAreInstants DEF Good, Indexed
<1>6. CASE o \in s.clients
  <2> DEFINE k == s.orders[o].intent.instrument
             r == IdempotencyKernel(s, o, in)
  <2>1. Stage(b, r, Capture(s, {o}, {o}, {k}), s.latest) BY <1>3, <1>6
  <2>2. {k} \in SUBSET Instruments
    <3>1. s.orders[o] \in OrderRecord BY <1>5, <1>6
    <3>2. s.orders[o].intent \in Intents BY <3>1, RecordParts
    <3> QED BY <3>2, IntentParts
  <2> HIDE DEF o, in, k, s
  <2>3. Outcome(s, r, s.latest, {o}, {o}, {k}) BY <1>2, <1>4, IdempotencyOutcome
  <2> HIDE DEF r
  <2> QED BY <1>1, <1>5, <2>1, <2>2, <2>3, StageStep DEF s
<1>7. CASE o \notin s.clients
  <2>1. PICK seen \in IF s.seen[i] = Unseen THEN FirstSeen ELSE {s.seen[i]} :
           Stage(b, SubmitKernel(s, o, in, seen), Capture(s, {o}, {o}, {i}), seen.at)
    BY <1>3, <1>7
  <2>2. seen \in SeenType /\ seen.at \in Times
    <3>1. CASE s.seen[i] = Unseen
      <4>1. PICK t \in Times, bar \in Bars : seen = [at |-> t, close |-> bar.close, bars |-> 1]
        BY <2>1, <3>1 DEF FirstSeen
      <4>2. bar.close \in Nat /\ t \in Nat BY BarsAssumption, TimesAreInstants DEF BarType
      <4> QED BY <4>1, <4>2 DEF SeenType
    <3>2. CASE s.seen[i] # Unseen
      <4>1. seen = s.seen[i] /\ Dated(s.seen[i]) BY <1>2, <1>4, <2>1, <3>2 DEF Good, Current
      <4> HIDE DEF i
      <4> QED BY <1>4, <1>5, <3>2, <4>1 DEF Dated
    <3> QED BY <3>1, <3>2
  <2> DEFINE r == SubmitKernel(s, o, in, seen)
             at == seen.at
  <2>3. Stage(b, r, Capture(s, {o}, {o}, {i}), at) /\ at \in Nat /\ {i} \in SUBSET Instruments
    BY <1>4, <2>1, <2>2, TimesAreInstants
  <2>4. Outcome(s, r, at, {o}, {o}, {i})
    <3> HIDE DEF o, in, s
    <3> QED BY <1>2, <1>4, <2>2, SubmitOutcome
  <2> HIDE DEF o, in, i, r, at, s
  <2> QED BY <1>1, <2>3, <2>4, StageStep DEF s
<1> QED BY <1>6, <1>7

\* cancel, reject, expire, mark_unknown, and the second half of reconcile_unknown.
LEMMA ResolveStep ==
  ASSUME IInv, NEW b \in Brokers, At(b, "idle"), NEW o \in Orders, NEW to,
         NEW at \in Times, NEW rejects \in BOOLEAN, Resolve(b, o, to, at, rejects),
         UNCHANGED <<log, saved>>, AskedOf(asked')
  PROVE  IInv'
<1> DEFINE s == State(b)
           I == {s.orders[k].intent.instrument : k \in {o} \cap DOMAIN s.orders}
           r == ResolutionKernel(s, o, to, at, rejects)
<1>1. Good(s) BY IdleHolds DEF IInv, At, State
<1>2. Stage(b, r, Capture(s, {o}, {}, I), at) BY DEF Resolve
<1>3. I \in SUBSET Instruments
  <2>1. s.orders \in [DOMAIN s.orders -> OrderRecord] BY <1>1, TypedParts DEF Good
  <2>2. ASSUME NEW k \in DOMAIN s.orders PROVE s.orders[k].intent.instrument \in Instruments
    <3>1. s.orders[k] \in OrderRecord BY <2>1
    <3>2. s.orders[k].intent \in Intents BY <3>1, RecordParts
    <3> QED BY <3>2, IntentParts
  <2> QED BY <2>2
<1>4. \A k \in {o} \cap DOMAIN s.orders : s.orders[k].intent.instrument \in I OBVIOUS
<1> HIDE DEF I, s
<1>5. Outcome(s, r, at, {o}, {}, I) BY <1>1, <1>4, ResolutionOutcome
<1> HIDE DEF r
<1>6. at \in Nat BY TimesAreInstants
<1> QED BY <1>2, <1>3, <1>5, <1>6, StageStep DEF s

\* A cancellation or a rejection.
LEMMA SettleStep ==
  ASSUME IInv, NEW b \in Brokers, Settle(b)
  PROVE  IInv'
<1>1. At(b, "idle") /\ UNCHANGED <<log, saved>> /\ AskedOf(asked') BY DEF Settle, Begins, IInv
<1>2. PICK o \in Orders, to \in Settlements, at \in Times :
         Resolve(b, o, to, at, to = "rejected")
  BY DEF Settle
<1>3. (to = "rejected") \in BOOLEAN OBVIOUS
<1> QED BY <1>1, <1>2, <1>3, ResolveStep

\* A step of the first or the second half of reconcile_unknown.
LEMMA AskStep ==
  ASSUME IInv, NEW b \in Brokers, AskUnknown(b)
  PROVE  IInv'
<1>1. UNCHANGED <<log, saved, broker>> /\ At(b, "idle") BY DEF AskUnknown
<1>2. PICK o \in DOMAIN State(b).orders, to \in Answers :
         asked' = asked \cup {[broker |-> b, order |-> o, to |-> to]}
  BY DEF AskUnknown
<1>3. o \in Orders
  <2>1. Good(State(b)) BY <1>1, IdleHolds DEF IInv, At, State
  <2> QED BY <1>2, <2>1, TypedParts DEF Good
<1>4. AskedOf(asked') BY <1>2, <1>3 DEF IInv, AskedOf
<1> QED BY <1>1, <1>4 DEF IInv, SoundLog, HeldBy, IsRecovery, Recovered, AskedOf

\* The resolution of an order of unknown outcome without a fill.
LEMMA ResolveUnknownStep ==
  ASSUME IInv, NEW b \in Brokers, ResolveUnknown(b)
  PROVE  IInv'
<1>1. At(b, "idle") /\ UNCHANGED <<log, saved>> BY DEF ResolveUnknown, Begins
<1>2. PICK q \in asked, at \in Times :
         /\ q.broker = b /\ asked' = asked \ {q}
         /\ IF ResolutionKernel(State(b), q.order, q.to, at, FALSE).ok
            THEN Resolve(b, q.order, q.to, at, FALSE)
            ELSE UNCHANGED broker
  BY DEF ResolveUnknown
<1>3. q.order \in Orders /\ AskedOf(asked') BY <1>2 DEF IInv, AskedOf
<1>4. CASE Resolve(b, q.order, q.to, at, FALSE) BY <1>1, <1>3, <1>4, ResolveStep
<1>5. CASE UNCHANGED broker
  BY <1>1, <1>3, <1>5 DEF IInv, SoundLog, HeldBy, IsRecovery, Recovered, AskedOf
<1> QED BY <1>2, <1>4, <1>5

\* Evidence of a fill.
LEMMA ReconcileStep ==
  ASSUME IInv, NEW b \in Brokers, ReconcileFills(b)
  PROVE  IInv'
<1> DEFINE s == State(b)
<1>1. At(b, "idle") /\ UNCHANGED <<log, saved>> /\ AskedOf(asked')
  BY DEF ReconcileFills, Begins, IInv
<1>2. Good(s) BY <1>1, IdleHolds DEF IInv, At, State
<1>3. PICK x \in Evidence, at \in Times :
        /\ x.order \in DOMAIN s.orders
        /\ \E made \in 1..at :
              Stage(b, EvidenceKernel(s, [order |-> x.order, status |-> x.status,
                          at |-> at, fills |-> <<[x.fill EXCEPT !.at = made]>>,
                          filled |-> s.orders[x.order].filled + x.fill.quantity]),
                    Capture(s, {x.order}, {}, {s.orders[x.order].intent.instrument}), at)
  BY DEF ReconcileFills
<1> DEFINE o == x.order
           i == s.orders[o].intent.instrument
<1>4. PICK made \in 1..at :
         Stage(b, EvidenceKernel(s, [order |-> o, status |-> x.status,
                     at |-> at, fills |-> <<[x.fill EXCEPT !.at = made]>>,
                     filled |-> s.orders[o].filled + x.fill.quantity]),
               Capture(s, {o}, {}, {i}), at)
  BY <1>3
<1> DEFINE f == [x.fill EXCEPT !.at = made]
           filled == s.orders[o].filled + f.quantity
           e == [order |-> o, status |-> x.status, at |-> at, fills |-> <<f>>, filled |-> filled]
           r == EvidenceKernel(s, e)
<1>5. f \in External /\ f.quantity = x.fill.quantity
  <2>1. x.fill \in [id : Nat \ {0}, quantity : Nat, price : Nat, fee : Nat, at : {0}]
    BY EvidenceAssumption
  <2>2. made \in Times BY BoundsAssumption DEF Times
  <2> DEFINE y == x.fill
  <2> HIDE DEF y
  <2>3. /\ [y EXCEPT !.at = made].quantity = y.quantity
        /\ [y EXCEPT !.at = made] \in External
    BY <2>1, <2>2 DEF External, y
  <2> QED BY <2>3 DEF y
<1>6. Stage(b, r, Capture(s, {o}, {}, {i}), at) BY <1>4, <1>5
<1>7. {i} \in SUBSET Instruments /\ at \in Nat
  <2>1. s.orders \in [DOMAIN s.orders -> OrderRecord] BY <1>2, TypedParts DEF Good
  <2>2. s.orders[o] \in OrderRecord BY <1>3, <2>1
  <2>3. s.orders[o].intent \in Intents BY <2>2, RecordParts
  <2> QED BY <2>3, IntentParts, TimesAreInstants
<1>8. /\ e.fills = <<f>> /\ e.order = o /\ e.at = at /\ e.status = x.status
      /\ e.filled = s.orders[o].filled + f.quantity
  OBVIOUS
<1>9. o \in {o} /\ o \in DOMAIN s.orders /\ i \in {i} BY <1>3
<1> HIDE DEF e, s, o, i, filled
<1>10. Outcome(s, r, at, {o}, {}, {i})
  <2>1. s.orders[o].intent.instrument \in {i} BY <1>9 DEF i
  <2> HIDE DEF f
  <2> QED BY <1>2, <1>5, <1>8, <1>9, <2>1, EvidenceOutcome
<1> HIDE DEF r
<1> QED BY <1>1, <1>6, <1>7, <1>10, StageStep DEF s

\* A cohort gives an input to each instrument that may matter, in order.
LEMMA InputsOf ==
  ASSUME NEW s, Good(s), NEW at \in Times, NEW cohort \in [Relevant(s) -> Bars \cup {NoBar}],
         NEW inputs, inputs = CohortInputs(cohort), inputs # <<>>,
         ~ Regresses(s, at), ~ CohortRefused(s, inputs, at)
  PROVE  /\ IsCohort(s, inputs, at) /\ ById(inputs) /\ Named(inputs) = Relevant(s)
         /\ Relevant(s) \in SUBSET Instruments
<1> DEFINE D == Relevant(s)
           ids == InOrder(D)
           N == Cardinality(D)
<1>1. D \subseteq Instruments /\ IsFiniteSet(D) /\ D \subseteq Nat
  <2>1. D \subseteq Instruments BY DEF Relevant, Positions
  <2> HIDE DEF D
  <2> QED BY <2>1, LedgerAssumption, IdsAssumption, FS_Subset
<1>2. DOMAIN cohort = D /\ \A i \in D : cohort[i] \in Bars \cup {NoBar} OBVIOUS
<1> HIDE DEF D
<1>3. /\ ids \in Seq(D) /\ N \in Nat /\ DOMAIN ids = 1..N /\ Len(ids) = N
      /\ \A m, n \in 1..N : m < n => ids[m] < ids[n]
      /\ \A i \in D : \E n \in 1..N : ids[n] = i
  BY <1>1, InOrderLists, FS_CardinalityType
<1>4. \A n \in 1..N : ids[n] \in D BY <1>3
<1> HIDE DEF ids, N
<1> DEFINE In(n) == [instrument |-> ids[n], duplicate |-> cohort[ids[n]] = NoBar,
                     bar |-> cohort[ids[n]]]
<1>5. inputs = [n \in 1..N |-> In(n)]
  <2>1. ASSUME NEW q, q = InOrder(DOMAIN cohort)
        PROVE  inputs = [n \in DOMAIN q |-> [instrument |-> q[n],
                            duplicate |-> cohort[q[n]] = NoBar, bar |-> cohort[q[n]]]]
    BY <2>1 DEF CohortInputs
  <2>2. ids = InOrder(DOMAIN cohort) BY <1>2 DEF ids
  <2> QED BY <1>3, <2>1, <2>2
<1>7. ASSUME NEW n \in 1..N
      PROVE  /\ IsInput(In(n)) /\ In(n) \in InputType /\ In(n).instrument = ids[n]
  <2> DEFINE i == ids[n]
             dup == (cohort[i] = NoBar)
             bar == cohort[i]
  <2>1. i \in Instruments /\ bar \in Bars \cup {NoBar} /\ dup \in BOOLEAN BY <1>1, <1>2, <1>4
  <2>2. IF dup THEN bar = NoBar ELSE bar \in BarType BY <2>1, BarsAssumption
  <2>3. In(n) = [instrument |-> i, duplicate |-> dup, bar |-> bar] OBVIOUS
  <2> HIDE DEF i, dup, bar, In
  <2>4. In(n).instrument = i /\ In(n).duplicate = dup /\ In(n).bar = bar BY <2>3
  <2>5. bar \in BarType \cup {NoBar} BY <2>2
  <2>6. In(n) \in InputType BY <2>1, <2>3, <2>5 DEF InputType
  <2>7. IsInput(In(n)) BY <2>1, <2>2, <2>3, <2>4 DEF IsInput
  <2> QED BY <2>4, <2>6, <2>7 DEF i
<1> HIDE DEF In
<1>8. inputs \in Seq(InputType) /\ DOMAIN inputs = 1..N /\ \A n \in 1..N : inputs[n] = In(n)
  <2>1. \A n \in 1..N : In(n) \in InputType BY <1>7
  <2>2. [n \in 1..N |-> In(n)] \in Seq(InputType) BY <1>3, <2>1, IsASeq
  <2> QED BY <1>5, <2>2
<1>9. \A n \in 1..N : IsInput(inputs[n]) /\ inputs[n].instrument = ids[n] BY <1>7, <1>8
<1>10. Named(inputs) = D BY <1>3, <1>4, <1>8, <1>9 DEF Named
<1>11. Distinct(inputs)
  <2>1. ASSUME NEW m \in 1..N, NEW n \in 1..N, m # n PROVE ids[m] # ids[n]
    <3>1. m < n \/ n < m BY <1>3, <2>1
    <3>2. ids[m] \in Nat /\ ids[n] \in Nat BY <1>1, <1>4
    <3> QED BY <1>3, <3>1, <3>2
  <2> QED BY <1>8, <1>9, <2>1 DEF Distinct
<1>12. s.latest <= at BY TypedParts, TimesAreInstants DEF Regresses, Good
<1>13. \A n \in DOMAIN inputs :
          LET last == s.seen[inputs[n].instrument].at
          IN IF inputs[n].duplicate THEN last = at ELSE last < at
  <2> SUFFICES ASSUME NEW n \in DOMAIN inputs
               PROVE  IF inputs[n].duplicate THEN s.seen[inputs[n].instrument].at = at
                                             ELSE s.seen[inputs[n].instrument].at < at
    OBVIOUS
  <2>1. ~ InputRefused(s, inputs[n], at) BY DEF CohortRefused
  <2>2. s.seen[inputs[n].instrument].at \in Nat /\ at \in Nat
    <3>1. s.seen \in [Instruments -> SeenType] /\ inputs[n].instrument \in Instruments
      BY <1>8, <1>9, TypedParts DEF Good, IsInput
    <3> QED BY <3>1, TimesAreInstants DEF SeenType
  <2> QED BY <2>1, <2>2 DEF InputRefused
<1>14. ById(inputs) BY <1>3, <1>8, <1>9, <1>10 DEF ById, ids
<1> QED BY <1>1, <1>8, <1>9, <1>10, <1>11, <1>12, <1>13, <1>14 DEF IsCohort, D

\* A market event.
LEMMA MarketStep ==
  ASSUME IInv, NEW b \in Brokers, MarketEvent(b)
  PROVE  IInv'
<1> DEFINE s == State(b)
<1>1. At(b, "idle") /\ UNCHANGED <<log, saved>> /\ AskedOf(asked') BY DEF MarketEvent, Begins, IInv
<1>2. Good(s) BY <1>1, IdleHolds DEF IInv, At, State
<1>3. PICK at \in Times, cohort \in [Relevant(s) -> Bars \cup {NoBar}] :
        LET inputs == CohortInputs(cohort)
        IN /\ inputs # <<>> /\ ~ Regresses(s, at) /\ ~ CohortRefused(s, inputs, at)
           /\ Stage(b, MarketKernel(s, inputs, at),
                    Capture(s, UNION {s.active[i] : i \in DOMAIN cohort}, {}, DOMAIN cohort), at)
  BY DEF MarketEvent, CohortInputs
<1> DEFINE inputs == CohortInputs(cohort)
           D == Relevant(s)
           O == UNION {s.active[i] : i \in D}
           r == MarketKernel(s, inputs, at)
<1>4. DOMAIN cohort = D OBVIOUS
<1>5. /\ inputs # <<>> /\ ~ Regresses(s, at) /\ ~ CohortRefused(s, inputs, at)
      /\ Stage(b, r, Capture(s, O, {}, D), at)
  BY <1>3, <1>4
<1>6. \A i \in D : s.active[i] \subseteq O OBVIOUS
<1>7. /\ IsCohort(s, inputs, at) /\ ById(inputs) /\ Named(inputs) = D
      /\ D \in SUBSET Instruments
  <2> DEFINE q == CohortInputs(cohort)
  <2> HIDE DEF s
  <2> QED BY <1>2, <1>5, InputsOf
<1> HIDE DEF inputs, O, s
<1>8. Outcome(s, r, at, O, {}, D)
  <2>1. Named(inputs) \subseteq D /\ \A i \in Named(inputs) : s.active[i] \subseteq O BY <1>6, <1>7
  <2> HIDE DEF D
  <2> QED BY <1>2, <1>5, <1>7, <2>1, MarketOutcome
<1> HIDE DEF r, D
<1>9. at \in Nat BY TimesAreInstants
<1> QED BY <1>1, <1>5, <1>7, <1>8, <1>9, StageStep DEF s

\* A staged operation whose ids are free is on top of all of the log.
LEMMA AtTheEnd ==
  ASSUME IInv, NEW b \in Brokers, At(b, "staged"), IdsFree(b)
  PROVE  LET k == Append(log, Group(b))
         IN /\ SoundLog(k) /\ Len(k) = Len(log) + 1 /\ Len(log) \in Nat
            /\ \A n \in 0..Len(log) : Recovered(k, n) = Recovered(log, n)
            /\ State(b).ops = Len(log) + 1 /\ Recovered(k, Len(log) + 1).s = State(b)
            /\ RolledBack(State(b), broker[b].journal) = Recovered(log, Len(log)).s
<1> DEFINE x == broker[b]
           g == Group(b)
           k == Append(log, g)
<1>1. SoundLog(log) /\ HeldBy(log, x) /\ x.pc = "staged" /\ x.s = State(b) BY DEF IInv, At, State
<1>2. x.journal.ops = Len(log) BY DEF IdsFree
<1>3. g = [rows |-> x.rows, checkpoint |-> Checkpoint(x.s, OperationKind(x.rows), x.at)]
  BY <1>1 DEF Group
<1> HIDE DEF g, x
<1>4. OnTop(Recovered(log, Len(log)).s, x) BY <1>1, <1>2, BusyHolds
<1>5. /\ SoundLog(k) /\ Len(k) = Len(log) + 1
      /\ \A n \in 0..Len(log) : Recovered(k, n) = Recovered(log, n)
      /\ Recovered(k, Len(log) + 1).s = x.s /\ x.s.ops = Len(log) + 1
  BY <1>1, <1>3, <1>4, CommitSound
<1>6. RolledBack(x.s, x.journal) = Recovered(log, Len(log)).s BY <1>4 DEF OnTop
<1>7. Len(log) \in Nat BY <1>1 DEF SoundLog
<1> HIDE DEF k
<1> QED BY <1>1, <1>5, <1>6, <1>7 DEF k, g, x

\* What an object holds, it holds of a longer log.
LEMMA StillHeld ==
  ASSUME NEW l, NEW k, Len(l) \in Nat, Len(k) = Len(l) + 1,
         \A n \in 0..Len(l) : Recovered(k, n) = Recovered(l, n)
  PROVE  \A y : HeldBy(l, y) => HeldBy(k, y)
<1>1. 0..Len(l) \subseteq 0..Len(k) OBVIOUS
<1> QED BY <1>1 DEF HeldBy

\* The append of the staged rows.
LEMMA CommitStep ==
  ASSUME IInv, NEW b \in Brokers, Commit(b)
  PROVE  IInv'
<1> DEFINE k == Append(log, Group(b))
           s == State(b)
<1>1. /\ At(b, "staged") /\ IdsFree(b) /\ log' = k /\ saved' = saved /\ asked' = asked
      /\ broker' = [broker EXCEPT ![b] = Idle(s)]
  BY DEF Commit, State
<1>2. /\ SoundLog(k) /\ Len(k) = Len(log) + 1 /\ Len(log) \in Nat
      /\ \A n \in 0..Len(log) : Recovered(k, n) = Recovered(log, n)
      /\ s.ops = Len(log) + 1 /\ Recovered(k, Len(log) + 1).s = s
  BY <1>1, AtTheEnd
<1> HIDE DEF k, s
<1>3. \A y : HeldBy(log, y) => HeldBy(k, y) BY <1>2, StillHeld
<1>4. HeldBy(k, Idle(s))
  <2>1. Len(log) + 1 \in 0..Len(k) BY <1>2
  <2> QED BY <1>2, <2>1, BackHeld
<1>5. saved' \in 0..Len(log') /\ AskedOf(asked') BY <1>1, <1>2 DEF IInv
<1> QED BY <1>1, <1>2, <1>3, <1>4, <1>5, OneObject

\* An append that is stored and whose answer is lost.
LEMMA CommitLostStep ==
  ASSUME IInv, NEW b \in Brokers, CommitLost(b)
  PROVE  IInv'
<1> DEFINE k == Append(log, Group(b))
           s == RolledBack(State(b), broker[b].journal)
<1>1. /\ At(b, "staged") /\ IdsFree(b) /\ log' = k /\ saved' = saved /\ asked' = asked
      /\ broker' = [broker EXCEPT ![b] = Idle(s)]
  BY DEF CommitLost, Undone, State
<1>2. /\ SoundLog(k) /\ Len(k) = Len(log) + 1 /\ Len(log) \in Nat
      /\ \A n \in 0..Len(log) : Recovered(k, n) = Recovered(log, n)
      /\ s = Recovered(log, Len(log)).s
  BY <1>1, AtTheEnd
<1> HIDE DEF k, s
<1>3. \A y : HeldBy(log, y) => HeldBy(k, y) BY <1>2, StillHeld
<1>4. HeldBy(k, Idle(s))
  <2>1. Len(log) \in 0..Len(k) /\ s = Recovered(k, Len(log)).s BY <1>2
  <2> QED BY <1>2, <2>1, BackHeld
<1>5. saved' \in 0..Len(log') /\ AskedOf(asked') BY <1>1, <1>2 DEF IInv
<1> QED BY <1>1, <1>2, <1>3, <1>4, <1>5, OneObject

\* An append that is refused, and the roll back.
LEMMA AbortStep ==
  ASSUME IInv, NEW b \in Brokers, Abort(b)
  PROVE  IInv'
<1> DEFINE s == RolledBack(State(b), broker[b].journal)
           x == broker[b]
<1>1. /\ x.pc \in {"staged", "raised"} /\ log' = log /\ saved' = saved /\ asked' = asked
      /\ broker' = [broker EXCEPT ![b] = Idle(s)]
  BY DEF Abort, Undone, State, At
<1>2. SoundLog(log) /\ HeldBy(log, x) BY DEF IInv
<1>3. x.journal.ops \in 0..Len(log) /\ s = Recovered(log, x.journal.ops).s
  <2> HIDE DEF x
  <2>1. x.journal.ops \in 0..Len(log) /\ OnTop(Recovered(log, x.journal.ops).s, x)
    BY <1>1, <1>2, BusyHolds
  <2> QED BY <2>1 DEF OnTop, x, State
<1> HIDE DEF s, x
<1>4. HeldBy(log, Idle(s)) BY <1>2, <1>3, BackHeld
<1>5. saved' \in 0..Len(log') /\ AskedOf(asked') BY <1>1 DEF IInv
<1> QED BY <1>1, <1>2, <1>4, <1>5, OneObject

\* The read of the head.
LEMMA SaveHeadStep ==
  ASSUME IInv, NEW b \in Brokers, SaveHead(b)
  PROVE  IInv'
<1>1. At(b, "idle") /\ saved' = State(b).ops /\ UNCHANGED <<log, broker, asked>> BY DEF SaveHead
<1>2. State(b).ops \in 0..Len(log) BY <1>1, IdleHolds DEF IInv, At, State
<1> QED BY <1>1, <1>2 DEF IInv, SoundLog, HeldBy, IsRecovery, Recovered, AskedOf

\* A crash.
LEMMA CrashStep ==
  ASSUME IInv, NEW b \in Brokers, Crash(b)
  PROVE  IInv'
<1>1. /\ broker' = [broker EXCEPT ![b] = Down] /\ log' = log /\ saved' = saved
      /\ asked' = {q \in asked : q.broker # b}
  BY DEF Crash
<1>2. HeldBy(log, Down) BY DEF HeldBy
<1>3. SoundLog(log) /\ saved' \in 0..Len(log') /\ AskedOf(asked') BY <1>1 DEF IInv, AskedOf
<1> QED BY <1>1, <1>2, <1>3, OneObject

\* A rehydration.
LEMMA RehydrateStep ==
  ASSUME IInv, NEW b \in Brokers, Rehydrate(b)
  PROVE  IInv'
<1> DEFINE s == Replay(log).s
<1>1. /\ broker' = [broker EXCEPT ![b] = Idle(s)] /\ log' = log /\ saved' = saved
      /\ asked' = asked
  BY DEF Rehydrate, Reopen
<1>2. SoundLog(log) /\ saved' \in 0..Len(log') /\ AskedOf(asked') BY <1>1 DEF IInv
<1>3. Len(log) \in 0..Len(log) /\ s = Recovered(log, Len(log)).s
  <2>1. PICK X : log \in Seq(X) BY <1>2 DEF SoundLog
  <2> DEFINE k == Append(log, 0)
             Y == X \cup {0}
  <2> HIDE DEF k, Y
  <2>2. Longer(log, k, Y) BY <2>1, LongerLog DEF k, Y
  <2>3. SubSeq(log, 1, Len(log)) = log /\ Len(log) \in Nat BY <2>2 DEF Longer
  <2>4. Len(log) \in 0..Len(log) BY <2>3
  <2>5. Recovered(log, Len(log)) = Replay(log) BY <2>3 DEF Recovered
  <2> QED BY <2>4, <2>5
<1> HIDE DEF s
<1>4. HeldBy(log, Idle(s)) BY <1>2, <1>3, BackHeld
<1> QED BY <1>1, <1>2, <1>4, OneObject

\* The invariant holds initially, and every step keeps it.
LEMMA InitHolds == Init => IInv
<1> SUFFICES ASSUME Init PROVE IInv OBVIOUS
<1>1. log = <<>> /\ saved = 0 /\ broker = [b \in Brokers |-> Idle(BlankState)] /\ asked = {}
  BY DEF Init
<1>2. SoundLog(log) /\ Len(log) = 0 /\ Recovered(log, 0).s = BlankState BY <1>1, EmptyLog
<1>3. HeldBy(log, Idle(BlankState))
  <2>1. 0 \in 0..Len(log) BY <1>2
  <2> HIDE DEF Init
  <2> QED BY <1>2, <2>1, BackHeld
<1>4. \A b \in Brokers : broker[b] = Idle(BlankState) BY <1>1
<1>5. broker = [b \in Brokers |-> broker[b]] BY <1>1
<1>6. AskedOf(asked) /\ saved \in 0..Len(log) BY <1>1, <1>2 DEF AskedOf
<1> QED BY <1>2, <1>3, <1>4, <1>5, <1>6 DEF IInv

\* Every step keeps the invariant.
LEMMA NextHolds == IInv /\ [Next]_vars => IInv'
<1> SUFFICES ASSUME IInv, [Next]_vars PROVE IInv' OBVIOUS
<1>1. CASE UNCHANGED vars BY <1>1 DEF vars, IInv, SoundLog, HeldBy, IsRecovery, Recovered, AskedOf
<1>2. CASE Next
  <2>1. PICK b \in Brokers :
            \/ Submit(b) \/ MarketEvent(b) \/ Settle(b)
            \/ AskUnknown(b) \/ ResolveUnknown(b) \/ ReconcileFills(b)
            \/ Commit(b) \/ Abort(b) \/ CommitLost(b)
            \/ SaveHead(b) \/ Crash(b) \/ Rehydrate(b)
    BY <1>2 DEF Next
  <2> QED
    BY <2>1, SubmitStep, MarketStep, SettleStep, AskStep, ResolveUnknownStep, ReconcileStep,
       CommitStep, AbortStep, CommitLostStep, SaveHeadStep, CrashStep, RehydrateStep
<1> QED BY <1>1, <1>2

\* What a broker object has in memory is at all times what recovery computes from the
\* rows it has counted, or an operation on top of that which rollback takes back.
THEOREM Invariance == Spec => []IInv
BY InitHolds, NextHolds, PTL DEF Spec

------------------------------
(* What the invariant says *)

\* Whatever a broker object is inside of, its state and those of the callers have the
\* types of _PaperState and of the arguments of reconcile_unknown.
THEOREM TypeCorrect == Spec => []TypeOK
<1>1. IInv => TypeOK
  <2> SUFFICES ASSUME IInv PROVE TypeOK OBVIOUS
  <2>1. SoundLog(log) /\ saved \in 0..Len(log) /\ AskedOf(asked)
        /\ \A b \in Brokers : HeldBy(log, broker[b])
    BY DEF IInv
  <2>2. ASSUME NEW b \in Brokers
        PROVE  broker[b].pc \in {"down", "idle", "staged", "raised"} /\ Typed(State(b))
    BY <2>1, HeldTyped DEF State
  <2> QED BY <2>1, <2>2 DEF TypeOK, AskedOf
<1> QED BY <1>1, Invariance, PTL

\* Recovery from the rows a broker has counted is refused by none of them and gives what
\* the broker has in memory, or what the rollback of its operation would leave there.
THEOREM MemoryIsTheLog == Spec => []MemoryMatchesLog
<1>1. IInv => MemoryMatchesLog
  <2> SUFFICES ASSUME IInv, NEW b \in Brokers, ~ At(b, "down")
               PROVE  LET s == IF At(b, "idle") THEN State(b)
                               ELSE RolledBack(State(b), broker[b].journal)
                          replayed == Replay(SubSeq(log, 1, s.ops))
                      IN replayed.ok /\ replayed.s = s
    BY DEF MemoryMatchesLog
  <2> DEFINE x == broker[b]
             s == IF At(b, "idle") THEN State(b) ELSE RolledBack(State(b), broker[b].journal)
  <2>1. SoundLog(log) /\ HeldBy(log, x) /\ x.pc # "down" BY DEF IInv, At
  <2>2. \E n \in 0..Len(log) : s = Recovered(log, n).s
    <3>1. CASE At(b, "idle")
      <4>1. s = x.s /\ x.pc = "idle" BY <3>1 DEF State, At
      <4> HIDE DEF x, s
      <4> QED BY <2>1, <4>1, IdleHolds
    <3>2. CASE ~ At(b, "idle")
      <4>1. s = RolledBack(x.s, x.journal) /\ x.pc # "idle" BY <3>2 DEF State, At
      <4> HIDE DEF x, s
      <4>2. x.pc \in {"staged", "raised"} BY <2>1, <4>1, HeldTyped
      <4> QED BY <2>1, <4>1, <4>2, BusyHolds DEF OnTop
    <3> QED BY <3>1, <3>2
  <2>3. PICK n \in 0..Len(log) : s = Recovered(log, n).s BY <2>2
  <2> HIDE DEF s, x
  <2>4. IsRecovery(Recovered(log, n), n) BY <2>1 DEF SoundLog
  <2>5. /\ Recovered(log, n) = [ok |-> TRUE, s |-> Recovered(log, n).s, at |-> Recovered(log, n).at]
        /\ s.ops = n
    BY <2>3, <2>4 DEF IsRecovery
  <2>6. Recovered(log, n).ok BY <2>5
  <2>7. Recovered(log, n) = Replay(SubSeq(log, 1, s.ops)) BY <2>5 DEF Recovered
  <2> QED BY <2>3, <2>6, <2>7 DEF s
<1> QED BY <1>1, Invariance, PTL

\* Whatever an operation has got to, rollback finds the fills it takes back in the ledger
\* and no others there (restore_compact_state).
THEOREM RollbackSucceeds == Spec => []RollbackCannotFail
<1>1. IInv => RollbackCannotFail
  <2> SUFFICES ASSUME IInv, NEW b \in Brokers, broker[b].pc \in {"staged", "raised"}
               PROVE  ~ RestoreRefused(State(b).ledger, broker[b].journal.ledger,
                                       AddedFills(State(b), broker[b].journal))
    BY DEF RollbackCannotFail
  <2> DEFINE x == broker[b]
  <2>1. SoundLog(log) /\ HeldBy(log, x) /\ x.s = State(b) BY DEF IInv, State
  <2> HIDE DEF x
  <2>2. OnTop(Recovered(log, x.journal.ops).s, x) BY <2>1, BusyHolds DEF x
  <2> QED BY <2>1, <2>2 DEF OnTop, x
<1> QED BY <1>1, Invariance, PTL

\* The client ids, the orders and both indexes of every instrument agree between
\* operations, however the five kernels, rollback and recovery have maintained them.
THEOREM IndexesAgree == Spec => []IndexesMatch
<1>1. IInv => IndexesMatch
  <2> SUFFICES ASSUME IInv, NEW b \in Brokers, At(b, "idle"), NEW s, s = State(b)
               PROVE  LET With(i, Test(_)) == {o \in DOMAIN s.orders :
                              s.orders[o].intent.instrument = i /\ Test(s.orders[o].status)}
                      IN /\ s.clients = DOMAIN s.orders
                         /\ \A i \in Instruments :
                              /\ s.active[i] = With(i, Logged!Executable)
                              /\ s.unknown[i] = With(i, LAMBDA st : st = "unknown")
                              /\ s.active[i] \cup s.unknown[i] # {} => s.seen[i] # Unseen
    BY DEF IndexesMatch
  <2>1. Indexed(s) BY IdleHolds DEF IInv, At, State, Good
  <2>2. \A st : Logged!Executable(st) <=> Lifecycle!Executable(st) BY SameStatuses
  <2> QED BY <2>1, <2>2 DEF Indexed, On
<1> QED BY <1>1, Invariance, PTL

\* Between operations the rows of the worst next market event fit into one group: no
\* admission, resolution, fill or mark has reserved more than that.
THEOREM NextCohortFits == Spec => []CohortFits
<1>1. IInv => CohortFits
  <2> SUFFICES ASSUME IInv, NEW b \in Brokers, At(b, "idle")
               PROVE  WorstRows(ReservedInstruments(State(b)),
                                Cardinality(Reserved(State(b)))) <= MaxGroup
    BY DEF CohortFits
  <2>1. Fits(State(b)) BY IdleHolds DEF IInv, At, State
  <2> QED BY <2>1 DEF Fits
<1> QED BY <1>1, Invariance, PTL

\* Between operations cash, positions, fill ids and orders are what the fills make of the
\* starting cash, whether a sweep, an authoritative fill, a rollback or a recovery has
\* led there; and cash is not negative unless a sale cost more than it brought.
THEOREM BooksAgree == Spec => []BooksBalance
<1>1. IInv => BooksBalance
  <2> SUFFICES ASSUME IInv, NEW b \in Brokers, At(b, "idle"), NEW s, s = State(b)
               PROVE  LET Sum(Of(_), Test(_)) == Total(s.fills, Of, Test)
                          Cost(f) == Money(f) * Scale + f.fee
                          Proceeds(f) == Money(f) * Scale - f.fee
                          Buys(f) == f.side = "buy"
                          Sells(f) == f.side = "sell"
                          Worthy(f) == Sells(f) => f.fee <= Money(f) * Scale
                      IN /\ (\A n \in DOMAIN s.fills : Worthy(s.fills[n])) => s.ledger.cash >= 0
                         /\ s.ledger.cash + Sum(Cost, Buys)
                               = StartingCash * Scale + Sum(Proceeds, Sells)
                         /\ \A i \in Instruments :
                               s.ledger.held[i]
                                  + Sum(Quantity, LAMBDA f : Sells(f) /\ f.instrument = i)
                                  = Sum(Quantity, LAMBDA f : Buys(f) /\ f.instrument = i)
                         /\ s.ledger.fills = {s.fills[n].id : n \in DOMAIN s.fills}
                         /\ Cardinality(s.ledger.fills) = Len(s.fills)
                         /\ \A o \in DOMAIN s.orders :
                               /\ s.orders[o].filled = Sum(Quantity, LAMBDA f : f.order = o)
                               /\ s.orders[o].spent = Sum(Money, LAMBDA f : f.order = o)
                         /\ Restorable(s.ledger)
    BY DEF BooksBalance
  <2>1. Solvent(s) /\ Typed(s) BY IdleHolds DEF IInv, At, State, Good
  <2>2. s.fills \in Seq(FillType) /\ DOMAIN s.orders \subseteq Orders BY <2>1, TypedParts
  <2>3. \A n \in DOMAIN s.fills : s.fills[n] \in FillType BY <2>2
  <2> DEFINE fill(n) == s.fills[n]
             D == DOMAIN s.fills
  <2>4. /\ Summed(s.fills, Spending) =
              Added([n \in D |-> IF fill(n).side = "buy"
                                 THEN Money(fill(n)) * Scale + fill(n).fee ELSE 0])
        /\ Summed(s.fills, Earning) =
              Added([n \in D |-> IF fill(n).side = "sell"
                                 THEN Money(fill(n)) * Scale - fill(n).fee ELSE 0])
    BY <2>3 DEF Summed, Spending, Earning
  <2>5. \A i : /\ Summed(s.fills, Incoming(i)) =
                      Added([n \in D |-> IF fill(n).side = "buy" /\ fill(n).instrument = i
                                         THEN fill(n).quantity ELSE 0])
               /\ Summed(s.fills, Outgoing(i)) =
                      Added([n \in D |-> IF fill(n).side = "sell" /\ fill(n).instrument = i
                                         THEN fill(n).quantity ELSE 0])
    BY <2>3 DEF Summed, Incoming, Outgoing
  <2>6. \A o : /\ Summed(s.fills, Filling(o)) =
                      Added([n \in D |-> IF fill(n).order = o THEN fill(n).quantity ELSE 0])
               /\ Summed(s.fills, Paying(o)) =
                      Added([n \in D |-> IF fill(n).order = o THEN Money(fill(n)) ELSE 0])
    BY <2>3 DEF Summed, Filling, Paying
  <2>7. /\ Balanced(s.fills, s.ledger) /\ Accounted(s.orders, s.fills) BY <2>1 DEF Solvent
  <2>8. /\ (\A n \in DOMAIN s.fills : Worthwhile(s.fills[n])) => s.ledger.cash >= 0
        /\ s.ledger.cash + Summed(s.fills, Spending) =
              StartingCash * Scale + Summed(s.fills, Earning)
        /\ \A i \in Instruments :
              s.ledger.held[i] + Summed(s.fills, Outgoing(i)) = Summed(s.fills, Incoming(i))
        /\ s.ledger.fills = {s.fills[n].id : n \in DOMAIN s.fills}
        /\ Cardinality(s.ledger.fills) = Len(s.fills)
        /\ Restorable(s.ledger)
    BY <2>7 DEF Balanced
  <2>9. \A o \in DOMAIN s.orders : /\ s.orders[o].filled = Summed(s.fills, Filling(o))
                                   /\ s.orders[o].spent = Summed(s.fills, Paying(o))
    BY <2>2, <2>7 DEF Accounted
  <2>10. (\A n \in DOMAIN s.fills :
            s.fills[n].side = "sell" => s.fills[n].fee <= Money(s.fills[n]) * Scale)
         => s.ledger.cash >= 0
    BY <2>8 DEF Worthwhile
  <2> QED BY ONLY <2>4, <2>5, <2>6, <2>8, <2>9, <2>10 DEF Total, Quantity
<1> QED BY <1>1, Invariance, PTL

\* The orders of an instrument together take no more than the permitted part of the volume
\* of the bar they were swept with, in every group that was ever committed.
THEOREM BudgetIsShared == Spec => []LiquidityShared
<1>1. IInv => LiquidityShared
  <2> SUFFICES ASSUME IInv, NEW g \in DOMAIN log, NEW rows, rows = log[g].rows,
                      NEW n \in DOMAIN rows, rows[n].kind = "observed"
               PROVE  LET Filled(i) == Total(rows, LAMBDA x : x.fill.quantity,
                               LAMBDA x : x.kind = "fill" /\ x.fill.instrument = i)
                      IN Filled(rows[n].instrument) * Scale <= rows[n].bar.volume * Participation
    BY DEF LiquidityShared
  <2>1. rows \in Seq(RowType) /\ Shares(rows)
    <3>1. SoundLog(log) BY DEF IInv
    <3>2. g \in 1..Len(log) BY <3>1 DEF SoundLog
    <3> QED BY <3>1, <3>2 DEF SoundLog, Explains
  <2>2. \A m \in DOMAIN rows : rows[m] \in RowType BY <2>1
  <2> DEFINE i == rows[n].instrument
  <2> HIDE DEF RowType
  <2>3. Taken(rows, i) = Added([m \in DOMAIN rows |->
                  IF rows[m].kind = "fill" /\ rows[m].fill.instrument = i
                  THEN rows[m].fill.quantity ELSE 0])
    BY <2>2 DEF Taken, Taking
  <2>4. Taken(rows, i) * Scale <= rows[n].bar.volume * Participation BY <2>1 DEF Shares
  <2> QED BY <2>3, <2>4 DEF Total
<1> QED BY <1>1, Invariance, PTL

------------------------------
(* The log tells the life of every order *)

\* The rows of the next group go on with what the log tells.
LEMMA TellsNext ==
  ASSUME NEW l, NEW n \in Nat, NEW o, NEW from, NEW to,
         LastTold(l, n, o, from), Story(l[n + 1].rows, o, from, to)
  PROVE  LastTold(l, n + 1, o, to)
<1> DEFINE rows == l[n + 1].rows
<1>1. CASE (\A m \in 1..Len(rows) : ~ IsMove(rows[m], o)) /\ to = from
  <2>1. \A g \in Nat : NoMoves(l, o, g, n) => NoMoves(l, o, g, n + 1)
    <3> SUFFICES ASSUME NEW g \in Nat, NoMoves(l, o, g, n), NEW h \in g..(n + 1)
                 PROVE  \A m \in 1..Len(l[h].rows) : ~ IsMove(l[h].rows[m], o)
      BY DEF NoMoves
    <3>1. h \in g..n \/ h = n + 1 OBVIOUS
    <3> QED BY <1>1, <3>1 DEF NoMoves
  <2>2. CASE NoMoves(l, o, 1, n) /\ from = Absent
    <3>1. 1 \in Nat OBVIOUS
    <3> QED BY <1>1, <2>1, <2>2, <3>1 DEF LastTold
  <2>3. CASE ~ (NoMoves(l, o, 1, n) /\ from = Absent)
    <3>1. PICK g \in 1..n : \E m \in 1..Len(l[g].rows) :
                  /\ IsMove(l[g].rows[m], o) /\ l[g].rows[m].to = from
                  /\ \A k \in (m + 1)..Len(l[g].rows) : ~ IsMove(l[g].rows[k], o)
                  /\ NoMoves(l, o, g + 1, n)
      BY <2>3 DEF LastTold
    <3>2. g \in 1..(n + 1) /\ g + 1 \in Nat OBVIOUS
    <3>3. NoMoves(l, o, g + 1, n) => NoMoves(l, o, g + 1, n + 1) BY <2>1, <3>2
    <3> QED BY <1>1, <3>1, <3>2, <3>3 DEF LastTold
  <2> QED BY <2>2, <2>3
<1>2. ASSUME NEW m \in 1..Len(rows), IsMove(rows[m], o), rows[m].to = to,
             \A k \in (m + 1)..Len(rows) : ~ IsMove(rows[k], o)
      PROVE  LastTold(l, n + 1, o, to)
  <2>1. n + 1 \in 1..(n + 1) /\ (n + 1) + 1..n + 1 = {} OBVIOUS
  <2>2. NoMoves(l, o, (n + 1) + 1, n + 1) BY <2>1 DEF NoMoves
  <2> QED BY <1>2, <2>1, <2>2 DEF LastTold
<1> QED BY <1>1, <1>2 DEF Story

\* At every prefix, the last transition row of an order tells its recovered status.
LEMMA LogTells ==
  ASSUME NEW l, SoundLog(l), Recovered(l, 0).s = BlankState
  PROVE  \A n \in 0..Len(l) : Telling(l, n, Recovered(l, n).s)
<1> DEFINE N == Len(l)
           S == {n \in 0..N : Telling(l, n, Recovered(l, n).s)}
<1>1. N \in Nat BY DEF SoundLog
<1>2. 0 \in S
  <2>1. BlankState.orders = <<>> /\ DOMAIN <<>> = {} /\ Absent \in Lived BY DEF BlankState, Lived
  <2>2. \A o \in Orders : StatusOf(BlankState, o) = Absent BY <2>1 DEF StatusOf
  <2>3. \A o \in Orders : LastTold(l, 0, o, Absent)
    <3>1. 1..0 = {} OBVIOUS
    <3> QED BY <3>1 DEF LastTold, NoMoves
  <2>4. Telling(l, 0, BlankState) BY <2>1, <2>2, <2>3 DEF Telling, Orderly
  <2>5. 0 \in 0..N BY <1>1
  <2> QED BY <2>4, <2>5
<1>3. ASSUME NEW n \in 0..(N - 1), n \in S PROVE n + 1 \in S
  <2> DEFINE s == Recovered(l, n).s
             t == Recovered(l, n + 1).s
  <2>1. n + 1 \in 1..N /\ n + 1 \in 0..N /\ (n + 1) - 1 = n /\ n \in Nat BY <1>1
  <2>2. Explains(s, l[n + 1].rows, t)
    <3>1. Explains(Recovered(l, (n + 1) - 1).s, l[n + 1].rows, t) BY <2>1 DEF SoundLog
    <3> QED BY <2>1, <3>1
  <2>3. Telling(l, n, s) BY <1>3
  <2> HIDE DEF s, t
  <2>4. Moved(s, l[n + 1].rows, t) BY <2>2, <2>3 DEF Explains, Telling
  <2>5. Orderly(t) BY <2>3, <2>4, MovedOrderly DEF Telling
  <2>6. \A o \in Orders : LastTold(l, n + 1, o, StatusOf(t, o))
    BY <2>1, <2>3, <2>4, TellsNext DEF Telling, Moved
  <2>7. Telling(l, n + 1, t) BY <2>5, <2>6 DEF Telling
  <2> QED BY <2>1, <2>7 DEF t
<1> HIDE DEF S
<1>4. \A n \in 0..N : n \in S BY <1>1, <1>2, <1>3, UpTo
<1> QED BY <1>4 DEF S

\* The status that the refinement reads off the log is the one that its rows tell.
LEMMA LoggedIsTold ==
  /\ \A o : LoggedStatus(o) = ToldBy(log, o)
  /\ \A o : LoggedStatus(o)' = ToldBy(log', o)
<1>1. \A o : MovesIn(log, o) = Moves(o) /\ MovesIn(log', o) = Moves(o)'
  BY DEF MovesIn, Moves, PlacesIn, Places, Row, IsMove
<1>2. /\ \A o : LoggedStatus(o) = IF Moves(o) = {} THEN Absent ELSE Row(Final(Moves(o))).to
      /\ \A o : LoggedStatus(o)' = IF Moves(o)' = {} THEN Absent ELSE (Row(Final(Moves(o))).to)'
  BY DEF LoggedStatus, Final
<1>3. /\ \A o : Row(Final(Moves(o))).to = log[Final(Moves(o))[1]].rows[Final(Moves(o))[2]].to
      /\ \A o : (Row(Final(Moves(o))).to)'
                     = log'[Final(Moves(o)')[1]].rows[Final(Moves(o)')[2]].to
  BY DEF Row, Final
<1> QED BY <1>1, <1>2, <1>3 DEF ToldBy

\* Where the moves are.
LEMMA MovesAre ==
  ASSUME NEW l, Len(l) \in Nat, DOMAIN l = 1..Len(l),
         \A g \in 1..Len(l) : DOMAIN l[g].rows = 1..Len(l[g].rows), NEW o
  PROVE  /\ \A g \in 1..Len(l) : \A m \in 1..Len(l[g].rows) :
               IsMove(l[g].rows[m], o) => <<g, m>> \in MovesIn(l, o)
         /\ \A p \in MovesIn(l, o) :
               /\ p[1] \in 1..Len(l) /\ p[2] \in 1..Len(l[p[1]].rows) /\ p = <<p[1], p[2]>>
               /\ IsMove(l[p[1]].rows[p[2]], o)
<1>1. ASSUME NEW g \in 1..Len(l), NEW m \in 1..Len(l[g].rows), IsMove(l[g].rows[m], o)
      PROVE  <<g, m>> \in MovesIn(l, o)
  <2>1. <<g, m>> \in PlacesIn(l) BY DEF PlacesIn
  <2> QED BY <1>1, <2>1 DEF MovesIn
<1>2. ASSUME NEW p \in MovesIn(l, o)
      PROVE  /\ p[1] \in 1..Len(l) /\ p[2] \in 1..Len(l[p[1]].rows) /\ p = <<p[1], p[2]>>
             /\ IsMove(l[p[1]].rows[p[2]], o)
  <2>1. PICK g \in 1..Len(l) : \E m \in DOMAIN l[g].rows : p = <<g, m>> BY DEF MovesIn, PlacesIn
  <2>2. PICK m \in DOMAIN l[g].rows : p = <<g, m>> BY <2>1
  <2>3. p[1] = g /\ p[2] = m BY <2>2
  <2> QED BY <2>2, <2>3 DEF MovesIn
<1> QED BY <1>1, <1>2

\* The status that the log tells is the one of the last move.
LEMMA ToldIsTold ==
  ASSUME NEW l, Len(l) \in Nat, DOMAIN l = 1..Len(l),
         \A g \in 1..Len(l) : /\ DOMAIN l[g].rows = 1..Len(l[g].rows)
                              /\ Len(l[g].rows) \in Nat,
         NEW o, NEW st, LastTold(l, Len(l), o, st)
  PROVE  ToldBy(l, o) = st
<1> DEFINE M == MovesIn(l, o)
<1>1. /\ \A g \in 1..Len(l) : \A m \in 1..Len(l[g].rows) :
            IsMove(l[g].rows[m], o) => <<g, m>> \in M
      /\ \A p \in M : /\ p[1] \in 1..Len(l) /\ p[2] \in 1..Len(l[p[1]].rows) /\ p = <<p[1], p[2]>>
                      /\ IsMove(l[p[1]].rows[p[2]], o)
  BY MovesAre
<1> HIDE DEF M
<1>2. CASE NoMoves(l, o, 1, Len(l)) /\ st = Absent
  <2>1. M = {} BY <1>1, <1>2 DEF NoMoves
  <2> QED BY <1>2, <2>1 DEF ToldBy, M
<1>3. ASSUME NEW g \in 1..Len(l), NEW m \in 1..Len(l[g].rows),
             IsMove(l[g].rows[m], o), l[g].rows[m].to = st,
             \A k \in (m + 1)..Len(l[g].rows) : ~ IsMove(l[g].rows[k], o),
             NoMoves(l, o, g + 1, Len(l))
      PROVE  ToldBy(l, o) = st
  <2> DEFINE z == <<g, m>>
             p == Final(M)
  <2>1. z \in M /\ z[1] = g /\ z[2] = m BY <1>1, <1>3
  <2>2. ASSUME NEW q \in M PROVE Before(q, z)
    <3>1. /\ q[1] \in 1..Len(l) /\ q[2] \in 1..Len(l[q[1]].rows)
          /\ IsMove(l[q[1]].rows[q[2]], o)
      BY <1>1
    <3>2. q[1] \notin (g + 1)..Len(l) BY <1>3, <3>1 DEF NoMoves
    <3>3. q[1] = g => q[2] \notin (m + 1)..Len(l[g].rows) BY <1>3, <3>1
    <3>4. q[1] < g \/ (q[1] = g /\ q[2] <= m) BY <3>1, <3>2, <3>3
    <3> QED BY <2>1, <3>4 DEF Before
  <2> HIDE DEF z
  <2>3. p \in M /\ Before(z, p) BY <2>1, <2>2 DEF Final
  <2>4. Before(p, z) BY <2>2, <2>3
  <2> HIDE DEF p
  <2>5. p = <<g, m>>
    <3>1. /\ p[1] \in 1..Len(l) /\ p[2] \in 1..Len(l[p[1]].rows) /\ p = <<p[1], p[2]>> BY <1>1, <2>3
    <3>2. p[1] \in Nat /\ p[2] \in Nat /\ g \in Nat /\ m \in Nat BY <3>1
    <3>3. p[1] = g /\ p[2] = m BY <2>1, <2>3, <2>4, <3>2 DEF Before
    <3> QED BY <3>1, <3>3
  <2>6. p[1] = g /\ p[2] = m BY <2>5
  <2>7. MovesIn(l, o) # {} BY <2>1 DEF M
  <2>8. ToldBy(l, o) = l[p[1]].rows[p[2]].to BY <2>7 DEF ToldBy, M, p
  <2> QED BY <1>3, <2>6, <2>8
<1> QED BY <1>2, <1>3 DEF LastTold

\* Every status of the log is that of the state that recovery from all of it computes.
LEMMA LogIsLife ==
  ASSUME NEW l, SoundLog(l), Recovered(l, 0).s = BlankState
  PROVE  /\ Orderly(Recovered(l, Len(l)).s)
         /\ \A o \in Orders : ToldBy(l, o) = StatusOf(Recovered(l, Len(l)).s, o)
<1> DEFINE s == Recovered(l, Len(l)).s
<1>1. Len(l) \in Nat /\ DOMAIN l = 1..Len(l) BY DEF SoundLog
<1>2. \A g \in 1..Len(l) : DOMAIN l[g].rows = 1..Len(l[g].rows) /\ Len(l[g].rows) \in Nat
  <2>1. \A g \in 1..Len(l) : l[g].rows \in Seq(RowType) BY DEF SoundLog
  <2> HIDE DEF RowType
  <2> QED BY <2>1
<1>3. Len(l) \in 0..Len(l) BY <1>1
<1>4. Telling(l, Len(l), s) BY <1>3, LogTells
<1> HIDE DEF s
<1>5. \A o \in Orders : ToldBy(l, o) = StatusOf(s, o) BY <1>1, <1>2, <1>4, ToldIsTold DEF Telling
<1> QED BY <1>4, <1>5 DEF Telling, s

\* Recovery from nothing is the start of the session, whatever comes in the log.
LEMMA NothingRecovered == \A l : Recovered(l, 0).s = BlankState
<1>1. \A l : SubSeq(l, 1, 0) = <<>> BY SubSeqEmpty
<1> QED BY <1>1, EmptyLog DEF Recovered

\* A group that is appended moves every order by an edge of its life, or not at all.
LEMMA GroupLives ==
  ASSUME NEW l, SoundLog(l), NEW k, SoundLog(k), Len(l) \in Nat, Len(k) = Len(l) + 1,
         \A n \in 0..Len(l) : Recovered(k, n) = Recovered(l, n), NEW o \in Orders
  PROVE  \/ ToldBy(k, o) = ToldBy(l, o)
         \/ Logged!Edge(ToldBy(l, o), ToldBy(k, o)) /\ ToldBy(k, o) \in Logged!Statuses
<1> DEFINE n == Len(l) + 1
           s == Recovered(l, Len(l)).s
           t == Recovered(k, n).s
<1>1. n \in 1..Len(k) /\ n - 1 = Len(l) /\ Len(l) \in 0..Len(l) OBVIOUS
<1>2. Explains(s, k[n].rows, t)
  <2>1. Explains(Recovered(k, n - 1).s, k[n].rows, t) BY <1>1 DEF SoundLog
  <2> QED BY <1>1, <2>1
<1>3. Orderly(s) /\ ToldBy(l, o) = StatusOf(s, o) /\ ToldBy(k, o) = StatusOf(t, o)
  BY LogIsLife, NothingRecovered
<1> HIDE DEF n, s, t
<1>4. Moved(s, k[n].rows, t) BY <1>2, <1>3 DEF Explains
<1>5. StatusOf(t, o) = StatusOf(s, o) \/ Logged!Edge(StatusOf(s, o), StatusOf(t, o))
  BY <1>4 DEF Moved
<1>6. StatusOf(s, o) \in Lived BY <1>3 DEF Orderly
<1>7. Logged!Edge(StatusOf(s, o), StatusOf(t, o)) => StatusOf(t, o) \in Logged!Statuses
  BY <1>6, EdgeLives
<1> QED BY <1>3, <1>5, <1>7

\* A step writes no group, or one on top of the log.
LEMMA LogGrows ==
  ASSUME IInv, [Next]_vars
  PROVE  \/ log' = log
         \/ /\ SoundLog(log) /\ SoundLog(log') /\ Len(log) \in Nat /\ Len(log') = Len(log) + 1
            /\ \A n \in 0..Len(log) : Recovered(log', n) = Recovered(log, n)
<1>1. ASSUME NEW b \in Brokers, Commit(b) \/ CommitLost(b)
      PROVE  /\ SoundLog(log) /\ SoundLog(log') /\ Len(log) \in Nat /\ Len(log') = Len(log) + 1
             /\ \A n \in 0..Len(log) : Recovered(log', n) = Recovered(log, n)
  <2>1. At(b, "staged") /\ IdsFree(b) /\ log' = Append(log, Group(b)) BY <1>1 DEF Commit, CommitLost
  <2>2. SoundLog(log) BY DEF IInv
  <2> QED BY <2>1, <2>2, AtTheEnd
<1>2. (\E b \in Brokers : Commit(b) \/ CommitLost(b)) \/ log' = log
  BY DEF Next, vars, Submit, MarketEvent, Settle, AskUnknown, ResolveUnknown, ReconcileFills,
     Stage, Abort, Undone, SaveHead, Crash, Rehydrate, Reopen
<1> QED BY <1>1, <1>2

\* Every step is a step in the life of the orders, or none.
LEMMA StepLives == IInv /\ [Next]_vars => [Logged!Next]_([o \in Orders |-> LoggedStatus(o)])
<1> DEFINE now == [o \in Orders |-> LoggedStatus(o)]
<1> SUFFICES ASSUME IInv, [Next]_vars PROVE Logged!Next \/ now' = now OBVIOUS
<1>1. now = [o \in Orders |-> ToldBy(log, o)] /\ now' = [o \in Orders |-> ToldBy(log', o)]
  BY LoggedIsTold
<1>2. CASE log' = log BY <1>1, <1>2
<1>3. CASE log' # log
  <2> DEFINE touched == {o \in Orders : ToldBy(log', o) # ToldBy(log, o)}
             to == [o \in touched |-> ToldBy(log', o)]
  <2>1. \A o \in Orders :
           \/ ToldBy(log', o) = ToldBy(log, o)
           \/ /\ Logged!Edge(ToldBy(log, o), ToldBy(log', o))
              /\ ToldBy(log', o) \in Logged!Statuses
    BY <1>3, LogGrows, GroupLives
  <2>2. touched \in SUBSET Orders /\ to \in [touched -> Logged!Statuses] BY <2>1
  <2>3. \A o \in touched : Logged!Edge(now[o], to[o]) BY <1>1, <2>1
  <2>4. now' = [o \in Orders |-> IF o \in touched THEN to[o] ELSE now[o]] BY <1>1
  <2> HIDE DEF touched, to
  <2> QED BY <2>2, <2>3, <2>4 DEF Logged!Next
<1> QED BY <1>2, <1>3

\* The rows in the log tell of every order that it lives the life of OrderStateMachine,
\* whichever brokers write them, with rollbacks, lost answers and recoveries in between.
THEOREM LifecycleImplemented == Spec => ImplementsLifecycle
<1>1. Init => Logged!Init
  <2> SUFFICES ASSUME Init PROVE \A o \in Orders : LoggedStatus(o) = Absent BY DEF Logged!Init
  <2>1. log = <<>> /\ DOMAIN <<>> = {} BY DEF Init
  <2> QED BY <2>1 DEF LoggedStatus, Moves, Places
<1> QED BY <1>1, StepLives, Invariance, PTL DEF Spec, ImplementsLifecycle, Logged!Spec

------------------------------
(* The log tells the terms of every fill *)

\* Rows are dated by instants.
LEMMA RowDates == \A x \in RowType : x.at \in Nat
BY TimesAreInstants DEF RowType

\* The next group goes on vouching for the orders it leaves.
LEMMA VouchedNext ==
  ASSUME NEW l, NEW n \in Nat, NEW s, Typed(s), NEW t, Typed(t), Vouched(l, n, s),
         \A g \in 1..(n + 1) : l[g].rows \in Seq(RowType),
         Bears(s, l[n + 1].rows, t)
  PROVE  Vouched(l, n + 1, t)
<1> DEFINE rows == l[n + 1].rows
<1>1. /\ \A i \in Instruments : s.seen[i].at <= t.seen[i].at
      /\ \A o \in DOMAIN s.orders : o \in DOMAIN t.orders /\ Remains(s, rows, t, o)
      /\ \A o \in DOMAIN t.orders \ DOMAIN s.orders : Enters(rows, t, o)
  BY DEF Bears
<1>2. n + 1 \in 1..(n + 1) /\ \A g \in 1..n : g \in 1..(n + 1) OBVIOUS
<1>3. ASSUME NEW o \in DOMAIN t.orders, o \notin DOMAIN s.orders
      PROVE  WellShaped(t.orders[o].intent) /\ VouchedFor(l, n + 1, t, o)
  BY <1>1, <1>2, <1>3 DEF Enters, VouchedFor
<1>4. ASSUME NEW o \in DOMAIN s.orders
      PROVE  WellShaped(t.orders[o].intent) /\ VouchedFor(l, n + 1, t, o)
  <2> DEFINE r == s.orders[o]
             k == t.orders[o]
             i == r.intent.instrument
  <2>1. /\ SameOrder(r, k) /\ o \in DOMAIN t.orders
        /\ k.triggered => \/ r.triggered
                          \/ \E m \in 1..Len(rows) :
                                Stopped(rows[m], o) /\ rows[m].at <= t.seen[k.intent.instrument].at
    BY <1>1 DEF Remains
  <2>2. k.intent = r.intent /\ k.submitted = r.submitted /\ WellShaped(r.intent)
        /\ VouchedFor(l, n, s, o)
    BY <2>1 DEF SameOrder, Vouched
  <2>3. s.seen[i].at <= t.seen[i].at /\ s.seen[i].at \in Nat /\ t.seen[i].at \in Nat
    <3>1. s.orders \in [DOMAIN s.orders -> OrderRecord] BY TypedParts
    <3>2. r \in OrderRecord BY <3>1
    <3>3. i \in Instruments
      <4> HIDE DEF r
      <4> QED BY <3>2, RecordParts, IntentParts
    <3>4. s.seen[i] \in SeenType /\ t.seen[i] \in SeenType BY <3>3, TypedParts
    <3> HIDE DEF i
    <3> QED BY <1>1, <3>3, <3>4 DEF SeenType
  <2>4. PICK g \in 1..n : \E m \in 1..Len(l[g].rows) :
           /\ Submits(l[g].rows[m], o, r)
           /\ r.triggered => \E h \in (g + 1)..n : \E j \in 1..Len(l[h].rows) :
                                 Stopped(l[h].rows[j], o) /\ l[h].rows[j].at <= s.seen[i].at
    BY <2>2 DEF VouchedFor
  <2>5. PICK m \in 1..Len(l[g].rows) :
           /\ Submits(l[g].rows[m], o, r)
           /\ r.triggered => \E h \in (g + 1)..n : \E j \in 1..Len(l[h].rows) :
                                 Stopped(l[h].rows[j], o) /\ l[h].rows[j].at <= s.seen[i].at
    BY <2>4
  <2>6. Submits(l[g].rows[m], o, k) BY <2>2, <2>5 DEF Submits
  <2>7. ASSUME k.triggered
        PROVE  \E h \in (g + 1)..(n + 1) : \E j \in 1..Len(l[h].rows) :
                   Stopped(l[h].rows[j], o) /\ l[h].rows[j].at <= t.seen[i].at
    <3>1. CASE r.triggered
      <4>1. PICK h \in (g + 1)..n : \E j \in 1..Len(l[h].rows) :
                Stopped(l[h].rows[j], o) /\ l[h].rows[j].at <= s.seen[i].at
        BY <2>5, <3>1
      <4>2. PICK j \in 1..Len(l[h].rows) :
                Stopped(l[h].rows[j], o) /\ l[h].rows[j].at <= s.seen[i].at
        BY <4>1
      <4>3. l[h].rows[j].at \in Nat
        <5>1. h \in 1..(n + 1) OBVIOUS
        <5>2. l[h].rows \in Seq(RowType) BY <5>1
        <5> HIDE DEF RowType
        <5>3. l[h].rows[j] \in RowType BY <5>2
        <5> QED BY <5>3, RowDates
      <4>4. l[h].rows[j].at <= t.seen[i].at
        <5> DEFINE a == l[h].rows[j].at
                   b == s.seen[i].at
                   c == t.seen[i].at
        <5>1. a \in Nat /\ b \in Nat /\ c \in Nat /\ a <= b /\ b <= c BY <2>3, <4>2, <4>3
        <5> HIDE DEF a, b, c
        <5>2. a <= c BY <5>1
        <5> QED BY <5>2 DEF a, c
      <4>5. h \in (g + 1)..(n + 1) OBVIOUS
      <4> QED BY <4>2, <4>4, <4>5
    <3>2. CASE ~ r.triggered
      <4>1. n + 1 \in (g + 1)..(n + 1) OBVIOUS
      <4> QED BY <2>1, <2>2, <2>7, <3>2, <4>1
    <3> QED BY <3>1, <3>2
  <2>8. VouchedFor(l, n + 1, t, o)
    <3>1. g \in 1..(n + 1) /\ k.intent.instrument = i BY <1>2, <2>2
    <3> QED BY <2>6, <2>7, <3>1 DEF VouchedFor
  <2> QED BY <2>2, <2>8
<1> QED BY <1>3, <1>4 DEF Vouched

\* The log vouches for the orders of every state that recovery computes on the way.
LEMMA LogVouches ==
  ASSUME NEW l, SoundLog(l)
  PROVE  \A n \in 0..Len(l) : Vouched(l, n, Recovered(l, n).s)
<1> DEFINE N == Len(l)
           S == {n \in 0..N : Vouched(l, n, Recovered(l, n).s)}
<1>1. N \in Nat BY DEF SoundLog
<1>2. 0 \in S
  <2>1. Recovered(l, 0).s = BlankState BY NothingRecovered
  <2>2. DOMAIN BlankState.orders = {} BY DEF BlankState
  <2>3. Vouched(l, 0, Recovered(l, 0).s) BY <2>1, <2>2 DEF Vouched
  <2> QED BY <1>1, <2>3
<1>3. ASSUME NEW n \in 0..(N - 1), n \in S PROVE n + 1 \in S
  <2> DEFINE s == Recovered(l, n).s
             t == Recovered(l, n + 1).s
  <2>1. n + 1 \in 1..N /\ n \in 0..N /\ n + 1 \in 0..N /\ (n + 1) - 1 = n /\ n \in Nat BY <1>1
  <2>2. Typed(s) /\ Typed(t) /\ Solvent(s) BY <2>1 DEF SoundLog, IsRecovery, Good
  <2>3. Bears(s, l[n + 1].rows, t)
    <3>1. Explains(Recovered(l, (n + 1) - 1).s, l[n + 1].rows, t) BY <2>1 DEF SoundLog
    <3> QED BY <2>1, <2>2, <3>1 DEF Explains
  <2>4. \A g \in 1..(n + 1) : l[g].rows \in Seq(RowType)
    <3>1. \A g \in 1..(n + 1) : g \in 1..N BY <2>1
    <3> QED BY <3>1 DEF SoundLog
  <2>5. Vouched(l, n, s) BY <1>3
  <2> HIDE DEF s, t
  <2>6. Vouched(l, n + 1, t) BY <2>1, <2>2, <2>3, <2>4, <2>5, VouchedNext
  <2> QED BY <2>1, <2>6 DEF t
<1> HIDE DEF S
<1>4. \A n \in 0..N : n \in S BY <1>1, <1>2, <1>3, UpTo
<1> QED BY <1>4 DEF S

\* Before every fill of a sound log stands the submission of its order, whose terms it keeps.
LEMMA FillsOrdered ==
  ASSUME NEW l, SoundLog(l), NEW g \in 1..Len(l), NEW n \in 1..Len(l[g].rows),
         l[g].rows[n].kind = "fill"
  PROVE  \E h \in 1..(g - 1) : \E m \in 1..Len(l[h].rows) : \E r \in OrderRecord :
            Ordered(l, g, n, h, m, r)
<1> DEFINE s == Recovered(l, g - 1).s
           t == Recovered(l, g).s
           rows == l[g].rows
           x == rows[n]
           o == x.fill.order
           r == s.orders[o]
           i == r.intent.instrument
<1>1. Len(l) \in Nat /\ g - 1 \in 0..Len(l) /\ g - 1 \in Nat /\ g \in Nat BY DEF SoundLog
<1>2. /\ Good(s) /\ Solvent(s) /\ rows \in Seq(RowType) /\ Explains(s, rows, t)
      /\ Vouched(l, g - 1, s)
  BY <1>1, LogVouches DEF SoundLog, IsRecovery
<1> HIDE DEF s, t
<1>3. Lawful(s, rows, n) /\ (~ x.external => Fresh(s, x)) BY <1>2 DEF Explains, Bears
<1>4. o \in DOMAIN s.orders /\ Keeps(x, r) /\ Tripped(rows, n, r) BY <1>3 DEF Lawful
<1>5. r \in OrderRecord
  <2>1. s.orders \in [DOMAIN s.orders -> OrderRecord] BY <1>2, TypedParts DEF Good
  <2>2. o \in DOMAIN s.orders BY Zenon, <1>4
  <2> HIDE DEF o
  <2> QED BY <2>1, <2>2
<1>6. WellShaped(r.intent) /\ VouchedFor(l, g - 1, s, o) BY <1>2, <1>4 DEF Vouched
<1>7. PICK h \in 1..(g - 1) : \E m \in 1..Len(l[h].rows) :
         /\ Submits(l[h].rows[m], o, r)
         /\ r.triggered => \E j \in (h + 1)..(g - 1) : \E k \in 1..Len(l[j].rows) :
                               Stopped(l[j].rows[k], o) /\ l[j].rows[k].at <= s.seen[i].at
  BY <1>6 DEF VouchedFor
<1>8. PICK m \in 1..Len(l[h].rows) :
         /\ Submits(l[h].rows[m], o, r)
         /\ r.triggered => \E j \in (h + 1)..(g - 1) : \E k \in 1..Len(l[j].rows) :
                               Stopped(l[j].rows[k], o) /\ l[j].rows[k].at <= s.seen[i].at
  BY <1>7
<1>9. ASSUME ~ x.external, r.intent.trigger > 0
      PROVE  \E j \in (h + 1)..g : \E k \in 1..Len(l[j].rows) :
                /\ j = g => k < n
                /\ Stopped(l[j].rows[k], o)
                /\ r.intent.type = "stop_limit" => l[j].rows[k].at < x.fill.at
  <2>1. r.intent.type \in {"stop", "stop_limit"} BY <1>6, <1>9 DEF WellShaped
  <2>2. r.intent.type = "stop_limit" => r.triggered BY <1>4, <1>9 DEF Keeps
  <2>3. CASE r.triggered
    <3>1. PICK j \in (h + 1)..(g - 1) : \E k \in 1..Len(l[j].rows) :
              Stopped(l[j].rows[k], o) /\ l[j].rows[k].at <= s.seen[i].at
      BY <1>8, <2>3
    <3>2. PICK k \in 1..Len(l[j].rows) :
              Stopped(l[j].rows[k], o) /\ l[j].rows[k].at <= s.seen[i].at
      BY <3>1
    <3>3. s.seen[i].at < x.fill.at BY <1>3, <1>9 DEF Fresh
    <3>4. l[j].rows[k].at \in Nat /\ s.seen[i].at \in Nat /\ x.fill.at \in Nat
      <4>1. l[j].rows \in Seq(RowType)
        <5>1. j \in 1..Len(l) BY <1>1
        <5> QED BY <5>1 DEF SoundLog
      <4>2. l[j].rows[k] \in RowType /\ x \in RowType
        <5> HIDE DEF RowType
        <5> QED BY <1>2, <4>1
      <4>3. l[j].rows[k].at \in Nat BY <4>2, RowDates
      <4>4. x.fill \in FillType /\ x.fill.at \in Nat
        <5>1. x.fill \in FillType BY <4>2 DEF RowType
        <5> QED BY <5>1, TimesAreInstants DEF FillType
      <4>5. s.seen[i].at \in Nat
        <5>1. i \in Instruments
          <6> HIDE DEF r
          <6> QED BY <1>5, RecordParts, IntentParts
        <5>2. s.seen \in [Instruments -> SeenType] BY <1>2, TypedParts DEF Good
        <5> HIDE DEF i
        <5>3. s.seen[i] \in SeenType BY <5>1, <5>2
        <5> QED BY <5>3 DEF SeenType
      <4> QED BY <4>3, <4>4, <4>5
    <3>5. l[j].rows[k].at < x.fill.at
      <4> DEFINE a == l[j].rows[k].at
                 b == s.seen[i].at
                 c == x.fill.at
      <4>1. a \in Nat /\ b \in Nat /\ c \in Nat /\ a <= b /\ b < c BY <3>2, <3>3, <3>4
      <4> HIDE DEF a, b, c
      <4>2. a < c BY <4>1
      <4> QED BY <4>2 DEF a, c
    <3>6. j \in (h + 1)..g /\ j # g BY <1>1
    <3> QED BY <3>2, <3>5, <3>6
  <2>4. CASE ~ r.triggered
    <3>1. r.intent.type = "stop" BY <2>1, <2>2, <2>4
    <3>2. PICK k \in 1..(n - 1) : Stopped(rows[k], o) BY <1>4, <1>9, <2>4, <3>1 DEF Tripped
    <3>3. Len(rows) \in Nat
      <4> HIDE DEF rows, RowType
      <4> QED BY <1>2
    <3>4. k \in 1..Len(l[g].rows) /\ k < n /\ g \in (h + 1)..g BY <1>1, <3>3
    <3> QED BY <3>1, <3>2, <3>4
  <2> QED BY <2>3, <2>4
<1>10. Ordered(l, g, n, h, m, r)
  <2> HIDE DEF r
  <2> QED BY <1>4, <1>6, <1>8, <1>9 DEF Ordered
<1> QED BY <1>5, <1>10

\* Every fill in the log keeps to the prices, the size, the dates and the stop of the order
\* that the log submitted before it, whatever sweep or authoritative answer has filled it.
THEOREM FillsKeepTerms == Spec => []FillsWithinOrders
<1>1. IInv => FillsWithinOrders
  <2> SUFFICES ASSUME IInv, NEW p \in Places, Row(p).kind = "fill", NEW x, x = Row(p)
               PROVE  \E q \in Places :
                         /\ Before(q, p) /\ Row(q).kind = "submitted"
                         /\ Row(q).order = x.fill.order /\ x.from \notin Logged!Closed
                         /\ WithinTerms(p, x, q, Row(q).intent, Row(q).at)
    BY DEF FillsWithinOrders, WithinTerms
  <2>1. SoundLog(log) BY DEF IInv
  <2>2. Len(log) \in Nat /\ DOMAIN log = 1..Len(log) BY <2>1 DEF SoundLog
  <2>3. \A g \in 1..Len(log) : DOMAIN log[g].rows = 1..Len(log[g].rows)
                               /\ Len(log[g].rows) \in Nat
    <3>1. \A g \in 1..Len(log) : log[g].rows \in Seq(RowType) BY <2>1 DEF SoundLog
    <3> HIDE DEF RowType
    <3> QED BY <3>1
  <2>4. /\ \A g \in 1..Len(log) : \A n \in 1..Len(log[g].rows) :
              <<g, n>> \in Places /\ Row(<<g, n>>) = log[g].rows[n]
    BY <2>2, <2>3 DEF Places, Row
  <2>5. PICK g \in 1..Len(log) : \E n \in DOMAIN log[g].rows : p = <<g, n>> BY <2>2 DEF Places
  <2>6. PICK n \in 1..Len(log[g].rows) : p = <<g, n>> BY <2>3, <2>5
  <2>7. x = log[g].rows[n] BY <2>4, <2>6
  <2>8. PICK h \in 1..(g - 1) : \E m \in 1..Len(log[h].rows) : \E r \in OrderRecord :
           Ordered(log, g, n, h, m, r)
    BY <2>1, <2>7, FillsOrdered
  <2>9. PICK m \in 1..Len(log[h].rows) : \E r \in OrderRecord : Ordered(log, g, n, h, m, r) BY <2>8
  <2>10. PICK r \in OrderRecord : Ordered(log, g, n, h, m, r) BY <2>9
  <2> DEFINE q == <<h, m>>
             in == r.intent
             o == x.fill.order
  <2>11. /\ q \in Places /\ Row(q) = log[h].rows[m] /\ Before(q, p)
    <3>1. h \in 1..Len(log) /\ h < g BY <2>2
    <3> QED BY <2>4, <2>6, <3>1 DEF Before
  <2>12. /\ Submits(Row(q), o, r) /\ Keeps(x, r) /\ WellShaped(in)
         /\ ~ x.external /\ in.trigger > 0 =>
               \E j \in (h + 1)..g : \E k \in 1..Len(log[j].rows) :
                  /\ j = g => k < n
                  /\ Stopped(log[j].rows[k], o)
                  /\ in.type = "stop_limit" => log[j].rows[k].at < x.fill.at
    BY <2>7, <2>10, <2>11 DEF Ordered
  <2>13. /\ Row(q).kind = "submitted" /\ Row(q).order = o /\ Row(q).intent = in
         /\ Row(q).at = r.submitted
    BY <2>12 DEF Submits
  <2>14. /\ x.from \notin Logged!Closed /\ RespectsPrices(in, x.fill.price)
         /\ in.notional = 0 => x.filled <= in.quantity
         /\ in.notional > 0 => x.spent <= in.notional
         /\ ~ x.external => InTime(r, x.fill.at)
    BY <2>12 DEF Keeps, Logged!Closed, Lifecycle!Closed
  <2>15. in.quantity \in Nat /\ in.notional \in Nat BY <2>10, RecordParts, IntentParts
  <2>16. in.quantity > 0 => x.filled <= in.quantity
    <3>1. in.quantity > 0 => in.notional = 0 BY <2>12, <2>15 DEF WellShaped
    <3> QED BY <2>14, <3>1
  <2>17. /\ in.side = "buy" =>
               in.stop < x.fill.price /\ x.fill.price < in.take
                  /\ (in.limit > 0 => x.fill.price <= in.limit)
         /\ in.side = "sell" =>
               in.take < x.fill.price /\ x.fill.price < in.stop
                  /\ (in.limit > 0 => x.fill.price >= in.limit)
    BY <2>14 DEF RespectsPrices, Inside
  <2>18. ASSUME ~ x.external
         PROVE  /\ x.fill.at > r.submitted /\ x.fill.at >= r.submitted + Latency
                /\ x.fill.at < in.expires
    BY <2>14, <2>18 DEF InTime, LatencyOver
  <2>19. ASSUME ~ x.external, in.trigger > 0
         PROVE  \E k \in Places :
                   /\ Before(q, k) /\ Before(k, p) /\ Row(k).kind = "stop_triggered"
                   /\ Row(k).order = o
                   /\ in.type = "stop_limit" => Row(k).at < x.fill.at
    <3>1. PICK j \in (h + 1)..g : \E k \in 1..Len(log[j].rows) :
              /\ j = g => k < n
              /\ Stopped(log[j].rows[k], o)
              /\ in.type = "stop_limit" => log[j].rows[k].at < x.fill.at
      BY <2>12, <2>19
    <3>2. PICK k \in 1..Len(log[j].rows) :
              /\ j = g => k < n
              /\ Stopped(log[j].rows[k], o)
              /\ in.type = "stop_limit" => log[j].rows[k].at < x.fill.at
      BY <3>1
    <3> DEFINE z == <<j, k>>
    <3>3. j \in 1..Len(log) /\ h < j /\ (j < g \/ (j = g /\ k <= n))
      <4>1. k \in Nat /\ n \in Nat BY <2>3
      <4> QED BY <2>2, <3>2, <4>1
    <3>4. z \in Places /\ Row(z) = log[j].rows[k] /\ Before(q, z) /\ Before(z, p)
      BY <2>4, <2>6, <3>3 DEF Before
    <3> HIDE DEF z
    <3> QED BY <3>2, <3>4 DEF Stopped
  <2>20. WithinTerms(p, x, q, in, r.submitted)
    <3>1. ASSUME ~ x.external
          PROVE  /\ x.fill.at > r.submitted /\ x.fill.at >= r.submitted + Latency
                 /\ x.fill.at < in.expires
                 /\ in.trigger > 0 => \E k \in Places :
                       /\ Before(q, k) /\ Before(k, p)
                       /\ Row(k).kind = "stop_triggered" /\ Row(k).order = x.fill.order
                       /\ in.type = "stop_limit" => Row(k).at < x.fill.at
      <4>1. in.trigger > 0 => \E k \in Places :
               /\ Before(q, k) /\ Before(k, p)
               /\ Row(k).kind = "stop_triggered" /\ Row(k).order = x.fill.order
               /\ in.type = "stop_limit" => Row(k).at < x.fill.at
        BY <2>19, <3>1
      <4> HIDE DEF in, q
      <4> QED BY <2>18, <3>1, <4>1
    <3>2. /\ in.quantity > 0 => x.filled <= in.quantity
          /\ in.notional > 0 => x.spent <= in.notional
      BY <2>14, <2>16
    <3> HIDE DEF in, q
    <3> QED BY <2>17, <3>1, <3>2 DEF WithinTerms
  <2>21. WithinTerms(p, x, q, Row(q).intent, Row(q).at) BY <2>13, <2>20
  <2> HIDE DEF q
  <2> QED BY <2>11, <2>13, <2>14, <2>21
<1> QED BY <1>1, Invariance, PTL
=============================================================================
