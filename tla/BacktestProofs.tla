--------------------------- MODULE BacktestProofs ---------------------------
(***************************************************************************)
(* Backtest for every market, strategy and cost model: the books of the    *)
(* engine agree with its ledger, an entry stays within what was approved,  *)
(* and what the sizer proposes the assessment can refuse only for the      *)
(* state of the account.                                                   *)
(***************************************************************************)
EXTENDS Backtest, FiniteSetTheorems, TLAPS

USE ScaleAssumption, StepAssumption, FillModelAssumption

-----------------------------------------------------------------------------
(* Arithmetic *)

\* A quotient rounded down, multiplied back, does not exceed what was divided.
LEMMA DivisionIsBelow ==
  ASSUME NEW n \in Int, NEW d \in Nat \ {0}
  PROVE  n \div d \in Int /\ (n \div d) * d <= n
OBVIOUS

\* Multiplying by a natural number keeps an order of two integers.
LEMMA ProductKeepsOrder ==
  ASSUME NEW a \in Int, NEW b \in Int, NEW m \in Nat, a <= b
  PROVE  a * m <= b * m
OBVIOUS

\* Products of integers are integers, those of natural numbers natural.
LEMMA ProductType ==
  ASSUME NEW a \in Int, NEW b \in Int
  PROVE  a * b \in Int /\ (a \in Nat /\ b \in Nat => a * b \in Nat)
OBVIOUS

\* _floor_quantity gives a multiple of the step that is no larger than what it floors.
LEMMA FloorBelow ==
  ASSUME NEW q \in Int
  PROVE  /\ FloorQuantity(q) \in Int
         /\ FloorQuantity(q) <= q
         /\ FloorQuantity(q) % Step = 0
         /\ q \in Nat => FloorQuantity(q) \in Nat
<1>1. q \div Step \in Int /\ (q \div Step) * Step <= q
  BY DivisionIsBelow
<1>2. ASSUME NEW k \in Int
      PROVE  (k * Step) % Step = 0
  OBVIOUS
<1>3. ASSUME q \in Nat
      PROVE  q \div Step \in Nat
  BY <1>3
<1> DEFINE k == q \div Step
<1>4. FloorQuantity(q) = k * Step
  BY DEF FloorQuantity
<1> HIDE DEF k
<1>5. k \in Int /\ k * Step <= q /\ (k * Step) % Step = 0 /\ (q \in Nat => k \in Nat)
  BY <1>1, <1>2, <1>3 DEF k
<1> QED
  BY <1>4, <1>5, ProductType

-----------------------------------------------------------------------------
(* The sizer and the assessment *)

SignalType == [direction : STRING, entry : Int, stop : Int, target : Int]

\* As many units as AtMost allows do not cost more than the room.
LEMMA AtMostBounds ==
  ASSUME NEW room \in Int, NEW unit \in Nat \ {0}, NEW q \in Nat, q <= AtMost(room, unit)
  PROVE  (q * unit * Scale) * Scale <= room
<1> DEFINE d == Scale * Scale * unit
<1>1. d \in Nat \ {0}
  OBVIOUS
<1>2. AtMost(room, unit) = room \div d
  BY DEF AtMost
<1>3. (q * unit * Scale) * Scale = q * d
  OBVIOUS
<1> HIDE DEF d
<1>4. room \div d \in Int /\ (room \div d) * d <= room
  BY <1>1, DivisionIsBelow
<1>5. q * d <= (room \div d) * d
  BY <1>1, <1>2, <1>4, ProductKeepsOrder
<1>6. q * d \in Int /\ (room \div d) * d \in Int
  BY <1>1, <1>4, ProductType
<1> QED
  BY <1>3, <1>4, <1>5, <1>6

\* What an accepted size says of the order.
LEMMA SizedBounds ==
  ASSUME NEW s \in SignalType, NEW p \in Portfolio, SizingReason(s, p) = "none"
  PROVE  LET q == SizedQuantity(s, p) IN
         /\ q \in Nat \ {0} /\ q % Step = 0
         /\ 0 < s.stop /\ s.stop < s.entry /\ s.entry < s.target
         /\ (q * (s.entry - s.stop) * Scale) * Scale <= p.equity * TradeRisk
         /\ (q * s.entry * Scale) * Scale <= p.equity * PositionShare - p.held * Scale
         /\ (q * s.entry * Scale) * Scale <= p.equity * GrossShare - p.gross * Scale
         /\ q * s.entry * Scale <= p.cash
         /\ q * s.entry >= MinNotional
<1> DEFINE q == SizedQuantity(s, p)
<1>0. {TradeRisk, PositionShare, GrossShare, MinNotional} \subseteq Nat
  BY PolicyAssumption
<1>1. /\ ConsistentExits(s) /\ ~ (q <= 0) /\ ~ (q * s.entry < MinNotional)
      /\ ~ (p.cash < (q * s.entry) * Scale)
  BY DEF SizingReason
<1>2. /\ s.entry \in Nat \ {0} /\ s.entry - s.stop \in Nat \ {0}
      /\ 0 < s.stop /\ s.stop < s.entry /\ s.entry < s.target
  BY <1>1 DEF ConsistentExits, SignalType
<1>3. /\ p.equity \in Int /\ p.held \in Int /\ p.gross \in Int /\ p.cash \in Int
  BY DEF Portfolio
<1>4. /\ p.equity * TradeRisk \in Int /\ PositionRoom(p) \in Int /\ GrossRoom(p) \in Int
  BY <1>0, <1>3, ProductType DEF PositionRoom, GrossRoom, Headroom
<1> DEFINE a == AtMost(p.equity * TradeRisk, s.entry - s.stop)
           b == AtMost(PositionRoom(p), s.entry)
           c == AtMost(GrossRoom(p), s.entry)
<1>5. a \in Int /\ b \in Int /\ c \in Int
  <2>1. ASSUME NEW room \in Int, NEW unit \in Nat \ {0}
        PROVE  AtMost(room, unit) \in Int
    BY DEF AtMost
  <2> QED
    BY <1>2, <1>4, <2>1
<1>6. q = FloorQuantity(Smaller(a, Smaller(b, c)))
  BY DEF SizedQuantity
<1> HIDE DEF q, a, b, c
<1>7. /\ Smaller(a, Smaller(b, c)) \in Int
      /\ Smaller(a, Smaller(b, c)) <= a /\ Smaller(a, Smaller(b, c)) <= b
      /\ Smaller(a, Smaller(b, c)) <= c
  BY <1>5 DEF Smaller
<1>8. q \in Nat \ {0} /\ q % Step = 0 /\ q <= a /\ q <= b /\ q <= c
  BY <1>1, <1>5, <1>6, <1>7, FloorBelow
<1>9. (q * (s.entry - s.stop) * Scale) * Scale <= p.equity * TradeRisk
  BY <1>2, <1>4, <1>8, AtMostBounds DEF a
<1>10. (q * s.entry * Scale) * Scale <= PositionRoom(p)
  BY <1>2, <1>4, <1>8, AtMostBounds DEF b
<1>11. (q * s.entry * Scale) * Scale <= GrossRoom(p)
  BY <1>2, <1>4, <1>8, AtMostBounds DEF c
<1>12. q * s.entry \in Int /\ q * s.entry * Scale \in Int
  BY <1>2, <1>8, ProductType
<1>13. q * s.entry * Scale <= p.cash /\ q * s.entry >= MinNotional
  BY <1>0, <1>1, <1>3, <1>12
<1> QED
  BY <1>2, <1>8, <1>9, <1>10, <1>11, <1>13 DEF PositionRoom, GrossRoom, Headroom, q

\* An order that the sizing accepts raises no objection of assess_order.
LEMMA SizedIsAdmitted ==
  ASSUME NEW s \in SignalType, NEW p \in Portfolio, SizingReason(s, p) = "none"
  PROVE  OrderReasons(Intent(s, p), p) = {}
<1> DEFINE q == SizedQuantity(s, p)
           n == q * s.entry * Scale
           risk == q * (s.entry - s.stop) * Scale
<1>1. /\ q \in Nat \ {0} /\ q % Step = 0
      /\ 0 < s.stop /\ s.stop < s.entry /\ s.entry < s.target
      /\ risk * Scale <= p.equity * TradeRisk
      /\ n * Scale <= p.equity * PositionShare - p.held * Scale
      /\ n * Scale <= p.equity * GrossShare - p.gross * Scale
      /\ n <= p.cash /\ q * s.entry >= MinNotional
  BY SizedBounds
<1>2. s.entry \in Int /\ s.stop \in Int /\ p.equity \in Int /\ p.held \in Int
      /\ p.gross \in Int /\ p.cash \in Int
  BY DEF SignalType, Portfolio
<1>3. n \in Int /\ risk \in Int /\ q * s.entry \in Int
  BY <1>1, <1>2
<1>4. {TradeRisk, PositionShare, GrossShare, MinNotional} \subseteq Nat
  BY PolicyAssumption
<1> DEFINE i == Intent(s, p)
<1>5. i.quantity = q /\ i.limit = s.entry /\ i.stop = s.stop /\ i.target = s.target
  BY DEF Intent
<1>6. i.quantity * i.limit * Scale = n /\ i.quantity * (i.limit - i.stop) * Scale = risk
      /\ i.quantity * i.limit = q * s.entry
  BY <1>5
<1> HIDE DEF q, n, risk, i
<1>7. ~ Over(p, PositionShare, p.held + n) /\ ~ Over(p, GrossShare, p.gross + n)
  <2>1. ASSUME NEW h \in Int, NEW share \in Nat, n * Scale <= p.equity * share - h * Scale
        PROVE  (h + n) * Scale <= p.equity * share
    <3>1. (h + n) * Scale = h * Scale + n * Scale
      BY <1>3
    <3>2. h * Scale \in Int /\ n * Scale \in Int /\ p.equity * share \in Int
      BY <1>2, <1>3, ProductType
    <3> QED
      BY <2>1, <3>1, <3>2
  <2>2. (p.held + n) * Scale \in Int /\ (p.gross + n) * Scale \in Int
        /\ p.equity * PositionShare \in Int /\ p.equity * GrossShare \in Int
    BY <1>2, <1>3, <1>4, ProductType
  <2>3. (p.held + n) * Scale <= p.equity * PositionShare
    BY <1>1, <1>2, <1>4, <2>1
  <2>4. (p.gross + n) * Scale <= p.equity * GrossShare
    BY <1>1, <1>2, <1>4, <2>1
  <2> QED
    BY <2>2, <2>3, <2>4 DEF Over
<1>8. ~ Over(p, TradeRisk, risk)
  <2>1. risk * Scale \in Int /\ p.equity * TradeRisk \in Int
    BY <1>2, <1>3, <1>4, ProductType
  <2> QED
    BY <1>1, <2>1 DEF Over
<1>9. ~ (p.cash < n) /\ ~ (q * s.entry < MinNotional) /\ ~ (q <= 0)
  BY <1>1, <1>2, <1>3, <1>4
<1> QED
  BY <1>1, <1>5, <1>6, <1>7, <1>8, <1>9 DEF OrderReasons, i

-----------------------------------------------------------------------------
(* Types *)

OrderType == [side : {"none", "buy", "sell"}, quantity : Nat, index : Nat, limit : Nat,
              stop : Nat, target : Nat, approvedNotional : Nat, approvedRisk : Nat,
              filledNotional : Int, filledRisk : Int]
TradeType == [quantity : Nat, stop : Nat, target : Nat, opened : Nat, entryQuantity : Nat,
              entryNotional : Int, entryFees : Int, exitQuantity : Nat, exitNotional : Int,
              exitFees : Int]
FillIds == {S \in SUBSET Nat : IsFiniteSet(S)}
LedgerType == [cash : Int, held : [Instruments -> Int], prices : [Instruments -> Int],
               fills : FillIds, equity : Int, peak : Int]
EngineType == [pending : OrderType, trade : TradeType, ledger : LedgerType, booked : Int]
BarType == [open : Nat, high : Nat, low : Nat, close : Nat, volume : Nat]

\* The valuation is a fold over the instruments, of which there is one.
LEMMA SumOfOne ==
  ASSUME NEW a, NEW h \in [{a} -> Int], NEW p \in [{a} -> Int]
  PROVE  MapThenSumSet(LAMBDA i : h[i] * p[i], {a}) = h[a] * p[a]
<1> DEFINE v == h[a] * p[a]
           body(iter) == [s \in SUBSET {a} |->
                            IF s = {} THEN 0
                            ELSE LET x == CHOOSE x \in s : TRUE
                                 IN  h[x] * p[x] + iter[s \ {x}]]
           g == [s \in SUBSET {a} |-> IF s = {} THEN 0 ELSE v]
           it == CHOOSE iter : iter = body(iter)
<1>0. v \in Int
  OBVIOUS
<1>a. ASSUME NEW s \in SUBSET {a}, s # {}
      PROVE  s = {a} /\ (CHOOSE x \in s : TRUE) = a /\ s \ {a} = {}
  <2>1. s = {a}
    BY <1>a
  <2>2. (CHOOSE x \in s : TRUE) \in s
    BY <1>a
  <2> QED
    BY <2>1, <2>2
<1>b. ASSUME NEW f, NEW s \in SUBSET {a}, s # {}
      PROVE  body(f)[s] = v + f[{}]
  BY <1>a, <1>b
<1>1. g = body(g)
  <2>1. ASSUME NEW s \in SUBSET {a}
        PROVE  g[s] = body(g)[s]
    <3>1. CASE s = {}
      BY <3>1
    <3>2. CASE s # {}
      <4>1. body(g)[s] = v + g[{}]
        BY <1>b, <3>2
      <4>2. g[{}] = 0 /\ g[s] = v
        BY <3>2
      <4> HIDE DEF g, body, v
      <4> QED
        BY <4>1, <4>2, <1>0
    <3> QED
      BY <3>1, <3>2
  <2> DEFINE B == body(g)
  <2>2. B = [s \in SUBSET {a} |-> B[s]] /\ g = [s \in SUBSET {a} |-> g[s]]
    OBVIOUS
  <2>3. \A s \in SUBSET {a} : g[s] = B[s]
    BY <2>1
  <2> HIDE DEF B, g
  <2> QED
    BY <2>2, <2>3 DEF B
<1>2. it = body(it)
  <2> HIDE DEF body, g
  <2> QED
    BY <1>1
<1>3. MapThenSumSet(LAMBDA i : h[i] * p[i], {a}) = it[{a}]
  BY DEF MapThenSumSet, MapThenFoldSet
<1> HIDE DEF it
<1>4. it[{}] = 0 /\ it[{a}] = v + it[{}]
  <2>1. body(it)[{}] = 0
    OBVIOUS
  <2>2. body(it)[{a}] = v + it[{}]
    BY <1>b
  <2> HIDE DEF body, v
  <2> QED
    BY <1>2, <2>1, <2>2
<1>5. it[{a}] = v
  <2> HIDE DEF v
  <2> QED
    BY <1>0, <1>4
<1> QED
  BY <1>3, <1>5, Zenon

\* Revaluing changes the equity and its peak only.
LEMMA RevaluedType ==
  ASSUME NEW l \in LedgerType
  PROVE  /\ Revalued(l) \in LedgerType
         /\ Revalued(l).cash = l.cash /\ Revalued(l).held = l.held
         /\ Revalued(l).prices = l.prices /\ Revalued(l).fills = l.fills
<1> DEFINE equity == Valuation(l.cash, l.held, l.prices)
<1>1. equity \in Int
  <2>1. l.held \in [{Asset} -> Int] /\ l.prices \in [{Asset} -> Int] /\ l.cash \in Int
    BY AssetAssumption DEF LedgerType
  <2>2. MapThenSumSet(LAMBDA i : l.held[i] * l.prices[i], {Asset})
            = l.held[Asset] * l.prices[Asset]
    BY <2>1, SumOfOne
  <2>3. equity = l.cash + Scale * (l.held[Asset] * l.prices[Asset])
    BY <2>2, AssetAssumption DEF Valuation
  <2>4. l.held[Asset] * l.prices[Asset] \in Int
    BY <2>1
  <2> QED
    BY <2>1, <2>3, <2>4
<1> HIDE DEF equity
<1>2. Larger(l.peak, equity) \in Int
  BY <1>1 DEF LedgerType, Larger
<1>3. Revalued(l) = [l EXCEPT !.equity = equity, !.peak = Larger(@, equity)]
  BY DEF Revalued, equity
<1> QED
  BY <1>1, <1>2, <1>3 DEF LedgerType

\* Ledger m is ledger l with a fill of q at this price and on this side booked.
FillBooked(l, side, q, price, m) ==
  /\ m \in LedgerType
  /\ side = "buy" => /\ m.cash = l.cash - (q * price * Scale + Fee(q, price))
                     /\ m.held[Asset] = l.held[Asset] + q
  /\ side # "buy" => /\ m.cash = l.cash + q * price * Scale - Fee(q, price)
                     /\ m.held[Asset] = l.held[Asset] - q

\* What a fill of the instrument does to the ledger.
LEMMA ApplyFillBooks ==
  ASSUME NEW l \in LedgerType, NEW side, NEW q \in Nat, NEW price \in Nat,
         NEW f, f = [id |-> Cardinality(l.fills) + 1, instrument |-> Asset, side |-> side,
                     quantity |-> q, price |-> price, fee |-> Fee(q, price)]
  PROVE  FillBooked(l, side, q, price, ApplyFill(l, f))
<1> DEFINE n == q * price * Scale
           fee == Fee(q, price)
           id == Cardinality(l.fills) + 1
           b == Booked(l, f)
           m == [b EXCEPT !.fills = @ \cup {f.id}, !.prices[f.instrument] = f.price]
<1>1. n \in Int /\ fee \in Int
  BY DEF Fee
<1>2. id \in Nat /\ IsFiniteSet(l.fills \cup {id})
  <2>1. l.fills \in SUBSET Nat /\ IsFiniteSet(l.fills)
    BY DEF LedgerType, FillIds
  <2>2. Cardinality(l.fills) \in Nat
    BY <2>1, FS_CardinalityType
  <2>3. id \in Nat
    BY <2>2
  <2>4. IsFiniteSet(l.fills \cup {id})
    <3> HIDE DEF id
    <3> QED
      BY <2>1, FS_AddElement
  <2> QED
    BY <2>3, <2>4
<1>3. f.id = id /\ f.instrument = Asset /\ f.side = side /\ f.price = price
      /\ f.quantity * f.price * Scale = n /\ f.quantity = q /\ f.fee = fee
  OBVIOUS
<1>4. Asset \in Instruments
  BY AssetAssumption
<1> HIDE DEF n, fee, id
<1>5. b \in LedgerType /\ b.fills = l.fills
      /\ (side = "buy" => b.cash = l.cash - (n + fee) /\ b.held[Asset] = l.held[Asset] + q)
      /\ (side # "buy" => b.cash = l.cash + n - fee /\ b.held[Asset] = l.held[Asset] - q)
  <2>1. l.cash \in Int /\ l.held \in [Instruments -> Int]
    BY DEF LedgerType
  <2>2. CASE side = "buy"
    <3> DEFINE c == l.cash - (n + fee)
               h == [l.held EXCEPT ![Asset] = @ + q]
    <3>1. b = [l EXCEPT !.cash = c, !.held = h]
      BY <1>3, <2>2 DEF Booked
    <3>2. h \in [Instruments -> Int] /\ h[Asset] = l.held[Asset] + q
      BY <1>4, <2>1
    <3>3. c \in Int
      BY <1>1, <2>1
    <3> HIDE DEF b, c, h
    <3>5. b \in LedgerType /\ b.fills = l.fills /\ b.cash = c /\ b.held = h
      BY <3>1, <3>2, <3>3 DEF LedgerType
    <3> QED
      BY <2>2, <3>2, <3>5 DEF c
  <2>3. CASE side # "buy"
    <3> DEFINE c == l.cash + n - fee
               h == [l.held EXCEPT ![Asset] = @ - q]
    <3>1. b = [l EXCEPT !.cash = c, !.held = h]
      BY <1>3, <2>3 DEF Booked
    <3>2. h \in [Instruments -> Int] /\ h[Asset] = l.held[Asset] - q
      BY <1>4, <2>1
    <3>3. c \in Int
      BY <1>1, <2>1
    <3> HIDE DEF b, c, h
    <3>5. b \in LedgerType /\ b.fills = l.fills /\ b.cash = c /\ b.held = h
      BY <3>1, <3>2, <3>3 DEF LedgerType
    <3> QED
      BY <2>3, <3>2, <3>5 DEF c
  <2> QED
    BY <2>2, <2>3
<1> HIDE DEF b
<1>6. m \in LedgerType /\ m.cash = b.cash /\ m.held = b.held
  <2>1. [b.prices EXCEPT ![Asset] = price] \in [Instruments -> Int]
    <3>1. b.prices \in [Instruments -> Int]
      BY <1>5 DEF LedgerType
    <3> QED
      BY <1>4, <3>1
  <2>2. m = [b EXCEPT !.fills = l.fills \cup {id}, !.prices = [b.prices EXCEPT ![Asset] = price]]
    BY <1>3, <1>5 DEF LedgerType
  <2>3. l.fills \cup {id} \in FillIds
    BY <1>2 DEF LedgerType, FillIds
  <2> HIDE DEF m
  <2> QED
    BY <1>5, <2>1, <2>2, <2>3 DEF LedgerType
<1>7. ApplyFill(l, f) = Revalued(m)
  BY DEF ApplyFill, m, b
<1> HIDE DEF m
<1>8. /\ Revalued(m) \in LedgerType /\ Revalued(m).cash = m.cash /\ Revalued(m).held = m.held
  BY <1>6, RevaluedType
<1> QED
  BY <1>5, <1>6, <1>7, <1>8 DEF n, fee, FillBooked
-----------------------------------------------------------------------------
(* What a fill is *)

\* A fill price is a natural number, whatever the slippage.
LEMMA FillPriceType ==
  ASSUME NEW side, NEW reference \in Nat
  PROVE  FillPrice(side, reference) \in Nat
<1>1. /\ reference * (Scale + ImpactRate) + Scale - 1 \in Nat
      /\ reference * (Scale - ImpactRate) \in Nat
  <2>1. reference * (Scale + ImpactRate) \in Nat /\ reference * (Scale - ImpactRate) \in Nat
    BY ProductType
  <2> QED
    BY <2>1
<1>2. ASSUME NEW a \in Nat
      PROVE  a \div Scale \in Nat
  OBVIOUS
<1> QED
  BY <1>1, <1>2 DEF FillPrice

\* The share of a bar that an order is given is at most what remains of the order.
LEMMA AllocateBounds ==
  ASSUME NEW remaining \in Nat, NEW volume \in Nat,
         NEW q, q = Allocate(remaining, LiquidityBudget(volume))
  PROVE  q \in Nat /\ q <= remaining
<1>1. LiquidityBudget(volume) \in Nat
  <2>1. volume * Participation \in Nat
    BY ProductType
  <2>2. (volume * Participation) \div Scale \in Nat
    BY <2>1
  <2> QED
    BY <2>2, FloorBelow DEF LiquidityBudget
<1>2. /\ Smaller(remaining, LiquidityBudget(volume)) \in Nat
      /\ Smaller(remaining, LiquidityBudget(volume)) <= remaining
  BY <1>1 DEF Smaller
<1> QED
  BY <1>2, FloorBelow DEF Allocate

FilledQuantity(e, b) == Allocate(e.pending.quantity, LiquidityBudget(b.volume))
FilledPrice(e, b) == FillPrice(e.pending.side, Reference(e.pending, b))

\* A fill that changes anything.
LEMMA FillFacts ==
  ASSUME NEW e \in EngineType, NEW b \in BarType, NEW n \in Nat, Fill(e, b, n) # e,
         NEW q, q = FilledQuantity(e, b), NEW price, price = FilledPrice(e, b)
  PROVE  /\ q \in Nat \ {0} /\ q <= e.pending.quantity /\ price \in Nat
         /\ MayFill(e.pending, n) /\ e.pending.side \in {"buy", "sell"}
         /\ Executable(e.pending, q, b, e.ledger.cash)
         /\ Fill(e, b, n).pending = Remainder(e.pending, q, price)
         /\ Fill(e, b, n) \in [pending : {Remainder(e.pending, q, price)},
                               trade : {Fill(e, b, n).trade}, ledger : LedgerType,
                               booked : {Fill(e, b, n).booked}]
         /\ e.pending.side = "buy" =>
              /\ Fill(e, b, n).trade = Bought(e.trade, e.pending, q, price, n)
              /\ Fill(e, b, n).booked = e.booked
              /\ Fill(e, b, n).ledger.cash = e.ledger.cash - (q * price * Scale + Fee(q, price))
              /\ Fill(e, b, n).ledger.held[Asset] = e.ledger.held[Asset] + q
         /\ e.pending.side = "sell" =>
              /\ Fill(e, b, n).trade = (IF Sold(e.trade, q, price).quantity = 0 THEN NoTrade
                                        ELSE Sold(e.trade, q, price))
              /\ Fill(e, b, n).booked = (IF Sold(e.trade, q, price).quantity = 0
                                         THEN e.booked + NetPnl(Sold(e.trade, q, price))
                                         ELSE e.booked)
              /\ Fill(e, b, n).ledger.cash = e.ledger.cash + q * price * Scale - Fee(q, price)
              /\ Fill(e, b, n).ledger.held[Asset] = e.ledger.held[Asset] - q
<1> DEFINE p == e.pending
           f == [id |-> Cardinality(e.ledger.fills) + 1, instrument |-> Asset, side |-> p.side,
                 quantity |-> q, price |-> price, fee |-> Fee(q, price)]
           sold == Sold(e.trade, q, price)
           l == ApplyFill(e.ledger, f)
<1>1. p \in OrderType /\ e.ledger \in LedgerType
  BY DEF EngineType
<1>2. q \in Nat /\ q <= p.quantity
  BY <1>1, AllocateBounds DEF FilledQuantity, OrderType, BarType
<1>3. price \in Nat
  <2>1. Reference(p, b) \in Nat
    BY <1>1 DEF Reference, Smaller, OrderType, BarType
  <2> QED
    BY <2>1, FillPriceType DEF FilledPrice
<1>4. Fill(e, b, n) =
         IF ~ MayFill(p, n) \/ q = 0 \/ ~ Executable(p, q, b, e.ledger.cash) THEN e
         ELSE IF p.side = "buy"
         THEN [e EXCEPT !.pending = Remainder(p, q, price), !.ledger = l,
                        !.trade = Bought(e.trade, p, q, price, n)]
         ELSE [e EXCEPT !.pending = Remainder(p, q, price), !.ledger = l,
                        !.trade = IF sold.quantity = 0 THEN NoTrade ELSE sold,
                        !.booked = IF sold.quantity = 0 THEN @ + NetPnl(sold) ELSE @]
  BY DEF Fill, FilledQuantity, FilledPrice
<1>5. MayFill(p, n) /\ q # 0 /\ Executable(p, q, b, e.ledger.cash)
  BY <1>4
<1>6. p.side \in {"buy", "sell"}
  BY <1>1, <1>5 DEF MayFill, OrderType
<1>7. /\ l \in LedgerType
      /\ p.side = "buy" => /\ l.cash = e.ledger.cash - (q * price * Scale + Fee(q, price))
                           /\ l.held[Asset] = e.ledger.held[Asset] + q
      /\ p.side # "buy" => /\ l.cash = e.ledger.cash + q * price * Scale - Fee(q, price)
                           /\ l.held[Asset] = e.ledger.held[Asset] - q
  <2>1. f = [id |-> Cardinality(e.ledger.fills) + 1, instrument |-> Asset, side |-> p.side,
             quantity |-> q, price |-> price, fee |-> Fee(q, price)]
    OBVIOUS
  <2> HIDE DEF f
  <2>2. FillBooked(e.ledger, p.side, q, price, l)
    BY Zenon, <1>1, <1>2, <1>3, <2>1, ApplyFillBooks
  <2> HIDE DEF l, p
  <2> QED
    BY ONLY <2>2 DEF FillBooked
<1> DEFINE R == Remainder(p, q, price)
           B == Bought(e.trade, p, q, price, n)
           T == IF sold.quantity = 0 THEN NoTrade ELSE sold
           K == IF sold.quantity = 0 THEN e.booked + NetPnl(sold) ELSE e.booked
<1>8. CASE p.side = "buy"
  <2>1. Fill(e, b, n) = [e EXCEPT !.pending = R, !.ledger = l, !.trade = B]
    BY <1>4, <1>5, <1>8
  <2> HIDE DEF R, l, B, f
  <2>2. /\ Fill(e, b, n).pending = R /\ Fill(e, b, n).trade = B /\ Fill(e, b, n).ledger = l
        /\ Fill(e, b, n).booked = e.booked
        /\ Fill(e, b, n) \in [pending : {R}, trade : {B}, ledger : LedgerType, booked : {e.booked}]
    BY <1>7, <2>1 DEF EngineType
  <2> QED
    BY <1>2, <1>3, <1>5, <1>6, <1>7, <1>8, <2>2 DEF R, B
<1>9. CASE p.side = "sell"
  <2>1. Fill(e, b, n) = [e EXCEPT !.pending = R, !.ledger = l, !.trade = T, !.booked = K]
    BY <1>4, <1>5, <1>9
  <2> HIDE DEF R, l, T, K, f
  <2>2. /\ Fill(e, b, n).pending = R /\ Fill(e, b, n).trade = T /\ Fill(e, b, n).ledger = l
        /\ Fill(e, b, n).booked = K
        /\ Fill(e, b, n) \in [pending : {R}, trade : {T}, ledger : LedgerType, booked : {K}]
    BY <1>7, <2>1 DEF EngineType
  <2> QED
    BY <1>2, <1>3, <1>5, <1>6, <1>7, <1>9, <2>2 DEF R, T, K
<1> QED
  BY <1>6, <1>8, <1>9
-----------------------------------------------------------------------------
(* The books, through each part of a turn *)

\* A fee of at most the whole notional, so that no sale costs money.
FeeIsShare == FeeRate <= Scale

Books(e) ==
    /\ e.trade.quantity = e.ledger.held[Asset]
    /\ e.trade.quantity = e.trade.entryQuantity - e.trade.exitQuantity
    /\ e.trade # NoTrade => e.trade.quantity > 0
    /\ e.ledger.cash = StartingCash * Scale + e.booked + NetPnl(e.trade)
    /\ FeeIsShare => e.ledger.cash >= 0

\* The pending order: a sale is of all that is held.
Orderly(e) ==
    /\ e.pending.side = "sell" => e.trade # NoTrade /\ e.pending.quantity = e.trade.quantity
    /\ e.pending.side = "none" => e.pending = NoOrder

Sound(e) == e \in EngineType /\ Books(e) /\ Orderly(e)

\* The engine without a trade: nothing held, nothing earned.
LEMMA NoTradeFacts == NoTrade \in TradeType /\ NoTrade.quantity = 0 /\ NetPnl(NoTrade) = 0
BY DEF NoTrade, TradeType, NetPnl

\* The engine without a pending order.
LEMMA NoOrderFacts == NoOrder \in OrderType /\ NoOrder.side = "none"
BY DEF NoOrder, OrderType

\* An exit order for the open trade keeps the engine sound.
LEMMA ExitKeeps ==
  ASSUME NEW e, Sound(e), e.trade # NoTrade, NEW n \in Nat,
         NEW d, d = [e EXCEPT !.pending = ExitOrder(e.trade, n)]
  PROVE  /\ Sound(d) /\ d.trade = e.trade /\ d.ledger = e.ledger /\ d.booked = e.booked
         /\ d.pending.side = "sell" /\ d.pending.index = n
<1> DEFINE x == ExitOrder(e.trade, n)
<1>1. e \in EngineType /\ e.trade \in TradeType
  BY DEF Sound, EngineType
<1>2. x \in OrderType /\ x.side = "sell" /\ x.quantity = e.trade.quantity /\ x.index = n
  <2> DEFINE q == e.trade.quantity
  <2>1. q \in Nat
    BY <1>1 DEF TradeType
  <2>2. x = [NoOrder EXCEPT !.side = "sell", !.quantity = q, !.index = n]
    BY DEF ExitOrder
  <2> HIDE DEF q, x
  <2> QED
    BY <2>1, <2>2, NoOrderFacts DEF OrderType, q
<1> HIDE DEF x
<1>3. d \in EngineType /\ d.pending = x /\ d.trade = e.trade /\ d.ledger = e.ledger
      /\ d.booked = e.booked
  BY <1>1, <1>2 DEF EngineType, x
<1>4. Books(d)
  BY <1>3 DEF Sound, Books
<1>5. Orderly(d)
  BY <1>2, <1>3 DEF Orderly
<1> QED
  BY <1>2, <1>3, <1>4, <1>5 DEF Sound

\* There is a quantity exactly while there is a trade.
LEMMA HeldIsTrade ==
  ASSUME NEW e, Sound(e)
  PROVE  e.trade.quantity > 0 <=> e.trade # NoTrade
BY NoTradeFacts DEF Sound, Books

\* An entry is given up only for the exit of what it bought, and the books stay.
LEMMA GiveUpKeeps ==
  ASSUME NEW e, Sound(e), NEW b, NEW n \in Nat, NEW d, d = GiveUpEntry(e, b, n)
  PROVE  /\ Sound(d) /\ d.trade = e.trade /\ d.ledger = e.ledger /\ d.booked = e.booked
         /\ d.pending # e.pending => d.pending.side = "sell" /\ d.pending.index = n
         /\ d.pending.side = "buy" => d.pending = e.pending /\ ~ MustExit(e.trade, b, n)
<1>1. CASE e.pending.side = "buy" /\ MustExit(e.trade, b, n)
  <2>1. e.trade # NoTrade
    BY <1>1, HeldIsTrade DEF MustExit
  <2>2. d = [e EXCEPT !.pending = ExitOrder(e.trade, n)]
    BY <1>1 DEF GiveUpEntry
  <2>3. /\ Sound(d) /\ d.trade = e.trade /\ d.ledger = e.ledger /\ d.booked = e.booked
        /\ d.pending.side = "sell" /\ d.pending.index = n
    BY <2>1, <2>2, ExitKeeps
  <2> QED
    BY <2>3
<1>2. CASE ~ (e.pending.side = "buy" /\ MustExit(e.trade, b, n))
  BY <1>2 DEF GiveUpEntry
<1> QED
  BY <1>1, <1>2

\* Marking at the close revalues the ledger and changes nothing else.
LEMMA MarkKeeps ==
  ASSUME NEW e, Sound(e), NEW b \in BarType, NEW d, d = MarkAtClose(e, b)
  PROVE  /\ Sound(d) /\ d.trade = e.trade /\ d.pending = e.pending /\ d.booked = e.booked
         /\ d.ledger.held = e.ledger.held /\ d.ledger.fills = e.ledger.fills
<1> DEFINE closes == [i \in Instruments |-> b.close]
           marks == [i \in Instruments |-> IF closes[i] = 0 THEN e.ledger.prices[i] ELSE closes[i]]
           m == [e.ledger EXCEPT !.prices = marks]
           l == Mark(e.ledger, closes)
<1>1. e \in EngineType /\ e.ledger \in LedgerType
  BY DEF Sound, EngineType
<1>2. marks \in [Instruments -> Int]
  BY <1>1 DEF LedgerType, BarType
<1>3. l = Revalued(m)
  BY DEF Mark
<1> HIDE DEF marks
<1>4. m \in LedgerType /\ m.cash = e.ledger.cash /\ m.held = e.ledger.held
      /\ m.fills = e.ledger.fills
  BY <1>1, <1>2 DEF LedgerType
<1> HIDE DEF m
<1>5. l \in LedgerType /\ l.cash = e.ledger.cash /\ l.held = e.ledger.held
      /\ l.fills = e.ledger.fills
  BY <1>3, <1>4, RevaluedType
<1>6. d = [e EXCEPT !.ledger = l]
  BY DEF MarkAtClose
<1> HIDE DEF l
<1>7. d \in EngineType /\ d.ledger = l /\ d.trade = e.trade /\ d.pending = e.pending
      /\ d.booked = e.booked
  BY <1>1, <1>5, <1>6 DEF EngineType
<1>8. Books(d) /\ Orderly(d)
  BY <1>5, <1>7 DEF Sound, Books, Orderly
<1> QED
  BY <1>5, <1>7, <1>8 DEF Sound

\* A due exit becomes the pending order, unless there is one.
LEMMA SubmitExitKeeps ==
  ASSUME NEW e, Sound(e), NEW b, NEW n \in Nat, NEW d, d = SubmitExit(e, b, n)
  PROVE  /\ Sound(d) /\ d.trade = e.trade /\ d.ledger = e.ledger /\ d.booked = e.booked
         /\ d.pending.side = "buy" => d.pending = e.pending
         /\ MustExit(e.trade, b, n) /\ e.pending = NoOrder => d.pending.side = "sell"
         /\ e.pending # NoOrder => d.pending = e.pending
<1>1. CASE e.pending = NoOrder /\ MustExit(e.trade, b, n)
  <2>1. e.trade # NoTrade
    BY <1>1, HeldIsTrade DEF MustExit
  <2>2. d = [e EXCEPT !.pending = ExitOrder(e.trade, n)]
    BY <1>1 DEF SubmitExit
  <2>3. /\ Sound(d) /\ d.trade = e.trade /\ d.ledger = e.ledger /\ d.booked = e.booked
        /\ d.pending.side = "sell"
    BY <2>1, <2>2, ExitKeeps
  <2> QED
    BY <1>1, <2>3
<1>2. CASE ~ (e.pending = NoOrder /\ MustExit(e.trade, b, n))
  BY <1>2 DEF SubmitExit
<1> QED
  BY <1>1, <1>2

\* A closeout at the end of a day puts the exit of an open trade, and the books stay.
LEMMA CloseOutKeeps ==
  ASSUME NEW e, Sound(e), NEW next, NEW n \in Nat, NEW d, d = CloseOut(e, n, next)
  PROVE  /\ Sound(d) /\ d.trade = e.trade /\ d.ledger = e.ledger /\ d.booked = e.booked
         /\ d.pending.side = "buy" => d.pending = e.pending
         /\ e.pending.side = "sell" => d.pending.side = "sell"
         /\ Closeout /\ next = "next" /\ e.trade # NoTrade => d.pending.side = "sell"
<1>1. CASE Closeout /\ next = "next" /\ e.trade # NoTrade /\ e.pending.side # "sell"
  <2>1. d = [e EXCEPT !.pending = ExitOrder(e.trade, n)]
    BY <1>1 DEF CloseOut
  <2>2. /\ Sound(d) /\ d.trade = e.trade /\ d.ledger = e.ledger /\ d.booked = e.booked
        /\ d.pending.side = "sell"
    BY <1>1, <2>1, ExitKeeps
  <2> QED
    BY <2>2
<1>2. CASE ~ (Closeout /\ next = "next" /\ e.trade # NoTrade /\ e.pending.side # "sell")
  <2>1. d = e
    BY <1>2 DEF CloseOut
  <2> QED
    BY <1>2, <2>1
<1> QED
  BY <1>1, <1>2
-----------------------------------------------------------------------------
(* The books, through a fill *)

\* The trade u is the trade t and a buy.
BoughtFrom(u, t, q, price) ==
    /\ u \in TradeType
    /\ u.quantity = t.quantity + q /\ u.entryQuantity = t.entryQuantity + q
    /\ u.entryNotional = t.entryNotional + q * price * Scale
    /\ u.entryFees = t.entryFees + Fee(q, price)
    /\ u.exitQuantity = t.exitQuantity /\ u.exitNotional = t.exitNotional
    /\ u.exitFees = t.exitFees

\* A buy adds its quantity, cost and fee to the trade.
LEMMA BoughtFacts ==
  ASSUME NEW t \in TradeType, NEW p \in OrderType, NEW q \in Nat, NEW price \in Nat,
         NEW n \in Nat
  PROVE  BoughtFrom(Bought(t, p, q, price, n), t, q, price)
<1> DEFINE u == Bought(t, p, q, price, n)
<1> DEFINE c == q * price * Scale
           fee == Fee(q, price)
           start == IF t = NoTrade
                    THEN [NoTrade EXCEPT !.stop = p.stop, !.target = p.target, !.opened = n]
                    ELSE t
<1>1. c \in Int /\ fee \in Int
  BY DEF Fee
<1>2. /\ start \in TradeType
      /\ start.quantity = t.quantity /\ start.entryQuantity = t.entryQuantity
      /\ start.entryNotional = t.entryNotional /\ start.entryFees = t.entryFees
      /\ start.exitQuantity = t.exitQuantity /\ start.exitNotional = t.exitNotional
      /\ start.exitFees = t.exitFees
  <2>1. CASE t = NoTrade
    <3>1. p.stop \in Nat /\ p.target \in Nat
      BY DEF OrderType
    <3>2. start = [t EXCEPT !.stop = p.stop, !.target = p.target, !.opened = n]
      BY <2>1
    <3> HIDE DEF start
    <3> QED
      BY <2>1, <3>1, <3>2 DEF TradeType
  <2>2. CASE t # NoTrade
    BY <2>2
  <2> QED
    BY <2>1, <2>2
<1> HIDE DEF start
<1> DEFINE q1 == start.quantity + q
           e1 == start.entryQuantity + q
           c1 == start.entryNotional + c
           f1 == start.entryFees + fee
<1>3. u = [start EXCEPT !.quantity = q1, !.entryQuantity = e1, !.entryNotional = c1,
                        !.entryFees = f1]
  BY DEF Bought, start
<1> HIDE DEF c, fee
<1>5. q1 \in Nat /\ e1 \in Nat /\ c1 \in Int /\ f1 \in Int
  <2>1. start.quantity \in Nat /\ start.entryQuantity \in Nat /\ start.entryNotional \in Int
        /\ start.entryFees \in Int
    BY <1>2 DEF TradeType
  <2> QED
    BY <1>1, <2>1
<1> HIDE DEF q1, e1, c1, f1, u
<1>4. /\ u \in TradeType
      /\ u.quantity = q1 /\ u.entryQuantity = e1 /\ u.entryNotional = c1 /\ u.entryFees = f1
      /\ u.exitQuantity = start.exitQuantity /\ u.exitNotional = start.exitNotional
      /\ u.exitFees = start.exitFees
  BY <1>2, <1>3, <1>5 DEF TradeType
<1> QED
  BY <1>2, <1>4 DEF c, fee, q1, e1, c1, f1, u, BoughtFrom

\* A trade is bounded by the levels of the order that opened it.
LEMMA BoughtLevels ==
  ASSUME NEW t \in TradeType, NEW p, NEW q, NEW price, NEW n
  PROVE  LET u == Bought(t, p, q, price, n) IN
         /\ t = NoTrade => u.stop = p.stop /\ u.target = p.target /\ u.opened = n
         /\ t # NoTrade => u.stop = t.stop /\ u.target = t.target /\ u.opened = t.opened
BY DEF Bought, NoTrade, TradeType

\* A sale moves its quantity from what is held to what was sold, with price and fee.
LEMMA SoldFacts ==
  ASSUME NEW t \in TradeType, NEW q \in Nat, q <= t.quantity, NEW price \in Nat,
         NEW u, u = Sold(t, q, price)
  PROVE  /\ u \in TradeType
         /\ u.quantity = t.quantity - q /\ u.exitQuantity = t.exitQuantity + q
         /\ u.exitNotional = t.exitNotional + q * price * Scale
         /\ u.exitFees = t.exitFees + Fee(q, price)
         /\ u.entryQuantity = t.entryQuantity /\ u.entryNotional = t.entryNotional
         /\ u.entryFees = t.entryFees
         /\ u.stop = t.stop /\ u.target = t.target /\ u.opened = t.opened
<1> DEFINE c == q * price * Scale
           fee == Fee(q, price)
<1>1. c \in Int /\ fee \in Int
  BY DEF Fee
<1> DEFINE q1 == t.quantity - q
           x1 == t.exitQuantity + q
           c1 == t.exitNotional + c
           f1 == t.exitFees + fee
<1>2. u = [t EXCEPT !.quantity = q1, !.exitQuantity = x1, !.exitNotional = c1, !.exitFees = f1]
  BY DEF Sold
<1> HIDE DEF c, fee
<1>3. q1 \in Nat /\ x1 \in Nat /\ c1 \in Int /\ f1 \in Int
  <2>1. t.quantity \in Nat /\ t.exitQuantity \in Nat /\ t.exitNotional \in Int
        /\ t.exitFees \in Int
    BY DEF TradeType
  <2> QED
    BY <1>1, <2>1
<1> HIDE DEF q1, x1, c1, f1
<1>4. /\ u \in TradeType
      /\ u.quantity = q1 /\ u.exitQuantity = x1 /\ u.exitNotional = c1 /\ u.exitFees = f1
      /\ u.entryQuantity = t.entryQuantity /\ u.entryNotional = t.entryNotional
      /\ u.entryFees = t.entryFees
      /\ u.stop = t.stop /\ u.target = t.target /\ u.opened = t.opened
  BY <1>2, <1>3 DEF TradeType
<1> QED
  BY <1>4 DEF c, fee, q1, x1, c1, f1

\* What is left of an order after a partial fill keeps its approval and remembers what was used.
LEMMA RemainderFacts ==
  ASSUME NEW p \in OrderType, p.side \in {"buy", "sell"}, NEW q \in Nat, q <= p.quantity,
         NEW price \in Nat, NEW r, r = Remainder(p, q, price)
  PROVE  /\ r \in OrderType
         /\ q = p.quantity => r = NoOrder
         /\ q # p.quantity =>
              /\ r.side = p.side /\ r.quantity = p.quantity - q /\ r.stop = p.stop
              /\ r.approvedNotional = p.approvedNotional /\ r.approvedRisk = p.approvedRisk
              /\ p.side = "buy" =>
                    /\ r.filledNotional = p.filledNotional + q * price * Scale
                    /\ r.filledRisk = p.filledRisk + q * (price - p.stop) * Scale
<1> DEFINE c == q * price * Scale
           risk == q * (price - p.stop) * Scale
<1>1. c \in Int /\ risk \in Int
  BY DEF OrderType
<1>2. CASE q = p.quantity
  BY <1>2, NoOrderFacts DEF Remainder
<1>3. CASE q # p.quantity /\ p.side = "sell"
  <2>1. r = [p EXCEPT !.quantity = @ - q]
    BY <1>3 DEF Remainder
  <2> QED
    BY <1>3, <2>1 DEF OrderType
<1>4. CASE q # p.quantity /\ p.side = "buy"
  <2> DEFINE q1 == p.quantity - q
             c1 == p.filledNotional + c
             r1 == p.filledRisk + risk
  <2>1. r = [p EXCEPT !.quantity = q1, !.filledNotional = c1, !.filledRisk = r1]
    BY <1>4 DEF Remainder
  <2> HIDE DEF c, risk
  <2>2. q1 \in Nat /\ c1 \in Int /\ r1 \in Int
    <3>1. p.quantity \in Nat /\ p.filledNotional \in Int /\ p.filledRisk \in Int
      BY DEF OrderType
    <3> QED
      BY <1>1, <3>1
  <2> HIDE DEF q1, c1, r1
  <2>3. /\ r \in OrderType /\ r.side = p.side /\ r.quantity = q1 /\ r.stop = p.stop
        /\ r.approvedNotional = p.approvedNotional /\ r.approvedRisk = p.approvedRisk
        /\ r.filledNotional = c1 /\ r.filledRisk = r1
    BY <2>1, <2>2 DEF OrderType
  <2> QED
    BY <1>4, <2>3 DEF c, risk, q1, c1, r1
<1> QED
  BY <1>2, <1>3, <1>4

\* A fee is a natural number and, where fees are a share, at most the notional.
LEMMA FeeBounds ==
  ASSUME NEW q \in Nat, NEW price \in Nat
  PROVE  /\ q * price * Scale \in Nat /\ Fee(q, price) \in Nat
         /\ FeeIsShare => Fee(q, price) <= q * price * Scale
<1> DEFINE m == q * price
<1>1. m \in Nat
  BY ProductType
<1>2. FeeRate \in Nat /\ Scale \in Nat
  OBVIOUS
<1>3. Fee(q, price) = m * FeeRate
  BY DEF Fee
<1> HIDE DEF m
<1>4. m * FeeRate \in Nat /\ m * Scale \in Nat
  BY <1>1, <1>2, ProductType
<1>5. FeeIsShare => FeeRate * m <= Scale * m
  BY <1>1, <1>2, ProductKeepsOrder DEF FeeIsShare
<1>6. FeeRate * m = m * FeeRate /\ Scale * m = m * Scale
  BY <1>1, <1>2
<1> QED
  BY <1>3, <1>4, <1>5, <1>6 DEF m

\* A buy keeps the books and the engine sound.
LEMMA BuyKeeps ==
  ASSUME NEW e, Sound(e), NEW b \in BarType, NEW n \in Nat, NEW d, d = Fill(e, b, n),
         d # e, e.pending.side = "buy"
  PROVE  Sound(d)
<1> DEFINE q == FilledQuantity(e, b)
           price == FilledPrice(e, b)
           c == q * price * Scale
           fee == Fee(q, price)
           t == e.trade
           r == Remainder(e.pending, q, price)
<1>1. e \in EngineType /\ Books(e) /\ t \in TradeType /\ e.pending \in OrderType
      /\ e.booked \in Int /\ e.ledger.cash \in Int
  BY DEF Sound, EngineType, LedgerType
<1>2. /\ q \in Nat \ {0} /\ q <= e.pending.quantity /\ price \in Nat
      /\ Executable(e.pending, q, b, e.ledger.cash)
      /\ d.pending = r
      /\ d \in [pending : {r}, trade : {d.trade}, ledger : LedgerType, booked : {d.booked}]
      /\ d.trade = Bought(t, e.pending, q, price, n) /\ d.booked = e.booked
      /\ d.ledger.cash = e.ledger.cash - (c + fee)
      /\ d.ledger.held[Asset] = e.ledger.held[Asset] + q
  BY <1>1, FillFacts
<1>3. c \in Nat /\ fee \in Nat
  BY <1>2, FeeBounds
<1>4. FilledPrice(e, b) = FillPrice("buy", Reference(e.pending, b))
  BY DEF FilledPrice
<1>5. c + fee <= e.ledger.cash
  BY <1>2, <1>4 DEF Executable
<1> HIDE DEF q, price
<1>6. /\ d.trade \in TradeType
      /\ d.trade.quantity = t.quantity + q /\ d.trade.entryQuantity = t.entryQuantity + q
      /\ d.trade.entryNotional = t.entryNotional + c /\ d.trade.entryFees = t.entryFees + fee
      /\ d.trade.exitQuantity = t.exitQuantity /\ d.trade.exitNotional = t.exitNotional
      /\ d.trade.exitFees = t.exitFees
  <2> DEFINE p == e.pending
             u == d.trade
  <2>1. q \in Nat /\ price \in Nat /\ u = Bought(t, p, q, price, n) /\ t \in TradeType
        /\ p \in OrderType
    BY <1>1, <1>2
  <2> HIDE DEF r, t, p, u, c, fee
  <2>2. BoughtFrom(u, t, q, price)
    BY <2>1, BoughtFacts
  <2> QED
    BY <2>2 DEF BoughtFrom, c, fee, u
<1>7. /\ r \in OrderType
      /\ q = e.pending.quantity => r = NoOrder
      /\ q # e.pending.quantity => r.side = e.pending.side
  BY <1>1, <1>2, RemainderFacts
<1> HIDE DEF c, fee, r
<1>8. d \in EngineType
  <2>1. d \in [pending : OrderType, trade : TradeType, ledger : LedgerType, booked : Int]
    BY <1>1, <1>2, <1>6, <1>7
  <2> QED
    BY <2>1 DEF EngineType
<1>9. Orderly(d)
  BY <1>2, <1>7, NoOrderFacts DEF Orderly
<1>10. NetPnl(d.trade) = NetPnl(t) - c - fee /\ NetPnl(t) \in Int
  <2>1. /\ t.entryNotional \in Int /\ t.entryFees \in Int /\ t.exitNotional \in Int
        /\ t.exitFees \in Int
    BY <1>1 DEF TradeType
  <2> QED
    BY <1>3, <1>6, <2>1 DEF NetPnl
<1>11. Books(d)
  <2>1. /\ t.quantity = e.ledger.held[Asset] /\ t.quantity = t.entryQuantity - t.exitQuantity
        /\ e.ledger.cash = StartingCash * Scale + e.booked + NetPnl(t)
      /\ (FeeIsShare => e.ledger.cash >= 0)
    BY <1>1 DEF Books
  <2>2. t.quantity \in Nat /\ t.entryQuantity \in Nat /\ t.exitQuantity \in Nat
    BY <1>1 DEF TradeType
  <2>3. StartingCash * Scale \in Int
    BY LedgerAssumption, ProductType
  <2>4. d.trade.quantity = d.ledger.held[Asset]
        /\ d.trade.quantity = d.trade.entryQuantity - d.trade.exitQuantity
        /\ d.trade.quantity > 0
    BY <1>2, <1>6, <2>1, <2>2
  <2>5. d.ledger.cash = StartingCash * Scale + d.booked + NetPnl(d.trade)
          /\ (FeeIsShare => d.ledger.cash >= 0)
    <3> DEFINE start == StartingCash * Scale
    <3> HIDE DEF start
    <3>1. start \in Int
      BY <2>3 DEF start
    <3>2. e.ledger.cash = start + e.booked + NetPnl(t)
      BY <2>1 DEF start
    <3>3. d.ledger.cash = start + d.booked + NetPnl(d.trade)
          /\ (FeeIsShare => d.ledger.cash >= 0)
      BY <1>1, <1>2, <1>3, <1>5, <1>10, <3>1, <3>2
    <3> QED
      BY <3>3 DEF start
  <2> QED
    BY <2>4, <2>5 DEF Books
<1> QED
  BY <1>8, <1>9, <1>11 DEF Sound

\* A sale keeps the books and the engine sound.
LEMMA SellKeeps ==
  ASSUME NEW e, Sound(e), NEW b \in BarType, NEW n \in Nat, NEW d, d = Fill(e, b, n),
         d # e, e.pending.side = "sell"
  PROVE  Sound(d)
<1> DEFINE q == FilledQuantity(e, b)
           price == FilledPrice(e, b)
           c == q * price * Scale
           fee == Fee(q, price)
           t == e.trade
           u == Sold(t, q, price)
           r == Remainder(e.pending, q, price)
<1>1. e \in EngineType /\ Books(e) /\ t \in TradeType /\ e.pending \in OrderType
      /\ e.booked \in Int /\ e.ledger.cash \in Int
  BY DEF Sound, EngineType, LedgerType
<1>2. /\ q \in Nat \ {0} /\ q <= e.pending.quantity /\ price \in Nat
      /\ d.pending = r
      /\ d \in [pending : {r}, trade : {d.trade}, ledger : LedgerType, booked : {d.booked}]
      /\ d.trade = (IF u.quantity = 0 THEN NoTrade ELSE u)
      /\ d.booked = (IF u.quantity = 0 THEN e.booked + NetPnl(u) ELSE e.booked)
      /\ d.ledger.cash = e.ledger.cash + c - fee
      /\ d.ledger.held[Asset] = e.ledger.held[Asset] - q
  BY <1>1, FillFacts
<1>3. e.pending.quantity = t.quantity
  BY DEF Sound, Orderly
<1>4. c \in Nat /\ fee \in Nat /\ (FeeIsShare => fee <= c)
  BY <1>2, FeeBounds
<1> HIDE DEF q, price
<1>5. /\ u \in TradeType
      /\ u.quantity = t.quantity - q /\ u.exitQuantity = t.exitQuantity + q
      /\ u.exitNotional = t.exitNotional + c /\ u.exitFees = t.exitFees + fee
      /\ u.entryQuantity = t.entryQuantity /\ u.entryNotional = t.entryNotional
      /\ u.entryFees = t.entryFees
  BY <1>1, <1>2, <1>3, SoldFacts
<1>6. /\ r \in OrderType
      /\ q = e.pending.quantity => r = NoOrder
      /\ q # e.pending.quantity => r.side = e.pending.side /\ r.quantity = e.pending.quantity - q
  BY <1>1, <1>2, RemainderFacts
<1> HIDE DEF c, fee, r, u
<1>7. NetPnl(u) = NetPnl(t) + c - fee /\ NetPnl(t) \in Int
  <2>1. /\ t.entryNotional \in Int /\ t.entryFees \in Int /\ t.exitNotional \in Int
        /\ t.exitFees \in Int
    BY <1>1 DEF TradeType
  <2> QED
    BY <1>4, <1>5, <2>1 DEF NetPnl
<1>8. d.trade \in TradeType /\ d.booked \in Int
  BY <1>1, <1>2, <1>4, <1>5, <1>7, NoTradeFacts
<1>9. d \in EngineType
  <2>1. d \in [pending : OrderType, trade : TradeType, ledger : LedgerType, booked : Int]
    BY <1>2, <1>6, <1>8
  <2> QED
    BY <2>1 DEF EngineType
<1>10. /\ t.quantity = e.ledger.held[Asset] /\ t.quantity = t.entryQuantity - t.exitQuantity
       /\ e.ledger.cash = StartingCash * Scale + e.booked + NetPnl(t)
      /\ (FeeIsShare => e.ledger.cash >= 0)
  BY <1>1 DEF Books
<1>11. t.quantity \in Nat /\ t.entryQuantity \in Nat /\ t.exitQuantity \in Nat
       /\ e.pending.quantity \in Nat /\ u.quantity \in Nat
  BY <1>1, <1>5 DEF TradeType, OrderType
<1>12. Orderly(d)
  <2>1. CASE q = e.pending.quantity
    BY <1>2, <1>6, <2>1, NoOrderFacts DEF Orderly
  <2>2. CASE q # e.pending.quantity
    <3>1. u.quantity # 0 /\ r.quantity = u.quantity /\ r.side = "sell"
      BY <1>2, <1>3, <1>5, <1>6, <1>11, <2>2
    <3> QED
      BY <1>2, <3>1, NoTradeFacts DEF Orderly
  <2> QED
    BY <2>1, <2>2
<1>13. Books(d)
  <2> DEFINE start == StartingCash * Scale
  <2>1. start \in Int
    BY LedgerAssumption, ProductType
  <2>2. e.ledger.cash = start + e.booked + NetPnl(t)
    BY <1>10
  <2> HIDE DEF start
  <2>3. /\ d.trade.quantity = d.ledger.held[Asset]
        /\ d.trade.quantity = d.trade.entryQuantity - d.trade.exitQuantity
        /\ d.trade # NoTrade => d.trade.quantity > 0
    <3>1. u.quantity = d.ledger.held[Asset] /\ u.quantity = u.entryQuantity - u.exitQuantity
      BY <1>2, <1>5, <1>10, <1>11
    <3>2. CASE u.quantity = 0
      BY <1>2, <3>1, <3>2 DEF NoTrade
    <3>3. CASE u.quantity # 0
      BY <1>2, <1>11, <3>1, <3>3
    <3> QED
      BY <3>2, <3>3
  <2>4. d.ledger.cash = start + d.booked + NetPnl(d.trade)
          /\ (FeeIsShare => d.ledger.cash >= 0)
    <3>1. d.ledger.cash = start + e.booked + NetPnl(u)
          /\ (FeeIsShare => d.ledger.cash >= 0)
      BY <1>1, <1>2, <1>4, <1>7, <1>10, <2>1, <2>2
    <3>2. d.booked + NetPnl(d.trade) = e.booked + NetPnl(u)
      <4>1. NetPnl(u) \in Int
        BY <1>4, <1>7
      <4> QED
        BY <1>1, <1>2, <4>1, NoTradeFacts
    <3>3. NetPnl(u) \in Int /\ NetPnl(d.trade) \in Int
      BY <1>2, <1>4, <1>7, NoTradeFacts
    <3>4. e.booked \in Int /\ d.booked \in Int
      BY <1>1, <1>8
    <3> DEFINE x == NetPnl(u)
               y == NetPnl(d.trade)
    <3> HIDE DEF x, y
    <3>5. d.ledger.cash = start + e.booked + x /\ x \in Int /\ y \in Int
          /\ d.booked + y = e.booked + x
      BY <3>1, <3>2, <3>3 DEF x, y
    <3>6. d.ledger.cash = start + d.booked + y
      <4> DEFINE now == d.ledger.cash
                 z == d.booked
                 w == e.booked
      <4>1. start \in Int /\ w \in Int /\ z \in Int /\ x \in Int /\ y \in Int
        BY <2>1, <3>4, <3>5
      <4>2. now = start + w + x /\ z + y = w + x
        BY <3>5
      <4> HIDE DEF now, z, w
      <4>3. now = start + z + y
        BY ONLY <4>1, <4>2
      <4> QED
        BY <4>3 DEF now, z
    <3> QED
      BY <3>1, <3>6 DEF y
  <2> QED
    BY <2>3, <2>4 DEF Books, start
<1> QED
  BY <1>9, <1>12, <1>13 DEF Sound

\* So does whatever the pending order does at a bar.
LEMMA FillKeeps ==
  ASSUME NEW e, Sound(e), NEW b \in BarType, NEW n \in Nat
  PROVE  Sound(Fill(e, b, n))
<1>1. Fill(e, b, n) # e => e.pending.side \in {"buy", "sell"}
  BY FillFacts DEF Sound
<1> QED
  BY <1>1, BuyKeeps, SellKeeps
-----------------------------------------------------------------------------
(* The books, through a whole turn *)

\* The snapshot of a ledger is a portfolio that the risk engine can be asked about.
LEMMA SnapshotType ==
  ASSUME NEW l \in LedgerType
  PROVE  Snapshot(l) \in Portfolio
<1>1. /\ l.held[Asset] \in Int /\ l.prices[Asset] \in Int
      /\ l.cash \in Int /\ l.equity \in Int /\ l.peak \in Int
  BY AssetAssumption DEF LedgerType
<1> DEFINE exposure == l.held[Asset] * l.prices[Asset] * Scale
           daily == l.equity - StartingCash * Scale
<1>2. exposure \in Int
  BY <1>1, ProductType
<1>3. daily \in Int
  BY <1>1, LedgerAssumption, ProductType
<1>4. Snapshot(l) = [cash |-> l.cash, equity |-> l.equity, peak |-> l.peak, gross |-> exposure,
                     held |-> exposure, daily |-> daily]
  BY DEF Snapshot
<1> HIDE DEF exposure, daily
<1> QED
  BY <1>1, <1>2, <1>3, <1>4 DEF Portfolio

\* An accepted signal becomes a buy of the sized quantity, with the approved notional and risk.
LEMMA EntryOrderFacts ==
  ASSUME NEW s \in SignalType, NEW p \in Portfolio, Accepted(s, p), NEW n \in Nat,
         NEW o, o = EntryOrder(s, p, n), NEW q, q = SizedQuantity(s, p)
  PROVE  /\ o \in OrderType /\ o.side = "buy" /\ o.quantity = q /\ o.index = n
         /\ o.limit = s.entry /\ o.stop = s.stop /\ o.target = s.target
         /\ o.approvedNotional = q * s.entry * Scale
         /\ o.approvedRisk = q * (s.entry - s.stop) * Scale
         /\ o.filledNotional = 0 /\ o.filledRisk = 0
<1>1. /\ q \in Nat \ {0} /\ 0 < s.stop /\ s.stop < s.entry /\ s.entry < s.target
  BY SizedBounds DEF Accepted
<1>2. s.entry \in Nat /\ s.stop \in Nat /\ s.target \in Nat /\ s.entry - s.stop \in Nat
  BY <1>1 DEF SignalType
<1> DEFINE notional == q * s.entry * Scale
           risk == q * (s.entry - s.stop) * Scale
<1>3. notional \in Nat /\ risk \in Nat
  BY <1>1, <1>2, ProductType
<1>4. o = [NoOrder EXCEPT !.side = "buy", !.quantity = q, !.index = n, !.limit = s.entry,
                          !.stop = s.stop, !.target = s.target,
                          !.approvedNotional = notional, !.approvedRisk = risk]
  BY DEF EntryOrder, Intent
<1> HIDE DEF notional, risk
<1>5. NoOrder = [side |-> "none", quantity |-> 0, index |-> 0, limit |-> 0, stop |-> 0,
                 target |-> 0, approvedNotional |-> 0, approvedRisk |-> 0,
                 filledNotional |-> 0, filledRisk |-> 0]
  BY DEF NoOrder
<1>6. o = [side |-> "buy", quantity |-> q, index |-> n, limit |-> s.entry, stop |-> s.stop,
           target |-> s.target, approvedNotional |-> notional, approvedRisk |-> risk,
           filledNotional |-> 0, filledRisk |-> 0]
  BY <1>4, <1>5
<1>7. o \in OrderType
  BY <1>1, <1>2, <1>3, <1>6 DEF OrderType
<1> QED
  BY <1>6, <1>7 DEF notional, risk

\* Taking an accepted signal keeps the engine sound, and happens without a trade.
LEMMA EnterKeeps ==
  ASSUME NEW e, Sound(e), MayEnter(e), NEW s \in SignalType, NEW n \in Nat,
         Accepted(s, Snapshot(e.ledger)),
         NEW d, d = [e EXCEPT !.pending = EntryOrder(s, Snapshot(e.ledger), n)]
  PROVE  Sound(d) /\ e.trade = NoTrade
<1> DEFINE o == EntryOrder(s, Snapshot(e.ledger), n)
<1>1. e \in EngineType /\ Snapshot(e.ledger) \in Portfolio
  BY SnapshotType DEF Sound, EngineType
<1>2. o \in OrderType /\ o.side = "buy"
  BY <1>1, EntryOrderFacts
<1> HIDE DEF o
<1>3. d \in EngineType /\ d.pending = o /\ d.trade = e.trade /\ d.ledger = e.ledger
      /\ d.booked = e.booked
  BY <1>1, <1>2 DEF EngineType, o
<1>4. Books(d) /\ Orderly(d)
  BY <1>2, <1>3 DEF Sound, Books, Orderly
<1>5. e.trade = NoTrade
  <2>1. ~ (e.ledger.held[Asset] > 0)
    BY AssetAssumption DEF MayEnter, Positions
  <2> QED
    BY <2>1 DEF Sound, Books
<1> QED
  BY <1>3, <1>4, <1>5 DEF Sound

\* A bar without an entry keeps the engine sound.
LEMMA ManagedKeeps ==
  ASSUME NEW e, Sound(e), NEW b \in BarType, NEW n \in Nat, NEW next
  PROVE  Sound(Managed(e, b, n, next))
<1> DEFINE e1 == GiveUpEntry(e, b, n)
           e2 == Fill(e1, b, n)
           e3 == MarkAtClose(e2, b)
           e4 == SubmitExit(e3, b, n)
           e5 == CloseOut(e4, n, next)
<1>1. Sound(e1)
  BY GiveUpKeeps
<1>2. Sound(e2)
  BY <1>1, FillKeeps
<1>3. Sound(e3)
  BY <1>2, MarkKeeps
<1>4. Sound(e4)
  BY <1>3, SubmitExitKeeps
<1>5. Sound(e5)
  BY <1>4, CloseOutKeeps
<1> QED
  BY <1>5 DEF Managed

SoundState == index \in Nat /\ Sound(engine)

\* The engine starts sound.
LEMMA InitSound == Init => SoundState
<1> SUFFICES ASSUME Init PROVE SoundState
  OBVIOUS
<1>1. StartingCash * Scale \in Nat
  BY LedgerAssumption, ProductType
<1> DEFINE z == [i \in Instruments |-> 0]
           start == StartingCash * Scale
<1>2. EmptyLedger = [cash |-> start, held |-> z, prices |-> z, fills |-> {},
                     equity |-> start, peak |-> start]
  BY DEF EmptyLedger
<1>3. z \in [Instruments -> Int] /\ z[Asset] = 0 /\ {} \in FillIds
  BY AssetAssumption, FS_EmptySet DEF FillIds
<1> HIDE DEF z
<1>4. EmptyLedger \in LedgerType
  <2> HIDE DEF start
  <2> QED
    BY <1>1, <1>2, <1>3 DEF LedgerType, start
<1>5. engine = [pending |-> NoOrder, trade |-> NoTrade, ledger |-> EmptyLedger, booked |-> 0]
  BY DEF Init
<1>6. engine \in EngineType
  BY <1>4, <1>5, NoOrderFacts, NoTradeFacts DEF EngineType
<1>7. Books(engine)
  <2>1. engine.ledger.held[Asset] = 0 /\ engine.ledger.cash = start /\ engine.booked = 0
        /\ engine.trade = NoTrade
    BY <1>2, <1>3, <1>5
  <2>2. NoTrade.entryQuantity = 0 /\ NoTrade.exitQuantity = 0
    BY DEF NoTrade
  <2> QED
    BY <1>1, <2>1, <2>2, NoTradeFacts DEF Books
<1>8. Orderly(engine)
  BY <1>5, NoOrderFacts DEF Orderly
<1> QED
  BY <1>6, <1>7, <1>8 DEF SoundState, Sound, Init

\* The bars of the data are bars.
LEMMA BarIsTyped ==
  ASSUME NEW b \in Bars
  PROVE  b \in BarType
BY BarsAssumption DEF BarType

\* Every step keeps the engine sound.
LEMMA StepSound == SoundState /\ [Next]_vars => SoundState'
<1> SUFFICES ASSUME SoundState, [Next]_vars
             PROVE  SoundState'
  OBVIOUS
<1>1. index \in Nat /\ Sound(engine)
  BY DEF SoundState
<1>2. ASSUME Hold
      PROVE  SoundState'
  <2> PICK b \in Bars, next \in {"same", "next", "none"} :
              Turn(b, next) /\ engine' = Managed(engine, b, index', next)
    BY <1>2 DEF Hold
  <2>1. index' \in Nat
    BY <1>1 DEF Turn
  <2> QED
    BY <1>1, <2>1, BarIsTyped, ManagedKeeps DEF SoundState
<1>3. ASSUME Enter
      PROVE  SoundState'
  <2> PICK b \in Bars, next \in {"same", "next", "none"}, s \in Signals :
              /\ Turn(b, next) /\ MayEnter(Managed(engine, b, index', next))
              /\ Accepted(s, Snapshot(Managed(engine, b, index', next).ledger))
              /\ engine' = [Managed(engine, b, index', next) EXCEPT
                              !.pending = EntryOrder(s, Snapshot(Managed(engine, b, index', next).ledger),
                                                     index')]
    BY <1>3 DEF Enter
  <2>1. index' \in Nat
    BY <1>1 DEF Turn
  <2> DEFINE e == Managed(engine, b, index', next)
  <2>2. Sound(e)
    BY <1>1, <2>1, BarIsTyped, ManagedKeeps
  <2>3. s \in SignalType
    BY SignalsAssumption DEF SignalType
  <2> HIDE DEF e
  <2>4. Sound(engine')
    BY <2>1, <2>2, <2>3, EnterKeeps DEF e
  <2> QED
    BY <2>1, <2>4 DEF SoundState
<1>4. ASSUME UNCHANGED vars
      PROVE  SoundState'
  BY <1>1, <1>4 DEF vars, SoundState
<1> QED
  BY <1>2, <1>3, <1>4 DEF Next

\* The account of the open trade agrees with the ledger at every bar, and the cash is
\* never negative, as long as a fee cannot exceed what it is charged on.
THEOREM BooksReconcileHolds == ASSUME FeeIsShare PROVE Spec => []BooksReconcile
<1>1. Init => SoundState
  BY InitSound
<1>2. SoundState /\ [Next]_vars => SoundState'
  BY StepSound
<1>3. SoundState => BooksReconcile
  BY DEF SoundState, Sound, Books, BooksReconcile, trade
<1> QED
  BY <1>1, <1>2, <1>3, PTL DEF Spec

\* The sizer and the assessment agree about every order at every snapshot of a run.
THEOREM SizedIsAdmissibleHolds == Spec => []SizedIsAdmissible
<1>1. Init => SoundState
  BY InitSound
<1>2. SoundState /\ [Next]_vars => SoundState'
  BY StepSound
<1>3. SoundState => SizedIsAdmissible
  <2> SUFFICES ASSUME SoundState, NEW s \in Signals,
                      SizingReason(s, Snapshot(engine.ledger)) = "none"
               PROVE  OrderReasons(Intent(s, Snapshot(engine.ledger)), Snapshot(engine.ledger)) = {}
    BY DEF SizedIsAdmissible
  <2>1. Snapshot(engine.ledger) \in Portfolio
    BY SnapshotType DEF SoundState, Sound, EngineType
  <2>2. s \in SignalType
    BY SignalsAssumption DEF SignalType
  <2> QED
    BY <2>1, <2>2, SizedIsAdmitted
<1> QED
  BY <1>1, <1>2, <1>3, PTL DEF Spec
-----------------------------------------------------------------------------
(* Exits and look-ahead *)

\* A turn up to the call of the strategy, against its fill.
LEMMA ManagedFacts ==
  ASSUME NEW e, Sound(e), NEW b \in BarType, NEW n \in Nat, NEW next,
         NEW g, g = GiveUpEntry(e, b, n), NEW f, f = Fill(g, b, n),
         NEW m, m = Managed(e, b, n, next)
  PROVE  /\ Sound(m) /\ Sound(g) /\ Sound(f) /\ m.trade = f.trade
         /\ m.ledger.held = f.ledger.held /\ m.ledger.fills = f.ledger.fills
         /\ m.pending.side = "buy" => m.pending = f.pending
         /\ MustExit(m.trade, b, n) /\ f.pending.side # "buy" => m.pending.side = "sell"
         /\ Closeout /\ next = "next" /\ m.trade # NoTrade => m.pending.side = "sell"
<1> DEFINE e3 == MarkAtClose(f, b)
           e4 == SubmitExit(e3, b, n)
<1>1. Sound(g) /\ Sound(f)
  BY GiveUpKeeps, FillKeeps
<1>2. /\ Sound(e3) /\ e3.trade = f.trade /\ e3.pending = f.pending
      /\ e3.ledger.held = f.ledger.held /\ e3.ledger.fills = f.ledger.fills
  BY <1>1, MarkKeeps
<1> HIDE DEF e3
<1>3. /\ Sound(e4) /\ e4.trade = e3.trade /\ e4.ledger = e3.ledger
      /\ e4.pending.side = "buy" => e4.pending = e3.pending
      /\ MustExit(e3.trade, b, n) /\ e3.pending = NoOrder => e4.pending.side = "sell"
      /\ e3.pending # NoOrder => e4.pending = e3.pending
  BY <1>2, SubmitExitKeeps
<1> HIDE DEF e4
<1>4. m = CloseOut(e4, n, next)
  BY DEF Managed, e3, e4
<1>5. /\ Sound(m) /\ m.trade = e4.trade /\ m.ledger = e4.ledger
      /\ m.pending.side = "buy" => m.pending = e4.pending
      /\ e4.pending.side = "sell" => m.pending.side = "sell"
      /\ Closeout /\ next = "next" /\ e4.trade # NoTrade => m.pending.side = "sell"
  BY <1>3, <1>4, CloseOutKeeps
<1>6. ASSUME MustExit(m.trade, b, n), f.pending.side # "buy"
      PROVE  m.pending.side = "sell"
  <2>1. f.pending = NoOrder \/ f.pending.side = "sell"
    BY <1>1, <1>6 DEF Sound, Orderly, EngineType, OrderType
  <2>2. e4.pending.side = "sell"
    BY <1>2, <1>3, <1>5, <1>6, <2>1, NoOrderFacts
  <2> QED
    BY <1>5, <2>2
<1> QED
  BY <1>1, <1>2, <1>3, <1>5, <1>6

\* An entry that is still open after the fill is no trade that must be left.
LEMMA OpenEntryNeedsNoExit ==
  ASSUME NEW e, Sound(e), NEW b \in BarType, NEW n \in Nat,
         NEW g, g = GiveUpEntry(e, b, n), NEW f, f = Fill(g, b, n), f.pending.side = "buy"
  PROVE  ~ MustExit(f.trade, b, n)
<1>1. /\ Sound(g) /\ g.trade = e.trade
      /\ g.pending.side = "buy" => ~ MustExit(e.trade, b, n)
  BY GiveUpKeeps
<1>2. CASE f = g
  BY <1>1, <1>2
<1>3. CASE f # g
  <2> DEFINE q == FilledQuantity(g, b)
             price == FilledPrice(g, b)
             p == g.pending
             t == g.trade
             u == f.trade
  <2>1. g \in EngineType /\ p \in OrderType /\ t \in TradeType
    BY <1>1 DEF Sound, EngineType
  <2>2. /\ q \in Nat \ {0} /\ q <= p.quantity /\ price \in Nat
        /\ p.side \in {"buy", "sell"} /\ f.pending = Remainder(p, q, price)
        /\ p.side = "buy" => u = Bought(t, p, q, price, n)
    BY <1>3, <2>1, FillFacts
  <2> HIDE DEF q, price, p, t, u
  <2>3. p.side = "buy"
    BY <2>1, <2>2, RemainderFacts, NoOrderFacts
  <2>4. /\ t = NoTrade => u.opened = n
        /\ t # NoTrade => u.stop = t.stop /\ u.target = t.target /\ u.opened = t.opened
    <3>1. q \in Nat /\ price \in Nat /\ u = Bought(t, p, q, price, n)
      BY <2>2, <2>3
    <3> QED
      BY <2>1, <3>1, BoughtLevels
  <2>5. CASE t = NoTrade
    BY <2>4, <2>5 DEF MustExit, u
  <2>6. CASE t # NoTrade
    <3>1. t.quantity > 0
      BY <1>1, <2>6, HeldIsTrade DEF t
    <3>2. ExitReasons(u, b, n) = ExitReasons(t, b, n)
      BY <2>4, <2>6 DEF ExitReasons
    <3>3. ~ MustExit(t, b, n)
      BY <1>1, <2>3 DEF p, t
    <3> QED
      BY <2>4, <2>6, <3>1, <3>2, <3>3 DEF MustExit, u
  <2> QED
    BY <2>5, <2>6
<1> QED
  BY <1>2, <1>3

\* What every step of the loop is: a turn, and perhaps a new entry after it.
LEMMA StepIsTurn ==
  ASSUME SoundState, Next
  PROVE  \E b \in BarType, next \in {"same", "next", "none"} :
           LET m == Managed(engine, b, index', next) IN
             /\ index' \in Nat /\ bar' = b /\ coming' = next
             /\ \/ engine' = m /\ approval' = approval
                \/ \E s \in SignalType :
                     LET p == Snapshot(m.ledger) IN
                     /\ MayEnter(m) /\ Accepted(s, p)
                     /\ engine' = [m EXCEPT !.pending = EntryOrder(s, p, index')]
                     /\ approval' = [quantity |-> SizedQuantity(s, p),
                                     notional |-> SizedQuantity(s, p) * s.entry * Scale,
                                     equity |-> p.equity, dayOpen |-> dayOpen']
<1>1. index + 1 \in Nat
  BY DEF SoundState
<1>2. CASE Hold
  <2> PICK b \in Bars, next \in {"same", "next", "none"} :
              /\ Turn(b, next) /\ engine' = Managed(engine, b, index', next)
              /\ UNCHANGED approval
    BY <1>2 DEF Hold
  <2> QED
    BY <1>1, BarIsTyped DEF Turn
<1>3. CASE Enter
  <2> PICK b \in Bars, next \in {"same", "next", "none"}, s \in Signals :
          LET e == Managed(engine, b, index', next)
              p == Snapshot(e.ledger)
          IN /\ Turn(b, next)
             /\ MayEnter(e)
             /\ Accepted(s, p)
             /\ engine' = [e EXCEPT !.pending = EntryOrder(s, p, index')]
             /\ approval' = [quantity |-> SizedQuantity(s, p),
                             notional |-> SizedQuantity(s, p) * s.entry * Scale,
                             equity |-> p.equity, dayOpen |-> dayOpen']
    BY <1>3 DEF Enter
  <2>1. b \in BarType /\ s \in SignalType /\ index' \in Nat /\ bar' = b /\ coming' = next
    BY <1>1, BarIsTyped, SignalsAssumption DEF SignalType, Turn
  <2> QED
    BY <2>1
<1> QED
  BY <1>2, <1>3 DEF Next

\* After every step, the pending exit covers the whole trade.
LEMMA StepCovers == SoundState /\ Next => ExitsCover'
<1> SUFFICES ASSUME SoundState, Next PROVE ExitsCover'
  OBVIOUS
<1>1. Sound(engine) /\ Sound(engine')
  BY StepSound DEF SoundState
<1> PICK b \in BarType, next \in {"same", "next", "none"} :
           LET m == Managed(engine, b, index', next) IN
             /\ index' \in Nat /\ bar' = b /\ coming' = next
             /\ \/ engine' = m
                \/ \E s \in SignalType :
                     LET p == Snapshot(m.ledger) IN
                     /\ MayEnter(m) /\ Accepted(s, p)
                     /\ engine' = [m EXCEPT !.pending = EntryOrder(s, p, index')]
  BY StepIsTurn
<1> DEFINE m == Managed(engine, b, index', next)
           g == GiveUpEntry(engine, b, index')
           f == Fill(g, b, index')
<1>2. /\ Sound(m) /\ m.trade = f.trade
      /\ MustExit(m.trade, b, index') /\ f.pending.side # "buy" => m.pending.side = "sell"
      /\ Closeout /\ next = "next" /\ m.trade # NoTrade => m.pending.side = "sell"
  BY <1>1, ManagedFacts
<1>3. f.pending.side = "buy" => ~ MustExit(f.trade, b, index')
  BY <1>1, OpenEntryNeedsNoExit
<1> HIDE DEF m, g, f
<1>4. CASE engine' = m
  BY <1>2, <1>3, <1>4 DEF ExitsCover, trade, pending, Sound, Orderly
<1>5. CASE engine' # m
  <2> PICK s \in SignalType :
             /\ MayEnter(m) /\ Accepted(s, Snapshot(m.ledger))
             /\ engine' = [m EXCEPT !.pending = EntryOrder(s, Snapshot(m.ledger), index')]
    BY <1>5 DEF m
  <2>1. m.trade = NoTrade
    BY <1>2, EnterKeeps
  <2>2. engine'.trade = NoTrade
    BY <1>2, <2>1 DEF Sound, EngineType
  <2>3. ~ MustExit(engine'.trade, bar', index')
    BY <2>2, NoTradeFacts DEF MustExit
  <2> QED
    BY <1>1, <2>2, <2>3 DEF ExitsCover, trade, pending, Sound, Orderly
<1> QED
  BY <1>4, <1>5

\* An exit is never missing and never for less than what is held.
THEOREM ExitsCoverHolds == Spec => []ExitsCover
<1>1. Init => SoundState /\ ExitsCover
  <2> SUFFICES ASSUME Init PROVE SoundState /\ ExitsCover
    OBVIOUS
  <2>1. trade = NoTrade /\ pending = NoOrder
    BY DEF Init, trade, pending
  <2> QED
    BY <2>1, InitSound, NoTradeFacts, NoOrderFacts DEF ExitsCover, MustExit
<1>2. SoundState /\ ExitsCover /\ [Next]_vars => SoundState' /\ ExitsCover'
  <2>1. CASE Next
    BY <2>1, StepSound, StepCovers
  <2>2. CASE UNCHANGED vars
    BY <2>2, StepSound DEF vars, ExitsCover, trade, pending
  <2> QED
    BY <2>1, <2>2
<1> QED
  BY <1>1, <1>2, PTL DEF Spec

\* A fill comes after the latency of an order that was pending before the bar, and
\* moves the position the way of that order.
THEOREM NoLookAheadHolds == Spec => NoLookAhead
<1> DEFINE Ahead ==
      engine'.ledger.fills # engine.ledger.fills =>
          /\ pending.side # "none"
          /\ index' >= pending.index + Larger(1, Latency)
          /\ IF pending.side = "buy"
             THEN engine'.ledger.held[Asset] > engine.ledger.held[Asset] /\ bar'.low <= pending.limit
             ELSE engine'.ledger.held[Asset] < engine.ledger.held[Asset]
<1>1. Init => SoundState
  BY InitSound
<1>2. SoundState /\ [Next]_vars => SoundState'
  BY StepSound
<1>3. SoundState /\ [Next]_vars => [Ahead]_vars
  <2> SUFFICES ASSUME SoundState, Next, engine'.ledger.fills # engine.ledger.fills
               PROVE  Ahead
    OBVIOUS
  <2>1. Sound(engine)
    BY DEF SoundState
  <2> PICK b \in BarType, next \in {"same", "next", "none"} :
           LET m == Managed(engine, b, index', next) IN
             /\ index' \in Nat /\ bar' = b /\ coming' = next
             /\ \/ engine' = m
                \/ \E s \in SignalType :
                     LET p == Snapshot(m.ledger) IN
                     /\ MayEnter(m) /\ Accepted(s, p)
                     /\ engine' = [m EXCEPT !.pending = EntryOrder(s, p, index')]
    BY StepIsTurn
  <2> DEFINE m == Managed(engine, b, index', next)
             g == GiveUpEntry(engine, b, index')
             f == Fill(g, b, index')
  <2>2. /\ Sound(m) /\ Sound(g)
        /\ m.ledger.held = f.ledger.held /\ m.ledger.fills = f.ledger.fills
    BY <2>1, ManagedFacts
  <2>3. /\ g.ledger = engine.ledger
        /\ g.pending # engine.pending => g.pending.side = "sell" /\ g.pending.index = index'
    BY <2>1, GiveUpKeeps
  <2>4. engine'.ledger = m.ledger
    <3> HIDE DEF m
    <3> QED
      BY <2>2 DEF Sound, EngineType, m
  <2>5. f # g
    BY <2>2, <2>3, <2>4
  <2> DEFINE q == FilledQuantity(g, b)
  <2>6. /\ q \in Nat \ {0} /\ MayFill(g.pending, index') /\ g.pending.side \in {"buy", "sell"}
        /\ Executable(g.pending, q, b, g.ledger.cash)
        /\ g.pending.side = "buy" => f.ledger.held[Asset] = g.ledger.held[Asset] + q
        /\ g.pending.side = "sell" => f.ledger.held[Asset] = g.ledger.held[Asset] - q
    <3>1. g \in EngineType
      BY <2>2 DEF Sound
    <3> HIDE DEF g
    <3> QED
      BY <2>5, <3>1, FillFacts
  <2> HIDE DEF m, g, f, q
  <2>7. g.pending \in OrderType /\ g.ledger.held[Asset] \in Int
    BY <2>2, AssetAssumption DEF Sound, EngineType, LedgerType
  <2>8. index' > g.pending.index /\ index' >= g.pending.index + Latency
    BY <2>6 DEF MayFill, LatencyOver
  <2>9. g.pending = engine.pending
    BY <2>3, <2>7, <2>8 DEF OrderType
  <2>10. index' >= pending.index + Larger(1, Latency)
    BY <2>7, <2>8, <2>9 DEF Larger, pending, OrderType
  <2>11. CASE pending.side = "buy"
    <3>1. bar'.low <= pending.limit
      BY <2>6, <2>9, <2>11 DEF Executable, pending
    <3>2. engine'.ledger.held[Asset] > engine.ledger.held[Asset]
      BY <2>2, <2>3, <2>4, <2>6, <2>7, <2>9, <2>11 DEF pending
    <3> QED
      BY <2>10, <2>11, <3>1, <3>2
  <2>12. CASE pending.side = "sell"
    <3>1. engine'.ledger.held[Asset] < engine.ledger.held[Asset]
      BY <2>2, <2>3, <2>4, <2>6, <2>7, <2>9, <2>12 DEF pending
    <3> QED
      BY <2>10, <2>12, <3>1
  <2> QED
    BY <2>6, <2>9, <2>11, <2>12 DEF pending
<1> QED
  BY <1>1, <1>2, <1>3, PTL DEF Spec, NoLookAhead
-----------------------------------------------------------------------------
(* Entries within their approval *)

RiskOf(t, stop) == t.entryNotional - t.entryQuantity * stop * Scale

ApprovedTrade(t, a) ==
    /\ t.entryQuantity <= a.quantity
    /\ t.entryNotional <= a.notional
    /\ t.entryNotional * Scale <= a.equity * PositionShare
    /\ RiskOf(t, t.stop) * Scale <= a.equity * TradeRisk

\* The order for an entry carries what its earlier fills have used.
ApprovedEntry(p, t, a) ==
    /\ p.quantity + t.entryQuantity = a.quantity
    /\ p.filledNotional = t.entryNotional /\ p.filledRisk = RiskOf(t, p.stop)
    /\ t # NoTrade => t.stop = p.stop
    /\ p.approvedNotional = a.notional
    /\ a.notional * Scale <= a.equity * PositionShare
    /\ p.approvedRisk * Scale <= a.equity * TradeRisk

ApprovalTyped(a) ==
    /\ a.quantity \in Nat /\ a.notional \in Nat /\ a.equity \in Int
    /\ a.equity * PositionShare \in Nat /\ a.equity * TradeRisk \in Nat

Within(e, a) == /\ ApprovalTyped(a)
                /\ ApprovedTrade(e.trade, a)
                /\ e.pending.side = "buy" => ApprovedEntry(e.pending, e.trade, a)

\* No trade uses nothing of an approval.
LEMMA NoTradeIsApproved ==
  ASSUME NEW a, ApprovalTyped(a)
  PROVE  ApprovedTrade(NoTrade, a)
<1>1. NoTrade.entryQuantity = 0 /\ NoTrade.entryNotional = 0 /\ NoTrade.stop = 0
  BY DEF NoTrade
<1>2. RiskOf(NoTrade, NoTrade.stop) = 0
  BY <1>1 DEF RiskOf
<1> DEFINE position == a.equity * PositionShare
           loss == a.equity * TradeRisk
<1>3. position \in Nat /\ loss \in Nat /\ a.quantity \in Nat /\ a.notional \in Nat
  BY DEF ApprovalTyped
<1> HIDE DEF position, loss
<1>4. 0 * Scale = 0
  OBVIOUS
<1>5. /\ NoTrade.entryQuantity <= a.quantity /\ NoTrade.entryNotional <= a.notional
      /\ NoTrade.entryNotional * Scale <= position /\ RiskOf(NoTrade, NoTrade.stop) * Scale <= loss
  BY <1>1, <1>2, <1>3, <1>4
<1> QED
  BY <1>5 DEF ApprovedTrade, position, loss

\* A buy adds its distance to the stop to the risk of the trade.
LEMMA RiskAdds ==
  ASSUME NEW t \in TradeType, NEW u \in TradeType, NEW q \in Nat, NEW price \in Nat,
         NEW stop \in Nat, BoughtFrom(u, t, q, price)
  PROVE  RiskOf(u, stop) = RiskOf(t, stop) + q * (price - stop) * Scale
<1> DEFINE k == stop * Scale
           h == t.entryQuantity
           c == q * price * Scale
<1>1. h \in Nat /\ t.entryNotional \in Int
  BY DEF TradeType
<1> HIDE DEF h
<1>2. k \in Nat /\ c \in Nat
  BY ProductType
<1>3. /\ (h + q) * stop * Scale = h * k + q * k
      /\ h * stop * Scale = h * k
      /\ q * (price - stop) * Scale = c - q * k
  <2>1. (h + q) * stop * Scale = h * k + q * k
    BY <1>1
  <2>2. q * (price - stop) * Scale = c - q * k
    OBVIOUS
  <2> QED
    BY <1>1, <2>1, <2>2
<1>4. h * k \in Int /\ q * k \in Int
  BY <1>1, <1>2, ProductType
<1>5. RiskOf(u, stop) = (t.entryNotional + c) - (h + q) * stop * Scale
      /\ RiskOf(t, stop) = t.entryNotional - h * stop * Scale
  <2>1. u.entryNotional = t.entryNotional + c /\ u.entryQuantity = h + q
    BY DEF BoughtFrom, h
  <2> DEFINE w == u.entryQuantity
  <2>2. /\ RiskOf(u, stop) = u.entryNotional - w * stop * Scale
        /\ RiskOf(t, stop) = t.entryNotional - h * stop * Scale
    BY DEF RiskOf, h
  <2>3. w = h + q
    BY <2>1
  <2>4. w * stop * Scale = (h + q) * stop * Scale
    BY <2>3
  <2> HIDE DEF c, w
  <2> QED
    BY <2>1, <2>2, <2>4, Zenon
<1> DEFINE x == h * k
           y == q * k
<1>6. /\ RiskOf(u, stop) = (t.entryNotional + c) - (x + y)
      /\ RiskOf(t, stop) = t.entryNotional - x
      /\ q * (price - stop) * Scale = c - y
      /\ x \in Int /\ y \in Int
  <2> HIDE DEF k, c
  <2> QED
    BY <1>3, <1>4, <1>5
<1> DEFINE z == q * (price - stop) * Scale
<1>7. z = c - y
  BY <1>6
<1> HIDE DEF k, c, x, y, z
<1>8. RiskOf(u, stop) = RiskOf(t, stop) + z
  BY <1>1, <1>2, <1>6, <1>7
<1> QED
  BY <1>8 DEF z

\* A buy stays within the approval that its order carries.
LEMMA BuyWithin ==
  ASSUME NEW g, Sound(g), NEW a, Within(g, a), NEW b \in BarType, NEW n \in Nat,
         NEW f, f = Fill(g, b, n), f # g, g.pending.side = "buy"
  PROVE  Within(f, a)
<1> DEFINE q == FilledQuantity(g, b)
           price == FilledPrice(g, b)
           c == q * price * Scale
           p == g.pending
           t == g.trade
           u == f.trade
           r == f.pending
           risk == q * (price - p.stop) * Scale
<1>1. g \in EngineType /\ p \in OrderType /\ t \in TradeType /\ p.side = "buy"
  BY DEF Sound, EngineType
<1>2. /\ q \in Nat \ {0} /\ q <= p.quantity /\ price \in Nat
      /\ Executable(p, q, b, g.ledger.cash)
      /\ r = Remainder(p, q, price) /\ u = Bought(t, p, q, price, n)
  BY <1>1, FillFacts
<1>3. price = FillPrice("buy", Reference(p, b))
  BY <1>1 DEF FilledPrice
<1>4. p.filledNotional + c <= p.approvedNotional /\ p.filledRisk + risk <= p.approvedRisk
  BY <1>1, <1>2, <1>3 DEF Executable
<1>5. ApprovalTyped(a) /\ ApprovedEntry(p, t, a)
  BY <1>1 DEF Within
<1> HIDE DEF q, price
<1>6. c \in Nat /\ risk \in Int /\ p.stop \in Nat /\ p.approvedRisk \in Nat
      /\ p.quantity \in Nat /\ t.entryQuantity \in Nat /\ p.filledRisk \in Int
      /\ p.filledNotional \in Int
  BY <1>1, <1>2, ProductType DEF OrderType, TradeType
<1> HIDE DEF p, t, u, r
<1>7. /\ BoughtFrom(u, t, q, price) /\ u \in TradeType
      /\ u.entryQuantity = t.entryQuantity + q
      /\ u.entryNotional = t.entryNotional + q * price * Scale
  <2>1. q \in Nat /\ price \in Nat /\ u = Bought(t, p, q, price, n)
    BY <1>2
  <2>2. BoughtFrom(u, t, q, price)
    BY <1>1, <2>1, BoughtFacts
  <2> QED
    BY <2>2 DEF BoughtFrom
<1>8. u.stop = p.stop
  BY <1>1, <1>2, <1>5, BoughtLevels DEF ApprovedEntry
<1>9. RiskOf(u, p.stop) = p.filledRisk + risk
  <2>1. RiskOf(u, p.stop) = RiskOf(t, p.stop) + risk
    <3> DEFINE k == p.stop
    <3>1. q \in Nat /\ price \in Nat /\ k \in Nat
      BY <1>2, <1>6
    <3> HIDE DEF k, c, risk
    <3>2. RiskOf(u, k) = RiskOf(t, k) + q * (price - k) * Scale
      BY <1>1, <1>7, <3>1, RiskAdds
    <3> QED
      BY <3>2 DEF k, risk
  <2> QED
    BY <1>5, <2>1 DEF ApprovedEntry
<1> HIDE DEF risk
<1>10. u.entryNotional = p.filledNotional + c
  BY <1>5, <1>7 DEF ApprovedEntry
<1> HIDE DEF c
<1>11. u.entryNotional <= a.notional /\ RiskOf(u, u.stop) <= p.approvedRisk
       /\ u.entryNotional \in Int /\ RiskOf(u, u.stop) \in Int
  BY <1>4, <1>5, <1>6, <1>8, <1>9, <1>10 DEF ApprovedEntry
<1>12. ApprovedTrade(u, a)
  <2> DEFINE x == u.entryNotional
             y == RiskOf(u, u.stop)
             position == a.equity * PositionShare
             loss == a.equity * TradeRisk
  <2>1. a.notional \in Nat /\ position \in Nat /\ loss \in Nat
        /\ a.notional * Scale <= position /\ p.approvedRisk * Scale <= loss
    BY <1>5 DEF ApprovalTyped, ApprovedEntry
  <2> HIDE DEF x, y, position, loss
  <2>2. x * Scale <= a.notional * Scale /\ y * Scale <= p.approvedRisk * Scale
    BY <1>6, <1>11, <2>1, ProductKeepsOrder DEF x, y
  <2>3. x * Scale \in Int /\ y * Scale \in Int /\ a.notional * Scale \in Int
        /\ p.approvedRisk * Scale \in Int
    BY <1>6, <1>11, <2>1, ProductType DEF x, y
  <2>4. x * Scale <= position /\ y * Scale <= loss
    BY <2>1, <2>2, <2>3
  <2>5. u.entryQuantity <= a.quantity
    BY <1>2, <1>5, <1>6, <1>7 DEF ApprovedEntry
  <2> QED
    BY <1>11, <2>4, <2>5 DEF ApprovedTrade, x, y, position, loss
<1>13. ASSUME r.side = "buy"
       PROVE  ApprovedEntry(r, u, a)
  <2>1. q \in Nat /\ price \in Nat /\ q <= p.quantity /\ p.side \in {"buy", "sell"}
    BY <1>1, <1>2
  <2>2. q # p.quantity
    BY <1>2, <1>13, <2>1, NoOrderFacts DEF Remainder
  <2>3. /\ r.quantity = p.quantity - q /\ r.stop = p.stop
        /\ r.approvedNotional = p.approvedNotional /\ r.approvedRisk = p.approvedRisk
        /\ r.filledNotional = p.filledNotional + c /\ r.filledRisk = p.filledRisk + risk
    BY <1>1, <1>2, <2>1, <2>2, RemainderFacts DEF c, risk
  <2>4. r.quantity + u.entryQuantity = a.quantity
    BY <1>5, <1>6, <1>7, <2>1, <2>3 DEF ApprovedEntry
  <2> QED
    BY <1>5, <1>8, <1>9, <1>10, <2>3, <2>4 DEF ApprovedEntry
<1> QED
  BY <1>5, <1>12, <1>13 DEF Within, u, r

\* A sale stays within the approval.
LEMMA SellWithin ==
  ASSUME NEW g, Sound(g), NEW a, Within(g, a), NEW b \in BarType, NEW n \in Nat,
         NEW f, f = Fill(g, b, n), f # g, g.pending.side = "sell"
  PROVE  Within(f, a)
<1> DEFINE q == FilledQuantity(g, b)
           price == FilledPrice(g, b)
           p == g.pending
           t == g.trade
           v == Sold(t, q, price)
<1>1. g \in EngineType /\ p \in OrderType /\ t \in TradeType /\ p.side = "sell"
      /\ p.quantity = t.quantity
  BY DEF Sound, EngineType, Orderly
<1>2. /\ q \in Nat \ {0} /\ q <= p.quantity /\ price \in Nat
      /\ f.pending = Remainder(p, q, price)
      /\ f.trade = (IF v.quantity = 0 THEN NoTrade ELSE v)
  BY <1>1, FillFacts
<1> HIDE DEF q, price, p
<1>3. v.entryQuantity = t.entryQuantity /\ v.entryNotional = t.entryNotional /\ v.stop = t.stop
  BY <1>1, <1>2, SoldFacts
<1>4. f.pending.side # "buy"
  BY <1>1, <1>2, RemainderFacts, NoOrderFacts
<1>5. ApprovalTyped(a) /\ ApprovedTrade(t, a)
  BY DEF Within
<1> HIDE DEF t, v
<1>6. ApprovedTrade(v, a)
  BY <1>3, <1>5 DEF ApprovedTrade, RiskOf
<1>7. ApprovedTrade(f.trade, a)
  BY <1>2, <1>5, <1>6, NoTradeIsApproved
<1> QED
  BY <1>4, <1>5, <1>7 DEF Within

\* So does a bar without an entry.
LEMMA ManagedWithin ==
  ASSUME NEW e, Sound(e), NEW a, Within(e, a), NEW b \in BarType, NEW n \in Nat, NEW next
  PROVE  Within(Managed(e, b, n, next), a)
<1> DEFINE g == GiveUpEntry(e, b, n)
           f == Fill(g, b, n)
           m == Managed(e, b, n, next)
<1>1. Sound(g) /\ g.trade = e.trade /\ (g.pending.side = "buy" => g.pending = e.pending)
  BY GiveUpKeeps
<1>2. m.trade = f.trade /\ (m.pending.side = "buy" => m.pending = f.pending)
  BY ManagedFacts
<1> HIDE DEF m, g
<1>3. Within(g, a)
  BY <1>1 DEF Within
<1>4. f # g => g.pending.side \in {"buy", "sell"}
  BY <1>1, FillFacts DEF Sound
<1>5. Within(f, a)
  BY <1>1, <1>3, <1>4, BuyWithin, SellWithin
<1> HIDE DEF f
<1> QED
  BY <1>2, <1>5 DEF Within, m

\* An entry begins within the approval it was sized for.
LEMMA EnterWithin ==
  ASSUME NEW e, Sound(e), MayEnter(e), NEW s \in SignalType, NEW n \in Nat,
         Accepted(s, Snapshot(e.ledger)),
         NEW d, d = [e EXCEPT !.pending = EntryOrder(s, Snapshot(e.ledger), n)],
         NEW a, a.quantity = SizedQuantity(s, Snapshot(e.ledger)),
         a.notional = SizedQuantity(s, Snapshot(e.ledger)) * s.entry * Scale,
         a.equity = Snapshot(e.ledger).equity
  PROVE  Within(d, a)
<1> DEFINE p == Snapshot(e.ledger)
           q == SizedQuantity(s, p)
           o == EntryOrder(s, p, n)
           notional == q * s.entry * Scale
           risk == q * (s.entry - s.stop) * Scale
           position == p.equity * PositionShare
           loss == p.equity * TradeRisk
<1>1. e \in EngineType /\ p \in Portfolio /\ e.trade = NoTrade /\ e.ledger.held[Asset] = 0
  <2>1. e.trade = NoTrade
    BY EnterKeeps
  <2> QED
    BY <2>1, SnapshotType, NoTradeFacts DEF Sound, EngineType, Books
<1>2. p.held = 0
  <2>1. e.ledger.prices[Asset] \in Int
    BY <1>1, AssetAssumption DEF EngineType, LedgerType
  <2>2. 0 * e.ledger.prices[Asset] * Scale = 0
    BY <2>1
  <2> QED
    BY <1>1, <2>2 DEF Snapshot
<1>3. p.equity \in Int /\ position \in Int /\ loss \in Int
  <2>1. PositionShare \in Int /\ TradeRisk \in Int
    BY PolicyAssumption
  <2>2. p.equity \in Int
    BY <1>1 DEF Portfolio
  <2> QED
    BY <2>1, <2>2, ProductType
<1>4. /\ q \in Nat \ {0} /\ 0 < s.stop /\ s.stop < s.entry
      /\ risk * Scale <= loss /\ notional * Scale <= position - p.held * Scale
  BY <1>1, SizedBounds DEF Accepted
<1>5. s.entry \in Nat /\ s.stop \in Nat /\ s.entry - s.stop \in Nat
  BY <1>4 DEF SignalType
<1>6. notional \in Nat /\ risk \in Nat
  BY <1>4, <1>5, ProductType
<1>7. /\ o.side = "buy" /\ o.quantity = q /\ o.stop = s.stop
      /\ o.approvedNotional = notional /\ o.approvedRisk = risk
      /\ o.filledNotional = 0 /\ o.filledRisk = 0
  BY <1>1, EntryOrderFacts
<1>8. a.quantity = q /\ a.notional = notional /\ a.equity = p.equity
  OBVIOUS
<1>9. d.trade = NoTrade /\ d.pending = o
  <2> HIDE DEF o
  <2> QED
    BY <1>1 DEF EngineType, o
<1> HIDE DEF o, q, notional, risk, p
<1>10. risk * Scale \in Nat /\ notional * Scale \in Nat /\ p.held * Scale = 0
  BY <1>2, <1>6, ProductType
<1>11. position \in Nat /\ loss \in Nat /\ notional * Scale <= position
  <2> HIDE DEF position, loss
  <2> QED
    BY <1>3, <1>4, <1>10
<1>12. ApprovalTyped(a)
  BY <1>3, <1>4, <1>6, <1>8, <1>11 DEF ApprovalTyped
<1>13. ApprovedEntry(o, NoTrade, a)
  <2>1. NoTrade.entryQuantity = 0 /\ NoTrade.entryNotional = 0
    BY DEF NoTrade
  <2>2. RiskOf(NoTrade, o.stop) = 0
    BY <1>5, <1>7, <2>1 DEF RiskOf
  <2>3. o.quantity + NoTrade.entryQuantity = a.quantity
    BY <1>4, <1>7, <1>8, <2>1
  <2> QED
    BY <1>4, <1>7, <1>8, <1>11, <2>1, <2>2, <2>3 DEF ApprovedEntry
<1> QED
  BY <1>9, <1>12, <1>13, NoTradeIsApproved DEF Within

\* All that an entry buys, and what it may lose, stays within its approval.
THEOREM WithinApprovalHolds == Spec => []WithinApproval
<1> DEFINE State == SoundState /\ Within(engine, approval)
<1>1. Init => State
  <2> SUFFICES ASSUME Init PROVE State
    OBVIOUS
  <2>1. engine.trade = NoTrade /\ engine.pending = NoOrder
    BY DEF Init
  <2>2. approval.quantity = 0 /\ approval.notional = 0 /\ approval.equity = 0
    BY DEF Init, NoApproval
  <2>3. 0 * PositionShare = 0 /\ 0 * TradeRisk = 0
    BY PolicyAssumption
  <2>4. ApprovalTyped(approval)
    BY <2>2, <2>3 DEF ApprovalTyped
  <2> QED
    BY <2>1, <2>4, InitSound, NoTradeIsApproved, NoOrderFacts DEF Within
<1>2. State /\ [Next]_vars => State'
  <2> SUFFICES ASSUME State, [Next]_vars PROVE State'
    OBVIOUS
  <2>1. SoundState' /\ Sound(engine)
    BY StepSound DEF SoundState
  <2>2. CASE Next
    <3> PICK b \in BarType, next \in {"same", "next", "none"} :
           LET m == Managed(engine, b, index', next) IN
             /\ index' \in Nat
             /\ \/ engine' = m /\ approval' = approval
                \/ \E s \in SignalType :
                     LET p == Snapshot(m.ledger) IN
                     /\ MayEnter(m) /\ Accepted(s, p)
                     /\ engine' = [m EXCEPT !.pending = EntryOrder(s, p, index')]
                     /\ approval' = [quantity |-> SizedQuantity(s, p),
                                     notional |-> SizedQuantity(s, p) * s.entry * Scale,
                                     equity |-> p.equity, dayOpen |-> dayOpen']
      BY <2>2, StepIsTurn
    <3> DEFINE m == Managed(engine, b, index', next)
    <3>1. Sound(m) /\ Within(m, approval)
      BY <2>1, ManagedKeeps, ManagedWithin
    <3> HIDE DEF m
    <3>2. CASE engine' = m /\ approval' = approval
      BY <2>1, <3>1, <3>2
    <3>3. CASE ~ (engine' = m /\ approval' = approval)
      <4> PICK s \in SignalType :
                     LET p == Snapshot(m.ledger) IN
                     /\ MayEnter(m) /\ Accepted(s, p)
                     /\ engine' = [m EXCEPT !.pending = EntryOrder(s, p, index')]
                     /\ approval' = [quantity |-> SizedQuantity(s, p),
                                     notional |-> SizedQuantity(s, p) * s.entry * Scale,
                                     equity |-> p.equity, dayOpen |-> dayOpen']
        BY <3>3 DEF m
      <4> DEFINE p == Snapshot(m.ledger)
      <4>1. /\ approval'.quantity = SizedQuantity(s, p)
            /\ approval'.notional = SizedQuantity(s, p) * s.entry * Scale
            /\ approval'.equity = p.equity
        OBVIOUS
      <4>2. Within(engine', approval')
        BY <3>1, <4>1, EnterWithin
      <4> QED
        BY <2>1, <4>2
    <3> QED
      BY <3>2, <3>3
  <2>3. CASE UNCHANGED vars
    BY <2>1, <2>3 DEF vars
  <2> QED
    BY <2>2, <2>3
<1>3. State => WithinApproval
  BY DEF Within, ApprovedTrade, ApprovedEntry, RiskOf, WithinApproval, trade, pending
<1> QED
  BY <1>1, <1>2, <1>3, PTL DEF Spec
=============================================================================
