--------------------------- MODULE PaperInvariant ---------------------------
(***************************************************************************)
(* The inductive invariant of PaperBroker (IInv), the parts it is made of, *)
(* and the relations between states and rows that PaperProofs shows every  *)
(* operation to keep.  Defined here, proved there.                         *)
(***************************************************************************)
EXTENDS PaperBroker

-----------------------------------------------------------------------------
(* The folds of the model, each with its step *)

AddStep(c, sum, n) == sum + n
SweepStep(c, a, o) == Process(a, o, c.bar, c.at)
InputStep(c, acc, input) == MarketInput(acc, input, c.at)
TallyStep(c, sum, f) == TallyFill(c.l, c.r, c.e, sum, f)
BookStep(c, l, f) == ApplyFill(l, f)
GrowStep(c, r, f) == Grown(r, f)
QuantityStep(c, q, f) == q + f.quantity
ReplayStep(c, acc, group) == ReplayGroup(acc, group)

Sums == INSTANCE Folding WITH op <- AddStep
Sweeping == INSTANCE Folding WITH op <- SweepStep
Inputs == INSTANCE Folding WITH op <- InputStep
Tallying == INSTANCE Folding WITH op <- TallyStep
Bookings == INSTANCE Folding WITH op <- BookStep
Growing == INSTANCE Folding WITH op <- GrowStep
Summing == INSTANCE Folding WITH op <- QuantityStep
Replaying == INSTANCE Folding WITH op <- ReplayStep

-----------------------------------------------------------------------------
(* Ids in ascending order *)

Increasing(q) == \A m, n \in DOMAIN q : m < n => q[m] < q[n]

-----------------------------------------------------------------------------
(* The operators of the model that fold *)

\* What the sweep of an instrument starts from.
Swept(acc, bar) == [ok |-> acc.ok, s |-> acc.s, rows |-> acc.rows,
                    liquidity |-> LiquidityBudget(bar.volume)]

\* What a market event comes to before the mark.
Cohort(s, inputs, at) == Inputs!Fold([at |-> at], Done(s, <<>>), inputs)

\* What a replay starts from.
Started == [ok |-> TRUE, s |-> BlankState, at |-> 0]

-----------------------------------------------------------------------------
(* Types *)

Intents == {x.intent : x \in Offers}
Instants == 0..MaxTime
RowType ==
    [kind : {"submission", "submission_reference"}, instrument : Instruments,
     seen : SeenType, at : Instants]
    \cup [kind : {"submitted"}, order : Orders, intent : Intents, at : Instants]
    \cup [kind : {"transition"}, order : Orders, from : Logged!Statuses,
          to : Logged!Statuses, at : Instants]
    \cup [kind : {"fill"}, order : Orders, fill : FillType, from : Logged!Statuses,
          to : Logged!Statuses, at : Instants, filled : Nat, spent : Nat,
          external : BOOLEAN]
    \cup [kind : {"duplicate", "duplicate_conflict"}, order : Orders, intent : Intents,
          at : Instants, from : Logged!Statuses]
    \cup [kind : {"rejected"}, order : Orders, from : Logged!Statuses,
          to : Logged!Statuses, at : Instants]
    \cup [kind : {"stop_triggered"}, order : Orders, at : Instants]
    \cup [kind : {"observed"}, instrument : Instruments, bar : BarType, seen : SeenType,
          at : Instants]
    \cup [kind : {"duplicate_snapshot"}, instrument : Instruments, seen : SeenType,
          at : Instants]

\* What a sweep carries.
AccTyped(acc) ==
    /\ acc = [ok |-> acc.ok, s |-> acc.s, rows |-> acc.rows, liquidity |-> acc.liquidity]
    /\ acc.ok \in BOOLEAN /\ Typed(acc.s) /\ acc.rows \in Seq(RowType)
    /\ acc.liquidity \in Int

-----------------------------------------------------------------------------
(* The ledger *)

\* The sum in Valuation is a recursive function on the sets of instruments.
Choice(t) == CHOOSE x \in t : TRUE
Worths(held, prices, h) ==
    h = [t \in SUBSET Instruments |->
            IF t = {} THEN 0
            ELSE held[Choice(t)] * prices[Choice(t)] + h[t \ {Choice(t)}]]
Worth(held, prices) == CHOOSE h : Worths(held, prices, h)

\* A ledger is its fields.
IsLedger(l) == l = [cash |-> l.cash, held |-> l.held, prices |-> l.prices,
                    fills |-> l.fills, equity |-> l.equity, peak |-> l.peak]

\* What booking a fill of n leaves of a ledger: its cash and its holding move, and nothing else.
BookedTo(l, f, n, m) ==
    /\ IsLedger(m) /\ m.prices = l.prices /\ m.fills = l.fills
    /\ m.equity = l.equity /\ m.peak = l.peak
    /\ m.cash = IF f.side = "buy" THEN l.cash - (n + f.fee) ELSE l.cash + n - f.fee
    /\ m.held = [l.held EXCEPT ![f.instrument] =
                    IF f.side = "buy" THEN @ + f.quantity ELSE @ - f.quantity]

-----------------------------------------------------------------------------
(* One order's turn in a sweep *)

\* A state, and what a sweep carries, are their fields.
IsState(s) ==
    s = [orders |-> s.orders, clients |-> s.clients, active |-> s.active,
         unknown |-> s.unknown, seen |-> s.seen, marks |-> s.marks,
         known |-> s.known, fills |-> s.fills, fillSeq |-> s.fillSeq,
         events |-> s.events, ops |-> s.ops, ledger |-> s.ledger,
         latest |-> s.latest, lastKey |-> s.lastKey]
IsAcc(acc) == acc = [ok |-> acc.ok, s |-> acc.s, rows |-> acc.rows, liquidity |-> acc.liquidity]

\* What the turn of an order leaves alone.
Aside(s, t) ==
    /\ t.clients = s.clients /\ t.active = s.active /\ t.unknown = s.unknown
    /\ t.seen = s.seen /\ t.marks = s.marks /\ t.known = s.known
    /\ t.events = s.events /\ t.ops = s.ops /\ t.latest = s.latest /\ t.lastKey = s.lastKey
SameMoney(s, t) == t.fills = s.fills /\ t.fillSeq = s.fillSeq /\ t.ledger = s.ledger

\* What a fill makes of the record of its order.
SameOrder(r, k) ==
    k.intent = r.intent /\ k.submitted = r.submitted /\ k.reference = r.reference
Grew(r, k, f) ==
    /\ k.filled = r.filled + f.quantity /\ k.spent = r.spent + Money(f)
    /\ k.remaining = (IF r.intent.notional = 0 THEN 0 ELSE r.remaining - Money(f))
    /\ k.status \in {"filled", "partially_filled"}
Affords(r, f) == r.intent.notional > 0 => Money(f) <= r.remaining

\* When an order may trade.
InTime(r, at) == at > r.submitted /\ at < r.intent.expires /\ LatencyOver(r.submitted, at)

StopRow(o, at) == [kind |-> "stop_triggered", order |-> o, at |-> at]

\* What the turn of order o may come to: r is its record before, k the one after.
Still(acc, next) ==
    next.s = acc.s /\ next.rows = acc.rows /\ next.liquidity = acc.liquidity
Expires(acc, next, o, r, k, at) ==
    /\ at > r.submitted /\ at >= r.intent.expires /\ next.ok = acc.ok
    /\ SameMoney(acc.s, next.s) /\ next.liquidity = acc.liquidity
    /\ k.filled = r.filled /\ k.spent = r.spent /\ k.remaining = r.remaining
    /\ k.triggered = r.triggered /\ k.status = "expired"
    /\ next.rows = Append(acc.rows, TransitionRow(o, r.status, "expired", at))
Latches(acc, next, o, r, k, at) ==
    /\ InTime(r, at) /\ next.ok = acc.ok
    /\ SameMoney(acc.s, next.s) /\ next.liquidity = acc.liquidity
    /\ k.filled = r.filled /\ k.spent = r.spent /\ k.remaining = r.remaining
    /\ ~ r.triggered /\ k.triggered /\ k.status = r.status
    /\ next.rows = Append(acc.rows, StopRow(o, at))
Sold(s, o, r, f, at) ==
    /\ f.order = o /\ f.at = at /\ f.id = s.fillSeq + 1
    /\ f.instrument = r.intent.instrument /\ f.side = r.intent.side
    /\ f.quantity > 0 /\ f.price > 0 /\ f.fee = Fee(f.quantity, f.price)
    /\ RespectsPrices(r.intent, f.price) /\ Covered(s.ledger, r.intent, f)
    /\ ~ FillRefused(s.ledger, f)
    /\ r.intent.notional = 0 => r.filled + f.quantity <= r.intent.quantity
    /\ Affords(r, f)
Paid(s, t, f) ==
    /\ t.fills = Append(s.fills, f) /\ t.fillSeq = s.fillSeq + 1
    /\ t.ledger = ApplyFill(s.ledger, f)
Deals(acc, next, o, r, k, f, at) ==
    /\ InTime(r, at) /\ Sold(acc.s, o, r, f, at) /\ f.quantity <= acc.liquidity
    /\ next.ok = acc.ok /\ next.liquidity = acc.liquidity - f.quantity
    /\ Paid(acc.s, next.s, f) /\ Grew(r, k, f)
    /\ \E pre \in {acc.rows, Append(acc.rows, StopRow(o, at))} :
          /\ next.rows = pre \o <<TransitionRow(o, r.status, k.status, at),
                                  FillRow(f, r.status, k.status, at, k)>>
          /\ pre # acc.rows => ~ r.triggered /\ r.intent.type = "stop" /\ k.triggered
          /\ pre = acc.rows => k.triggered = r.triggered
    /\ r.intent.type = "stop" => k.triggered
    /\ r.intent.type = "stop_limit" => r.triggered
Turned(acc, next, o, at) ==
    LET r == acc.s.orders[o]
        k == next.s.orders[o]
    IN /\ AccTyped(next) /\ Aside(acc.s, next.s)
       /\ next.s.orders = [acc.s.orders EXCEPT ![o] = k]
       /\ SameOrder(r, k)
       /\ \/ Still(acc, next)
          \/ Expires(acc, next, o, r, k, at)
          \/ Latches(acc, next, o, r, k, at)
          \/ \E f \in FillType : Deals(acc, next, o, r, k, f, at)

\* The fields after a stop triggers, or not.
LatchedFrom(acc, m, o, ref, at) ==
    /\ IsAcc(m) /\ IsState(m.s) /\ m.ok = acc.ok /\ m.liquidity = acc.liquidity
    /\ Aside(acc.s, m.s) /\ SameMoney(acc.s, m.s)
    /\ m.rows = IF ref.triggers THEN Append(acc.rows, StopRow(o, at)) ELSE acc.rows
    /\ \A k : [m.s.orders EXCEPT ![o] = k] = [acc.s.orders EXCEPT ![o] = k]

\* A stop that trades has triggered, a stop-limit order's did so before.
Triggering(r, ref) ==
    /\ ref.triggers => r.intent.type = "stop"
    /\ r.intent.type = "stop" => r.triggered \/ ref.triggers
    /\ r.intent.type = "stop_limit" => r.triggered

-----------------------------------------------------------------------------
(* What an operation may touch, and its rollback *)

\* Fills are only added, each with an id that the ledger did not know and now knows.
NewIds(s, t) == {t.fills[n].id : n \in (Len(s.fills) + 1)..Len(t.fills)}
Extends(s, t) ==
    /\ Len(s.fills) <= Len(t.fills)
    /\ \A n \in 1..Len(s.fills) : t.fills[n] = s.fills[n]
    /\ t.ledger.fills = s.ledger.fills \cup NewIds(s, t)
    /\ NewIds(s, t) \cap s.ledger.fills = {}

\* Nothing changes but the entries of some orders, client ids and instruments, and
\* what is no mapping.
Beside(f, g, I) == \A i \in Instruments \ I : g[i] = f[i]
Frame(s, t, O, C, I) ==
    /\ DOMAIN s.orders \subseteq DOMAIN t.orders
    /\ DOMAIN t.orders \subseteq DOMAIN s.orders \cup O
    /\ \A o \in DOMAIN s.orders \ O : t.orders[o] = s.orders[o]
    /\ s.clients \subseteq t.clients /\ t.clients \subseteq s.clients \cup C
    /\ Beside(s.active, t.active, I) /\ Beside(s.unknown, t.unknown, I)
    /\ Beside(s.seen, t.seen, I) /\ Beside(s.marks, t.marks, I)
    /\ s.known \subseteq t.known /\ t.known \subseteq s.known \cup I
    /\ Extends(s, t)

-----------------------------------------------------------------------------
(* The books *)

\* What a fill adds to the sums of BooksBalance.
Spending == [f \in FillType |-> IF f.side = "buy" THEN Money(f) * Scale + f.fee ELSE 0]
Earning == [f \in FillType |-> IF f.side = "sell" THEN Money(f) * Scale - f.fee ELSE 0]
Incoming(i) == [f \in FillType |-> IF f.side = "buy" /\ f.instrument = i THEN f.quantity ELSE 0]
Outgoing(i) == [f \in FillType |-> IF f.side = "sell" /\ f.instrument = i THEN f.quantity ELSE 0]
Filling(o) == [f \in FillType |-> IF f.order = o THEN f.quantity ELSE 0]
Paying(o) == [f \in FillType |-> IF f.order = o THEN Money(f) ELSE 0]
Weights == {Spending, Earning} \cup {Incoming(i) : i \in Instruments}
           \cup {Outgoing(i) : i \in Instruments}
           \cup {Filling(o) : o \in Orders} \cup {Paying(o) : o \in Orders}
Summed(fills, w) == Added([n \in DOMAIN fills |-> w[fills[n]]])

\* What a fill does to the ledger.
Applied(l, f, m) ==
    /\ m \in LedgerType
    /\ m.cash = IF f.side = "buy" THEN l.cash - (Money(f) * Scale + f.fee)
                                 ELSE l.cash + Money(f) * Scale - f.fee
    /\ m.held = [l.held EXCEPT ![f.instrument] =
                    IF f.side = "buy" THEN @ + f.quantity ELSE @ - f.quantity]
    /\ m.prices = [l.prices EXCEPT ![f.instrument] = f.price]
    /\ m.fills = l.fills \cup {f.id}
    /\ m.equity = Valuation(m.cash, m.held, m.prices)
    /\ m.peak = Larger(l.peak, m.equity)

\* The ledger and the fills agree.
Worthwhile(f) == f.side = "sell" => f.fee <= Money(f) * Scale
Balanced(fills, l) ==
    /\ (\A n \in DOMAIN fills : Worthwhile(fills[n])) => l.cash >= 0
    /\ l.cash + Summed(fills, Spending) = StartingCash * Scale + Summed(fills, Earning)
    /\ \A i \in Instruments :
          l.held[i] + Summed(fills, Outgoing(i)) = Summed(fills, Incoming(i))
    /\ l.fills = {fills[n].id : n \in DOMAIN fills}
    /\ IsFiniteSet(l.fills) /\ Cardinality(l.fills) = Len(fills)
    /\ Restorable(l)

\* The orders and the fills agree, and no order takes more than its size.
Accounted(orders, fills) ==
    \A o \in Orders :
       /\ Summed(fills, Filling(o)) = IF o \in DOMAIN orders THEN orders[o].filled ELSE 0
       /\ Summed(fills, Paying(o)) = IF o \in DOMAIN orders THEN orders[o].spent ELSE 0
Sized(r) ==
    /\ r.intent.notional = 0 => r.filled <= r.intent.quantity
    /\ r.intent.notional > 0 => r.remaining + r.spent = r.intent.notional
Solvent(s) ==
    /\ Balanced(s.fills, s.ledger) /\ Accounted(s.orders, s.fills)
    /\ \A o \in DOMAIN s.orders : Sized(s.orders[o])

\* What the kernels check of a fill that they book.
Bookable(l, f) ==
    /\ f.price > 0 /\ f.id \notin l.fills
    /\ f.side = "sell" => f.quantity <= l.held[f.instrument]
    /\ f.side = "buy" => Money(f) * Scale + f.fee <= l.cash

\* Whatever leads from s to t keeps the books in balance.
Pays(s, t) == Solvent(s) => Solvent(t)

\* A change of orders that moves no money.
SameSize(r, k) ==
    k.intent = r.intent /\ k.filled = r.filled /\ k.spent = r.spent /\ k.remaining = r.remaining

-----------------------------------------------------------------------------
(* What the rows of a market event say of liquidity *)

\* What a row takes of the liquidity of an instrument, and the rows together.
Taking(i) == [x \in RowType |->
                 IF x.kind = "fill" /\ x.fill.instrument = i THEN x.fill.quantity ELSE 0]
Taken(rows, i) == Added([n \in DOMAIN rows |-> Taking(i)[rows[n]]])

\* The fills of an instrument take from the liquidity that is left, and from nothing else.
Draws(rows, left, more, rest, i) ==
    /\ left \in Nat => rest \in Nat /\ Taken(more, i) + rest = Taken(rows, i) + left
    /\ \A j \in Instruments \ {i} : Taken(more, j) = Taken(rows, j)

-----------------------------------------------------------------------------
(* The sweep of an instrument *)

\* The rows of a sweep tell of orders only.
Tells(rows, more, at) ==
    \E new \in Seq(RowType) :
       /\ more = rows \o new
       /\ \A n \in 1..Len(new) : new[n].at = at
                                 /\ new[n].kind \in {"transition", "fill", "stop_triggered"}

\* From a to b the orders of instrument i had turns, and nothing else happened.
OrdersMarch(f, g, active) ==
    /\ DOMAIN g = DOMAIN f
    /\ \A k \in DOMAIN f : /\ SameOrder(f[k], g[k])
                           /\ k \notin active => g[k] = f[k]
                           /\ f[k].status # "unknown" => g[k].status # "unknown"
Sweeps(a, b, i, at) ==
    /\ AccTyped(b) /\ Aside(a.s, b.s)
    /\ OrdersMarch(a.s.orders, b.s.orders, a.s.active[i])
    /\ Extends(a.s, b.s)
    /\ Positions(b.s.ledger) \subseteq Positions(a.s.ledger) \cup {i}
    /\ Tells(a.rows, b.rows, at)
    /\ Pays(a.s, b.s)

\* The turns of a sweep, one after the other.
Goes(a, b, i, o, at) ==
    /\ o \in DOMAIN a.s.orders /\ a.s.orders[o].intent.instrument = i
    /\ b = a \/ Turned(a, b, o, at)
Toured(base, ids, path, i, at) ==
    /\ path[0] = base
    /\ \A n \in 0..Len(ids) : Sweeps(base, path[n], i, at)
    /\ \A n \in 0..(Len(ids) - 1) : Goes(path[n], path[n + 1], i, ids[n + 1], at)

\* What a sweep may start from.
Sweepable(acc, i) ==
    /\ acc.ok = TRUE /\ Typed(acc.s) /\ acc.rows \in Seq(RowType)
    /\ IsFiniteSet(acc.s.active[i])
    /\ \A o \in acc.s.active[i] : o \in DOMAIN acc.s.orders
                                  /\ acc.s.orders[o].intent.instrument = i

\* A sweep goes one by one through orders that wait for their turn as it found them.
Waiting(acc, i, bar, at) ==
    LET ids == InOrder(acc.s.active[i])
        base == Swept(acc, bar)
    IN /\ ids \in Seq(acc.s.active[i]) /\ AccTyped(base)
       /\ base.rows = acc.rows /\ base.s = acc.s
       /\ \E path :
            /\ Toured(base, ids, path, i, at) /\ path[Len(ids)] = Sweep(acc, i, bar, at)
            /\ \A n \in 0..(Len(ids) - 1) :
                  /\ ids[n + 1] \in acc.s.active[i] /\ ids[n + 1] \in DOMAIN acc.s.orders
                  /\ path[n].s.orders[ids[n + 1]] = acc.s.orders[ids[n + 1]]

\* It takes no more than its budget, and of no other instrument.
Within(rows, more, i, budget) ==
    /\ Taken(more, i) <= Taken(rows, i) + budget
    /\ \A j \in Instruments \ {i} : Taken(more, j) = Taken(rows, j)

-----------------------------------------------------------------------------
(* A state between operations *)

\* The maps agree: IndexesMatch, of one state.
On(s, i) == {o \in DOMAIN s.orders : s.orders[o].intent.instrument = i}
Indexed(s) ==
    /\ s.clients = DOMAIN s.orders
    /\ \A i \in Instruments :
          /\ s.active[i] = {o \in On(s, i) : Lifecycle!Executable(s.orders[o].status)}
          /\ s.unknown[i] = {o \in On(s, i) : s.orders[o].status = "unknown"}
          /\ s.active[i] \cup s.unknown[i] # {} => s.seen[i] # Unseen
Dated(x) == x = Unseen \/ x.at \in Times
Current(s) == \A i \in Instruments : s.seen[i].at <= s.latest /\ Dated(s.seen[i])
Good(s) == Typed(s) /\ Indexed(s) /\ Current(s) /\ IsFiniteSet(DOMAIN s.orders)

\* Where an input opens its instrument.
Opened(s, t, i) ==
    /\ Typed(t) /\ t.orders = s.orders /\ t.clients = s.clients /\ t.active = s.active
    /\ t.unknown = s.unknown /\ t.seen = s.seen /\ Beside(s.marks, t.marks, {i})
    /\ t.known = s.known \cup {i} /\ t.fills = s.fills /\ t.ledger = s.ledger
    /\ t.events = s.events /\ t.ops = s.ops /\ t.latest = s.latest

\* Where its observation closes it.
Concluded(t, u, i, at) ==
    /\ Typed(u) /\ u.orders = t.orders /\ u.clients = t.clients
    /\ u.active = [t.active EXCEPT ![i] =
                      {o \in @ : Lifecycle!Executable(t.orders[o].status)}]
    /\ u.unknown = t.unknown /\ Beside(t.seen, u.seen, {i}) /\ u.seen[i].at = at
    /\ u.marks = t.marks /\ u.known = t.known /\ u.fills = t.fills /\ u.ledger = t.ledger
    /\ u.events = t.events /\ u.ops = t.ops /\ u.latest = Larger(t.latest, at)

\* Between two inputs.
Kept(s, u) ==
    /\ Good(u) /\ u.unknown = s.unknown /\ \A j \in Instruments : u.active[j] \subseteq s.active[j]
    /\ s.latest <= u.latest /\ u.events = s.events /\ u.ops = s.ops /\ u.clients = s.clients
    /\ Pays(s, u)

-----------------------------------------------------------------------------
(* What the rows say of the life of an order *)

StatusOf(s, o) == IF o \in DOMAIN s.orders THEN s.orders[o].status ELSE Absent
IsMove(x, o) == x.kind = "transition" /\ x.order = o

\* The rows tell how an order came from one status to another.
Story(rows, o, from, to) ==
    \/ (\A n \in 1..Len(rows) : ~ IsMove(rows[n], o)) /\ to = from
    \/ \E n \in 1..Len(rows) : /\ IsMove(rows[n], o) /\ rows[n].to = to
                               /\ \A m \in (n + 1)..Len(rows) : ~ IsMove(rows[m], o)

\* What a market event makes of the status of an order.
Working == {"acknowledged", "partially_filled"}
Trades(from, to) ==
    from = to \/ (from \in Working /\ to \in {"partially_filled", "filled", "expired"})

\* Further rows go on with the stories of all orders.
Carries(s, rows, t, more) ==
    \A o \in Orders :
       /\ Trades(StatusOf(s, o), StatusOf(t, o))
       /\ \A from : Story(rows, o, from, StatusOf(s, o)) => Story(more, o, from, StatusOf(t, o))

\* Between operations an order is at work, unknown or closed.
Lived == {"acknowledged", "partially_filled", "unknown", "filled", "rejected", "cancelled",
          "expired", Absent}
Orderly(s) == \A o \in Orders : StatusOf(s, o) \in Lived

\* The rows of a group tell of every order by which edge it moved, if it did.
Moved(s, rows, t) ==
    \A o \in Orders :
       /\ Story(rows, o, StatusOf(s, o), StatusOf(t, o))
       /\ \/ StatusOf(t, o) = StatusOf(s, o)
          \/ Logged!Edge(StatusOf(s, o), StatusOf(t, o))

\* The orders of an orderly state go on with their stories.
Traded(s, rows, t, more) == Orderly(s) => Carries(s, rows, t, more)

-----------------------------------------------------------------------------
(* What the rows say of the fills *)

\* The rows that more has and rows has not.
Grows(rows, more) ==
    /\ Len(rows) \in Nat /\ Len(more) \in Nat /\ Len(rows) <= Len(more)
    /\ \A n \in 1..Len(rows) : more[n] = rows[n]
Later(rows, more) == (Len(rows) + 1)..Len(more)

\* A fill row keeps to the terms of its order, of which r is the record; and a stop it
\* needs has triggered before.
Stopped(x, o) == x.kind = "stop_triggered" /\ x.order = o
Keeps(x, r) ==
    /\ x.from \notin Lifecycle!Closed /\ RespectsPrices(r.intent, x.fill.price)
    /\ r.intent.notional = 0 => x.filled <= r.intent.quantity
    /\ r.intent.notional > 0 => x.spent <= r.intent.notional
    /\ ~ x.external => InTime(r, x.fill.at) /\ (r.intent.type = "stop_limit" => r.triggered)
Tripped(rows, n, r) ==
    ~ rows[n].external /\ r.intent.type = "stop" =>
        r.triggered \/ \E m \in 1..(n - 1) : Stopped(rows[m], rows[n].fill.order)
Lawful(s, rows, n) ==
    LET o == rows[n].fill.order
    IN o \in DOMAIN s.orders /\ Keeps(rows[n], s.orders[o]) /\ Tripped(rows, n, s.orders[o])

\* From s to t some orders had turns at an instant, and the later rows tell of them.
Latched(rows, more, o, at) ==
    \E n \in Later(rows, more) : Stopped(more[n], o) /\ more[n].at = at
Conducted(s, rows, t, more, who, at) ==
    /\ Grows(rows, more) /\ DOMAIN t.orders = DOMAIN s.orders
    /\ \A o \in DOMAIN s.orders :
          /\ SameOrder(s.orders[o], t.orders[o])
          /\ t.orders[o].triggered =>
                s.orders[o].triggered \/ (o \in who /\ Latched(rows, more, o, at))
    /\ \A n \in Later(rows, more) : more[n].kind = "fill" =>
          Lawful(s, more, n) /\ more[n].fill.at = at /\ more[n].fill.order \in who

\* From s to t the orders on some instruments had turns at an instant, which is then the
\* one these instruments were last seen at; everything else is as it was.
Placed(s, is) == {o \in DOMAIN s.orders : s.orders[o].intent.instrument \in is}
Acts(s, rows, t, more, is, at) ==
    /\ Conducted(s, rows, t, more, Placed(s, is), at)
    /\ \A o \in DOMAIN s.orders \ Placed(s, is) : t.orders[o] = s.orders[o]
    /\ \A i \in is : t.seen[i].at = at
    /\ \A i \in Instruments \ is : t.seen[i] = s.seen[i]
Acted(s, rows, t, more, is, at) == Solvent(s) => Acts(s, rows, t, more, is, at)

-----------------------------------------------------------------------------
(* A market event *)

IsResult(a) == a = [ok |-> a.ok, s |-> a.s, rows |-> a.rows]
IsInput(input) ==
    /\ input = [instrument |-> input.instrument, duplicate |-> input.duplicate,
                bar |-> input.bar]
    /\ input.instrument \in Instruments /\ input.duplicate \in BOOLEAN
    /\ IF input.duplicate THEN input.bar = NoBar ELSE input.bar \in BarType

\* The last row of an input tells which it was.
About(x, input, at) ==
    /\ x.at = at /\ x.instrument = input.instrument
    /\ x.kind = IF input.duplicate THEN "duplicate_snapshot" ELSE "observed"
    /\ ~ input.duplicate => x.bar = input.bar
Reports(rows, more, input, at) ==
    \E mid \in Seq(RowType), x \in RowType :
        Tells(rows, mid, at) /\ About(x, input, at) /\ more = Append(mid, x)

\* What an input lets be taken.
Ration(input) == IF input.duplicate THEN 0 ELSE LiquidityBudget(input.bar.volume)

\* What an input shows news of.
News(input) == IF input.duplicate THEN {} ELSE {input.instrument}

\* Between two inputs.
InputDone(a, b, input, at, O, C, I) ==
    /\ IsResult(b) /\ b.ok \in BOOLEAN /\ Typed(b.s) /\ b.rows \in Seq(RowType)
    /\ Frame(a.s, b.s, O, C, I) /\ b.s.events = a.s.events /\ b.s.ops = a.s.ops
    /\ b.ok => /\ Kept(a.s, b.s) /\ Reports(a.rows, b.rows, input, at)
               /\ Within(a.rows, b.rows, input.instrument, Ration(input))
               /\ Traded(a.s, a.rows, b.s, b.rows)
               /\ Acted(a.s, a.rows, b.s, b.rows, News(input), at)
               /\ Positions(b.s.ledger) \subseteq Positions(a.s.ledger) \cup {input.instrument}
               /\ ~ input.duplicate => at <= b.s.latest

\* The outcome of an observation.
Observes(swept, input, at, v, i, active, seen, x) ==
    Observe(swept, input, at) =
       Done([v EXCEPT !.active = [v.active EXCEPT ![i] = active],
                      !.seen = [v.seen EXCEPT ![i] = seen], !.latest = Larger(v.latest, at),
                      !.lastKey = [at |-> at, instrument |-> i]], Append(swept.rows, x))

\* What the rows tell of the first n inputs.
MarketKinds == {"transition", "fill", "stop_triggered", "observed", "duplicate_snapshot"}
Reported(rows, inputs, n, at) ==
    /\ \A m \in 1..Len(rows) : rows[m].at = at /\ rows[m].kind \in MarketKinds
    /\ \A k \in 1..n : \E m \in InputRows(rows) : About(rows[m], inputs[k], at)
    /\ \A m \in InputRows(rows) : \E k \in 1..n : About(rows[m], inputs[k], at)
    /\ \A m, l \in InputRows(rows) : m # l => rows[m].instrument # rows[l].instrument

Distinct(inputs) ==
    \A m, n \in DOMAIN inputs : m # n => inputs[m].instrument # inputs[n].instrument

\* What the first n inputs let be taken.
Rationed(rows, inputs, n) ==
    /\ \A k \in 1..n : Taken(rows, inputs[k].instrument) <= Ration(inputs[k])
    /\ \A i \in Instruments : (\A k \in 1..n : inputs[k].instrument # i) => Taken(rows, i) = 0

\* The orders of an instrument share the liquidity of its bar: LiquidityShared, of the
\* rows of one group.
Shares(rows) ==
    \A n \in DOMAIN rows : rows[n].kind = "observed" =>
        Taken(rows, rows[n].instrument) * Scale <= rows[n].bar.volume * Participation

InputType == [instrument : Instruments, duplicate : BOOLEAN, bar : BarType \cup {NoBar}]
Named(inputs) == {inputs[n].instrument : n \in DOMAIN inputs}

\* What the first n inputs show news of.
Newly(inputs, n) == {inputs[m].instrument : m \in {k \in 1..n : ~ inputs[k].duplicate}}

\* What a market event may act on.
IsCohort(s, inputs, at) ==
    /\ inputs \in Seq(InputType) /\ inputs # <<>> /\ Distinct(inputs)
    /\ \A n \in DOMAIN inputs : IsInput(inputs[n])
    /\ Named(inputs) = Relevant(s) /\ at \in Times /\ s.latest <= at
    /\ \A n \in DOMAIN inputs :
          LET last == s.seen[inputs[n].instrument].at
          IN IF inputs[n].duplicate THEN last = at ELSE last < at

\* Where the first n inputs of a market event have led to.
Reached(s, inputs, at, a, n, O, C, I) ==
    /\ IsResult(a) /\ a.ok \in BOOLEAN /\ Typed(a.s) /\ a.rows \in Seq(RowType)
    /\ Frame(s, a.s, O, C, I) /\ a.s.events = s.events /\ a.s.ops = s.ops
    /\ a.ok => /\ Kept(s, a.s) /\ Reported(a.rows, inputs, n, at)
               /\ Rationed(a.rows, inputs, n) /\ Traded(s, <<>>, a.s, a.rows)
               /\ Acted(s, <<>>, a.s, a.rows, Newly(inputs, n), at)
               /\ Positions(a.s.ledger) \subseteq Positions(s.ledger) \cup Named(inputs)
               /\ \A m \in 1..n : ~ inputs[m].duplicate => at <= a.s.latest

\* Inputs are listed by instrument.
ById(inputs) ==
    LET ids == InOrder(Named(inputs))
    IN DOMAIN inputs = DOMAIN ids /\ \A n \in DOMAIN inputs : inputs[n].instrument = ids[n]

-----------------------------------------------------------------------------
(* What a kernel comes to *)

Fits(s) == WorstRows(ReservedInstruments(s), Cardinality(Reserved(s))) <= MaxGroup

\* What the rows of a group say of its fills, of the stops it triggers and of new orders.
Submits(x, o, r) ==
    x.kind = "submitted" /\ x.order = o /\ x.intent = r.intent /\ x.at = r.submitted
Enters(rows, t, o) ==
    /\ WellShaped(t.orders[o].intent) /\ ~ t.orders[o].triggered
    /\ \E n \in 1..Len(rows) : Submits(rows[n], o, t.orders[o])
Remains(s, rows, t, o) ==
    /\ SameOrder(s.orders[o], t.orders[o])
    /\ t.orders[o].triggered =>
          \/ s.orders[o].triggered
          \/ \E n \in 1..Len(rows) :
                /\ Stopped(rows[n], o)
                /\ rows[n].at <= t.seen[t.orders[o].intent.instrument].at
Fresh(s, x) == s.seen[s.orders[x.fill.order].intent.instrument].at < x.fill.at
Bears(s, rows, t) ==
    /\ \A n \in 1..Len(rows) : rows[n].kind = "fill" =>
          Lawful(s, rows, n) /\ (~ rows[n].external => Fresh(s, rows[n]))
    /\ \A i \in Instruments : s.seen[i].at <= t.seen[i].at
    /\ DOMAIN s.orders \subseteq DOMAIN t.orders
    /\ \A o \in DOMAIN s.orders : Remains(s, rows, t, o)
    /\ \A o \in DOMAIN t.orders \ DOMAIN s.orders : Enters(rows, t, o)

\* What the rows of a group say of how it led from s to t: how the liquidity was shared,
\* what became of every order, and how the fills keep to the orders.
Explains(s, rows, t) ==
    Shares(rows) /\ (Orderly(s) => Moved(s, rows, t)) /\ (Solvent(s) => Bears(s, rows, t))

\* Done at instant at from s, whatever it touched; and if it did not raise, a state
\* between operations with the rows that tell how it came about.
Outcome(s, r, at, O, C, I) ==
    /\ r.ok \in BOOLEAN /\ Typed(r.s) /\ Frame(s, r.s, O, C, I)
    /\ r.s.events = s.events /\ r.s.ops = s.ops
    /\ r.ok => /\ Good(r.s) /\ r.rows \in Seq(RowType) /\ r.rows # <<>>
               /\ \A n \in 1..Len(r.rows) : r.rows[n].at = at
               /\ s.latest <= at /\ at <= r.s.latest
               /\ Again(s, r.rows) = r
               /\ Fits(s) => Fits(r.s)
               /\ Pays(s, r.s)
               /\ Explains(s, r.rows, r.s)

\* The mark of a state changes its ledger only, and not what it knows of fills.
Remarked(t, u) ==
    /\ Typed(u) /\ u.orders = t.orders /\ u.clients = t.clients /\ u.active = t.active
    /\ u.unknown = t.unknown /\ u.seen = t.seen /\ u.marks = t.marks /\ u.known = t.known
    /\ u.fills = t.fills /\ u.events = t.events /\ u.ops = t.ops /\ u.latest = t.latest
    /\ u.ledger = Mark(t.ledger, t.marks)
    /\ u.ledger.fills = t.ledger.fills /\ u.ledger.held = t.ledger.held

-----------------------------------------------------------------------------
(* The indexes of an order *)

\* An order enters or leaves the index of its instrument.
Indexes(index, i, o, included) ==
    [index EXCEPT ![i] = IF included THEN index[i] \cup {o} ELSE index[i] \ {o}]

\* _sync_order_indexes
Synced(s, t, o, i, status) ==
    /\ Typed(t) /\ t.orders = s.orders /\ t.clients = s.clients
    /\ t.active = Indexes(s.active, i, o, Lifecycle!Executable(status))
    /\ t.unknown = Indexes(s.unknown, i, o, status = "unknown")
    /\ t.seen = s.seen /\ t.marks = s.marks /\ t.known = s.known /\ t.fills = s.fills
    /\ t.fillSeq = s.fillSeq /\ t.events = s.events /\ t.ops = s.ops
    /\ t.ledger = s.ledger /\ t.latest = s.latest /\ t.lastKey = s.lastKey

\* One order, new or not, of which the indexes know.
OrderIndexed(s, t, o, i) ==
    /\ DOMAIN t.orders = DOMAIN s.orders \cup {o} /\ t.clients = s.clients \cup {o}
    /\ t.orders[o].intent.instrument = i
    /\ o \in DOMAIN s.orders => s.orders[o].intent.instrument = i
    /\ \A k \in DOMAIN s.orders \ {o} : t.orders[k] = s.orders[k]
    /\ t.active = Indexes(s.active, i, o, Lifecycle!Executable(t.orders[o].status))
    /\ t.unknown = Indexes(s.unknown, i, o, t.orders[o].status = "unknown")
    /\ \A j \in Instruments : s.seen[j] # Unseen => t.seen[j] # Unseen
    /\ t.active[i] \cup t.unknown[i] # {} => t.seen[i] # Unseen

\* Only the orders change.
WithOrders(s, t, orders) ==
    /\ Typed(t) /\ t.orders = orders /\ t.clients = s.clients /\ t.active = s.active
    /\ t.unknown = s.unknown /\ t.seen = s.seen /\ t.marks = s.marks /\ t.known = s.known
    /\ t.fills = s.fills /\ t.fillSeq = s.fillSeq /\ t.events = s.events /\ t.ops = s.ops
    /\ t.ledger = s.ledger /\ t.latest = s.latest /\ t.lastKey = s.lastKey

\* Then client ids, a snapshot and the watermark.
Finished(s, t, clients, seen, latest) ==
    /\ Typed(t) /\ t.orders = s.orders /\ t.clients = clients /\ t.active = s.active
    /\ t.unknown = s.unknown /\ t.seen = seen /\ t.marks = s.marks /\ t.known = s.known
    /\ t.fills = s.fills /\ t.fillSeq = s.fillSeq /\ t.events = s.events /\ t.ops = s.ops
    /\ t.ledger = s.ledger /\ t.latest = latest /\ t.lastKey = s.lastKey

\* Where an operation on one order that was there already has led to.
Reworked(s, u, o, i, k) ==
    /\ Typed(u) /\ u.orders = [s.orders EXCEPT ![o] = k] /\ u.clients = s.clients
    /\ u.active = Indexes(s.active, i, o, Lifecycle!Executable(k.status))
    /\ u.unknown = Indexes(s.unknown, i, o, k.status = "unknown") /\ u.seen = s.seen
    /\ Beside(s.marks, u.marks, {i}) /\ s.known \subseteq u.known
    /\ u.known \subseteq s.known \cup {i} /\ Extends(s, u) /\ s.latest <= u.latest
    /\ u.events = s.events /\ u.ops = s.ops

\* The order o is of instrument i and still open, and k is another record of it.
Reworkable(s, o, i, k) ==
    /\ o \in DOMAIN s.orders /\ i \in Instruments
    /\ s.orders[o].intent.instrument = i /\ k.intent = s.orders[o].intent
    /\ s.orders[o].status = "unknown" \/ Lifecycle!Executable(s.orders[o].status)

\* A good state follows, within the frame, that reserves no more and opens no instrument.
KeptWithin(s, u, O, C, I) ==
    /\ Good(u) /\ Frame(s, u, O, C, I) /\ Reserved(u) \subseteq Reserved(s)
    /\ \A j \in Instruments : u.active[j] \cup u.unknown[j] # {} =>
                                 s.active[j] \cup s.unknown[j] # {}

-----------------------------------------------------------------------------
(* A submission *)

\* The rows of a submission.
Submission(rows, market, submitted, o, at) ==
    /\ rows \in Seq(RowType) /\ Len(rows) = 6 /\ rows[1] = market /\ rows[2] = submitted
    /\ \A n \in 3..6 : rows[n] = TransitionRow(o, SubmissionPath[n - 2], SubmissionPath[n - 1], at)
    /\ \A n \in 1..6 : rows[n].at = at

-----------------------------------------------------------------------------
(* Evidence of one fill *)

\* What the checks and the bookings read of an answer and its fill.
Approves(r, l, sum, at, id, made, quantity, price, fee) ==
    /\ id \notin l.fills \cup sum.ids
    /\ made >= r.submitted /\ made <= at
    /\ (made > sum.key.at \/ (made = sum.key.at /\ id > sum.key.id))
    /\ quantity > 0 /\ quantity % Step = 0 /\ price > 0
    /\ RespectsPrices(r.intent, price)
    /\ LET k == [l EXCEPT !.cash = sum.cash,
                          !.held = [@ EXCEPT ![r.intent.instrument] = sum.held]]
       IN IF r.intent.side = "buy" THEN quantity * price * Scale + fee <= k.cash
                                   ELSE quantity <= k.held[r.intent.instrument]
Tallied(r, l, sum, at, id, made, quantity, price, fee) ==
    IF ~ sum.ok \/ ~ Approves(r, l, sum, at, id, made, quantity, price, fee)
    THEN [sum EXCEPT !.ok = FALSE]
    ELSE [sum EXCEPT !.ids = @ \cup {id}, !.key = [at |-> made, id |-> id],
                     !.quantity = @ + quantity, !.spent = @ + quantity * price,
                     !.cash = IF r.intent.side = "buy"
                              THEN @ - (quantity * price * Scale + fee) ELSE @,
                     !.held = IF r.intent.side = "buy" THEN @ ELSE @ - quantity]
Answer(s, o, status, at, filled, price, r, sum, bookings) ==
    LET i == r.intent.instrument
        after == [r EXCEPT !.status = status, !.filled = filled, !.updated = at,
                           !.spent = @ + sum.spent, !.count = @ + 1,
                           !.remaining = IF r.intent.notional = 0 THEN 0 ELSE @ - sum.spent,
                           !.last = sum.key]
    IN SyncIndexes([s EXCEPT !.ledger = FoldLeft(ApplyFill, @, bookings),
                             !.fills = @ \o bookings,
                             !.orders = [@ EXCEPT ![o] = after],
                             !.fillSeq = @ + 1,
                             !.marks = [@ EXCEPT ![i] = price],
                             !.known = @ \cup {i}, !.latest = at], o)
Declined(s, status, at, filled, r, sum) ==
    \/ r.status # "unknown"
    \/ r.count + 1 > MaxFillsPerOrder
    \/ Regresses(s, at)
    \/ status \notin {"partially_filled", "filled"}
    \/ r.intent.instrument \notin s.known
    \/ OriginalNotional(r) < MinNotional
    \/ ~ sum.ok
    \/ filled # r.filled + sum.quantity
    \/ r.intent.notional = 0 /\ filled > r.intent.quantity
    \/ r.intent.notional > 0 /\ sum.spent > r.remaining
    \/ (status = "filled") # (IF r.intent.notional = 0 THEN filled = r.intent.quantity
                                                       ELSE r.remaining = sum.spent)
AnswerRows(o, status, at, r, bookings) ==
    <<TransitionRow(o, "unknown", status, at)>> \o
    [n \in DOMAIN bookings |->
        [FillRow(bookings[n], "unknown", status, at,
                 FoldLeft(Grown, r, SubSeq(bookings, 1, n))) EXCEPT !.external = TRUE]]
Booked1(o, r, x) ==
    [id |-> x.id, order |-> o, instrument |-> r.intent.instrument,
     side |-> r.intent.side, quantity |-> x.quantity, price |-> x.price,
     fee |-> x.fee, at |-> x.at]

\* The start of a tally.
Blank(s, r) == [ok |-> TRUE, ids |-> {}, key |-> r.last, quantity |-> 0, spent |-> 0,
                cash |-> s.ledger.cash, held |-> s.ledger.held[r.intent.instrument]]
Sum1(s, r, at, x) == Tallied(r, s.ledger, Blank(s, r), at, x.id, x.at, x.quantity, x.price, x.fee)

\* An authoritative fill.
External == [id : Nat, quantity : Nat, price : Nat, fee : Nat, at : Times]

\* What an approved fill adds to an empty tally.
Approved(s, r, at, x, sum) ==
    /\ sum.quantity = x.quantity /\ sum.spent = x.quantity * x.price
    /\ sum.key = [at |-> x.at, id |-> x.id]
    /\ x.id \notin s.ledger.fills /\ x.at >= r.submitted /\ x.at <= at
    /\ x.quantity > 0 /\ x.price > 0 /\ RespectsPrices(r.intent, x.price)
    /\ IF r.intent.side = "buy" THEN x.quantity * x.price * Scale + x.fee <= s.ledger.cash
                                ELSE x.quantity <= s.ledger.held[r.intent.instrument]

\* What an accepted answer makes of the order, the books and the indexes.
Answered(s, u, o, r, k, f, at) ==
    /\ f \in FillType /\ f.order = o /\ f.instrument = r.intent.instrument
    /\ f.side = r.intent.side /\ f.quantity > 0 /\ f.price > 0
    /\ f.side = "sell" => f.quantity <= s.ledger.held[f.instrument]
    /\ f.side = "buy" => Money(f) * Scale + f.fee <= s.ledger.cash
    /\ RespectsPrices(r.intent, f.price) /\ Affords(r, f) /\ f.id \notin s.ledger.fills
    /\ k \in OrderRecord /\ SameOrder(r, k) /\ Grew(r, k, f) /\ k.triggered = r.triggered
    /\ r.status = "unknown" /\ s.latest <= at /\ u.latest = at
    /\ Reworked(s, u, o, r.intent.instrument, k)
    /\ Applied(s.ledger, f, u.ledger) /\ u.fills = Append(s.fills, f)
    /\ u.fillSeq = s.fillSeq + 1
    /\ r.intent.notional = 0 => k.filled <= r.intent.quantity

\* The two rows of an answer of one fill.
Told(rows, o, status, at, r, f) ==
    /\ rows \in Seq(RowType) /\ Len(rows) = 2
    /\ rows[1] = TransitionRow(o, "unknown", status, at)
    /\ rows[2] = [kind |-> "fill", order |-> o, fill |-> f, from |-> "unknown", to |-> status,
                  at |-> at, filled |-> r.filled + f.quantity, spent |-> r.spent + Money(f),
                  external |-> TRUE]

-----------------------------------------------------------------------------
(* Operations on top of a state *)

\* Two more counters.
Recounted(t, u, n) ==
    /\ Typed(u) /\ u.orders = t.orders /\ u.clients = t.clients /\ u.active = t.active
    /\ u.unknown = t.unknown /\ u.seen = t.seen /\ u.marks = t.marks /\ u.known = t.known
    /\ u.fills = t.fills /\ u.fillSeq = t.fillSeq /\ u.ledger = t.ledger
    /\ u.latest = t.latest /\ u.lastKey = t.lastKey
    /\ u.events = t.events + n + 1 /\ u.ops = t.ops + 1

\* A staged operation is ready to commit: its rows lead from s to where it is, by the
\* kernel that replay would run.
Ready(s, x) ==
    /\ Good(x.s) /\ Fits(x.s) /\ Solvent(x.s) /\ x.s.ops = s.ops + 1
    /\ Explains(s, x.rows, x.s)
    /\ x.rows \in Seq(RowType) /\ x.rows # <<>>
    /\ \A n \in 1..Len(x.rows) : x.rows[n].at = x.at
    /\ x.at \in Nat /\ s.latest <= x.at /\ x.at <= x.s.latest
    /\ Again(s, x.rows).ok /\ Again(s, x.rows).rows = x.rows
    /\ Counted(Again(s, x.rows).s, x.rows) = x.s /\ WithinLimits(x.s, x.rows)

\* An operation on top of s can be taken back.
OnTop(s, x) ==
    /\ x.pc \in {"staged", "raised"} /\ Typed(x.s)
    /\ RolledBack(x.s, x.journal) = s /\ x.journal.ops = s.ops
    /\ ~ RestoreRefused(x.s.ledger, x.journal.ledger, AddedFills(x.s, x.journal))
    /\ x.pc = "staged" => Ready(s, x)

\* What an operation stages.
Stages(result, journal, at) ==
    LET counted == Counted(result.s, result.rows)
        accepted == result.ok /\ WithinLimits(counted, result.rows)
    IN [pc |-> IF accepted THEN "staged" ELSE "raised",
        s |-> IF result.ok THEN counted ELSE result.s,
        journal |-> journal, rows |-> result.rows, at |-> at]

-----------------------------------------------------------------------------
(* The log *)

\* Recovery from a prefix of n groups.
Recovered(l, n) == Replay(SubSeq(l, 1, n))
IsRecovery(acc, n) ==
    /\ acc = [ok |-> TRUE, s |-> acc.s, at |-> acc.at]
    /\ Good(acc.s) /\ Fits(acc.s) /\ Solvent(acc.s) /\ acc.s.ops = n
    /\ acc.at \in Nat /\ acc.at <= acc.s.latest

\* Every prefix of a log can be recovered.
SoundLog(l) ==
    /\ \E X : l \in Seq(X)
    /\ \A n \in 0..Len(l) : IsRecovery(Recovered(l, n), n)
    /\ \A n \in 1..Len(l) : /\ l[n].rows \in Seq(RowType)
                             /\ Explains(Recovered(l, n - 1).s, l[n].rows, Recovered(l, n).s)

\* The prefixes of a log that grows.
Longer(l, k, Y) ==
    /\ \A n \in 0..Len(l) : SubSeq(k, 1, n) = SubSeq(l, 1, n)
    /\ SubSeq(l, 1, Len(l)) = l /\ SubSeq(k, 1, Len(l) + 1) = k
    /\ k \in Seq(Y) /\ Len(k) = Len(l) + 1 /\ Len(l) \in Nat

-----------------------------------------------------------------------------
(* The inductive invariant *)

\* A broker has in memory what recovery computes from the groups it has counted, or an
\* operation on top of that.
HeldBy(l, x) ==
    \/ x = Down
    \/ x.pc = "idle" /\ x.s.ops \in 0..Len(l) /\ x.s = Recovered(l, x.s.ops).s
    \/ x.journal.ops \in 0..Len(l) /\ OnTop(Recovered(l, x.journal.ops).s, x)
AskedOf(qs) == \A q \in qs : q.broker \in Brokers /\ q.order \in Orders /\ q.to \in Answers
IInv ==
    /\ SoundLog(log) /\ saved \in 0..Len(log)
    /\ broker = [b \in Brokers |-> broker[b]]
    /\ \A b \in Brokers : HeldBy(log, broker[b])
    /\ AskedOf(asked)

-----------------------------------------------------------------------------
(* The steps *)

\* A market event: the inputs of a cohort.
CohortInputs(cohort) ==
    LET ids == InOrder(DOMAIN cohort)
    IN [n \in DOMAIN ids |-> [instrument |-> ids[n], duplicate |-> cohort[ids[n]] = NoBar,
                              bar |-> cohort[ids[n]]]]

-----------------------------------------------------------------------------
(* The log tells the life of every order *)

\* The last move of an order in the first n groups, if there is one, led to a status.
NoMoves(l, o, from, to) ==
    \A g \in from..to : \A m \in 1..Len(l[g].rows) : ~ IsMove(l[g].rows[m], o)
LastTold(l, n, o, st) ==
    \/ NoMoves(l, o, 1, n) /\ st = Absent
    \/ \E g \in 1..n : \E m \in 1..Len(l[g].rows) :
          /\ IsMove(l[g].rows[m], o) /\ l[g].rows[m].to = st
          /\ \A k \in (m + 1)..Len(l[g].rows) : ~ IsMove(l[g].rows[k], o)
          /\ NoMoves(l, o, g + 1, n)

\* What the log tells of every order is its status in the state that recovery computes.
Telling(l, n, s) == Orderly(s) /\ \A o \in Orders : LastTold(l, n, o, StatusOf(s, o))

\* The places of the moves of an order, and the status the last of them tells.
PlacesIn(l) == UNION {{<<g, n>> : n \in DOMAIN l[g].rows} : g \in DOMAIN l}
MovesIn(l, o) == {p \in PlacesIn(l) : IsMove(l[p[1]].rows[p[2]], o)}
Final(M) == CHOOSE p \in M : \A q \in M : Before(q, p)
ToldBy(l, o) ==
    IF MovesIn(l, o) = {} THEN Absent
    ELSE LET p == Final(MovesIn(l, o)) IN l[p[1]].rows[p[2]].to

-----------------------------------------------------------------------------
(* The log tells the terms of every fill *)

\* The first n groups hold the intent of an order of a state and, if its stop triggered,
\* the row that says so, not later than the last snapshot of its instrument.
VouchedFor(l, n, s, o) ==
    LET r == s.orders[o]
    IN \E g \in 1..n : \E m \in 1..Len(l[g].rows) :
          /\ Submits(l[g].rows[m], o, r)
          /\ r.triggered =>
                \E h \in (g + 1)..n : \E k \in 1..Len(l[h].rows) :
                   /\ Stopped(l[h].rows[k], o)
                   /\ l[h].rows[k].at <= s.seen[r.intent.instrument].at
Vouched(l, n, s) ==
    \A o \in DOMAIN s.orders : WellShaped(s.orders[o].intent) /\ VouchedFor(l, n, s, o)

\* Every fill row keeps to the order that an earlier group submitted, and the stop that its
\* order waited for stands between the two.
Ordered(l, g, n, h, m, r) ==
    LET x == l[g].rows[n]
    IN /\ Submits(l[h].rows[m], x.fill.order, r) /\ Keeps(x, r) /\ WellShaped(r.intent)
       /\ ~ x.external /\ r.intent.trigger > 0 =>
             \E j \in (h + 1)..g : \E k \in 1..Len(l[j].rows) :
                /\ j = g => k < n
                /\ Stopped(l[j].rows[k], x.fill.order)
                /\ r.intent.type = "stop_limit" => l[j].rows[k].at < x.fill.at

\* The fill x, the row at p, keeps to the intent that the row at q submitted at an instant.
WithinTerms(p, x, q, in, submitted) ==
    /\ in.side = "buy" => /\ in.stop < x.fill.price /\ x.fill.price < in.take
                          /\ in.limit > 0 => x.fill.price <= in.limit
    /\ in.side = "sell" => /\ in.take < x.fill.price /\ x.fill.price < in.stop
                           /\ in.limit > 0 => x.fill.price >= in.limit
    /\ in.quantity > 0 => x.filled <= in.quantity
    /\ in.notional > 0 => x.spent <= in.notional
    /\ ~ x.external =>
          /\ x.fill.at > submitted /\ x.fill.at >= submitted + Latency
          /\ x.fill.at < in.expires
          /\ in.trigger > 0 => \E k \in Places :
                /\ Before(q, k) /\ Before(k, p)
                /\ Row(k).kind = "stop_triggered" /\ Row(k).order = x.fill.order
                /\ in.type = "stop_limit" => Row(k).at < x.fill.at
=============================================================================
