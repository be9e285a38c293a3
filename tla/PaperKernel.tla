----------------------------- MODULE PaperKernel -----------------------------
(***************************************************************************)
(* The kernels of execution/paper.py: what one operation of a paper        *)
(* session does to its state, and the activity rows that tell it.  A       *)
(* kernel works on the state in place, so one that raises half-way returns *)
(* ok FALSE with what it had changed by then.  Replay feeds the durable    *)
(* rows back through the same kernels.                                     *)
(*                                                                         *)
(* Order and instrument ids are naturals, in the order the code sorts      *)
(* them; an order and the client intent it executes share one id.  One     *)
(* instant stands for a snapshot's source_at and observed_at.  0 stands    *)
(* for None: of a price, a quantity, an instant, a fill id.                *)
(***************************************************************************)
EXTENDS PortfolioLedger, FillModel, SequencesExt

CONSTANTS Orders,           \* client intent ids
          Absent,           \* no status
          MinNotional,      \* Instrument.minimum_notional
          MaxGroup,         \* _MAX_GROUP_ACTIVITIES
          MaxSessionOrders, \* _MAX_SESSION_ORDERS
          MaxFillsPerOrder  \* _MAX_FILLS_PER_ORDER

ASSUME IdsAssumption == Orders \subseteq Nat \ {0} /\ Instruments \subseteq Nat \ {0}
ASSUME LimitsAssumption ==
    {MinNotional, MaxGroup, MaxSessionOrders, MaxFillsPerOrder} \subseteq Nat \ {0}

Lifecycle == INSTANCE OrderLifecycle WITH status <- [o \in Orders |-> Absent]

ASSUME AbsentAssumption == Absent \notin Lifecycle!Statuses

\* Nothing seen of an instrument: no retained snapshot, no cursor.
Unseen == [at |-> 0, close |-> 0, bars |-> 0]

NoBar == [open |-> 0, high |-> 0, low |-> 0, close |-> 0, volume |-> 0]

\* _PaperState, less the digests: the log itself stands for their chain.
BlankState ==
    [orders |-> <<>>, clients |-> {},
     active |-> [i \in Instruments |-> {}], unknown |-> [i \in Instruments |-> {}],
     seen |-> [i \in Instruments |-> Unseen],
     marks |-> [i \in Instruments |-> 0], known |-> {},
     fills |-> <<>>, fillSeq |-> 0, events |-> 0, ops |-> 0,
     ledger |-> EmptyLedger, latest |-> 0, lastKey |-> [at |-> 0, instrument |-> 0]]

\* OrderIntent, Bar, Fill and what is retained of a snapshot.
IntentType == [instrument : Instruments, side : {"buy", "sell"},
               type : {"market", "limit", "stop", "stop_limit"},
               quantity : Nat, notional : Nat, limit : Nat, trigger : Nat,
               stop : Nat, take : Nat, expires : Nat]
BarType == [open : Nat \ {0}, high : Nat \ {0}, low : Nat \ {0}, close : Nat \ {0},
            volume : Nat]
FillType == [id : Nat, order : Orders, instrument : Instruments, side : {"buy", "sell"},
             quantity : Nat, price : Nat, fee : Nat, at : Nat]
SeenType == [at : Nat, close : Nat, bars : Nat]

-----------------------------------------------------------------------------
(* Rows *)

TransitionRow(o, from, to, at) ==
    [kind |-> "transition", order |-> o, from |-> from, to |-> to, at |-> at]
FillRow(f, from, to, at, r) ==
    [kind |-> "fill", order |-> f.order, fill |-> f, from |-> from, to |-> to, at |-> at,
     filled |-> r.filled, spent |-> r.spent, external |-> FALSE]

\* The outcome of a kernel.
Done(s, rows) == [ok |-> TRUE, s |-> s, rows |-> rows]
Raised(s) == [ok |-> FALSE, s |-> s, rows |-> <<>>]

-----------------------------------------------------------------------------
(* Helpers of the kernels *)

\* The ids in ascending order.
InOrder(ids) == CHOOSE q \in [1..Cardinality(ids) -> ids] :
                    \A m, n \in DOMAIN q : m < n => q[m] < q[n]

\* entries over, or next to, those of a mapping.
Overlay(entries, mapping) ==
    [k \in DOMAIN entries \cup DOMAIN mapping |->
        IF k \in DOMAIN entries THEN entries[k] ELSE mapping[k]]

\* _sync_order_indexes
\* Mutant of SyncIndexes: the index of unknown orders does not follow.
SyncActiveOnly(s, o) ==
    LET r == s.orders[o]
    IN [s EXCEPT !.active[r.intent.instrument] =
            IF Lifecycle!Executable(r.status) THEN @ \cup {o} ELSE @ \ {o}]
SyncIndexes(s, o) ==
    LET r == s.orders[o]
        Member(index, included) ==
            [index EXCEPT ![r.intent.instrument] = IF included THEN @ \cup {o} ELSE @ \ {o}]
    IN [s EXCEPT !.active = Member(@, Lifecycle!Executable(r.status)),
                 !.unknown = Member(@, r.status = "unknown")]

\* _relevant_instrument_ids
Relevant(s) == {i \in Instruments : s.active[i] # {}} \cup Positions(s.ledger)

Reserved(s) == UNION {s.active[i] \cup s.unknown[i] : i \in Instruments}
ReservedInstruments(s) ==
    {i \in Instruments : s.active[i] # {} \/ s.unknown[i] # {}} \cup Positions(s.ledger)

\* _validate_admission_liveness: the rows the next market event may need.
WorstRows(instruments, orders) == Cardinality(instruments) + 3 * orders
\* Mutant of Admissible: an unknown order reserves nothing.
AdmissibleIgnoringUnknown(s, i) ==
    WorstRows(Relevant(s) \cup {i},
              Cardinality(UNION {s.active[j] : j \in Instruments}) + 1) <= MaxGroup
Admissible(s, i) ==
    WorstRows(ReservedInstruments(s) \cup {i}, Cardinality(Reserved(s)) + 1) <= MaxGroup

\* _validate_watermark
Regresses(s, at) == at < s.latest

\* The prices an intent declares, or the last close for a market order.
References(in, close) ==
    IF in.type = "market" THEN {close} ELSE {in.limit, in.trigger} \ {0}
\* Strictly inside the protective bracket: _validate_protective_prices.
Inside(in, price) == IF in.side = "buy" THEN in.stop < price /\ price < in.take
                                        ELSE in.stop > price /\ price > in.take

\* _validate_intent_shape
WellShaped(in) ==
    /\ (in.quantity = 0) # (in.notional = 0)
    /\ in.limit > 0 <=> in.type \in {"limit", "stop_limit"}
    /\ in.trigger > 0 <=> in.type \in {"stop", "stop_limit"}
    /\ IF in.side = "buy" THEN in.stop < in.take ELSE in.stop > in.take
    /\ \A p \in {in.limit, in.trigger} \ {0} : Inside(in, p)
    /\ in.type = "stop_limit" =>
          IF in.side = "buy" THEN in.limit >= in.trigger ELSE in.limit <= in.trigger

\* Mutant of RespectsPrices: only the bracket counts.
RespectsBracketOnly(in, price) == Inside(in, price)
\* _respects_order_prices
RespectsPrices(in, price) ==
    /\ in.limit > 0 => IF in.side = "buy" THEN price <= in.limit ELSE price >= in.limit
    /\ Inside(in, price)

\* _original_requested_notional
OriginalNotional(r) ==
    IF r.intent.notional > 0 THEN r.intent.notional
    ELSE r.intent.quantity * Min(References(r.intent, r.reference))

-----------------------------------------------------------------------------
(* _execute_submit_kernel *)

SubmissionPath == <<"proposed", "risk_approved", "confirmed", "submitting", "acknowledged">>

SubmitRefused(s, o, in, seen) ==
    \/ ~ WellShaped(in)
    \/ o \in s.clients
    \/ \E p \in References(in, seen.close) : ~ Inside(in, p)
    \/ Regresses(s, seen.at)
    \/ in.expires <= seen.at
    \/ ~ Admissible(s, in.instrument)
    \/ s.seen[in.instrument] \notin {Unseen, seen}

SubmitKernel(s, o, in, seen) ==
    IF SubmitRefused(s, o, in, seen) THEN Raised(s)
    ELSE LET fresh == s.seen[in.instrument] = Unseen
             market == [kind |-> IF fresh THEN "submission" ELSE "submission_reference",
                        instrument |-> in.instrument, seen |-> seen, at |-> seen.at]
             submitted == [kind |-> "submitted", order |-> o, intent |-> in, at |-> seen.at]
             record == [intent |-> in, status |-> "acknowledged", filled |-> 0, spent |-> 0,
                        submitted |-> seen.at, updated |-> seen.at,
                        reference |-> seen.close, remaining |-> in.notional,
                        triggered |-> FALSE, count |-> 0, last |-> [at |-> seen.at, id |-> 0]]
             staged == SyncIndexes([s EXCEPT !.orders = Overlay([k \in {o} |-> record], @)], o)
         IN Done([staged EXCEPT !.clients = @ \cup {o},
                                !.seen = [@ EXCEPT ![in.instrument] = seen],
                                !.latest = Larger(@, seen.at)],
                 <<market, submitted>> \o
                 [j \in 1..4 |-> TransitionRow(o, SubmissionPath[j], SubmissionPath[j + 1],
                                               seen.at)])

(* _execute_idempotency_kernel *)

IdempotencyKernel(s, o, in) ==
    IF ~ WellShaped(in) \/ o \notin s.clients THEN Raised(s)
    ELSE LET kind == IF s.orders[o].intent = in THEN "duplicate" ELSE "duplicate_conflict"
         IN Done(s, <<[kind |-> kind, order |-> o, intent |-> in, at |-> s.latest,
                       from |-> s.orders[o].status]>>)

(* _execute_resolution_kernel *)

\* Mutant of ResolutionRefused: the state machine is not asked.
ResolutionUnguarded(s, o, to, at) == o \notin DOMAIN s.orders \/ Regresses(s, at)
ResolutionRefused(s, o, to, at) ==
    \/ o \notin DOMAIN s.orders
    \/ Regresses(s, at)
    \/ to \notin Lifecycle!Allowed(s.orders[o].status)

ResolutionKernel(s, o, to, at, rejects) ==
    IF ResolutionRefused(s, o, to, at) THEN Raised(s)
    ELSE LET from == s.orders[o].status
             staged == [s EXCEPT !.orders = [@ EXCEPT ![o].status = to, ![o].updated = at]]
             reason == [kind |-> "rejected", order |-> o, from |-> from, to |-> to, at |-> at]
         IN Done([SyncIndexes(staged, o) EXCEPT !.latest = at],
                 (IF rejects THEN <<reason>> ELSE <<>>) \o <<TransitionRow(o, from, to, at)>>)

-----------------------------------------------------------------------------
(* PaperBroker._process_order: one order and one new bar *)

LimitReference(in, bar) ==
    CASE in.side = "buy" /\ bar.low <= in.limit -> Smaller(bar.open, in.limit)
      [] in.side = "sell" /\ bar.high >= in.limit -> Larger(bar.open, in.limit)
      [] OTHER -> 0

Crossed(in, bar) == IF in.side = "buy" THEN bar.high >= in.trigger
                                       ELSE bar.low <= in.trigger

\* _reference_price: the price to trade at, if any, and whether the stop triggers.
Reference(r, bar) ==
    LET in == r.intent
        latched == r.triggered
        worse == IF in.side = "buy" THEN Larger(bar.open, in.trigger)
                                    ELSE Smaller(bar.open, in.trigger)
    IN CASE in.type = "market" \/ (in.type = "stop" /\ latched) ->
                [price |-> bar.open, triggers |-> FALSE]
         [] in.type = "limit" \/ (in.type = "stop_limit" /\ latched) ->
                [price |-> LimitReference(in, bar), triggers |-> FALSE]
         [] in.type = "stop" /\ ~ latched /\ Crossed(in, bar) ->
                [price |-> worse, triggers |-> TRUE]
         [] in.type = "stop_limit" /\ ~ latched /\ Crossed(in, bar) ->
                [price |-> 0, triggers |-> TRUE]
         [] OTHER -> [price |-> 0, triggers |-> FALSE]

\* The fill that FillModel offers the order at a reference price.
Offer(s, o, reference, at, liquidity) ==
    LET r == s.orders[o]
        price == FillPrice(r.intent.side, reference)
        first == Allocate(IF r.intent.notional = 0 THEN r.intent.quantity - r.filled
                                                   ELSE r.remaining \div reference, liquidity)
        quantity == IF r.intent.notional = 0 \/ first = 0 \/ price = 0 THEN first
                    ELSE Smaller(first, Allocate(r.remaining \div price, liquidity))
    IN [id |-> s.fillSeq + 1, order |-> o, instrument |-> r.intent.instrument,
        side |-> r.intent.side, quantity |-> quantity, price |-> price,
        fee |-> Fee(quantity, price), at |-> at]

\* Mutant of Covered: the fee is forgotten.
CoveredBeforeFee(l, in, f) ==
    IF in.side = "buy" THEN f.quantity * f.price * Scale <= l.cash
                       ELSE f.quantity <= l.held[in.instrument]
\* Cash for a buy, the position for a sell.
Covered(l, in, f) ==
    IF in.side = "buy" THEN f.quantity * f.price * Scale + f.fee <= l.cash
                       ELSE f.quantity <= l.held[in.instrument]

Takes(s, r, reference, f) ==
    /\ f.quantity > 0
    /\ RespectsPrices(r.intent, f.price)
    /\ (IF r.intent.notional > 0 THEN r.intent.notional
                                 ELSE r.intent.quantity * reference) >= MinNotional
    /\ r.intent.notional > 0 => f.quantity * f.price <= r.remaining
    /\ Covered(s.ledger, r.intent, f)

\* The errors of the call, which abort the whole market event.
Misaligned(in) == in.notional = 0 /\ in.quantity % Step # 0
OrderRaises(s, r, reference, f) ==
    \/ Misaligned(r.intent)
    \/ f.quantity > 0 /\ f.price = 0
    \/ Takes(s, r, reference, f) /\ (r.count >= MaxFillsPerOrder \/ FillRefused(s.ledger, f))

\* Mutant of FilledRecord: what the order had spent before is taken off again.
FilledRecordTwice(r, f) ==
    LET remaining == IF r.intent.notional = 0 THEN 0
                     ELSE r.remaining - r.spent - f.quantity * f.price
    IN [r EXCEPT !.status = IF r.filled + f.quantity = r.intent.quantity \/ remaining = 0
                            THEN "filled" ELSE "partially_filled",
                 !.filled = @ + f.quantity, !.spent = @ + f.quantity * f.price,
                 !.remaining = remaining, !.updated = f.at, !.count = @ + 1,
                 !.last = [at |-> f.at, id |-> f.id]]
\* The record after an accepted offer.
FilledRecord(r, f) ==
    LET remaining == IF r.intent.notional = 0 THEN 0 ELSE r.remaining - f.quantity * f.price
        complete == IF r.intent.notional = 0 THEN r.filled + f.quantity = r.intent.quantity
                                             ELSE remaining = 0
    IN [r EXCEPT !.status = IF complete THEN "filled" ELSE "partially_filled",
                 !.filled = @ + f.quantity, !.spent = @ + f.quantity * f.price,
                 !.remaining = remaining, !.updated = f.at, !.count = @ + 1,
                 !.last = [at |-> f.at, id |-> f.id]]

\* acc carries the state, the rows and the liquidity of the event left to share;
\* ref is the reference price found, f the fill offered at it.
Trade(acc, r, ref, f) ==
    LET filled == FilledRecord([r EXCEPT !.triggered = @ \/ ref.triggers], f)
    IN [acc EXCEPT
          !.s.orders = [@ EXCEPT ![f.order] = filled],
          !.s.ledger = ApplyFill(@, f),
          !.s.fillSeq = @ + 1, !.s.fills = Append(@, f),
          !.liquidity = @ - f.quantity,
          !.rows = @ \o <<TransitionRow(f.order, r.status, filled.status, f.at),
                          FillRow(f, r.status, filled.status, f.at, filled)>>]

Latch(acc, o, ref, at) ==
    IF ref.triggers
    THEN [acc EXCEPT !.s.orders = [@ EXCEPT ![o].triggered = TRUE],
                     !.rows = Append(@, [kind |-> "stop_triggered", order |-> o, at |-> at])]
    ELSE acc

Expire(acc, o, r, at) ==
    [acc EXCEPT !.s.orders = [@ EXCEPT ![o].status = "expired", ![o].updated = at],
                !.rows = Append(@, TransitionRow(o, r.status, "expired", at))]

Attempt(acc, r, ref, f) ==
    CASE ref.price = 0 -> Latch(acc, f.order, ref, f.at)
      [] ref.price > 0 /\ OrderRaises(acc.s, r, ref.price, f) -> [acc EXCEPT !.ok = FALSE]
      [] OTHER -> IF Takes(acc.s, r, ref.price, f)
                  THEN Trade(Latch(acc, f.order, ref, f.at), r, ref, f)
                  ELSE Latch(acc, f.order, ref, f.at)

ProcessOrder(acc, o, r, ref, at) ==
    CASE at <= r.submitted -> acc
      [] at > r.submitted /\ at >= r.intent.expires -> Expire(acc, o, r, at)
      [] at > r.submitted /\ at < r.intent.expires /\ ~ LatencyOver(r.submitted, at) -> acc
      [] OTHER -> Attempt(acc, r, ref, Offer(acc.s, o, ref.price, at, acc.liquidity))

-----------------------------------------------------------------------------
(* _execute_market_kernel *)

IsNew(input) == ~ input.duplicate

\* The active orders of an instrument in id order, sharing one liquidity budget.
Process(acc, o, bar, at) ==
    IF acc.ok THEN ProcessOrder(acc, o, acc.s.orders[o], Reference(acc.s.orders[o], bar), at)
              ELSE acc
Sweep(acc, i, bar, at) ==
    FoldLeft(LAMBDA a, o : Process(a, o, bar, at),
             [ok |-> acc.ok, s |-> acc.s, rows |-> acc.rows,
              liquidity |-> LiquidityBudget(bar.volume)],
             InOrder(acc.s.active[i]))

\* Then the indexes, the retained snapshot and the row.
Observe(swept, input, at) ==
    LET i == input.instrument
        seen == [at |-> at, close |-> input.bar.close, bars |-> swept.s.seen[i].bars + 1]
        active == {o \in swept.s.active[i] : Lifecycle!Executable(swept.s.orders[o].status)}
    IN IF ~ swept.ok THEN Raised(swept.s)
       ELSE Done([swept.s EXCEPT
                    !.active = [@ EXCEPT ![i] = active],
                    !.seen = [@ EXCEPT ![i] = seen],
                    !.latest = Larger(@, at),
                    !.lastKey = [at |-> at, instrument |-> i]],
                 Append(swept.rows, [kind |-> "observed", instrument |-> i, bar |-> input.bar,
                                     seen |-> seen, at |-> at]))

\* One instrument of the cohort.
MarketInput(acc, input, at) ==
    LET i == input.instrument
        duplicate == [kind |-> "duplicate_snapshot", instrument |-> i,
                      seen |-> acc.s.seen[i], at |-> at]
        opened == [acc EXCEPT !.s.marks = [@ EXCEPT ![i] = input.bar.close],
                              !.s.known = @ \cup {i}]
    IN CASE ~ acc.ok -> acc
         [] acc.ok /\ input.duplicate -> [acc EXCEPT !.rows = Append(@, duplicate)]
         [] OTHER -> Observe(Sweep(opened, i, input.bar, at), input, at)

Marked(result) ==
    CASE ~ result.ok -> result
      [] result.ok /\ MarkRefused(result.s.ledger, result.s.marks) -> Raised(result.s)
      [] OTHER -> [result EXCEPT !.s.ledger = Mark(@, result.s.marks)]

\* inputs is sorted by event key: at is common, so by instrument.
MarketKernel(s, inputs, at) ==
    LET swept == FoldLeft(LAMBDA acc, input : MarketInput(acc, input, at), Done(s, <<>>), inputs)
    IN IF \E n \in DOMAIN inputs : IsNew(inputs[n]) THEN Marked(swept) ELSE swept

-----------------------------------------------------------------------------
(* _execute_reconciliation_kernel: e is an authoritative order and its new fills *)

KeyAfter(k, l) == k.at > l.at \/ (k.at = l.at /\ k.id > l.id)

\* The checks of one fill, against the cash and the position its elders leave.
FillAccepted(r, e, f, sum, l) ==
    /\ f.id \notin l.fills \cup sum.ids
    /\ f.at >= r.submitted /\ f.at <= e.at
    /\ KeyAfter(f, sum.key)
    /\ f.quantity > 0 /\ f.quantity % Step = 0 /\ f.price > 0
    /\ RespectsPrices(r.intent, f.price)
    /\ Covered([l EXCEPT !.cash = sum.cash,
                         !.held = [@ EXCEPT ![r.intent.instrument] = sum.held]], r.intent, f)

TallyFill(l, r, e, sum, f) ==
    IF ~ sum.ok \/ ~ FillAccepted(r, e, f, sum, l) THEN [sum EXCEPT !.ok = FALSE]
    ELSE [sum EXCEPT !.ids = @ \cup {f.id}, !.key = [at |-> f.at, id |-> f.id],
                     !.quantity = @ + f.quantity, !.spent = @ + f.quantity * f.price,
                     !.cash = IF r.intent.side = "buy"
                              THEN @ - (f.quantity * f.price * Scale + f.fee) ELSE @,
                     !.held = IF r.intent.side = "buy" THEN @ ELSE @ - f.quantity]
Tally(s, r, e) ==
    FoldLeft(LAMBDA sum, f : TallyFill(s.ledger, r, e, sum, f),
             [ok |-> TRUE, ids |-> {}, key |-> r.last, quantity |-> 0, spent |-> 0,
              cash |-> s.ledger.cash, held |-> s.ledger.held[r.intent.instrument]], e.fills)

\* r is the record of the order the evidence names, sum the tally of its fills.
EvidenceRefused(s, e, r, sum) ==
    \/ r.status # "unknown"
    \/ r.count + Len(e.fills) > MaxFillsPerOrder
    \/ Regresses(s, e.at)
    \/ e.status \notin {"partially_filled", "filled"}
    \/ r.intent.instrument \notin s.known
    \/ OriginalNotional(r) < MinNotional
    \/ ~ sum.ok
    \/ e.filled # r.filled + sum.quantity
    \/ r.intent.notional = 0 /\ e.filled > r.intent.quantity
    \/ r.intent.notional > 0 /\ sum.spent > r.remaining
    \/ (e.status = "filled") # (IF r.intent.notional = 0 THEN e.filled = r.intent.quantity
                                                         ELSE r.remaining = sum.spent)

Booking(e, r, f) ==
    [id |-> f.id, order |-> e.order, instrument |-> r.intent.instrument,
     side |-> r.intent.side, quantity |-> f.quantity, price |-> f.price,
     fee |-> f.fee, at |-> f.at]

\* The state before the final mark.
Reconciled(s, e, r, sum, bookings) ==
    LET i == r.intent.instrument
        after == [r EXCEPT !.status = e.status, !.filled = e.filled, !.updated = e.at,
                           !.spent = @ + sum.spent, !.count = @ + Len(e.fills),
                           !.remaining = IF r.intent.notional = 0 THEN 0 ELSE @ - sum.spent,
                           !.last = sum.key]
    IN SyncIndexes([s EXCEPT !.ledger = FoldLeft(ApplyFill, @, bookings),
                             !.fills = @ \o bookings,
                             !.orders = [@ EXCEPT ![e.order] = after],
                             !.fillSeq = @ + Len(e.fills),
                             !.marks = [@ EXCEPT ![i] = Last(e.fills).price],
                             !.known = @ \cup {i}, !.latest = e.at], e.order)

\* A fill row tells the record up to that fill.
Grown(r, f) == [r EXCEPT !.filled = @ + f.quantity, !.spent = @ + f.quantity * f.price]
EvidenceRows(e, r, bookings) ==
    <<TransitionRow(e.order, "unknown", e.status, e.at)>> \o
    [n \in DOMAIN bookings |->
        [FillRow(bookings[n], "unknown", e.status, e.at,
                 FoldLeft(Grown, r, SubSeq(bookings, 1, n))) EXCEPT !.external = TRUE]]

Weigh(s, e, r, sum) ==
    LET bookings == [n \in DOMAIN e.fills |-> Booking(e, r, e.fills[n])]
    IN IF EvidenceRefused(s, e, r, sum) THEN Raised(s)
       ELSE Marked(Done(Reconciled(s, e, r, sum, bookings), EvidenceRows(e, r, bookings)))

EvidenceKernel(s, e) ==
    IF e.fills = <<>> \/ Len(e.fills) + 1 > MaxGroup \/ e.order \notin DOMAIN s.orders
    THEN Raised(s)
    ELSE Weigh(s, e, s.orders[e.order], Tally(s, s.orders[e.order], e))
=============================================================================
