----------------------------- MODULE PaperBroker -----------------------------
(***************************************************************************)
(* PaperBroker (execution/paper.py): one durable paper session, and the    *)
(* broker objects that work on it.  Every operation holds the lock of its  *)
(* broker, changes the state in place, appends its rows in one transaction *)
(* and takes everything back when something raises; a crash leaves only    *)
(* the log and the head the caller retained.  Two brokers on one session   *)
(* know of each other only through event ids that are taken.               *)
(***************************************************************************)
EXTENDS PaperReplay

CONSTANTS Brokers,   \* broker objects, in one process or several
          Offers,    \* what callers submit: [order, intent]
          Bars,      \* what markets do next: [open, high, low, close, volume]
          Evidence,  \* what reconciliation finds: [order, status, fill]
          Settlements, \* statuses callers settle an order with
          Answers,   \* statuses callers pass to reconcile_unknown
          MayCrash,  \* whether processes may die
          MayFail,   \* whether record_many may raise
          MaxTime,   \* bound: instants
          MaxOps     \* bound: committed operations

ASSUME SettlementsAssumption ==
    Settlements \subseteq {"cancelled", "rejected", "expired", "unknown"}
ASSUME FaultsAssumption == MayCrash \in BOOLEAN /\ MayFail \in BOOLEAN

ASSUME OffersAssumption == Offers \subseteq [order : Orders, intent : IntentType]
ASSUME BarsAssumption == Bars \subseteq BarType
\* An authoritative fill has an id, and a price of at least 0; its instant comes later.
ASSUME EvidenceAssumption ==
    Evidence \subseteq [order : Orders, status : {"partially_filled", "filled"},
                        fill : [id : Nat \ {0}, quantity : Nat, price : Nat, fee : Nat,
                                at : {0}]]
ASSUME BoundsAssumption == MaxTime \in Nat /\ MaxOps \in Nat

VARIABLES log,    \* the groups of the session, in the event store
          saved,  \* operation_count of the SessionHead the caller retained
          broker, \* broker[b]: the object, and the operation it is inside of
          asked   \* reconcile_unknown calls between their check and _resolve

vars == <<log, saved, broker, asked>>

Times == 1..MaxTime

\* No operation: nothing journaled.
Idle(s) == [pc |-> "idle", s |-> s, journal |-> <<>>, rows |-> <<>>, at |-> 0]
Down == [Idle(BlankState) EXCEPT !.pc = "down"]

At(b, label) == broker[b].pc = label
State(b) == broker[b].s

-----------------------------------------------------------------------------
(* _StateJournal *)

\* capture: the entries of the orders, client ids and instruments an operation
\* names, where there are any, and everything that is not a mapping.
Capture(s, orders, clients, instruments) ==
    [orders |-> Restrict(s.orders, orders \cap DOMAIN s.orders),
     newOrders |-> orders \ DOMAIN s.orders, newClients |-> clients \ s.clients,
     active |-> Restrict(s.active, instruments), unknown |-> Restrict(s.unknown, instruments),
     seen |-> Restrict(s.seen, instruments), marks |-> Restrict(s.marks, instruments),
     unmet |-> instruments \ s.known,
     fills |-> Len(s.fills), ledger |-> Compact(s.ledger), fillSeq |-> s.fillSeq,
     events |-> s.events, ops |-> s.ops, latest |-> s.latest, lastKey |-> s.lastKey]

\* Mutant of AddedFills: the first fill of the operation is missed.
AddedFillsButFirst(s, j) == {s.fills[n].id : n \in (j.fills + 2)..Len(s.fills)}
AddedFills(s, j) == {s.fills[n].id : n \in (j.fills + 1)..Len(s.fills)}

\* Mutant of Reindexed: the index of unknown orders is forgotten.
ReindexedActive(s, j) == [s EXCEPT !.active = Overlay(j.active, @)]
Reindexed(s, j) == [s EXCEPT !.active = Overlay(j.active, @), !.unknown = Overlay(j.unknown, @)]

\* rollback
RolledBack(s, j) ==
    [Reindexed(s, j) EXCEPT
        !.ledger = Restore(@, j.ledger, AddedFills(s, j)),
        !.fills = SubSeq(@, 1, j.fills),
        !.orders = Overlay(j.orders, Restrict(@, DOMAIN @ \ j.newOrders)),
        !.clients = @ \ j.newClients,
        !.seen = Overlay(j.seen, @), !.marks = Overlay(j.marks, @), !.known = @ \ j.unmet,
        !.fillSeq = j.fillSeq, !.events = j.events, !.ops = j.ops,
        !.latest = j.latest, !.lastKey = j.lastKey]

-----------------------------------------------------------------------------
Init == /\ log = <<>> /\ saved = 0
        /\ broker = [b \in Brokers |-> Idle(BlankState)]
        /\ asked = {}

(* The frame of every operation: capture, kernel, and _commit up to record_many. *)

\* A kernel that raises before it changes anything is no step.
Stage(b, result, journal, at) ==
    LET counted == Counted(result.s, result.rows)
        accepted == result.ok /\ WithinLimits(counted, result.rows)
    IN /\ result.ok \/ result.s # State(b)
       /\ broker' = [broker EXCEPT ![b] =
             [pc |-> IF accepted THEN "staged" ELSE "raised",
              s |-> IF result.ok THEN counted ELSE result.s,
              journal |-> journal, rows |-> result.rows, at |-> at]]

Begins(b) == At(b, "idle") /\ State(b).ops < MaxOps

\* What a first snapshot leaves of itself.
FirstSeen == {[at |-> t, close |-> bar.close, bars |-> 1] : t \in Times, bar \in Bars}

\* submit.  A first snapshot may be any; later ones must be the retained one.
Submit(b) ==
    /\ Begins(b)
    /\ \E offer \in Offers :
          LET s == State(b)
              o == offer.order
              i == offer.intent.instrument
          IN IF o \in s.clients
             THEN Stage(b, IdempotencyKernel(s, o, offer.intent),
                        Capture(s, {o}, {o}, {s.orders[o].intent.instrument}), s.latest)
             ELSE \E seen \in IF s.seen[i] = Unseen THEN FirstSeen ELSE {s.seen[i]} :
                     Stage(b, SubmitKernel(s, o, offer.intent, seen),
                           Capture(s, {o}, {o}, {i}), seen.at)
    /\ UNCHANGED <<log, saved, asked>>

\* on_snapshots and on_rolling_snapshots: for every relevant instrument one unseen
\* bar or the retained snapshot again.
MarketEvent(b) ==
    /\ Begins(b)
    /\ \E at \in Times, cohort \in [Relevant(State(b)) -> Bars \cup {NoBar}] :
          LET s == State(b)
              ids == InOrder(DOMAIN cohort)
              inputs == [n \in DOMAIN ids |-> [instrument |-> ids[n],
                            duplicate |-> cohort[ids[n]] = NoBar, bar |-> cohort[ids[n]]]]
          IN /\ inputs # <<>>
             /\ ~ Regresses(s, at)
             /\ ~ CohortRefused(s, inputs, at)
             /\ Stage(b, MarketKernel(s, inputs, at),
                      Capture(s, UNION {s.active[i] : i \in DOMAIN cohort}, {}, DOMAIN cohort), at)
    /\ UNCHANGED <<log, saved, asked>>

\* _resolve
Resolve(b, o, to, at, rejects) ==
    LET s == State(b)
        instruments == {s.orders[k].intent.instrument : k \in {o} \cap DOMAIN s.orders}
    IN Stage(b, ResolutionKernel(s, o, to, at, rejects), Capture(s, {o}, {}, instruments), at)

\* cancel, reject, expire, mark_unknown
Settle(b) ==
    /\ Begins(b)
    /\ \E o \in Orders, to \in Settlements, at \in Times :
          Resolve(b, o, to, at, to = "rejected")
    /\ UNCHANGED <<log, saved, asked>>

\* reconcile_unknown reads the status under the lock and gives the lock up.
\* Bound: one call at a time for each answer.
AskUnknown(b) ==
    /\ At(b, "idle")
    /\ \E o \in DOMAIN State(b).orders, to \in Answers :
          /\ \A q \in asked : q.broker = b => q.to # to
          /\ State(b).orders[o].status = "unknown"
          /\ asked' = asked \cup {[broker |-> b, order |-> o, to |-> to]}
    /\ UNCHANGED <<log, saved, broker>>

\* Then it calls _resolve, which may refuse.
ResolveUnknown(b) ==
    /\ Begins(b)
    /\ \E q \in asked, at \in Times :
          /\ q.broker = b
          /\ asked' = asked \ {q}
          /\ IF ResolutionKernel(State(b), q.order, q.to, at, FALSE).ok
             THEN Resolve(b, q.order, q.to, at, FALSE)
             ELSE UNCHANGED broker
    /\ UNCHANGED <<log, saved>>

\* reconcile_unknown_fills, with one fill made at any instant up to the answer.
ReconcileFills(b) ==
    /\ Begins(b)
    /\ \E x \in Evidence, at \in Times :
          LET s == State(b)
          IN /\ x.order \in DOMAIN s.orders
             /\ \E made \in 1..at :
                   Stage(b, EvidenceKernel(s, [order |-> x.order, status |-> x.status,
                               at |-> at, fills |-> <<[x.fill EXCEPT !.at = made]>>,
                               filled |-> s.orders[x.order].filled + x.fill.quantity]),
                         Capture(s, {x.order}, {}, {s.orders[x.order].intent.instrument}), at)
    /\ UNCHANGED <<log, saved, asked>>

-----------------------------------------------------------------------------
(* The end of an operation *)

Group(b) == [rows |-> broker[b].rows,
             checkpoint |-> Checkpoint(State(b), OperationKind(broker[b].rows), broker[b].at)]

\* The ids of the rows continue those the broker has counted: they are free only
\* if that is the whole log.
\* Mutant of IdsFree: the store accepts a row whose id is taken.
IdsUnchecked(b) == TRUE
IdsFree(b) == broker[b].journal.ops = Len(log)

Undone(b) == broker' = [broker EXCEPT ![b] = Idle(RolledBack(@.s, @.journal))]

Commit(b) == /\ At(b, "staged") /\ IdsFree(b)
             /\ log' = Append(log, Group(b))
             /\ broker' = [broker EXCEPT ![b] = Idle(@.s)]
             /\ UNCHANGED <<saved, asked>>

\* The kernel or the store raised.
Abort(b) == /\ At(b, "raised") \/ (At(b, "staged") /\ (MayFail \/ ~ IdsFree(b)))
            /\ Undone(b)
            /\ UNCHANGED <<log, saved, asked>>

\* The transaction is durable, and record_many raises all the same.
CommitLost(b) == /\ MayFail
                 /\ At(b, "staged") /\ IdsFree(b)
                 /\ log' = Append(log, Group(b))
                 /\ Undone(b)
                 /\ UNCHANGED <<saved, asked>>

-----------------------------------------------------------------------------
(* The caller and the process *)

\* Only a crash makes anybody read the head again.
SaveHead(b) == /\ MayCrash
               /\ At(b, "idle") /\ saved # State(b).ops
               /\ saved' = State(b).ops
               /\ UNCHANGED <<log, broker, asked>>

Crash(b) == /\ MayCrash /\ ~ At(b, "down")
            /\ broker' = [broker EXCEPT ![b] = Down]
            /\ asked' = {q \in asked : q.broker # b}
            /\ UNCHANGED <<log, saved>>

\* rehydrate_durable wants the head to be exactly the log's.
HeadAccepted(replayed) == log # <<>> /\ saved = Len(log) /\ replayed.ok

Reopen(b, replayed) == /\ HeadAccepted(replayed)
                       /\ broker' = [broker EXCEPT ![b] = Idle(replayed.s)]

Rehydrate(b) == /\ At(b, "down")
                /\ Reopen(b, Replay(log))
                /\ UNCHANGED <<log, saved, asked>>

Next == \E b \in Brokers :
            \/ Submit(b) \/ MarketEvent(b) \/ Settle(b)
            \/ AskUnknown(b) \/ ResolveUnknown(b) \/ ReconcileFills(b)
            \/ Commit(b) \/ Abort(b) \/ CommitLost(b)
            \/ SaveHead(b) \/ Crash(b) \/ Rehydrate(b)

Spec == Init /\ [][Next]_vars

-----------------------------------------------------------------------------
(* Views of the log and of the state *)

\* The places of the rows, in the order of the log.
Places == UNION {{<<g, n>> : n \in DOMAIN log[g].rows} : g \in DOMAIN log}
Row(p) == log[p[1]].rows[p[2]]
Before(p, q) == p[1] < q[1] \/ (p[1] = q[1] /\ p[2] <= q[2])

\* The status of an order that its last transition row tells.
Moves(o) == {p \in Places : Row(p).kind = "transition" /\ Row(p).order = o}
LoggedStatus(o) ==
    IF Moves(o) = {} THEN Absent
    ELSE Row(CHOOSE p \in Moves(o) : \A q \in Moves(o) : Before(q, p)).to

Logged == INSTANCE OrderLifecycle WITH status <- [o \in Orders |-> LoggedStatus(o)]

\* The sum of a quantity over the rows or fills that pass a test.
Added(numbers) == FoldLeft(LAMBDA sum, n : sum + n, 0, numbers)
Total(fills, Of(_), Test(_)) ==
    Added([n \in DOMAIN fills |-> IF Test(fills[n]) THEN Of(fills[n]) ELSE 0])
Quantity(f) == f.quantity
Money(f) == f.quantity * f.price

-----------------------------------------------------------------------------
(* Properties *)

OrderRecord == [intent : {x.intent : x \in Offers}, status : Logged!Statuses,
                filled : Nat, spent : Nat, submitted : Times, updated : Times,
                reference : Nat, remaining : Nat, triggered : BOOLEAN, count : Nat,
                last : [at : Times, id : Nat]]
LedgerType == [cash : Int, held : [Instruments -> Nat], prices : [Instruments -> Nat],
               fills : SUBSET Nat, equity : Int, peak : Int]
Entries == [Instruments -> SUBSET Orders]
Typed(s) ==
    /\ s \in [orders : [DOMAIN s.orders -> OrderRecord], clients : SUBSET Orders,
              active : Entries, unknown : Entries, seen : [Instruments -> SeenType],
              marks : [Instruments -> Nat], known : SUBSET Instruments,
              fills : Seq(FillType), fillSeq : Nat, events : Nat, ops : Nat,
              ledger : LedgerType, latest : 0..MaxTime,
              lastKey : [at : 0..MaxTime, instrument : Instruments \cup {0}]]
    /\ DOMAIN s.orders \subseteq Orders

TypeOK ==
    /\ saved \in 0..Len(log)
    /\ \A b \in Brokers :
          /\ broker[b].pc \in {"down", "idle", "staged", "raised"}
          /\ Typed(State(b))
    /\ \A q \in asked : q.broker \in Brokers /\ q.order \in Orders /\ q.to \in Answers

(***************************************************************************)
(* What a broker has in memory is what recovery computes from the rows the *)
(* broker has counted, and recovery refuses none of them: between          *)
(* operations, and also after the rollback of an operation that got any    *)
(* part of its way, since in-place changes are undone key by key.          *)
(***************************************************************************)
MemoryMatchesLog ==
    \A b \in Brokers : ~ At(b, "down") =>
        LET Agrees(s, replayed) == replayed.ok /\ replayed.s = s
            Memory(s) == Agrees(s, Replay(SubSeq(log, 1, s.ops)))
        IN Memory(IF At(b, "idle") THEN State(b)
                                   ELSE RolledBack(State(b), broker[b].journal))

(***************************************************************************)
(* rollback itself never raises: the fills it takes back are exactly those *)
(* the ledger gained (restore_compact_state).                              *)
(***************************************************************************)
RollbackCannotFail ==
    \A b \in Brokers : broker[b].pc \in {"staged", "raised"} =>
        ~ RestoreRefused(State(b).ledger, broker[b].journal.ledger,
                         AddedFills(State(b), broker[b].journal))

(***************************************************************************)
(* The maps that five kernels maintain side by side agree: client ids and  *)
(* orders, and the two indexes of each instrument and the statuses.        *)
(***************************************************************************)
IndexesMatch ==
    \A b \in Brokers : At(b, "idle") =>
        LET s == State(b)
            With(i, Test(_)) == {o \in DOMAIN s.orders : /\ s.orders[o].intent.instrument = i
                                                         /\ Test(s.orders[o].status)}
        IN /\ s.clients = DOMAIN s.orders
           /\ \A i \in Instruments :
                 /\ s.active[i] = With(i, Logged!Executable)
                 /\ s.unknown[i] = With(i, LAMBDA st : st = "unknown")
                 /\ s.active[i] \cup s.unknown[i] # {} => s.seen[i] # Unseen

(***************************************************************************)
(* The books balance: cash and positions are what the fills make of the    *)
(* starting cash, no fill is booked twice, the orders add up to the same   *)
(* fills, and the ledger is one that from_state would take back.  Cash is  *)
(* not negative, unless a sale has cost more in fees than it brought: no   *)
(* kernel weighs the fee of a sale.  Partial fills, authoritative fills    *)
(* and rollbacks all go through here.                                      *)
(***************************************************************************)
BooksBalance ==
    \A b \in Brokers : At(b, "idle") =>
        LET s == State(b)
            Sum(Of(_), Test(_)) == Total(s.fills, Of, Test)
            Cost(f) == Money(f) * Scale + f.fee
            Proceeds(f) == Money(f) * Scale - f.fee
            Buys(f) == f.side = "buy"
            Sells(f) == f.side = "sell"
            Worthwhile(f) == Sells(f) => f.fee <= Money(f) * Scale
        IN /\ (\A n \in DOMAIN s.fills : Worthwhile(s.fills[n])) => s.ledger.cash >= 0
           /\ s.ledger.cash + Sum(Cost, Buys) = StartingCash * Scale + Sum(Proceeds, Sells)
           /\ \A i \in Instruments :
                 s.ledger.held[i] + Sum(Quantity, LAMBDA f : Sells(f) /\ f.instrument = i)
                    = Sum(Quantity, LAMBDA f : Buys(f) /\ f.instrument = i)
           /\ s.ledger.fills = {s.fills[n].id : n \in DOMAIN s.fills}
           /\ Cardinality(s.ledger.fills) = Len(s.fills)
           /\ \A o \in DOMAIN s.orders :
                 /\ s.orders[o].filled = Sum(Quantity, LAMBDA f : f.order = o)
                 /\ s.orders[o].spent = Sum(Money, LAMBDA f : f.order = o)
           /\ Restorable(s.ledger)

(***************************************************************************)
(* The orders of an instrument share the liquidity of one bar: together    *)
(* they take no more than the permitted part of its volume                 *)
(* (test_event_liquidity_budget_is_shared_across_all_sorted_orders).       *)
(***************************************************************************)
LiquidityShared ==
    \A g \in DOMAIN log :
        LET rows == log[g].rows
            Filled(i) == Total(rows, LAMBDA x : x.fill.quantity,
                               LAMBDA x : x.kind = "fill" /\ x.fill.instrument = i)
        IN \A n \in DOMAIN rows : rows[n].kind = "observed" =>
              Filled(rows[n].instrument) * Scale <= rows[n].bar.volume * Participation

(***************************************************************************)
(* No fill steps outside its order, whatever came between the submission   *)
(* and the fill: its price keeps the limit and the bracket, it is not      *)
(* early, late or before the stop triggered, the order was not closed, and *)
(* the fills together stay within the size of the order.                   *)
(***************************************************************************)
FillsWithinOrders ==
    \A p \in Places : Row(p).kind = "fill" =>
        LET row == Row(p)
            f == row.fill
        IN \E q \in Places :
              /\ Before(q, p) /\ Row(q).kind = "submitted" /\ Row(q).order = f.order
              /\ row.from \notin Logged!Closed
              /\ LET in == Row(q).intent
                     submitted == Row(q).at
                 IN /\ in.side = "buy" =>
                          in.stop < f.price /\ f.price < in.take
                             /\ (in.limit > 0 => f.price <= in.limit)
                    /\ in.side = "sell" =>
                          in.take < f.price /\ f.price < in.stop
                             /\ (in.limit > 0 => f.price >= in.limit)
                    /\ in.quantity > 0 => row.filled <= in.quantity
                    /\ in.notional > 0 => row.spent <= in.notional
                    /\ ~ row.external =>
                          /\ f.at > submitted /\ f.at >= submitted + Latency
                          /\ f.at < in.expires
                          /\ in.trigger > 0 => \E k \in Places :
                                /\ Before(q, k) /\ Before(k, p)
                                /\ Row(k).kind = "stop_triggered"
                                /\ Row(k).order = f.order
                                /\ in.type = "stop_limit" => Row(k).at < f.at

(***************************************************************************)
(* The rows of the worst next market event fit into one group              *)
(* (test_submission_admission_keeps_worst_case_market_grammar_consumable): *)
(* orders that become unknown and come back, positions that outlive their  *)
(* orders and new instruments are counted when an order is admitted.       *)
(***************************************************************************)
CohortFits ==
    \A b \in Brokers : At(b, "idle") =>
        WorstRows(ReservedInstruments(State(b)), Cardinality(Reserved(State(b)))) <= MaxGroup

(***************************************************************************)
(* Every order in the log lives the life of OrderLifecycle.tla, whatever   *)
(* the brokers, rollbacks and recoveries in between.                       *)
(***************************************************************************)
ImplementsLifecycle == Logged!Spec

(***************************************************************************)
(* tests/execution/test_paper.py: a status-only resolution "cannot invent  *)
(* a fill".  A filled order has fills for all of its size.                 *)
(***************************************************************************)
NoInventedFill ==
    \A b \in Brokers : At(b, "idle") =>
        \A o \in DOMAIN State(b).orders :
            LET r == State(b).orders[o]
            IN r.status = "filled" =>
                  IF r.intent.notional = 0 THEN r.filled = r.intent.quantity
                                           ELSE r.remaining = 0
=============================================================================
