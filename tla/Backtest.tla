------------------------------ MODULE Backtest ------------------------------
(***************************************************************************)
(* BacktestEngine.run (backtest/engine.py): one step is one turn of its    *)
(* loop over the bars.  A turn works down a fixed order: give up a half    *)
(* filled entry whose stop is hit, fill the pending order, mark, submit a  *)
(* protective exit, close out before the session ends, and let the         *)
(* strategy ask for a new entry, which is sized and assessed.              *)
(*                                                                         *)
(* Bars and signals are chosen freely from small sets.  Bars are one       *)
(* instant apart, so an index is also a time.  0 stands for None.          *)
(***************************************************************************)
EXTENDS RiskEngine, PortfolioLedger, FillModel

CONSTANTS Asset,      \* the instrument
          Bars,       \* bars that may come: [open, high, low, close, volume]
          Signals,    \* signals a strategy may give: [direction, entry, stop, target]
          MaxHolding, \* metadata.max_holding_bars, 0 for None
          Closeout,   \* metadata.mandatory_preclose_closeout
          MaxBars     \* bound: bars of a run

\* _validate_bars; and no bar so low that the price of a sale rounds to 0.
WellFormedBar(b) == /\ 0 < b.low /\ b.low <= Smaller(b.open, b.close)
                    /\ Larger(b.open, b.close) <= b.high
                    /\ FillPrice("sell", b.open) > 0
ASSUME BarsAssumption ==
    \A b \in Bars : /\ b \in [open : Nat, high : Nat, low : Nat, close : Nat, volume : Nat]
                    /\ WellFormedBar(b)
ASSUME SignalsAssumption ==
    Signals \subseteq [direction : STRING, entry : Int, stop : Int, target : Int]
ASSUME AssetAssumption == Instruments = {Asset} /\ StartingCash > 0

NoOrder == [side |-> "none", quantity |-> 0, index |-> 0, limit |-> 0, stop |-> 0,
            target |-> 0, approvedNotional |-> 0, approvedRisk |-> 0,
            filledNotional |-> 0, filledRisk |-> 0]
NoTrade == [quantity |-> 0, stop |-> 0, target |-> 0, opened |-> 0,
            entryQuantity |-> 0, entryNotional |-> 0, entryFees |-> 0,
            exitQuantity |-> 0, exitNotional |-> 0, exitFees |-> 0]

VARIABLES index,    \* bars processed; the current bar has this index, from 1
          bar,      \* the bar just processed
          coming,   \* the bar after it: of the "same" day, the "next" day, or "none"
          engine,   \* [pending, trade, ledger, booked]: the state of the run, with
                    \* the P&L of all completed trades
          approval, \* history: what the risk engine last approved, and on what
          dayOpen   \* history: equity when the day began

vars == <<index, bar, coming, engine, approval, dayOpen>>

-----------------------------------------------------------------------------
(* Orders and trades *)

ExitReasons(t, b, n) ==
         {r \in {"STOP_LOSS"} : b.low <= t.stop}
    \cup {r \in {"TAKE_PROFIT"} : b.high >= t.target}
    \cup {r \in {"MAX_HOLDING_BARS"} : MaxHolding > 0 /\ n - t.opened >= MaxHolding}
\* _protective_exit_reason is not None, from the bar after the opening one.
MustExit(t, b, n) == t.quantity > 0 /\ n > t.opened /\ ExitReasons(t, b, n) # {}

ExitOrder(t, n) == [NoOrder EXCEPT !.side = "sell", !.quantity = t.quantity, !.index = n]

\* _apply_entry_fill.  Mutant: each fill begins a trade of its own.
BoughtAnew(t, p, q, price, n) ==
    [NoTrade EXCEPT !.quantity = q, !.stop = p.stop, !.target = p.target, !.opened = n,
                    !.entryQuantity = q, !.entryNotional = q * price * Scale,
                    !.entryFees = Fee(q, price)]
Bought(t, p, q, price, n) ==
    LET start == IF t = NoTrade
                 THEN [NoTrade EXCEPT !.stop = p.stop, !.target = p.target, !.opened = n]
                 ELSE t
    IN [start EXCEPT !.quantity = @ + q, !.entryQuantity = @ + q,
                     !.entryNotional = @ + q * price * Scale, !.entryFees = @ + Fee(q, price)]

\* _apply_exit_fill, before it asks whether anything remains.
Sold(t, q, price) ==
    [t EXCEPT !.quantity = @ - q, !.exitQuantity = @ + q,
              !.exitNotional = @ + q * price * Scale, !.exitFees = @ + Fee(q, price)]
NetPnl(t) == t.exitNotional - t.entryNotional - t.entryFees - t.exitFees

-----------------------------------------------------------------------------
(* The parts of a turn, on the state of the engine *)

\* The entry is given up while it is half filled: its remainder becomes an exit.
\* Mutant of GiveUpEntry: a half filled entry goes on.
NeverGiveUp(e, b, n) == e
GiveUpEntry(e, b, n) ==
    IF e.pending.side = "buy" /\ MustExit(e.trade, b, n)
    THEN [e EXCEPT !.pending = ExitOrder(e.trade, n)]
    ELSE e

Reference(p, b) == IF p.side = "buy" THEN Smaller(b.open, p.limit) ELSE b.open

\* _create_pending_fill returns a fill: always for a sale.
\* Mutant of Executable: a buy is taken at whatever price it meets.
ExecutableAtAnyPrice(p, q, b, cash) == TRUE
Executable(p, q, b, cash) ==
    LET price == FillPrice("buy", Reference(p, b))
        notional == q * price * Scale
    IN p.side = "buy" =>
          /\ b.low <= p.limit
          /\ price <= p.limit
          /\ p.filledNotional + notional <= p.approvedNotional
          /\ p.approvedNotional >= MinNotional * Scale
          /\ notional + Fee(q, price) <= cash
          /\ p.stop < price /\ price < p.target
          /\ p.filledRisk + q * (price - p.stop) * Scale <= p.approvedRisk

\* The order after a fill.
Remainder(p, q, price) ==
    IF q = p.quantity THEN NoOrder
    ELSE IF p.side = "sell" THEN [p EXCEPT !.quantity = @ - q]
    ELSE [p EXCEPT !.quantity = @ - q, !.filledNotional = @ + q * price * Scale,
                   !.filledRisk = @ + q * (price - p.stop) * Scale]

\* Mutant of MayFill: the bar on which an order was submitted may fill it.
MayFillAtOnce(p, n) == p.side # "none" /\ LatencyOver(p.index, n)
MayFill(p, n) == p.side # "none" /\ n > p.index /\ LatencyOver(p.index, n)

Fill(e, b, n) ==
    LET p == e.pending
        q == Allocate(p.quantity, LiquidityBudget(b.volume))
        price == FillPrice(p.side, Reference(p, b))
        f == [id |-> Cardinality(e.ledger.fills) + 1, instrument |-> Asset, side |-> p.side,
              quantity |-> q, price |-> price, fee |-> Fee(q, price)]
        sold == Sold(e.trade, q, price)
    IN IF ~ MayFill(p, n) \/ q = 0 \/ ~ Executable(p, q, b, e.ledger.cash) THEN e
       ELSE IF p.side = "buy"
       THEN [e EXCEPT !.pending = Remainder(p, q, price), !.ledger = ApplyFill(@, f),
                      !.trade = Bought(@, p, q, price, n)]
       ELSE [e EXCEPT !.pending = Remainder(p, q, price), !.ledger = ApplyFill(@, f),
                      !.trade = IF sold.quantity = 0 THEN NoTrade ELSE sold,
                      !.booked = IF sold.quantity = 0 THEN @ + NetPnl(sold) ELSE @]

MarkAtClose(e, b) == [e EXCEPT !.ledger = Mark(@, [i \in Instruments |-> b.close])]

SubmitExit(e, b, n) ==
    IF e.pending = NoOrder /\ MustExit(e.trade, b, n)
    THEN [e EXCEPT !.pending = ExitOrder(e.trade, n)]
    ELSE e

\* The next bar is of another day.
CloseOut(e, n, next) ==
    IF Closeout /\ next = "next" /\ e.trade # NoTrade /\ e.pending.side # "sell"
    THEN [e EXCEPT !.pending = ExitOrder(e.trade, n)]
    ELSE e

\* ledger.mark's PortfolioSnapshot.  daily_pnl is measured from the starting cash.
Snapshot(l) ==
    LET exposure == l.held[Asset] * l.prices[Asset] * Scale
    IN [cash |-> l.cash, equity |-> l.equity, peak |-> l.peak, gross |-> exposure,
        held |-> exposure, daily |-> l.equity - StartingCash * Scale]

MayEnter(e) == Positions(e.ledger) = {} /\ e.pending = NoOrder

Accepted(s, p) == SizingReason(s, p) = "none" /\ Approved(Intent(s, p), p)

EntryOrder(s, p, n) ==
    LET i == Intent(s, p)
    IN [NoOrder EXCEPT !.side = "buy", !.quantity = i.quantity, !.index = n, !.limit = i.limit,
                       !.stop = i.stop, !.target = i.target,
                       !.approvedNotional = i.quantity * i.limit * Scale,
                       !.approvedRisk = i.quantity * (i.limit - i.stop) * Scale]

\* A turn up to the call of the strategy.
Managed(e, b, n, next) ==
    CloseOut(SubmitExit(MarkAtClose(Fill(GiveUpEntry(e, b, n), b, n), b), b, n), n, next)

-----------------------------------------------------------------------------
NoApproval == [quantity |-> 0, notional |-> 0, equity |-> 0, dayOpen |-> 0]

Init == /\ index = 0
        /\ bar = [open |-> 0, high |-> 0, low |-> 0, close |-> 0, volume |-> 0]
        /\ coming = "same"
        /\ engine = [pending |-> NoOrder, trade |-> NoTrade, ledger |-> EmptyLedger, booked |-> 0]
        /\ approval = NoApproval
        /\ dayOpen = StartingCash * Scale

\* What every turn does; the day begins anew with the equity at the last close.
Turn(b, next) ==
    /\ coming # "none"
    /\ index' = index + 1
    /\ bar' = b
    /\ coming' = next
    /\ next # "none" => index' < MaxBars
    /\ dayOpen' = IF coming = "next" THEN engine.ledger.equity ELSE dayOpen

\* No signal, a position or a pending order, or an entry the risk engine refuses.
Hold == \E b \in Bars, next \in {"same", "next", "none"} :
          /\ Turn(b, next)
          /\ engine' = Managed(engine, b, index', next)
          /\ UNCHANGED approval

Enter == \E b \in Bars, next \in {"same", "next", "none"}, s \in Signals :
          LET e == Managed(engine, b, index', next)
              p == Snapshot(e.ledger)
          IN /\ Turn(b, next)
             /\ MayEnter(e)
             /\ Accepted(s, p)
             /\ engine' = [e EXCEPT !.pending = EntryOrder(s, p, index')]
             /\ approval' = [quantity |-> SizedQuantity(s, p),
                             notional |-> SizedQuantity(s, p) * s.entry * Scale,
                             equity |-> p.equity, dayOpen |-> dayOpen']

Next == Hold \/ Enter

Spec == Init /\ [][Next]_vars

-----------------------------------------------------------------------------
(* Properties *)

trade == engine.trade
pending == engine.pending

(***************************************************************************)
(* The engine keeps its own account of the open trade beside the ledger,   *)
(* through partial entries, partial exits and entries given up half way:   *)
(* quantities agree, and the cash is the starting cash, the P&L of the     *)
(* completed trades and what the open trade has paid and received.         *)
(***************************************************************************)
BooksReconcile ==
    /\ trade.quantity = engine.ledger.held[Asset]
    /\ trade.quantity = trade.entryQuantity - trade.exitQuantity
    /\ trade # NoTrade => trade.quantity > 0
    /\ engine.ledger.cash = StartingCash * Scale + engine.booked + NetPnl(trade)
    /\ engine.ledger.cash >= 0

(***************************************************************************)
(* What an entry buys over all its fills stays within what was approved    *)
(* for it, and its loss at the stop within the share of the equity that it *)
(* was approved against; its remainder asks for the rest and no more.      *)
(***************************************************************************)
WithinApproval ==
    /\ trade.entryQuantity <= approval.quantity
    /\ trade.entryNotional <= approval.notional
    /\ trade.entryNotional * Scale <= approval.equity * PositionShare
    /\ (trade.entryNotional - trade.entryQuantity * trade.stop * Scale) * Scale
          <= approval.equity * TradeRisk
    /\ pending.side = "buy" => pending.quantity + trade.entryQuantity = approval.quantity

(***************************************************************************)
(* From the bar after the one that opened it, a trade whose bar reaches a  *)
(* protective level, or ends the session under a mandatory closeout, has   *)
(* an exit order, whatever was pending, and an exit order is for the whole *)
(* of what is still held.                                                  *)
(***************************************************************************)
ExitsCover ==
    /\ pending.side = "sell" => trade # NoTrade /\ pending.quantity = trade.quantity
    /\ MustExit(trade, bar, index) => pending.side = "sell"
    /\ Closeout /\ coming = "next" /\ trade # NoTrade => pending.side = "sell"

(***************************************************************************)
(* No fill uses a bar that the decision behind it could have seen: the     *)
(* order filled was pending before the bar, since the latency at least; it *)
(* moves the position to that order's side; and a buy takes only a bar     *)
(* that traded at its limit.                                               *)
(***************************************************************************)
NoLookAhead ==
    [][engine'.ledger.fills # engine.ledger.fills =>
          /\ pending.side # "none"
          /\ index' >= pending.index + Larger(1, Latency)
          /\ IF pending.side = "buy"
             THEN engine'.ledger.held[Asset] > engine.ledger.held[Asset] /\ bar'.low <= pending.limit
             ELSE engine'.ledger.held[Asset] < engine.ledger.held[Asset]]_vars

(***************************************************************************)
(* The two halves of the risk engine agree: an order the sizer makes is    *)
(* refused by the assessment only for the account's drawdown or loss, even *)
(* where a limit is met exactly.                                           *)
(***************************************************************************)
SizedIsAdmissible ==
    \A s \in Signals :
        LET p == Snapshot(engine.ledger)
        IN SizingReason(s, p) = "none" => OrderReasons(Intent(s, p), p) = {}

(***************************************************************************)
(* "maximum 2% daily loss" (the design document, section 10): no entry is  *)
(* approved on a day that has already lost that share of the equity.       *)
(***************************************************************************)
DailyLossRespected ==
    approval # NoApproval =>
        (approval.dayOpen - approval.equity) * Scale < approval.equity * DailyLoss
=============================================================================
