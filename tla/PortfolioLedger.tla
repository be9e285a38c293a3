--------------------------- MODULE PortfolioLedger ---------------------------
(***************************************************************************)
(* PortfolioLedger (portfolio/ledger.py) as operators on a ledger record:  *)
(* cash, quantities held, last prices, applied fill ids, equity and its    *)
(* peak.  The average price of a position and the realised P&L, which no   *)
(* control reads, are left out.                                            *)
(***************************************************************************)
EXTENDS Units, FiniteSets, FiniteSetsExt

CONSTANTS Instruments,  \* instrument ids
          StartingCash  \* in price units

ASSUME LedgerAssumption ==
    IsFiniteSet(Instruments) /\ StartingCash \in Nat

\* A price of 0 stands for no price.
EmptyLedger == [cash |-> StartingCash * Scale, held |-> [i \in Instruments |-> 0],
                prices |-> [i \in Instruments |-> 0], fills |-> {},
                equity |-> StartingCash * Scale, peak |-> StartingCash * Scale]

Positions(l) == {i \in Instruments : l.held[i] > 0}

Valuation(cash, held, prices) ==
    cash + Scale * MapThenSumSet(LAMBDA i : held[i] * prices[i], Instruments)

\* _revalue and the tail of mark.
Revalued(l) ==
    LET equity == Valuation(l.cash, l.held, l.prices)
    IN [l EXCEPT !.equity = equity, !.peak = Larger(@, equity)]

\* The errors of apply_fill: DuplicateFillError and InsufficientPositionError.
FillRefused(l, f) ==
    \/ f.id \in l.fills
    \/ f.side = "sell" /\ f.quantity > l.held[f.instrument]

Booked(l, f) ==
    LET notional == f.quantity * f.price * Scale
    IN IF f.side = "buy"
       THEN [l EXCEPT !.cash = @ - (notional + f.fee),
                      !.held[f.instrument] = @ + f.quantity]
       ELSE [l EXCEPT !.cash = @ + notional - f.fee,
                      !.held[f.instrument] = @ - f.quantity]

ApplyFill(l, f) ==
    Revalued([Booked(l, f) EXCEPT !.fills = @ \cup {f.id},
                                  !.prices[f.instrument] = f.price])

\* mark refuses when a position has no price among those supplied.
MarkRefused(l, prices) == \E i \in Positions(l) : prices[i] = 0
Mark(l, prices) ==
    Revalued([l EXCEPT !.prices = [i \in Instruments |->
                           IF prices[i] = 0 THEN @[i] ELSE prices[i]]])

\* compact_state keeps a count of the fill ids, not the ids;
\* restore_compact_state takes back the ids added since.
Compact(l) == [cash |-> l.cash, held |-> l.held, prices |-> l.prices,
               count |-> Cardinality(l.fills), equity |-> l.equity, peak |-> l.peak]
RestoreRefused(l, c, added) == ~ added \subseteq l.fills
                               \/ Cardinality(l.fills \ added) # c.count
Restore(l, c, added) ==
    [cash |-> c.cash, held |-> c.held, prices |-> c.prices, fills |-> l.fills \ added,
     equity |-> c.equity, peak |-> c.peak]

\* What from_state demands of a ledger it is to restore.
Restorable(l) ==
    /\ \A i \in Positions(l) : l.prices[i] > 0
    /\ l.equity = Valuation(l.cash, l.held, l.prices)
    /\ l.peak >= Larger(StartingCash * Scale, l.equity)
=============================================================================
