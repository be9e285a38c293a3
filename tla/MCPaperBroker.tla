---------------------------- MODULE MCPaperBroker ----------------------------
(* Intents, bars and evidence for the runs of PaperBroker.  Prices are around *)
(* 10, a rate of one Scale-th is a tenth.                                     *)
EXTENDS PaperBroker, TLC

Symmetry == Permutations(Brokers)

Intent(i, side, type, quantity, notional, limit, trigger, stop, take, expires) ==
    [instrument |-> i, side |-> side, type |-> type, quantity |-> quantity,
     notional |-> notional, limit |-> limit, trigger |-> trigger,
     stop |-> stop, take |-> take, expires |-> expires]
Offer1(o, intent) == [order |-> o, intent |-> intent]
Bar(open, high, low, close, volume) ==
    [open |-> open, high |-> high, low |-> low, close |-> close, volume |-> volume]

Buy(i, quantity) == Intent(i, "buy", "market", quantity, 0, 0, 0, 5, 20, 9)
Sell(i, quantity) == Intent(i, "sell", "market", quantity, 0, 0, 0, 20, 5, 9)

\* Kinds of orders on one instrument.  48 of cash pay for 4 at 11, but not for
\* the fee.
OrderOffers ==
    {Offer1(1, Buy(1, 4)),
     Offer1(1, Intent(1, "buy", "market", 0, 42, 0, 0, 5, 20, 9)),
     Offer1(1, Intent(1, "buy", "stop_limit", 4, 0, 12, 11, 5, 20, 5)),
     Offer1(2, Intent(1, "buy", "limit", 4, 0, 10, 0, 5, 20, 9)),
     Offer1(2, Intent(1, "sell", "stop", 2, 0, 0, 10, 20, 5, 9)),
     Offer1(2, Buy(1, 3))}
OrderBars == {Bar(10, 12, 9, 10, 4), Bar(9, 11, 8, 10, 20)}

\* One instrument, an order id used for two intents, and a misaligned quantity.
RecoveryOffers == {Offer1(1, Buy(1, 2)), Offer1(1, Buy(1, 4)), Offer1(2, Buy(1, 3))}
RecoveryBars == {Bar(10, 12, 9, 10, 8)}

\* Answers about orders of unknown status: in part, for all of it, for more than
\* the cash, outside the limit, and under an id that was used.
UnknownOffers ==
    {Offer1(1, Intent(1, "buy", "limit", 4, 0, 12, 0, 5, 20, 9)), Offer1(2, Sell(1, 2)),
     Offer1(3, Buy(2, 2))}
UnknownBars == {Bar(10, 12, 9, 10, 4)}
Fill(id, quantity, price, fee) ==
    [id |-> id, quantity |-> quantity, price |-> price, fee |-> fee, at |-> 0]
UnknownEvidence ==
    {[order |-> 1, status |-> "partially_filled", fill |-> Fill(91, 2, 10, 0)],
     [order |-> 1, status |-> "filled", fill |-> Fill(91, 2, 10, 0)],
     [order |-> 1, status |-> "filled", fill |-> Fill(92, 4, 11, 44)],
     [order |-> 1, status |-> "partially_filled", fill |-> Fill(93, 2, 13, 0)],
     [order |-> 2, status |-> "filled", fill |-> Fill(94, 2, 9, 1)]}
NoEvidence == {}
=============================================================================
