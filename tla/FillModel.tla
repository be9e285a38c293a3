------------------------------ MODULE FillModel ------------------------------
(***************************************************************************)
(* FillModel (backtest/engine.py), the stateless fill rules the backtest   *)
(* and the paper broker share.                                             *)
(***************************************************************************)
EXTENDS Units

CONSTANTS ImpactRate,    \* half the spread plus slippage
          FeeRate,       \* fee_bps
          Participation, \* max_volume_participation
          Latency        \* CostModel.latency

ASSUME FillModelAssumption ==
    /\ ImpactRate \in Nat /\ ImpactRate < Scale /\ FeeRate \in Nat
    /\ Participation \in 1..Scale /\ Latency \in Nat

\* can_fill
LatencyOver(submitted, at) == at >= submitted + Latency

LiquidityBudget(volume) == FloorQuantity((volume * Participation) \div Scale)

\* Mutant of Allocate: the liquidity of the bar is not consulted.
AllocateAll(remaining, liquidity) == FloorQuantity(remaining)
Allocate(remaining, liquidity) == FloorQuantity(Smaller(remaining, liquidity))

\* fill: adverse impact, rounded up for a buy and down for a sell.  A sell price
\* rounded to 0 is an error of the call.
FillPrice(side, reference) ==
    IF side = "buy" THEN (reference * (Scale + ImpactRate) + Scale - 1) \div Scale
                    ELSE (reference * (Scale - ImpactRate)) \div Scale

Fee(quantity, price) == quantity * price * FeeRate
=============================================================================
