----------------------------- MODULE RiskEngine -----------------------------
(***************************************************************************)
(* risk/engine.py as operators: PositionSizer.create_intent, which sizes a *)
(* long signal within the limits of the policy, and RiskEngine.assess,     *)
(* which collects every reason against an order of that size.  Both are    *)
(* pure and judge one portfolio snapshot.  The gates on time, on the hash  *)
(* of the snapshot and on well-formed records, which a backtest passes     *)
(* because it builds all of them from one bar, are left out.               *)
(***************************************************************************)
EXTENDS Integers, Units

CONSTANTS TradeRisk,     \* max_trade_risk_fraction, in Scale-ths as all shares
          PositionShare, \* max_position_fraction
          GrossShare,    \* max_gross_exposure_fraction
          DailyLoss,     \* max_daily_loss_fraction
          Drawdown,      \* max_drawdown_fraction
          MinNotional    \* Instrument.minimum_notional, in price units

\* RiskPolicy.__post_init__, without the ceilings of the safe defaults.
ASSUME PolicyAssumption ==
    /\ {TradeRisk, PositionShare, GrossShare, DailyLoss, Drawdown} \subseteq 1..Scale
    /\ MinNotional \in Nat \ {0}

\* PortfolioSnapshot: money in Scale-ths; held is the notional of the instrument.
Portfolio == [cash : Int, equity : Int, peak : Int, gross : Int, held : Int, daily : Int]

-----------------------------------------------------------------------------
(* PositionSizer.create_intent *)

\* _valid_signal_prices for a buy.
ConsistentExits(s) == 0 < s.stop /\ s.stop < s.entry /\ s.entry < s.target

\* What a limit on a share of equity leaves, in Scale * Scale-ths.
Headroom(p, share, used) == p.equity * share - used * Scale
PositionRoom(p) == Headroom(p, PositionShare, p.held)
GrossRoom(p) == Headroom(p, GrossShare, p.gross)

AtMost(room, unit) == room \div (Scale * Scale * unit)

\* Mutant of SizedQuantity: the stop distance does not bound the order.
SizedByExposure(s, p) == FloorQuantity(Smaller(AtMost(PositionRoom(p), s.entry),
                                               AtMost(GrossRoom(p), s.entry)))
SizedQuantity(s, p) ==
    FloorQuantity(Smaller(AtMost(p.equity * TradeRisk, s.entry - s.stop),
                          Smaller(AtMost(PositionRoom(p), s.entry),
                                  AtMost(GrossRoom(p), s.entry))))

\* The reason of the first check that fails, or "none".
SizingReason(s, p) ==
    LET q == SizedQuantity(s, p)
        notional == q * s.entry
    IN CASE s.direction = "short"         -> "SHORT_FORBIDDEN"
         [] s.direction # "long"          -> "INVALID_PRECISION"
         [] ~ ConsistentExits(s) /\ 0 < s.stop /\ 0 < s.target -> "MISSING_PROTECTIVE_EXIT"
         [] ~ ConsistentExits(s)          -> "INVALID_PRECISION"
         [] q <= 0 /\ PositionRoom(p) <= 0 -> "POSITION_LIMIT"
         [] q <= 0                        -> "GROSS_EXPOSURE_LIMIT"
         [] notional < MinNotional        -> "BELOW_MINIMUM_NOTIONAL"
         [] p.cash < notional * Scale     -> "LEVERAGE_FORBIDDEN"
         [] OTHER                         -> "none"

\* The OrderIntent: a buy limited at the entry of the signal.
Intent(s, p) == [quantity |-> SizedQuantity(s, p), limit |-> s.entry,
                 stop |-> s.stop, target |-> s.target]

-----------------------------------------------------------------------------
(* RiskEngine.assess *)

Over(p, share, amount) == amount * Scale > p.equity * share

OrderReasons(i, p) ==
    LET notional == i.quantity * i.limit * Scale
        risk == i.quantity * (i.limit - i.stop) * Scale
    IN    {r \in {"POSITION_LIMIT"} : \/ Over(p, PositionShare, p.held + notional)
                                      \/ Over(p, TradeRisk, risk)}
     \cup {r \in {"GROSS_EXPOSURE_LIMIT"} : Over(p, GrossShare, p.gross + notional)}
     \cup {r \in {"LEVERAGE_FORBIDDEN"} : p.cash < notional}
     \cup {r \in {"BELOW_MINIMUM_NOTIONAL"} : i.quantity * i.limit < MinNotional}
     \cup {r \in {"INVALID_PRECISION"} : i.quantity <= 0 \/ i.quantity % Step # 0}
     \cup {r \in {"MISSING_PROTECTIVE_EXIT"} :
              ~ (0 < i.stop /\ i.stop < i.limit /\ i.limit < i.target)}

AccountReasons(p) ==
          {r \in {"DRAWDOWN_LIMIT"} : (p.peak - p.equity) * Scale >= Drawdown * p.peak}
     \cup {r \in {"DAILY_LOSS_LIMIT"} : p.daily * Scale <= -(p.equity * DailyLoss)}

Reasons(i, p) == AccountReasons(p) \cup OrderReasons(i, p)

Approved(i, p) == Reasons(i, p) = {}
=============================================================================
