----------------------------- MODULE MCBacktest -----------------------------
(***************************************************************************)
(* Backtest over bars that fill an entry or not, in whole or in part, and  *)
(* reach its stop, its target, or neither.                                 *)
(***************************************************************************)
EXTENDS Backtest

Bar(open, high, low, close, volume) ==
    [open |-> open, high |-> high, low |-> low, close |-> close, volume |-> volume]
Signal(direction, entry, stop, target) ==
    [direction |-> direction, entry |-> entry, stop |-> stop, target |-> target]

MCBars == {Bar(9, 10, 9, 10, 4),  \* fills an entry, often in parts
           Bar(9, 9, 7, 8, 2),    \* as well, and reaches every stop
           Bar(11, 13, 10, 12, 6), \* too dear for an entry, and reaches the targets
           Bar(10, 11, 10, 10, 1)} \* too thin for any fill
MCSignals == {Signal("long", 10, 8, 13), Signal("long", 10, 9, 12),
              Signal("long", 9, 9, 12), Signal("short", 9, 12, 7)}

DailyBars == {Bar(9, 10, 9, 10, 6), Bar(20, 20, 20, 20, 6), Bar(5, 5, 5, 5, 6)}
DailySignals == {Signal("long", 10, 9, 12)}
=============================================================================
