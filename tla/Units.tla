-------------------------------- MODULE Units --------------------------------
(***************************************************************************)
(* What the Decimals of the code become: prices are integers in ticks,     *)
(* quantities integers, rates and cash integers in Scale-ths of these, so  *)
(* that a fee in basis points is exact here as it is there.                *)
(***************************************************************************)
EXTENDS Naturals

CONSTANTS Scale, \* _BPS
          Step   \* Instrument.quantity_step

ASSUME ScaleAssumption == Scale \in Nat \ {0}
ASSUME StepAssumption == Step \in Nat \ {0}

Larger(a, b) == IF a >= b THEN a ELSE b
Smaller(a, b) == IF a <= b THEN a ELSE b

\* _floor_quantity; _round_down is the same where the result is positive.
FloorQuantity(q) == (q \div Step) * Step
=============================================================================
