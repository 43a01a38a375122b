------------------------------- MODULE Rounding -------------------------------
(***************************************************************************)
(* Decimal.quantize with ROUND_HALF_UP (domain/pricing.py): a half goes    *)
(* away from zero.                                                         *)
(***************************************************************************)
EXTENDS Integers

\* The fraction n/d, d > 0, as a whole number of the unit.
RoundHalfUp(n, d) == IF n >= 0 THEN (2 * n + d) \div (2 * d)
                               ELSE -((d - 2 * n) \div (2 * d))
===============================================================================
