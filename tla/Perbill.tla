------------------------------- MODULE Perbill --------------------------------
(***************************************************************************)
(* sp_arithmetic's Perbill, as dapi-staking uses it: a fraction is a whole *)
(* number of parts of Accuracy (10^9 in the code; small in the runs, as    *)
(* TLC's numbers are 32 bits wide).                                        *)
(***************************************************************************)
EXTENDS Naturals

CONSTANT Accuracy

ASSUME AccuracyAssumption == Accuracy \in Nat \ {0}

(* What from_rational divides both numbers by to bring q within Accuracy:  *)
(* q / Accuracy, rounded up.                                               *)
Factor(q) == (q + Accuracy - 1) \div Accuracy

(* Perbill::from_rational(p, q): p is capped at q, q is at least 1, both   *)
(* are cut to whole factors, and the parts are rounded down.               *)
FromRational(p, q) ==
    LET denominator == IF q = 0 THEN 1 ELSE q
        numerator == IF p > denominator THEN denominator ELSE p
        factor == Factor(denominator)
    IN  ((numerator \div factor) * Accuracy) \div (denominator \div factor)

(* Perbill * x: to the nearest whole number, an exact half down.           *)
PartOf(parts, x) ==
    LET product == parts * x
        up == (product % Accuracy) > Accuracy \div 2
    IN  (product \div Accuracy) + (IF up THEN 1 ELSE 0)
===============================================================================
