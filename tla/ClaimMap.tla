------------------------------ MODULE ClaimMap ------------------------------
(* The map from the paper's claims to recomputed values                    *)
(* (paper_iot/V10/analysis/scripts/10_build_claim_map.py).  A value is Nil *)
(* (missing, or its getter raised), a number in thousandths, a Boolean or  *)
(* a text that is no number.                                               *)
EXTENDS Integers

CONSTANTS Nil

IsNumber(v) == v # Nil /\ v.type = "number"
IsBool(v) == v # Nil /\ v.type = "bool"

Abs(n) == IF n < 0 THEN -n ELSE n

(* pct_diff as a quotient of its value in percent, or Nil; a Boolean is     *)
(* never compared and a zero of the paper cannot be.                        *)
pct_diff(v10, v92) ==
  IF IsNumber(v10) /\ IsNumber(v92) /\ v92.value # 0
  THEN <<100 * (v10.value - v92.value), Abs(v92.value)>>
  ELSE Nil

(* |pct| < tenths / 10.                                                     *)
Below(pct, tenths) == 10 * Abs(pct[1]) < tenths * pct[2]

(* Slip: a Boolean is looked at before the paper's value.                   *)
classify_bool_first(v10, v92, pct) ==
  IF v10 = Nil THEN "missing_in_v10"
  ELSE IF IsBool(v10)
       THEN IF v10.holds THEN "confirmed_by_manifest" ELSE "not_confirmed_by_manifest"
  ELSE IF v92 = Nil THEN "no_v92_comparator"
  ELSE IF pct = Nil THEN "not_comparable"
  ELSE IF Below(pct, 5) THEN "reproduced_exact"
  ELSE IF Below(pct, 50) THEN "reproduced_within_rounding"
  ELSE "differs_materially"

classify(v10, v92, pct) ==
  IF v10 = Nil THEN "missing_in_v10"
  ELSE IF v92 = Nil THEN "no_v92_comparator"
  ELSE IF IsBool(v10)
       THEN IF v10.holds THEN "confirmed_by_manifest" ELSE "not_confirmed_by_manifest"
  ELSE IF pct = Nil THEN "not_comparable"
  ELSE IF Below(pct, 5) THEN "reproduced_exact"
  ELSE IF Below(pct, 50) THEN "reproduced_within_rounding"
  ELSE "differs_materially"

(* The statuses main has an action for; another is a KeyError.              *)
Actions ==
  {"reproduced_exact", "reproduced_within_rounding", "differs_materially",
   "confirmed_by_manifest", "not_comparable", "no_v92_comparator", "missing_in_v10"}

(* The claims: whether the paper's values have a key for one, and what its  *)
(* getter yields when it yields anything.                                   *)
ROWS ==
  [claim \in 1..50 |-> [v92_key |-> claim \notin {17, 27, 32},
                        yields |-> IF claim = 17 THEN "bool" ELSE "number"]]

(* One turn of main's loop: the row it writes, or a status that is no key.  *)
Row(claim, v10, v92) ==
  LET v92_val == IF ROWS[claim].v92_key THEN v92 ELSE Nil
      pct == pct_diff(v10, v92_val)
      status == classify(v10, v92_val, pct)
  IN  [status |-> status, raises |-> status \notin Actions]

(* The validation of a count main expects, a constant of its own beside the *)
(* paper's value for the claim, against the same output.                    *)
Validation(expected, real) ==
  [match |-> real = expected, manuscript_correction_required |-> real # expected]
=============================================================================
