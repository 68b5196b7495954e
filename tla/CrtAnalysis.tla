---------------------------- MODULE CrtAnalysis ----------------------------
(* The recomputation of the residue code's bounds and of its corrected     *)
(* form (paper_iot/V10/analysis/scripts/05_crt_quantization.py).           *)
EXTENDS Integers, FiniteSetsExt

MODULI_DEPLOYED == <<97, 101, 103>>

(* Slip: moduli whose products do not reach the legal domain.              *)
MODULI_SHORT == <<223, 224, 225>>

MODULI_CORRECTED == <<253, 254, 255>>

TEMP_BUCKETS == 201

pairwise_bounds(moduli) ==
  LET a == moduli[1] b == moduli[2] c == moduli[3]
  IN  [min |-> Min({a * b, a * c, b * c}), max_triple_product |-> a * b * c]

clip(n, low, high) == Max({low, Min({n, high})})

(* With floor division, where the firmware truncates.                      *)
encode_packed(soil_raw, temp_centi_c) ==
  clip(soil_raw, 0, 4095) * TEMP_BUCKETS + clip((temp_centi_c + 5500) \div 100, 0, TEMP_BUCKETS - 1)

(* corrected_domain.                                                       *)
legal_domain_max == 255 * TEMP_BUCKETS + (TEMP_BUCKETS - 1)
below_min_pairwise_bound == legal_domain_max < pairwise_bounds(MODULI_CORRECTED).min

(* quantization_error: the two quantisers from twelve bits to eight, and    *)
(* how far off what they keep is, by the truncating one in ADC counts and   *)
(* by the rounding one in 255ths of them.                                   *)
bucket_trunc(raw) == raw \div 16
err_trunc(raw) == raw - bucket_trunc(raw) * 16
bucket_round(raw) == (2 * 255 * raw + 4095) \div (2 * 4095)
err_round(raw) == Max({bucket_round(raw) * 4095 - raw * 255, raw * 255 - bucket_round(raw) * 4095})

(* reconstruct: whether a packed value is beyond what any two residues      *)
(* recover.                                                                 *)
exceeds_min(packed) == packed >= pairwise_bounds(MODULI_DEPLOYED).min
=============================================================================
