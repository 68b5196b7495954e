------------------------------- MODULE MCLoRa -------------------------------
(* One device, two reading ids, moduli 3, 5 and 7.                         *)
EXTENDS LoRaProperties, TLC

MCModulus == 0 :> 3 @@ 1 :> 5 @@ 2 :> 7

Symmetry == Permutations(Keys)
=============================================================================
