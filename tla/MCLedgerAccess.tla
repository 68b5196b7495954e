--------------------------- MODULE MCLedgerAccess ---------------------------
(* Tokens, writes and nonces together: an agronomist issues and revokes a  *)
(* token for South to a farmer of North, whose accesses race with both and *)
(* with expiry, while the farmer's own write is submitted more than once   *)
(* and an administrator prunes the recorded nonces.                        *)
EXTENDS HrbacProperties, TLC

MCSubjects == {"admin", "agro", "farmer"}
MCCertRole == [admin |-> "Admin", agro |-> "Agronomist", farmer |-> "Farmer"]

MCTokens == {<<"farmer", t, "n1">> : t \in Times}

MCCalls ==
  {[fn |-> "AssignRole", caller |-> "admin", subject |-> "farmer", role |-> "Farmer",
    zones |-> {"North"}, expiry |-> Nil, nonce |-> "n1"],
   [fn |-> "IssueCrossZoneToken", caller |-> "agro", subject |-> "farmer",
    zones |-> {"South"}, expiry |-> 7, nonce |-> "n1"],
   [fn |-> "WriteSensorData", caller |-> "farmer", device |-> "probe",
    zone |-> "North", nonce |-> "n1"],
   [fn |-> "PruneNonces", caller |-> "admin", before |-> 3, nonce |-> "n2"],
   [fn |-> "PruneNonces", caller |-> "admin", before |-> 3, nonce |-> "n3"]}
  \cup {[fn |-> "RevokeCrossZoneToken", caller |-> "agro", token |-> t, nonce |-> "n2"]
          : t \in MCTokens}
  \cup {[fn |-> "CheckAccess", caller |-> "farmer", subject |-> "farmer",
          perm |-> "ControlZone", zone |-> "South", token |-> t]
          : t \in MCTokens \cup {Nil}}

TxSymmetry == Permutations(TxIds)
=============================================================================
