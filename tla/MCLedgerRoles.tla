--------------------------- MODULE MCLedgerRoles ---------------------------
(* Role lifecycle: an administrator assigns, renews and revokes a farmer's *)
(* role while access checks race with it and the clock passes the expiry.  *)
EXTENDS HrbacProperties, TLC

MCSubjects == {"admin", "farmer", "gateway"}
MCCertRole == [admin |-> "Admin", farmer |-> "Farmer", gateway |-> "Gateway"]

MCCalls ==
  {[fn |-> "AssignRole", caller |-> "admin", subject |-> "farmer", role |-> "Farmer",
    zones |-> {"North"}, expiry |-> 5, nonce |-> "n1"],
   [fn |-> "RenewRole", caller |-> "admin", subject |-> "farmer", expiry |-> 7, nonce |-> "n2"],
   [fn |-> "RevokeRole", caller |-> "admin", subject |-> "farmer", nonce |-> "n3"],
   [fn |-> "CheckAccess", caller |-> "admin", subject |-> "farmer",
    perm |-> "WriteSensor", zone |-> "North", token |-> Nil],
   [fn |-> "CheckAccess", caller |-> "farmer", subject |-> "farmer",
    perm |-> "ReadOwn", zone |-> "", token |-> Nil],
   [fn |-> "CheckAccess", caller |-> "farmer", subject |-> "farmer",
    perm |-> "", zone |-> "", token |-> Nil]}

TxSymmetry == Permutations(TxIds)
=============================================================================
