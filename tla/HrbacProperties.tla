--------------------------- MODULE HrbacProperties ---------------------------
(* What the contract keeps true of the channel: the correctness properties *)
(* of HrbacLedger.  Most compare the world state, which the transactions   *)
(* rewrite key by key, with the history of committed calls.                *)
EXTENDS HrbacLedger

AdminFunctions == Functions \ {"CheckAccess", "WriteSensorData"}
Answers == {"OK", "GRANT", "certificate revoked", "role assignment not found",
            "role expired", "permission denied", "zone access denied",
            "token not found or revoked", "token subject mismatch",
            "token expired", "token does not cover zone"}

(* Each key holds the kind of value its prefix announces.                  *)
Seconds == 0 .. Unix(MaxTime)
WellKeyed(key) ==
  CASE key[1] = "role"  -> /\ world[key].role \in Roles
                           /\ world[key].zones \subseteq validZones \cup {"*"}
                           /\ {world[key].issuedAt, world[key].expiresAt} \subseteq Nat
    [] key[1] = "czt"   -> world[key].subject = key[2][1] /\ world[key].expiresAt \in Nat
    [] key[1] = "nonce" -> world[key] \in [tx : TxIds, ts : Seconds]
    [] key[1] = "audit" -> key[2] \in TxIds /\ world[key].ts \in Seconds
    [] key \in {NonceIndex, AuditIndex} ->
         \A i \in DOMAIN world[key] : world[key][i][1] = (IF key = NonceIndex THEN "nonce" ELSE "audit")
    [] OTHER -> key[1] \in {"sensor", "crl"}

LogEntry == [id : TxIds, call : Calls, ts : Times]

TxOK(id) ==
  LET t == txs[id]
  IN  \/ t = Unused
      \/ \E s \in {"rejected", "committed", "invalid", "abandoned"} : t = Closed(s)
      \/ /\ t.status \in {"proposed", "endorsed"}
         /\ t.tx \in LogEntry /\ t.tx.id = id
         /\ t.status = "endorsed" =>
              /\ t.answer \in Answers
              /\ t.reads \in [DOMAIN t.reads -> 0 .. Height]

(* Types of the ledger's variables; the versions of the keys present are   *)
(* heights the chain has reached.                                          *)
TypeOK ==
  /\ version \in [DOMAIN world -> 1 .. Height]
  /\ \A key \in DOMAIN world : WellKeyed(key)
  /\ log \in Seq(LogEntry) /\ answers \in Seq(Answers) /\ Len(answers) = Len(log)
  /\ DOMAIN txs = TxIds /\ \A id \in TxIds : TxOK(id)
  /\ clock \in Times

-----------------------------------------------------------------------------
(* Concurrency.                                                            *)

(* Endorsements overlap, yet the committed world state and answers are     *)
(* those of the calls executed one at a time in commit order.              *)
Serializable == Serial!Spec

(* Every contract call reads and rewrites audit:index (writeAuditEntry),   *)
(* so this one key decides: an endorsed transaction is valid exactly while *)
(* no other transaction has committed since its endorsement.               *)
AuditIndexSerializes ==
  \A id \in WithStatus("endorsed") :
    Current(txs[id]) <=> txs[id].reads[AuditIndex] = VersionOf(AuditIndex)

(* Contention never starves everyone: a transaction is invalidated only    *)
(* when another one committed after it was endorsed.                       *)
ConflictMeansProgress ==
  [][\A id \in TxIds :
       txs[id].status = "endorsed" /\ txs'[id].status = "invalid" =>
         AuditIndex \in DOMAIN world /\ txs[id].reads[AuditIndex] < version[AuditIndex]]_vars

-----------------------------------------------------------------------------
(* The audit trail (audit.go).                                             *)

(* The entry a transaction owes the trail.                                 *)
EntryFor(tx, answer) ==
  [actor |-> tx.call.caller, ts |-> Unix(tx.ts),
   action |-> IF tx.call.fn \in AdminFunctions THEN tx.call.fn ELSE "CheckAccess",
   decision |-> IF answer \in {"OK", "GRANT"} THEN "GRANT" ELSE "DENY"]

(* audit:index names the entry of every committed transaction once, in     *)
(* commit order, and the entry says who did what, when and with what       *)
(* decision.                                                               *)
AuditTrailExact ==
  /\ getStringIndex(world, AuditIndex) = [i \in DOMAIN log |-> AuditKey(log[i].id)]
  /\ \A i \in DOMAIN log : world[AuditKey(log[i].id)] = EntryFor(log[i], answers[i])

(* GetAuditLog (contract.go:274-305) answers administrators, certifiers    *)
(* and the roles above these with the newest entries, up to the window,    *)
(* oldest first, and everybody else with an error.                         *)
AuditWindowNewest ==
  LET n == Len(log)
      shown == IF n < AuditWindow THEN n ELSE AuditWindow
      newest == [i \in 1 .. shown |-> world[AuditKey(log[n - shown + i].id)]]
  IN  \A s \in Subjects :
        GetAuditLog(world, s) =
          IF CertRole[s] \in {"Admin", "Certifier", "Agronomist", "Farmer"} THEN newest ELSE Nil

-----------------------------------------------------------------------------
(* Nonces (nonces.go, PruneNonces).                                        *)

UsesNonce(call) == call.fn # "CheckAccess"
SameNonce(i, j) ==
  /\ UsesNonce(log[i].call) /\ UsesNonce(log[j].call)
  /\ log[i].call.caller = log[j].call.caller
  /\ log[i].call.nonce = log[j].call.nonce

(* Two transactions commit with one caller's nonce only if a PruneNonces   *)
(* between them was asked to forget times that include the first.          *)
NonceUsedOnce ==
  \A i, j \in DOMAIN log : i < j /\ SameNonce(i, j) =>
    \E k \in i + 1 .. j - 1 : /\ log[k].call.fn = "PruneNonces"
                              /\ Unix(log[i].ts) < log[k].call.before

(* nonce:index lists recorded nonces, each once, and all of them but those *)
(* of PruneNonces calls, whose own index entry the call overwrites.        *)
NonceIndexExact ==
  LET index == getStringIndex(world, NonceIndex)
      listed == {index[i] : i \in DOMAIN index}
      recorded == {key \in DOMAIN world : key[1] = "nonce"}
      ofPrune == {NonceKey(log[i].call.caller, log[i].call.nonce) :
                    i \in {j \in DOMAIN log : log[j].call.fn = "PruneNonces"}}
  IN  /\ Cardinality(listed) = Len(index)
      /\ listed \subseteq recorded /\ recorded \ listed \subseteq ofPrune

-----------------------------------------------------------------------------
(* Roles, expiry and cross-zone tokens against the history of calls.       *)

Before(n, P(_)) == {i \in 1 .. n - 1 : P(log[i])}
Latest(S) == CHOOSE i \in S : \A j \in S : j <= i

Assigns(s, e) == e.call.fn = "AssignRole" /\ e.call.subject = s
SetsExpiry(s, e) == e.call.fn \in {"AssignRole", "RenewRole"} /\ e.call.subject = s
Revokes(s, e) == e.call.fn = "RevokeRole" /\ e.call.subject = s

Requester(e) == IF e.call.fn = "WriteSensorData" THEN e.call.caller ELSE e.call.subject
Asked(e) == IF e.call.fn = "WriteSensorData" THEN "WriteSensor" ELSE e.call.perm

(* The assignment in force just before position n, as the calls made it.   *)
AssignedAt(s, n) == LET P(e) == Assigns(s, e) IN Before(n, P)
ExpiryAt(s, n) == LET P(e) == SetsExpiry(s, e)
                  IN  log[Latest(Before(n, P))].call.expiry
RevokedSince(s, a, n) == \E i \in a + 1 .. n - 1 : Revokes(s, log[i])

(* A token for the requester, issued earlier, covering the zone, not       *)
(* revoked since and, at full time resolution, not yet at its expiry.      *)
TokenOpens(n) ==
  \E k \in 1 .. n - 1 :
    /\ log[k].call.fn = "IssueCrossZoneToken"
    /\ TokenId(log[k]) = log[n].call.token
    /\ log[k].call.subject = log[n].call.subject
    /\ log[n].call.zone \in log[k].call.zones
    /\ log[n].ts < log[k].call.expiry
    /\ \A i \in k + 1 .. n - 1 :
         log[i].call.fn = "RevokeCrossZoneToken" => log[i].call.token # log[n].call.token

(* Every grant is justified by earlier committed calls: the requester was  *)
(* assigned a role holding the permission, the role was not revoked since, *)
(* its requested expiry is less than a second past, its zones or a live    *)
(* token open the zone, and the caller's certificate is not revoked        *)
(* (CheckAccess, checkRoleExpiration, validCrossZoneToken).                *)
GrantsJustified ==
  \A n \in DOMAIN log : answers[n] = "GRANT" =>
    LET s == Requester(log[n])
        assign == log[Latest(AssignedAt(s, n))].call
    IN  /\ log[n].call.caller \notin Revoked
        /\ AssignedAt(s, n) # {}
        /\ ~RevokedSince(s, Latest(AssignedAt(s, n)), n)
        /\ hasPermission(assign.role, Asked(log[n]))
        /\ ExpiryAt(s, n) # Nil => log[n].ts < ExpiryAt(s, n) + TicksPerSecond
        /\ \/ ~needsZoneCheck(Asked(log[n]))
           \/ validateZoneAccess(assign.zones, log[n].call.zone)
           \/ log[n].call.fn = "CheckAccess" /\ TokenOpens(n)

(* A role assigned and no longer recorded was revoked by a RevokeRole, or  *)
(* an access check made after the expiry then in force removed it: a       *)
(* renewal is never lost to an auto-revocation racing with it.             *)
RolesKeptUntilRevoked ==
  \A s \in Subjects :
    LET n == Len(log) + 1
        a == Latest(AssignedAt(s, n))
    IN  AssignedAt(s, n) # {} /\ RoleKey(s) \notin DOMAIN world =>
          \/ RevokedSince(s, a, n)
          \/ \E m \in a + 1 .. n - 1 : /\ log[m].call.fn = "CheckAccess"
                                       /\ log[m].call.subject = s
                                       /\ ExpiryAt(s, m) # Nil
                                       /\ log[m].ts > ExpiryAt(s, m)

-----------------------------------------------------------------------------
(* What the repository's documents say, and the code does not do.          *)

(* implementation.tex: "Every access attempt, granted or denied, writes an *)
(* audit entry".                                                           *)
EveryAttemptAudited ==
  [][\A id \in TxIds :
       /\ txs[id].status = "proposed"
       /\ txs[id].tx.call.fn = "WriteSensorData"
       /\ AccessDecision(world, txs[id].tx, WriteRequest(txs[id].tx)) # "GRANT"
       /\ txs'[id].status = "rejected"
       => AuditKey(id) \in DOMAIN world']_vars

=============================================================================
