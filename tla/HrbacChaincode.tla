--------------------------- MODULE HrbacChaincode ---------------------------
(* The HRBAC smart contract (chaincode/hrbac) as operators over the world  *)
(* state.  A transaction tx = [id, call, ts] runs against a world state w, *)
(* a function from the keys that are present to their values.  Fabric      *)
(* gives a running contract the committed value of every key it reads,     *)
(* never its own uncommitted writes, and discards every write of a call    *)
(* that returns an error; so each contract function f is two operators:    *)
(*   fAccepts(w, tx)   f returns without an error;                         *)
(*   fEffect(w, tx)    then: the keys it read, the values it put, the keys *)
(*                     it deleted and what it answered.                    *)
(* Times are ticks, TicksPerSecond to the second the ledger stores.        *)
EXTENDS HrbacRoles, Integers, Sequences

CONSTANTS Subjects,        \* enrolment identities
          CertRole,        \* the role in each identity's certificate, or ""
          Nil,             \* an empty expiry or token argument
          TicksPerSecond,  \* sub-second resolution of transaction timestamps
          AuditWindow      \* entries GetAuditLog returns at most (1000)

ASSUME ConstantsAssumption ==
  /\ TicksPerSecond \in Nat \ {0}
  /\ AuditWindow \in Nat \ {0}
  /\ CertRole \in [Subjects -> Roles \cup {""}]

Unix(t) == t \div TicksPerSecond

RoleKey(s)       == <<"role", s>>
CztKey(token)    == <<"czt", token>>
NonceKey(s, n)   == <<"nonce", s, n>>
AuditKey(id)     == <<"audit", id>>
SensorKey(d, t)  == <<"sensor", d, t>>
CrlKey(s)        == <<"crl", s>>
NonceIndex       == <<"nonce:index">>
AuditIndex       == <<"audit:index">>

(* A write set: one put, and the puts of f and of g, f's for a key of both. *)
Put(key, value) == [k \in {key} |-> value]
f ++ g == [k \in DOMAIN f \cup DOMAIN g |-> IF k \in DOMAIN f THEN f[k] ELSE g[k]]

getStringIndex(w, key) == IF key \in DOMAIN w THEN w[key] ELSE <<>>

(* The entries of seq that are in keep, in order: the loop of PruneNonces  *)
(* over the nonce index and of GetAuditLog over the audit index.           *)
Sifted(seq, keep) ==
  LET kept[i \in 0 .. Len(seq)] ==
        IF i = 0 THEN <<>>
        ELSE IF seq[i] \in keep THEN Append(kept[i - 1], seq[i]) ELSE kept[i - 1]
  IN  kept[Len(seq)]

-----------------------------------------------------------------------------
(* Parts shared by the contract functions.                                 *)

Caller(tx) == tx.call.caller
OwnNonce(tx) == NonceKey(Caller(tx), tx.call.nonce)

validateNonce(w, tx) == tx.call.nonce # "" /\ OwnNonce(tx) \notin DOMAIN w

NonceReads(tx) == {OwnNonce(tx), NonceIndex}

NoncePuts(w, tx) ==
  Put(OwnNonce(tx), [tx |-> tx.id, ts |-> Unix(tx.ts)])
  ++ Put(NonceIndex, Append(getStringIndex(w, NonceIndex), OwnNonce(tx)))

(* Slip: the index is appended to without being read from the ledger.      *)
AuditReadsEntryOnly(tx) == {AuditKey(tx.id)}

(* Fabric's transaction ids are unique, so the entry always takes the key  *)
(* without a sequence suffix.                                              *)
AuditReads(tx) == {AuditKey(tx.id), AuditIndex}

(* Slip: denials are kept out of the index.                                *)
AuditPutsUnindexedDenial(w, tx, action, decision) ==
  LET entry == [actor |-> Caller(tx), action |-> action,
                decision |-> decision, ts |-> Unix(tx.ts)]
      index == Append(getStringIndex(w, AuditIndex), AuditKey(tx.id))
  IN  Put(AuditKey(tx.id), entry)
      ++ (IF decision = "GRANT" THEN Put(AuditIndex, index) ELSE <<>>)

AuditPuts(w, tx, action, decision) ==
  Put(AuditKey(tx.id), [actor |-> Caller(tx), action |-> action,
                        decision |-> decision, ts |-> Unix(tx.ts)])
  ++ Put(AuditIndex, Append(getStringIndex(w, AuditIndex), AuditKey(tx.id)))

IsAdmin(tx) == CertRole[Caller(tx)] = "Admin"
MayIssueTokens(tx) == IsAdmin(tx) \/ hasPermission(CertRole[Caller(tx)], "IssueCrossZone")

(* parseFutureExpiry: compared at full resolution, stored in seconds.      *)
FutureExpiry(tx, required) ==
  IF tx.call.expiry = Nil THEN ~required ELSE tx.call.expiry > tx.ts

StoredExpiry(tx) == IF tx.call.expiry = Nil THEN 0 ELSE Unix(tx.call.expiry)

(* Slips: a second of grace, and expiry at the stored second itself.       *)
RoleExpiredLate(assignment, ts) ==
  assignment.expiresAt # 0 /\ Unix(ts) > assignment.expiresAt + 1
RoleExpiredEarly(assignment, ts) ==
  assignment.expiresAt # 0 /\ Unix(ts) >= assignment.expiresAt

(* A role lasts through its last second, a token does not.                 *)
checkRoleExpired(assignment, ts) ==
  assignment.expiresAt # 0 /\ Unix(ts) > assignment.expiresAt

(* Slip: tokens expire as roles do.                                        *)
TokenExpiredLate(token, ts) == token.expiresAt < Unix(ts)

TokenExpired(token, ts) == token.expiresAt <= Unix(ts)

(* The effect of an administrative call: its nonce, its audit entry and    *)
(* what else it read, put and deleted.                                     *)
AdminEffect(w, tx, reads, puts, dels, answer) ==
  [reads |-> NonceReads(tx) \cup AuditReads(tx) \cup reads,
   puts  |-> AuditPuts(w, tx, tx.call.fn, "GRANT") ++ (puts ++ NoncePuts(w, tx)),
   dels  |-> dels,
   answer |-> answer]

-----------------------------------------------------------------------------
(* Role administration.                                                    *)

AssignRoleAccepts(w, tx) ==
  /\ validateNonce(w, tx)
  /\ IsAdmin(tx)
  /\ tx.call.subject # ""
  /\ tx.call.role \in Roles
  /\ ZonesAccepted(tx.call.zones, tx.call.role \in {"Gateway", "Sensor"})
  /\ FutureExpiry(tx, FALSE)

AssignRoleEffect(w, tx) ==
  AdminEffect(w, tx, {},
    Put(RoleKey(tx.call.subject),
        [role |-> tx.call.role, zones |-> tx.call.zones,
         issuedAt |-> Unix(tx.ts), expiresAt |-> StoredExpiry(tx)]),
    {}, "OK")

RevokeRoleAccepts(w, tx) ==
  validateNonce(w, tx) /\ IsAdmin(tx) /\ tx.call.subject # ""

RevokeRoleEffect(w, tx) ==
  AdminEffect(w, tx, {}, <<>>, {RoleKey(tx.call.subject)}, "OK")

RenewRoleAccepts(w, tx) ==
  /\ validateNonce(w, tx)
  /\ IsAdmin(tx)
  /\ RoleKey(tx.call.subject) \in DOMAIN w
  /\ FutureExpiry(tx, TRUE)

RenewRoleEffect(w, tx) ==
  LET key == RoleKey(tx.call.subject)
  IN  AdminEffect(w, tx, {key},
        Put(key, [w[key] EXCEPT !.expiresAt = StoredExpiry(tx)]), {}, "OK")

-----------------------------------------------------------------------------
(* Cross-zone tokens.  The identifier is the hash of the user, the         *)
(* transaction time and the nonce.                                         *)

TokenId(tx) == <<tx.call.subject, tx.ts, tx.call.nonce>>

IssueCrossZoneTokenAccepts(w, tx) ==
  /\ validateNonce(w, tx)
  /\ MayIssueTokens(tx)
  /\ RoleKey(tx.call.subject) \in DOMAIN w
  /\ ZonesAccepted(tx.call.zones, TRUE)
  /\ FutureExpiry(tx, TRUE)

IssueCrossZoneTokenEffect(w, tx) ==
  AdminEffect(w, tx, {RoleKey(tx.call.subject)},
    Put(CztKey(TokenId(tx)),
        [subject |-> tx.call.subject, zones |-> tx.call.zones,
         issuedAt |-> Unix(tx.ts), expiresAt |-> StoredExpiry(tx)]),
    {}, "OK")

RevokeCrossZoneTokenAccepts(w, tx) ==
  validateNonce(w, tx) /\ MayIssueTokens(tx) /\ tx.call.token # Nil

RevokeCrossZoneTokenEffect(w, tx) ==
  AdminEffect(w, tx, {}, <<>>, {CztKey(tx.call.token)}, "OK")

(* Why a token does not open the requested zone, or "GRANT".               *)
validCrossZoneToken(w, token, user, zone, ts) ==
  LET key == CztKey(token)
  IN  IF key \notin DOMAIN w THEN "token not found or revoked"
      ELSE IF w[key].subject # user THEN "token subject mismatch"
      ELSE IF TokenExpired(w[key], ts) THEN "token expired"
      ELSE IF zone \notin w[key].zones THEN "token does not cover zone"
      ELSE "GRANT"

-----------------------------------------------------------------------------
(* CheckAccess: the decision on a request q = [user, perm, zone, token],   *)
(* in the order of the code's early returns.                               *)

ZoneOpen(w, q) ==
  ~needsZoneCheck(q.perm) \/ validateZoneAccess(w[RoleKey(q.user)].zones, q.zone)

AccessDecision(w, tx, q) ==
  LET key == RoleKey(q.user)
  IN  IF CrlKey(Caller(tx)) \in DOMAIN w THEN "certificate revoked"
      ELSE IF key \notin DOMAIN w THEN "role assignment not found"
      ELSE IF checkRoleExpired(w[key], tx.ts) THEN "role expired"
      ELSE IF ~hasPermission(w[key].role, q.perm) THEN "permission denied"
      ELSE IF ZoneOpen(w, q) THEN "GRANT"
      ELSE IF q.token = Nil THEN "zone access denied"
      ELSE validCrossZoneToken(w, q.token, q.user, q.zone, tx.ts)

TokenRead(w, tx, q) ==
  /\ q.token # Nil
  /\ AccessDecision(w, tx, [q EXCEPT !.token = Nil]) = "zone access denied"

AccessReads(w, tx, q) ==
  {CrlKey(Caller(tx))}
  \cup (IF CrlKey(Caller(tx)) \in DOMAIN w THEN {} ELSE {RoleKey(q.user)})
  \cup (IF TokenRead(w, tx, q) THEN {CztKey(q.token)} ELSE {})
  \cup AuditReads(tx)

(* Slip: every check is logged as a grant.                                 *)
AccessPutsGrant(w, tx, q) == AuditPuts(w, tx, "CheckAccess", "GRANT")

AccessPuts(w, tx, q) ==
  AuditPuts(w, tx, "CheckAccess",
            IF AccessDecision(w, tx, q) = "GRANT" THEN "GRANT" ELSE "DENY")

(* An expired assignment is deleted on sight.                              *)
AutoRevoked(w, tx, q) ==
  IF AccessDecision(w, tx, q) = "role expired" THEN {RoleKey(q.user)} ELSE {}

Request(tx) == [user |-> tx.call.subject, perm |-> tx.call.perm,
                zone |-> tx.call.zone, token |-> tx.call.token]

(* Every denial is an answer, not an error.                                *)
CheckAccessAccepts(w, tx) == TRUE

CheckAccessEffect(w, tx) ==
  [reads  |-> AccessReads(w, tx, Request(tx)),
   puts   |-> AccessPuts(w, tx, Request(tx)),
   dels   |-> AutoRevoked(w, tx, Request(tx)),
   answer |-> AccessDecision(w, tx, Request(tx))]

-----------------------------------------------------------------------------
(* WriteSensorData: CheckAccess for the caller itself, and an error when   *)
(* the answer is a denial.                                                 *)

WriteRequest(tx) == [user |-> Caller(tx), perm |-> "WriteSensor",
                     zone |-> tx.call.zone, token |-> Nil]

WriteSensorDataAccepts(w, tx) ==
  /\ validateNonce(w, tx)
  /\ AccessDecision(w, tx, WriteRequest(tx)) = "GRANT"
  /\ tx.call.device # ""

WriteSensorDataEffect(w, tx) ==
  [reads  |-> NonceReads(tx) \cup AccessReads(w, tx, WriteRequest(tx)),
   puts   |-> AccessPuts(w, tx, WriteRequest(tx))
              ++ (Put(SensorKey(tx.call.device, tx.ts), tx.call.nonce)
                  ++ NoncePuts(w, tx)),
   dels   |-> {},
   answer |-> "GRANT"]

-----------------------------------------------------------------------------
(* PruneNonces: drop the recorded nonces older than tx.call.before and     *)
(* rewrite the index with the rest.  It reads the index as committed, so   *)
(* the list it puts back does not hold its own nonce, whose index entry    *)
(* from validateNonce it overwrites.                                       *)

(* Slip: the age of the nonce is not looked at.                            *)
PrunableAnyAge(w, tx) ==
  {key \in DOMAIN w : key[1] = "nonce"} \ {OwnNonce(tx)}

Prunable(w, tx) ==
  {key \in DOMAIN w : key[1] = "nonce" /\ w[key].ts < tx.call.before} \ {OwnNonce(tx)}

PrunedKeys(w, tx) ==
  {getStringIndex(w, NonceIndex)[i] : i \in DOMAIN getStringIndex(w, NonceIndex)}
    \cap Prunable(w, tx)

(* Slip: the index keeps the nonces pruned by this call.                   *)
KeptIndexWithPruned(w, tx) ==
  Sifted(getStringIndex(w, NonceIndex), DOMAIN w)

KeptIndex(w, tx) ==
  Sifted(getStringIndex(w, NonceIndex), DOMAIN w \ Prunable(w, tx))

PruneNoncesAccepts(w, tx) == validateNonce(w, tx) /\ IsAdmin(tx)

PruneNoncesEffect(w, tx) ==
  LET keys == getStringIndex(w, NonceIndex)
  IN  AdminEffect(w, tx, {keys[i] : i \in DOMAIN keys},
        Put(NonceIndex, KeptIndex(w, tx)), PrunedKeys(w, tx), "OK")

-----------------------------------------------------------------------------
(* The contract: dispatch on the called function, and what a commit makes  *)
(* of the world state.                                                     *)

Accepts(w, tx) ==
  CASE tx.call.fn = "AssignRole"           -> AssignRoleAccepts(w, tx)
    [] tx.call.fn = "RevokeRole"           -> RevokeRoleAccepts(w, tx)
    [] tx.call.fn = "RenewRole"            -> RenewRoleAccepts(w, tx)
    [] tx.call.fn = "IssueCrossZoneToken"  -> IssueCrossZoneTokenAccepts(w, tx)
    [] tx.call.fn = "RevokeCrossZoneToken" -> RevokeCrossZoneTokenAccepts(w, tx)
    [] tx.call.fn = "CheckAccess"          -> CheckAccessAccepts(w, tx)
    [] tx.call.fn = "WriteSensorData"      -> WriteSensorDataAccepts(w, tx)
    [] tx.call.fn = "PruneNonces"          -> PruneNoncesAccepts(w, tx)

Effect(w, tx) ==
  CASE tx.call.fn = "AssignRole"           -> AssignRoleEffect(w, tx)
    [] tx.call.fn = "RevokeRole"           -> RevokeRoleEffect(w, tx)
    [] tx.call.fn = "RenewRole"            -> RenewRoleEffect(w, tx)
    [] tx.call.fn = "IssueCrossZoneToken"  -> IssueCrossZoneTokenEffect(w, tx)
    [] tx.call.fn = "RevokeCrossZoneToken" -> RevokeCrossZoneTokenEffect(w, tx)
    [] tx.call.fn = "CheckAccess"          -> CheckAccessEffect(w, tx)
    [] tx.call.fn = "WriteSensorData"      -> WriteSensorDataEffect(w, tx)
    [] tx.call.fn = "PruneNonces"          -> PruneNoncesEffect(w, tx)

Functions == {"AssignRole", "RevokeRole", "RenewRole", "IssueCrossZoneToken",
              "RevokeCrossZoneToken", "CheckAccess", "WriteSensorData",
              "PruneNonces"}

(* Slip: deletions are lost.                                               *)
ApplyPuts(w, e) ==
  [key \in DOMAIN w \cup DOMAIN e.puts |->
     IF key \in DOMAIN e.puts THEN e.puts[key] ELSE w[key]]

Apply(w, e) ==
  [key \in (DOMAIN w \ e.dels) \cup DOMAIN e.puts |->
     IF key \in DOMAIN e.puts THEN e.puts[key] ELSE w[key]]

MayReadAudit(s) == CertRole[s] = "Admin" \/ hasPermission(CertRole[s], "ReadAudit")

(* Slip: the oldest entries instead of the newest.                         *)
AuditLogOldest(w, s) ==
  LET keys   == getStringIndex(w, AuditIndex)
      last   == IF Len(keys) > AuditWindow THEN AuditWindow ELSE Len(keys)
      oldest == Sifted(SubSeq(keys, 1, last), DOMAIN w)
  IN  IF MayReadAudit(s) THEN [i \in DOMAIN oldest |-> w[oldest[i]]] ELSE Nil

(* What GetAuditLog, which writes nothing, answers s: the newest entries   *)
(* still present, or an error.                                             *)
GetAuditLog(w, s) ==
  LET keys   == getStringIndex(w, AuditIndex)
      first  == IF Len(keys) > AuditWindow THEN Len(keys) - AuditWindow + 1 ELSE 1
      recent == Sifted(SubSeq(keys, first, Len(keys)), DOMAIN w)
  IN  IF MayReadAudit(s) THEN [i \in DOMAIN recent |-> w[recent[i]]] ELSE Nil
=============================================================================
