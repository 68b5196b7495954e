------------------------- MODULE HrbacLedgerProofs --------------------------
(* Theorems about HrbacLedger for every set of subjects, calls and         *)
(* transactions and every clock bound: first what each transaction meets,  *)
(* then the world state against the history of committed calls: what a     *)
(* nonce, a role assignment, a token and a grant owe to earlier ones.      *)
EXTENDS HrbacProperties, SequenceTheorems, FiniteSetTheorems, WellFoundedInduction, TLAPS

(* The part of the type invariant the argument needs.                      *)
Chain ==
  /\ version \in [DOMAIN world -> 1 .. Height]
  /\ log \in Seq(LogEntry)
  /\ clock \in Times
  /\ DOMAIN txs = TxIds

Shape(id) ==
  LET t == txs[id]
  IN  t.status \in {"proposed", "endorsed"} => t.tx \in LogEntry /\ t.tx.id = id

(* What one key's versions say: an endorsed transaction whose version of   *)
(* audit:index is current holds what the contract would do now.            *)
Faithful(id) ==
  LET t == txs[id]
      e == Effect(world, t.tx)
  IN  t.status = "endorsed" =>
        /\ t.reads \in [DOMAIN t.reads -> 0 .. Height]
        /\ AuditIndex \in DOMAIN t.reads /\ AuditIndex \in DOMAIN t.puts
        /\ t.reads[AuditIndex] <= VersionOf(AuditIndex)
        /\ t.reads[AuditIndex] = VersionOf(AuditIndex) =>
             /\ Accepts(world, t.tx)
             /\ t.puts = e.puts /\ t.dels = e.dels /\ t.answer = e.answer
             /\ Current(t)

IInv == Chain /\ \A id \in TxIds : Shape(id) /\ Faithful(id)

-----------------------------------------------------------------------------
(* Every function that returns without an error has read and rewritten     *)
(* audit:index, through writeAuditEntry.                                   *)
LEMMA EveryCallAudits ==
  ASSUME NEW w, NEW tx, tx.call.fn \in Functions
  PROVE  /\ AuditIndex \in Effect(w, tx).reads
         /\ AuditIndex \in DOMAIN Effect(w, tx).puts
<1>1. AuditIndex \in AuditReads(tx)
  BY DEF AuditReads
<1>2. \A action, decision : AuditIndex \in DOMAIN AuditPuts(w, tx, action, decision)
  BY DEF AuditPuts, ++, Put
<1>3. \A f, g : DOMAIN f \subseteq DOMAIN (f ++ g)
  BY DEF ++
<1>4. \A reads, puts, dels, answer :
        LET e == AdminEffect(w, tx, reads, puts, dels, answer)
        IN  AuditIndex \in e.reads /\ AuditIndex \in DOMAIN e.puts
  BY <1>1, <1>2, <1>3 DEF AdminEffect
<1>5. \A q : AuditIndex \in AccessReads(w, tx, q) /\ AuditIndex \in DOMAIN AccessPuts(w, tx, q)
  BY <1>1, <1>2 DEF AccessReads, AccessPuts
<1>6. CASE tx.call.fn = "CheckAccess"
  BY <1>6, <1>5 DEF Effect, CheckAccessEffect
<1>7. CASE tx.call.fn = "WriteSensorData"
  BY <1>7, <1>5, <1>3 DEF Effect, WriteSensorDataEffect
<1>8. CASE tx.call.fn = "AssignRole"
  BY <1>8, <1>4 DEF Effect, AssignRoleEffect
<1>9. CASE tx.call.fn = "RevokeRole"
  BY <1>9, <1>4 DEF Effect, RevokeRoleEffect
<1>10. CASE tx.call.fn = "RenewRole"
  BY <1>10, <1>4 DEF Effect, RenewRoleEffect
<1>11. CASE tx.call.fn = "IssueCrossZoneToken"
  BY <1>11, <1>4 DEF Effect, IssueCrossZoneTokenEffect
<1>12. CASE tx.call.fn = "RevokeCrossZoneToken"
  BY <1>12, <1>4 DEF Effect, RevokeCrossZoneTokenEffect
<1>13. CASE tx.call.fn = "PruneNonces"
  BY <1>13, <1>4 DEF Effect, PruneNoncesEffect
<1> QED
  BY <1>6, <1>7, <1>8, <1>9, <1>10, <1>11, <1>12, <1>13 DEF Functions

(* Initially nothing is endorsed.                                          *)
LEMMA InitIInv == Init => IInv
<1> SUFFICES ASSUME Init PROVE IInv
  OBVIOUS
<1>1. Len(log) = 0 /\ log \in Seq(LogEntry)
  BY DEF Init
<1>2. version \in [DOMAIN world -> 1 .. Height]
  BY <1>1 DEF Init, Height, InitialWorld
<1>3. clock \in Times
  BY LedgerAssumption DEF Init, Times
<1>4. \A id \in TxIds : txs[id].status = "unused"
  BY DEF Init, Unused
<1> QED
  BY <1>1, <1>2, <1>3, <1>4 DEF IInv, Chain, Shape, Faithful, Init

(* A step that leaves the ledger alone and rewrites only txs[id] preserves *)
(* the invariant if what it writes there satisfies it.                     *)
LEMMA LocalStep ==
  ASSUME IInv, UNCHANGED ledger, clock' \in Times,
         NEW id \in TxIds, NEW t, txs' = [txs EXCEPT ![id] = t],
         (Shape(id) /\ Faithful(id))'
  PROVE  IInv'
<1>1. \A i \in TxIds \ {id} : txs'[i] = txs[i]
  BY DEF IInv, Chain
<1>2. \A i \in TxIds \ {id} : (Shape(i) /\ Faithful(i))'
  <2> SUFFICES ASSUME NEW i \in TxIds \ {id} PROVE (Shape(i) /\ Faithful(i))'
    OBVIOUS
  <2>1. txs'[i] = txs[i] /\ world' = world /\ version' = version /\ log' = log
    BY <1>1 DEF ledger
  <2>2. Shape(i) /\ Faithful(i)
    BY DEF IInv
  <2> QED
    BY <2>1, <2>2 DEF Shape, Faithful, Current, VersionOf, Height
<1>3. Chain'
  BY DEF IInv, Chain, ledger, Height
<1> QED
  BY <1>2, <1>3 DEF IInv

(* What an endorsement records is what the contract does now.              *)
LEMMA EndorseStep ==
  ASSUME IInv, NEW id \in TxIds, NEW fn, Endorse(id, fn)
  PROVE  IInv'
<1> DEFINE tx == txs[id].tx
           e == Effect(world, tx)
<1>1. tx \in LogEntry /\ tx.id = id
  BY DEF IInv, Shape, Endorse
<1>2. txs' = [txs EXCEPT ![id] = Endorsement(tx, e)] /\ UNCHANGED <<ledger, clock>>
  BY DEF Endorse
<1>3. txs'[id] = Endorsement(tx, e)
  BY <1>2 DEF IInv, Chain
<1>4. Shape(id)'
  BY <1>1, <1>3 DEF Shape, Endorsement
<1>5. /\ world' = world /\ version' = version /\ Height' = Height
      /\ \A key : VersionOf(key)' = VersionOf(key)
  BY <1>2 DEF ledger, Height, VersionOf
<1>6. \A key : VersionOf(key) \in 0 .. Height
  BY DEF IInv, Chain, VersionOf, Height
<1>7. tx.call.fn \in Functions
  BY <1>1, LedgerAssumption DEF LogEntry
<1>8. AuditIndex \in e.reads /\ AuditIndex \in DOMAIN e.puts
  BY <1>7, EveryCallAudits
<1>9. Accepts(world, tx)
  BY DEF Endorse
<1>10. Faithful(id)'
  BY <1>3, <1>5, <1>6, <1>8, <1>9 DEF Faithful, Endorsement, Current
<1> QED
  BY <1>2, <1>4, <1>10, LocalStep DEF IInv, Chain

(* A commit moves the version of audit:index past every other endorsement. *)
LEMMA CommitStep ==
  ASSUME IInv, NEW id \in TxIds, Commit(id)
  PROVE  IInv'
<1> DEFINE t == txs[id]
<1>1. t.status = "endorsed" /\ t.tx \in LogEntry /\ AuditIndex \in DOMAIN t.puts
  BY DEF IInv, Shape, Faithful, Commit
<1>2. log \in Seq(LogEntry) /\ log' = Append(log, t.tx)
  BY DEF IInv, Chain, Commit
<1>3. log' \in Seq(LogEntry) /\ Height' = Height + 1 /\ Height \in Nat \ {0}
  BY <1>1, <1>2 DEF Height
<1>4. DOMAIN version' = DOMAIN world'
  BY DEF IInv, Chain, Commit, Apply, Versions
<1>5. \A key \in DOMAIN version' : version'[key] \in 1 .. Height'
  <2> SUFFICES ASSUME NEW key \in DOMAIN version' PROVE version'[key] \in 1 .. Height'
    OBVIOUS
  <2>1. version' = Versions(t)
    BY DEF Commit
  <2>2. CASE key \in DOMAIN t.puts
    BY <2>1, <2>2, <1>3 DEF Versions
  <2>3. CASE key \notin DOMAIN t.puts
    <3>1. key \in DOMAIN version /\ version'[key] = version[key]
      BY <2>1, <2>3 DEF Versions
    <3> QED
      BY <3>1, <1>3 DEF IInv, Chain
  <2> QED
    BY <2>2, <2>3
<1>6. Chain'
  <2>1. version' = [key \in DOMAIN version' |-> version'[key]]
    BY DEF Commit, Versions
  <2> QED
    BY <2>1, <1>3, <1>4, <1>5 DEF IInv, Chain, Commit, Close
<1>7. VersionOf(AuditIndex)' = Height + 1
  BY <1>1 DEF VersionOf, Commit, Versions
<1>8. ASSUME NEW i \in TxIds PROVE (Shape(i) /\ Faithful(i))'
  <2>1. CASE i = id
    <3>1. txs'[i] = [status |-> "committed"]
      BY <2>1 DEF IInv, Chain, Commit, Close, Closed
    <3> QED
      BY <3>1 DEF Shape, Faithful
  <2>2. CASE i # id
    <3>1. txs'[i] = txs[i]
      BY <2>2 DEF IInv, Chain, Commit, Close
    <3>2. Shape(i) /\ Faithful(i)
      BY DEF IInv
    <3>3. Shape(i)'
      BY <3>1, <3>2 DEF Shape
    <3>4. ASSUME txs[i].status = "endorsed"
          PROVE  /\ txs[i].reads \in [DOMAIN txs[i].reads -> 0 .. Height']
                 /\ AuditIndex \in DOMAIN txs[i].reads /\ AuditIndex \in DOMAIN txs[i].puts
                 /\ txs[i].reads[AuditIndex] \in 0 .. Height
      BY <3>2, <3>4, <1>3 DEF Faithful
    <3>5. ASSUME txs[i].status = "endorsed"
          PROVE  /\ txs[i].reads[AuditIndex] <= Height + 1
                 /\ txs[i].reads[AuditIndex] # Height + 1
      BY <3>4, <3>5, <1>3
    <3>6. Faithful(i)'
      BY <3>1, <3>4, <3>5, <1>7 DEF Faithful
    <3> QED
      BY <3>3, <3>6
  <2> QED
    BY <2>1, <2>2
<1> QED
  BY <1>6, <1>8 DEF IInv

(* Every step preserves the invariant.                                     *)
LEMMA NextIInv == IInv /\ [Next]_vars => IInv'
<1> SUFFICES ASSUME IInv, [Next]_vars PROVE IInv'
  OBVIOUS
<1>1. ASSUME NEW id \in TxIds, NEW call \in Calls, Propose(id, call) PROVE IInv'
  <2> DEFINE t == [status |-> "proposed", tx |-> [id |-> id, call |-> call, ts |-> clock]]
  <2>1. txs' = [txs EXCEPT ![id] = t] /\ UNCHANGED <<ledger, clock>>
    BY <1>1 DEF Propose
  <2>2. txs'[id] = t
    BY <2>1 DEF IInv, Chain
  <2>3. (Shape(id) /\ Faithful(id))'
    BY <2>2 DEF Shape, Faithful, LogEntry, IInv, Chain
  <2> QED
    BY <2>1, <2>3, LocalStep DEF IInv, Chain
<1>2. ASSUME NEW id \in TxIds, NEW status \in {"rejected", "invalid", "abandoned"},
             Close(id, status), UNCHANGED <<ledger, clock>>
      PROVE  IInv'
  <2>1. txs'[id] = [status |-> status]
    BY <1>2 DEF Close, Closed, IInv, Chain
  <2>2. (Shape(id) /\ Faithful(id))'
    BY <2>1 DEF Shape, Faithful
  <2> QED
    BY <1>2, <2>2, LocalStep DEF Close, IInv, Chain
<1>3. ASSUME NEW id \in TxIds, Resolve(id) PROVE IInv'
  <2>1. CASE \E fn : Endorse(id, fn)
    BY <2>1, EndorseStep
  <2>2. CASE Reject(id)
    BY <2>2, <1>2 DEF Reject
  <2>3. CASE Commit(id)
    BY <2>3, CommitStep
  <2>4. CASE Invalidate(id)
    BY <2>4, <1>2 DEF Invalidate
  <2> QED
    BY <1>3, <2>1, <2>2, <2>3, <2>4
    DEF Resolve, AssignRole, RevokeRole, RenewRole, IssueCrossZoneToken,
        RevokeCrossZoneToken, CheckAccess, WriteSensorData, PruneNonces
<1>4. ASSUME NEW id \in TxIds, Abandon(id) PROVE IInv'
  BY <1>4, <1>2 DEF Abandon
<1>5. CASE Tick \/ UNCHANGED vars
  <2>1. UNCHANGED <<ledger, txs>> /\ clock' \in Times
    BY <1>5, LedgerAssumption DEF Tick, vars, IInv, Chain, Times
  <2> QED
    BY <2>1 DEF IInv, Chain, Shape, Faithful, Current, VersionOf, Height, ledger
<1> QED
  BY <1>1, <1>3, <1>4, <1>5 DEF Next

(* The inductive invariant holds of every execution.                       *)
THEOREM Invariance == Spec => []IInv
<1> QED
  BY InitIInv, NextIInv, PTL DEF Spec

-----------------------------------------------------------------------------
(* The version of audit:index alone decides validation: writeAuditEntry    *)
(* makes every transaction read and rewrite it.                            *)
THEOREM AuditIndexDecides == Spec => []AuditIndexSerializes
<1>1. IInv => AuditIndexSerializes
  BY DEF IInv, AuditIndexSerializes, Faithful, Current, WithStatus
<1> QED
  BY <1>1, Invariance, PTL

(* A transaction is invalidated only after another one has committed.      *)
THEOREM ConflictsAreOvertaken == Spec => ConflictMeansProgress
<1> DEFINE Overtaken(id) ==
      txs[id].status = "endorsed" /\ txs'[id].status = "invalid" =>
        AuditIndex \in DOMAIN world /\ txs[id].reads[AuditIndex] < version[AuditIndex]
<1>1. ASSUME IInv, [Next]_vars, NEW id \in TxIds PROVE Overtaken(id)
  <2> SUFFICES ASSUME txs[id].status = "endorsed", txs'[id].status = "invalid"
               PROVE  AuditIndex \in DOMAIN world /\ txs[id].reads[AuditIndex] < version[AuditIndex]
    OBVIOUS
  <2>1. PICK j \in TxIds : Resolve(j) \/ Abandon(j) \/ \E call \in Calls : Propose(j, call)
    BY <1>1 DEF Next, vars, Tick
  <2>2. Invalidate(j) /\ j = id
    BY <1>1, <2>1
    DEF Resolve, AssignRole, RevokeRole, RenewRole, IssueCrossZoneToken,
        RevokeCrossZoneToken, CheckAccess, WriteSensorData, PruneNonces,
        Endorse, Endorsement, Reject, Commit, Abandon, Propose, Close, Closed,
        Invalidate, IInv, Chain
  <2>3. ~Current(txs[id]) /\ Faithful(id)
    BY <1>1, <2>2 DEF Invalidate, IInv
  <2>4. /\ txs[id].reads[AuditIndex] \in Nat
        /\ txs[id].reads[AuditIndex] <= VersionOf(AuditIndex)
        /\ txs[id].reads[AuditIndex] # VersionOf(AuditIndex)
    BY <1>1, <2>3 DEF Faithful, Height, IInv, Chain
  <2> QED
    BY <1>1, <2>4 DEF VersionOf, IInv, Chain
<1>2. IInv /\ [Next]_vars => [\A id \in TxIds : Overtaken(id)]_vars
  BY <1>1
<1> QED
  BY <1>2, Invariance, PTL DEF Spec, ConflictMeansProgress

-----------------------------------------------------------------------------
(* Committing a transaction whose reads are current is executing its call  *)
(* on the committed state; no other step changes that state.               *)
LEMMA CommitExecutes ==
  ASSUME IInv, NEW id \in TxIds, Commit(id)
  PROVE  Serial!Next
<1> DEFINE t == txs[id]
           tx == txs[id].tx
<1>1. t.status = "endorsed" /\ Current(t) /\ tx \in LogEntry
  BY DEF Commit, IInv, Shape
<1>2. t.reads[AuditIndex] = VersionOf(AuditIndex)
  BY <1>1 DEF IInv, Faithful, Current
<1>3. /\ Accepts(world, tx)
      /\ t.puts = Effect(world, tx).puts /\ t.dels = Effect(world, tx).dels
      /\ t.answer = Effect(world, tx).answer
  BY <1>1, <1>2 DEF IInv, Faithful
<1>4. Apply(world, t) = Apply(world, Effect(world, tx))
  BY <1>3 DEF Apply
<1>5. Serial!Execute(tx)
  BY <1>3, <1>4 DEF Serial!Execute, Commit
<1>6. tx = [id |-> tx.id, call |-> tx.call, ts |-> tx.ts]
  BY <1>1 DEF LogEntry
<1> QED
  BY <1>1, <1>5, <1>6 DEF Serial!Next, LogEntry

(* The ledger implements the serial contract.                              *)
THEOREM LedgerIsSerial == Spec => Serializable
<1>1. Init => Serial!Init
  BY DEF Init, Serial!Init
<1>2. IInv /\ [Next]_vars => [Serial!Next]_(Serial!vars)
  <2> SUFFICES ASSUME IInv, [Next]_vars PROVE Serial!Next \/ UNCHANGED Serial!vars
    OBVIOUS
  <2>1. CASE \E id \in TxIds : Commit(id)
    BY <2>1, CommitExecutes
  <2>2. CASE ~\E id \in TxIds : Commit(id)
    BY <2>2
    DEF Next, vars, ledger, Serial!vars, Resolve, AssignRole, RevokeRole, RenewRole,
        IssueCrossZoneToken, RevokeCrossZoneToken, CheckAccess, WriteSensorData,
        PruneNonces, Endorse, Reject, Invalidate, Abandon, Propose, Tick
  <2> QED
    BY <2>1, <2>2
<1> QED
  BY <1>1, <1>2, Invariance, PTL DEF Spec, Serializable, Serial!Spec

-----------------------------------------------------------------------------
(* What writeAuditEntry leaves of one call: its entry, its line in the     *)
(* index, and nothing of another transaction's.                            *)
Audits(w, tx, puts, answer) ==
  /\ {AuditIndex, AuditKey(tx.id)} \subseteq DOMAIN puts
  /\ puts[AuditIndex] = Append(getStringIndex(w, AuditIndex), AuditKey(tx.id))
  /\ puts[AuditKey(tx.id)] = EntryFor(tx, answer)
  /\ \A id : AuditKey(id) \in DOMAIN puts => id = tx.id

NoAuditKey(keys) == AuditIndex \notin keys /\ \A id : AuditKey(id) \notin keys

(* Keys of different kinds never collide.                                  *)
LEMMA KeysApart ==
  /\ \A id : AuditKey(id) # AuditIndex
  /\ \A a, b : AuditKey(a) = AuditKey(b) => a = b
  /\ \A s : NoAuditKey({RoleKey(s)}) /\ NoAuditKey({CztKey(s)})
  /\ \A s, n : NoAuditKey({NonceKey(s, n)}) /\ NoAuditKey({SensorKey(s, n)})
  /\ NoAuditKey({NonceIndex}) /\ NoAuditKey({})
BY DEF NoAuditKey, AuditKey, AuditIndex, RoleKey, CztKey, NonceKey, SensorKey, NonceIndex

(* The writes of writeAuditEntry, alone or with others of another kind.    *)
LEMMA AuditPutsAudits ==
  ASSUME NEW w, NEW tx, NEW action, NEW decision, NEW answer,
         action = (IF tx.call.fn \in AdminFunctions THEN tx.call.fn ELSE "CheckAccess"),
         decision = (IF answer \in {"OK", "GRANT"} THEN "GRANT" ELSE "DENY")
  PROVE  /\ Audits(w, tx, AuditPuts(w, tx, action, decision), answer)
         /\ \A g : NoAuditKey(DOMAIN g) =>
                    Audits(w, tx, AuditPuts(w, tx, action, decision) ++ g, answer)
<1> DEFINE p == AuditPuts(w, tx, action, decision)
<1>1. DOMAIN p = {AuditKey(tx.id), AuditIndex}
  BY DEF AuditPuts, Put, ++
<1>2. /\ p[AuditIndex] = Append(getStringIndex(w, AuditIndex), AuditKey(tx.id))
      /\ p[AuditKey(tx.id)] = EntryFor(tx, answer)
  BY KeysApart DEF AuditPuts, Put, ++, EntryFor, Caller
<1>3. Audits(w, tx, p, answer)
  BY <1>1, <1>2, KeysApart DEF Audits
<1>4. ASSUME NEW g, NoAuditKey(DOMAIN g) PROVE Audits(w, tx, p ++ g, answer)
  <2>1. DOMAIN (p ++ g) = DOMAIN p \cup DOMAIN g /\ \A k \in DOMAIN p : (p ++ g)[k] = p[k]
    BY DEF ++
  <2> QED
    BY <2>1, <1>1, <1>2, <1>4, KeysApart DEF Audits, NoAuditKey
<1> QED
  BY <1>3, <1>4

(* Each contract function that succeeds logs itself and only itself.       *)
LEMMA AuditEffect ==
  ASSUME NEW w, NEW tx, tx.call.fn \in Functions, Accepts(w, tx)
  PROVE  /\ Audits(w, tx, Effect(w, tx).puts, Effect(w, tx).answer)
         /\ NoAuditKey(Effect(w, tx).dels)
         /\ Effect(w, tx).answer \in Answers
<1>1. NoAuditKey(DOMAIN NoncePuts(w, tx)) /\ NoAuditKey(DOMAIN <<>>)
  BY KeysApart DEF NoncePuts, OwnNonce, Put, ++, NoAuditKey
<1>2. /\ \A s, v : NoAuditKey(DOMAIN Put(RoleKey(s), v)) /\ NoAuditKey(DOMAIN Put(CztKey(s), v))
      /\ \A d, t, v : NoAuditKey(DOMAIN Put(SensorKey(d, t), v))
      /\ \A v : NoAuditKey(DOMAIN Put(NonceIndex, v))
  BY KeysApart DEF Put
<1>3. \A f, g : NoAuditKey(DOMAIN f) /\ NoAuditKey(DOMAIN g) => NoAuditKey(DOMAIN (f ++ g))
  BY DEF NoAuditKey, ++
<1>4. ASSUME tx.call.fn \in AdminFunctions,
             NEW reads, NEW puts, NEW dels, NoAuditKey(DOMAIN puts), NoAuditKey(dels),
             Effect(w, tx) = AdminEffect(w, tx, reads, puts, dels, "OK")
      PROVE  /\ Audits(w, tx, Effect(w, tx).puts, Effect(w, tx).answer)
             /\ NoAuditKey(Effect(w, tx).dels)
             /\ Effect(w, tx).answer \in Answers
  <2>1. NoAuditKey(DOMAIN (puts ++ NoncePuts(w, tx)))
    BY <1>1, <1>3, <1>4
  <2>2. Audits(w, tx, AuditPuts(w, tx, tx.call.fn, "GRANT") ++ (puts ++ NoncePuts(w, tx)), "OK")
    BY <1>4, <2>1, AuditPutsAudits
  <2>3. /\ Effect(w, tx).puts = AuditPuts(w, tx, tx.call.fn, "GRANT") ++ (puts ++ NoncePuts(w, tx))
        /\ Effect(w, tx).answer = "OK" /\ Effect(w, tx).dels = dels
    BY <1>4 DEF AdminEffect
  <2> QED
    BY <1>4, <2>2, <2>3 DEF Answers
<1>5. CASE tx.call.fn = "AssignRole"
  <2>1. Effect(w, tx) = AssignRoleEffect(w, tx) /\ tx.call.fn \in AdminFunctions
    BY <1>5 DEF Effect, AdminFunctions, Functions
  <2>2. NoAuditKey({})
    BY KeysApart
  <2> QED
    BY <2>1, <2>2, <1>2, <1>4 DEF AssignRoleEffect
<1>6. CASE tx.call.fn = "RevokeRole"
  <2>1. Effect(w, tx) = RevokeRoleEffect(w, tx) /\ tx.call.fn \in AdminFunctions
    BY <1>6 DEF Effect, AdminFunctions, Functions
  <2>2. NoAuditKey({RoleKey(tx.call.subject)})
    BY KeysApart
  <2> QED
    BY <2>1, <2>2, <1>1, <1>4 DEF RevokeRoleEffect
<1>7. CASE tx.call.fn = "RenewRole"
  <2>1. Effect(w, tx) = RenewRoleEffect(w, tx) /\ tx.call.fn \in AdminFunctions
    BY <1>7 DEF Effect, AdminFunctions, Functions
  <2>2. NoAuditKey({})
    BY KeysApart
  <2> QED
    BY <2>1, <2>2, <1>2, <1>4 DEF RenewRoleEffect
<1>8. CASE tx.call.fn = "IssueCrossZoneToken"
  <2>1. Effect(w, tx) = IssueCrossZoneTokenEffect(w, tx) /\ tx.call.fn \in AdminFunctions
    BY <1>8 DEF Effect, AdminFunctions, Functions
  <2>2. NoAuditKey({})
    BY KeysApart
  <2> QED
    BY <2>1, <2>2, <1>2, <1>4 DEF IssueCrossZoneTokenEffect
<1>9. CASE tx.call.fn = "RevokeCrossZoneToken"
  <2>1. Effect(w, tx) = RevokeCrossZoneTokenEffect(w, tx) /\ tx.call.fn \in AdminFunctions
    BY <1>9 DEF Effect, AdminFunctions, Functions
  <2>2. NoAuditKey({CztKey(tx.call.token)})
    BY KeysApart
  <2> QED
    BY <2>1, <2>2, <1>1, <1>4 DEF RevokeCrossZoneTokenEffect
<1>10. CASE tx.call.fn = "PruneNonces"
  <2>1. Effect(w, tx) = PruneNoncesEffect(w, tx) /\ tx.call.fn \in AdminFunctions
    BY <1>10 DEF Effect, AdminFunctions, Functions
  <2>2. NoAuditKey(PrunedKeys(w, tx))
    BY KeysApart DEF NoAuditKey, PrunedKeys, Prunable, AuditKey, AuditIndex
  <2> QED
    BY <2>1, <2>2, <1>2, <1>4 DEF PruneNoncesEffect
<1>11. CASE tx.call.fn = "CheckAccess"
  <2> DEFINE q == Request(tx)
             d == AccessDecision(w, tx, q)
  <2>1. d # "OK" /\ d \in Answers
    BY DEF AccessDecision, validCrossZoneToken, Answers
  <2>2. Audits(w, tx, AccessPuts(w, tx, q), d)
    BY <1>11, <2>1, AuditPutsAudits DEF AccessPuts, AdminFunctions
  <2>3. NoAuditKey(AutoRevoked(w, tx, q))
    BY KeysApart DEF AutoRevoked
  <2> QED
    BY <1>11, <2>1, <2>2, <2>3 DEF Effect, CheckAccessEffect
<1>12. CASE tx.call.fn = "WriteSensorData"
  <2> DEFINE q == WriteRequest(tx)
             g == Put(SensorKey(tx.call.device, tx.ts), tx.call.nonce) ++ NoncePuts(w, tx)
  <2>1. AccessDecision(w, tx, q) = "GRANT"
    BY <1>12 DEF Accepts, WriteSensorDataAccepts
  <2>2. NoAuditKey(DOMAIN g)
    BY <1>1, <1>2, <1>3, KeysApart
  <2>3. Audits(w, tx, AccessPuts(w, tx, q) ++ g, "GRANT")
    BY <1>12, <2>1, <2>2, AuditPutsAudits DEF AccessPuts, AdminFunctions
  <2> QED
    BY <1>12, <2>3, KeysApart DEF Effect, WriteSensorDataEffect, Answers
<1> QED
  BY <1>5, <1>6, <1>7, <1>8, <1>9, <1>10, <1>11, <1>12 DEF Functions

(* The trail is exact, and only committed transactions have an entry.      *)
AuditInv ==
  /\ AuditTrailExact
  /\ answers \in Seq(Answers) /\ Len(answers) = Len(log)
  /\ \A i \in DOMAIN log : /\ AuditKey(log[i].id) \in DOMAIN world
                           /\ txs[log[i].id].status = "committed"
  /\ \A id \in TxIds : AuditKey(id) \in DOMAIN world => txs[id].status = "committed"

(* The empty trail is exact for the empty chain.                           *)
LEMMA InitAudit == Init => AuditInv
<1> SUFFICES ASSUME Init PROVE AuditInv
  OBVIOUS
<1>1. \A key \in DOMAIN world : key # AuditIndex /\ \A id : key # AuditKey(id)
  BY DEF Init, InitialWorld, CrlKey, AuditIndex, AuditKey
<1> QED
  BY <1>1 DEF Init, AuditInv, AuditTrailExact, getStringIndex

(* A step that commits nothing and un-commits no transaction.              *)
LEMMA AuditLocal ==
  ASSUME IInv, AuditInv, UNCHANGED ledger,
         \A id \in TxIds : txs[id].status = "committed" => txs'[id].status = "committed"
  PROVE  AuditInv'
<1>1. \A i \in DOMAIN log : log[i] \in LogEntry
  BY DEF IInv, Chain
<1>2. \A i \in DOMAIN log : log[i].id \in TxIds
  BY <1>1 DEF LogEntry
<1> QED
  BY <1>2 DEF AuditInv, AuditTrailExact, ledger, getStringIndex

(* Append, as the function of positions it returns.                        *)
LEMMA AppendIsFunction ==
  ASSUME NEW S, NEW seq \in Seq(S), NEW x \in S
  PROVE  Append(seq, x) =
           [i \in 1 .. Len(seq) + 1 |-> IF i = Len(seq) + 1 THEN x ELSE seq[i]]
<1> DEFINE n == Len(seq)
           a == Append(seq, x)
<1>1. /\ a \in Seq(S) /\ Len(a) = n + 1 /\ n \in Nat
      /\ a[n + 1] = x /\ \A i \in 1 .. n : a[i] = seq[i]
  BY AppendProperties
<1>2. a = [i \in 1 .. n + 1 |-> a[i]]
  BY <1>1, LenProperties
<1>3. \A i \in 1 .. n + 1 : a[i] = (IF i = n + 1 THEN x ELSE seq[i])
  BY <1>1
<1> HIDE DEF a, n
<1>4. a = [i \in 1 .. n + 1 |-> IF i = n + 1 THEN x ELSE seq[i]]
  BY <1>2, <1>3
<1> QED
  BY <1>4 DEF a, n

(* A commit appends the transaction's own entry.                           *)
LEMMA AuditCommit ==
  ASSUME IInv, AuditInv, NEW id \in TxIds, Commit(id)
  PROVE  AuditInv'
<1> DEFINE t == txs[id]
           tx == txs[id].tx
           e == Effect(world, tx)
           n == Len(log)
<1>1. t.status = "endorsed" /\ tx \in LogEntry /\ tx.id = id
  BY DEF Commit, IInv, Shape
<1>2. Accepts(world, tx) /\ t.puts = e.puts /\ t.dels = e.dels /\ t.answer = e.answer
  <2>1. t.reads[AuditIndex] = VersionOf(AuditIndex)
    BY <1>1 DEF Commit, IInv, Faithful, Current
  <2> QED
    BY <1>1, <2>1 DEF IInv, Faithful
<1>3. tx.call.fn \in Functions
  BY <1>1, LedgerAssumption DEF LogEntry
<1>4. Audits(world, tx, t.puts, t.answer) /\ NoAuditKey(t.dels)
  BY <1>2, <1>3, AuditEffect
<1>5. world' = Apply(world, t)
  BY DEF Commit
<1>6. /\ log \in Seq(LogEntry) /\ log' = Append(log, tx) /\ n \in Nat
      /\ answers' = Append(answers, t.answer) /\ answers \in Seq(Answers) /\ Len(answers) = n
  BY <1>1 DEF Commit, IInv, Chain, AuditInv
<1>7. /\ DOMAIN log = 1 .. n /\ DOMAIN log' = 1 .. n + 1
      /\ log'[n + 1] = tx /\ answers'[n + 1] = t.answer
      /\ \A i \in 1 .. n : log'[i] = log[i] /\ answers'[i] = answers[i] /\ log[i] \in LogEntry
  BY <1>1, <1>6
<1>8. \A k \in TxIds \ {id} :
        /\ AuditKey(k) \in DOMAIN world' <=> AuditKey(k) \in DOMAIN world
        /\ AuditKey(k) \in DOMAIN world => world'[AuditKey(k)] = world[AuditKey(k)]
        /\ txs'[k] = txs[k]
  <2>1. \A k \in TxIds \ {id} : AuditKey(k) \notin DOMAIN t.puts /\ AuditKey(k) \notin t.dels
    BY <1>1, <1>4 DEF Audits, NoAuditKey
  <2>2. \A k \in TxIds \ {id} : txs'[k] = txs[k]
    BY DEF Commit, Close, IInv, Chain
  <2> QED
    BY <2>1, <2>2, <1>5 DEF Apply
<1>9. /\ AuditKey(id) \in DOMAIN world' /\ world'[AuditKey(id)] = EntryFor(tx, t.answer)
      /\ AuditIndex \in DOMAIN world'
      /\ world'[AuditIndex] = Append(getStringIndex(world, AuditIndex), AuditKey(id))
      /\ txs'[id].status = "committed"
  BY <1>1, <1>4, <1>5 DEF Apply, Audits, Commit, Close, Closed, IInv, Chain
<1>10. \A i \in 1 .. n : log[i].id \in TxIds \ {id}
  BY <1>1, <1>7 DEF AuditInv, LogEntry
<1>11. getStringIndex(world, AuditIndex)' = [i \in DOMAIN log' |-> AuditKey(log'[i].id)]
  <2> DEFINE old == [i \in 1 .. n |-> AuditKey(log[i].id)]
  <2>1. getStringIndex(world, AuditIndex) = old
    BY <1>7 DEF AuditInv, AuditTrailExact
  <2>2. getStringIndex(world, AuditIndex)' = Append(old, AuditKey(id))
    BY <2>1, <1>9 DEF getStringIndex
  <2>3. old \in Seq({AuditKey(k) : k \in TxIds}) /\ Len(old) = n
    BY <1>6, <1>10
  <2>4. Append(old, AuditKey(id)) = [i \in 1 .. n + 1 |-> IF i = n + 1 THEN AuditKey(id) ELSE old[i]]
    BY <2>3, <1>6, AppendIsFunction
  <2>5. \A i \in 1 .. n + 1 :
          (IF i = n + 1 THEN AuditKey(id) ELSE old[i]) = AuditKey(log'[i].id)
    BY <1>1, <1>6, <1>7
  <2> QED
    BY <2>2, <2>4, <2>5, <1>7, ZenonT(60)
<1>12. \A i \in DOMAIN log' : world'[AuditKey(log'[i].id)] = EntryFor(log'[i], answers'[i])
  <2>1. \A i \in 1 .. n : world'[AuditKey(log[i].id)] = EntryFor(log[i], answers[i])
    BY <1>7, <1>8, <1>10 DEF AuditInv, AuditTrailExact
  <2> QED
    BY <2>1, <1>1, <1>6, <1>7, <1>9
<1>13. \A i \in DOMAIN log' : /\ AuditKey(log'[i].id) \in DOMAIN world'
                              /\ txs'[log'[i].id].status = "committed"
  <2>1. \A i \in 1 .. n : /\ AuditKey(log[i].id) \in DOMAIN world'
                          /\ txs'[log[i].id].status = "committed"
    BY <1>7, <1>8, <1>10 DEF AuditInv
  <2> QED
    BY <2>1, <1>1, <1>6, <1>7, <1>9
<1>14. t.answer \in Answers
  BY <1>2, <1>3, AuditEffect
<1>15. AuditTrailExact'
  BY <1>11, <1>12 DEF AuditTrailExact
<1>16. answers' \in Seq(Answers) /\ Len(answers') = Len(log')
  BY <1>6, <1>14
<1>17. \A k \in TxIds : AuditKey(k) \in DOMAIN world' => txs'[k].status = "committed"
  BY <1>8, <1>9 DEF AuditInv
<1> QED
  BY <1>13, <1>15, <1>16, <1>17 DEF AuditInv

(* Every step of the system keeps the audit trail.                         *)
LEMMA NextAudit == IInv /\ AuditInv /\ [Next]_vars => AuditInv'
<1> SUFFICES ASSUME IInv, AuditInv, [Next]_vars PROVE AuditInv'
  OBVIOUS
<1>1. CASE \E id \in TxIds : Commit(id)
  BY <1>1, AuditCommit
<1>2. ASSUME NEW id \in TxIds, NEW t, txs[id].status # "committed",
             txs' = [txs EXCEPT ![id] = t], UNCHANGED ledger
      PROVE  AuditInv'
  <2>1. \A i \in TxIds \ {id} : txs'[i] = txs[i]
    BY <1>2 DEF IInv, Chain
  <2> QED
    BY <1>2, <2>1, AuditLocal
<1>3. ASSUME NEW id \in TxIds,
             \/ \E fn : Endorse(id, fn)
             \/ Reject(id) \/ Invalidate(id) \/ Abandon(id)
             \/ \E call \in Calls : Propose(id, call)
      PROVE  AuditInv'
  <2>1. txs[id].status # "committed"
    BY <1>3 DEF Endorse, Reject, Invalidate, Abandon, Propose, Unused
  <2>2. UNCHANGED ledger /\ \E t : txs' = [txs EXCEPT ![id] = t]
    BY <1>3 DEF Endorse, Reject, Invalidate, Abandon, Propose, Close
  <2> QED
    BY <2>1, <2>2, <1>2
<1>4. CASE Tick \/ UNCHANGED vars
  BY <1>4, AuditLocal DEF Tick, vars
<1> QED
  BY <1>1, <1>3, <1>4
  DEF Next, Resolve, AssignRole, RevokeRole, RenewRole, IssueCrossZoneToken,
      RevokeCrossZoneToken, CheckAccess, WriteSensorData, PruneNonces

(* The audit trail lists every committed transaction once, in commit       *)
(* order, with its actor, time, action and decision (writeAuditEntry).     *)
THEOREM AuditTrail == Spec => []AuditTrailExact
<1>1. AuditInv => AuditTrailExact
  BY DEF AuditInv
<1> QED
  BY <1>1, InitAudit, NextAudit, InitIInv, NextIInv, PTL DEF Spec

-----------------------------------------------------------------------------
(* A set of naturals that is not empty has a smallest member.              *)
LEMMA SmallestMember ==
  ASSUME NEW T, T \subseteq Nat, T # {}
  PROVE  \E n \in T : \A m \in T : n <= m
<1>1. PICK n \in T : \A m \in T : ~(<<m, n>> \in OpToRel(<, Nat))
  BY NatLessThanWellFounded, WFMin
<1>2. \A m \in T : ~(m < n)
  BY <1>1 DEF OpToRel
<1> QED
  BY <1>2

(* g is what the loop of Sifted has kept after each of the first n         *)
(* entries.                                                                *)
Loop(seq, keep, g, n) ==
  g = [i \in 0 .. n |-> IF i = 0 THEN <<>>
                        ELSE IF seq[i] \in keep THEN Append(g[i - 1], seq[i])
                        ELSE g[i - 1]]

(* The loop runs through.                                                  *)
LEMMA LoopExists ==
  ASSUME NEW seq, NEW keep, NEW n \in Nat
  PROVE  \E g : Loop(seq, keep, g, n)
<1> DEFINE T == {m \in Nat : ~\E g : Loop(seq, keep, g, m)}
<1>1. ASSUME T # {} PROVE FALSE
  <2>1. PICK m \in T : \A k \in T : m <= k
    BY <1>1, SmallestMember
  <2>2. CASE m = 0
    <3> DEFINE g == [i \in 0 .. 0 |-> <<>>]
    <3>1. Loop(seq, keep, g, 0)
      BY DEF Loop
    <3> QED
      BY <2>1, <2>2, <3>1
  <2>3. CASE m # 0
    <3>1. m \in Nat /\ m - 1 \in Nat /\ m - 1 \notin T
      BY <2>1, <2>3
    <3>2. PICK g : Loop(seq, keep, g, m - 1)
      BY <3>1
    <3> DEFINE last == IF seq[m] \in keep THEN Append(g[m - 1], seq[m]) ELSE g[m - 1]
               h == [i \in 0 .. m |-> IF i = m THEN last ELSE g[i]]
    <3>3. \A i \in 0 .. m - 1 : h[i] = g[i]
      BY <3>1
    <3>4. ASSUME NEW i \in 0 .. m
          PROVE  h[i] = IF i = 0 THEN <<>>
                        ELSE IF seq[i] \in keep THEN Append(h[i - 1], seq[i])
                        ELSE h[i - 1]
      <4>1. CASE i = m
        <5>1. i # 0 /\ i - 1 \in 0 .. m - 1
          BY <2>3, <3>1, <4>1
        <5>2. h[i - 1] = g[m - 1] /\ h[i] = last
          BY <3>3, <4>1, <5>1
        <5> HIDE DEF h
        <5> QED
          BY <4>1, <5>1, <5>2
      <4>2. CASE i # m
        <5>1. i \in 0 .. m - 1 /\ (i # 0 => i - 1 \in 0 .. m - 1)
          BY <3>1, <4>2
        <5>2. h[i] = g[i] /\ (i # 0 => h[i - 1] = g[i - 1])
          BY <3>3, <5>1
        <5>3. g[i] = IF i = 0 THEN <<>>
                     ELSE IF seq[i] \in keep THEN Append(g[i - 1], seq[i])
                     ELSE g[i - 1]
          BY <3>2, <5>1 DEF Loop
        <5> HIDE DEF h
        <5> QED
          BY <5>2, <5>3
      <4> QED
        BY <4>1, <4>2
    <3>5. DOMAIN h = 0 .. m /\ h = [i \in 0 .. m |-> h[i]]
      OBVIOUS
    <3> HIDE DEF h
    <3>6. Loop(seq, keep, h, m)
      BY <3>4, <3>5 DEF Loop
    <3> QED
      BY <2>1, <3>6
  <2> QED
    BY <2>2, <2>3
<1> QED
  BY <1>1

(* Sifted is the result of the loop.                                       *)
LEMMA SiftedLoop ==
  ASSUME NEW seq, NEW keep, Len(seq) \in Nat
  PROVE  \E g : Loop(seq, keep, g, Len(seq)) /\ Sifted(seq, keep) = g[Len(seq)]
<1> DEFINE g == CHOOSE h : Loop(seq, keep, h, Len(seq))
<1>1. Loop(seq, keep, g, Len(seq))
  BY LoopExists
<1>2. Sifted(seq, keep) = g[Len(seq)]
  BY Zenon DEF Sifted, Loop
<1> QED
  BY <1>1, <1>2

Distinct(seq) == \A i, j \in 1 .. Len(seq) : seq[i] = seq[j] => i = j
Entries(seq) == {seq[i] : i \in 1 .. Len(seq)}

(* Sifting a list keeps the entries that are in keep, without repeating    *)
(* one, and a list that is all kept stays as it is.                        *)
LEMMA SiftedFacts ==
  ASSUME NEW S, NEW seq \in Seq(S), NEW keep
  PROVE  /\ Sifted(seq, keep) \in Seq(S)
         /\ Entries(Sifted(seq, keep)) = Entries(seq) \cap keep
         /\ Distinct(seq) => Distinct(Sifted(seq, keep))
         /\ Entries(seq) \subseteq keep => Sifted(seq, keep) = seq
<1> DEFINE n == Len(seq)
<1>0. n \in Nat /\ \A i \in 1 .. n : seq[i] \in S
  OBVIOUS
<1>1. PICK g : Loop(seq, keep, g, n) /\ Sifted(seq, keep) = g[n]
  BY <1>0, SiftedLoop
<1>2. g[0] = <<>>
  BY <1>0, <1>1 DEF Loop
<1>3. \A i \in 1 .. n : g[i] = IF seq[i] \in keep THEN Append(g[i - 1], seq[i]) ELSE g[i - 1]
  <2>1. \A i \in 1 .. n : i \in 0 .. n /\ i # 0
    BY <1>0
  <2> QED
    BY <1>1, <2>1 DEF Loop
<1> DEFINE Good(i) ==
             /\ g[i] \in Seq(S)
             /\ Entries(g[i]) = {seq[j] : j \in 1 .. i} \cap keep
             /\ Distinct(seq) => Distinct(g[i])
             /\ Entries(seq) \subseteq keep => Len(g[i]) = i /\ \A j \in 1 .. i : g[i][j] = seq[j]
           T == {i \in 0 .. n : ~Good(i)}
<1>4. Good(0)
  BY <1>2 DEF Entries, Distinct
<1>5. ASSUME NEW i \in 1 .. n, Good(i - 1) PROVE Good(i)
  <2>0. i \in Nat /\ i - 1 \in Nat /\ seq[i] \in S /\ \A j \in 1 .. i : j \in 1 .. i - 1 \/ j = i
    BY <1>0
  <2>1. PICK h \in Seq(S) : h = g[i - 1]
    BY <1>5
  <2>2. /\ Entries(h) = {seq[j] : j \in 1 .. i - 1} \cap keep
        /\ Distinct(seq) => Distinct(h)
        /\ Entries(seq) \subseteq keep => Len(h) = i - 1 /\ \A j \in 1 .. i - 1 : h[j] = seq[j]
    BY <1>5, <2>1
  <2>3. {seq[j] : j \in 1 .. i} = {seq[j] : j \in 1 .. i - 1} \cup {seq[i]}
    BY <2>0
  <2>4. CASE seq[i] \notin keep
    <3>1. g[i] = h
      BY <1>3, <2>1, <2>4
    <3>2. Entries(h) = {seq[j] : j \in 1 .. i} \cap keep
      BY <2>2, <2>3, <2>4
    <3>3. ~(Entries(seq) \subseteq keep)
      BY <2>4 DEF Entries
    <3> QED
      BY <2>1, <2>2, <3>1, <3>2, <3>3
  <2>5. CASE seq[i] \in keep
    <3> DEFINE k == Len(h)
    <3>1. g[i] = Append(h, seq[i])
      BY <1>3, <2>1, <2>5
    <3>2. /\ Append(h, seq[i]) \in Seq(S) /\ k \in Nat /\ Len(Append(h, seq[i])) = k + 1
          /\ Append(h, seq[i])[k + 1] = seq[i]
          /\ \A j \in 1 .. k : Append(h, seq[i])[j] = h[j]
          /\ \A j \in 1 .. k + 1 : j \in 1 .. k \/ j = k + 1
      BY <2>0, <2>1
    <3>3. PICK a : a = Append(h, seq[i])
      OBVIOUS
    <3>4. Entries(a) = Entries(h) \cup {seq[i]}
      BY <3>2, <3>3 DEF Entries
    <3>5. Entries(a) = {seq[j] : j \in 1 .. i} \cap keep
      BY <2>2, <2>3, <2>5, <3>4
    <3>6. ASSUME Distinct(seq) PROVE Distinct(a)
      <4>1. seq[i] \notin {seq[j] : j \in 1 .. i - 1}
        BY <2>0, <3>6 DEF Distinct
      <4>2. \A j \in 1 .. k : h[j] # seq[i]
        BY <2>2, <4>1 DEF Entries
      <4> QED
        BY <2>2, <3>2, <3>3, <3>6, <4>2 DEF Distinct
    <3>7. ASSUME Entries(seq) \subseteq keep
          PROVE  Len(a) = i /\ \A j \in 1 .. i : a[j] = seq[j]
      <4>1. k = i - 1 /\ \A j \in 1 .. i - 1 : h[j] = seq[j]
        BY <2>2, <3>7
      <4> QED
        BY <2>0, <3>2, <3>3, <4>1
    <3> QED
      BY <3>1, <3>2, <3>3, <3>5, <3>6, <3>7
  <2> QED
    BY <2>4, <2>5
<1> HIDE DEF Good
<1>6. ASSUME T # {} PROVE FALSE
  <2>1. PICK m \in T : \A k \in T : m <= k
    <3>1. T \subseteq Nat
      OBVIOUS
    <3> QED
      BY <1>6, <3>1, SmallestMember
  <2>2. m \in 1 .. n
    BY <1>0, <1>4, <2>1
  <2>3. m - 1 \in 0 .. n /\ m - 1 \notin T
    BY <1>0, <2>1, <2>2
  <2> QED
    BY <1>5, <2>1, <2>2, <2>3
<1>7. Good(n)
  BY <1>0, <1>6
<1>8. Entries(seq) \subseteq keep => g[n] = seq
  <2> SUFFICES ASSUME Entries(seq) \subseteq keep PROVE g[n] = seq
    OBVIOUS
  <2>1. g[n] \in Seq(S) /\ Len(g[n]) = Len(seq) /\ \A j \in 1 .. Len(seq) : g[n][j] = seq[j]
    BY <1>7 DEF Good
  <2> QED
    BY <2>1
<1> QED
  BY <1>1, <1>7, <1>8 DEF Good, Entries

(* Whose certificates let them read the audit log.                         *)
LEMMA AuditReaders ==
  ASSUME NEW s \in Subjects
  PROVE  MayReadAudit(s) <=> CertRole[s] \in {"Admin", "Certifier", "Agronomist", "Farmer"}
<1>1. PICK r \in Roles \cup {""} : CertRole[s] = r
  BY ConstantsAssumption
<1>2. CASE r = ""
  BY <1>1, <1>2 DEF MayReadAudit, hasPermission, GetEffectivePermissions, Roles
<1>3. CASE r = "Admin"
  BY <1>1, <1>3 DEF MayReadAudit
<1>4. CASE r \in {"Certifier", "Agronomist", "Farmer"}
  <2>1. "Certifier" \in Roles /\ r \in Roles /\ "Certifier" \in roleAncestors[r]
    <3>1. /\ "Certifier" \in roleAncestors["Certifier"] /\ "Certifier" \in roleAncestors["Agronomist"]
          /\ "Certifier" \in roleAncestors["Farmer"]
      BY DEF roleAncestors
    <3>2. "Certifier" \in Roles /\ r \in Roles
      BY <1>4 DEF Roles
    <3> QED
      BY <1>4, <3>1, <3>2, Zenon
  <2>2. "ReadAudit" \in rolePermissions["Certifier"]
    BY DEF rolePermissions
  <2>3. "ReadAudit" \in GetEffectivePermissions(r)
    BY <2>1, <2>2, Zenon DEF GetEffectivePermissions
  <2> QED
    BY <1>1, <1>4, <2>3 DEF MayReadAudit, hasPermission
<1>5. CASE r \in {"SupplyChain", "Sensor", "Gateway"}
  <2>1. \A a \in Roles : a \in roleAncestors[r] => a \in {"SupplyChain", "Sensor", "Gateway"}
    <3>1. /\ roleAncestors["SupplyChain"] = {"SupplyChain"} /\ roleAncestors["Sensor"] = {"Sensor"}
          /\ roleAncestors["Gateway"] = {"Gateway", "Sensor"}
      BY DEF roleAncestors
    <3> QED
      BY <1>5, <3>1, Zenon
  <2>2. \A a \in {"SupplyChain", "Sensor", "Gateway"} :
          "ReadAudit" \notin rolePermissions[a] /\ "AdminAll" \notin rolePermissions[a]
    <3>1. /\ "ReadAudit" \notin rolePermissions["SupplyChain"]
          /\ "AdminAll" \notin rolePermissions["SupplyChain"]
          /\ "ReadAudit" \notin rolePermissions["Sensor"]
          /\ "AdminAll" \notin rolePermissions["Sensor"]
          /\ "ReadAudit" \notin rolePermissions["Gateway"]
          /\ "AdminAll" \notin rolePermissions["Gateway"]
      BY DEF rolePermissions
    <3> QED
      BY <3>1, Zenon
  <2>3. "ReadAudit" \notin GetEffectivePermissions(r) /\ "AdminAll" \notin GetEffectivePermissions(r)
    BY <2>1, <2>2, Zenon DEF GetEffectivePermissions
  <2> QED
    BY <1>1, <1>5, <2>3 DEF MayReadAudit, hasPermission
<1> QED
  BY <1>1, <1>2, <1>3, <1>4, <1>5 DEF Roles

(* GetAuditLog returns the newest entries, up to the window, in order: the *)
(* index names every committed transaction and none of the entries it      *)
(* names is ever missing.                                                  *)
THEOREM WindowIsNewest == Spec => []AuditWindowNewest
<1>1. ASSUME IInv, AuditInv PROVE AuditWindowNewest
  <2> DEFINE n == Len(log)
             shown == IF n < AuditWindow THEN n ELSE AuditWindow
             keys == getStringIndex(world, AuditIndex)
             first == IF Len(keys) > AuditWindow THEN Len(keys) - AuditWindow + 1 ELSE 1
             tail == SubSeq(keys, first, Len(keys))
             S == {AuditKey(id) : id \in TxIds}
  <2>0. log \in Seq(LogEntry)
    BY <1>1 DEF IInv, Chain
  <2>1. n \in Nat /\ DOMAIN log = 1 .. n /\ AuditWindow \in Nat \ {0}
    <3>1. AuditWindow \in Nat \ {0}
      BY ConstantsAssumption
    <3> QED
      BY <2>0, <3>1
  <2>2. keys = [i \in 1 .. n |-> AuditKey(log[i].id)]
    BY <1>1, <2>1 DEF AuditInv, AuditTrailExact
  <2>3. \A i \in 1 .. n : AuditKey(log[i].id) \in S /\ AuditKey(log[i].id) \in DOMAIN world
    <3>1. \A i \in 1 .. n : log[i] \in LogEntry
      BY <2>0
    <3>2. \A i \in 1 .. n : log[i].id \in TxIds
      BY <3>1 DEF LogEntry
    <3> QED
      BY <1>1, <2>1, <3>2 DEF AuditInv
  <2> HIDE DEF n, keys
  <2>4. keys \in Seq(S) /\ Len(keys) = n /\ \A i \in 1 .. n : keys[i] = AuditKey(log[i].id)
    BY <2>1, <2>2, <2>3
  <2>5. /\ tail \in Seq(S) /\ Len(tail) = shown /\ shown \in Nat
        /\ \A i \in 1 .. shown : /\ n - shown + i \in 1 .. n
                                 /\ tail[i] = keys[n - shown + i]
    <3>1. /\ first \in 1 .. n + 1 /\ n - first + 1 = shown /\ shown \in Nat
          /\ \A i \in 1 .. shown : first + i - 1 = n - shown + i /\ n - shown + i \in 1 .. n
      BY <2>1, <2>4
    <3>2. \A i \in first .. n : keys[i] \in S
      BY <2>1, <2>3, <2>4, <3>1
    <3>3. PICK f \in Int : f = first
      BY <3>1
    <3> HIDE DEF first, S
    <3>4. /\ tail \in Seq(S) /\ Len(tail) = (IF f <= n THEN n - f + 1 ELSE 0)
          /\ \A i \in 1 .. n - f + 1 : tail[i] = keys[f + i - 1]
      BY <2>1, <2>4, <3>2, <3>3, SubSeqProperties
    <3> HIDE DEF tail, shown
    <3>5. /\ f \in 1 .. n + 1 /\ n - f + 1 = shown
          /\ \A i \in 1 .. shown : f + i - 1 = n - shown + i /\ n - shown + i \in 1 .. n
      BY <3>1, <3>3
    <3>6. Len(tail) = shown
      BY <2>1, <3>4, <3>5
    <3>7. \A i \in 1 .. shown : tail[i] = keys[n - shown + i]
      BY <3>4, <3>5
    <3> QED
      BY <3>1, <3>4, <3>5, <3>6, <3>7
  <2> HIDE DEF tail, S, shown
  <2>6. Entries(tail) \subseteq DOMAIN world
    BY <2>3, <2>4, <2>5 DEF Entries
  <2>7. Sifted(tail, DOMAIN world) = tail
    BY <2>5, <2>6, SiftedFacts
  <2>8. ASSUME NEW s \in Subjects
        PROVE  GetAuditLog(world, s) =
                 IF MayReadAudit(s) THEN [i \in DOMAIN tail |-> world[tail[i]]] ELSE Nil
    BY <2>7 DEF GetAuditLog, keys, tail
  <2>9. DOMAIN tail = 1 .. shown /\ \A i \in 1 .. shown : tail[i] = AuditKey(log[n - shown + i].id)
    BY <2>4, <2>5
  <2>10. [i \in DOMAIN tail |-> world[tail[i]]]
           = [i \in 1 .. shown |-> world[AuditKey(log[n - shown + i].id)]]
    BY <2>9
  <2> QED
    BY <2>8, <2>10, AuditReaders, Zenon DEF AuditWindowNewest, shown, n
<1> QED
  BY <1>1, InitAudit, NextAudit, InitIInv, NextIInv, PTL DEF Spec

-----------------------------------------------------------------------------
(* What a call puts and deletes besides its nonce and its audit entry.     *)
OwnPuts(w, tx) ==
  CASE tx.call.fn = "AssignRole" ->
         Put(RoleKey(tx.call.subject),
             [role |-> tx.call.role, zones |-> tx.call.zones,
              issuedAt |-> Unix(tx.ts), expiresAt |-> StoredExpiry(tx)])
    [] tx.call.fn = "RenewRole" ->
         Put(RoleKey(tx.call.subject),
             [w[RoleKey(tx.call.subject)] EXCEPT !.expiresAt = StoredExpiry(tx)])
    [] tx.call.fn = "IssueCrossZoneToken" ->
         Put(CztKey(TokenId(tx)),
             [subject |-> tx.call.subject, zones |-> tx.call.zones,
              issuedAt |-> Unix(tx.ts), expiresAt |-> StoredExpiry(tx)])
    [] tx.call.fn = "WriteSensorData" ->
         Put(SensorKey(tx.call.device, tx.ts), tx.call.nonce)
    [] tx.call.fn = "PruneNonces" -> Put(NonceIndex, KeptIndex(w, tx))
    [] OTHER -> <<>>

OwnDels(w, tx) ==
  CASE tx.call.fn = "RevokeRole" -> {RoleKey(tx.call.subject)}
    [] tx.call.fn = "RevokeCrossZoneToken" -> {CztKey(tx.call.token)}
    [] tx.call.fn = "CheckAccess" -> AutoRevoked(w, tx, Request(tx))
    [] tx.call.fn = "PruneNonces" -> PrunedKeys(w, tx)
    [] OTHER -> {}

AuditKeys(tx) == {AuditKey(tx.id), AuditIndex}

(* The write set of a call, put together from these parts.                 *)
LEMMA CallWrites ==
  ASSUME NEW w, NEW tx, tx.call.fn \in Functions
  PROVE  LET e == Effect(w, tx)
             own == OwnPuts(w, tx)
             nonce == IF UsesNonce(tx.call) THEN NonceReads(tx) ELSE {}
         IN  /\ e.dels = OwnDels(w, tx)
             /\ DOMAIN e.puts = AuditKeys(tx) \cup DOMAIN own \cup nonce
             /\ \A k \in DOMAIN own \ AuditKeys(tx) : e.puts[k] = own[k]
             /\ \A k \in nonce \ (AuditKeys(tx) \cup DOMAIN own) : e.puts[k] = NoncePuts(w, tx)[k]
<1> DEFINE e == Effect(w, tx)
           own == OwnPuts(w, tx)
           nonce == IF UsesNonce(tx.call) THEN NonceReads(tx) ELSE {}
           Written(puts) ==
             /\ DOMAIN puts = AuditKeys(tx) \cup DOMAIN own \cup nonce
             /\ \A k \in DOMAIN own \ AuditKeys(tx) : puts[k] = own[k]
             /\ \A k \in nonce \ (AuditKeys(tx) \cup DOMAIN own) : puts[k] = NoncePuts(w, tx)[k]
<1>0. SUFFICES e.dels = OwnDels(w, tx) /\ Written(e.puts)
  OBVIOUS
<1>1. \A action, decision : DOMAIN AuditPuts(w, tx, action, decision) = AuditKeys(tx)
  BY DEF AuditPuts, Put, ++, AuditKeys
<1>2. DOMAIN NoncePuts(w, tx) = NonceReads(tx)
  BY DEF NoncePuts, Put, ++, NonceReads
<1> HIDE DEF own
<1>3. ASSUME NEW a, DOMAIN a = AuditKeys(tx), UsesNonce(tx.call)
      PROVE  Written(a ++ (own ++ NoncePuts(w, tx)))
  BY <1>2, <1>3 DEF ++
<1>4. DOMAIN <<>> = {}
  OBVIOUS
<1>5. CASE tx.call.fn = "CheckAccess"
  <2>1. own = <<>> /\ nonce = {}
    BY <1>5 DEF own, OwnPuts, UsesNonce
  <2>2. e.puts = AccessPuts(w, tx, Request(tx)) /\ e.dels = OwnDels(w, tx)
    BY <1>5 DEF Effect, CheckAccessEffect, OwnDels
  <2>3. DOMAIN e.puts = AuditKeys(tx)
    BY <1>1, <2>2 DEF AccessPuts
  <2> QED
    BY <1>4, <2>1, <2>2, <2>3
<1>6. CASE tx.call.fn = "WriteSensorData"
  <2>1. e.puts = AccessPuts(w, tx, WriteRequest(tx)) ++ (own ++ NoncePuts(w, tx))
    BY <1>6 DEF Effect, WriteSensorDataEffect, own, OwnPuts
  <2>2. e.dels = OwnDels(w, tx)
    BY <1>6 DEF Effect, WriteSensorDataEffect, OwnDels
  <2>3. DOMAIN AccessPuts(w, tx, WriteRequest(tx)) = AuditKeys(tx)
    BY <1>1 DEF AccessPuts
  <2> QED
    BY <1>3, <1>6, <2>1, <2>2, <2>3 DEF UsesNonce
<1>7. CASE tx.call.fn \in AdminFunctions
  <2>1. /\ e.puts = AuditPuts(w, tx, tx.call.fn, "GRANT") ++ (own ++ NoncePuts(w, tx))
        /\ e.dels = OwnDels(w, tx)
    BY <1>7 DEF AdminFunctions, Functions, Effect, own, OwnPuts, OwnDels, AdminEffect,
       AssignRoleEffect, RevokeRoleEffect, RenewRoleEffect, IssueCrossZoneTokenEffect,
       RevokeCrossZoneTokenEffect, PruneNoncesEffect
  <2> QED
    BY <1>1, <1>3, <1>7, <2>1 DEF UsesNonce, AdminFunctions
<1> QED
  BY <1>5, <1>6, <1>7 DEF AdminFunctions

(* Keys of different kinds never collide, keys of one kind only for one    *)
(* name.                                                                   *)
LEMMA KindsApart ==
  /\ \A s, tx : RoleKey(s) \notin AuditKeys(tx) \cup NonceReads(tx)
  /\ \A s, tx : CztKey(s) \notin AuditKeys(tx) \cup NonceReads(tx)
  /\ \A s, tx : CrlKey(s) \notin AuditKeys(tx) \cup NonceReads(tx)
  /\ \A s, n, tx : NonceKey(s, n) \notin AuditKeys(tx) /\ NonceKey(s, n) # NonceIndex
  /\ \A s, t : /\ RoleKey(s) = RoleKey(t) => s = t
               /\ CztKey(s) = CztKey(t) => s = t
               /\ RoleKey(s) # CztKey(t) /\ RoleKey(s) # CrlKey(t) /\ CztKey(s) # CrlKey(t)
               /\ RoleKey(s) # NonceIndex /\ CztKey(s) # NonceIndex /\ CrlKey(s) # NonceIndex
  /\ \A s, d, t : /\ RoleKey(s) # SensorKey(d, t) /\ CztKey(s) # SensorKey(d, t)
                  /\ CrlKey(s) # SensorKey(d, t)
                  /\ RoleKey(s) # NonceKey(d, t) /\ CztKey(s) # NonceKey(d, t)
                  /\ CrlKey(s) # NonceKey(d, t)
  /\ \A s, n, d, t : /\ NonceKey(s, n) # SensorKey(d, t)
                     /\ NonceKey(s, n) = NonceKey(d, t) => s = d /\ n = t
  BY DEF RoleKey, CztKey, CrlKey, NonceKey, SensorKey, AuditKey, AuditIndex, NonceIndex,
     AuditKeys, NonceReads, OwnNonce

(* A key that a call does not name keeps its value.                        *)
LEMMA Untouched ==
  ASSUME NEW w, NEW tx, tx.call.fn \in Functions, NEW k, k \notin AuditKeys(tx),
         k \notin DOMAIN OwnPuts(w, tx), k \notin OwnDels(w, tx),
         UsesNonce(tx.call) => k \notin NonceReads(tx)
  PROVE  LET w2 == Apply(w, Effect(w, tx))
         IN  (k \in DOMAIN w2 <=> k \in DOMAIN w) /\ (k \in DOMAIN w => w2[k] = w[k])
<1>1. k \notin DOMAIN Effect(w, tx).puts /\ k \notin Effect(w, tx).dels
  BY CallWrites
<1> QED
  BY <1>1 DEF Apply

(* A key that a call names holds what the call put.                        *)
LEMMA Touched ==
  ASSUME NEW w, NEW tx, tx.call.fn \in Functions, NEW k, k \notin AuditKeys(tx),
         k \in DOMAIN OwnPuts(w, tx)
  PROVE  LET w2 == Apply(w, Effect(w, tx))
         IN  k \in DOMAIN w2 /\ w2[k] = OwnPuts(w, tx)[k]
<1>1. k \in DOMAIN Effect(w, tx).puts /\ Effect(w, tx).puts[k] = OwnPuts(w, tx)[k]
  BY CallWrites
<1> QED
  BY <1>1 DEF Apply

(* A key that a call deletes and does not put is gone.                     *)
LEMMA Deleted ==
  ASSUME NEW w, NEW tx, tx.call.fn \in Functions, NEW k, k \notin AuditKeys(tx),
         k \notin DOMAIN OwnPuts(w, tx), k \in OwnDels(w, tx),
         UsesNonce(tx.call) => k \notin NonceReads(tx)
  PROVE  k \notin DOMAIN Apply(w, Effect(w, tx))
<1>1. k \notin DOMAIN Effect(w, tx).puts /\ k \in Effect(w, tx).dels
  BY CallWrites
<1> QED
  BY <1>1 DEF Apply

(* CheckAccess finds the role of s expired and removes it.                 *)
Expires(w, tx, s) ==
  /\ tx.call.fn = "CheckAccess" /\ tx.call.subject = s
  /\ AccessDecision(w, tx, Request(tx)) = "role expired"

Concerns(tx, fns, s) == tx.call.fn \in fns /\ tx.call.subject = s

(* What a call makes of the role of s, from world state w to w2.           *)
RoleAfter(w, w2, tx, s) ==
  LET k == RoleKey(s)
  IN  /\ Concerns(tx, {"AssignRole"}, s) =>
           /\ k \in DOMAIN w2
           /\ w2[k] = [role |-> tx.call.role, zones |-> tx.call.zones,
                       issuedAt |-> Unix(tx.ts), expiresAt |-> StoredExpiry(tx)]
      /\ Concerns(tx, {"RenewRole"}, s) =>
           /\ k \in DOMAIN w /\ k \in DOMAIN w2
           /\ w2[k] = [w[k] EXCEPT !.expiresAt = StoredExpiry(tx)]
      /\ Concerns(tx, {"RevokeRole"}, s) \/ Expires(w, tx, s) => k \notin DOMAIN w2
      /\ ~Concerns(tx, {"AssignRole", "RenewRole", "RevokeRole"}, s) /\ ~Expires(w, tx, s) =>
           (k \in DOMAIN w2 <=> k \in DOMAIN w) /\ (k \in DOMAIN w => w2[k] = w[k])

(* An accepted call leaves each role so.                                   *)
LEMMA RoleOutcome ==
  ASSUME NEW w, NEW tx, tx.call.fn \in Functions, Accepts(w, tx), NEW s
  PROVE  RoleAfter(w, Apply(w, Effect(w, tx)), tx, s)
<1> DEFINE w2 == Apply(w, Effect(w, tx))
           k == RoleKey(s)
<1>0. k \notin AuditKeys(tx) /\ k \notin NonceReads(tx)
  BY KindsApart
<1>1. ASSUME Concerns(tx, {"AssignRole"}, s)
      PROVE  /\ k \in DOMAIN w2
             /\ w2[k] = [role |-> tx.call.role, zones |-> tx.call.zones,
                         issuedAt |-> Unix(tx.ts), expiresAt |-> StoredExpiry(tx)]
  <2>1. /\ k \in DOMAIN OwnPuts(w, tx)
        /\ OwnPuts(w, tx)[k] = [role |-> tx.call.role, zones |-> tx.call.zones,
                                issuedAt |-> Unix(tx.ts), expiresAt |-> StoredExpiry(tx)]
    BY <1>1 DEF Concerns, OwnPuts, Put
  <2> QED
    BY <1>0, <2>1, Touched
<1>2. ASSUME Concerns(tx, {"RenewRole"}, s)
      PROVE  /\ k \in DOMAIN w /\ k \in DOMAIN w2
             /\ w2[k] = [w[k] EXCEPT !.expiresAt = StoredExpiry(tx)]
  <2>1. /\ k \in DOMAIN OwnPuts(w, tx)
        /\ OwnPuts(w, tx)[k] = [w[k] EXCEPT !.expiresAt = StoredExpiry(tx)]
    BY <1>2 DEF Concerns, OwnPuts, Put
  <2>2. k \in DOMAIN w
    BY <1>2 DEF Concerns, Accepts, RenewRoleAccepts
  <2> QED
    BY <1>0, <2>1, <2>2, Touched
<1>3. ASSUME Concerns(tx, {"RevokeRole"}, s) \/ Expires(w, tx, s) PROVE k \notin DOMAIN w2
  <2>1. OwnPuts(w, tx) = <<>>
    BY <1>3 DEF Concerns, Expires, OwnPuts
  <2>2. k \in OwnDels(w, tx)
    BY <1>3 DEF Concerns, Expires, OwnDels, AutoRevoked, Request
  <2> QED
    BY <1>0, <2>1, <2>2, Deleted
<1>4. ASSUME ~Concerns(tx, {"AssignRole", "RenewRole", "RevokeRole"}, s), ~Expires(w, tx, s)
      PROVE  (k \in DOMAIN w2 <=> k \in DOMAIN w) /\ (k \in DOMAIN w => w2[k] = w[k])
  <2>1. k \notin DOMAIN OwnPuts(w, tx)
    BY <1>4, KindsApart DEF Concerns, OwnPuts, Put, Functions
  <2>2. k \notin OwnDels(w, tx)
    <3>1. CASE tx.call.fn = "PruneNonces"
      BY <3>1 DEF OwnDels, PrunedKeys, Prunable, RoleKey
    <3>2. CASE tx.call.fn = "CheckAccess"
      BY <1>4, <3>2, KindsApart DEF OwnDels, AutoRevoked, Expires, Request
    <3>3. CASE tx.call.fn \notin {"PruneNonces", "CheckAccess"}
      BY <1>4, <3>3, KindsApart DEF Concerns, OwnDels
    <3> QED
      BY <3>1, <3>2, <3>3
  <2> QED
    BY <1>0, <2>1, <2>2, Untouched
<1> HIDE DEF w2
<1>5. RoleAfter(w, w2, tx, s)
  BY <1>1, <1>2, <1>3, <1>4 DEF RoleAfter
<1> QED
  BY <1>5 DEF w2

(* What a call makes of a nonce: its own is recorded, and another one is   *)
(* forgotten only by a PruneNonces that was asked to.                      *)
LEMMA NonceOutcome ==
  ASSUME NEW w, NEW tx, tx.call.fn \in Functions, Accepts(w, tx), NEW s, NEW n
  PROVE  LET w2 == Apply(w, Effect(w, tx))
             k == NonceKey(s, n)
             mine == UsesNonce(tx.call) /\ k = OwnNonce(tx)
         IN  /\ mine => k \notin DOMAIN w /\ k \in DOMAIN w2 /\ w2[k].ts = Unix(tx.ts)
             /\ ~mine /\ k \in DOMAIN w =>
                  \/ k \in DOMAIN w2 /\ w2[k] = w[k]
                  \/ tx.call.fn = "PruneNonces" /\ w[k].ts < tx.call.before
<1> DEFINE w2 == Apply(w, Effect(w, tx))
           k == NonceKey(s, n)
           mine == UsesNonce(tx.call) /\ k = OwnNonce(tx)
<1>0. k \notin AuditKeys(tx) /\ k # NonceIndex
  BY KindsApart
<1>1. k \notin DOMAIN OwnPuts(w, tx)
  BY KindsApart DEF OwnPuts, Put, Functions
<1>2. ASSUME mine PROVE k \notin DOMAIN w /\ k \in DOMAIN w2 /\ w2[k].ts = Unix(tx.ts)
  <2>1. validateNonce(w, tx)
    BY <1>2 DEF UsesNonce, Accepts, Functions, AssignRoleAccepts, RevokeRoleAccepts,
       RenewRoleAccepts, IssueCrossZoneTokenAccepts, RevokeCrossZoneTokenAccepts,
       WriteSensorDataAccepts, PruneNoncesAccepts
  <2>2. k \in DOMAIN Effect(w, tx).puts /\ Effect(w, tx).puts[k] = NoncePuts(w, tx)[k]
    BY <1>0, <1>1, <1>2, CallWrites DEF NonceReads
  <2>3. NoncePuts(w, tx)[k] = [tx |-> tx.id, ts |-> Unix(tx.ts)]
    BY <1>2 DEF NoncePuts, Put, ++
  <2>4. k \in DOMAIN w2 /\ w2[k] = [tx |-> tx.id, ts |-> Unix(tx.ts)]
    BY <2>2, <2>3 DEF Apply
  <2>5. k \notin DOMAIN w
    BY <1>2, <2>1 DEF validateNonce
  <2>6. w2[k].ts = Unix(tx.ts)
    BY <2>4
  <2> QED
    BY <2>4, <2>5, <2>6
<1>3. ASSUME ~mine, k \in DOMAIN w
      PROVE  \/ k \in DOMAIN w2 /\ w2[k] = w[k]
             \/ tx.call.fn = "PruneNonces" /\ w[k].ts < tx.call.before
  <2>1. UsesNonce(tx.call) => k \notin NonceReads(tx)
    BY <1>0, <1>3 DEF NonceReads
  <2>2. CASE k \notin OwnDels(w, tx)
    BY <1>0, <1>1, <1>3, <2>1, <2>2, Untouched
  <2>3. CASE k \in OwnDels(w, tx)
    <3>0. \A u : k # RoleKey(u) /\ k # CztKey(u)
      BY KindsApart
    <3>1. tx.call.fn = "PruneNonces"
      BY <2>3, <3>0 DEF OwnDels, AutoRevoked, Functions
    <3>2. w[k].ts < tx.call.before
      BY <2>3, <3>1 DEF OwnDels, PrunedKeys, Prunable
    <3> QED
      BY <3>1, <3>2
  <2> QED
    BY <2>2, <2>3
<1> QED
  BY <1>2, <1>3

(* What a call makes of the token x, from world state w to w2.             *)
TokenAfter(w, w2, tx, x) ==
  LET k == CztKey(x)
      issued == tx.call.fn = "IssueCrossZoneToken" /\ TokenId(tx) = x
  IN  /\ issued =>
           /\ k \in DOMAIN w2
           /\ w2[k] = [subject |-> tx.call.subject, zones |-> tx.call.zones,
                       issuedAt |-> Unix(tx.ts), expiresAt |-> StoredExpiry(tx)]
      /\ tx.call.fn = "RevokeCrossZoneToken" /\ tx.call.token = x => k \notin DOMAIN w2
      /\ ~issued /\ k \in DOMAIN w2 => k \in DOMAIN w /\ w2[k] = w[k]

(* An accepted call leaves each token so.                                  *)
LEMMA TokenOutcome ==
  ASSUME NEW w, NEW tx, tx.call.fn \in Functions, Accepts(w, tx), NEW x
  PROVE  TokenAfter(w, Apply(w, Effect(w, tx)), tx, x)
<1> DEFINE w2 == Apply(w, Effect(w, tx))
           k == CztKey(x)
<1>0. k \notin AuditKeys(tx) /\ k \notin NonceReads(tx)
  BY KindsApart
<1>1. ASSUME tx.call.fn = "IssueCrossZoneToken", TokenId(tx) = x
      PROVE  /\ k \in DOMAIN w2
             /\ w2[k] = [subject |-> tx.call.subject, zones |-> tx.call.zones,
                         issuedAt |-> Unix(tx.ts), expiresAt |-> StoredExpiry(tx)]
  <2>1. /\ k \in DOMAIN OwnPuts(w, tx)
        /\ OwnPuts(w, tx)[k] = [subject |-> tx.call.subject, zones |-> tx.call.zones,
                                issuedAt |-> Unix(tx.ts), expiresAt |-> StoredExpiry(tx)]
    BY <1>1 DEF OwnPuts, Put
  <2> QED
    BY <1>0, <2>1, Touched
<1>2. ASSUME tx.call.fn = "RevokeCrossZoneToken", tx.call.token = x PROVE k \notin DOMAIN w2
  <2>1. OwnPuts(w, tx) = <<>> /\ k \in OwnDels(w, tx)
    BY <1>2 DEF OwnPuts, OwnDels
  <2> QED
    BY <1>0, <2>1, Deleted
<1>3. ASSUME ~(tx.call.fn = "IssueCrossZoneToken" /\ TokenId(tx) = x), k \in DOMAIN w2
      PROVE  k \in DOMAIN w /\ w2[k] = w[k]
  <2>1. k \notin DOMAIN OwnPuts(w, tx)
    BY <1>3, KindsApart DEF OwnPuts, Put, Functions
  <2>2. k \notin OwnDels(w, tx)
    BY <1>0, <1>3, <2>1, Deleted
  <2> QED
    BY <1>0, <1>3, <2>1, <2>2, Untouched
<1> HIDE DEF w2
<1>4. TokenAfter(w, w2, tx, x)
  BY <1>1, <1>2, <1>3 DEF TokenAfter
<1> QED
  BY <1>4 DEF w2

(* No call touches the revocation list.                                    *)
LEMMA CrlOutcome ==
  ASSUME NEW w, NEW tx, tx.call.fn \in Functions, NEW s, CrlKey(s) \in DOMAIN w
  PROVE  CrlKey(s) \in DOMAIN Apply(w, Effect(w, tx))
<1>1. CrlKey(s) \notin AuditKeys(tx) /\ CrlKey(s) \notin NonceReads(tx)
  BY KindsApart
<1>2. CrlKey(s) \notin DOMAIN OwnPuts(w, tx)
  BY KindsApart DEF OwnPuts, Put, Functions
<1>3. CrlKey(s) \notin OwnDels(w, tx)
  <2>1. CASE tx.call.fn = "PruneNonces"
    BY <2>1 DEF OwnDels, PrunedKeys, Prunable, CrlKey
  <2>2. CASE tx.call.fn # "PruneNonces"
    BY <2>2, KindsApart DEF OwnDels, AutoRevoked
  <2> QED
    BY <2>1, <2>2
<1> QED
  BY <1>1, <1>2, <1>3, Untouched

-----------------------------------------------------------------------------
(* The ledger changes only by executing a call on the committed state.     *)
LEMMA LedgerSteps ==
  ASSUME IInv, [Next]_vars
  PROVE  \/ UNCHANGED <<world, log, answers>>
         \/ \E tx \in LogEntry : Serial!Execute(tx) /\ tx.call.fn \in Functions
<1>1. CASE \E id \in TxIds : Commit(id)
  <2>1. PICK id \in TxIds, call \in Calls, t \in Times :
          Serial!Execute([id |-> id, call |-> call, ts |-> t])
    BY <1>1, CommitExecutes DEF Serial!Next
  <2> DEFINE tx == [id |-> id, call |-> call, ts |-> t]
  <2>2. tx \in LogEntry /\ tx.call.fn \in Functions
    BY LedgerAssumption DEF LogEntry
  <2> QED
    BY <2>1, <2>2
<1>2. CASE ~\E id \in TxIds : Commit(id)
  BY <1>2
  DEF Next, vars, ledger, Resolve, AssignRole, RevokeRole, RenewRole,
      IssueCrossZoneToken, RevokeCrossZoneToken, CheckAccess, WriteSensorData,
      PruneNonces, Endorse, Reject, Invalidate, Abandon, Propose, Tick
<1> QED
  BY <1>1, <1>2

(* What an execution appends to the history.                               *)
LEMMA LogGrows ==
  ASSUME log \in Seq(LogEntry), answers \in Seq(Answers), Len(answers) = Len(log),
         NEW tx \in LogEntry, tx.call.fn \in Functions, Serial!Execute(tx)
  PROVE  /\ Len(log) \in Nat /\ DOMAIN log = 1 .. Len(log)
         /\ DOMAIN log' = 1 .. Len(log) + 1 /\ Len(log') = Len(log) + 1
         /\ log'[Len(log) + 1] = tx /\ answers'[Len(log) + 1] = Effect(world, tx).answer
         /\ \A i \in 1 .. Len(log) : log'[i] = log[i] /\ answers'[i] = answers[i]
<1>1. Effect(world, tx).answer \in Answers
  BY AuditEffect DEF Serial!Execute
<1> QED
  BY <1>1 DEF Serial!Execute

-----------------------------------------------------------------------------
(* A nonce that was used is recorded, with the second of its use, until it *)
(* is pruned.                                                              *)
NonceOf(i) == NonceKey(log[i].call.caller, log[i].call.nonce)
Recorded(i) == NonceOf(i) \in DOMAIN world /\ world[NonceOf(i)].ts = Unix(log[i].ts)
PrunedBy(i, n) ==
  \E k \in i + 1 .. n : log[k].call.fn = "PruneNonces" /\ Unix(log[i].ts) < log[k].call.before

NonceInv ==
  \A i \in DOMAIN log : UsesNonce(log[i].call) => Recorded(i) \/ PrunedBy(i, Len(log))

(* Every execution keeps the record of the nonces.                         *)
LEMMA NonceExecute ==
  ASSUME log \in Seq(LogEntry), answers \in Seq(Answers), Len(answers) = Len(log),
         NEW tx \in LogEntry, tx.call.fn \in Functions, Serial!Execute(tx),
         NonceInv, NonceUsedOnce
  PROVE  NonceInv' /\ NonceUsedOnce'
<1> DEFINE n == Len(log)
<1>1. /\ n \in Nat /\ DOMAIN log = 1 .. n /\ DOMAIN log' = 1 .. n + 1 /\ Len(log') = n + 1
      /\ log'[n + 1] = tx /\ \A i \in 1 .. n : log'[i] = log[i]
  BY LogGrows
<1>2. Accepts(world, tx) /\ world' = Apply(world, Effect(world, tx))
  BY DEF Serial!Execute
<1>3. PICK m : m = n + 1
  OBVIOUS
<1> HIDE DEF n
<1>4. ASSUME NEW i \in 1 .. n, NEW b, b \in 1 .. n, PrunedBy(i, b)
      PROVE  \E k \in i + 1 .. b : log'[k].call.fn = "PruneNonces" /\ Unix(log'[i].ts) < log'[k].call.before
  BY <1>1, <1>4 DEF PrunedBy
<1>5. ASSUME NEW i \in 1 .. n, UsesNonce(log[i].call) PROVE Recorded(i)' \/ PrunedBy(i, m)'
  <2>1. CASE PrunedBy(i, n)
    <3>1. PICK k \in i + 1 .. n : log[k].call.fn = "PruneNonces" /\ Unix(log[i].ts) < log[k].call.before
      BY <2>1 DEF PrunedBy
    <3>2. k \in i + 1 .. m /\ log'[k] = log[k] /\ log'[i] = log[i]
      BY <1>1, <1>3
    <3> QED
      BY <3>1, <3>2 DEF PrunedBy
  <2>2. CASE Recorded(i)
    <3>1. PICK c, x : c = log[i].call.caller /\ x = log[i].call.nonce
      OBVIOUS
    <3>2. log'[i] = log[i] /\ NonceOf(i) = NonceKey(c, x) /\ NonceOf(i)' = NonceKey(c, x)
      BY <1>1, <3>1 DEF NonceOf
    <3>3. NonceKey(c, x) \in DOMAIN world /\ world[NonceKey(c, x)].ts = Unix(log[i].ts)
      BY <2>2, <3>2 DEF Recorded
    <3>4. \/ NonceKey(c, x) \in DOMAIN world' /\ world'[NonceKey(c, x)] = world[NonceKey(c, x)]
          \/ tx.call.fn = "PruneNonces" /\ world[NonceKey(c, x)].ts < tx.call.before
      BY <1>2, <3>3, NonceOutcome
    <3>5. CASE NonceKey(c, x) \in DOMAIN world' /\ world'[NonceKey(c, x)] = world[NonceKey(c, x)]
      BY <3>2, <3>3, <3>5 DEF Recorded
    <3>6. CASE tx.call.fn = "PruneNonces" /\ world[NonceKey(c, x)].ts < tx.call.before
      <4>1. m \in i + 1 .. m /\ log'[m] = tx
        BY <1>1, <1>3
      <4> QED
        BY <3>2, <3>3, <3>6, <4>1 DEF PrunedBy
    <3> QED
      BY <3>4, <3>5, <3>6
  <2> QED
    BY <1>1, <1>5, <2>1, <2>2 DEF NonceInv, n
<1>6. ASSUME UsesNonce(tx.call) PROVE Recorded(m)'
  <2>1. PICK c, x : c = tx.call.caller /\ x = tx.call.nonce
    OBVIOUS
  <2>2. log'[m] = tx /\ NonceOf(m)' = NonceKey(c, x) /\ OwnNonce(tx) = NonceKey(c, x)
    BY <1>1, <1>3, <2>1 DEF NonceOf, OwnNonce, Caller
  <2>3. NonceKey(c, x) \in DOMAIN world' /\ world'[NonceKey(c, x)].ts = Unix(tx.ts)
    BY <1>2, <1>6, <2>2, NonceOutcome
  <2> QED
    BY <2>2, <2>3 DEF Recorded
<1>7. NonceInv'
  <2>1. \A i \in DOMAIN log' : i \in 1 .. n \/ i = m
    BY <1>1, <1>3
  <2>2. Len(log)' = m /\ log'[m] = tx /\ \A i \in 1 .. n : log'[i] = log[i]
    BY <1>1, <1>3
  <2>3. ASSUME NEW i \in DOMAIN log', UsesNonce(log'[i].call) PROVE Recorded(i)' \/ PrunedBy(i, m)'
    BY <1>5, <1>6, <2>1, <2>2, <2>3
  <2> QED
    BY <2>2, <2>3 DEF NonceInv
<1>8. NonceUsedOnce'
  <2> SUFFICES ASSUME NEW i \in DOMAIN log', NEW j \in DOMAIN log', i < j, SameNonce(i, j)'
               PROVE  \E k \in i + 1 .. j - 1 : /\ log'[k].call.fn = "PruneNonces"
                                                /\ Unix(log'[i].ts) < log'[k].call.before
    BY DEF NonceUsedOnce
  <2>1. i \in 1 .. n /\ log'[i] = log[i] /\ i \in DOMAIN log
    BY <1>1
  <2>2. CASE j \in 1 .. n
    <3>1. SameNonce(i, j) /\ j \in DOMAIN log
      BY <1>1, <2>1, <2>2 DEF SameNonce
    <3>2. PICK k \in i + 1 .. j - 1 : /\ log[k].call.fn = "PruneNonces"
                                      /\ Unix(log[i].ts) < log[k].call.before
      BY <2>1, <3>1 DEF NonceUsedOnce
    <3>3. log'[k] = log[k]
      BY <1>1, <2>1, <2>2
    <3> QED
      BY <2>1, <3>2, <3>3
  <2>3. CASE j = n + 1
    <3>1. /\ UsesNonce(log[i].call) /\ UsesNonce(tx.call)
          /\ log[i].call.caller = tx.call.caller /\ log[i].call.nonce = tx.call.nonce
      BY <1>1, <2>1, <2>3 DEF SameNonce
    <3>2. PICK c, x : c = tx.call.caller /\ x = tx.call.nonce
      OBVIOUS
    <3>3. NonceOf(i) = NonceKey(c, x) /\ OwnNonce(tx) = NonceKey(c, x)
      BY <3>1, <3>2 DEF NonceOf, OwnNonce, Caller
    <3>4. NonceKey(c, x) \notin DOMAIN world
      BY <1>2, <3>1, <3>3, NonceOutcome
    <3>5. PrunedBy(i, n)
      BY <2>1, <3>1, <3>3, <3>4 DEF NonceInv, Recorded, n
    <3>6. n \in 1 .. n /\ j - 1 = n
      BY <1>1, <2>1, <2>3
    <3> QED
      BY <1>4, <2>1, <3>5, <3>6
  <2> QED
    BY <1>1, <2>2, <2>3
<1> QED
  BY <1>7, <1>8

-----------------------------------------------------------------------------
(* Seconds and ticks.                                                      *)
LEMMA UnixFacts ==
  ASSUME NEW a \in Nat, NEW b \in Nat
  PROVE  /\ Unix(a) \in Nat
         /\ Unix(a) <= Unix(b) => a < b + TicksPerSecond
         /\ Unix(a) < Unix(b) => a < b
         /\ TicksPerSecond <= a => Unix(a) # 0
<1> DEFINE T == TicksPerSecond
           p == a \div T
           q == b \div T
<1>0. T \in Nat \ {0}
  BY ConstantsAssumption
<1> HIDE DEF T
<1>1. /\ p \in Int /\ q \in Int /\ a % T \in 0 .. T - 1 /\ b % T \in 0 .. T - 1
      /\ a = T * p + (a % T) /\ b = T * q + (b % T)
  BY <1>0
<1>2. PICK r \in 0 .. T - 1, u \in 0 .. T - 1 : a = T * p + r /\ b = T * q + u
  BY <1>1
<1> HIDE DEF p, q
<1>3. p \in Nat
  <2>1. CASE p < 0
    <3>1. T * p <= T * (-1)
      BY <1>0, <1>1, <2>1
    <3> QED
      BY <1>0, <1>1, <1>2, <2>1, <3>1
  <2> QED
    BY <1>1, <2>1
<1>4. p <= q => T * p <= T * q
  BY <1>0, <1>1
<1>5. p < q => T * p + T <= T * q
  <2>1. p < q => T * (p + 1) <= T * q
    BY <1>0, <1>1
  <2>2. T * (p + 1) = T * p + T
    BY <1>0, <1>1
  <2> QED
    BY <2>1, <2>2
<1>6. T * p \in Int /\ T * q \in Int /\ (p = 0 => T * p = 0)
  BY <1>0, <1>1
<1>7. /\ p <= q => a < b + T
      /\ p < q => a < b
      /\ T <= a => p # 0
  BY <1>0, <1>2, <1>4, <1>5, <1>6
<1> QED
  BY <1>3, <1>7 DEF p, q, T, Unix

-----------------------------------------------------------------------------
(* The users access is asked for and the tokens it is asked with.          *)
Users ==
  Subjects \cup {Requester([call |-> c]) :
                   c \in {d \in Calls : d.fn \in {"CheckAccess", "WriteSensorData"}}}
Tokens == {c.token : c \in {d \in Calls : d.fn = "CheckAccess"}}

(* a is the latest assignment to s, x the latest expiry set for s, before  *)
(* position n.                                                             *)
LastAssign(s, n, a) ==
  /\ a \in 1 .. n - 1 /\ Assigns(s, log[a])
  /\ \A i \in a + 1 .. n - 1 : ~Assigns(s, log[i])

LastExpiry(s, n, x) ==
  /\ x \in 1 .. n - 1 /\ SetsExpiry(s, log[x])
  /\ \A i \in x + 1 .. n - 1 : ~SetsExpiry(s, log[i])

(* An access check after the expiry in force removed the role.             *)
Lapsed(s, a, n) ==
  \E m \in a + 1 .. n - 1 : \E x \in 1 .. m - 1 :
    /\ log[m].call.fn = "CheckAccess" /\ log[m].call.subject = s
    /\ LastExpiry(s, m, x)
    /\ log[x].call.expiry # Nil /\ log[m].ts > log[x].call.expiry

(* A recorded role is the latest assignment with the latest expiry; one    *)
(* no longer recorded was revoked or lapsed.                               *)
Assignment(a, x) ==
  [role |-> log[a].call.role, zones |-> log[a].call.zones,
   issuedAt |-> Unix(log[a].ts),
   expiresAt |-> IF log[x].call.expiry = Nil THEN 0 ELSE Unix(log[x].call.expiry)]

RoleHeld(s, n) ==
  \E a, x \in 1 .. n - 1 :
    /\ LastAssign(s, n, a) /\ LastExpiry(s, n, x) /\ ~RevokedSince(s, a, n)
    /\ world[RoleKey(s)] = Assignment(a, x)
    /\ log[x].call.expiry # Nil =>
         log[x].call.expiry \in Nat /\ log[x].call.expiry >= StartTime

RoleGone(s, n) ==
  \/ \A i \in 1 .. n - 1 : ~Assigns(s, log[i])
  \/ \E a \in 1 .. n - 1 : LastAssign(s, n, a) /\ (RevokedSince(s, a, n) \/ Lapsed(s, a, n))

RoleInv ==
  \A s \in Users : IF RoleKey(s) \in DOMAIN world THEN RoleHeld(s, Height) ELSE RoleGone(s, Height)

(* A recorded token was issued so, and not revoked since.                  *)
TokenFrom(x, k) ==
  /\ log[k].call.fn = "IssueCrossZoneToken" /\ TokenId(log[k]) = x
  /\ log[k].call.expiry \in Nat
  /\ world[CztKey(x)] = [subject |-> log[k].call.subject, zones |-> log[k].call.zones,
                         issuedAt |-> Unix(log[k].ts), expiresAt |-> Unix(log[k].call.expiry)]
  /\ \A i \in k + 1 .. Len(log) :
       log[i].call.fn = "RevokeCrossZoneToken" => log[i].call.token # x

TokenInv == \A x \in Tokens : CztKey(x) \in DOMAIN world => \E k \in 1 .. Len(log) : TokenFrom(x, k)

(* The revocation list stays.                                              *)
CrlInv == \A s \in Revoked : CrlKey(s) \in DOMAIN world

(* A grant with the calls that justify it.                                 *)
Justified(n) ==
  LET s == Requester(log[n])
  IN  /\ log[n].call.caller \notin Revoked
      /\ \E a, x \in 1 .. n - 1 :
           /\ LastAssign(s, n, a) /\ LastExpiry(s, n, x) /\ ~RevokedSince(s, a, n)
           /\ hasPermission(log[a].call.role, Asked(log[n]))
           /\ log[x].call.expiry # Nil => log[n].ts < log[x].call.expiry + TicksPerSecond
           /\ \/ ~needsZoneCheck(Asked(log[n]))
              \/ validateZoneAccess(log[a].call.zones, log[n].call.zone)
              \/ log[n].call.fn = "CheckAccess" /\ TokenOpens(n)

GrantInv == \A n \in DOMAIN log : answers[n] = "GRANT" => Justified(n)

(* The inductive invariant of the history.                                 *)
HistoryInv ==
  /\ NonceInv /\ NonceUsedOnce
  /\ RoleInv /\ TokenInv /\ CrlInv /\ GrantInv

(* The history grows from n entries by tx.                                 *)
Grows(tx, n) ==
  /\ n \in Nat /\ Len(log) = n /\ DOMAIN log = 1 .. n
  /\ Len(log') = n + 1 /\ DOMAIN log' = 1 .. n + 1
  /\ log'[n + 1] = tx /\ \A i \in 1 .. n : log'[i] = log[i]

(* What was so before a position of the past stays so.                     *)
LEMMA PrefixKept ==
  ASSUME NEW tx, NEW n, Grows(tx, n), NEW s, NEW m \in 1 .. n + 1, NEW a \in 1 .. n
  PROVE  /\ LastAssign(s, m, a) => LastAssign(s, m, a)'
         /\ LastExpiry(s, m, a) => LastExpiry(s, m, a)'
         /\ ~RevokedSince(s, a, m) => ~RevokedSince(s, a, m)'
<1>1. n \in Nat /\ \A i \in 1 .. m - 1 : i \in 1 .. n /\ log'[i] = log[i]
  BY DEF Grows
<1>2. \A i \in a + 1 .. m - 1 : i \in 1 .. m - 1
  BY <1>1
<1>3. \A i \in 1 .. m - 1 : log'[i] = log[i]
  BY <1>1
<1>4. LastAssign(s, m, a) => LastAssign(s, m, a)'
  BY <1>2, <1>3 DEF LastAssign
<1>5. LastExpiry(s, m, a) => LastExpiry(s, m, a)'
  BY <1>2, <1>3 DEF LastExpiry
<1>6. ~RevokedSince(s, a, m) => ~RevokedSince(s, a, m)'
  BY <1>2, <1>3 DEF RevokedSince
<1> QED
  BY <1>4, <1>5, <1>6

(* The same for the new position, which also sees the new entry.           *)
LEMMA PositionGrows ==
  ASSUME NEW tx, NEW n, Grows(tx, n), NEW s, NEW a \in 1 .. n
  PROVE  /\ LastAssign(s, n + 1, a) /\ ~Assigns(s, tx) => LastAssign(s, n + 2, a)'
         /\ LastExpiry(s, n + 1, a) /\ ~SetsExpiry(s, tx) => LastExpiry(s, n + 2, a)'
         /\ RevokedSince(s, a, n + 1) \/ Revokes(s, tx) => RevokedSince(s, a, n + 2)'
         /\ ~RevokedSince(s, a, n + 1) /\ ~Revokes(s, tx) => ~RevokedSince(s, a, n + 2)'
         /\ Lapsed(s, a, n + 1) => Lapsed(s, a, n + 2)'
<1>1. /\ n \in Nat /\ \A i \in 1 .. n : log'[i] = log[i]
      /\ log'[n + 1] = tx /\ n + 1 - 1 = n /\ n + 2 - 1 = n + 1
  BY DEF Grows
<1>2. \A i \in a + 1 .. n + 1 : i \in a + 1 .. n \/ i = n + 1
  BY <1>1
<1>3. \A i \in a + 1 .. n : i \in 1 .. n /\ i \in a + 1 .. n + 1
  BY <1>1
<1>4. a \in 1 .. n + 1 /\ n + 1 \in a + 1 .. n + 1 /\ a \in 1 .. n
  BY <1>1
<1>5. LastAssign(s, n + 1, a) /\ ~Assigns(s, tx) => LastAssign(s, n + 2, a)'
  BY <1>1, <1>2, <1>3, <1>4 DEF LastAssign
<1>6. LastExpiry(s, n + 1, a) /\ ~SetsExpiry(s, tx) => LastExpiry(s, n + 2, a)'
  BY <1>1, <1>2, <1>3, <1>4 DEF LastExpiry
<1>7. RevokedSince(s, a, n + 1) \/ Revokes(s, tx) => RevokedSince(s, a, n + 2)'
  BY <1>1, <1>2, <1>3, <1>4 DEF RevokedSince
<1>8. ~RevokedSince(s, a, n + 1) /\ ~Revokes(s, tx) => ~RevokedSince(s, a, n + 2)'
  BY <1>1, <1>2, <1>3, <1>4 DEF RevokedSince
<1>9. ASSUME Lapsed(s, a, n + 1) PROVE Lapsed(s, a, n + 2)'
  <2> DEFINE Lapse(m, x) ==
               /\ log[m].call.fn = "CheckAccess" /\ log[m].call.subject = s
               /\ LastExpiry(s, m, x)
               /\ log[x].call.expiry # Nil /\ log[m].ts > log[x].call.expiry
  <2>0. PICK m \in a + 1 .. n : \E x \in 1 .. m - 1 : Lapse(m, x)
    BY <1>1, <1>9 DEF Lapsed
  <2>1. PICK x \in 1 .. m - 1 : Lapse(m, x)
    BY <2>0
  <2>2. m \in 1 .. n /\ m \in 1 .. n + 1 /\ x \in 1 .. n /\ m \in a + 1 .. n + 2 - 1
    BY <1>1
  <2>3. LastExpiry(s, m, x)'
    BY <2>1, <2>2, PrefixKept
  <2>4. log'[m] = log[m] /\ log'[x] = log[x]
    BY <1>1, <2>2
  <2> QED
    BY <1>1, <2>1, <2>2, <2>3, <2>4 DEF Lapsed
<1> QED
  BY <1>5, <1>6, <1>7, <1>8, <1>9

(* A new entry is the latest of its kind.                                  *)
LEMMA NewestEntry ==
  ASSUME NEW tx, NEW n, Grows(tx, n), NEW s
  PROVE  /\ Assigns(s, tx) => LastAssign(s, n + 2, n + 1)' /\ ~RevokedSince(s, n + 1, n + 2)'
         /\ SetsExpiry(s, tx) => LastExpiry(s, n + 2, n + 1)'
<1>1. /\ n \in Nat /\ log'[n + 1] = tx /\ n + 1 \in 1 .. n + 2 - 1
      /\ n + 1 + 1 .. n + 2 - 1 = {}
  BY DEF Grows
<1> QED
  BY <1>1 DEF LastAssign, LastExpiry, RevokedSince

(* Every execution keeps the roles in step with the history.               *)
LEMMA RoleExecute ==
  ASSUME log \in Seq(LogEntry), NEW n, NEW tx \in LogEntry, tx.call.fn \in Functions,
         Serial!Execute(tx), Grows(tx, n), RoleInv
  PROVE  RoleInv'
<1>0. n \in Nat /\ Height = n + 1 /\ Height' = n + 2 /\ n + 1 - 1 = n /\ n + 2 - 1 = n + 1
  BY DEF Grows, Height
<1> SUFFICES ASSUME NEW s \in Users
             PROVE  IF RoleKey(s) \in DOMAIN world' THEN RoleHeld(s, n + 2)' ELSE RoleGone(s, n + 2)'
  BY <1>0 DEF RoleInv, Users
<1>1. IF RoleKey(s) \in DOMAIN world THEN RoleHeld(s, n + 1) ELSE RoleGone(s, n + 1)
  BY <1>0 DEF RoleInv
<1>2. Accepts(world, tx) /\ world' = Apply(world, Effect(world, tx))
  BY DEF Serial!Execute
<1>3. tx.ts \in Nat /\ tx.ts >= StartTime /\ StartTime \in Nat /\ tx.call \in Calls
  BY LedgerAssumption DEF LogEntry, Times
<1>4. /\ log'[n + 1] = tx /\ n + 1 \in 1 .. n + 1
      /\ \A i \in 1 .. n : i \in 1 .. n + 1 /\ log'[i] = log[i]
  BY <1>0 DEF Grows
<1>5. ASSUME SetsExpiry(s, tx)
      PROVE  /\ StoredExpiry(tx) = (IF tx.call.expiry = Nil THEN 0 ELSE Unix(tx.call.expiry))
             /\ tx.call.expiry # Nil => tx.call.expiry \in Nat /\ tx.call.expiry >= StartTime
  <2>1. tx.call.expiry # Nil => tx.call.expiry \in Int /\ tx.call.expiry > tx.ts
    BY <1>2, <1>3, <1>5, LedgerAssumption
       DEF SetsExpiry, Accepts, AssignRoleAccepts, RenewRoleAccepts, FutureExpiry
  <2> QED
    BY <1>3, <2>1 DEF StoredExpiry
<1>after. RoleAfter(world, world', tx, s)
  BY <1>2, RoleOutcome
<1>6. CASE Concerns(tx, {"AssignRole"}, s)
  <2>1. Assigns(s, tx) /\ SetsExpiry(s, tx)
    BY <1>6 DEF Concerns, Assigns, SetsExpiry
  <2>2. /\ LastAssign(s, n + 2, n + 1)' /\ ~RevokedSince(s, n + 1, n + 2)'
        /\ LastExpiry(s, n + 2, n + 1)'
    BY <2>1, NewestEntry
  <2>3. /\ RoleKey(s) \in DOMAIN world'
        /\ world'[RoleKey(s)] = [role |-> tx.call.role, zones |-> tx.call.zones,
                                 issuedAt |-> Unix(tx.ts), expiresAt |-> StoredExpiry(tx)]
    BY <1>6, <1>after DEF RoleAfter
  <2>4. world'[RoleKey(s)] = Assignment(n + 1, n + 1)'
    BY <1>4, <1>5, <2>1, <2>3 DEF Assignment
  <2>5. RoleHeld(s, n + 2)'
    BY <1>0, <1>4, <1>5, <2>1, <2>2, <2>4 DEF RoleHeld
  <2> QED
    BY <2>3, <2>5
<1>7. CASE Concerns(tx, {"RenewRole"}, s)
  <2>1. SetsExpiry(s, tx) /\ ~Assigns(s, tx) /\ ~Revokes(s, tx)
    BY <1>7 DEF Concerns, Assigns, SetsExpiry, Revokes
  <2>2. /\ RoleKey(s) \in DOMAIN world /\ RoleKey(s) \in DOMAIN world'
        /\ world'[RoleKey(s)] = [world[RoleKey(s)] EXCEPT !.expiresAt = StoredExpiry(tx)]
    BY <1>7, <1>after DEF RoleAfter
  <2>3. PICK a \in 1 .. n, x \in 1 .. n :
          /\ LastAssign(s, n + 1, a) /\ ~RevokedSince(s, a, n + 1)
          /\ world[RoleKey(s)] = Assignment(a, x)
    BY <1>0, <1>1, <2>2 DEF RoleHeld
  <2>4. /\ LastAssign(s, n + 2, a)' /\ ~RevokedSince(s, a, n + 2)'
        /\ LastExpiry(s, n + 2, n + 1)'
    BY <2>1, <2>3, PositionGrows, NewestEntry
  <2>5. world'[RoleKey(s)] = Assignment(a, n + 1)'
    BY <1>4, <1>5, <2>1, <2>2, <2>3 DEF Assignment
  <2>6. RoleHeld(s, n + 2)'
    BY <1>0, <1>4, <1>5, <2>1, <2>4, <2>5 DEF RoleHeld
  <2> QED
    BY <2>2, <2>6
<1>8. ASSUME ~Assigns(s, tx), RoleGone(s, n + 1) PROVE RoleGone(s, n + 2)'
  <2>1. CASE \A i \in 1 .. n : ~Assigns(s, log[i])
    <3>1. \A i \in 1 .. n + 1 : i \in 1 .. n \/ i = n + 1
      BY <1>0
    <3>2. \A i \in 1 .. n + 1 : ~Assigns(s, log'[i])
      BY <1>4, <1>8, <2>1, <3>1
    <3> QED
      BY <1>0, <3>2 DEF RoleGone
  <2>2. ASSUME NEW a \in 1 .. n, LastAssign(s, n + 1, a),
               RevokedSince(s, a, n + 1) \/ Lapsed(s, a, n + 1)
        PROVE  RoleGone(s, n + 2)'
    <3>1. LastAssign(s, n + 2, a)' /\ (RevokedSince(s, a, n + 2)' \/ Lapsed(s, a, n + 2)')
      BY <1>8, <2>2, PositionGrows
    <3> QED
      BY <1>0, <1>4, <3>1 DEF RoleGone
  <2> QED
    BY <1>0, <1>8, <2>1, <2>2 DEF RoleGone
<1>9. CASE Concerns(tx, {"RevokeRole"}, s)
  <2>1. Revokes(s, tx) /\ ~Assigns(s, tx)
    BY <1>9 DEF Concerns, Assigns, Revokes
  <2>2. RoleKey(s) \notin DOMAIN world'
    BY <1>9, <1>after DEF RoleAfter
  <2>3. CASE RoleKey(s) \in DOMAIN world
    <3>1. PICK a \in 1 .. n : LastAssign(s, n + 1, a)
      BY <1>0, <1>1, <2>3 DEF RoleHeld
    <3>2. LastAssign(s, n + 2, a)' /\ RevokedSince(s, a, n + 2)'
      BY <2>1, <3>1, PositionGrows
    <3>3. RoleGone(s, n + 2)'
      BY <1>0, <1>4, <3>2 DEF RoleGone
    <3> QED
      BY <2>2, <3>3
  <2> QED
    BY <1>1, <1>8, <2>1, <2>2, <2>3
<1>10. CASE Expires(world, tx, s)
  <2>1. ~Assigns(s, tx) /\ RoleKey(s) \notin DOMAIN world'
    BY <1>10, <1>after DEF RoleAfter, Expires, Assigns
  <2>2. RoleKey(s) \in DOMAIN world /\ checkRoleExpired(world[RoleKey(s)], tx.ts)
    BY <1>10 DEF Expires, AccessDecision, Request, validCrossZoneToken
  <2>3. PICK a \in 1 .. n, x \in 1 .. n :
          /\ LastAssign(s, n + 1, a) /\ LastExpiry(s, n + 1, x)
          /\ world[RoleKey(s)] = Assignment(a, x)
          /\ log[x].call.expiry # Nil => log[x].call.expiry \in Nat
    BY <1>0, <1>1, <2>2 DEF RoleHeld
  <2>4. world[RoleKey(s)].expiresAt = (IF log[x].call.expiry = Nil THEN 0 ELSE Unix(log[x].call.expiry))
    BY <2>3 DEF Assignment
  <2>5. log[x].call.expiry # Nil /\ Unix(tx.ts) > Unix(log[x].call.expiry)
    BY <2>2, <2>4 DEF checkRoleExpired
  <2>6. tx.ts > log[x].call.expiry
    <3>1. PICK y \in Nat : y = log[x].call.expiry
      BY <2>3, <2>5
    <3>2. Unix(y) \in Nat /\ Unix(tx.ts) \in Nat /\ (Unix(y) < Unix(tx.ts) => y < tx.ts)
      BY <1>3, UnixFacts
    <3> QED
      BY <1>3, <2>5, <3>1, <3>2
  <2>7. LastExpiry(s, n + 1, x)' /\ LastAssign(s, n + 2, a)'
    BY <1>0, <1>4, <2>1, <2>3, PrefixKept, PositionGrows
  <2>8. n + 1 \in a + 1 .. n + 2 - 1 /\ x \in 1 .. n + 1 - 1 /\ a \in 1 .. n + 2 - 1
    BY <1>0
  <2>9. tx.call.fn = "CheckAccess" /\ tx.call.subject = s
    BY <1>10 DEF Expires
  <2>10. Lapsed(s, a, n + 2)'
    <3>1. log'[x] = log[x]
      BY <1>4
    <3> QED
      BY <1>0, <1>4, <2>5, <2>6, <2>7, <2>8, <2>9, <3>1 DEF Lapsed
  <2>11. RoleGone(s, n + 2)'
    BY <1>0, <1>4, <2>7, <2>8, <2>10 DEF RoleGone
  <2> QED
    BY <2>1, <2>11
<1>11. CASE ~Concerns(tx, {"AssignRole", "RenewRole", "RevokeRole"}, s) /\ ~Expires(world, tx, s)
  <2>1. ~Assigns(s, tx) /\ ~SetsExpiry(s, tx) /\ ~Revokes(s, tx)
    BY <1>11 DEF Concerns, Assigns, SetsExpiry, Revokes
  <2>2. /\ RoleKey(s) \in DOMAIN world' <=> RoleKey(s) \in DOMAIN world
        /\ RoleKey(s) \in DOMAIN world => world'[RoleKey(s)] = world[RoleKey(s)]
    BY <1>11, <1>after DEF RoleAfter
  <2>3. CASE RoleKey(s) \in DOMAIN world
    <3>1. PICK a \in 1 .. n, x \in 1 .. n :
            /\ LastAssign(s, n + 1, a) /\ LastExpiry(s, n + 1, x) /\ ~RevokedSince(s, a, n + 1)
            /\ world[RoleKey(s)] = Assignment(a, x)
            /\ log[x].call.expiry # Nil =>
                 log[x].call.expiry \in Nat /\ log[x].call.expiry >= StartTime
      BY <1>0, <1>1, <2>3 DEF RoleHeld
    <3>2. LastAssign(s, n + 2, a)' /\ LastExpiry(s, n + 2, x)' /\ ~RevokedSince(s, a, n + 2)'
      BY <2>1, <3>1, PositionGrows
    <3>3. log'[a] = log[a] /\ log'[x] = log[x] /\ a \in 1 .. n + 1 /\ x \in 1 .. n + 1
      BY <1>4
    <3>4. world'[RoleKey(s)] = Assignment(a, x)'
      BY <2>2, <2>3, <3>1, <3>3 DEF Assignment
    <3>5. RoleHeld(s, n + 2)'
      BY <1>0, <3>1, <3>2, <3>3, <3>4 DEF RoleHeld
    <3> QED
      BY <2>2, <2>3, <3>5
  <2> QED
    BY <1>1, <1>8, <2>1, <2>2, <2>3
<1> QED
  BY <1>6, <1>7, <1>9, <1>10, <1>11 DEF Concerns

(* Every execution keeps the recorded tokens as issued.                    *)
LEMMA TokenExecute ==
  ASSUME log \in Seq(LogEntry), NEW n, NEW tx \in LogEntry, tx.call.fn \in Functions,
         Serial!Execute(tx), Grows(tx, n), TokenInv
  PROVE  TokenInv'
<1>0. /\ n \in Nat /\ Len(log) = n /\ Len(log)' = n + 1 /\ n + 1 \in 1 .. n + 1
      /\ log'[n + 1] = tx /\ \A i \in 1 .. n : i \in 1 .. n + 1 /\ log'[i] = log[i]
  BY DEF Grows
<1>1. Accepts(world, tx) /\ world' = Apply(world, Effect(world, tx))
  BY DEF Serial!Execute
<1>2. tx.ts \in Nat /\ tx.call \in Calls
  BY LedgerAssumption DEF LogEntry, Times
<1> SUFFICES ASSUME NEW x \in Tokens, CztKey(x) \in DOMAIN world'
             PROVE  \E k \in 1 .. n + 1 : TokenFrom(x, k)'
  BY <1>0 DEF TokenInv, Tokens
<1>after. TokenAfter(world, world', tx, x)
  BY <1>1, TokenOutcome
<1>3. CASE tx.call.fn = "IssueCrossZoneToken" /\ TokenId(tx) = x
  <2>1. tx.call.expiry # Nil /\ tx.call.expiry > tx.ts /\ tx.call.expiry \in Int
    BY <1>1, <1>2, <1>3, LedgerAssumption DEF Accepts, IssueCrossZoneTokenAccepts, FutureExpiry
  <2>2. world'[CztKey(x)] = [subject |-> tx.call.subject, zones |-> tx.call.zones,
                         issuedAt |-> Unix(tx.ts), expiresAt |-> StoredExpiry(tx)]
    BY <1>3, <1>after DEF TokenAfter
  <2>3. StoredExpiry(tx) = Unix(tx.call.expiry) /\ tx.call.expiry \in Nat
    BY <1>2, <2>1 DEF StoredExpiry
  <2>4. n + 1 + 1 .. n + 1 = {}
    BY <1>0
  <2>5. TokenFrom(x, n + 1)'
    BY <1>0, <1>1, <1>3, <2>2, <2>3, <2>4 DEF TokenFrom
  <2> QED
    BY <1>0, <2>5
<1>4. CASE ~(tx.call.fn = "IssueCrossZoneToken" /\ TokenId(tx) = x)
  <2>1. CztKey(x) \in DOMAIN world /\ world'[CztKey(x)] = world[CztKey(x)]
    BY <1>4, <1>after DEF TokenAfter
  <2>2. ~(tx.call.fn = "RevokeCrossZoneToken" /\ tx.call.token = x)
    BY <1>after DEF TokenAfter
  <2>3. PICK k \in 1 .. n : TokenFrom(x, k)
    BY <1>0, <1>1, <2>1 DEF TokenInv
  <2>4. \A i \in k + 1 .. n + 1 : (i \in k + 1 .. n /\ i \in 1 .. n) \/ i = n + 1
    BY <1>0
  <2>5. \A i \in k + 1 .. n + 1 :
          log'[i].call.fn = "RevokeCrossZoneToken" => log'[i].call.token # x
    BY <1>0, <2>2, <2>3, <2>4 DEF TokenFrom
  <2>6. log'[k] = log[k]
    BY <1>0
  <2>7. TokenFrom(x, k)'
    BY <1>0, <1>1, <2>1, <2>3, <2>5, <2>6 DEF TokenFrom
  <2> QED
    BY <1>0, <2>7
<1> QED
  BY <1>3, <1>4

(* No execution shortens the revocation list.                              *)
LEMMA CrlExecute ==
  ASSUME NEW tx, tx.call.fn \in Functions, Serial!Execute(tx), CrlInv
  PROVE  CrlInv'
<1>1. world' = Apply(world, Effect(world, tx))
  BY DEF Serial!Execute
<1> QED
  BY <1>1, CrlOutcome DEF CrlInv

(* What an earlier entry was justified by justifies it still.              *)
LEMMA JustifiedKept ==
  ASSUME NEW tx, NEW n, Grows(tx, n), NEW m \in 1 .. n, Justified(m)
  PROVE  Justified(m)'
<1>0. /\ n \in Nat /\ m \in 1 .. n + 1 /\ log'[m] = log[m]
      /\ \A i \in 1 .. m - 1 : i \in 1 .. n /\ log'[i] = log[i]
  BY DEF Grows
<1>1. PICK s : s = Requester(log[m]) /\ s = Requester(log'[m])
  BY <1>0
<1>2. PICK a \in 1 .. m - 1, x \in 1 .. m - 1 :
        /\ LastAssign(s, m, a) /\ LastExpiry(s, m, x) /\ ~RevokedSince(s, a, m)
        /\ hasPermission(log[a].call.role, Asked(log[m]))
        /\ log[x].call.expiry # Nil => log[m].ts < log[x].call.expiry + TicksPerSecond
        /\ \/ ~needsZoneCheck(Asked(log[m]))
           \/ validateZoneAccess(log[a].call.zones, log[m].call.zone)
           \/ log[m].call.fn = "CheckAccess" /\ TokenOpens(m)
  BY <1>1 DEF Justified
<1>3. a \in 1 .. n /\ x \in 1 .. n /\ log'[a] = log[a] /\ log'[x] = log[x]
  BY <1>0
<1>4. LastAssign(s, m, a)' /\ LastExpiry(s, m, x)' /\ ~RevokedSince(s, a, m)'
  BY <1>0, <1>2, <1>3, PrefixKept
<1>5. ASSUME TokenOpens(m) PROVE TokenOpens(m)'
  <2>1. PICK k \in 1 .. m - 1 :
          /\ log[k].call.fn = "IssueCrossZoneToken"
          /\ TokenId(log[k]) = log[m].call.token
          /\ log[k].call.subject = log[m].call.subject
          /\ log[m].call.zone \in log[k].call.zones
          /\ log[m].ts < log[k].call.expiry
          /\ \A i \in k + 1 .. m - 1 :
               log[i].call.fn = "RevokeCrossZoneToken" => log[i].call.token # log[m].call.token
    BY <1>5 DEF TokenOpens
  <2>2. \A i \in k + 1 .. m - 1 : log'[i] = log[i]
    BY <1>0
  <2>3. log'[k] = log[k]
    BY <1>0
  <2> QED
    BY <1>0, <2>1, <2>2, <2>3 DEF TokenOpens
<1>6. log[m].call.caller \notin Revoked
  BY DEF Justified
<1> QED
  BY <1>0, <1>1, <1>2, <1>3, <1>4, <1>5, <1>6 DEF Justified

(* The request a call asks access for.                                     *)
Asks(tx) == IF tx.call.fn = "WriteSensorData" THEN WriteRequest(tx) ELSE Request(tx)

(* A call answered with a grant passed every check of CheckAccess.         *)
LEMMA GrantPasses ==
  ASSUME NEW w, NEW tx, tx.call.fn \in Functions, Accepts(w, tx),
         Effect(w, tx).answer = "GRANT"
  PROVE  LET q == Asks(tx)
             key == RoleKey(Requester(tx))
         IN  /\ tx.call.fn \in {"CheckAccess", "WriteSensorData"}
             /\ CrlKey(tx.call.caller) \notin DOMAIN w
             /\ key \in DOMAIN w /\ ~checkRoleExpired(w[key], tx.ts)
             /\ hasPermission(w[key].role, Asked(tx))
             /\ \/ ~needsZoneCheck(Asked(tx))
                \/ validateZoneAccess(w[key].zones, tx.call.zone)
                \/ /\ tx.call.fn = "CheckAccess"
                   /\ validCrossZoneToken(w, tx.call.token, tx.call.subject, tx.call.zone, tx.ts) = "GRANT"
<1> DEFINE q == Asks(tx)
<1>1. tx.call.fn \in {"CheckAccess", "WriteSensorData"}
  BY DEF Effect, Functions, AdminEffect, AssignRoleEffect, RevokeRoleEffect, RenewRoleEffect,
         IssueCrossZoneTokenEffect, RevokeCrossZoneTokenEffect, PruneNoncesEffect
<1>2. AccessDecision(w, tx, q) = "GRANT"
  <2>1. CASE tx.call.fn = "CheckAccess"
    BY <2>1 DEF Effect, CheckAccessEffect, Asks
  <2>2. CASE tx.call.fn = "WriteSensorData"
    BY <2>2 DEF Accepts, WriteSensorDataAccepts, Asks
  <2> QED
    BY <1>1, <2>1, <2>2
<1>3. /\ q.user = Requester(tx) /\ q.perm = Asked(tx) /\ q.zone = tx.call.zone
      /\ IF tx.call.fn = "CheckAccess" THEN q.user = tx.call.subject /\ q.token = tx.call.token
                                       ELSE q.token = Nil
  BY <1>1 DEF Asks, WriteRequest, Request, Requester, Asked, Caller
<1> HIDE DEF q
<1>4. /\ CrlKey(tx.call.caller) \notin DOMAIN w
      /\ RoleKey(q.user) \in DOMAIN w /\ ~checkRoleExpired(w[RoleKey(q.user)], tx.ts)
      /\ hasPermission(w[RoleKey(q.user)].role, q.perm)
      /\ \/ ZoneOpen(w, q)
         \/ q.token # Nil /\ validCrossZoneToken(w, q.token, q.user, q.zone, tx.ts) = "GRANT"
  BY <1>2 DEF AccessDecision, Caller
<1> QED
  BY <1>1, <1>3, <1>4 DEF ZoneOpen

(* A call answered with a grant is justified by the calls before it.       *)
LEMMA GrantJustified ==
  ASSUME log \in Seq(LogEntry), NEW n, NEW tx \in LogEntry, tx.call.fn \in Functions,
         Serial!Execute(tx), Grows(tx, n), RoleInv, TokenInv, CrlInv,
         Effect(world, tx).answer = "GRANT"
  PROVE  Justified(n + 1)'
<1> DEFINE s == Requester(tx)
           key == RoleKey(s)
<1>0. /\ n \in Nat /\ Height = n + 1 /\ Len(log) = n /\ n + 1 - 1 = n /\ n + 1 \in 1 .. n + 1
      /\ log'[n + 1] = tx /\ \A i \in 1 .. n : log'[i] = log[i]
  BY DEF Grows, Height
<1>1. Accepts(world, tx)
  BY DEF Serial!Execute
<1>2. /\ tx.call.fn \in {"CheckAccess", "WriteSensorData"}
      /\ CrlKey(tx.call.caller) \notin DOMAIN world
      /\ key \in DOMAIN world /\ ~checkRoleExpired(world[key], tx.ts)
      /\ hasPermission(world[key].role, Asked(tx))
      /\ \/ ~needsZoneCheck(Asked(tx))
         \/ validateZoneAccess(world[key].zones, tx.call.zone)
         \/ /\ tx.call.fn = "CheckAccess"
            /\ validCrossZoneToken(world, tx.call.token, tx.call.subject, tx.call.zone, tx.ts) = "GRANT"
  BY <1>1, GrantPasses
<1>3. tx.ts \in Nat /\ tx.call \in Calls
  BY LedgerAssumption DEF LogEntry, Times
<1>4. s \in Users
  <2>1. s = Requester([call |-> tx.call])
    BY DEF Requester
  <2> QED
    BY <1>2, <1>3, <2>1 DEF Users
<1>5. tx.call.caller \notin Revoked
  BY <1>2 DEF CrlInv
<1>6. PICK a \in 1 .. n, x \in 1 .. n :
        /\ LastAssign(s, n + 1, a) /\ LastExpiry(s, n + 1, x) /\ ~RevokedSince(s, a, n + 1)
        /\ world[key] = Assignment(a, x)
        /\ log[x].call.expiry # Nil => log[x].call.expiry \in Nat /\ log[x].call.expiry >= StartTime
  BY <1>0, <1>2, <1>4 DEF RoleInv, RoleHeld
<1>7. LastAssign(s, n + 1, a)' /\ LastExpiry(s, n + 1, x)' /\ ~RevokedSince(s, a, n + 1)'
  BY <1>0, <1>6, PrefixKept
<1>8. /\ world[key].role = log[a].call.role /\ world[key].zones = log[a].call.zones
      /\ world[key].expiresAt = (IF log[x].call.expiry = Nil THEN 0 ELSE Unix(log[x].call.expiry))
  BY <1>6 DEF Assignment
<1>9. ASSUME log[x].call.expiry # Nil PROVE tx.ts < log[x].call.expiry + TicksPerSecond
  <2>1. PICK e \in Nat : e = log[x].call.expiry /\ e >= StartTime
    BY <1>6, <1>9
  <2>2. Unix(e) # 0
    <3>0. StartTime \in Nat /\ TicksPerSecond <= StartTime
      BY LedgerAssumption
    <3>1. TicksPerSecond <= e
      <4>1. TicksPerSecond \in Nat
        BY ConstantsAssumption
      <4> QED
        BY <2>1, <3>0, <4>1
    <3> QED
      BY <3>1, UnixFacts
  <2>3. ~(Unix(tx.ts) > Unix(e))
    BY <1>2, <1>8, <1>9, <2>1, <2>2 DEF checkRoleExpired
  <2>4. tx.ts < e + TicksPerSecond
    <3>1. /\ Unix(tx.ts) \in Nat /\ Unix(e) \in Nat
          /\ Unix(tx.ts) <= Unix(e) => tx.ts < e + TicksPerSecond
      BY <1>3, UnixFacts
    <3> QED
      BY <2>3, <3>1
  <2> QED
    BY <2>1, <2>4
<1>10. ASSUME tx.call.fn = "CheckAccess",
              validCrossZoneToken(world, tx.call.token, tx.call.subject, tx.call.zone, tx.ts) = "GRANT"
       PROVE  TokenOpens(n + 1)'
  <2> DEFINE t == tx.call.token
             czt == CztKey(t)
  <2>1. t \in Tokens
    BY <1>3, <1>10 DEF Tokens
  <2>2. /\ czt \in DOMAIN world /\ world[czt].subject = tx.call.subject
        /\ ~TokenExpired(world[czt], tx.ts) /\ tx.call.zone \in world[czt].zones
    BY <1>10 DEF validCrossZoneToken
  <2>3. PICK k \in 1 .. n : TokenFrom(t, k)
    BY <1>0, <2>1, <2>2 DEF TokenInv
  <2>4. /\ log[k].call.fn = "IssueCrossZoneToken" /\ TokenId(log[k]) = t
        /\ log[k].call.expiry \in Nat
        /\ world[czt] = [subject |-> log[k].call.subject, zones |-> log[k].call.zones,
                         issuedAt |-> Unix(log[k].ts), expiresAt |-> Unix(log[k].call.expiry)]
        /\ \A i \in k + 1 .. n : log[i].call.fn = "RevokeCrossZoneToken" => log[i].call.token # t
    BY <1>0, <2>3 DEF TokenFrom
  <2>5. /\ log[k].call.subject = tx.call.subject /\ tx.call.zone \in log[k].call.zones
        /\ ~(Unix(log[k].call.expiry) <= Unix(tx.ts))
    BY <2>2, <2>4 DEF TokenExpired
  <2>6. tx.ts < log[k].call.expiry
    <3>1. PICK e \in Nat : e = log[k].call.expiry
      BY <2>4
    <3>2. /\ Unix(tx.ts) \in Nat /\ Unix(e) \in Nat
          /\ Unix(tx.ts) < Unix(e) => tx.ts < e
      BY <1>3, UnixFacts
    <3>3. ~(Unix(e) <= Unix(tx.ts))
      BY <2>5, <3>1
    <3>4. tx.ts < e
      BY <3>2, <3>3
    <3> QED
      BY <3>1, <3>4
  <2>7. /\ log'[k] = log[k] /\ k \in 1 .. n + 1 - 1
        /\ \A i \in k + 1 .. n + 1 - 1 : i \in k + 1 .. n /\ log'[i] = log[i]
    BY <1>0
  <2> QED
    BY <1>0, <2>4, <2>5, <2>6, <2>7 DEF TokenOpens
<1>11. log'[a] = log[a] /\ log'[x] = log[x] /\ a \in 1 .. n + 1 - 1 /\ x \in 1 .. n + 1 - 1
  BY <1>0
<1> HIDE DEF key
<1>12. s = Requester(log'[n + 1])
  BY <1>0
<1> HIDE DEF s
<1> QED
  BY <1>0, <1>2, <1>5, <1>7, <1>8, <1>9, <1>10, <1>11, <1>12 DEF Justified

(* Every execution keeps every grant justified.                            *)
LEMMA GrantExecute ==
  ASSUME log \in Seq(LogEntry), answers \in Seq(Answers), Len(answers) = Len(log),
         NEW n, NEW tx \in LogEntry, tx.call.fn \in Functions,
         Serial!Execute(tx), Grows(tx, n), RoleInv, TokenInv, CrlInv, GrantInv
  PROVE  GrantInv'
<1>1. /\ n \in Nat /\ n = Len(log) /\ DOMAIN log = 1 .. n /\ DOMAIN log' = 1 .. n + 1
      /\ answers'[n + 1] = Effect(world, tx).answer
      /\ \A i \in 1 .. n : answers'[i] = answers[i]
  BY LogGrows DEF Grows
<1> SUFFICES ASSUME NEW m \in 1 .. n + 1, answers'[m] = "GRANT"
             PROVE  Justified(m)'
  BY <1>1 DEF GrantInv
<1>2. CASE m \in 1 .. n
  <2>1. Justified(m)
    BY <1>1, <1>2 DEF GrantInv
  <2> QED
    BY <1>2, <2>1, JustifiedKept
<1>3. CASE m = n + 1
  BY <1>1, <1>3, GrantJustified
<1> QED
  BY <1>1, <1>2, <1>3

-----------------------------------------------------------------------------
(* Before the first transaction nothing is recorded but the revocation     *)
(* list.                                                                   *)
LEMMA InitHistory == Init => HistoryInv
<1> SUFFICES ASSUME Init PROVE HistoryInv
  OBVIOUS
<1>1. log = <<>> /\ Len(log) = 0 /\ DOMAIN log = {} /\ Height = 1
  BY DEF Init, Height
<1>2. DOMAIN world = {CrlKey(s) : s \in Revoked}
  BY DEF Init, InitialWorld
<1>3. \A s : RoleKey(s) \notin DOMAIN world /\ CztKey(s) \notin DOMAIN world
  BY <1>2, KindsApart
<1>4. 1 .. Height - 1 = {}
  BY <1>1
<1>5. NonceInv /\ NonceUsedOnce /\ GrantInv
  BY <1>1 DEF NonceInv, NonceUsedOnce, GrantInv
<1>6. RoleInv
  BY <1>3, <1>4 DEF RoleInv, RoleGone
<1>7. TokenInv /\ CrlInv
  BY <1>2, <1>3 DEF TokenInv, CrlInv
<1> QED
  BY <1>5, <1>6, <1>7 DEF HistoryInv

(* The invariant speaks of the committed state only.                       *)
LEMMA HistoryStutters ==
  ASSUME HistoryInv, UNCHANGED <<world, log, answers>>
  PROVE  HistoryInv'
<1>1. world' = world /\ log' = log /\ answers' = answers
  OBVIOUS
<1>2. NonceInv'
  BY <1>1 DEF HistoryInv, NonceInv, Recorded, PrunedBy, NonceOf
<1>3. NonceUsedOnce'
  BY <1>1 DEF HistoryInv, NonceUsedOnce, SameNonce
<1>4. RoleInv'
  BY <1>1 DEF HistoryInv, RoleInv, RoleHeld, RoleGone, Lapsed, Assignment, LastAssign,
     LastExpiry, RevokedSince, Height
<1>5. TokenInv' /\ CrlInv'
  BY <1>1 DEF HistoryInv, TokenInv, TokenFrom, CrlInv
<1>6. GrantInv'
  BY <1>1 DEF HistoryInv, GrantInv, Justified, TokenOpens, LastAssign, LastExpiry, RevokedSince
<1> QED
  BY <1>2, <1>3, <1>4, <1>5, <1>6 DEF HistoryInv

(* Every step keeps the invariant of the history.                          *)
LEMMA NextHistory == IInv /\ AuditInv /\ HistoryInv /\ [Next]_vars => HistoryInv'
<1> SUFFICES ASSUME IInv, AuditInv, HistoryInv, [Next]_vars PROVE HistoryInv'
  OBVIOUS
<1>1. log \in Seq(LogEntry) /\ answers \in Seq(Answers) /\ Len(answers) = Len(log)
  BY DEF IInv, Chain, AuditInv
<1>2. ASSUME NEW tx \in LogEntry, Serial!Execute(tx), tx.call.fn \in Functions
      PROVE  HistoryInv'
  <2>1. PICK n : n = Len(log)
    OBVIOUS
  <2>2. Grows(tx, n)
    BY <1>1, <1>2, <2>1, LogGrows DEF Grows
  <2>3. NonceInv' /\ NonceUsedOnce'
    BY <1>1, <1>2, NonceExecute DEF HistoryInv
  <2>4. RoleInv'
    BY <1>1, <1>2, <2>2, RoleExecute DEF HistoryInv
  <2>5. TokenInv'
    BY <1>1, <1>2, <2>2, TokenExecute DEF HistoryInv
  <2>6. CrlInv'
    BY <1>2, CrlExecute DEF HistoryInv
  <2>7. GrantInv'
    BY <1>1, <1>2, <2>2, GrantExecute DEF HistoryInv
  <2> QED
    BY <2>3, <2>4, <2>5, <2>6, <2>7 DEF HistoryInv
<1> QED
  BY <1>2, LedgerSteps, HistoryStutters

(* The world state, the answers and the history of committed calls agree,  *)
(* whatever transactions overlap.                                          *)
THEOREM HistoryInvariance == Spec => []HistoryInv
<1> QED
  BY InitIInv, NextIInv, InitAudit, NextAudit, InitHistory, NextHistory, PTL DEF Spec

(* validateNonce: a nonce is accepted a second time only after a           *)
(* PruneNonces that was asked to forget its first use.                     *)
THEOREM NoncesUsedOnce == Spec => []NonceUsedOnce
<1>1. HistoryInv => NonceUsedOnce
  BY DEF HistoryInv
<1> QED
  BY <1>1, HistoryInvariance, PTL

-----------------------------------------------------------------------------
(* The latest entries as the properties name them.                         *)
LEMMA LatestFound ==
  ASSUME log \in Seq(LogEntry), NEW n \in Nat, NEW s
  PROVE  /\ \A a : LastAssign(s, n, a) => AssignedAt(s, n) # {} /\ Latest(AssignedAt(s, n)) = a
         /\ \A x : LastExpiry(s, n, x) => ExpiryAt(s, n) = log[x].call.expiry
<1>1. ASSUME NEW S, NEW a \in S, S \subseteq Int, \A i \in S : i <= a
      PROVE  Latest(S) = a
  <2>1. \A i \in S : (\A j \in S : j <= i) => i = a
    BY <1>1
  <2> QED
    BY <1>1, <2>1 DEF Latest
<1>2. ASSUME NEW a, LastAssign(s, n, a)
      PROVE  AssignedAt(s, n) # {} /\ Latest(AssignedAt(s, n)) = a
  <2> DEFINE S == {i \in 1 .. n - 1 : Assigns(s, log[i])}
  <2>1. AssignedAt(s, n) = S
    BY DEF AssignedAt, Before
  <2>2. a \in S /\ S \subseteq Int /\ \A i \in S : i <= a
    <3>1. a \in 1 .. n - 1 /\ Assigns(s, log[a]) /\ \A i \in a + 1 .. n - 1 : ~Assigns(s, log[i])
      BY <1>2 DEF LastAssign
    <3>2. \A i \in 1 .. n - 1 : i <= a \/ i \in a + 1 .. n - 1
      BY <3>1
    <3> QED
      BY <3>1, <3>2
  <2> HIDE DEF S
  <2> QED
    BY <1>1, <2>1, <2>2
<1>3. ASSUME NEW x, LastExpiry(s, n, x) PROVE ExpiryAt(s, n) = log[x].call.expiry
  <2> DEFINE S == {i \in 1 .. n - 1 : SetsExpiry(s, log[i])}
  <2>1. ExpiryAt(s, n) = log[Latest(S)].call.expiry
    BY DEF ExpiryAt, Before
  <2>2. x \in S /\ S \subseteq Int /\ \A i \in S : i <= x
    <3>1. /\ x \in 1 .. n - 1 /\ SetsExpiry(s, log[x])
          /\ \A i \in x + 1 .. n - 1 : ~SetsExpiry(s, log[i])
      BY <1>3 DEF LastExpiry
    <3>2. \A i \in 1 .. n - 1 : i <= x \/ i \in x + 1 .. n - 1
      BY <3>1
    <3> QED
      BY <3>1, <3>2
  <2> HIDE DEF S
  <2> QED
    BY <1>1, <2>1, <2>2
<1> QED
  BY <1>2, <1>3

(* CheckAccess grants only what earlier committed calls justify.           *)
THEOREM GrantsAreJustified == Spec => []GrantsJustified
<1>1. ASSUME IInv, HistoryInv PROVE GrantsJustified
  <2>1. log \in Seq(LogEntry)
    BY <1>1 DEF IInv, Chain
  <2> SUFFICES ASSUME NEW n \in DOMAIN log, answers[n] = "GRANT"
               PROVE  LET s == Requester(log[n])
                          assign == log[Latest(AssignedAt(s, n))].call
                      IN  /\ log[n].call.caller \notin Revoked
                          /\ AssignedAt(s, n) # {}
                          /\ ~RevokedSince(s, Latest(AssignedAt(s, n)), n)
                          /\ hasPermission(assign.role, Asked(log[n]))
                          /\ ExpiryAt(s, n) # Nil => log[n].ts < ExpiryAt(s, n) + TicksPerSecond
                          /\ \/ ~needsZoneCheck(Asked(log[n]))
                             \/ validateZoneAccess(assign.zones, log[n].call.zone)
                             \/ log[n].call.fn = "CheckAccess" /\ TokenOpens(n)
    BY DEF GrantsJustified
  <2> DEFINE s == Requester(log[n])
  <2>2. n \in Nat /\ Justified(n)
    BY <1>1, <2>1 DEF HistoryInv, GrantInv
  <2>3. PICK a \in 1 .. n - 1, x \in 1 .. n - 1 :
          /\ LastAssign(s, n, a) /\ LastExpiry(s, n, x) /\ ~RevokedSince(s, a, n)
          /\ hasPermission(log[a].call.role, Asked(log[n]))
          /\ log[x].call.expiry # Nil => log[n].ts < log[x].call.expiry + TicksPerSecond
          /\ \/ ~needsZoneCheck(Asked(log[n]))
             \/ validateZoneAccess(log[a].call.zones, log[n].call.zone)
             \/ log[n].call.fn = "CheckAccess" /\ TokenOpens(n)
    BY <2>2 DEF Justified
  <2>4. /\ AssignedAt(s, n) # {} /\ Latest(AssignedAt(s, n)) = a
        /\ ExpiryAt(s, n) = log[x].call.expiry
    BY <2>1, <2>2, <2>3, LatestFound
  <2>5. log[n].call.caller \notin Revoked
    BY <2>2 DEF Justified
  <2> QED
    BY <2>3, <2>4, <2>5
<1> QED
  BY <1>1, Invariance, HistoryInvariance, PTL

(* A role assigned and gone was revoked, or had expired at an access check *)
(* that saw the latest renewal (checkRoleExpiration).                      *)
THEOREM RolesKept == Spec => []RolesKeptUntilRevoked
<1>1. ASSUME IInv, HistoryInv PROVE RolesKeptUntilRevoked
  <2>1. log \in Seq(LogEntry)
    BY <1>1 DEF IInv, Chain
  <2>2. PICK n \in Nat : n = Len(log) + 1 /\ n = Height
    BY <2>1 DEF Height
  <2> SUFFICES ASSUME NEW s \in Subjects, AssignedAt(s, n) # {}, RoleKey(s) \notin DOMAIN world
               PROVE  \/ RevokedSince(s, Latest(AssignedAt(s, n)), n)
                      \/ \E m \in Latest(AssignedAt(s, n)) + 1 .. n - 1 :
                           /\ log[m].call.fn = "CheckAccess"
                           /\ log[m].call.subject = s
                           /\ ExpiryAt(s, m) # Nil
                           /\ log[m].ts > ExpiryAt(s, m)
    BY <2>2 DEF RolesKeptUntilRevoked
  <2>3. RoleGone(s, n)
    BY <1>1, <2>2 DEF HistoryInv, RoleInv, Users
  <2>4. \E i \in 1 .. n - 1 : Assigns(s, log[i])
    BY DEF AssignedAt, Before
  <2>5. PICK a \in 1 .. n - 1 : LastAssign(s, n, a) /\ (RevokedSince(s, a, n) \/ Lapsed(s, a, n))
    BY <2>3, <2>4 DEF RoleGone
  <2>6. Latest(AssignedAt(s, n)) = a
    BY <2>1, <2>5, LatestFound
  <2>7. ASSUME Lapsed(s, a, n)
        PROVE  \E m \in a + 1 .. n - 1 : /\ log[m].call.fn = "CheckAccess"
                                         /\ log[m].call.subject = s
                                         /\ ExpiryAt(s, m) # Nil
                                         /\ log[m].ts > ExpiryAt(s, m)
    <3> DEFINE Lapse(m, x) ==
                 /\ log[m].call.fn = "CheckAccess" /\ log[m].call.subject = s
                 /\ LastExpiry(s, m, x)
                 /\ log[x].call.expiry # Nil /\ log[m].ts > log[x].call.expiry
    <3>1. PICK m \in a + 1 .. n - 1 : \E x \in 1 .. m - 1 : Lapse(m, x)
      BY <2>7 DEF Lapsed
    <3>2. PICK x \in 1 .. m - 1 : Lapse(m, x)
      BY <3>1
    <3>3. m \in Nat
      BY <2>2
    <3>4. ExpiryAt(s, m) = log[x].call.expiry
      BY <2>1, <3>2, <3>3, LatestFound
    <3> QED
      BY <3>2, <3>4
  <2> QED
    BY <2>5, <2>6, <2>7
<1> QED
  BY <1>1, Invariance, HistoryInvariance, PTL

-----------------------------------------------------------------------------
(* The nonce index lists recorded nonces, each once, and leaves out only   *)
(* those of PruneNonces calls.                                             *)
NoncesIn(w) == {key \in DOMAIN w : key[1] = "nonce"}
PruneCalls == {i \in DOMAIN log : log[i].call.fn = "PruneNonces"}
OfPrune == {NonceKey(log[i].call.caller, log[i].call.nonce) : i \in PruneCalls}

IndexInv ==
  LET index == getStringIndex(world, NonceIndex)
  IN  /\ index \in Seq(NoncesIn(world))
      /\ Distinct(index)
      /\ NoncesIn(world) \ Entries(index) \subseteq OfPrune

(* What a call makes of the nonce index and of the recorded nonces.        *)
IndexAfter(w, w2, tx) ==
  LET index == getStringIndex(w, NonceIndex)
      index2 == getStringIndex(w2, NonceIndex)
  IN  CASE tx.call.fn = "CheckAccess" ->
             index2 = index /\ NoncesIn(w2) = NoncesIn(w)
        [] tx.call.fn = "PruneNonces" ->
             /\ index2 = KeptIndex(w, tx)
             /\ NoncesIn(w2) = (NoncesIn(w) \ PrunedKeys(w, tx)) \cup {OwnNonce(tx)}
        [] OTHER ->
             /\ index2 = Append(index, OwnNonce(tx))
             /\ NoncesIn(w2) = NoncesIn(w) \cup {OwnNonce(tx)}

(* An accepted call leaves the nonces and their index so.                  *)
LEMMA IndexOutcome ==
  ASSUME NEW w, NEW tx, tx.call.fn \in Functions
  PROVE  IndexAfter(w, Apply(w, Effect(w, tx)), tx)
<1> DEFINE w2 == Apply(w, Effect(w, tx))
           e == Effect(w, tx)
           mine == IF UsesNonce(tx.call) THEN {OwnNonce(tx)} ELSE {}
           gone == IF tx.call.fn = "PruneNonces" THEN PrunedKeys(w, tx) ELSE {}
<1>0. NonceIndex \notin AuditKeys(tx) /\ OwnNonce(tx)[1] = "nonce" /\ NonceIndex[1] # "nonce"
  BY DEF NonceIndex, AuditKeys, AuditKey, AuditIndex, OwnNonce, NonceKey
<1>1. /\ e.dels = OwnDels(w, tx)
      /\ DOMAIN e.puts = AuditKeys(tx) \cup DOMAIN OwnPuts(w, tx)
                           \cup (IF UsesNonce(tx.call) THEN NonceReads(tx) ELSE {})
      /\ \A k \in DOMAIN OwnPuts(w, tx) \ AuditKeys(tx) : e.puts[k] = OwnPuts(w, tx)[k]
      /\ UsesNonce(tx.call) =>
           \A k \in NonceReads(tx) \ (AuditKeys(tx) \cup DOMAIN OwnPuts(w, tx)) :
             e.puts[k] = NoncePuts(w, tx)[k]
  BY CallWrites
<1>2. \A k : k[1] = "nonce" => k \notin AuditKeys(tx) /\ k \notin DOMAIN OwnPuts(w, tx)
  BY DEF AuditKeys, AuditKey, AuditIndex, OwnPuts, Put, RoleKey, CztKey, SensorKey, NonceIndex, Functions
<1>3. \A k : k[1] = "nonce" => (k \in OwnDels(w, tx) <=> k \in gone)
  <2>1. \A s : RoleKey(s)[1] # "nonce" /\ CztKey(s)[1] # "nonce"
    BY DEF RoleKey, CztKey
  <2>2. CASE tx.call.fn = "PruneNonces"
    BY <2>2 DEF OwnDels
  <2>3. CASE tx.call.fn # "PruneNonces"
    <3>1. \A k \in OwnDels(w, tx) : \E s : k = RoleKey(s) \/ k = CztKey(s)
      BY <2>3 DEF OwnDels, AutoRevoked, Functions
    <3> QED
      BY <2>1, <2>3, <3>1
  <2> QED
    BY <2>2, <2>3
<1>4. DOMAIN w2 = (DOMAIN w \ e.dels) \cup DOMAIN e.puts
  BY DEF Apply
<1>5. \A k : k[1] = "nonce" => (k \in DOMAIN e.puts <=> k \in mine)
  BY <1>0, <1>1, <1>2 DEF NonceReads
<1>6. NoncesIn(w2) = (NoncesIn(w) \ gone) \cup mine
  <2> HIDE DEF w2, e, mine, gone
  <2>1. \A k : k \in mine => k[1] = "nonce"
    BY <1>0 DEF mine
  <2> QED
    BY <1>1, <1>3, <1>4, <1>5, <2>1 DEF NoncesIn
<1>7. NonceIndex \notin OwnDels(w, tx)
  BY <1>0 DEF OwnDels, AutoRevoked, PrunedKeys, Prunable, NonceIndex, RoleKey, CztKey, Functions
<1>8. CASE tx.call.fn = "CheckAccess"
  <2>1. NonceIndex \notin DOMAIN OwnPuts(w, tx) /\ ~UsesNonce(tx.call)
    BY <1>8 DEF OwnPuts, UsesNonce
  <2>2. getStringIndex(w2, NonceIndex) = getStringIndex(w, NonceIndex)
    BY <1>0, <1>7, <2>1, Untouched DEF getStringIndex
  <2>3. mine = {} /\ gone = {}
    BY <1>8, <2>1
  <2> HIDE DEF w2, mine, gone
  <2>4. IndexAfter(w, w2, tx)
    BY <1>6, <1>8, <2>2, <2>3 DEF IndexAfter
  <2> QED
    BY <2>4 DEF w2
<1>9. CASE tx.call.fn = "PruneNonces"
  <2>1. NonceIndex \in DOMAIN OwnPuts(w, tx) /\ OwnPuts(w, tx)[NonceIndex] = KeptIndex(w, tx)
    BY <1>9 DEF OwnPuts, Put
  <2>2. getStringIndex(w2, NonceIndex) = KeptIndex(w, tx)
    BY <1>0, <2>1, Touched DEF getStringIndex
  <2>3. mine = {OwnNonce(tx)} /\ gone = PrunedKeys(w, tx)
    BY <1>9 DEF UsesNonce
  <2> HIDE DEF w2, mine, gone
  <2>4. IndexAfter(w, w2, tx)
    BY <1>6, <1>9, <2>2, <2>3 DEF IndexAfter
  <2> QED
    BY <2>4 DEF w2
<1>10. CASE tx.call.fn \notin {"CheckAccess", "PruneNonces"}
  <2>1. UsesNonce(tx.call) /\ NonceIndex \in NonceReads(tx) /\ NonceIndex \notin DOMAIN OwnPuts(w, tx)
    BY <1>10, KindsApart DEF UsesNonce, NonceReads, OwnPuts, Put, RoleKey, CztKey, SensorKey, NonceIndex
  <2>2. NoncePuts(w, tx)[NonceIndex] = Append(getStringIndex(w, NonceIndex), OwnNonce(tx))
    BY <1>0 DEF NoncePuts, Put, ++
  <2>3. NonceIndex \in DOMAIN e.puts /\ e.puts[NonceIndex] = NoncePuts(w, tx)[NonceIndex]
    BY <1>0, <1>1, <2>1
  <2>4. getStringIndex(w2, NonceIndex) = Append(getStringIndex(w, NonceIndex), OwnNonce(tx))
    BY <2>2, <2>3 DEF Apply, getStringIndex
  <2>5. mine = {OwnNonce(tx)} /\ gone = {}
    BY <1>10, <2>1
  <2> HIDE DEF w2, mine, gone
  <2>6. IndexAfter(w, w2, tx)
    BY <1>6, <1>10, <2>4, <2>5 DEF IndexAfter
  <2> QED
    BY <2>6 DEF w2
<1> QED
  BY <1>8, <1>9, <1>10

(* A list whose entries are all in T is a list over T.                     *)
LEMMA ListOver ==
  ASSUME NEW S, NEW T, NEW seq \in Seq(S), Entries(seq) \subseteq T
  PROVE  seq \in Seq(T)
<1>1. Len(seq) \in Nat /\ seq = [i \in 1 .. Len(seq) |-> seq[i]]
  OBVIOUS
<1>2. \A i \in 1 .. Len(seq) : seq[i] \in T
  BY DEF Entries
<1> QED
  BY <1>1, <1>2

(* Every execution keeps the nonce index exact.                            *)
LEMMA IndexExecute ==
  ASSUME log \in Seq(LogEntry), NEW n, NEW tx \in LogEntry, tx.call.fn \in Functions,
         Serial!Execute(tx), Grows(tx, n), IndexInv
  PROVE  IndexInv'
<1>0. Accepts(world, tx) /\ world' = Apply(world, Effect(world, tx))
  BY DEF Serial!Execute
<1>1. PICK w, w2 : w = world /\ w2 = world'
  OBVIOUS
<1>2. IndexAfter(w, w2, tx)
  BY <1>0, <1>1, IndexOutcome
<1> DEFINE old == getStringIndex(w, NonceIndex)
           new == getStringIndex(w2, NonceIndex)
           own == OwnNonce(tx)
<1>3. old \in Seq(NoncesIn(w)) /\ Distinct(old) /\ NoncesIn(w) \ Entries(old) \subseteq OfPrune
  BY <1>1 DEF IndexInv
<1>4. OfPrune \subseteq OfPrune' /\ (tx.call.fn = "PruneNonces" => own \in OfPrune')
  <2>1. /\ DOMAIN log = 1 .. n /\ DOMAIN log' = 1 .. n + 1 /\ n \in Nat
        /\ \A i \in 1 .. n : i \in 1 .. n + 1 /\ log'[i] = log[i]
        /\ n + 1 \in 1 .. n + 1 /\ log'[n + 1] = tx
    BY DEF Grows
  <2>2. OfPrune \subseteq OfPrune'
    BY <2>1 DEF OfPrune, PruneCalls
  <2>3. ASSUME tx.call.fn = "PruneNonces" PROVE own \in OfPrune'
    BY <2>1, <2>3 DEF OfPrune, PruneCalls, OwnNonce, Caller
  <2> QED
    BY <2>2, <2>3
<1>5. UsesNonce(tx.call) => own \notin DOMAIN w
  BY <1>0, <1>1 DEF UsesNonce, Accepts, Functions, AssignRoleAccepts, RevokeRoleAccepts,
       RenewRoleAccepts, IssueCrossZoneTokenAccepts, RevokeCrossZoneTokenAccepts,
       WriteSensorDataAccepts, PruneNoncesAccepts, validateNonce
<1>6. Entries(old) \subseteq NoncesIn(w)
  BY <1>3 DEF Entries
<1>7. /\ new \in Seq(NoncesIn(w2)) /\ Distinct(new)
      /\ NoncesIn(w2) \ Entries(new) \subseteq OfPrune'
  <2>1. CASE tx.call.fn = "CheckAccess"
    BY <1>2, <1>3, <1>4, <2>1 DEF IndexAfter
  <2>2. CASE tx.call.fn = "PruneNonces"
    <3>1. /\ new = Sifted(old, DOMAIN w \ Prunable(w, tx))
          /\ NoncesIn(w2) = (NoncesIn(w) \ PrunedKeys(w, tx)) \cup {own}
      BY <1>2, <2>2 DEF IndexAfter, KeptIndex
    <3> HIDE DEF old, new, own
    <3>2. /\ new \in Seq(NoncesIn(w)) /\ Distinct(new)
          /\ Entries(new) = Entries(old) \cap (DOMAIN w \ Prunable(w, tx))
      BY <1>3, <3>1, SiftedFacts
    <3>3. PrunedKeys(w, tx) = Entries(old) \cap Prunable(w, tx)
      <4>1. DOMAIN old = 1 .. Len(old)
        BY <1>3
      <4> QED
        BY <4>1 DEF PrunedKeys, Entries, old
    <3>4. Entries(old) \subseteq DOMAIN w
      BY <1>6 DEF NoncesIn
    <3>5. Entries(new) = Entries(old) \ PrunedKeys(w, tx)
      BY <3>2, <3>3, <3>4
    <3>6. Entries(new) \subseteq NoncesIn(w2)
      BY <1>6, <3>1, <3>5
    <3>7. NoncesIn(w2) \ Entries(new) \subseteq OfPrune'
      BY <1>3, <1>4, <2>2, <3>1, <3>5
    <3> QED
      BY <3>2, <3>6, <3>7, ListOver
  <2>3. CASE tx.call.fn \notin {"CheckAccess", "PruneNonces"}
    <3>1. new = Append(old, own) /\ NoncesIn(w2) = NoncesIn(w) \cup {own}
      BY <1>2, <2>3 DEF IndexAfter
    <3>2. own \notin Entries(old)
      BY <1>5, <1>6, <2>3 DEF UsesNonce, NoncesIn
    <3>3. old \in Seq(NoncesIn(w2))
      BY <1>3, <1>6, <3>1, ListOver
    <3> HIDE DEF old, new, own
    <3>4. /\ new \in Seq(NoncesIn(w2)) /\ Len(old) \in Nat /\ Len(new) = Len(old) + 1
          /\ new[Len(old) + 1] = own /\ \A i \in 1 .. Len(old) : new[i] = old[i]
          /\ \A i \in 1 .. Len(new) : i \in 1 .. Len(old) \/ i = Len(old) + 1
          /\ \A i \in 1 .. Len(old) : i \in 1 .. Len(new)
          /\ Len(old) + 1 \in 1 .. Len(new)
      BY <3>1, <3>3
    <3>5. Entries(new) = Entries(old) \cup {own}
      BY <3>4 DEF Entries
    <3>6. Distinct(new)
      BY <1>3, <3>2, <3>4 DEF Distinct, Entries
    <3> QED
      BY <1>3, <1>4, <3>1, <3>4, <3>5, <3>6
  <2> QED
    BY <2>1, <2>2, <2>3
<1> QED
  BY <1>1, <1>7 DEF IndexInv

(* The nonces and their index, whatever transactions overlap.              *)
THEOREM IndexInvariance == Spec => []IndexInv
<1>1. ASSUME Init PROVE IndexInv
  <2>1. DOMAIN world = {CrlKey(s) : s \in Revoked}
    BY <1>1 DEF Init, InitialWorld
  <2>2. \A s : CrlKey(s)[1] # "nonce" /\ CrlKey(s) # NonceIndex
    BY DEF CrlKey, NonceIndex
  <2>3. getStringIndex(world, NonceIndex) = <<>> /\ NoncesIn(world) = {}
    BY <2>1, <2>2 DEF getStringIndex, NoncesIn
  <2> QED
    BY <2>3 DEF IndexInv, Distinct
<1>2. ASSUME IInv, AuditInv, IndexInv, [Next]_vars PROVE IndexInv'
  <2>1. log \in Seq(LogEntry) /\ answers \in Seq(Answers) /\ Len(answers) = Len(log)
    BY <1>2 DEF IInv, Chain, AuditInv
  <2>2. CASE UNCHANGED <<world, log, answers>>
    BY <1>2, <2>2 DEF IndexInv, OfPrune, PruneCalls
  <2>3. ASSUME NEW tx \in LogEntry, Serial!Execute(tx), tx.call.fn \in Functions
        PROVE  IndexInv'
    <3>1. PICK n : n = Len(log)
      OBVIOUS
    <3>2. Grows(tx, n)
      BY <2>1, <2>3, <3>1, LogGrows DEF Grows
    <3> QED
      BY <1>2, <2>1, <2>3, <3>2, IndexExecute
  <2> QED
    BY <1>2, <2>2, <2>3, LedgerSteps
<1> QED
  BY <1>1, <1>2, InitIInv, NextIInv, InitAudit, NextAudit, PTL DEF Spec

(* nonce:index stays exact: PruneNonces rewrites it from the committed     *)
(* list, and so leaves out its own nonce and no other.                     *)
THEOREM NonceIndexed == Spec => []NonceIndexExact
<1>1. ASSUME IndexInv PROVE NonceIndexExact
  <2> DEFINE index == getStringIndex(world, NonceIndex)
             listed == {index[i] : i \in DOMAIN index}
  <2>1. /\ index \in Seq(NoncesIn(world)) /\ Distinct(index)
        /\ NoncesIn(world) \ Entries(index) \subseteq OfPrune
    BY <1>1 DEF IndexInv
  <2> HIDE DEF index
  <2>2. Len(index) \in Nat /\ DOMAIN index = 1 .. Len(index) /\ listed = Entries(index)
    BY <2>1 DEF Entries
  <2>3. Entries(index) \subseteq NoncesIn(world)
    BY <2>1 DEF Entries
  <2>4. Cardinality(Entries(index)) = Len(index)
    <3>1. index \in Bijection(1 .. Len(index), Entries(index))
      <4>1. index \in [1 .. Len(index) -> Entries(index)]
        BY <2>1, <2>2 DEF Entries
      <4> QED
        BY <2>1, <4>1 DEF Bijection, Injection, Surjection, Distinct, Entries, IsInjective
    <3>2. ExistsBijection(1 .. Len(index), Entries(index))
      BY <3>1 DEF ExistsBijection
    <3> QED
      BY <2>2, <3>2, FS_CountingElements
  <2> QED
    BY <2>1, <2>2, <2>3, <2>4 DEF NonceIndexExact, index, NoncesIn, OfPrune, PruneCalls
<1> QED
  BY <1>1, IndexInvariance, PTL

-----------------------------------------------------------------------------
(* The value a key of each kind holds; the two indexes are left to         *)
(* IndexInv and AuditInv.                                                  *)
RoleValue == [role : Roles, zones : SUBSET (validZones \cup {"*"}), issuedAt : Nat, expiresAt : Nat]
NonceValue == [tx : TxIds, ts : Seconds]

Kinded(key, v) ==
  \/ key \in {NonceIndex, AuditIndex}
  \/ \E s : key = CrlKey(s)
  \/ \E d, t : key = SensorKey(d, t)
  \/ \E s : key = RoleKey(s) /\ v \in RoleValue
  \/ \E x : key = CztKey(x) /\ v.subject = x[1] /\ v.expiresAt \in Nat
  \/ \E s, x : key = NonceKey(s, x) /\ v \in NonceValue
  \/ \E id \in TxIds : key = AuditKey(id) /\ v.ts \in Seconds

KeyInv == \A key \in DOMAIN world : Kinded(key, world[key])

(* Transaction times are whole seconds of the clock's range.               *)
LEMMA SecondOf ==
  ASSUME NEW t \in Times
  PROVE  t \in Nat /\ Unix(t) \in Seconds /\ Unix(t) \in Nat
<1>1. t \in Nat /\ MaxTime \in Nat /\ t <= MaxTime
  BY LedgerAssumption DEF Times
<1>2. Unix(t) \in Nat /\ Unix(MaxTime) \in Nat /\ (Unix(MaxTime) < Unix(t) => MaxTime < t)
  BY <1>1, UnixFacts
<1> QED
  BY <1>1, <1>2 DEF Seconds

(* Every accepted call puts under each key a value of its kind.            *)
LEMMA PutsKinded ==
  ASSUME NEW w, NEW tx \in LogEntry, tx.call.fn \in Functions, Accepts(w, tx),
         \A key \in DOMAIN w : Kinded(key, w[key])
  PROVE  \A key \in DOMAIN Effect(w, tx).puts : Kinded(key, Effect(w, tx).puts[key])
<1> DEFINE e == Effect(w, tx)
           own == OwnPuts(w, tx)
<1>0. /\ DOMAIN e.puts = AuditKeys(tx) \cup DOMAIN own
                           \cup (IF UsesNonce(tx.call) THEN NonceReads(tx) ELSE {})
      /\ \A k \in DOMAIN own \ AuditKeys(tx) : e.puts[k] = own[k]
      /\ UsesNonce(tx.call) =>
           \A k \in NonceReads(tx) \ (AuditKeys(tx) \cup DOMAIN own) :
             e.puts[k] = NoncePuts(w, tx)[k]
  BY CallWrites
<1>1. tx.id \in TxIds /\ tx.call \in Calls /\ tx.ts \in Times
  BY DEF LogEntry
<1>2. tx.ts \in Nat /\ Unix(tx.ts) \in Nat /\ Unix(tx.ts) \in Seconds
  BY <1>1, SecondOf
<1>3. ASSUME tx.call.fn \in {"AssignRole", "RenewRole", "IssueCrossZoneToken"}
      PROVE  StoredExpiry(tx) \in Nat
  <2>1. tx.call.expiry # Nil => tx.call.expiry \in Int /\ tx.call.expiry > tx.ts
    BY <1>1, <1>3, LedgerAssumption
       DEF Accepts, AssignRoleAccepts, RenewRoleAccepts, IssueCrossZoneTokenAccepts, FutureExpiry
  <2>2. tx.call.expiry # Nil => tx.call.expiry \in Nat
    BY <1>2, <2>1
  <2> QED
    BY <2>2, UnixFacts DEF StoredExpiry
<1>4. ASSUME NEW key \in AuditKeys(tx) PROVE Kinded(key, e.puts[key])
  <2>1. CASE key = AuditIndex
    BY <2>1 DEF Kinded
  <2>2. CASE key = AuditKey(tx.id)
    <3>1. e.puts[key] = EntryFor(tx, e.answer)
      BY <2>2, AuditEffect DEF Audits
    <3>2. e.puts[key].ts = Unix(tx.ts)
      BY <3>1 DEF EntryFor
    <3> QED
      BY <1>1, <1>2, <2>2, <3>2 DEF Kinded
  <2> QED
    BY <2>1, <2>2 DEF AuditKeys
<1>5. ASSUME NEW key \in DOMAIN own PROVE Kinded(key, own[key])
  <2>1. CASE tx.call.fn = "AssignRole"
    <3>1. /\ key = RoleKey(tx.call.subject)
          /\ own[key] = [role |-> tx.call.role, zones |-> tx.call.zones,
                         issuedAt |-> Unix(tx.ts), expiresAt |-> StoredExpiry(tx)]
      BY <1>5, <2>1 DEF OwnPuts, Put
    <3>2. tx.call.role \in Roles /\ tx.call.zones \in SUBSET (validZones \cup {"*"})
      BY <2>1 DEF Accepts, AssignRoleAccepts, ZonesAccepted
    <3>3. own[key] \in RoleValue
      BY <1>2, <1>3, <2>1, <3>1, <3>2 DEF RoleValue
    <3> QED
      BY <3>1, <3>3 DEF Kinded
  <2>2. CASE tx.call.fn = "RenewRole"
    <3>1. /\ key = RoleKey(tx.call.subject) /\ key \in DOMAIN w
          /\ own[key] = [w[key] EXCEPT !.expiresAt = StoredExpiry(tx)]
      BY <1>5, <2>2 DEF OwnPuts, Put, Accepts, RenewRoleAccepts
    <3>2. w[key] \in RoleValue
      <4>1. /\ \A s : key # CrlKey(s) /\ key # CztKey(s) /\ key # AuditKey(s)
            /\ \A d, t : key # SensorKey(d, t) /\ key # NonceKey(d, t)
            /\ key # NonceIndex /\ key # AuditIndex
        BY <3>1 DEF RoleKey, CrlKey, CztKey, AuditKey, SensorKey, NonceKey, NonceIndex, AuditIndex
      <4> QED
        BY <3>1, <4>1 DEF Kinded
    <3>3. own[key] \in RoleValue
      BY <1>3, <2>2, <3>1, <3>2 DEF RoleValue
    <3> QED
      BY <3>1, <3>3 DEF Kinded
  <2>3. CASE tx.call.fn = "IssueCrossZoneToken"
    <3>1. /\ key = CztKey(TokenId(tx))
          /\ own[key] = [subject |-> tx.call.subject, zones |-> tx.call.zones,
                         issuedAt |-> Unix(tx.ts), expiresAt |-> StoredExpiry(tx)]
      BY <1>5, <2>3 DEF OwnPuts, Put
    <3>2. own[key].subject = TokenId(tx)[1] /\ own[key].expiresAt \in Nat
      BY <1>3, <2>3, <3>1 DEF TokenId
    <3> QED
      BY <3>1, <3>2 DEF Kinded
  <2>4. CASE tx.call.fn = "WriteSensorData"
    BY <1>5, <2>4 DEF OwnPuts, Put, Kinded
  <2>5. CASE tx.call.fn = "PruneNonces"
    BY <1>5, <2>5 DEF OwnPuts, Put, Kinded
  <2>6. CASE tx.call.fn \in {"RevokeRole", "RevokeCrossZoneToken", "CheckAccess"}
    <3>1. own = <<>> /\ DOMAIN <<>> = {}
      BY <2>6 DEF OwnPuts
    <3> QED
      BY <1>5, <3>1
  <2> QED
    BY <2>1, <2>2, <2>3, <2>4, <2>5, <2>6 DEF Functions
<1>6. ASSUME NEW key \in NonceReads(tx) PROVE Kinded(key, NoncePuts(w, tx)[key])
  <2>1. CASE key = NonceIndex
    BY <2>1 DEF Kinded
  <2>2. CASE key = OwnNonce(tx)
    <3>1. NoncePuts(w, tx)[key] = [tx |-> tx.id, ts |-> Unix(tx.ts)]
      BY <2>2 DEF NoncePuts, Put, ++
    <3>2. NoncePuts(w, tx)[key] \in NonceValue
      BY <1>1, <1>2, <3>1 DEF NonceValue
    <3> QED
      BY <2>2, <3>2 DEF Kinded, OwnNonce
  <2> QED
    BY <1>6, <2>1, <2>2 DEF NonceReads
<1> HIDE DEF own, e
<1>7. ASSUME NEW key \in DOMAIN e.puts PROVE Kinded(key, e.puts[key])
  <2>1. CASE key \in AuditKeys(tx)
    BY <1>4, <2>1
  <2>2. CASE key \notin AuditKeys(tx) /\ key \in DOMAIN own
    <3>1. e.puts[key] = own[key]
      BY <1>0, <2>2
    <3> QED
      BY <1>5, <2>2, <3>1
  <2>3. CASE key \notin AuditKeys(tx) /\ key \notin DOMAIN own
    <3>1. key \in NonceReads(tx) /\ e.puts[key] = NoncePuts(w, tx)[key]
      BY <1>0, <1>7, <2>3
    <3> QED
      BY <1>6, <3>1
  <2> QED
    BY <2>1, <2>2, <2>3
<1> QED
  BY <1>7 DEF e

(* What is known of a transaction whatever its status.                     *)
TxShape(id) ==
  LET t == txs[id]
  IN  \/ t = Unused
      \/ \E s \in {"rejected", "committed", "invalid", "abandoned"} : t = Closed(s)
      \/ /\ t.status \in {"proposed", "endorsed"}
         /\ t.status = "endorsed" => t.answer \in Answers

KindInv == KeyInv /\ \A id \in TxIds : TxShape(id)

(* Before the first transaction only the revocation list is there.         *)
LEMMA InitKind == Init => KindInv
<1> SUFFICES ASSUME Init PROVE KindInv
  OBVIOUS
<1>1. KeyInv
  BY DEF Init, InitialWorld, KeyInv, Kinded
<1>2. \A id \in TxIds : TxShape(id)
  BY DEF Init, TxShape
<1> QED
  BY <1>1, <1>2 DEF KindInv

(* Every step leaves values of their kind, and transactions of a shape.    *)
LEMMA NextKind == IInv /\ KindInv /\ [Next]_vars => KindInv'
<1> SUFFICES ASSUME IInv, KindInv, [Next]_vars PROVE KindInv'
  OBVIOUS
<1>1. KeyInv'
  <2>1. CASE UNCHANGED <<world, log, answers>>
    BY <2>1 DEF KindInv, KeyInv
  <2>2. ASSUME NEW tx \in LogEntry, Serial!Execute(tx), tx.call.fn \in Functions PROVE KeyInv'
    <3>1. Accepts(world, tx) /\ world' = Apply(world, Effect(world, tx))
      BY <2>2 DEF Serial!Execute
    <3>2. \A key \in DOMAIN Effect(world, tx).puts : Kinded(key, Effect(world, tx).puts[key])
      BY <2>2, <3>1, PutsKinded DEF KindInv, KeyInv
    <3> SUFFICES ASSUME NEW key \in DOMAIN world' PROVE Kinded(key, world'[key])
      BY DEF KeyInv
    <3>3. CASE key \in DOMAIN Effect(world, tx).puts
      <4>1. world'[key] = Effect(world, tx).puts[key]
        BY <3>1, <3>3 DEF Apply
      <4> QED
        BY <3>2, <3>3, <4>1
    <3>4. CASE key \notin DOMAIN Effect(world, tx).puts
      <4>1. key \in DOMAIN world /\ world'[key] = world[key]
        BY <3>1, <3>4 DEF Apply
      <4> QED
        BY <4>1 DEF KindInv, KeyInv
    <3> QED
      BY <3>3, <3>4
  <2> QED
    BY <2>1, <2>2, LedgerSteps
<1>2. ASSUME NEW id \in TxIds, NEW t, txs' = [txs EXCEPT ![id] = t],
             \/ \E s \in {"rejected", "committed", "invalid", "abandoned"} : t = Closed(s)
             \/ t.status \in {"proposed", "endorsed"} /\ (t.status = "endorsed" => t.answer \in Answers)
      PROVE  \A i \in TxIds : TxShape(i)'
  <2>1. ASSUME NEW i \in TxIds, i # id PROVE TxShape(i)'
    <3>1. txs'[i] = txs[i]
      BY <1>2, <2>1 DEF IInv, Chain
    <3> QED
      BY <3>1 DEF KindInv, TxShape
  <2>2. TxShape(id)'
    <3>1. txs'[id] = t
      BY <1>2 DEF IInv, Chain
    <3> QED
      BY <1>2, <3>1 DEF TxShape
  <2> QED
    BY <2>1, <2>2
<1>3. \A i \in TxIds : TxShape(i)'
  <2>1. ASSUME NEW id \in TxIds, NEW call \in Calls, Propose(id, call)
        PROVE  \A i \in TxIds : TxShape(i)'
    <3>1. PICK t : t = [status |-> "proposed", tx |-> [id |-> id, call |-> call, ts |-> clock]]
      OBVIOUS
    <3>2. t.status = "proposed"
      BY <3>1
    <3>3. txs' = [txs EXCEPT ![id] = t]
      BY <2>1, <3>1 DEF Propose
    <3> QED
      BY <1>2, <3>2, <3>3
  <2>2. ASSUME NEW id \in TxIds, NEW fn, Endorse(id, fn) PROVE \A i \in TxIds : TxShape(i)'
    <3>1. PICK tx : tx = txs[id].tx
      OBVIOUS
    <3>2. tx \in LogEntry /\ Accepts(world, tx)
      BY <2>2, <3>1 DEF Endorse, IInv, Shape
    <3>3. tx.call.fn \in Functions
      BY <3>2, LedgerAssumption DEF LogEntry
    <3>4. Effect(world, tx).answer \in Answers
      BY <3>2, <3>3, AuditEffect
    <3>5. PICK t : t = Endorsement(tx, Effect(world, tx))
      OBVIOUS
    <3>6. t.status = "endorsed" /\ t.answer = Effect(world, tx).answer
      BY <3>5 DEF Endorsement
    <3>7. txs' = [txs EXCEPT ![id] = t]
      BY <2>2, <3>1, <3>5 DEF Endorse
    <3> QED
      BY <1>2, <3>4, <3>6, <3>7
  <2>3. ASSUME NEW id \in TxIds, NEW s \in {"rejected", "committed", "invalid", "abandoned"}, Close(id, s)
        PROVE  \A i \in TxIds : TxShape(i)'
    BY <1>2, <2>3 DEF Close
  <2>4. CASE UNCHANGED txs
    BY <2>4 DEF KindInv, TxShape
  <2>5. ASSUME NEW id \in TxIds, Resolve(id) \/ Abandon(id)
        PROVE  \/ \E fn : Endorse(id, fn)
               \/ \E s \in {"rejected", "committed", "invalid", "abandoned"} : Close(id, s)
    BY <2>5 DEF Resolve, Abandon, AssignRole, RevokeRole, RenewRole, IssueCrossZoneToken,
       RevokeCrossZoneToken, CheckAccess, WriteSensorData, PruneNonces, Reject, Commit, Invalidate
  <2> QED
    BY <2>1, <2>2, <2>3, <2>4, <2>5 DEF Next, Tick, vars
<1> QED
  BY <1>1, <1>3 DEF KindInv

(* The ledger's types: every key holds a value of the kind its prefix      *)
(* announces, and the versions are heights of the chain.                   *)
THEOREM LedgerTypes == Spec => []TypeOK
<1>1. ASSUME IInv, AuditInv, IndexInv, KindInv PROVE TypeOK
  <2>1. ASSUME NEW key \in DOMAIN world PROVE WellKeyed(key)
    <3>0. /\ Kinded(key, world[key])
          /\ \A s : RoleKey(s)[1] = "role" /\ CztKey(s)[1] = "czt" /\ AuditKey(s)[1] = "audit" /\ CrlKey(s)[1] = "crl"
          /\ \A s : CztKey(s)[2] = s /\ AuditKey(s)[2] = s
          /\ \A s, x : NonceKey(s, x)[1] = "nonce" /\ SensorKey(s, x)[1] = "sensor"
          /\ NonceIndex[1] = "nonce:index" /\ AuditIndex[1] = "audit:index"
      BY <1>1, <2>1 DEF KindInv, KeyInv, RoleKey, CztKey, AuditKey, CrlKey, NonceKey, SensorKey,
         NonceIndex, AuditIndex
    <3>1. CASE key = NonceIndex
      <4>1. world[key] \in Seq(NoncesIn(world))
        BY <1>1, <2>1, <3>1 DEF IndexInv, getStringIndex
      <4>2. \A i \in DOMAIN world[key] : world[key][i] \in NoncesIn(world)
        BY <4>1
      <4>3. \A i \in DOMAIN world[key] : world[key][i][1] = "nonce"
        BY <4>2 DEF NoncesIn
      <4> QED
        BY <3>0, <3>1, <4>3 DEF WellKeyed
    <3>2. CASE key = AuditIndex
      <4>1. world[key] = [i \in DOMAIN log |-> AuditKey(log[i].id)]
        BY <1>1, <2>1, <3>2 DEF AuditInv, AuditTrailExact, getStringIndex
      <4>2. \A i \in DOMAIN world[key] : world[key][i][1] = "audit"
        BY <3>0, <4>1
      <4>3. AuditIndex # NonceIndex
        BY <3>0
      <4> QED
        BY <3>0, <3>2, <4>2, <4>3 DEF WellKeyed
    <3>3. CASE \E s, d, t : key = CrlKey(s) \/ key = SensorKey(d, t)
      <4>1. key[1] \in {"crl", "sensor"} /\ key # NonceIndex /\ key # AuditIndex
        BY <3>0, <3>3
      <4> QED
        BY <4>1 DEF WellKeyed
    <3>4. CASE \E s : key = RoleKey(s) /\ world[key] \in RoleValue
      <4>1. key[1] = "role" /\ key # NonceIndex /\ key # AuditIndex
        BY <3>0, <3>4
      <4>2. /\ world[key].role \in Roles /\ world[key].zones \subseteq validZones \cup {"*"}
            /\ world[key].issuedAt \in Nat /\ world[key].expiresAt \in Nat
        BY <3>4 DEF RoleValue
      <4> QED
        BY <4>1, <4>2 DEF WellKeyed
    <3>5. CASE \E x : key = CztKey(x) /\ world[key].subject = x[1] /\ world[key].expiresAt \in Nat
      <4>1. key[1] = "czt" /\ key # NonceIndex /\ key # AuditIndex /\ world[key].subject = key[2][1]
        BY <3>0, <3>5
      <4> QED
        BY <3>5, <4>1 DEF WellKeyed
    <3>6. CASE \E s, x : key = NonceKey(s, x) /\ world[key] \in NonceValue
      <4>1. key[1] = "nonce" /\ key # NonceIndex /\ key # AuditIndex
        BY <3>0, <3>6
      <4> QED
        BY <3>6, <4>1 DEF WellKeyed, NonceValue
    <3>7. CASE \E id \in TxIds : key = AuditKey(id) /\ world[key].ts \in Seconds
      <4>1. key[1] = "audit" /\ key # NonceIndex /\ key # AuditIndex /\ key[2] \in TxIds
        BY <3>0, <3>7
      <4> QED
        BY <3>7, <4>1 DEF WellKeyed
    <3> QED
      BY <3>0, <3>1, <3>2, <3>3, <3>4, <3>5, <3>6, <3>7 DEF Kinded
  <2>2. ASSUME NEW id \in TxIds PROVE TxOK(id)
    <3>1. TxShape(id) /\ Shape(id) /\ Faithful(id)
      BY <1>1 DEF IInv, KindInv
    <3> QED
      BY <3>1 DEF TxShape, Shape, Faithful, TxOK
  <2> QED
    BY <1>1, <2>1, <2>2 DEF TypeOK, IInv, Chain, AuditInv
<1> QED
  BY <1>1, InitKind, NextKind, IndexInvariance, InitIInv, NextIInv, InitAudit, NextAudit, PTL DEF Spec
=============================================================================
