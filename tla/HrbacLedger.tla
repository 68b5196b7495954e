---------------------------- MODULE HrbacLedger ----------------------------
(* The contract on a Fabric channel.  A client stamps a proposal with its  *)
(* clock; a peer runs the contract on the committed state and returns the  *)
(* versions read and the writes; the client submits the endorsed           *)
(* transaction; the orderer puts transactions in some order and the peers  *)
(* commit those whose reads are still current.  Between any two of these   *)
(* steps other clients' transactions run.  The contract is HrbacChaincode; *)
(* the rest is Fabric, modelled from how the code uses it.                 *)
EXTENDS HrbacChaincode, FiniteSets

CONSTANTS Calls, TxIds, Revoked,
          StartTime, MaxTime,   \* bounds of the clock
          MaxInFlight           \* bound on concurrent transactions

Times == StartTime .. MaxTime

(* Transaction times are past the first second of 1970, where a stored     *)
(* expiry of 0 could not be told from "never expires".  An expiry that is  *)
(* given parses to a time.                                                 *)
ASSUME LedgerAssumption ==
  /\ StartTime \in Nat /\ MaxTime \in Nat /\ MaxInFlight \in Nat
  /\ TicksPerSecond <= StartTime /\ StartTime <= MaxTime
  /\ \A call \in Calls :
       /\ call.fn \in Functions
       /\ call.fn \in {"AssignRole", "RenewRole", "IssueCrossZoneToken"}
            => call.expiry = Nil \/ call.expiry \in Int

VARIABLES world,     \* key -> committed value, for the keys present
          version,   \* key -> height of the commit that put the value
          log,       \* committed transactions, in commit order
          answers,   \* what each of them answered
          txs,       \* what each transaction identifier stands for
          clock      \* the clients' clock

ledger == <<world, version, log, answers>>
vars == <<ledger, txs, clock>>

(* The entries of the revocation list predate every transaction: no        *)
(* contract function writes one.                                           *)
InitialWorld == [key \in {CrlKey(s) : s \in Revoked} |-> "revoked"]

Serial == INSTANCE HrbacSerial

Height == Len(log) + 1
VersionOf(key) == IF key \in DOMAIN version THEN version[key] ELSE 0

Unused == [status |-> "unused"]
Closed(status) == [status |-> status]
WithStatus(status) == {id \in TxIds : txs[id].status = status}
InFlight == WithStatus("proposed") \cup WithStatus("endorsed")

Init ==
  /\ world = InitialWorld
  /\ version = [key \in DOMAIN InitialWorld |-> 1]
  /\ log = <<>>
  /\ answers = <<>>
  /\ txs = [id \in TxIds |-> Unused]
  /\ clock = StartTime

-----------------------------------------------------------------------------
(* A token is an argument once IssueCrossZoneToken has returned it, which  *)
(* is at endorsement.                                                      *)
IssuedTokens ==
  {TokenId(log[i]) : i \in {j \in DOMAIN log : log[j].call.fn = "IssueCrossZoneToken"}}
  \cup {TokenId(txs[id].tx) : id \in {i \in WithStatus("endorsed") :
                                        txs[i].tx.call.fn = "IssueCrossZoneToken"}}

TokenHeld(call) ==
  call.fn \in {"CheckAccess", "RevokeCrossZoneToken"} =>
    call.token \in IssuedTokens \cup {Nil}

Propose(id, call) ==
  /\ txs[id] = Unused
  /\ Cardinality(InFlight) < MaxInFlight
  /\ TokenHeld(call)
  /\ txs' = [txs EXCEPT ![id] = [status |-> "proposed",
                                 tx |-> [id |-> id, call |-> call, ts |-> clock]]]
  /\ UNCHANGED <<ledger, clock>>

Endorsement(tx, e) ==
  [status |-> "endorsed", tx |-> tx,
   reads |-> [key \in e.reads |-> VersionOf(key)],
   puts |-> e.puts, dels |-> e.dels, answer |-> e.answer]

(* A peer runs the called function on the state committed so far.          *)
Endorse(id, fn) ==
  /\ txs[id].status = "proposed"
  /\ txs[id].tx.call.fn = fn
  /\ Accepts(world, txs[id].tx)
  /\ txs' = [txs EXCEPT ![id] = Endorsement(@.tx, Effect(world, @.tx))]
  /\ UNCHANGED <<ledger, clock>>

AssignRole(id)           == Endorse(id, "AssignRole")
RevokeRole(id)           == Endorse(id, "RevokeRole")
RenewRole(id)            == Endorse(id, "RenewRole")
IssueCrossZoneToken(id)  == Endorse(id, "IssueCrossZoneToken")
RevokeCrossZoneToken(id) == Endorse(id, "RevokeCrossZoneToken")
CheckAccess(id)          == Endorse(id, "CheckAccess")
WriteSensorData(id)      == Endorse(id, "WriteSensorData")
PruneNonces(id)          == Endorse(id, "PruneNonces")

Close(id, status) == txs' = [txs EXCEPT ![id] = Closed(status)]

(* The function returned an error: there is nothing to submit.             *)
Reject(id) ==
  /\ txs[id].status = "proposed"
  /\ ~Accepts(world, txs[id].tx)
  /\ Close(id, "rejected")
  /\ UNCHANGED <<ledger, clock>>

-----------------------------------------------------------------------------
(* MVCC validation: nothing the transaction read has changed since.        *)
Current(tx) == \A key \in DOMAIN tx.reads : tx.reads[key] = VersionOf(key)

Versions(tx) ==
  [key \in (DOMAIN version \ tx.dels) \cup DOMAIN tx.puts |->
     IF key \in DOMAIN tx.puts THEN Height + 1 ELSE version[key]]

Commit(id) ==
  /\ txs[id].status = "endorsed"
  /\ Current(txs[id])
  /\ world' = Apply(world, txs[id])
  /\ version' = Versions(txs[id])
  /\ log' = Append(log, txs[id].tx)
  /\ answers' = Append(answers, txs[id].answer)
  /\ Close(id, "committed")
  /\ UNCHANGED clock

(* A transaction whose reads another commit overtook changes nothing.      *)
Invalidate(id) ==
  /\ txs[id].status = "endorsed"
  /\ ~Current(txs[id])
  /\ Close(id, "invalid")
  /\ UNCHANGED <<ledger, clock>>

(* The client stops, or gives up, before it submits.                       *)
Abandon(id) ==
  /\ txs[id].status = "endorsed"
  /\ Close(id, "abandoned")
  /\ UNCHANGED <<ledger, clock>>

Tick ==
  /\ clock < MaxTime
  /\ clock' = clock + 1
  /\ UNCHANGED <<ledger, txs>>

-----------------------------------------------------------------------------
Resolve(id) ==
  \/ AssignRole(id) \/ RevokeRole(id) \/ RenewRole(id)
  \/ IssueCrossZoneToken(id) \/ RevokeCrossZoneToken(id)
  \/ CheckAccess(id) \/ WriteSensorData(id) \/ PruneNonces(id)
  \/ Reject(id) \/ Commit(id) \/ Invalidate(id)

Next ==
  \/ \E id \in TxIds : \/ \E call \in Calls : Propose(id, call)
                       \/ Resolve(id)
                       \/ Abandon(id)
  \/ Tick

Spec == Init /\ [][Next]_vars
=============================================================================
