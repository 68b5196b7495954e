----------------------- MODULE FabricClientProperties -----------------------
(* What the retry loop of the Fabric client promises its callers.          *)
EXTENDS FabricClient

Attempts == 1..MaxAttempts
Outcomes == {"open", "returned", "replay", "raised"}
Results == {"GRANT", "DENY", "done", "replay", "refused", "unreachable"}

(* The type invariant: an invocation is in its caller's hands exactly while *)
(* its outcome is open, and a request or reply belongs to an attempt made.  *)
ClientTypeOK ==
  /\ \A t \in Threads : \/ call[t] = Idle
                         \/ /\ call[t].st \in {"waiting", "sleeping"}
                            /\ call[t].attempt \in Attempts
                            /\ calls[call[t].id].outcome = "open"
                         \/ /\ call[t].st \in {"returned", "raised"}
                            /\ call[t].result \in Results
                            /\ calls[call[t].id].outcome # "open"
  /\ \A n \in DOMAIN calls : /\ calls[n].fn \in Functions
                             /\ calls[n].reading \in Readings
                             /\ calls[n].outcome \in Outcomes
  /\ \A m \in net : m.id \in DOMAIN calls /\ m.attempt \in Attempts
  /\ \A i \in DOMAIN ledger : ledger[i].id \in DOMAIN calls

Effects(n) == Cardinality({i \in DOMAIN ledger : ledger[i].id = n})

Promise == INSTANCE AtMostOnceCalls WITH
  outcome <- [n \in DOMAIN calls |-> calls[n].outcome],
  effects <- [n \in DOMAIN calls |-> Effects(n)]

(* _invoke with its retries under one nonce (fabric_client.py:63-82)       *)
(* implements calls that take effect at most once: whatever attempts are   *)
(* lost, late or repeated, one invocation commits one reading at most, one *)
(* that returns has committed it, and "replay detected" is only ever raised *)
(* for a reading that an attempt of the same invocation committed.         *)
CallsAtMostOnce == Promise!Spec

Open(n) == n \in DOMAIN calls /\ calls[n].outcome = "open"

(* Every invocation returns or raises (fabric_client.py:70-82): no sequence *)
(* of refusals, lost answers and sleeps keeps a thread of the gateway in    *)
(* the retry loop.                                                          *)
EveryInvocationEnds == \A n \in 1..MaxCalls : Open(n) ~> ~Open(n)
=============================================================================
