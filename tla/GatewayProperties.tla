------------------------- MODULE GatewayProperties -------------------------
(* What the gateway promises of the readings it passes on.                 *)
EXTENDS GatewayReadings, FabricClientProperties

(* The type invariant, the client's included: a thread has a call open exactly while it asks or   *)
(* submits, the cache never holds an entry beyond its time to live, and    *)
(* what is queued or handled has arrived.                                  *)
GatewayTypeOK ==
  /\ ClientTypeOK
  /\ \A t \in Threads :
       /\ work[t].pc \in {"free", "handle", "asking", "act", "submitting", "ended"}
       /\ call[t] # Idle <=> work[t].pc \in {"asking", "submitting"}
       /\ work[t].pc \notin {"free", "ended"} => work[t].reading \in arrived
  /\ \A i \in DOMAIN queue : queue[i] \in arrived
  /\ \A k \in Keys : cache[k] # NoEntry => /\ cache[k].value \in {"GRANT", "DENY"}
                                           /\ cache[k].expires <= clock + TTL
  /\ arrived \subseteq Readings /\ clock \in 0..MaxTime

(* The thread acts on a decision for its reading.                          *)
Acts(t) == Submit(t) \/ Discard(t)

(* A decision acted on that is no longer the ledger's was still the        *)
(* ledger's less than TTL and one latency ago (policy_cache.py:32-47,      *)
(* gateway.py:103-111): whichever threads asked, in whatever order their   *)
(* answers overwrote each other in the cache, and for grants and denials   *)
(* alike.                                                                  *)
StaleDecisionBounded ==
  [][\A t \in Threads :
       Acts(t) /\ work[t].decision # policy[Key(t)].value
         => clock < policy[Key(t)].since + TTL + MaxLatency]_vars

Commits(r) == {i \in DOMAIN ledger : calls[ledger[i].id].reading = r}

(* The dashboard's live readings are on the ledger, each at least as often *)
(* as it is shown (gateway.py:108-109): an attempt that failed, or one     *)
(* another thread made of the same reading, shows nothing.  And each is    *)
(* there at most twice: it is handled by the callback and again from the   *)
(* queue (gateway.py:115-119), each time under one nonce                   *)
(* (fabric_client.py:66), whatever is retried, lost or restarted.          *)
LiveIsCommitted ==
  \A r \in Readings :
    /\ Cardinality({i \in DOMAIN live : live[i] = r}) <= Cardinality(Commits(r))
    /\ Cardinality(Commits(r)) <= 2

(* Whatever is queued is taken by the main thread, or lost with a process  *)
(* that ended (gateway.py:116-119): no call the main thread makes blocks   *)
(* it for good.                                                            *)
QueueDrains == \A r \in Readings :
  (\E i \in DOMAIN queue : queue[i] = r) ~> ~(\E i \in DOMAIN queue : queue[i] = r)
=============================================================================
