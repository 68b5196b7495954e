-------------------------- MODULE GatewayReadings --------------------------
(* The gateway's reading pipeline (gateway/gateway.py) with its policy     *)
(* cache (gateway/policy_cache.py), over the Fabric client.  A reading the *)
(* receiver has assembled is queued and then handled by the thread that    *)
(* assembled it, and handled again by the main thread, which drains the    *)
(* queue.  The access policy on the ledger and the signals and exceptions  *)
(* that end the process are the environment's.                             *)
EXTENDS FabricClient

CONSTANTS Main,         \* the thread of run()
          Keys,         \* policy keys: device, zone and action
          KeyOf,        \* the policy key of each reading
          Signature,    \* what verify_signature meets in each reading
          TTL,          \* ttl_seconds
          MaxLatency    \* longest time an answer is on its way to its caller

ASSUME GatewayAssumption ==
  /\ Main \in Threads
  /\ KeyOf \in [Readings -> Keys]
  /\ Signature \in [Readings -> {"absent", "good", "bad", "malformed"}]
  /\ TTL \in Nat \ {0} /\ MaxLatency \in Nat

VARIABLES work,       \* where each thread is in handle_reading
          queue,      \* the receiver's queue of readings
          arrived,    \* readings assembled so far; each is assembled once
          cache,      \* policy decisions with their expiry
          live,       \* LIVE_READINGS
          stopping,   \* stop_event
          policy      \* on the ledger: the decision for each key, and since when

gatewayVars == <<work, queue, arrived, cache, live, stopping, policy>>
vars == <<clientVars, clock, gatewayVars>>

Free == [pc |-> "free"]
Ended == [pc |-> "ended"]
Sources == Threads \ {Main}
NoEntry == [value |-> "none"]

ProcessStart ==
  [work |-> [t \in Threads |-> Free], queue |-> <<>>,
   cache |-> [k \in Keys |-> NoEntry], live |-> <<>>, stopping |-> FALSE]

Init ==
  /\ ClientInit
  /\ work = ProcessStart.work /\ queue = ProcessStart.queue /\ cache = ProcessStart.cache
  /\ live = ProcessStart.live /\ stopping = ProcessStart.stopping
  /\ arrived = {}
  /\ policy \in [Keys -> [value : {"GRANT", "DENY"}, since : {0}]]

GoTo(t, next) == work' = [work EXCEPT ![t] = next]
At(t, pc) == work[t].pc = pc

(* Back at the top of its loop a thread looks at the stop event, and ends  *)
(* or waits for the next reading; one that waits takes a reading yet after *)
(* the event.                                                              *)
LoopOn == IF stopping THEN Ended ELSE Free

-----------------------------------------------------------------------------
(* Readings reach handle_reading.                                          *)

Handling(r) == [pc |-> "handle", reading |-> r]

(* process_packet queues the reading and returns it to _source_loop, which *)
(* calls back.                                                             *)
Publish(t, r) ==
  /\ t \in Sources /\ At(t, "free")
  /\ r \notin arrived
  /\ arrived' = arrived \cup {r}
  /\ queue' = Append(queue, r)
  /\ GoTo(t, Handling(r))
  /\ UNCHANGED <<clientVars, cache, live, stopping, policy>>

(* run(): the next reading of the queue.                                   *)
Drain ==
  /\ At(Main, "free")
  /\ queue # <<>>
  /\ GoTo(Main, Handling(Head(queue)))
  /\ queue' = Tail(queue)
  /\ UNCHANGED <<clientVars, arrived, cache, live, stopping, policy>>

-----------------------------------------------------------------------------
(* PolicyCache.                                                            *)

(* Slip: an entry is still used at the time it expires.                    *)
ExpiredLate(entry) == entry.expires < clock

Expired(entry) == entry.expires <= clock

(* Slip: the time to live is taken for minutes.                            *)
EntryForMinutes(decision) == [value |-> decision, expires |-> clock + 60 * TTL]

Entry(decision) == [value |-> decision, expires |-> clock + TTL]

Cached(k) == cache[k] # NoEntry /\ ~Expired(cache[k])

-----------------------------------------------------------------------------
(* handle_reading.                                                         *)

Key(t) == KeyOf[work[t].reading]
Verified(r) == Signature[r] \in {"absent", "good"}
Acting(t, decision) == [pc |-> "act", reading |-> work[t].reading, decision |-> decision]

(* verify_signature: a signature that is not hexadecimal raises.           *)
Reject(t) ==
  /\ At(t, "handle") /\ ~Verified(work[t].reading)
  /\ GoTo(t, IF Signature[work[t].reading] = "malformed" THEN Ended ELSE LoopOn)
  /\ UNCHANGED <<clientVars, queue, arrived, cache, live, stopping, policy>>

LookupHit(t) ==
  /\ At(t, "handle") /\ Verified(work[t].reading)
  /\ Cached(Key(t))
  /\ GoTo(t, Acting(t, cache[Key(t)].value))
  /\ UNCHANGED <<clientVars, queue, arrived, cache, live, stopping, policy>>

(* get drops an expired entry; check_access follows.                       *)
LookupMiss(t) ==
  /\ At(t, "handle") /\ Verified(work[t].reading)
  /\ ~Cached(Key(t))
  /\ cache' = [cache EXCEPT ![Key(t)] = NoEntry]
  /\ Invoke(t, "CheckAccess", work[t].reading)
  /\ GoTo(t, [work[t] EXCEPT !.pc = "asking"])
  /\ UNCHANGED <<queue, arrived, live, stopping, policy>>

(* check_access returned: the expiry counts from now.                      *)
Remember(t) ==
  /\ At(t, "asking") /\ call[t].st = "returned"
  /\ Collect(t)
  /\ cache' = [cache EXCEPT ![Key(t)] = Entry(call[t].result)]
  /\ GoTo(t, Acting(t, call[t].result))
  /\ UNCHANGED <<queue, arrived, live, stopping, policy>>

Submit(t) ==
  /\ At(t, "act") /\ work[t].decision = "GRANT"
  /\ Invoke(t, Submission, work[t].reading)
  /\ GoTo(t, [pc |-> "submitting", reading |-> work[t].reading])
  /\ UNCHANGED <<queue, arrived, cache, live, stopping, policy>>

Discard(t) ==
  /\ At(t, "act") /\ work[t].decision # "GRANT"
  /\ GoTo(t, LoopOn)
  /\ UNCHANGED <<clientVars, queue, arrived, cache, live, stopping, policy>>

(* Slip: the reading is shown whether or not its submission succeeded.     *)
EndedAnyhow(t) == call[t].st \in {"returned", "raised"}

Succeeded(t) == call[t].st = "returned"

Show(t) ==
  /\ At(t, "submitting") /\ Succeeded(t)
  /\ Collect(t)
  /\ live' = Append(live, work[t].reading)
  /\ GoTo(t, LoopOn)
  /\ UNCHANGED <<queue, arrived, cache, stopping, policy>>

(* An exception leaves handle_reading: nobody catches it.                  *)
Raise(t) ==
  /\ At(t, "asking") \/ At(t, "submitting")
  /\ call[t].st = "raised"
  /\ Collect(t)
  /\ GoTo(t, Ended)
  /\ UNCHANGED <<queue, arrived, cache, live, stopping, policy>>

Handle(t) == \/ Reject(t) \/ LookupHit(t) \/ LookupMiss(t) \/ Remember(t)
             \/ Submit(t) \/ Discard(t) \/ Show(t) \/ Raise(t)

-----------------------------------------------------------------------------
(* The process and its environment.                                        *)

(* SIGTERM or SIGINT.                                                      *)
Stop ==
  /\ ~stopping /\ stopping' = TRUE
  /\ UNCHANGED <<clientVars, work, queue, arrived, cache, live, policy>>

(* The main thread has left run(), by an exception or the stop event: the  *)
(* other threads are daemons and end with it.  The process starts afresh.  *)
Restart ==
  /\ At(Main, "ended") \/ (stopping /\ At(Main, "free"))
  /\ call' = [t \in Threads |-> Idle]
  /\ work' = ProcessStart.work /\ queue' = ProcessStart.queue /\ cache' = ProcessStart.cache
  /\ live' = ProcessStart.live /\ stopping' = ProcessStart.stopping
  /\ net' = {m \in net : m.kind = "request"}
  /\ UNCHANGED <<calls, ledger, arrived, policy>>

(* A role is assigned or revoked, or expires.                              *)
ChangePolicy(k) ==
  /\ \E value \in {"GRANT", "DENY"} \ {policy[k].value} :
       policy' = [policy EXCEPT ![k] = [value |-> value, since |-> clock]]
  /\ UNCHANGED <<clientVars, work, queue, arrived, cache, live, stopping>>

(* CheckAccess answers by the policy; a submission is judged by that of    *)
(* the gateway's own identity, which may be anything.                      *)
Peer ==
  /\ \E m \in net : \E decision \in {"GRANT", "DENY"} :
       /\ m.kind = "request"
       /\ calls[m.id].fn = "CheckAccess" => decision = policy[KeyOf[calls[m.id].reading]].value
       /\ Execute(m, decision)
  /\ UNCHANGED gatewayVars

(* A thread that is not waiting for anything outruns the clock, and an     *)
(* answer reaches its caller, or is given up, within MaxLatency.           *)
Busy(t) == work[t].pc \in {"handle", "act"} \/ call[t].st \in {"returned", "raised"}

Tick ==
  /\ clock < MaxTime
  /\ \A t \in Threads : ~Busy(t)
  /\ \A m \in net : m.kind = "reply" => clock - m.at < MaxLatency
  /\ clock' = clock + 1
  /\ UNCHANGED <<clientVars, gatewayVars>>

Step(t) ==
  /\ \/ Handle(t)
     \/ ClientStep(t) /\ UNCHANGED gatewayVars
     \/ t = Main /\ (Drain \/ Restart)
  /\ UNCHANGED clock

Next ==
  \/ \E t \in Threads : Step(t)
  \/ /\ \/ \E t \in Sources, r \in Readings : Publish(t, r)
        \/ Stop \/ Peer \/ \E k \in Keys : ChangePolicy(k)
     /\ UNCHANGED clock
  \/ Tick

Spec == Init /\ [][Next]_vars

(* Every thread runs, and each attempt of the client and each of its       *)
(* sleeps ends.                                                            *)
FairSpec == Spec /\ \A t \in Threads : WF_vars(Step(t))
=============================================================================
