---------------------------- MODULE FabricClient ----------------------------
(* The gateway's Fabric client (gateway/fabric_client.py): _invoke draws   *)
(* one nonce and tries the call with it up to max_attempts times, sleeping *)
(* between tries.  The invoker it calls, the network and the ledger behind *)
(* it are external: an attempt may raise before, while or after its        *)
(* request is carried out, and a request that was given up may be carried  *)
(* out late.  The ledger accepts a nonce once (validateNonce).             *)
EXTENDS Naturals, Sequences, FiniteSets

CONSTANTS Threads,       \* threads of the gateway that make calls
          Readings,      \* arguments of the calls
          MaxAttempts,   \* max_attempts
          MaxCalls,      \* bound on the calls made
          MaxTime        \* bound of the clock

ASSUME ClientAssumption ==
  /\ MaxAttempts \in Nat \ {0} /\ MaxCalls \in Nat /\ MaxTime \in Nat

VARIABLES call,      \* the invocation each thread is in
          calls,     \* every invocation made: function, argument and outcome
          net,       \* requests not carried out and replies not delivered
          ledger,    \* submissions committed: call and nonce, in order
          clock

clientVars == <<call, calls, net, ledger>>

Submission == "SubmitSensorReading"
Functions == {"CheckAccess", Submission}

Idle == [st |-> "idle"]

ClientInit ==
  /\ call = [t \in Threads |-> Idle]
  /\ calls = <<>> /\ net = {} /\ ledger = <<>> /\ clock = 0

(* Slip: the nonce is drawn inside the retry loop.                         *)
NoncePerAttempt(id, attempt) == <<id, attempt>>

(* The nonce is part of the payload, made before the first attempt.        *)
NonceOf(id, attempt) == <<id>>

Request(id, attempt) ==
  [kind |-> "request", id |-> id, attempt |-> attempt, nonce |-> NonceOf(id, attempt)]

Send(id, attempt) == net' = net \cup {Request(id, attempt)}

Invoke(t, fn, reading) ==
  /\ call[t] = Idle
  /\ Len(calls) < MaxCalls
  /\ calls' = Append(calls, [fn |-> fn, reading |-> reading, outcome |-> "open"])
  /\ call' = [call EXCEPT ![t] = [st |-> "waiting", id |-> Len(calls) + 1, attempt |-> 1]]
  /\ Send(Len(calls) + 1, 1)
  /\ UNCHANGED ledger

-----------------------------------------------------------------------------
(* The other end: a request is carried out once, at any time, and answered *)
(* with the contract's decision or, when its nonce is on record, an error. *)

Replayed(m) == \E i \in DOMAIN ledger : ledger[i].nonce = m.nonce

Result(m, decision) ==
  IF calls[m.id].fn = "CheckAccess" THEN decision
  ELSE IF Replayed(m) THEN "replay"
  ELSE IF decision = "GRANT" THEN "done" ELSE "refused"

Awaited(m) == \E t \in Threads : /\ call[t] # Idle /\ call[t].st = "waiting"
                                 /\ call[t].id = m.id /\ call[t].attempt = m.attempt

(* A reply to an attempt that was given up is dropped.                     *)
Execute(m, decision) ==
  /\ m \in net /\ m.kind = "request"
  /\ net' = (net \ {m}) \cup
       IF Awaited(m)
       THEN {[kind |-> "reply", id |-> m.id, attempt |-> m.attempt, at |-> clock,
              result |-> Result(m, decision)]}
       ELSE {}
  /\ ledger' = IF Result(m, decision) = "done"
               THEN Append(ledger, [id |-> m.id, nonce |-> m.nonce]) ELSE ledger
  /\ UNCHANGED <<call, calls>>

-----------------------------------------------------------------------------
(* The retry loop.                                                         *)

Waiting(t) == call[t].st = "waiting"
RepliesTo(t) == {m \in net : /\ m.kind = "reply"
                             /\ m.id = call[t].id /\ m.attempt = call[t].attempt}

Finish(t, st, outcome, result) ==
  /\ call' = [call EXCEPT ![t] = [st |-> st, id |-> @.id, result |-> result]]
  /\ calls' = [calls EXCEPT ![call[t].id].outcome = outcome]

(* An exception: raised to the caller on the last attempt, else slept on.  *)
RaiseOrRetry(t, error) ==
  IF call[t].attempt >= MaxAttempts
  THEN Finish(t, "raised", IF error = "replay" THEN "replay" ELSE "raised", error)
  ELSE call' = [call EXCEPT ![t].st = "sleeping"] /\ UNCHANGED calls

(* The invoker returns the reply, or raises what the contract reported.    *)
Receive(t) ==
  /\ Waiting(t)
  /\ \E m \in RepliesTo(t) :
       /\ net' = net \ {m}
       /\ \/ /\ m.result \in {"GRANT", "DENY", "done"}
             /\ Finish(t, "returned", "returned", m.result)
          \/ /\ m.result \in {"replay", "refused"}
             /\ RaiseOrRetry(t, m.result)
  /\ UNCHANGED ledger

(* The invoker raises without a reply: unreachable peer, timeout.          *)
Fail(t) ==
  /\ Waiting(t)
  /\ RaiseOrRetry(t, "unreachable")
  /\ net' = net \ RepliesTo(t)
  /\ UNCHANGED ledger

(* Slip: an attempt that failed is not counted.                            *)
RetryUncounted(t) ==
  /\ call[t].st = "sleeping"
  /\ call' = [call EXCEPT ![t].st = "waiting"]
  /\ Send(call[t].id, call[t].attempt)
  /\ UNCHANGED <<calls, ledger>>

Retry(t) ==
  /\ call[t].st = "sleeping"
  /\ call' = [call EXCEPT ![t].st = "waiting", ![t].attempt = @ + 1]
  /\ Send(call[t].id, call[t].attempt + 1)
  /\ UNCHANGED <<calls, ledger>>

(* The caller takes the result or the exception.                           *)
Collect(t) ==
  /\ call[t].st \in {"returned", "raised"}
  /\ call' = [call EXCEPT ![t] = Idle]
  /\ UNCHANGED <<calls, net, ledger>>

ClientStep(t) == Receive(t) \/ Fail(t) \/ Retry(t)

-----------------------------------------------------------------------------
(* The client on its own, submitting readings for any callers; the one     *)
(* other call the gateway makes, CheckAccess, commits no reading.          *)
ClientNext ==
  /\ \/ \E t \in Threads :
          \/ \E r \in Readings : Invoke(t, Submission, r)
          \/ ClientStep(t) \/ Collect(t)
     \/ \E m \in net, decision \in {"GRANT", "DENY"} : Execute(m, decision)
  /\ UNCHANGED clock

ClientSpec == ClientInit /\ [][ClientNext]_<<clientVars, clock>>

(* Each attempt ends, by a reply or an exception, and so does each sleep.  *)
ClientFairSpec ==
  ClientSpec /\ \A t \in Threads : WF_<<clientVars, clock>>(ClientStep(t) /\ UNCHANGED clock)
=============================================================================
