--------------------------- MODULE GatewayProofs ----------------------------
(* Theorems about GatewayReadings for every set of threads, readings and   *)
(* policy keys, every time to live and every latency: first the client's   *)
(* calls (FabricClient), for every number of attempts, then the readings   *)
(* that make them.                                                         *)
EXTENDS GatewayProperties, SequenceTheorems, FiniteSetTheorems, TLAPS

CallRecords == [fn : Functions, reading : Readings, outcome : Outcomes]
OnLedger(n) == \E i \in DOMAIN ledger : ledger[i].id = n

(* The invocations made, and the submissions committed for them: each      *)
(* under the one nonce of its invocation, and none twice.                  *)
Journal ==
  /\ calls \in Seq(CallRecords)
  /\ ledger \in Seq([id : Nat, nonce : Seq(Nat)])
  /\ \A i \in DOMAIN ledger : /\ ledger[i].id \in DOMAIN calls
                              /\ ledger[i].nonce = <<ledger[i].id>>
                              /\ calls[ledger[i].id].fn = Submission
  /\ \A i, j \in DOMAIN ledger : ledger[i].id = ledger[j].id => i = j

InHand(t) == call[t].st \in {"waiting", "sleeping"}

Held(t) ==
  \/ call[t] = Idle
  \/ /\ call[t] \in [st : {"waiting", "sleeping"}, id : DOMAIN calls, attempt : Attempts]
     /\ calls[call[t].id].outcome = "open"
     /\ call[t].st = "sleeping" => call[t].attempt < MaxAttempts
  \/ /\ call[t] \in [st : {"returned", "raised"}, id : DOMAIN calls, result : Results]
     /\ calls[call[t].id].outcome # "open"
     /\ call[t].st = "returned" => calls[call[t].id].outcome = "returned"

(* No two threads are in one invocation.                                   *)
Hands ==
  /\ DOMAIN call = Threads
  /\ \A t \in Threads : Held(t)
  /\ \A t, u \in Threads :
       call[t] # Idle /\ call[u] # Idle /\ call[t].id = call[u].id => t = u

(* A request carries its invocation's nonce, and an answer that reports a  *)
(* commit, or the replay of one, is to an invocation that has one.         *)
Sound(m) ==
  /\ m.id \in DOMAIN calls /\ m.attempt \in Attempts
  /\ m.kind \in {"request", "reply"}
  /\ m.kind = "request" => m.nonce = <<m.id>>
  /\ m.kind = "reply" =>
       IF calls[m.id].fn = "CheckAccess" THEN m.result \in {"GRANT", "DENY"}
       ELSE /\ m.result \in {"done", "replay", "refused"}
            /\ m.result # "refused" => OnLedger(m.id)

(* What a caller was told of a submission is so.                           *)
Told ==
  \A n \in DOMAIN calls :
    calls[n].fn = Submission /\ calls[n].outcome \in {"returned", "replay"} => OnLedger(n)

ClientInv == Journal /\ Hands /\ (\A m \in net : Sound(m)) /\ Told

-----------------------------------------------------------------------------
(* The nonces of two invocations differ.                                   *)
LEMMA NoncesApart == \A a, b : <<a>> = <<b>> => a = b
OBVIOUS

(* The type invariant is part of the inductive one.                        *)
LEMMA ClientInvTypes == ClientInv => ClientTypeOK
<1> SUFFICES ASSUME ClientInv PROVE ClientTypeOK
  OBVIOUS
<1>1. \A n \in DOMAIN calls : calls[n] \in CallRecords
  BY DEF ClientInv, Journal
<1> QED
  BY <1>1 DEF ClientInv, ClientTypeOK, Journal, Hands, Held, Sound, CallRecords

(* Nothing has been called initially.                                      *)
LEMMA ClientInitInv == ClientInit => ClientInv
<1> SUFFICES ASSUME ClientInit PROVE ClientInv
  OBVIOUS
<1>1. Journal /\ Told
  BY DEF ClientInit, Journal, Told
<1>2. Hands
  BY DEF ClientInit, Hands, Held, InHand, Idle
<1> QED
  BY <1>1, <1>2 DEF ClientInit, ClientInv

(* A new invocation has a number, and so a nonce, of its own.              *)
LEMMA InvokeInv ==
  ASSUME ClientInv, NEW t \in Threads, NEW fn \in Functions, NEW r \in Readings,
         Invoke(t, fn, r)
  PROVE  ClientInv'
<1> DEFINE n == Len(calls) + 1
           new == [fn |-> fn, reading |-> r, outcome |-> "open"]
<1>1. new \in CallRecords
  BY DEF CallRecords, Outcomes
<1>2. /\ calls \in Seq(CallRecords) /\ calls' = Append(calls, new) /\ ledger' = ledger
      /\ net' = net \cup {Request(n, 1)} /\ n \in Nat
      /\ call' = [call EXCEPT ![t] = [st |-> "waiting", id |-> n, attempt |-> 1]]
  BY DEF Invoke, Send, ClientInv, Journal
<1>3. /\ calls' \in Seq(CallRecords)
      /\ DOMAIN calls = 1 .. n - 1 /\ DOMAIN calls' = 1 .. n /\ calls'[n] = new
      /\ \A k \in DOMAIN calls : calls'[k] = calls[k]
      /\ n \notin DOMAIN calls /\ DOMAIN calls \subseteq DOMAIN calls'
  BY <1>1, <1>2
<1>4. 1 \in Attempts
  BY ClientAssumption DEF Attempts
<1>5. Journal'
  BY <1>2, <1>3 DEF ClientInv, Journal
<1>6. Hands'
  <2>1. DOMAIN call' = Threads /\ \A u \in Threads \ {t} : call'[u] = call[u]
    BY <1>2 DEF ClientInv, Hands
  <2>2. call'[t] = [st |-> "waiting", id |-> n, attempt |-> 1]
    BY <1>2 DEF ClientInv, Hands
  <2>3. Held(t)'
    BY <2>2, <1>3, <1>4 DEF Held
  <2>4. \A u \in Threads \ {t} : Held(u)'
    <3> SUFFICES ASSUME NEW u \in Threads \ {t} PROVE Held(u)'
      OBVIOUS
    <3>1. Held(u) /\ call'[u] = call[u]
      BY <2>1 DEF ClientInv, Hands
    <3> QED
      BY <3>1, <1>3 DEF Held
  <2>5. \A u \in Threads \ {t} : call[u] # Idle => call[u].id # n
    BY <1>3 DEF ClientInv, Hands, Held
  <2>6. call'[t].id = n
    BY <2>2
  <2> QED
    BY <2>1, <2>3, <2>4, <2>5, <2>6 DEF ClientInv, Hands
<1>7. \A m \in net' : Sound(m)'
  <2>1. ASSUME NEW m, m = Request(n, 1) PROVE Sound(m)'
    BY <2>1, <1>3, <1>4 DEF Sound, Request, NonceOf
  <2>2. \A m \in net : Sound(m)'
    BY <1>2, <1>3 DEF ClientInv, Sound, OnLedger
  <2> QED
    BY <1>2, <2>1, <2>2
<1>8. Told'
  BY <1>2, <1>3 DEF ClientInv, Told, OnLedger
<1> QED
  BY <1>5, <1>6, <1>7, <1>8 DEF ClientInv

(* A request carried out commits its invocation's reading unless it is on  *)
(* the ledger already.                                                     *)
LEMMA ExecuteInv ==
  ASSUME ClientInv, NEW m \in net, NEW decision \in {"GRANT", "DENY"}, Execute(m, decision)
  PROVE  ClientInv'
<1> DEFINE res == Result(m, decision)
           entry == [id |-> m.id, nonce |-> m.nonce]
           reply == [kind |-> "reply", id |-> m.id, attempt |-> m.attempt, at |-> clock,
                     result |-> res]
<1>1. Sound(m) /\ m.kind = "request" /\ m.nonce = <<m.id>>
  BY DEF Execute, ClientInv, Sound
<1>2. call' = call /\ calls' = calls
  BY DEF Execute
<1>3. calls \in Seq(CallRecords) /\ m.id \in Nat /\ calls[m.id].fn \in Functions
  <2>1. calls \in Seq(CallRecords) /\ m.id \in DOMAIN calls
    BY <1>1 DEF ClientInv, Journal, Sound
  <2>2. calls[m.id] \in CallRecords
    BY <2>1
  <2> QED
    BY <2>1, <2>2 DEF CallRecords
<1>4. Replayed(m) <=> OnLedger(m.id)
  BY <1>1, NoncesApart DEF Replayed, OnLedger, ClientInv, Journal
<1>5. /\ calls[m.id].fn = "CheckAccess" => res \in {"GRANT", "DENY"}
      /\ calls[m.id].fn # "CheckAccess" => res \in {"done", "replay", "refused"}
      /\ res = "done" => calls[m.id].fn = Submission /\ ~OnLedger(m.id)
      /\ res = "replay" => OnLedger(m.id)
  BY <1>3, <1>4 DEF Result, Functions, Submission
<1>6. ledger' = IF res = "done" THEN Append(ledger, entry) ELSE ledger
  BY DEF Execute
<1>7. /\ ledger \in Seq([id : Nat, nonce : Seq(Nat)])
      /\ entry \in [id : Nat, nonce : Seq(Nat)]
  BY <1>1, <1>3 DEF ClientInv, Journal
<1> HIDE DEF res
<1>8. /\ ledger' \in Seq([id : Nat, nonce : Seq(Nat)])
      /\ DOMAIN ledger \subseteq DOMAIN ledger' /\ \A i \in DOMAIN ledger : ledger'[i] = ledger[i]
      /\ \A i \in DOMAIN ledger' :
           \/ i \in DOMAIN ledger
           \/ /\ res = "done" /\ i = Len(ledger) + 1
              /\ ledger'[i].id = m.id /\ ledger'[i].nonce = m.nonce
      /\ res = "done" => \E i \in DOMAIN ledger' : ledger'[i].id = m.id
  <2>1. CASE res = "done"
    <3>1. ledger' = Append(ledger, entry) /\ Len(ledger) \in Nat
      BY <2>1, <1>6, <1>7
    <3>2. /\ ledger' \in Seq([id : Nat, nonce : Seq(Nat)])
          /\ DOMAIN ledger = 1 .. Len(ledger) /\ DOMAIN ledger' = 1 .. Len(ledger) + 1
          /\ ledger'[Len(ledger) + 1] = entry
          /\ \A i \in 1 .. Len(ledger) : ledger'[i] = ledger[i]
      BY <3>1, <1>7
    <3>3. entry.id = m.id /\ entry.nonce = m.nonce
      OBVIOUS
    <3> HIDE DEF entry
    <3>4. \A i \in DOMAIN ledger' : i \in DOMAIN ledger \/ i = Len(ledger) + 1
      BY <3>1, <3>2
    <3>5. Len(ledger) + 1 \in DOMAIN ledger' /\ DOMAIN ledger \subseteq DOMAIN ledger'
      BY <3>1, <3>2
    <3> QED
      BY <2>1, <3>2, <3>3, <3>4, <3>5
  <2>2. CASE res # "done"
    BY <2>2, <1>6, <1>7
  <2> QED
    BY <2>1, <2>2
<1>9. \A n : OnLedger(n)' <=> OnLedger(n) \/ (res = "done" /\ n = m.id)
  <2>1. ASSUME NEW n, OnLedger(n)' PROVE OnLedger(n) \/ (res = "done" /\ n = m.id)
    BY <2>1, <1>8 DEF OnLedger
  <2>2. ASSUME NEW n, OnLedger(n) PROVE OnLedger(n)'
    BY <2>2, <1>8 DEF OnLedger
  <2>3. res = "done" => OnLedger(m.id)'
    BY <1>8 DEF OnLedger
  <2> QED
    BY <2>1, <2>2, <2>3
<1>10. Journal'
  <2>1. \A i \in DOMAIN ledger' : /\ ledger'[i].id \in DOMAIN calls
                                  /\ ledger'[i].nonce = <<ledger'[i].id>>
                                  /\ calls[ledger'[i].id].fn = Submission
    BY <1>1, <1>5, <1>8, ZenonT(60) DEF ClientInv, Journal, Sound
  <2>2. \A i, j \in DOMAIN ledger' : ledger'[i].id = ledger'[j].id => i = j
    BY <1>5, <1>8 DEF ClientInv, Journal, OnLedger
  <2> QED
    BY <1>2, <1>3, <1>8, <2>1, <2>2 DEF Journal
<1>11. Hands'
  BY <1>2 DEF ClientInv, Hands, Held, InHand
<1>12. \A k \in net' : Sound(k)'
  <2>1. \A k \in net : Sound(k)'
    BY <1>2, <1>9 DEF ClientInv, Sound
  <2>2. ASSUME NEW k, k = reply PROVE Sound(k)'
    BY <2>2, <1>1, <1>2, <1>5, <1>9 DEF Sound
  <2>3. \A k \in net' : k \in net \/ k = reply
    BY DEF Execute, res
  <2> QED
    BY <2>1, <2>2, <2>3
<1>13. Told'
  BY <1>2, <1>9 DEF ClientInv, Told
<1> QED
  BY <1>10, <1>11, <1>12, <1>13 DEF ClientInv

(* What a thread in an invocation holds.                                   *)
LEMMA InHandHolds ==
  ASSUME ClientInv, NEW t \in Threads, InHand(t)
  PROVE  /\ call[t] \in [st : {"waiting", "sleeping"}, id : DOMAIN calls, attempt : Attempts]
         /\ calls[call[t].id].outcome = "open"
         /\ call[t].st = "sleeping" => call[t].attempt < MaxAttempts
BY DEF ClientInv, Hands, Held, InHand, Idle

(* An invocation that ends with an outcome that is true of it.             *)
LEMMA FinishInv ==
  ASSUME ClientInv, NEW t \in Threads, InHand(t),
         NEW st \in {"returned", "raised"}, NEW outcome \in Outcomes \ {"open"},
         NEW result \in Results, Finish(t, st, outcome, result),
         st = "returned" => outcome = "returned",
         calls[call[t].id].fn = Submission /\ outcome # "raised" => OnLedger(call[t].id),
         net' \subseteq net, ledger' = ledger
  PROVE  ClientInv'
<1> DEFINE n == call[t].id
<1>1. /\ n \in DOMAIN calls /\ calls[n].outcome = "open"
      /\ calls \in Seq(CallRecords) /\ DOMAIN call = Threads
  BY InHandHolds DEF ClientInv, Journal, Hands
<1>2. calls[n] \in CallRecords
  BY <1>1
<1>3. /\ calls' \in Seq(CallRecords) /\ DOMAIN calls' = DOMAIN calls
      /\ calls'[n].outcome = outcome
      /\ \A k \in DOMAIN calls : calls'[k].fn = calls[k].fn
      /\ \A k \in DOMAIN calls \ {n} : calls'[k] = calls[k]
  <2>1. calls' = [calls EXCEPT ![n] = [calls[n] EXCEPT !.outcome = outcome]]
    BY DEF Finish
  <2>2. [calls[n] EXCEPT !.outcome = outcome] \in CallRecords
    BY <1>2 DEF CallRecords
  <2> QED
    BY <1>1, <1>2, <2>1, <2>2 DEF CallRecords
<1>4. /\ call'[t] = [st |-> st, id |-> n, result |-> result]
      /\ DOMAIN call' = Threads /\ \A u \in Threads \ {t} : call'[u] = call[u]
  BY <1>1 DEF Finish
<1>5. \A k : OnLedger(k)' <=> OnLedger(k)
  BY DEF OnLedger
<1>6. Journal'
  BY <1>3 DEF ClientInv, Journal
<1>7. Hands'
  <2>1. Held(t)'
    BY <1>1, <1>3, <1>4 DEF Held
  <2>2. ASSUME NEW u \in Threads \ {t} PROVE Held(u)'
    <3>1. Held(u) /\ call'[u] = call[u]
      BY <1>4 DEF ClientInv, Hands
    <3>2. call[u] # Idle => call[u].id # n
      BY DEF ClientInv, Hands, InHand, Idle
    <3> QED
      BY <1>3, <3>1, <3>2 DEF Held
  <2>3. call'[t].id = call[t].id /\ call[t] # Idle
    BY <1>4 DEF InHand, Idle
  <2> QED
    BY <1>4, <2>1, <2>2, <2>3 DEF ClientInv, Hands
<1>8. \A m \in net' : Sound(m)'
  BY <1>3, <1>5 DEF ClientInv, Sound
<1>9. Told'
  BY <1>1, <1>3, <1>5 DEF ClientInv, Told, Outcomes
<1> QED
  BY <1>6, <1>7, <1>8, <1>9 DEF ClientInv

(* A thread moves within its invocation, sending at most its own request.  *)
LEMMA StayInv ==
  ASSUME ClientInv, NEW t \in Threads, InHand(t),
         NEW st \in {"waiting", "sleeping"}, NEW attempt \in Attempts,
         st = "sleeping" => attempt < MaxAttempts,
         call' = [call EXCEPT ![t] = [st |-> st, id |-> call[t].id, attempt |-> attempt]],
         calls' = calls, ledger' = ledger,
         \A m \in net' : m \in net \/ m = Request(call[t].id, attempt)
  PROVE  ClientInv'
<1> DEFINE n == call[t].id
<1>1. n \in DOMAIN calls /\ calls[n].outcome = "open" /\ DOMAIN call = Threads
  BY InHandHolds DEF ClientInv, Hands
<1>2. /\ call'[t] = [st |-> st, id |-> n, attempt |-> attempt]
      /\ DOMAIN call' = Threads /\ \A u \in Threads \ {t} : call'[u] = call[u]
  BY <1>1
<1>3. \A k : OnLedger(k)' <=> OnLedger(k)
  BY DEF OnLedger
<1>4. Hands'
  <2>1. \A u \in Threads : Held(u)'
    BY <1>1, <1>2 DEF ClientInv, Hands, Held
  <2>2. call'[t].id = n /\ call[t] # Idle
    BY <1>2 DEF InHand, Idle
  <2> QED
    BY <1>2, <2>1, <2>2 DEF ClientInv, Hands
<1>5. \A m \in net' : Sound(m)'
  <2>1. ASSUME NEW m, m = Request(n, attempt) PROVE Sound(m)'
    BY <2>1, <1>1 DEF Sound, Request, NonceOf
  <2>2. ASSUME NEW m \in net PROVE Sound(m)'
    BY <1>3 DEF ClientInv, Sound
  <2> QED
    BY <2>1, <2>2
<1> QED
  BY <1>3, <1>4, <1>5 DEF ClientInv, Journal, Told

(* An exception that reports what is so.                                   *)
LEMMA RaiseOrRetryInv ==
  ASSUME ClientInv, NEW t \in Threads, Waiting(t),
         NEW error \in {"replay", "refused", "unreachable"}, RaiseOrRetry(t, error),
         calls[call[t].id].fn = Submission /\ error = "replay" => OnLedger(call[t].id),
         net' \subseteq net, ledger' = ledger
  PROVE  ClientInv'
<1>1. InHand(t)
  BY DEF Waiting, InHand
<1>2. CASE call[t].attempt >= MaxAttempts
  <2> DEFINE outcome == IF error = "replay" THEN "replay" ELSE "raised"
  <2>1. Finish(t, "raised", outcome, error)
    BY <1>2 DEF RaiseOrRetry
  <2>2. outcome \in Outcomes \ {"open"} /\ error \in Results /\ (outcome # "raised" => error = "replay")
    BY DEF Outcomes, Results
  <2> HIDE DEF outcome
  <2> QED
    BY <1>1, <2>1, <2>2, FinishInv
<1>3. CASE ~(call[t].attempt >= MaxAttempts)
  <2>1. call' = [call EXCEPT ![t].st = "sleeping"] /\ calls' = calls
    BY <1>3 DEF RaiseOrRetry
  <2>2. call[t] \in [st : {"waiting", "sleeping"}, id : DOMAIN calls, attempt : Attempts]
    BY <1>1, InHandHolds
  <2>3. call[t].attempt < MaxAttempts
    BY <1>3, <2>2, ClientAssumption DEF Attempts
  <2>4. [call[t] EXCEPT !.st = "sleeping"]
          = [st |-> "sleeping", id |-> call[t].id, attempt |-> call[t].attempt]
    BY <2>2
  <2> QED
    BY <1>1, <2>1, <2>2, <2>3, <2>4, StayInv
<1> QED
  BY <1>2, <1>3

(* The retry loop keeps the invariant, whatever the invoker does.          *)
LEMMA ClientStepInv ==
  ASSUME ClientInv, NEW t \in Threads, ClientStep(t)
  PROVE  ClientInv'
<1>1. CASE Receive(t)
  <2>1. PICK m \in RepliesTo(t) :
          /\ net' = net \ {m}
          /\ \/ /\ m.result \in {"GRANT", "DENY", "done"}
                /\ Finish(t, "returned", "returned", m.result)
             \/ /\ m.result \in {"replay", "refused"}
                /\ RaiseOrRetry(t, m.result)
    BY <1>1 DEF Receive
  <2>2. Waiting(t) /\ InHand(t) /\ ledger' = ledger /\ net' \subseteq net
    BY <1>1, <2>1 DEF Receive, Waiting, InHand
  <2>3. Sound(m) /\ m.kind = "reply" /\ m.id = call[t].id
    BY <2>1 DEF RepliesTo, ClientInv
  <2>4. /\ calls[call[t].id].fn = Submission /\ m.result # "refused" => OnLedger(call[t].id)
        /\ m.result \in Results
    BY <2>3 DEF Sound, Submission, Results
  <2>5. CASE m.result \in {"GRANT", "DENY", "done"} /\ Finish(t, "returned", "returned", m.result)
    <3>1. "returned" \in Outcomes \ {"open"}
      BY DEF Outcomes
    <3> QED
      BY <2>2, <2>4, <2>5, <3>1, FinishInv
  <2>6. CASE m.result \in {"replay", "refused"} /\ RaiseOrRetry(t, m.result)
    BY <2>2, <2>4, <2>6, RaiseOrRetryInv
  <2> QED
    BY <2>1, <2>5, <2>6
<1>2. CASE Fail(t)
  BY <1>2, RaiseOrRetryInv DEF Fail
<1>3. CASE Retry(t)
  <2>1. InHand(t) /\ call[t].st = "sleeping"
    BY <1>3 DEF Retry, InHand
  <2>2. call[t] \in [st : {"waiting", "sleeping"}, id : DOMAIN calls, attempt : Attempts]
    BY <2>1, InHandHolds
  <2>3. call[t].attempt < MaxAttempts
    BY <2>1, InHandHolds
  <2>4. call[t].attempt + 1 \in Attempts
    BY <2>2, <2>3, ClientAssumption DEF Attempts
  <2>5. [[call[t] EXCEPT !.st = "waiting"] EXCEPT !.attempt = call[t].attempt + 1]
          = [st |-> "waiting", id |-> call[t].id, attempt |-> call[t].attempt + 1]
    <3> DEFINE w == [call[t] EXCEPT !.st = "waiting"]
    <3>1. /\ w \in [st : {"waiting"}, id : DOMAIN calls, attempt : Attempts]
          /\ w.st = "waiting" /\ w.id = call[t].id
      BY <2>2
    <3> HIDE DEF w
    <3>2. [w EXCEPT !.attempt = call[t].attempt + 1]
            = [st |-> "waiting", id |-> call[t].id, attempt |-> call[t].attempt + 1]
      BY <3>1
    <3> QED
      BY <3>2 DEF w
  <2>6. call' = [call EXCEPT ![t] = [st |-> "waiting", id |-> call[t].id,
                                     attempt |-> call[t].attempt + 1]]
    BY <1>3, <2>2, <2>5 DEF Retry, ClientInv, Hands
  <2>7. /\ calls' = calls /\ ledger' = ledger
        /\ net' = net \cup {Request(call[t].id, call[t].attempt + 1)}
    BY <1>3 DEF Retry, Send
  <2> QED
    BY <2>1, <2>4, <2>6, <2>7, StayInv
<1> QED
  BY <1>1, <1>2, <1>3 DEF ClientStep

(* The caller takes the result.                                            *)
LEMMA CollectInv ==
  ASSUME ClientInv, NEW t \in Threads, Collect(t)
  PROVE  ClientInv'
<1>1. /\ DOMAIN call' = Threads /\ call'[t] = Idle
      /\ \A u \in Threads \ {t} : call'[u] = call[u]
      /\ calls' = calls /\ net' = net /\ ledger' = ledger
  BY DEF Collect, ClientInv, Hands
<1>2. Hands'
  <2>1. \A u \in Threads : Held(u)'
    BY <1>1 DEF ClientInv, Hands, Held
  <2> QED
    BY <1>1, <2>1 DEF ClientInv, Hands
<1> QED
  BY <1>1, <1>2 DEF ClientInv, Journal, Sound, Told, OnLedger

-----------------------------------------------------------------------------
(* The client on its own makes no other call than a submission.            *)
Submissions == \A n \in DOMAIN calls : calls[n].fn = Submission
SubmitterInv == ClientInv /\ Submissions

(* Every step of the client keeps the invariant.                           *)
LEMMA NextSubmitter == SubmitterInv /\ [ClientNext]_<<clientVars, clock>> => SubmitterInv'
<1> SUFFICES ASSUME SubmitterInv, [ClientNext]_<<clientVars, clock>> PROVE SubmitterInv'
  OBVIOUS
<1>1. ASSUME NEW t \in Threads, NEW r \in Readings, Invoke(t, Submission, r)
      PROVE  SubmitterInv'
  <2>1. ClientInv'
    BY <1>1, InvokeInv DEF SubmitterInv, Functions
  <2>2. /\ calls \in Seq(CallRecords)
        /\ calls' = Append(calls, [fn |-> Submission, reading |-> r, outcome |-> "open"])
        /\ [fn |-> Submission, reading |-> r, outcome |-> "open"] \in CallRecords
    BY <1>1 DEF Invoke, SubmitterInv, ClientInv, Journal, CallRecords, Functions, Outcomes
  <2>3. Submissions'
    BY <2>2 DEF SubmitterInv, Submissions
  <2> QED
    BY <2>1, <2>3 DEF SubmitterInv
<1>2. ASSUME NEW t \in Threads, ClientStep(t) PROVE SubmitterInv'
  <2>1. ClientInv'
    BY <1>2, ClientStepInv DEF SubmitterInv
  <2>2. \/ calls' = calls
        \/ \E outcome : calls' = [calls EXCEPT ![call[t].id].outcome = outcome]
    BY <1>2 DEF ClientStep, Receive, Fail, Retry, RaiseOrRetry, Finish
  <2>3. \A n \in DOMAIN calls : calls[n] \in CallRecords
    BY DEF SubmitterInv, ClientInv, Journal
  <2>4. Submissions'
    BY <2>2, <2>3, ZenonT(60) DEF SubmitterInv, Submissions, CallRecords
  <2> QED
    BY <2>1, <2>4 DEF SubmitterInv
<1>3. ASSUME NEW t \in Threads, Collect(t) PROVE SubmitterInv'
  BY <1>3, CollectInv DEF SubmitterInv, Submissions, Collect
<1>4. ASSUME NEW m \in net, NEW decision \in {"GRANT", "DENY"}, Execute(m, decision)
      PROVE  SubmitterInv'
  BY <1>4, ExecuteInv DEF SubmitterInv, Submissions, Execute
<1>5. CASE UNCHANGED <<clientVars, clock>>
  BY <1>5 DEF clientVars, SubmitterInv, Submissions, ClientInv, Journal, Hands, Held, InHand,
              Sound, Told, OnLedger
<1> QED
  BY <1>1, <1>2, <1>3, <1>4, <1>5 DEF ClientNext

(* The inductive invariant holds of every execution of the client.         *)
THEOREM SubmitterInvariance == ClientSpec => []SubmitterInv
<1>1. ClientInit => SubmitterInv
  BY ClientInitInv DEF SubmitterInv, Submissions, ClientInit
<1> QED
  BY <1>1, NextSubmitter, PTL DEF ClientSpec

(* Invocations, attempts and messages are well formed: an invocation is in *)
(* its caller's hands exactly while its outcome is open.                   *)
THEOREM ClientTypes == ClientSpec => []ClientTypeOK
<1>1. SubmitterInv => ClientTypeOK
  BY ClientInvTypes DEF SubmitterInv
<1> QED
  BY <1>1, SubmitterInvariance, PTL

-----------------------------------------------------------------------------
(* The refinement: what the ledger holds of an invocation is counted, and  *)
(* an invocation has one entry or none.                                    *)
MappedOutcome == [n \in DOMAIN calls |-> calls[n].outcome]
MappedEffects == [n \in DOMAIN calls |-> Effects(n)]

(* At most one entry of an invocation.                                     *)
LEMMA OneEffect ==
  ASSUME Journal, NEW n
  PROVE  Effects(n) = IF OnLedger(n) THEN 1 ELSE 0
<1> DEFINE S == {i \in DOMAIN ledger : ledger[i].id = n}
<1>1. CASE OnLedger(n)
  <2>1. PICK i \in DOMAIN ledger : ledger[i].id = n
    BY <1>1 DEF OnLedger
  <2>2. S = {i}
    BY <2>1 DEF Journal
  <2>3. Cardinality({i}) = 1
    BY FS_Singleton
  <2> QED
    BY <1>1, <2>2, <2>3 DEF Effects
<1>2. CASE ~OnLedger(n)
  <2>1. S = {}
    BY <1>2 DEF OnLedger
  <2>2. Cardinality({}) = 0
    BY FS_EmptySet
  <2> QED
    BY <1>2, <2>1, <2>2 DEF Effects
<1> QED
  BY <1>1, <1>2

(* The same of the state after a step.                                     *)
LEMMA OneEffectNext == Journal' => (\A n : Effects(n) = IF OnLedger(n) THEN 1 ELSE 0)'
<1>1. Journal => \A n : Effects(n) = IF OnLedger(n) THEN 1 ELSE 0
  BY OneEffect
<1> QED
  BY <1>1, PTL

(* Append, as the function of positions it returns.                        *)
LEMMA AppendIsFunction ==
  ASSUME NEW S, NEW seq \in Seq(S), NEW x \in S
  PROVE  Append(seq, x) =
           [i \in 1 .. Len(seq) + 1 |-> IF i = Len(seq) + 1 THEN x ELSE seq[i]]
<1> DEFINE n == Len(seq)
           a == Append(seq, x)
<1>1. /\ a \in Seq(S) /\ Len(a) = n + 1 /\ n \in Nat
      /\ a[n + 1] = x /\ \A i \in 1 .. n : a[i] = seq[i]
  BY AppendProperties
<1>2. a = [i \in 1 .. n + 1 |-> a[i]]
  BY <1>1, LenProperties
<1>3. \A i \in 1 .. n + 1 : a[i] = (IF i = n + 1 THEN x ELSE seq[i])
  BY <1>1
<1> HIDE DEF a, n
<1>4. a = [i \in 1 .. n + 1 |-> IF i = n + 1 THEN x ELSE seq[i]]
  BY <1>2, <1>3
<1> QED
  BY <1>4 DEF a, n

(* The mapped state is one entry per invocation.                           *)
LEMMA MappedTypes ==
  ASSUME SubmitterInv
  PROVE  /\ MappedOutcome \in Seq(Outcomes) /\ MappedEffects \in Seq({0, 1})
         /\ Len(MappedOutcome) = Len(calls) /\ Len(MappedEffects) = Len(calls)
         /\ DOMAIN MappedOutcome = DOMAIN calls
<1>1. calls \in Seq(CallRecords) /\ Journal
  BY DEF SubmitterInv, ClientInv, Journal
<1>2. /\ Len(calls) \in Nat /\ DOMAIN calls = 1 .. Len(calls)
      /\ \A n \in DOMAIN calls : calls[n].outcome \in Outcomes /\ Effects(n) \in {0, 1}
  <2>1. \A n : Effects(n) \in {0, 1}
    BY <1>1, OneEffect
  <2>2. \A n \in DOMAIN calls : calls[n] \in CallRecords
    BY <1>1
  <2> QED
    BY <1>1, <2>1, <2>2 DEF CallRecords
<1> QED
  BY <1>2 DEF MappedOutcome, MappedEffects

(* A new invocation is a new submission.                                   *)
LEMMA InvokeSubmits ==
  ASSUME SubmitterInv, SubmitterInv', NEW t \in Threads, NEW r \in Readings,
         Invoke(t, Submission, r)
  PROVE  Promise!Submit
<1> DEFINE n == Len(calls) + 1
           new == [fn |-> Submission, reading |-> r, outcome |-> "open"]
<1>1. /\ calls \in Seq(CallRecords) /\ calls' = Append(calls, new) /\ ledger' = ledger
      /\ Len(calls) < MaxCalls /\ new \in CallRecords
  BY DEF Invoke, SubmitterInv, ClientInv, Journal, CallRecords, Functions, Outcomes
<1>2. /\ n \in Nat /\ DOMAIN calls = 1 .. n - 1 /\ DOMAIN calls' = 1 .. n
      /\ calls'[n].outcome = "open" /\ \A k \in 1 .. n - 1 : calls'[k] = calls[k]
  BY <1>1
<1>3. \A k : Effects(k)' = Effects(k)
  BY <1>1 DEF Effects
<1>4. Effects(n) = 0
  <2>1. ~OnLedger(n)
    BY <1>2 DEF OnLedger, SubmitterInv, ClientInv, Journal
  <2> QED
    BY <2>1, OneEffect DEF SubmitterInv, ClientInv
<1> HIDE DEF n
<1>5. MappedOutcome' = Append(MappedOutcome, "open")
  <2>1. Append(MappedOutcome, "open")
          = [i \in 1 .. Len(calls) + 1 |-> IF i = Len(calls) + 1 THEN "open" ELSE MappedOutcome[i]]
    BY MappedTypes, AppendIsFunction DEF Outcomes
  <2>2. \A i \in 1 .. n : calls'[i].outcome = IF i = n THEN "open" ELSE MappedOutcome[i]
    BY <1>2 DEF MappedOutcome
  <2> QED
    BY <2>1, <2>2, <1>2 DEF MappedOutcome, n
<1>6. MappedEffects' = Append(MappedEffects, 0)
  <2>1. Append(MappedEffects, 0)
          = [i \in 1 .. Len(calls) + 1 |-> IF i = Len(calls) + 1 THEN 0 ELSE MappedEffects[i]]
    BY MappedTypes, AppendIsFunction
  <2>2. \A i \in 1 .. n : Effects(i)' = IF i = n THEN 0 ELSE MappedEffects[i]
    BY <1>2, <1>3, <1>4 DEF MappedEffects
  <2> QED
    BY <2>1, <2>2, <1>2 DEF MappedEffects, n
<1>7. Len(MappedOutcome) < MaxCalls
  BY <1>1, MappedTypes
<1> QED
  BY <1>5, <1>6, <1>7 DEF Promise!Submit, MappedOutcome, MappedEffects

(* A commit is the one effect of its invocation, which nobody has been     *)
(* told of.                                                                *)
LEMMA ExecuteTakesEffect ==
  ASSUME SubmitterInv, SubmitterInv', NEW m \in net, NEW decision \in {"GRANT", "DENY"},
         Execute(m, decision)
  PROVE  \/ \E n \in DOMAIN MappedOutcome : Promise!TakeEffect(n)
         \/ UNCHANGED Promise!vars
<1> DEFINE entry == [id |-> m.id, nonce |-> m.nonce]
<1>1. calls' = calls /\ m.kind = "request"
  BY DEF Execute
<1>2. /\ m.id \in DOMAIN calls /\ m.nonce = <<m.id>> /\ Journal /\ Journal'
      /\ calls[m.id].fn = Submission /\ calls \in Seq(CallRecords)
  BY <1>1 DEF SubmitterInv, ClientInv, Sound, Submissions, Journal
<1>3. CASE Result(m, decision) # "done"
  BY <1>1, <1>3 DEF Execute, Promise!vars, Effects
<1>4. CASE Result(m, decision) = "done"
  <2>1. ~OnLedger(m.id)
    BY <1>2, <1>4, NoncesApart DEF Result, Submission, Replayed, OnLedger, Journal
  <2>2. /\ ledger' = Append(ledger, entry) /\ ledger \in Seq([id : Nat, nonce : Seq(Nat)])
        /\ entry \in [id : Nat, nonce : Seq(Nat)] /\ entry.id = m.id
    BY <1>2, <1>4 DEF Execute, Journal
  <2> HIDE DEF entry
  <2>3. \A n : OnLedger(n)' <=> OnLedger(n) \/ n = m.id
    <3>1. /\ Len(ledger) \in Nat /\ DOMAIN ledger = 1 .. Len(ledger)
          /\ DOMAIN ledger' = 1 .. Len(ledger) + 1
          /\ ledger'[Len(ledger) + 1] = entry /\ \A i \in 1 .. Len(ledger) : ledger'[i] = ledger[i]
      BY <2>2
    <3>2. ASSUME NEW n, OnLedger(n)' PROVE OnLedger(n) \/ n = m.id
      BY <3>1, <3>2, <2>2 DEF OnLedger
    <3>3. ASSUME NEW n, OnLedger(n) PROVE OnLedger(n)'
      BY <3>1, <3>3 DEF OnLedger
    <3>4. Len(ledger) + 1 \in DOMAIN ledger'
      BY <3>1
    <3>5. OnLedger(m.id)'
      BY <3>1, <3>4, <2>2 DEF OnLedger
    <3> QED
      BY <3>2, <3>3, <3>5
  <2>4. \A n : Effects(n)' = IF n = m.id THEN 1 ELSE Effects(n)
    <3>1. \A n : Effects(n) = IF OnLedger(n) THEN 1 ELSE 0
      BY <1>2, OneEffect
    <3>2. \A n : Effects(n)' = IF OnLedger(n)' THEN 1 ELSE 0
      BY <1>2, OneEffectNext
    <3> QED
      BY <3>1, <3>2, <2>3
  <2>5. MappedEffects' = [MappedEffects EXCEPT ![m.id] = 1]
    BY <1>1, <2>4 DEF MappedEffects
  <2>6. MappedEffects[m.id] = 0
    BY <1>2, <2>1, OneEffect DEF MappedEffects
  <2>7. MappedOutcome' = MappedOutcome
    BY <1>1 DEF MappedOutcome
  <2>8. MappedOutcome[m.id] \in {"open", "raised"}
    <3>1. calls[m.id] \in CallRecords
      BY <1>2
    <3>2. calls[m.id].outcome \notin {"returned", "replay"}
      BY <1>2, <2>1 DEF SubmitterInv, ClientInv, Told
    <3> QED
      BY <1>2, <3>1, <3>2 DEF CallRecords, Outcomes, MappedOutcome
  <2>9. Promise!TakeEffect(m.id)
    BY <2>5, <2>6, <2>7, <2>8 DEF Promise!TakeEffect, MappedOutcome, MappedEffects
  <2> QED
    BY <1>2, <2>9 DEF MappedOutcome
<1> QED
  BY <1>3, <1>4

(* An invocation that ends closes its submission with what was told.       *)
LEMMA FinishCloses ==
  ASSUME SubmitterInv, NEW t \in Threads, InHand(t), ledger' = ledger,
         NEW st, NEW result, NEW told \in {"returned", "replay", "raised"},
         Finish(t, st, told, result), told # "raised" => OnLedger(call[t].id)
  PROVE  \E n \in DOMAIN MappedOutcome : Promise!Close(n, told)
<1> DEFINE n == call[t].id
<1>1. /\ n \in DOMAIN calls /\ calls[n].outcome = "open" /\ Journal
      /\ calls \in Seq(CallRecords)
  BY InHandHolds DEF SubmitterInv, ClientInv, Journal
<1>2. \A k \in DOMAIN calls : calls[k] \in CallRecords
  BY <1>1
<1>3. /\ DOMAIN calls' = DOMAIN calls
      /\ \A k \in DOMAIN calls : calls'[k].outcome = IF k = n THEN told ELSE calls[k].outcome
  BY <1>1, <1>2 DEF Finish, CallRecords
<1>4. MappedOutcome' = [MappedOutcome EXCEPT ![n] = told]
  BY <1>3 DEF MappedOutcome
<1>5. MappedEffects' = MappedEffects
  BY <1>3 DEF MappedEffects, Effects
<1>6. told \in {"returned", "replay"} => MappedEffects[n] = 1
  BY <1>1, OneEffect DEF MappedEffects
<1>7. MappedOutcome[n] = "open" /\ n \in DOMAIN MappedOutcome
  BY <1>1 DEF MappedOutcome
<1>8. Promise!Close(n, told)
  BY <1>4, <1>5, <1>6, <1>7 DEF Promise!Close, MappedOutcome, MappedEffects
<1> QED
  BY <1>7, <1>8

(* An exception either closes the submission or changes nothing of it.     *)
LEMMA RaiseOrRetryCloses ==
  ASSUME SubmitterInv, NEW t \in Threads, Waiting(t), ledger' = ledger,
         NEW error \in {"replay", "refused", "unreachable"}, RaiseOrRetry(t, error),
         error = "replay" => OnLedger(call[t].id)
  PROVE  \/ \E n \in DOMAIN MappedOutcome :
              \E told \in {"returned", "replay", "raised"} : Promise!Close(n, told)
         \/ UNCHANGED Promise!vars
<1>1. CASE call[t].attempt >= MaxAttempts
  <2> DEFINE told == IF error = "replay" THEN "replay" ELSE "raised"
  <2>1. Finish(t, "raised", told, error) /\ InHand(t)
    BY <1>1 DEF RaiseOrRetry, Waiting, InHand
  <2>2. told \in {"returned", "replay", "raised"} /\ (told # "raised" => error = "replay")
    OBVIOUS
  <2> HIDE DEF told
  <2>3. \E n \in DOMAIN MappedOutcome : Promise!Close(n, told)
    BY <2>1, <2>2, FinishCloses
  <2> QED
    BY <2>2, <2>3
<1>2. CASE ~(call[t].attempt >= MaxAttempts)
  BY <1>2 DEF RaiseOrRetry, Promise!vars, Effects
<1> QED
  BY <1>1, <1>2

(* A step of the retry loop closes a submission or changes none.           *)
LEMMA ClientStepCloses ==
  ASSUME SubmitterInv, NEW t \in Threads, ClientStep(t)
  PROVE  \/ \E n \in DOMAIN MappedOutcome :
              \E told \in {"returned", "replay", "raised"} : Promise!Close(n, told)
         \/ UNCHANGED Promise!vars
<1>1. CASE Receive(t)
  <2>1. PICK m \in RepliesTo(t) :
          \/ /\ m.result \in {"GRANT", "DENY", "done"}
             /\ Finish(t, "returned", "returned", m.result)
          \/ /\ m.result \in {"replay", "refused"}
             /\ RaiseOrRetry(t, m.result)
    BY <1>1 DEF Receive
  <2>2. Waiting(t) /\ InHand(t) /\ ledger' = ledger
    BY <1>1 DEF Receive, Waiting, InHand
  <2>3. Sound(m) /\ m.kind = "reply" /\ m.id = call[t].id /\ calls[m.id].fn = Submission
    BY <2>1 DEF RepliesTo, SubmitterInv, ClientInv, Submissions, Sound
  <2>4. m.result # "refused" => OnLedger(call[t].id)
    BY <2>3 DEF Sound, Submission
  <2>5. CASE m.result \in {"GRANT", "DENY", "done"} /\ Finish(t, "returned", "returned", m.result)
    <3>1. \E n \in DOMAIN MappedOutcome : Promise!Close(n, "returned")
      BY <2>2, <2>4, <2>5, FinishCloses
    <3> QED
      BY <3>1
  <2>6. CASE m.result \in {"replay", "refused"} /\ RaiseOrRetry(t, m.result)
    BY <2>2, <2>4, <2>6, RaiseOrRetryCloses
  <2> QED
    BY <2>1, <2>5, <2>6
<1>2. CASE Fail(t)
  BY <1>2, RaiseOrRetryCloses DEF Fail
<1>3. CASE Retry(t)
  BY <1>3 DEF Retry, Promise!vars, Effects
<1> QED
  BY <1>1, <1>2, <1>3 DEF ClientStep

(* _invoke implements calls that take effect at most once: for any number  *)
(* of threads, attempts and calls, whatever is lost, late or repeated.     *)
THEOREM InvokeAtMostOnce == ClientSpec => CallsAtMostOnce
<1>1. ClientInit => Promise!Init
  <2> SUFFICES ASSUME ClientInit PROVE Promise!Init
    OBVIOUS
  <2>1. calls = <<>>
    BY DEF ClientInit
  <2> QED
    BY <2>1 DEF Promise!Init
<1>2. SubmitterInv /\ SubmitterInv' /\ [ClientNext]_<<clientVars, clock>>
        => [Promise!Next]_(Promise!vars)
  <2> SUFFICES ASSUME SubmitterInv, SubmitterInv', [ClientNext]_<<clientVars, clock>>
               PROVE  Promise!Next \/ UNCHANGED Promise!vars
    OBVIOUS
  <2>1. ASSUME NEW t \in Threads, NEW r \in Readings, Invoke(t, Submission, r)
        PROVE  Promise!Next
    BY <2>1, InvokeSubmits DEF Promise!Next
  <2>2. ASSUME NEW t \in Threads, ClientStep(t)
        PROVE  Promise!Next \/ UNCHANGED Promise!vars
    BY <2>2, ClientStepCloses DEF Promise!Next, MappedOutcome
  <2>3. ASSUME NEW t \in Threads, Collect(t) PROVE UNCHANGED Promise!vars
    BY <2>3 DEF Collect, Promise!vars, Effects
  <2>4. ASSUME NEW m \in net, NEW decision \in {"GRANT", "DENY"}, Execute(m, decision)
        PROVE  Promise!Next \/ UNCHANGED Promise!vars
    BY <2>4, ExecuteTakesEffect DEF Promise!Next, MappedOutcome
  <2>5. CASE UNCHANGED <<clientVars, clock>>
    BY <2>5 DEF clientVars, Promise!vars, Effects
  <2> QED
    BY <2>1, <2>2, <2>3, <2>4, <2>5 DEF ClientNext
<1> QED
  BY <1>1, <1>2, SubmitterInvariance, PTL DEF ClientSpec, CallsAtMostOnce, Promise!Spec

-----------------------------------------------------------------------------
Decisions == {"GRANT", "DENY"}

(* The state of the process and of the ledger's policy.                    *)
Shapes ==
  /\ DOMAIN work = Threads /\ DOMAIN cache = Keys
  /\ arrived \subseteq Readings /\ queue \in Seq(arrived)
  /\ clock \in 0 .. MaxTime
  /\ policy \in [Keys -> [value : Decisions, since : Nat]]

(* Where a thread may be in handle_reading.                                *)
Working(t) ==
  \/ work[t] = Free \/ work[t] = Ended
  \/ work[t] \in [pc : {"handle", "asking", "submitting"}, reading : arrived]
  \/ work[t] \in [pc : {"act"}, reading : arrived, decision : Decisions]

(* The call a thread has open is the one its handler made.                 *)
Calling(t) ==
  /\ call[t] # Idle <=> work[t].pc \in {"asking", "submitting"}
  /\ work[t].pc = "asking" => calls[call[t].id].fn = "CheckAccess"
  /\ work[t].pc = "submitting" => calls[call[t].id].fn = Submission
  /\ work[t].pc \in {"asking", "submitting"} => calls[call[t].id].reading = work[t].reading

(* A decision that has reached its caller was the ledger's a latency ago   *)
(* at most, ...                                                            *)
Answered(t) ==
  work[t].pc = "asking" /\ call[t].st = "returned" =>
    /\ call[t].result \in Decisions
    /\ policy[Key(t)].value # call[t].result => clock <= policy[Key(t)].since + MaxLatency

(* ... and one a thread acts on less than the time to live before that.    *)
Current(t) ==
  work[t].pc = "act" /\ policy[Key(t)].value # work[t].decision =>
    clock < policy[Key(t)].since + TTL + MaxLatency

Thread(t) == Working(t) /\ Calling(t) /\ Answered(t) /\ Current(t)

(* A decision on its way was the ledger's when it was made, and a cached   *)
(* one a latency before it was stored.                                     *)
Travelling(m) ==
  m.kind = "reply" /\ calls[m.id].fn = "CheckAccess" =>
    /\ m.at \in Nat /\ m.at <= clock /\ clock <= m.at + MaxLatency
    /\ policy[KeyOf[calls[m.id].reading]].value # m.result =>
         m.at <= policy[KeyOf[calls[m.id].reading]].since

Stored(k) ==
  \/ cache[k] = NoEntry
  \/ /\ cache[k] \in [value : Decisions, expires : Nat]
     /\ cache[k].expires <= clock + TTL
     /\ policy[k].value # cache[k].value => cache[k].expires <= policy[k].since + TTL + MaxLatency

GatewayInv ==
  /\ ClientInv /\ Shapes
  /\ \A t \in Threads : Thread(t)
  /\ \A m \in net : Travelling(m)
  /\ \A k \in Keys : Stored(k)

-----------------------------------------------------------------------------
(* Nothing is cached, asked or handled initially.                          *)
LEMMA GatewayInitInv == Init => GatewayInv
<1> SUFFICES ASSUME Init PROVE GatewayInv
  OBVIOUS
<1>1. ClientInv /\ call = [t \in Threads |-> Idle] /\ net = {} /\ clock = 0
  BY ClientInitInv DEF Init, ClientInit
<1>2. Shapes
  BY <1>1, ClientAssumption DEF Init, ProcessStart, Shapes, Decisions
<1>3. \A t \in Threads : Thread(t)
  BY <1>1 DEF Init, ProcessStart, Thread, Working, Calling, Answered, Current, Free, Ended
<1>4. \A k \in Keys : Stored(k)
  BY DEF Init, ProcessStart, Stored
<1> QED
  BY <1>1, <1>2, <1>3, <1>4 DEF GatewayInv

(* An invocation keeps its function and its argument.                      *)
CallsKept ==
  \A n \in DOMAIN calls : /\ n \in DOMAIN calls'
                          /\ calls'[n].fn = calls[n].fn /\ calls'[n].reading = calls[n].reading

(* A new invocation leaves the others alone.                               *)
LEMMA InvokeKeeps ==
  ASSUME ClientInv, NEW t \in Threads, NEW fn \in Functions, NEW r \in Readings,
         Invoke(t, fn, r)
  PROVE  /\ CallsKept
         /\ calls'[Len(calls) + 1] = [fn |-> fn, reading |-> r, outcome |-> "open"]
         /\ call'[t] = [st |-> "waiting", id |-> Len(calls) + 1, attempt |-> 1]
         /\ \A u \in Threads \ {t} : call'[u] = call[u]
         /\ \A m \in net' : m \in net \/ m.kind = "request"
<1> DEFINE new == [fn |-> fn, reading |-> r, outcome |-> "open"]
<1>1. calls \in Seq(CallRecords) /\ new \in CallRecords /\ calls' = Append(calls, new)
  BY DEF Invoke, ClientInv, Journal, CallRecords, Outcomes
<1>2. CallsKept /\ calls'[Len(calls) + 1] = new
  BY <1>1 DEF CallsKept
<1>3. \A m \in net' : m \in net \/ m.kind = "request"
  BY DEF Invoke, Send, Request
<1> QED
  BY <1>2, <1>3 DEF Invoke, ClientInv, Hands

(* A step of the retry loop changes only its thread's invocation, and that *)
(* one returns only what a reply brought.                                  *)
LEMMA ClientStepKeeps ==
  ASSUME ClientInv, NEW t \in Threads, ClientStep(t)
  PROVE  /\ CallsKept /\ call[t] # Idle /\ call'[t] # Idle
         /\ call'[t].id = call[t].id
         /\ \A u \in Threads \ {t} : call'[u] = call[u]
         /\ \A m \in net' : m \in net \/ m.kind = "request"
         /\ call'[t].st = "returned" =>
              \E m \in net : /\ m.kind = "reply" /\ m.id = call[t].id
                             /\ m.result = call'[t].result
<1>1. InHand(t)
  BY DEF ClientStep, Receive, Fail, Retry, Waiting, InHand
<1>2. /\ call[t] \in [st : {"waiting", "sleeping"}, id : DOMAIN calls, attempt : Attempts]
      /\ DOMAIN call = Threads /\ calls \in Seq(CallRecords)
  BY <1>1, InHandHolds DEF ClientInv, Hands, Journal
<1>3. \A n \in DOMAIN calls : calls[n] \in CallRecords
  BY <1>2
<1>4. ASSUME NEW outcome, calls' = [calls EXCEPT ![call[t].id].outcome = outcome]
      PROVE  CallsKept
  BY <1>2, <1>3, <1>4 DEF CallsKept, CallRecords
<1>5. ASSUME calls' = calls PROVE CallsKept
  BY <1>5 DEF CallsKept
<1>6. ASSUME NEW st, NEW outcome, NEW result, Finish(t, st, outcome, result), st # "idle"
      PROVE  /\ CallsKept /\ call'[t].id = call[t].id /\ call'[t] # Idle
             /\ \A u \in Threads \ {t} : call'[u] = call[u]
             /\ call'[t].st = st /\ call'[t].result = result
  <2>1. CallsKept
    BY <1>4, <1>6 DEF Finish
  <2> QED
    BY <1>2, <1>6, <2>1 DEF Finish, Idle
<1>7. ASSUME NEW error, RaiseOrRetry(t, error)
      PROVE  /\ CallsKept /\ call'[t].id = call[t].id /\ call'[t] # Idle
             /\ \A u \in Threads \ {t} : call'[u] = call[u]
             /\ call'[t].st # "returned"
  <2>1. CASE call[t].attempt >= MaxAttempts
    BY <1>7, <2>1, <1>6 DEF RaiseOrRetry
  <2>2. CASE ~(call[t].attempt >= MaxAttempts)
    <3>1. call' = [call EXCEPT ![t].st = "sleeping"] /\ calls' = calls
      BY <1>7, <2>2 DEF RaiseOrRetry
    <3> QED
      BY <1>2, <1>5, <3>1 DEF Idle
  <2> QED
    BY <2>1, <2>2
<1>8. call[t] # Idle
  BY <1>2 DEF Idle
<1>9. CASE Receive(t)
  <2>1. PICK m \in RepliesTo(t) :
          /\ net' = net \ {m}
          /\ \/ /\ m.result \in {"GRANT", "DENY", "done"}
                /\ Finish(t, "returned", "returned", m.result)
             \/ /\ m.result \in {"replay", "refused"}
                /\ RaiseOrRetry(t, m.result)
    BY <1>9 DEF Receive
  <2>2. m \in net /\ m.kind = "reply" /\ m.id = call[t].id
    BY <2>1 DEF RepliesTo
  <2>3. CASE Finish(t, "returned", "returned", m.result)
    BY <1>6, <1>8, <2>1, <2>2, <2>3
  <2>4. CASE RaiseOrRetry(t, m.result)
    BY <1>7, <1>8, <2>1, <2>4
  <2> QED
    BY <2>1, <2>3, <2>4
<1>10. CASE Fail(t)
  BY <1>10, <1>7, <1>8 DEF Fail
<1>11. CASE Retry(t)
  <2>1. /\ call'[t] # Idle /\ call'[t].st = "waiting" /\ call'[t].id = call[t].id
        /\ \A u \in Threads \ {t} : call'[u] = call[u]
    BY <1>2, <1>11 DEF Retry, Idle
  <2>2. CallsKept /\ \A m \in net' : m \in net \/ m.kind = "request"
    BY <1>5, <1>11 DEF Retry, Send, Request
  <2> QED
    BY <1>8, <2>1, <2>2
<1> QED
  BY <1>9, <1>10, <1>11 DEF ClientStep

-----------------------------------------------------------------------------
(* A step of thread t of the process: time and the policy stand still, and *)
(* the other threads stay where they are.                                  *)
StepOf(t) ==
  /\ CallsKept /\ clock' = clock /\ policy' = policy /\ arrived \subseteq arrived'
  /\ \A u \in Threads \ {t} : work'[u] = work[u] /\ call'[u] = call[u]

(* What an invocation is about.                                            *)
LEMMA CallArguments ==
  ASSUME ClientInv, NEW n \in DOMAIN calls
  PROVE  calls[n].fn \in Functions /\ calls[n].reading \in Readings
<1>1. calls[n] \in CallRecords
  BY DEF ClientInv, Journal
<1> QED
  BY <1>1 DEF CallRecords

(* A thread with a call open is in it.                                     *)
LEMMA CallOpen ==
  ASSUME ClientInv, NEW t \in Threads, call[t] # Idle
  PROVE  call[t].id \in DOMAIN calls
BY DEF ClientInv, Hands, Held

(* The other threads keep what the invariant says of them.                 *)
LEMMA OthersKeep ==
  ASSUME GatewayInv, NEW t \in Threads, StepOf(t), NEW u \in Threads \ {t}
  PROVE  Thread(u)'
<1>1. Thread(u) /\ work'[u] = work[u] /\ call'[u] = call[u]
  BY DEF GatewayInv, StepOf
<1>2. Key(u)' = Key(u) /\ clock' = clock /\ policy' = policy /\ arrived \subseteq arrived'
  BY <1>1 DEF Key, StepOf
<1>3. Working(u)'
  BY <1>1, <1>2 DEF Thread, Working
<1>4. Calling(u)'
  <2>1. work[u].pc \in {"asking", "submitting"} => call[u].id \in DOMAIN calls
    BY <1>1, CallOpen DEF Thread, Calling, GatewayInv
  <2> QED
    BY <1>1, <2>1 DEF Thread, Calling, StepOf, CallsKept
<1>5. Answered(u)' /\ Current(u)'
  BY <1>1, <1>2 DEF Thread, Answered, Current
<1> QED
  BY <1>3, <1>4, <1>5 DEF Thread

(* Decisions on their way stay what they are.                              *)
LEMMA TravellingKeep ==
  ASSUME GatewayInv, CallsKept, clock' = clock, policy' = policy,
         \A m \in net' : m \in net \/ m.kind = "request"
  PROVE  \A m \in net' : Travelling(m)'
<1> SUFFICES ASSUME NEW m \in net', m.kind = "reply", m \in net PROVE Travelling(m)'
  BY DEF Travelling
<1>1. Travelling(m) /\ m.id \in DOMAIN calls
  BY DEF GatewayInv, ClientInv, Sound
<1> QED
  BY <1>1 DEF Travelling, CallsKept

(* A thread's step preserves the invariant if it leaves its own part and   *)
(* the cache as they must be.                                              *)
LEMMA ThreadStep ==
  ASSUME GatewayInv, NEW t \in Threads, StepOf(t), ClientInv', Shapes', Thread(t)',
         \A m \in net' : m \in net \/ m.kind = "request",
         \A k \in Keys : cache'[k] = cache[k] \/ Stored(k)'
  PROVE  GatewayInv'
<1>1. \A u \in Threads : Thread(u)'
  BY OthersKeep
<1>2. \A m \in net' : Travelling(m)'
  BY TravellingKeep DEF StepOf
<1>3. ASSUME NEW k \in Keys PROVE Stored(k)'
  BY DEF GatewayInv, Stored, StepOf
<1> QED
  BY <1>1, <1>2, <1>3 DEF GatewayInv

(* A client that does nothing keeps its invariant.                         *)
LEMMA ClientIdle == ClientInv /\ UNCHANGED clientVars => ClientInv' /\ CallsKept
BY DEF clientVars, ClientInv, Journal, Hands, Held, InHand, Sound, Told, OnLedger, CallsKept

(* A thread without a call open moves within handle_reading.               *)
LEMMA MoveStep ==
  ASSUME GatewayInv, NEW t \in Threads, UNCHANGED <<clientVars, clock, policy, cache>>,
         call[t] = Idle, NEW next, work' = [work EXCEPT ![t] = next],
         arrived \subseteq arrived', arrived' \subseteq Readings, queue' \in Seq(arrived'),
         \/ next \in {Free, Ended}
         \/ \E r \in arrived' : next = Handling(r)
         \/ /\ next \in [pc : {"act"}, reading : arrived', decision : Decisions]
            /\ policy[KeyOf[next.reading]].value # next.decision =>
                 clock < policy[KeyOf[next.reading]].since + TTL + MaxLatency
  PROVE  GatewayInv'
<1>1. ClientInv' /\ CallsKept /\ call' = call /\ net' = net
  BY ClientIdle DEF GatewayInv, clientVars
<1>2. StepOf(t) /\ work'[t] = next /\ DOMAIN work' = Threads
  BY <1>1 DEF StepOf, GatewayInv, Shapes
<1>3. Shapes'
  BY <1>2 DEF GatewayInv, Shapes
<1>4. Working(t)'
  BY <1>2 DEF Working, Handling
<1>5. Calling(t)' /\ Answered(t)'
  BY <1>1, <1>2 DEF Calling, Answered, Free, Ended, Handling
<1>6. Current(t)'
  <2>1. Key(t)' = KeyOf[next.reading]
    BY <1>2 DEF Key
  <2> QED
    BY <1>2, <2>1 DEF Current, Free, Ended, Handling
<1>7. \A m \in net' : m \in net
  BY <1>1
<1> QED
  BY <1>1, <1>2, <1>3, <1>4, <1>5, <1>6, <1>7, ThreadStep DEF Thread

(* A thread handles a reading that has arrived, without a call open.       *)
LEMMA AtFacts ==
  ASSUME GatewayInv, NEW t \in Threads
  PROVE  /\ work[t].pc \in {"handle", "asking", "submitting", "act"} =>
              /\ work[t].reading \in arrived /\ work[t].reading \in Readings /\ Key(t) \in Keys
         /\ work[t].pc = "handle" => work[t] = Handling(work[t].reading)
         /\ work[t].pc = "act" => work[t].decision \in Decisions
         /\ work[t].pc \in {"free", "handle", "act"} => call[t] = Idle
<1>1. Working(t) /\ Calling(t) /\ arrived \subseteq Readings
  BY DEF GatewayInv, Thread, Shapes
<1>2. work[t].pc \in {"handle", "asking", "submitting", "act"} => work[t].reading \in arrived
  BY <1>1 DEF Working, Free, Ended
<1>3. work[t].pc = "handle" => work[t] = Handling(work[t].reading)
  BY <1>1 DEF Working, Free, Ended, Handling
<1>4. work[t].pc = "act" => work[t].decision \in Decisions
  BY <1>1 DEF Working, Free, Ended
<1> QED
  BY <1>1, <1>2, <1>3, <1>4, GatewayAssumption DEF Calling, Key

(* Steps of handle_reading that make no call.                              *)
LEMMA LocalSteps ==
  ASSUME GatewayInv, UNCHANGED clock,
         \/ \E t \in Threads : Reject(t) \/ LookupHit(t) \/ Discard(t)
         \/ \E t \in Sources, r \in Readings : Publish(t, r)
         \/ Drain
  PROVE  GatewayInv'
<1>0. Main \in Threads /\ queue \in Seq(arrived) /\ arrived \subseteq Readings
  BY GatewayAssumption DEF GatewayInv, Shapes
<1>1. ASSUME NEW t \in Threads, Reject(t) PROVE GatewayInv'
  <2>1. PICK next \in {Free, Ended} : work' = [work EXCEPT ![t] = next]
    BY <1>1 DEF Reject, GoTo, LoopOn
  <2>2. /\ UNCHANGED <<clientVars, queue, arrived, cache, policy>>
        /\ work[t].pc \in {"handle", "act"}
    BY <1>1 DEF Reject, At
  <2>3. call[t] = Idle
    BY <2>2, AtFacts
  <2>4. arrived' \subseteq Readings /\ queue' \in Seq(arrived') /\ arrived \subseteq arrived'
    BY <1>0, <2>2
  <2> QED
    BY <2>1, <2>2, <2>3, <2>4, MoveStep, Zenon
<1>2. ASSUME NEW t \in Threads, Discard(t) PROVE GatewayInv'
  <2>1. PICK next \in {Free, Ended} : work' = [work EXCEPT ![t] = next]
    BY <1>2 DEF Discard, GoTo, LoopOn
  <2>2. /\ UNCHANGED <<clientVars, queue, arrived, cache, policy>>
        /\ work[t].pc \in {"handle", "act"}
    BY <1>2 DEF Discard, At
  <2>3. call[t] = Idle
    BY <2>2, AtFacts
  <2>4. arrived' \subseteq Readings /\ queue' \in Seq(arrived') /\ arrived \subseteq arrived'
    BY <1>0, <2>2
  <2> QED
    BY <2>1, <2>2, <2>3, <2>4, MoveStep, Zenon
<1>3. ASSUME NEW t \in Threads, LookupHit(t) PROVE GatewayInv'
  <2> DEFINE next == Acting(t, cache[Key(t)].value)
  <2>1. /\ work[t].reading \in arrived /\ Key(t) \in Keys /\ call[t] = Idle
        /\ Key(t) = KeyOf[work[t].reading]
    BY <1>3, AtFacts DEF LookupHit, At, Key
  <2>2. /\ cache[Key(t)] \in [value : Decisions, expires : Nat] /\ clock \in Nat
        /\ ~(cache[Key(t)].expires <= clock)
        /\ policy[Key(t)].value # cache[Key(t)].value =>
             cache[Key(t)].expires <= policy[Key(t)].since + TTL + MaxLatency
        /\ policy[Key(t)].since \in Nat
    BY <1>3, <2>1 DEF LookupHit, Cached, Expired, GatewayInv, Stored, Shapes
  <2>3. /\ next \in [pc : {"act"}, reading : arrived, decision : Decisions]
        /\ KeyOf[next.reading] = Key(t) /\ next.decision = cache[Key(t)].value
    BY <2>1, <2>2 DEF Acting
  <2>4. policy[Key(t)].value # cache[Key(t)].value =>
          clock < policy[Key(t)].since + TTL + MaxLatency
    BY <2>2, GatewayAssumption
  <2>5. UNCHANGED <<clientVars, clock, policy, cache, arrived, queue>> /\ work' = [work EXCEPT ![t] = next]
    BY <1>3 DEF LookupHit, GoTo
  <2> HIDE DEF next
  <2> QED
    BY <1>0, <2>1, <2>3, <2>4, <2>5, MoveStep
<1>4. ASSUME NEW t \in Sources, NEW r \in Readings, Publish(t, r) PROVE GatewayInv'
  <2>1. t \in Threads /\ call[t] = Idle
    BY <1>4, AtFacts DEF Sources, Publish, At
  <2>2. /\ arrived' = arrived \cup {r} /\ queue' = Append(queue, r)
        /\ work' = [work EXCEPT ![t] = Handling(r)] /\ UNCHANGED <<clientVars, policy, cache>>
    BY <1>4 DEF Publish, GoTo
  <2>3. queue \in Seq(arrived') /\ r \in arrived'
    BY <1>0, <2>2
  <2>4. queue' \in Seq(arrived')
    BY <2>2, <2>3
  <2> QED
    BY <1>0, <2>1, <2>2, <2>3, <2>4, MoveStep
<1>5. CASE Drain
  <2>1. /\ call[Main] = Idle /\ arrived' = arrived
        /\ work' = [work EXCEPT ![Main] = Handling(Head(queue))]
        /\ queue' = Tail(queue) /\ queue # <<>> /\ UNCHANGED <<clientVars, policy, cache>>
    BY <1>0, <1>5, AtFacts DEF Drain, GoTo, At
  <2>2. Head(queue) \in arrived /\ Tail(queue) \in Seq(arrived)
    BY <1>0, <2>1
  <2> QED
    BY <1>0, <2>1, <2>2, MoveStep
<1> QED
  BY <1>1, <1>2, <1>3, <1>4, <1>5

(* check_access and submit_sensor_reading are called.                      *)
LEMMA InvokeSteps ==
  ASSUME GatewayInv, UNCHANGED clock, NEW t \in Threads, LookupMiss(t) \/ Submit(t)
  PROVE  GatewayInv'
<1> DEFINE r == work[t].reading
           next(pc) == [pc |-> pc, reading |-> r]
<1>1. /\ work[t].pc \in {"handle", "act"} /\ r \in arrived /\ r \in Readings /\ Key(t) \in Keys
      /\ work[t].pc = "handle" => work[t] = Handling(r)
  BY AtFacts DEF LookupMiss, Submit, At
<1>2. PICK fn \in Functions, pc \in {"asking", "submitting"} :
        /\ Invoke(t, fn, r) /\ work' = [work EXCEPT ![t] = next(pc)]
        /\ pc = "asking" => fn = "CheckAccess" /\ cache' = [cache EXCEPT ![Key(t)] = NoEntry]
        /\ pc = "submitting" => fn = Submission /\ cache' = cache
        /\ UNCHANGED <<queue, arrived, policy>>
  <2>1. CASE LookupMiss(t)
    <3>1. [work[t] EXCEPT !.pc = "asking"] = next("asking")
      BY <1>1, <2>1 DEF LookupMiss, At, Handling
    <3> QED
      BY <2>1, <3>1 DEF LookupMiss, GoTo, Functions
  <2>2. CASE Submit(t)
    BY <2>2 DEF Submit, GoTo, Functions
  <2> QED
    BY <2>1, <2>2
<1>3. /\ CallsKept
      /\ calls'[Len(calls) + 1] = [fn |-> fn, reading |-> r, outcome |-> "open"]
      /\ call'[t] = [st |-> "waiting", id |-> Len(calls) + 1, attempt |-> 1]
      /\ \A u \in Threads \ {t} : call'[u] = call[u]
      /\ \A m \in net' : m \in net \/ m.kind = "request"
  BY <1>1, <1>2, InvokeKeeps DEF GatewayInv
<1>4. ClientInv'
  BY <1>1, <1>2, InvokeInv DEF GatewayInv
<1>5. work'[t] = next(pc) /\ DOMAIN work' = Threads /\ StepOf(t)
  BY <1>2, <1>3 DEF StepOf, GatewayInv, Shapes
<1>6. Shapes'
  BY <1>2, <1>5 DEF GatewayInv, Shapes
<1>7. Working(t)'
  BY <1>1, <1>2, <1>5 DEF Working
<1>8. Calling(t)'
  BY <1>2, <1>3, <1>5 DEF Calling, Idle, Submission
<1>9. Answered(t)' /\ Current(t)'
  BY <1>3, <1>5 DEF Answered, Current
<1>10. \A k \in Keys : cache'[k] = cache[k] \/ Stored(k)'
  BY <1>2 DEF GatewayInv, Shapes, Stored
<1> QED
  BY <1>3, <1>4, <1>5, <1>6, <1>7, <1>8, <1>9, <1>10, ThreadStep DEF Thread

(* A call has returned or raised, and its caller goes on.                  *)
LEMMA CollectSteps ==
  ASSUME GatewayInv, UNCHANGED clock, NEW t \in Threads, Remember(t) \/ Show(t) \/ Raise(t)
  PROVE  GatewayInv'
<1>1. Collect(t) /\ UNCHANGED <<queue, arrived, policy>>
  BY DEF Remember, Show, Raise
<1>2. /\ ClientInv' /\ call'[t] = Idle /\ CallsKept /\ net' = net
      /\ \A u \in Threads \ {t} : call'[u] = call[u]
  BY <1>1, CollectInv DEF GatewayInv, Collect, ClientInv, Hands, CallsKept
<1>3. work[t].pc \in {"asking", "submitting"} /\ work[t].reading \in arrived /\ Key(t) \in Keys
  BY AtFacts DEF Remember, Show, Raise, At
<1>4. CASE Show(t) \/ Raise(t)
  <2>1. PICK next \in {Free, Ended} : work' = [work EXCEPT ![t] = next] /\ cache' = cache
    BY <1>4 DEF Show, Raise, GoTo, LoopOn
  <2>2. work'[t] = next /\ DOMAIN work' = Threads /\ StepOf(t)
    BY <1>1, <1>2, <2>1 DEF StepOf, GatewayInv, Shapes
  <2>3. Shapes'
    BY <1>1, <2>1, <2>2 DEF GatewayInv, Shapes
  <2>4. Thread(t)'
    BY <1>2, <2>2 DEF Thread, Working, Calling, Answered, Current, Free, Ended
  <2>5. \A m \in net' : m \in net
    BY <1>2
  <2> QED
    BY <1>2, <2>1, <2>2, <2>3, <2>4, <2>5, ThreadStep
<1>5. CASE Remember(t)
  <2> DEFINE d == call[t].result
             k == Key(t)
             next == Acting(t, d)
  <2>1. /\ cache' = [cache EXCEPT ![k] = Entry(d)] /\ work' = [work EXCEPT ![t] = next]
        /\ work[t].pc = "asking" /\ call[t].st = "returned"
    BY <1>5 DEF Remember, GoTo, At
  <2>2. /\ d \in Decisions /\ policy[k].since \in Nat /\ clock \in Nat
        /\ policy[k].value # d => clock <= policy[k].since + MaxLatency
    BY <1>3, <2>1 DEF GatewayInv, Thread, Answered, Shapes
  <2>3. work'[t] = next /\ DOMAIN work' = Threads /\ StepOf(t)
    BY <1>1, <1>2, <2>1 DEF StepOf, GatewayInv, Shapes
  <2>4. Shapes'
    BY <1>1, <2>1, <2>3 DEF GatewayInv, Shapes
  <2>5. /\ work'[t] \in [pc : {"act"}, reading : arrived, decision : Decisions]
        /\ work'[t].reading = work[t].reading /\ work'[t].decision = d
    BY <1>3, <2>2, <2>3 DEF Acting
  <2>6. Working(t)' /\ Calling(t)' /\ Answered(t)'
    BY <1>1, <1>2, <2>5 DEF Working, Calling, Answered
  <2>7. Current(t)'
    <3>1. Key(t)' = k
      BY <2>5 DEF Key
    <3>2. policy[k].value # d => clock < policy[k].since + TTL + MaxLatency
      BY <2>2, GatewayAssumption
    <3> QED
      BY <1>1, <2>5, <3>1, <3>2 DEF Current
  <2>8. ASSUME NEW j \in Keys PROVE cache'[j] = cache[j] \/ Stored(j)'
    <3>1. CASE j # k
      BY <2>1, <3>1
    <3>2. CASE j = k
      <4>1. cache'[j] = Entry(d)
        BY <1>3, <2>1, <3>2 DEF GatewayInv, Shapes
      <4>2. /\ Entry(d) \in [value : Decisions, expires : Nat] /\ Entry(d).value = d
            /\ Entry(d).expires = clock + TTL
        BY <2>2, GatewayAssumption DEF Entry
      <4>3. policy[j].value # d => clock + TTL <= policy[j].since + TTL + MaxLatency
        BY <2>2, <3>2, GatewayAssumption
      <4>4. clock + TTL \in Nat
        BY <2>2, GatewayAssumption
      <4> QED
        BY <1>1, <4>1, <4>2, <4>3, <4>4 DEF Stored
    <3> QED
      BY <3>1, <3>2
  <2>9. \A m \in net' : m \in net
    BY <1>2
  <2> QED
    BY <1>2, <2>3, <2>4, <2>6, <2>7, <2>8, <2>9, ThreadStep DEF Thread
<1> QED
  BY <1>4, <1>5

(* The retry loop runs under a handler.                                    *)
LEMMA LoopSteps ==
  ASSUME GatewayInv, UNCHANGED <<clock, gatewayVars>>, NEW t \in Threads, ClientStep(t)
  PROVE  GatewayInv'
<1>1. /\ CallsKept /\ call[t] # Idle /\ call'[t] # Idle /\ call'[t].id = call[t].id
      /\ \A u \in Threads \ {t} : call'[u] = call[u]
      /\ \A m \in net' : m \in net \/ m.kind = "request"
      /\ call'[t].st = "returned" =>
           \E m \in net : m.kind = "reply" /\ m.id = call[t].id /\ m.result = call'[t].result
  BY ClientStepKeeps DEF GatewayInv
<1>2. /\ ClientInv' /\ StepOf(t) /\ Shapes'
      /\ work' = work /\ cache' = cache /\ policy' = policy /\ arrived' = arrived
  BY <1>1, ClientStepInv DEF GatewayInv, StepOf, gatewayVars, Shapes
<1>3. Thread(t) /\ call[t].id \in DOMAIN calls
  BY <1>1, CallOpen DEF GatewayInv
<1>4. Working(t)' /\ Calling(t)' /\ Current(t)'
  BY <1>1, <1>2, <1>3 DEF Thread, Working, Calling, Current, Key, CallsKept
<1>5. Answered(t)'
  <2> SUFFICES ASSUME work[t].pc = "asking", call'[t].st = "returned"
               PROVE  /\ call'[t].result \in Decisions
                      /\ policy[Key(t)].value # call'[t].result =>
                           clock <= policy[Key(t)].since + MaxLatency
    BY <1>2 DEF Answered, Key
  <2>1. PICK m \in net : m.kind = "reply" /\ m.id = call[t].id /\ m.result = call'[t].result
    BY <1>1
  <2>2. calls[m.id].fn = "CheckAccess" /\ calls[m.id].reading = work[t].reading
    BY <1>3, <2>1 DEF Thread, Calling
  <2>3. Sound(m) /\ Travelling(m)
    BY DEF GatewayInv, ClientInv
  <2>4. m.result \in Decisions
    BY <2>1, <2>2, <2>3 DEF Sound, Decisions
  <2>5. /\ m.at \in Nat /\ m.at <= clock /\ clock <= m.at + MaxLatency
        /\ policy[Key(t)].value # m.result => m.at <= policy[Key(t)].since
    BY <2>1, <2>2, <2>3 DEF Travelling, Key
  <2>6. Key(t) \in Keys /\ policy[Key(t)].since \in Nat /\ clock \in Nat
    BY AtFacts DEF GatewayInv, Shapes
  <2> QED
    BY <2>1, <2>4, <2>5, <2>6, GatewayAssumption
<1> QED
  BY <1>1, <1>2, <1>4, <1>5, ThreadStep DEF Thread

(* A request is carried out: CheckAccess answers by the policy of now.     *)
LEMMA PeerStep ==
  ASSUME GatewayInv, UNCHANGED clock, Peer
  PROVE  GatewayInv'
<1>1. PICK m \in net, decision \in Decisions :
        /\ m.kind = "request"
        /\ calls[m.id].fn = "CheckAccess" => decision = policy[KeyOf[calls[m.id].reading]].value
        /\ Execute(m, decision)
  BY DEF Peer, Decisions
<1>2. ClientInv' /\ call' = call /\ calls' = calls /\ UNCHANGED gatewayVars
  BY <1>1, ExecuteInv DEF GatewayInv, Peer, Execute, Decisions
<1>3. clock \in Nat
  BY DEF GatewayInv, Shapes
<1>4. ASSUME NEW k \in net' PROVE Travelling(k)'
  <2>1. CASE k \in net
    BY <1>2, <2>1 DEF GatewayInv, Travelling, gatewayVars
  <2>2. CASE k \notin net
    <3>1. k = [kind |-> "reply", id |-> m.id, attempt |-> m.attempt, at |-> clock,
               result |-> Result(m, decision)]
      BY <1>1, <2>2 DEF Execute
    <3>2. calls[k.id].fn = "CheckAccess" => k.result = policy[KeyOf[calls[k.id].reading]].value
      BY <1>1, <3>1 DEF Result
    <3> QED
      BY <1>2, <1>3, <3>1, <3>2, GatewayAssumption DEF Travelling, gatewayVars
  <2> QED
    BY <2>1, <2>2
<1>5. Shapes' /\ (\A t \in Threads : Thread(t)') /\ (\A k \in Keys : Stored(k)')
  BY <1>2 DEF GatewayInv, Shapes, Thread, Working, Calling, Answered, Current, Key, Stored,
              gatewayVars
<1> QED
  BY <1>2, <1>4, <1>5 DEF GatewayInv

(* The process ends and starts afresh: the requests it sent live on.       *)
LEMMA RestartStep ==
  ASSUME GatewayInv, UNCHANGED clock, Restart
  PROVE  GatewayInv'
<1>1. /\ call' = [t \in Threads |-> Idle] /\ net' \subseteq net
      /\ calls' = calls /\ ledger' = ledger /\ arrived' = arrived /\ policy' = policy
      /\ work' = [t \in Threads |-> Free] /\ queue' = <<>> /\ cache' = [k \in Keys |-> NoEntry]
  BY DEF Restart, ProcessStart
<1>2. Hands'
  BY <1>1 DEF Hands, Held, InHand, Idle
<1>3. ClientInv'
  BY <1>1, <1>2 DEF GatewayInv, ClientInv, Journal, Sound, Told, OnLedger
<1>4. Shapes'
  BY <1>1 DEF GatewayInv, Shapes
<1>5. \A t \in Threads : Thread(t)'
  BY <1>1 DEF Thread, Working, Calling, Answered, Current, Free, Ended
<1>6. \A m \in net' : Travelling(m)'
  BY <1>1 DEF GatewayInv, Travelling
<1>7. \A k \in Keys : Stored(k)'
  BY <1>1 DEF Stored
<1> QED
  BY <1>3, <1>4, <1>5, <1>6, <1>7 DEF GatewayInv

(* The policy of a key changes now: what was decided before it was so      *)
(* until now.                                                              *)
LEMMA PolicyStep ==
  ASSUME GatewayInv, UNCHANGED clock, NEW k \in Keys, ChangePolicy(k)
  PROVE  GatewayInv'
<1>1. PICK value \in Decisions : policy' = [policy EXCEPT ![k] = [value |-> value, since |-> clock]]
  BY DEF ChangePolicy, Decisions
<1>2. UNCHANGED <<clientVars, work, queue, arrived, cache>> /\ clock \in Nat
  BY DEF ChangePolicy, GatewayInv, Shapes
<1>3. /\ policy' \in [Keys -> [value : Decisions, since : Nat]]
      /\ policy'[k].since = clock /\ \A j \in Keys \ {k} : policy'[j] = policy[j]
  BY <1>1, <1>2 DEF GatewayInv, Shapes
<1>4. ClientInv' /\ Shapes' /\ call' = call /\ calls' = calls /\ net' = net
  BY <1>2, <1>3, ClientIdle DEF GatewayInv, Shapes, clientVars
<1>5. ASSUME NEW t \in Threads PROVE Thread(t)'
  <2>1. Thread(t) /\ Key(t)' = Key(t)
    BY <1>2 DEF GatewayInv, Key
  <2>2. work[t].pc \in {"asking", "act"} => Key(t) \in Keys
    BY AtFacts
  <2>3. Working(t)' /\ Calling(t)'
    BY <1>2, <1>4, <2>1 DEF Thread, Working, Calling
  <2>4. Answered(t)'
    BY <1>2, <1>3, <1>4, <2>1, <2>2, GatewayAssumption DEF Thread, Answered
  <2>5. Current(t)'
    BY <1>2, <1>3, <2>1, <2>2, GatewayAssumption, SMTT(30) DEF Thread, Current
  <2> QED
    BY <2>3, <2>4, <2>5 DEF Thread
<1>6. ASSUME NEW m \in net PROVE Travelling(m)'
  <2>1. Travelling(m) /\ calls[m.id].reading \in Readings
    BY CallArguments DEF GatewayInv, ClientInv, Sound
  <2>2. KeyOf[calls[m.id].reading] \in Keys
    BY <2>1, GatewayAssumption
  <2> QED
    BY <1>2, <1>3, <1>4, <2>1, <2>2 DEF Travelling
<1>7. ASSUME NEW j \in Keys PROVE Stored(j)'
  <2>1. Stored(j)
    BY DEF GatewayInv
  <2> QED
    BY <1>2, <1>3, <2>1, GatewayAssumption DEF Stored
<1> QED
  BY <1>4, <1>5, <1>6, <1>7 DEF GatewayInv

(* Time passes only while no thread has anything to do, and no answer is   *)
(* under way for longer than the latency.                                  *)
LEMMA TickStep ==
  ASSUME GatewayInv, Tick
  PROVE  GatewayInv'
<1>1. /\ clock' = clock + 1 /\ clock < MaxTime /\ UNCHANGED <<clientVars, gatewayVars>>
      /\ \A t \in Threads : ~Busy(t)
      /\ \A m \in net : m.kind = "reply" => clock - m.at < MaxLatency
  BY DEF Tick
<1>2. ClientInv' /\ call' = call /\ calls' = calls /\ net' = net /\ clock \in Nat
  BY <1>1, ClientIdle DEF GatewayInv, Shapes, clientVars
<1>3. Shapes'
  BY <1>1, ClientAssumption DEF GatewayInv, Shapes, gatewayVars
<1>4. ASSUME NEW t \in Threads PROVE Thread(t)'
  <2>1. Thread(t) /\ ~Busy(t)
    BY <1>1 DEF GatewayInv
  <2>2. Working(t)' /\ Calling(t)'
    BY <1>1, <1>2, <2>1 DEF Thread, Working, Calling, gatewayVars
  <2>3. Answered(t)' /\ Current(t)'
    BY <1>1, <1>2, <2>1 DEF Answered, Current, Busy, gatewayVars
  <2> QED
    BY <2>2, <2>3 DEF Thread
<1>5. ASSUME NEW m \in net PROVE Travelling(m)'
  <2>1. Travelling(m) /\ (m.kind = "reply" => clock - m.at < MaxLatency)
    BY <1>1 DEF GatewayInv
  <2> QED
    BY <1>1, <1>2, <2>1, GatewayAssumption DEF Travelling, gatewayVars
<1>6. ASSUME NEW k \in Keys PROVE Stored(k)'
  <2>1. Stored(k)
    BY DEF GatewayInv
  <2> QED
    BY <1>1, <1>2, <2>1, GatewayAssumption DEF Stored, gatewayVars
<1> QED
  BY <1>2, <1>3, <1>4, <1>5, <1>6 DEF GatewayInv

(* Every step of the gateway keeps the invariant.                          *)
LEMMA GatewayNextInv == GatewayInv /\ [Next]_vars => GatewayInv'
<1> SUFFICES ASSUME GatewayInv, [Next]_vars PROVE GatewayInv'
  OBVIOUS
<1>1. ASSUME NEW t \in Threads, Step(t) PROVE GatewayInv'
  BY <1>1, LocalSteps, InvokeSteps, CollectSteps, LoopSteps, RestartStep DEF Step, Handle
<1>2. ASSUME UNCHANGED clock,
             \/ \E t \in Sources, r \in Readings : Publish(t, r)
             \/ Stop \/ Peer \/ \E k \in Keys : ChangePolicy(k)
      PROVE  GatewayInv'
  <2>1. CASE Stop
    <3>1. UNCHANGED <<clientVars, clock, work, queue, arrived, cache, policy>>
      BY <1>2, <2>1 DEF Stop
    <3>2. ClientInv' /\ call' = call /\ calls' = calls /\ net' = net
      BY <3>1, ClientIdle DEF GatewayInv, clientVars
    <3> QED
      BY <3>1, <3>2 DEF GatewayInv, Shapes, Thread, Working, Calling, Answered, Current, Key,
                        Travelling, Stored
  <2> QED
    BY <1>2, <2>1, LocalSteps, PeerStep, PolicyStep
<1>3. CASE UNCHANGED vars
  <2>1. ClientInv' /\ UNCHANGED <<call, calls, net, clock>> /\ UNCHANGED gatewayVars
    BY <1>3, ClientIdle DEF vars, clientVars, GatewayInv
  <2> QED
    BY <2>1 DEF GatewayInv, Shapes, Thread, Working, Calling, Answered, Current, Key,
                Travelling, Stored, gatewayVars
<1> QED
  BY <1>1, <1>2, <1>3, TickStep DEF Next

(* The inductive invariant holds of every execution of the gateway.        *)
THEOREM GatewayInvariance == Spec => []GatewayInv
<1> QED
  BY GatewayInitInv, GatewayNextInv, PTL DEF Spec

(* The gateway's state is well formed: a thread has a call open exactly    *)
(* while it asks or submits, and no cache entry outlives its time.         *)
THEOREM GatewayTypes == Spec => []GatewayTypeOK
<1>1. ASSUME GatewayInv PROVE GatewayTypeOK
  <2>1. ClientTypeOK
    BY <1>1, ClientInvTypes DEF GatewayInv
  <2>2. ASSUME NEW t \in Threads
        PROVE  /\ work[t].pc \in {"free", "handle", "asking", "act", "submitting", "ended"}
               /\ call[t] # Idle <=> work[t].pc \in {"asking", "submitting"}
               /\ work[t].pc \notin {"free", "ended"} => work[t].reading \in arrived
    BY <1>1 DEF GatewayInv, Thread, Working, Calling, Free, Ended
  <2>3. \A i \in DOMAIN queue : queue[i] \in arrived
    BY <1>1 DEF GatewayInv, Shapes
  <2>4. \A k \in Keys : cache[k] # NoEntry => /\ cache[k].value \in {"GRANT", "DENY"}
                                              /\ cache[k].expires <= clock + TTL
    BY <1>1 DEF GatewayInv, Stored, Decisions
  <2> QED
    BY <1>1, <2>1, <2>2, <2>3, <2>4 DEF GatewayTypeOK, GatewayInv, Shapes
<1> QED
  BY <1>1, GatewayInvariance, PTL

(* No decision the gateway acts on is older than the time to live and one  *)
(* latency: whichever thread cached it, for any policy and any key.        *)
THEOREM DecisionsAreRecent == Spec => StaleDecisionBounded
<1> DEFINE Bounded == \A t \in Threads :
      Acts(t) /\ work[t].decision # policy[Key(t)].value
        => clock < policy[Key(t)].since + TTL + MaxLatency
<1>1. GatewayInv /\ [Next]_vars => [Bounded]_vars
  BY DEF GatewayInv, Thread, Current, Acts, Submit, Discard, At
<1> QED
  BY <1>1, GatewayInvariance, PTL DEF Spec, StaleDecisionBounded

-----------------------------------------------------------------------------
(* The dashboard: each reading shown is the argument of a submission that  *)
(* returned, a different one for each and one that no thread is still in.  *)
(* f names that submission.                                                *)
Shown(f) ==
  /\ \A i \in DOMAIN live :
       /\ f[i] \in DOMAIN calls
       /\ calls[f[i]].fn = Submission /\ calls[f[i]].reading = live[i]
       /\ calls[f[i]].outcome = "returned"
       /\ \A t \in Threads : call[t] # Idle => call[t].id # f[i]
  /\ \A i, j \in DOMAIN live : f[i] = f[j] => i = j

LiveInv == live \in Seq(Readings) /\ \E f \in [Nat -> Nat] : Shown(f)

(* A reading comes to handle_reading in two ways, the callback and the     *)
(* queue, and once by each.  w names the way each submission came.         *)
Pending(t) == work[t].pc \in {"handle", "asking", "act"}
Way(t) == IF t = Main THEN "queue" ELSE "callback"
Submitted(n, r) == calls[n].fn = Submission /\ calls[n].reading = r

Ways(w) ==
  /\ \A m, n \in DOMAIN calls :
       calls[m].fn = Submission /\ Submitted(n, calls[m].reading) /\ w[m] = w[n] => m = n
  /\ \A n \in DOMAIN calls, t \in Threads :
       Pending(t) /\ Submitted(n, work[t].reading) => w[n] # Way(t)
  /\ \A n \in DOMAIN calls, i \in DOMAIN queue :
       Submitted(n, queue[i]) => w[n] # "queue"

Once ==
  /\ \A n \in DOMAIN calls : calls[n].reading \in arrived
  /\ \A i, j \in DOMAIN queue : queue[i] = queue[j] => i = j
  /\ Pending(Main) => \A i \in DOMAIN queue : queue[i] # work[Main].reading
  /\ \A t, u \in Threads :
       Pending(t) /\ Pending(u) /\ work[t].reading = work[u].reading /\ Way(t) = Way(u) => t = u

TwiceInv == Once /\ \E w \in [Nat -> {"callback", "queue"}] : Ways(w)

(* A step that makes no submission, shows nothing and takes up no reading. *)
Quiet ==
  /\ arrived \subseteq arrived' /\ queue' \in {queue, <<>>} /\ live' \in {live, <<>>}
  /\ \A n \in DOMAIN calls' :
       /\ calls'[n].reading \in arrived'
       /\ calls'[n].fn = Submission =>
            n \in DOMAIN calls /\ calls[n].fn = Submission /\ calls'[n].reading = calls[n].reading
  /\ \A n \in DOMAIN calls :
       calls[n].outcome = "returned" => /\ n \in DOMAIN calls' /\ calls'[n].fn = calls[n].fn
                                        /\ calls'[n].reading = calls[n].reading
                                        /\ calls'[n].outcome = "returned"
  /\ \A t \in Threads :
       /\ Pending(t)' => Pending(t) /\ work'[t].reading = work[t].reading
       /\ call'[t] # Idle => \/ call[t] # Idle /\ call'[t].id = call[t].id
                             \/ call'[t].id \notin DOMAIN calls

(* Such a step keeps both histories.                                       *)
LEMMA QuietStep ==
  ASSUME LiveInv, TwiceInv, Quiet
  PROVE  LiveInv' /\ TwiceInv'
<1>1. LiveInv'
  <2>1. PICK f \in [Nat -> Nat] : Shown(f)
    BY DEF LiveInv
  <2>2. Shown(f)'
    BY <2>1 DEF Shown, Quiet
  <2>3. live' \in Seq(Readings)
    <3>1. live \in Seq(Readings) /\ (live' = live \/ live' = <<>>)
      BY DEF LiveInv, Quiet
    <3>2. <<>> \in Seq(Readings)
      OBVIOUS
    <3> QED
      BY <3>1, <3>2
  <2> QED
    BY <2>2, <2>3 DEF LiveInv
<1>2. Once'
  BY GatewayAssumption DEF TwiceInv, Once, Quiet, Way
<1>3. PICK w \in [Nat -> {"callback", "queue"}] : Ways(w)
  BY DEF TwiceInv
<1>4. Ways(w)'
  <2>1. \A m, n \in DOMAIN calls' :
          calls'[m].fn = Submission /\ Submitted(n, calls[m].reading)' /\ w[m] = w[n] => m = n
    BY <1>3 DEF Ways, Submitted, Quiet
  <2>2. \A n \in DOMAIN calls', t \in Threads :
          Pending(t)' /\ Submitted(n, work[t].reading)' => w[n] # Way(t)
    BY <1>3 DEF Ways, Submitted, Quiet
  <2>3. \A n \in DOMAIN calls', i \in DOMAIN queue' :
          Submitted(n, queue[i])' => w[n] # "queue"
    BY <1>3 DEF Ways, Submitted, Quiet
  <2> QED
    BY <2>1, <2>2, <2>3 DEF Ways, Way, Submitted
<1> QED
  BY <1>1, <1>2, <1>3, <1>4 DEF TwiceInv

(* The retry loop never touches an invocation that has returned.           *)
LEMMA ClientStepReturned ==
  ASSUME ClientInv, NEW t \in Threads, ClientStep(t)
  PROVE  /\ DOMAIN calls' = DOMAIN calls
         /\ \A n \in DOMAIN calls :
              calls[n].outcome = "returned" => calls'[n].outcome = "returned"
<1>1. InHand(t)
  BY DEF ClientStep, Receive, Fail, Retry, Waiting, InHand
<1>2. calls[call[t].id].outcome = "open"
  BY <1>1, InHandHolds
<1>3. \/ calls' = calls
      \/ \E outcome : calls' = [calls EXCEPT ![call[t].id].outcome = outcome]
  BY DEF ClientStep, Receive, Fail, Retry, RaiseOrRetry, Finish
<1> QED
  BY <1>2, <1>3

QuietAction(t) ==
  \/ Reject(t) \/ LookupHit(t) \/ LookupMiss(t) \/ Remember(t) \/ Discard(t) \/ Raise(t)
  \/ ClientStep(t) /\ UNCHANGED gatewayVars

(* The steps that are quiet.                                               *)
LEMMA QuietSteps ==
  ASSUME GatewayInv, TwiceInv,
         \/ \E t \in Threads : QuietAction(t)
         \/ Restart \/ Stop \/ Peer \/ (\E k \in Keys : ChangePolicy(k)) \/ Tick
         \/ UNCHANGED vars
  PROVE  Quiet
<1>1. /\ DOMAIN work = Threads /\ DOMAIN call = Threads
      /\ \A n \in DOMAIN calls : calls[n].reading \in arrived
  BY DEF GatewayInv, Shapes, ClientInv, Hands, TwiceInv, Once
<1>2. ASSUME NEW t \in Threads, UNCHANGED <<calls, queue, arrived, live>>, NEW next,
             work' = [work EXCEPT ![t] = next],
             next.pc \in {"handle", "asking", "act"} => Pending(t) /\ next.reading = work[t].reading,
             call' = call \/ call' = [call EXCEPT ![t] = Idle]
      PROVE  Quiet
  <2>1. work'[t] = next /\ \A u \in Threads \ {t} : work'[u] = work[u]
    BY <1>1, <1>2
  <2>2. \A u \in Threads : call'[u] # Idle => call'[u] = call[u]
    BY <1>1, <1>2
  <2>3. \A u \in Threads : Pending(u)' => Pending(u) /\ work'[u].reading = work[u].reading
    BY <1>2, <2>1 DEF Pending
  <2> QED
    BY <1>1, <1>2, <2>2, <2>3 DEF Quiet
<1>3. ASSUME UNCHANGED <<calls, queue, arrived, live, work, call>> PROVE Quiet
  BY <1>1, <1>3 DEF Quiet, Pending
<1>4. ASSUME NEW t \in Threads, Reject(t) \/ Discard(t) PROVE Quiet
  BY <1>2, <1>4 DEF Reject, Discard, GoTo, Free, Ended, LoopOn, clientVars
<1>5. ASSUME NEW t \in Threads, LookupHit(t) PROVE Quiet
  BY <1>2, <1>5 DEF LookupHit, GoTo, Acting, At, Pending, clientVars
<1>6. ASSUME NEW t \in Threads, Remember(t) PROVE Quiet
  BY <1>2, <1>6 DEF Remember, Collect, GoTo, Acting, At, Pending
<1>7. ASSUME NEW t \in Threads, Raise(t) PROVE Quiet
  <2>1. /\ work' = [work EXCEPT ![t] = Ended] /\ UNCHANGED <<calls, queue, arrived, live>>
        /\ call' = [call EXCEPT ![t] = Idle]
    BY <1>7 DEF Raise, Collect, GoTo
  <2>2. Ended.pc \notin {"handle", "asking", "act"}
    BY DEF Ended
  <2> QED
    BY <1>2, <2>1, <2>2, Zenon
<1>8. ASSUME NEW t \in Threads, LookupMiss(t) PROVE Quiet
  <2> DEFINE r == work[t].reading
             n == Len(calls) + 1
  <2>1. /\ r \in arrived /\ r \in Readings /\ work[t] = Handling(r)
        /\ Invoke(t, "CheckAccess", r) /\ UNCHANGED <<queue, arrived, live>>
        /\ work' = [work EXCEPT ![t] = [work[t] EXCEPT !.pc = "asking"]]
    BY <1>8, AtFacts DEF LookupMiss, At, GoTo
  <2>2. /\ CallsKept
        /\ calls'[n] = [fn |-> "CheckAccess", reading |-> r, outcome |-> "open"]
        /\ call'[t] = [st |-> "waiting", id |-> n, attempt |-> 1]
        /\ \A u \in Threads \ {t} : call'[u] = call[u]
    BY <2>1, InvokeKeeps DEF GatewayInv, Functions
  <2>3. /\ calls \in Seq(CallRecords)
        /\ calls' = Append(calls, [fn |-> "CheckAccess", reading |-> r, outcome |-> "open"])
        /\ [fn |-> "CheckAccess", reading |-> r, outcome |-> "open"] \in CallRecords
    BY <2>1 DEF GatewayInv, ClientInv, Journal, Invoke, CallRecords, Functions, Outcomes
  <2>4. /\ n \notin DOMAIN calls
        /\ \A k \in DOMAIN calls' : k \in DOMAIN calls \/ k = n
        /\ \A k \in DOMAIN calls : calls'[k] = calls[k] /\ k \in DOMAIN calls'
    BY <2>3
  <2>5. \A u \in Threads : Pending(u)' => Pending(u) /\ work'[u].reading = work[u].reading
    BY <1>1, <2>1 DEF Pending, Handling
  <2>6. call'[t].id = n
    BY <2>2
  <2>7. calls'[n].fn # Submission /\ calls'[n].reading = r
    BY <2>2 DEF Submission
  <2> HIDE DEF n, r
  <2> QED
    BY <1>1, <2>1, <2>2, <2>4, <2>5, <2>6, <2>7 DEF Quiet
<1>9. ASSUME NEW t \in Threads, ClientStep(t), UNCHANGED gatewayVars PROVE Quiet
  <2>1. /\ CallsKept /\ call[t] # Idle /\ call'[t].id = call[t].id
        /\ \A u \in Threads \ {t} : call'[u] = call[u]
    BY <1>9, ClientStepKeeps DEF GatewayInv
  <2>2. /\ DOMAIN calls' = DOMAIN calls
        /\ \A n \in DOMAIN calls :
             calls[n].outcome = "returned" => calls'[n].outcome = "returned"
    BY <1>9, ClientStepReturned DEF GatewayInv
  <2> QED
    BY <1>1, <1>9, <2>1, <2>2 DEF Quiet, CallsKept, gatewayVars, Pending
<1>10. CASE Restart
  BY <1>1, <1>10 DEF Restart, ProcessStart, Quiet, Pending, Free, Ended
<1>11. CASE Stop \/ Tick \/ (\E k \in Keys : ChangePolicy(k)) \/ UNCHANGED vars
  BY <1>3, <1>11 DEF Stop, Tick, ChangePolicy, vars, gatewayVars, clientVars
<1>12. CASE Peer
  BY <1>3, <1>12 DEF Peer, Execute, gatewayVars
<1> QED
  BY <1>4, <1>5, <1>6, <1>7, <1>8, <1>9, <1>10, <1>11, <1>12 DEF QuietAction

(* A submission that returned is shown, and its caller leaves it.          *)
LEMMA ShowStep ==
  ASSUME GatewayInv, LiveInv, TwiceInv, NEW t \in Threads, Show(t)
  PROVE  LiveInv' /\ TwiceInv'
<1> DEFINE n == call[t].id
           r == work[t].reading
           k == Len(live) + 1
<1>1. /\ call' = [call EXCEPT ![t] = Idle] /\ calls' = calls /\ work' = [work EXCEPT ![t] = LoopOn]
      /\ queue' = queue /\ arrived' = arrived /\ live' = Append(live, r)
      /\ work[t].pc = "submitting" /\ call[t].st = "returned"
  BY DEF Show, Collect, GoTo, At, Succeeded
<1>2. /\ DOMAIN work = Threads /\ DOMAIN call = Threads /\ r \in Readings
      /\ call[t] # Idle /\ n \in DOMAIN calls /\ calls[n].outcome = "returned"
      /\ calls[n].fn = Submission /\ calls[n].reading = r
  <2>1. r \in Readings /\ Calling(t) /\ Held(t)
    BY <1>1, AtFacts DEF GatewayInv, Thread, ClientInv, Hands
  <2> QED
    BY <1>1, <2>1 DEF GatewayInv, Shapes, ClientInv, Hands, Calling, Held, Idle
<1>3. n \in Nat /\ live \in Seq(Readings) /\ Len(live) \in Nat
  <2>1. calls \in Seq(CallRecords) /\ live \in Seq(Readings)
    BY DEF GatewayInv, ClientInv, Journal, LiveInv
  <2> HIDE DEF n
  <2> QED
    BY <1>2, <2>1
<1>4. /\ live' \in Seq(Readings) /\ DOMAIN live = 1 .. Len(live) /\ DOMAIN live' = 1 .. k
      /\ live'[k] = r /\ \A i \in DOMAIN live : live'[i] = live[i]
  BY <1>1, <1>2, <1>3
<1>5. PICK f \in [Nat -> Nat] : Shown(f)
  BY DEF LiveInv
<1>6. /\ call'[t] = Idle /\ \A u \in Threads \ {t} : call'[u] = call[u]
      /\ \A u \in Threads \ {t} : call[u] # Idle => call[u].id # n
  BY <1>1, <1>2 DEF GatewayInv, ClientInv, Hands
<1>7. PICK g \in [Nat -> Nat] :
        /\ g[k] = n /\ \A i \in DOMAIN live : g[i] = f[i]
        /\ k \notin DOMAIN live /\ \A i \in DOMAIN live' : i \in DOMAIN live \/ i = k
  <2> HIDE DEF n
  <2>1. k \in Nat /\ [f EXCEPT ![k] = n] \in [Nat -> Nat]
    BY <1>3, SMTT(30)
  <2>2. DOMAIN live = 1 .. Len(live) /\ DOMAIN live' = 1 .. k /\ Len(live) \in Nat
    BY <1>3, <1>4
  <2>3. \A i \in 1 .. Len(live) : i \in Nat /\ i # k
    BY <1>3
  <2>4. \A i \in 1 .. k : i \in 1 .. Len(live) \/ i = k
    <3>1. \A a \in Nat : \A i \in 1 .. a + 1 : i \in 1 .. a \/ i = a + 1
      OBVIOUS
    <3> QED
      BY <1>3, <3>1
  <2> QED
    BY <2>1, <2>2, <2>3, <2>4
<1>8. \A i \in DOMAIN live : f[i] # n
  BY <1>2, <1>5 DEF Shown
<1> HIDE DEF k, n, r
<1>9. Shown(g)'
  <2>1. ASSUME NEW i \in DOMAIN live'
        PROVE  /\ g[i] \in DOMAIN calls
               /\ calls[g[i]].fn = Submission /\ calls[g[i]].reading = live'[i]
               /\ calls[g[i]].outcome = "returned"
               /\ \A u \in Threads : call'[u] # Idle => call'[u].id # g[i]
    <3>1. CASE i \in DOMAIN live
      <4>1. g[i] = f[i] /\ live'[i] = live[i]
        BY <1>4, <1>7, <3>1
      <4>2. \A u \in Threads : call'[u] # Idle => call[u] # Idle /\ call'[u].id = call[u].id
        BY <1>6
      <4> QED
        BY <1>5, <3>1, <4>1, <4>2 DEF Shown
    <3>2. CASE i = k
      <4>1. g[i] = n /\ live'[i] = r
        BY <1>4, <1>7, <3>2
      <4> QED
        BY <1>2, <1>6, <4>1, Zenon
    <3> QED
      BY <1>7, <3>1, <3>2
  <2>2. ASSUME NEW i \in DOMAIN live', NEW j \in DOMAIN live', g[i] = g[j] PROVE i = j
    BY <1>5, <1>7, <1>8, <2>2 DEF Shown
  <2> QED
    BY <1>1, <2>1, <2>2 DEF Shown
<1>10. LiveInv'
  BY <1>4, <1>7, <1>9 DEF LiveInv
<1>11. \A u \in Threads : Pending(u)' => Pending(u) /\ work'[u].reading = work[u].reading
  BY <1>1, <1>2 DEF Pending, Free, Ended, LoopOn
<1>12. TwiceInv'
  <2>1. Once'
    BY <1>1, <1>11, GatewayAssumption DEF TwiceInv, Once, Way
  <2>2. PICK w \in [Nat -> {"callback", "queue"}] : Ways(w)
    BY DEF TwiceInv
  <2>3. Ways(w)'
    BY <1>1, <1>11, <2>2, ZenonT(60) DEF Ways, Way, Submitted
  <2> QED
    BY <2>1, <2>2, <2>3 DEF TwiceInv
<1> QED
  BY <1>10, <1>12

(* What is shown stays as it is when no call moves.                        *)
LEMMA LiveSame ==
  ASSUME LiveInv, live' = live, calls' = calls, call' = call
  PROVE  LiveInv'
<1>1. PICK f \in [Nat -> Nat] : Shown(f)
  BY DEF LiveInv
<1>2. Shown(f)'
  BY <1>1 DEF Shown
<1> QED
  BY <1>2 DEF LiveInv

(* A new reading is queued and handled by the thread that received it.     *)
LEMMA PublishStep ==
  ASSUME GatewayInv, LiveInv, TwiceInv, NEW t \in Sources, NEW r \in Readings, Publish(t, r)
  PROVE  LiveInv' /\ TwiceInv'
<1>1. /\ r \notin arrived /\ arrived' = arrived \cup {r} /\ queue' = Append(queue, r)
      /\ work' = [work EXCEPT ![t] = Handling(r)] /\ call' = call /\ calls' = calls /\ live' = live
  BY DEF Publish, GoTo, clientVars
<1>2. DOMAIN work = Threads /\ t \in Threads /\ t # Main /\ queue \in Seq(arrived)
  BY DEF GatewayInv, Shapes, Sources
<1>3. LiveInv'
  BY <1>1, LiveSame
<1>4. /\ \A i \in DOMAIN queue : queue[i] # r
      /\ \A u \in Threads : Pending(u) => work[u].reading # r
      /\ \A n \in DOMAIN calls : calls[n].reading # r
  <2>1. \A u \in Threads : Pending(u) => work[u].reading \in arrived
    BY AtFacts DEF Pending
  <2>2. \A i \in DOMAIN queue : queue[i] \in arrived
    BY <1>2
  <2>3. \A n \in DOMAIN calls : calls[n].reading \in arrived
    BY DEF TwiceInv, Once
  <2> QED
    BY <1>1, <2>1, <2>2, <2>3
<1>5. PICK k : /\ k \in DOMAIN queue' /\ queue'[k] = r /\ k \notin DOMAIN queue
               /\ \A i \in DOMAIN queue' : i = k \/ (i \in DOMAIN queue /\ queue'[i] = queue[i])
  <2>1. queue \in Seq(arrived') /\ r \in arrived' /\ Len(queue) \in Nat
    BY <1>1, <1>2
  <2>2. /\ DOMAIN queue = 1 .. Len(queue) /\ DOMAIN queue' = 1 .. Len(queue) + 1
        /\ queue'[Len(queue) + 1] = r /\ \A i \in 1 .. Len(queue) : queue'[i] = queue[i]
    BY <1>1, <2>1
  <2>3. \A a \in Nat : /\ a + 1 \in 1 .. a + 1 /\ a + 1 \notin 1 .. a
                       /\ \A i \in 1 .. a + 1 : i \in 1 .. a \/ i = a + 1
    OBVIOUS
  <2> QED
    BY <2>1, <2>2, <2>3
<1>6. /\ work'[t] = Handling(r) /\ work'[t].reading = r
      /\ \A u \in Threads \ {t} : work'[u] = work[u]
  BY <1>1, <1>2 DEF Handling
<1>7. Once'
  <2>1. \A n \in DOMAIN calls' : calls'[n].reading \in arrived'
    BY <1>1 DEF TwiceInv, Once
  <2>2. \A i, j \in DOMAIN queue' : queue'[i] = queue'[j] => i = j
    BY <1>4, <1>5 DEF TwiceInv, Once
  <2>3. Main \in Threads /\ work'[Main] = work[Main]
    BY <1>2, <1>6, GatewayAssumption
  <2>4. Pending(Main)' => \A i \in DOMAIN queue' : queue'[i] # work'[Main].reading
    BY <1>4, <1>5, <2>3 DEF TwiceInv, Once, Pending
  <2>5. ASSUME NEW u \in Threads, NEW v \in Threads, Pending(u)', Pending(v)',
               work'[u].reading = work'[v].reading, Way(u) = Way(v)
        PROVE  u = v
    BY <1>4, <1>6, <2>5 DEF TwiceInv, Once, Pending
  <2> QED
    BY <2>1, <2>2, <2>4, <2>5 DEF Once, Way
<1>8. PICK w \in [Nat -> {"callback", "queue"}] : Ways(w)
  BY DEF TwiceInv
<1>9. Ways(w)'
  <2>1. ASSUME NEW n \in DOMAIN calls, NEW u \in Threads, Pending(u)',
               Submitted(n, work'[u].reading)
        PROVE  w[n] # Way(u)
    BY <1>4, <1>6, <1>8, <2>1 DEF Ways, Submitted, Pending
  <2>2. ASSUME NEW n \in DOMAIN calls, NEW i \in DOMAIN queue', Submitted(n, queue'[i])
        PROVE  w[n] # "queue"
    BY <1>4, <1>5, <1>8, <2>2 DEF Ways, Submitted
  <2> QED
    BY <1>1, <1>8, <2>1, <2>2 DEF Ways, Way, Submitted
<1> QED
  BY <1>3, <1>7, <1>8, <1>9 DEF TwiceInv

(* The main thread takes the next reading of the queue.                    *)
LEMMA DrainStep ==
  ASSUME GatewayInv, LiveInv, TwiceInv, Drain
  PROVE  LiveInv' /\ TwiceInv'
<1> DEFINE r == Head(queue)
<1>1. /\ arrived' = arrived /\ queue' = Tail(queue) /\ queue # <<>>
      /\ work' = [work EXCEPT ![Main] = Handling(r)] /\ call' = call /\ calls' = calls /\ live' = live
  BY DEF Drain, GoTo, clientVars
<1>2. DOMAIN work = Threads /\ Main \in Threads /\ queue \in Seq(arrived)
  BY GatewayAssumption DEF GatewayInv, Shapes
<1>3. LiveInv'
  BY <1>1, LiveSame
<1>4. /\ 1 \in DOMAIN queue /\ queue[1] = r
      /\ \A i \in DOMAIN queue' :
           i \in Nat \ {0} /\ i + 1 \in DOMAIN queue /\ queue'[i] = queue[i + 1]
  BY <1>1, <1>2
<1>5. /\ work'[Main] = Handling(r) /\ work'[Main].reading = r
      /\ \A u \in Threads \ {Main} : work'[u] = work[u]
  BY <1>1, <1>2 DEF Handling
<1> HIDE DEF r
<1>6. Once'
  <2>1. ASSUME NEW i \in DOMAIN queue', NEW j \in DOMAIN queue', queue'[i] = queue'[j] PROVE i = j
    <3>1. i + 1 = j + 1
      BY <1>4, <2>1 DEF TwiceInv, Once
    <3> QED
      BY <1>4, <3>1
  <2>2. ASSUME NEW i \in DOMAIN queue' PROVE queue'[i] # r
    <3>1. i + 1 # 1
      BY <1>4
    <3> QED
      BY <1>4, <3>1 DEF TwiceInv, Once
  <2>3. ASSUME NEW u \in Threads, NEW v \in Threads, Pending(u)', Pending(v)',
               work'[u].reading = work'[v].reading, Way(u) = Way(v)
        PROVE  u = v
    BY <1>5, <2>3 DEF TwiceInv, Once, Pending, Way
  <2> QED
    BY <1>1, <1>5, <2>1, <2>2, <2>3 DEF TwiceInv, Once, Way
<1>7. PICK w \in [Nat -> {"callback", "queue"}] : Ways(w)
  BY DEF TwiceInv
<1>8. Ways(w)'
  <2>1. ASSUME NEW n \in DOMAIN calls, NEW u \in Threads, Pending(u)',
               Submitted(n, work'[u].reading)
        PROVE  w[n] # Way(u)
    BY <1>4, <1>5, <1>7, <2>1 DEF Ways, Submitted, Pending, Way
  <2>2. ASSUME NEW n \in DOMAIN calls, NEW i \in DOMAIN queue', Submitted(n, queue'[i])
        PROVE  w[n] # "queue"
    BY <1>4, <1>7, <2>2 DEF Ways, Submitted
  <2> QED
    BY <1>1, <1>7, <2>1, <2>2 DEF Ways, Way, Submitted
<1> QED
  BY <1>3, <1>6, <1>7, <1>8 DEF TwiceInv

(* The one submission of this thread's way of the reading.                 *)
LEMMA SubmitStep ==
  ASSUME GatewayInv, LiveInv, TwiceInv, NEW t \in Threads, Submit(t)
  PROVE  LiveInv' /\ TwiceInv'
<1> DEFINE r == work[t].reading
           n == Len(calls) + 1
           new == [fn |-> Submission, reading |-> r, outcome |-> "open"]
<1>1. /\ r \in arrived /\ r \in Readings /\ Pending(t)
      /\ Invoke(t, Submission, r) /\ UNCHANGED <<queue, arrived, live>>
      /\ work' = [work EXCEPT ![t] = [pc |-> "submitting", reading |-> r]]
  BY AtFacts DEF Submit, At, GoTo, Pending
<1>2. /\ calls'[n] = new /\ call'[t] = [st |-> "waiting", id |-> n, attempt |-> 1]
      /\ \A u \in Threads \ {t} : call'[u] = call[u]
  BY <1>1, InvokeKeeps DEF GatewayInv, Functions
<1>3. calls \in Seq(CallRecords) /\ calls' = Append(calls, new) /\ new \in CallRecords
  BY <1>1 DEF GatewayInv, ClientInv, Journal, Invoke, CallRecords, Functions, Outcomes
<1>4. /\ n \notin DOMAIN calls /\ n \in Nat
      /\ \A k \in DOMAIN calls' : k \in DOMAIN calls \/ k = n
      /\ \A k \in DOMAIN calls : calls'[k] = calls[k] /\ k \in DOMAIN calls' /\ k \in Nat
  BY <1>3
<1>5. /\ ~Pending(t)' /\ \A u \in Threads \ {t} : work'[u] = work[u]
      /\ call'[t].id = n /\ calls'[n].fn = Submission /\ calls'[n].reading = r
  BY <1>1, <1>2 DEF Pending, GatewayInv, Shapes
<1>6. PICK f \in [Nat -> Nat] : Shown(f)
  BY DEF LiveInv
<1>7. PICK w \in [Nat -> {"callback", "queue"}] : Ways(w)
  BY DEF TwiceInv
<1>8. PICK v \in [Nat -> {"callback", "queue"}] :
        v[n] = Way(t) /\ \A k \in DOMAIN calls : v[k] = w[k]
  <2>1. Way(t) \in {"callback", "queue"}
    BY DEF Way
  <2>2. [w EXCEPT ![n] = Way(t)] \in [Nat -> {"callback", "queue"}]
    BY <1>4, <2>1
  <2> HIDE DEF n
  <2> QED
    BY <1>4, <2>2, ZenonT(60)
<1> HIDE DEF n, r, new
<1>9. Shown(f)'
  BY <1>1, <1>2, <1>4, <1>5, <1>6 DEF Shown
<1>10. LiveInv'
  BY <1>1, <1>9 DEF LiveInv
<1>11. Once'
  <2>1. \A k \in DOMAIN calls' : calls'[k].reading \in arrived'
    BY <1>1, <1>4, <1>5 DEF TwiceInv, Once
  <2>2. \A u \in Threads : Pending(u)' => Pending(u) /\ work'[u] = work[u]
    BY <1>5 DEF Pending
  <2> QED
    BY <1>1, <2>1, <2>2, GatewayAssumption DEF TwiceInv, Once, Way
<1>12. \A k \in DOMAIN calls : Submitted(k, r) => w[k] # Way(t)
  BY <1>1, <1>7 DEF Ways, r
<1>13. Ways(v)'
  <2>1. ASSUME NEW a \in DOMAIN calls', NEW b \in DOMAIN calls',
               calls'[a].fn = Submission, calls'[b].fn = Submission,
               calls'[a].reading = calls'[b].reading, v[a] = v[b]
        PROVE  a = b
    <3>1. CASE a \in DOMAIN calls /\ b \in DOMAIN calls
      BY <1>4, <1>7, <1>8, <2>1, <3>1 DEF Ways, Submitted
    <3>2. CASE a = n /\ b \in DOMAIN calls
      BY <1>4, <1>5, <1>8, <1>12, <2>1, <3>2 DEF Submitted
    <3>3. CASE b = n /\ a \in DOMAIN calls
      BY <1>4, <1>5, <1>8, <1>12, <2>1, <3>3 DEF Submitted
    <3> QED
      BY <1>4, <3>1, <3>2, <3>3
  <2>2. ASSUME NEW a \in DOMAIN calls', NEW u \in Threads, Pending(u)',
               calls'[a].fn = Submission, calls'[a].reading = work'[u].reading
        PROVE  v[a] # Way(u)
    <3>1. u # t /\ Pending(u) /\ work'[u] = work[u]
      BY <1>5, <2>2 DEF Pending
    <3>2. CASE a = n
      BY <1>1, <1>5, <1>8, <2>2, <3>1, <3>2 DEF TwiceInv, Once, r
    <3>3. CASE a \in DOMAIN calls
      BY <1>4, <1>7, <1>8, <2>2, <3>1, <3>3 DEF Ways, Submitted
    <3> QED
      BY <1>4, <3>2, <3>3
  <2>3. ASSUME NEW a \in DOMAIN calls', NEW i \in DOMAIN queue,
               calls'[a].fn = Submission, calls'[a].reading = queue[i]
        PROVE  v[a] # "queue"
    <3>1. CASE a = n
      BY <1>1, <1>5, <1>8, <2>3, <3>1 DEF TwiceInv, Once, r, Way
    <3>2. CASE a \in DOMAIN calls
      BY <1>4, <1>7, <1>8, <2>3, <3>2 DEF Ways, Submitted
    <3> QED
      BY <1>4, <3>1, <3>2
  <2> QED
    BY <1>1, <2>1, <2>2, <2>3 DEF Ways, Way, Submitted
<1> QED
  BY <1>10, <1>11, <1>13 DEF TwiceInv

(* Every step keeps both histories.                                        *)
LEMMA HistoriesNext ==
  GatewayInv /\ LiveInv /\ TwiceInv /\ [Next]_vars => LiveInv' /\ TwiceInv'
<1> SUFFICES ASSUME GatewayInv, LiveInv, TwiceInv, [Next]_vars PROVE LiveInv' /\ TwiceInv'
  OBVIOUS
<1>1. ASSUME NEW t \in Threads, Step(t) PROVE LiveInv' /\ TwiceInv'
  <2>1. CASE Show(t) \/ Submit(t) \/ Drain
    BY <2>1, ShowStep, SubmitStep, DrainStep
  <2>2. CASE ~(Show(t) \/ Submit(t) \/ Drain)
    <3>1. Restart \/ QuietAction(t)
      BY <1>1, <2>2 DEF Step, Handle, QuietAction
    <3>2. Quiet
      BY <3>1, QuietSteps
    <3> QED
      BY <3>2, QuietStep
  <2> QED
    BY <2>1, <2>2
<1>2. CASE \/ Stop \/ Peer \/ (\E k \in Keys : ChangePolicy(k)) \/ Tick \/ UNCHANGED vars
  <2>1. Quiet
    BY <1>2, QuietSteps
  <2> QED
    BY <2>1, QuietStep
<1>3. CASE \E t \in Sources, r \in Readings : Publish(t, r)
  BY <1>3, PublishStep
<1> QED
  BY <1>1, <1>2, <1>3 DEF Next

(* A set mapped one to one into a finite one is no larger.                 *)
LEMMA NoLarger ==
  ASSUME NEW S, NEW T, IsFiniteSet(T), NEW f \in [S -> T],
         \A a, b \in S : f[a] = f[b] => a = b
  PROVE  Cardinality(S) <= Cardinality(T)
<1>1. f \in Injection(S, T)
  BY DEF Injection, IsInjective
<1> QED
  BY <1>1, FS_Injection

(* What the histories say of the counts.                                   *)
LEMMA HistoriesCount ==
  ASSUME GatewayInv, LiveInv, TwiceInv
  PROVE  LiveIsCommitted
<1>1. /\ ledger \in Seq([id : Nat, nonce : Seq(Nat)]) /\ Told
      /\ \A i \in DOMAIN ledger : /\ ledger[i].id \in DOMAIN calls /\ ledger[i].id \in Nat
                                  /\ calls[ledger[i].id].fn = Submission
      /\ \A i, j \in DOMAIN ledger : ledger[i].id = ledger[j].id => i = j
  BY DEF GatewayInv, ClientInv, Journal
<1>2. IsFiniteSet(DOMAIN ledger)
  <2>1. Len(ledger) \in Int /\ DOMAIN ledger = 1 .. Len(ledger)
    BY <1>1
  <2> QED
    BY <2>1, FS_Interval
<1>3. ASSUME NEW r \in Readings
      PROVE  Cardinality({i \in DOMAIN live : live[i] = r}) <= Cardinality(Commits(r))
  <2> DEFINE S == {i \in DOMAIN live : live[i] = r}
  <2>1. PICK f \in [Nat -> Nat] : Shown(f)
    BY DEF LiveInv
  <2>2. \A i \in S : OnLedger(f[i]) /\ calls[f[i]].reading = r
    BY <1>1, <2>1 DEF Shown, Told
  <2> DEFINE g == [i \in S |-> CHOOSE k \in DOMAIN ledger : ledger[k].id = f[i]]
  <2>3. \A i \in S : g[i] \in DOMAIN ledger /\ ledger[g[i]].id = f[i]
    BY <2>2 DEF OnLedger
  <2>4. g \in [S -> Commits(r)]
    BY <2>2, <2>3 DEF Commits
  <2>5. \A i, j \in S : g[i] = g[j] => i = j
    BY <2>1, <2>3 DEF Shown
  <2>6. IsFiniteSet(Commits(r))
    BY <1>2, FS_Subset DEF Commits
  <2> HIDE DEF g, S
  <2>7. Cardinality(S) <= Cardinality(Commits(r))
    BY <2>4, <2>5, <2>6, NoLarger
  <2> QED
    BY <2>7 DEF S
<1>4. ASSUME NEW r \in Readings PROVE Cardinality(Commits(r)) <= 2
  <2> DEFINE T == {"callback", "queue"}
  <2>1. PICK w \in [Nat -> T] : Ways(w)
    BY DEF TwiceInv
  <2> DEFINE g == [i \in Commits(r) |-> w[ledger[i].id]]
  <2>2. g \in [Commits(r) -> T]
    BY <1>1 DEF Commits
  <2>3. \A i, j \in Commits(r) : g[i] = g[j] => i = j
    <3> SUFFICES ASSUME NEW i \in Commits(r), NEW j \in Commits(r),
                        w[ledger[i].id] = w[ledger[j].id]
                 PROVE  i = j
      OBVIOUS
    <3>1. /\ i \in DOMAIN ledger /\ j \in DOMAIN ledger
          /\ calls[ledger[i].id].reading = r /\ calls[ledger[j].id].reading = r
      BY DEF Commits
    <3>2. ledger[i].id = ledger[j].id
      BY <1>1, <2>1, <3>1 DEF Ways, Submitted
    <3> QED
      BY <1>1, <3>1, <3>2
  <2>4. IsFiniteSet(T) /\ Cardinality(T) = 2
    <3>1. T = {"callback"} \cup {"queue"} /\ "queue" \notin {"callback"}
      OBVIOUS
    <3>2. IsFiniteSet({"callback"}) /\ Cardinality({"callback"}) = 1
      BY FS_Singleton
    <3> HIDE DEF T
    <3> QED
      BY <3>1, <3>2, FS_AddElement
  <2> HIDE DEF g, T
  <2> QED
    BY <2>2, <2>3, <2>4, NoLarger
<1> QED
  BY <1>3, <1>4 DEF LiveIsCommitted

(* Every reading the dashboard shows is on the ledger, as often as it is   *)
(* shown, and no reading is there more than twice, for any number of       *)
(* threads, readings, retries and restarts.                                *)
THEOREM LiveReadingsCommitted == Spec => []LiveIsCommitted
<1>1. Init => LiveInv /\ TwiceInv
  <2> SUFFICES ASSUME Init PROVE LiveInv /\ TwiceInv
    OBVIOUS
  <2>1. /\ live = <<>> /\ queue = <<>> /\ calls = <<>>
        /\ \A t \in Threads : ~Pending(t)
    BY DEF Init, ProcessStart, ClientInit, Pending, Free, Ended
  <2>2. [n \in Nat |-> n] \in [Nat -> Nat] /\ Shown([n \in Nat |-> n])
    BY <2>1 DEF Shown
  <2>3. [n \in Nat |-> "queue"] \in [Nat -> {"callback", "queue"}] /\ Ways([n \in Nat |-> "queue"])
    BY <2>1 DEF Ways
  <2>4. Once
    BY <2>1, GatewayAssumption DEF Once
  <2>5. live \in Seq(Readings)
    BY <2>1
  <2> QED
    BY <2>2, <2>3, <2>4, <2>5 DEF LiveInv, TwiceInv
<1>2. GatewayInv /\ LiveInv /\ TwiceInv => LiveIsCommitted
  BY HistoriesCount
<1> QED
  BY <1>1, <1>2, HistoriesNext, GatewayInvariance, PTL DEF Spec
=============================================================================
