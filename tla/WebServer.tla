----------------------------- MODULE WebServer -----------------------------
(* The gateway's enrollment and dashboard server                           *)
(* (gateway/enrollment_server.py): a thread per request, and lists,        *)
(* dictionaries and deques that the threads share without a lock.  One     *)
(* operation on one of these is atomic, nothing more is.                   *)
EXTENDS Naturals, Sequences, FiniteSets

CONSTANTS Threads,                 \* run(threaded=True)
          Batches,                 \* sequences of requests, one of which is sent
          Roles,                   \* the roles the requests set
          Numbers,                 \* subjects whose user_id is a number, no string
          ENROLL_LIMIT,
          ENROLL_WINDOW_SECONDS,
          MaxTime,                 \* bound of the clock
          Nil

Requests == UNION {{b[n] : n \in DOMAIN b} : b \in Batches}

ASSUME ServerAssumption ==
  /\ IsFiniteSet(Threads) /\ Threads # {}
  /\ ENROLL_LIMIT \in Nat \ {0} /\ ENROLL_WINDOW_SECONDS \in Nat \ {0} /\ MaxTime \in Nat
  /\ Nil \notin Roles /\ Nil \notin Requests

(* What a request of each kind may bring: a body, or what a get asks for.  *)
Bodies ==
  [enroll |-> {"not_object", "wrong_zone", "incomplete", "valid"},
   get    |-> {"known", "unknown", "malformed", "roles"},
   post   |-> {"not_object", "incomplete", "unhashable", "valid"},
   delete |-> {"none"}]

(* What the routes pass on: the kinds they serve, a role with every proper *)
(* body of post_role, and a string where the user is named in the path.    *)
ASSUME RequestAssumption ==
  /\ Batches \subseteq Seq(Requests)
  /\ \A r \in Requests :
       /\ r.kind \in {"enroll", "get", "post", "delete"} /\ r.body \in Bodies[r.kind]
       /\ r.kind = "post" /\ r.body = "valid" => r.role \in Roles
       /\ r.kind = "delete" => r.subject \notin Numbers

(* Whom a request concerns: the caller that enrolls, the user of a role.   *)
Subjects == {r.subject : r \in Requests}

VARIABLES pending,    \* requests not yet accepted, as the socket queues them
          thread,     \* what each thread does
          attempts,   \* enroll_attempts
          roles,      \* ROLES
          audit,      \* AUDIT
          clock,
          answers,    \* the status each request was answered with
          decided,    \* what rate_limited decided, in order
          met         \* subjects of requests that were handled at the same time

shared == <<attempts, roles, audit>>
history == <<answers, decided, met>>
vars == <<pending, thread, shared, clock, history>>

Idle == [pc |-> "idle", req |-> Nil, now |-> 0]

(* create_app.                                                             *)
Init ==
  /\ pending \in Batches
  /\ thread = [t \in Threads |-> Idle]
  /\ attempts = [s \in Subjects |-> <<>>]
  /\ roles = [s \in Subjects |-> Nil]
  /\ audit = <<>> /\ clock = 0
  /\ answers = [r \in {} |-> 0] /\ decided = <<>> /\ met = {}

-----------------------------------------------------------------------------
At(t, pc) == thread[t].pc = pc
Req(t) == thread[t].req
Caller(t) == Req(t).subject
GoTo(t, pc) == thread' = [thread EXCEPT ![t].pc = pc]

Answer(t, status) ==
  /\ thread' = [thread EXCEPT ![t] = Idle]
  /\ answers' = [r \in DOMAIN answers \cup {Req(t)} |-> IF r = Req(t) THEN status ELSE answers[r]]

(* audit(event, payload).                                                  *)
Audited(t, event) == Append(audit, [event |-> event, subject |-> Caller(t), req |-> Req(t)])

(* The request joins those being handled; met if one is of its subject.    *)
Accept(t) ==
  /\ At(t, "idle") /\ pending # <<>>
  /\ pending' = Tail(pending)
  /\ LET r == Head(pending)
     IN  /\ thread' = [thread EXCEPT ![t] = [pc |-> r.kind, req |-> r, now |-> 0]]
         /\ met' = met \cup ({r.subject} \cap {Caller(u) : u \in {v \in Threads : ~At(v, "idle")}})
  /\ UNCHANGED <<shared, answers, decided>>

-----------------------------------------------------------------------------
(* rate_limited.                                                           *)

ReadClock(t) ==
  /\ At(t, "enroll")
  /\ thread' = [thread EXCEPT ![t].pc = "check", ![t].now = clock]
  /\ UNCHANGED <<shared, history>>

(* Slip: the loop does not ask whether an attempt is left.                 *)
CheckNothing(t) == At(t, "check") /\ GoTo(t, "peek") /\ UNCHANGED <<shared, history>>

(* while attempts and ...                                                  *)
Check(t) ==
  /\ At(t, "check")
  /\ GoTo(t, IF attempts[Caller(t)] = <<>> THEN "count" ELSE "peek")
  /\ UNCHANGED <<shared, history>>

(* Slip: an attempt counts for one second more.                            *)
OldLate(now, attempt) == now > attempt + ENROLL_WINDOW_SECONDS

Old(now, attempt) == now >= attempt + ENROLL_WINDOW_SECONDS

(* ... now - attempts[0] >= ENROLL_WINDOW_SECONDS; another thread may have *)
(* emptied the deque since, and then attempts[0] raises.                   *)
Peek(t) ==
  /\ At(t, "peek")
  /\ \/ attempts[Caller(t)] = <<>> /\ Answer(t, 500)
     \/ /\ attempts[Caller(t)] # <<>>
        /\ GoTo(t, IF Old(thread[t].now, Head(attempts[Caller(t)])) THEN "pop" ELSE "count")
        /\ UNCHANGED answers
  /\ UNCHANGED <<shared, decided, met>>

(* Slip: the old attempt stays.                                            *)
PopNothing(t) == At(t, "pop") /\ GoTo(t, "check") /\ UNCHANGED <<shared, history>>

(* attempts.popleft(): whatever is first now, or an exception.             *)
Pop(t) ==
  /\ At(t, "pop")
  /\ \/ attempts[Caller(t)] = <<>> /\ Answer(t, 500) /\ UNCHANGED attempts
     \/ /\ attempts[Caller(t)] # <<>>
        /\ attempts' = [attempts EXCEPT ![Caller(t)] = Tail(@)]
        /\ GoTo(t, "check")
        /\ UNCHANGED answers
  /\ UNCHANGED <<roles, audit, decided, met>>

(* Slip: one attempt too many passes.                                      *)
FullLate(caller) == Len(attempts[caller]) > ENROLL_LIMIT

Full(caller) == Len(attempts[caller]) >= ENROLL_LIMIT

(* The decision, from the length the deque has at this moment.             *)
Count(t) ==
  /\ At(t, "count")
  /\ \/ Full(Caller(t)) /\ Answer(t, 429)
     \/ ~Full(Caller(t)) /\ GoTo(t, "append") /\ UNCHANGED answers
  /\ decided' = Append(decided, [caller |-> Caller(t), now |-> thread[t].now,
                                 admitted |-> ~Full(Caller(t))])
  /\ UNCHANGED <<shared, met>>

(* attempts.append(now).                                                   *)
Record(t) ==
  /\ At(t, "append")
  /\ attempts' = [attempts EXCEPT ![Caller(t)] = Append(@, thread[t].now)]
  /\ GoTo(t, "body")
  /\ UNCHANGED <<roles, audit, history>>

-----------------------------------------------------------------------------
(* enroll after the limit.  A body that is JSON but no object has no get;  *)
(* one that is no JSON is taken for an empty object, of the wrong zone.    *)
Enroll(t) ==
  /\ At(t, "body")
  /\ \/ Req(t).body = "not_object" /\ Answer(t, 500) /\ UNCHANGED audit
     \/ /\ Req(t).body = "wrong_zone" /\ Answer(t, 403)
        /\ audit' = Audited(t, "enroll_rejected_zone")
     \/ Req(t).body = "incomplete" /\ Answer(t, 400) /\ UNCHANGED audit
     \/ /\ Req(t).body = "valid" /\ Answer(t, 200)
        /\ audit' = Audited(t, "enroll_granted")
  /\ UNCHANGED <<attempts, roles, decided, met>>

(* The users of ROLES are strings and numbers: they cannot be sorted.      *)
Unsortable ==
  \E s \in Subjects \cap Numbers, u \in Subjects \ Numbers : roles[s] # Nil /\ roles[u] # Nil

(* The routes that only read: by a name or a file that may be missing, by  *)
(* a limit or a cell that should be a number, or ROLES with its keys in    *)
(* order.                                                                  *)
Get(t) ==
  /\ At(t, "get")
  /\ \/ Req(t).body = "known" /\ Answer(t, 200)
     \/ Req(t).body = "unknown" /\ Answer(t, 404)
     \/ Req(t).body = "malformed" /\ Answer(t, 500)
     \/ Req(t).body = "roles" /\ Answer(t, IF Unsortable THEN 500 ELSE 200)
  /\ UNCHANGED <<shared, decided, met>>

-----------------------------------------------------------------------------
(* post_role: the role is set, audited and read back, in three steps.      *)

(* Slip: a role already there is kept.                                     *)
SetOnce(t) == [roles EXCEPT ![Caller(t)] = IF @ = Nil THEN Req(t).role ELSE @]

SetRole(t) == [roles EXCEPT ![Caller(t)] = Req(t).role]

(* Slip: the role may be missing.                                          *)
PostRoleUnchecked(t) ==
  /\ At(t, "post")
  /\ roles' = SetRole(t) /\ GoTo(t, "audit_set")
  /\ UNCHANGED <<attempts, audit, history>>

(* A user_id that is a list or an object is no key of a dictionary.        *)
PostRole(t) ==
  /\ At(t, "post")
  /\ \/ Req(t).body \in {"not_object", "unhashable"} /\ Answer(t, 500) /\ UNCHANGED roles
     \/ Req(t).body = "incomplete" /\ Answer(t, 400) /\ UNCHANGED roles
     \/ Req(t).body = "valid" /\ roles' = SetRole(t) /\ GoTo(t, "audit_set") /\ UNCHANGED answers
  /\ UNCHANGED <<attempts, audit, decided, met>>

AuditSet(t) ==
  /\ At(t, "audit_set")
  /\ audit' = Audited(t, "role_set")
  /\ GoTo(t, "read_back")
  /\ UNCHANGED <<attempts, roles, history>>

(* The role of another request, or none: then the subscript raises.        *)
ReadBack(t) ==
  /\ At(t, "read_back")
  /\ Answer(t, IF roles[Caller(t)] = Nil THEN 500 ELSE 201)
  /\ UNCHANGED <<shared, decided, met>>

(* delete_role: pop, then audit; removed or not is remembered between.     *)
DeleteRole(t) ==
  /\ At(t, "delete")
  /\ roles' = [roles EXCEPT ![Caller(t)] = Nil]
  /\ GoTo(t, IF roles[Caller(t)] = Nil THEN "not_found" ELSE "removed")
  /\ UNCHANGED <<attempts, audit, history>>

AuditDelete(t) ==
  /\ At(t, "not_found") \/ At(t, "removed")
  /\ audit' = Audited(t, "role_deleted")
  /\ Answer(t, IF At(t, "removed") THEN 204 ELSE 404)
  /\ UNCHANGED <<attempts, roles, decided, met>>

-----------------------------------------------------------------------------
Step(t) ==
  \/ ReadClock(t) \/ Check(t) \/ Peek(t) \/ Pop(t) \/ Count(t) \/ Record(t)
  \/ Enroll(t) \/ Get(t)
  \/ PostRole(t) \/ AuditSet(t) \/ ReadBack(t)
  \/ DeleteRole(t) \/ AuditDelete(t)

Tick == clock < MaxTime /\ clock' = clock + 1 /\ UNCHANGED <<pending, thread, shared, history>>

Next ==
  \/ \E t \in Threads :
       \/ Accept(t) /\ UNCHANGED clock
       \/ Step(t) /\ UNCHANGED <<pending, clock>>
  \/ Tick

Spec == Init /\ [][Next]_vars

(* The scheduler runs every thread, and one of them accepts.               *)
Serve(t) == Accept(t) \/ (Step(t) /\ UNCHANGED pending)

FairSpec == Spec /\ \A t \in Threads : WF_vars(Serve(t) /\ UNCHANGED clock)
=============================================================================
