------------------------ MODULE WebServerProperties ------------------------
(* What the enrollment and dashboard server promises.                      *)
EXTENDS WebServer

Places == {"idle", "enroll", "get", "post", "delete", "check", "peek", "pop", "count",
           "append", "body", "audit_set", "read_back", "not_found", "removed"}

(* The type invariant; a thread has a request exactly while it works.       *)
WebTypeOK ==
  /\ pending \in Seq(Requests) /\ clock \in Nat /\ met \subseteq Subjects
  /\ thread \in [Threads -> [pc : Places, req : Requests \cup {Nil}, now : Nat]]
  /\ \A t \in Threads : At(t, "idle") <=> Req(t) = Nil
  /\ attempts \in [Subjects -> Seq(Nat)]
  /\ roles \in [Subjects -> Roles \cup {Nil}]

(* However many threads pass the check of the length before one of them     *)
(* appends (enrollment_server.py:54-56), a caller's deque never exceeds the *)
(* limit by more than the other threads.                                    *)
AttemptsBounded ==
  \A s \in Subjects : Len(attempts[s]) <= ENROLL_LIMIT + Cardinality(Threads) - 1

Admitted(n) ==
  {m \in 1..(n - 1) : /\ decided[m].admitted /\ decided[m].caller = decided[n].caller
                      /\ decided[n].now < decided[m].now + ENROLL_WINDOW_SECONDS}

(* For a caller whose requests never overlapped the limit is exact          *)
(* (enrollment_server.py:49-57): an attempt passes if and only if fewer     *)
(* than ENROLL_LIMIT passed in the window before it.                        *)
LimitExactAlone ==
  \A n \in DOMAIN decided :
    decided[n].caller \notin met
      => (decided[n].admitted <=> Cardinality(Admitted(n)) < ENROLL_LIMIT)

WasSet(s) ==
  \/ \E n \in DOMAIN audit : audit[n].event = "role_set" /\ audit[n].subject = s
  \/ \E t \in Threads : At(t, "audit_set") /\ Caller(t) = s

(* An internal error has one of three causes: the request itself, with a    *)
(* body, user or number the handler does not expect                         *)
(* (enrollment_server.py:69,113,117, raw_data_api.py:181); for a reader of  *)
(* ROLES, roles that other requests gave to a number and to a string (:108);*)
(* and for a request that enrolls or sets a role, another one on the same   *)
(* caller or user handled at the same time: the deque emptied between test  *)
(* and use (:52-53), or the role deleted before it was read back (:119).    *)
ErrorsHaveCause ==
  \A r \in DOMAIN answers :
    answers[r] = 500 =>
      \/ r.body \in {"not_object", "unhashable", "malformed"}
      \/ /\ r.body = "roles"
         /\ \E s \in Subjects \cap Numbers, u \in Subjects \ Numbers : WasSet(s) /\ WasSet(u)
      \/ r.kind \in {"enroll", "post"} /\ r.subject \in met

Change(s, n) ==
  /\ audit[n].subject = s
  /\ audit[n].event \in {"role_set", "role_deleted"}

LastChange(s, n) ==
  /\ Change(s, n)
  /\ \A m \in DOMAIN audit : Change(s, m) => m <= n

Entered(n) == IF audit[n].event = "role_deleted" THEN Nil ELSE audit[n].req.role

Replays(s) ==
  /\ (\A n \in DOMAIN audit : ~Change(s, n)) => roles[s] = Nil
  /\ \A n \in DOMAIN audit : LastChange(s, n) => roles[s] = Entered(n)

(* The entry says the role held, and fewer entries about the user follow    *)
(* it than there are threads.                                                *)
Near(s) ==
  \/ (\A n \in DOMAIN audit : ~Change(s, n)) /\ roles[s] = Nil
  \/ \E n \in DOMAIN audit :
       /\ Change(s, n) /\ roles[s] = Entered(n)
       /\ Cardinality({m \in DOMAIN audit : m > n /\ Change(s, m)}) < Cardinality(Threads)

(* The audit list can be replayed (:117-118,123-124): between requests, a   *)
(* user whose requests never overlapped has the role the last entry says.   *)
(* Requests that overlap change ROLES in one order and enter it in another; *)
(* even so the role held is that of an entry so near the end that fewer     *)
(* follow it than there are threads.                                        *)
AuditReplays ==
  \A s \in Subjects :
    (\A t \in Threads : At(t, "idle") \/ Caller(t) # s) =>
      /\ s \notin met => Replays(s)
      /\ Near(s)

(* Every request is answered: the loop that drops old attempts ends (:52),  *)
(* whatever other threads do to the deque.                                  *)
EveryRequestAnswered == <>(pending = <<>> /\ \A t \in Threads : At(t, "idle"))
=============================================================================
