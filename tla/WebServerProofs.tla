-------------------------- MODULE WebServerProofs --------------------------
(* Theorems about the enrollment server, for any number of threads and any *)
(* limit: its types and the bound on the deques of rate_limited, and what  *)
(* it promises where the requests about one subject do not overlap.        *)
EXTENDS WebServerProperties, FiniteSetTheorems, TLAPS

(* Threads that were let through and have not appended yet.                *)
Passed(s) == {t \in Threads : At(t, "append") /\ Caller(t) = s}

(* The strengthening: an attempt that is let through takes its place in    *)
(* the deque only later, so those on their way are counted with it.        *)
Room ==
  \A s \in Subjects :
    Len(attempts[s]) + Cardinality(Passed(s)) <= ENROLL_LIMIT - 1 + Cardinality(Threads)

(* post_role handles nothing but posts, rate_limited nothing but           *)
(* enrollments.                                                            *)
Posting(t) == At(t, "post") \/ At(t, "audit_set") \/ At(t, "read_back")
Sifting(t) == At(t, "enroll") \/ At(t, "check") \/ At(t, "peek") \/ At(t, "pop")

Routed ==
  \A t \in Threads : /\ Posting(t) => Req(t).kind = "post"
                     /\ Sifting(t) => Req(t).kind = "enroll"

WebInv == WebTypeOK /\ Routed /\ Room

(* A thread that works concerns one of the subjects.                       *)
LEMMA CallerIsSubject ==
  ASSUME WebTypeOK, NEW t \in Threads, ~At(t, "idle")
  PROVE  Req(t) \in Requests /\ Caller(t) \in Subjects
  BY DEF WebTypeOK, Subjects, Caller, Req

(* Sizes of the sets of threads.                                           *)
LEMMA PassedFinite ==
  /\ Cardinality(Threads) \in Nat
  /\ \A S \in SUBSET Threads :
       IsFiniteSet(S) /\ Cardinality(S) \in Nat /\ Cardinality(S) <= Cardinality(Threads)
  BY ServerAssumption, FS_CardinalityType, FS_Subset

(* Answering a request returns the thread to the idle ones and keeps the   *)
(* types.                                                                  *)
LEMMA AnswerTypes ==
  ASSUME WebTypeOK, NEW t \in Threads, NEW n, Answer(t, n)
  PROVE  /\ thread' \in [Threads -> [pc : Places, req : Requests \cup {Nil}, now : Nat]]
         /\ \A u \in Threads : At(u, "idle")' <=> (Req(u) = Nil)'
  BY DEF WebTypeOK, Answer, Idle, At, Req, Places

(* Going on to another place keeps the types.                              *)
LEMMA GoToTypes ==
  ASSUME WebTypeOK, NEW t \in Threads, ~At(t, "idle"), NEW pc \in Places \ {"idle"},
         GoTo(t, pc)
  PROVE  /\ thread' \in [Threads -> [pc : Places, req : Requests \cup {Nil}, now : Nat]]
         /\ \A u \in Threads : At(u, "idle")' <=> (Req(u) = Nil)'
  BY DEF WebTypeOK, GoTo, At, Req

(* A new server.                                                           *)
LEMMA InitWeb == Init => WebInv
<1> SUFFICES ASSUME Init PROVE WebInv
  OBVIOUS
<1>1. WebTypeOK
  BY ServerAssumption, RequestAssumption DEF Init, WebTypeOK, Idle, At, Req, Places
<1>2. Routed
  BY DEF Init, Routed, Posting, Sifting, Idle, At
<1>3. \A s \in Subjects : Passed(s) = {} /\ Len(attempts[s]) = 0
  BY DEF Init, Passed, Idle, At
<1>4. Cardinality(Threads) \in Nat /\ Cardinality(Threads) # 0 /\ Cardinality({}) = 0
  BY ServerAssumption, FS_CardinalityType, FS_EmptySet
<1>5. \A s \in Subjects : Cardinality(Passed(s)) = 0
  BY <1>3, <1>4
<1>6. ENROLL_LIMIT \in Nat /\ ENROLL_LIMIT >= 1
  BY ServerAssumption
<1>7. Room
  BY <1>3, <1>4, <1>5, <1>6 DEF Room
<1> QED
  BY <1>1, <1>2, <1>7 DEF WebInv

(* Every step keeps the types.                                             *)
LEMMA StepTypes == WebTypeOK /\ Routed /\ [Next]_vars => WebTypeOK'
<1> SUFFICES ASSUME WebTypeOK, Routed, [Next]_vars PROVE WebTypeOK'
  OBVIOUS
<1> DEFINE Threaded ==
      /\ thread \in [Threads -> [pc : Places, req : Requests \cup {Nil}, now : Nat]]
      /\ \A u \in Threads : At(u, "idle") <=> Req(u) = Nil
      Rest == /\ pending \in Seq(Requests) /\ clock \in Nat /\ met \subseteq Subjects
              /\ attempts \in [Subjects -> Seq(Nat)]
              /\ roles \in [Subjects -> Roles \cup {Nil}]
<1>0. SUFFICES Threaded' /\ Rest'
  BY DEF WebTypeOK
<1>1. ASSUME NEW t \in Threads, Accept(t), UNCHANGED clock
      PROVE  Threaded' /\ Rest'
  <2>1. Head(pending) \in Requests /\ Tail(pending) \in Seq(Requests)
    BY <1>1 DEF Accept, WebTypeOK
  <2>2. Threaded'
    BY <1>1, <2>1, RequestAssumption, ServerAssumption DEF Accept, WebTypeOK, At, Req, Places
  <2>3. Rest'
    BY <1>1, <2>1 DEF Accept, WebTypeOK, shared, Subjects
  <2> QED
    BY <2>2, <2>3
<1>2. ASSUME NEW t \in Threads, Step(t), UNCHANGED <<pending, clock>>
      PROVE  Threaded' /\ Rest'
  <2>a. ~At(t, "idle")
    BY <1>2 DEF Step, ReadClock, Check, Peek, Pop, Count, Record, Enroll, Get, PostRole,
       AuditSet, ReadBack, DeleteRole, AuditDelete, At
  <2>b. Caller(t) \in Subjects /\ Req(t) \in Requests
    BY <2>a, CallerIsSubject
  <2>c. attempts[Caller(t)] \in Seq(Nat)
    BY <2>b DEF WebTypeOK
  <2>1. CASE ReadClock(t)
    BY <1>2, <2>1, <2>a DEF ReadClock, WebTypeOK, At, Req, Places, shared, history
  <2>2. CASE Check(t)
    <3>1. PICK pc \in Places \ {"idle"} : GoTo(t, pc)
      BY <2>2 DEF Check, Places
    <3> QED
      BY <1>2, <2>2, <2>a, <3>1, GoToTypes DEF Check, WebTypeOK, shared, history
  <2>3. CASE Peek(t)
    <3>1. (\E n : Answer(t, n)) \/ \E pc \in Places \ {"idle"} : GoTo(t, pc)
      BY <2>3 DEF Peek, Places
    <3> QED
      BY <1>2, <2>3, <2>a, <3>1, GoToTypes, AnswerTypes DEF Peek, WebTypeOK, shared
  <2>4. CASE Pop(t)
    <3>1. (\E n : Answer(t, n)) \/ \E pc \in Places \ {"idle"} : GoTo(t, pc)
      BY <2>4 DEF Pop, Places
    <3>2. Threaded'
      BY <2>a, <3>1, GoToTypes, AnswerTypes
    <3>3. attempts' \in [Subjects -> Seq(Nat)]
      <4>1. CASE attempts' = attempts
        BY <4>1 DEF WebTypeOK
      <4>2. CASE attempts[Caller(t)] # <<>>
        <5>1. Tail(attempts[Caller(t)]) \in Seq(Nat)
          BY <2>c, <4>2
        <5> QED
          BY <2>4, <4>2, <5>1 DEF Pop, WebTypeOK
      <4> QED
        BY <2>4, <4>1, <4>2 DEF Pop
    <3>4. Rest'
      BY <1>2, <2>4, <3>3 DEF Pop, WebTypeOK
    <3> QED
      BY <3>2, <3>4
  <2>5. CASE Count(t)
    <3>1. (\E n : Answer(t, n)) \/ \E pc \in Places \ {"idle"} : GoTo(t, pc)
      BY <2>5 DEF Count, Places
    <3> QED
      BY <1>2, <2>5, <2>a, <3>1, GoToTypes, AnswerTypes DEF Count, WebTypeOK, shared
  <2>6. CASE Record(t)
    <3>1. \E pc \in Places \ {"idle"} : GoTo(t, pc)
      BY <2>6 DEF Record, Places
    <3>2. Threaded'
      BY <2>a, <3>1, GoToTypes
    <3>3. thread[t].now \in Nat
      BY DEF WebTypeOK
    <3>4. Append(attempts[Caller(t)], thread[t].now) \in Seq(Nat)
      BY <2>c, <3>3
    <3>5. attempts' \in [Subjects -> Seq(Nat)]
      BY <2>6, <3>4 DEF Record, WebTypeOK
    <3>6. Rest'
      BY <1>2, <2>6, <3>5 DEF Record, WebTypeOK, history
    <3> QED
      BY <3>2, <3>6
  <2>7. CASE Enroll(t)
    <3>1. \E n : Answer(t, n)
      BY <2>7 DEF Enroll
    <3> QED
      BY <1>2, <2>7, <3>1, AnswerTypes DEF Enroll, WebTypeOK
  <2>8. CASE Get(t)
    <3>1. \E n : Answer(t, n)
      BY <2>8 DEF Get
    <3> QED
      BY <1>2, <2>8, <3>1, AnswerTypes DEF Get, WebTypeOK, shared
  <2>9. CASE PostRole(t)
    <3>1. (\E n : Answer(t, n)) \/ \E pc \in Places \ {"idle"} : GoTo(t, pc)
      BY <2>9 DEF PostRole, Places
    <3>2. Threaded'
      BY <2>a, <3>1, GoToTypes, AnswerTypes
    <3>3. Req(t).kind = "post"
      BY <2>9 DEF PostRole, Routed, Posting
    <3>4. Rest'
      BY <1>2, <2>9, <2>b, <3>3, RequestAssumption DEF PostRole, SetRole, WebTypeOK
    <3> QED
      BY <3>2, <3>4
  <2>10. CASE AuditSet(t)
    <3>1. \E pc \in Places \ {"idle"} : GoTo(t, pc)
      BY <2>10 DEF AuditSet, Places
    <3> QED
      BY <1>2, <2>10, <2>a, <3>1, GoToTypes DEF AuditSet, WebTypeOK, history
  <2>11. CASE ReadBack(t)
    <3>1. \E n : Answer(t, n)
      BY <2>11 DEF ReadBack
    <3> QED
      BY <1>2, <2>11, <3>1, AnswerTypes DEF ReadBack, WebTypeOK, shared
  <2>12. CASE DeleteRole(t)
    <3>1. \E pc \in Places \ {"idle"} : GoTo(t, pc)
      BY <2>12 DEF DeleteRole, Places
    <3>2. Threaded'
      BY <2>a, <3>1, GoToTypes
    <3>3. Rest'
      BY <1>2, <2>12 DEF DeleteRole, WebTypeOK, history
    <3> QED
      BY <3>2, <3>3
  <2>13. CASE AuditDelete(t)
    <3>1. \E n : Answer(t, n)
      BY <2>13 DEF AuditDelete
    <3> QED
      BY <1>2, <2>13, <3>1, AnswerTypes DEF AuditDelete, WebTypeOK
  <2> QED
    BY <1>2, <2>1, <2>2, <2>3, <2>4, <2>5, <2>6, <2>7, <2>8, <2>9, <2>10, <2>11, <2>12, <2>13
       DEF Step
<1>3. CASE Tick
  BY <1>3 DEF Tick, WebTypeOK, shared, history, At, Req
<1>4. CASE UNCHANGED vars
  BY <1>4 DEF vars, WebTypeOK, shared, history, At, Req
<1> QED
  BY <1>1, <1>2, <1>3, <1>4 DEF Next

(* A step reaches post_role only by accepting a post, and the append only  *)
(* by being let through.                                                   *)
LEMMA ThreadMoves ==
  ASSUME WebTypeOK, [Next]_vars, NEW t \in Threads
  PROVE  \/ UNCHANGED thread[t]
         \/ thread'[t] = Idle
         \/ /\ Req(t)' = Req(t)
            /\ ~At(t, "post")'
            /\ At(t, "append")' => Count(t) /\ ~Full(Caller(t)) /\ UNCHANGED attempts
         \/ Accept(t) /\ thread'[t].req \in Requests /\ thread'[t].pc = thread'[t].req.kind
<1>1. ASSUME NEW u \in Threads, Accept(u) PROVE  (UNCHANGED thread[t]) \/ (u = t /\ thread'[t].req \in Requests /\ thread'[t].pc = thread'[t].req.kind)
  <2>1. Head(pending) \in Requests
    BY <1>1 DEF Accept, WebTypeOK
  <2> QED
    BY <1>1, <2>1 DEF Accept, WebTypeOK
<1>2. ASSUME NEW u \in Threads, Step(u), u # t PROVE UNCHANGED thread[t]
  BY <1>2 DEF Step, ReadClock, Check, Peek, Pop, Count, Record, Enroll, Get, PostRole,
     AuditSet, ReadBack, DeleteRole, AuditDelete, GoTo, Answer, WebTypeOK
<1>3. ASSUME Step(t)
      PROVE  \/ thread'[t] = Idle
             \/ /\ Req(t)' = Req(t) /\ ~At(t, "post")'
                /\ At(t, "append")' => Count(t) /\ ~Full(Caller(t)) /\ UNCHANGED attempts
  BY <1>3 DEF Step, ReadClock, Check, Peek, Pop, Count, Record, Enroll, Get, PostRole,
     AuditSet, ReadBack, DeleteRole, AuditDelete, GoTo, Answer, WebTypeOK, At, Req, Idle, shared
<1>4. ASSUME Tick \/ UNCHANGED vars PROVE UNCHANGED thread[t]
  BY <1>4 DEF Tick, vars
<1> QED
  BY <1>1, <1>2, <1>3, <1>4 DEF Next

(* Every step leaves the routes to the requests they are for.              *)
LEMMA StepRouted == WebTypeOK /\ Routed /\ [Next]_vars => Routed'
<1> SUFFICES ASSUME WebTypeOK, Routed, [Next]_vars, NEW t \in Threads
             PROVE  /\ Posting(t)' => Req(t)'.kind = "post"
                    /\ Sifting(t)' => Req(t)'.kind = "enroll"
  BY DEF Routed
<1>1. CASE thread'[t] = thread[t]
  BY <1>1 DEF Routed, Posting, Sifting, At, Req
<1>2. ASSUME Accept(t)
      PROVE  /\ Posting(t)' => Req(t)'.kind = "post"
             /\ Sifting(t)' => Req(t)'.kind = "enroll"
  <2>1. Head(pending) \in Requests
    BY <1>2 DEF Accept, WebTypeOK
  <2>2. thread'[t] = [pc |-> Head(pending).kind, req |-> Head(pending), now |-> 0]
    BY <1>2 DEF Accept, WebTypeOK
  <2> QED
    BY <2>1, <2>2, RequestAssumption DEF Posting, Sifting, At, Req
<1>3. ASSUME Step(t)
      PROVE  \/ thread'[t] = Idle
             \/ /\ Req(t)' = Req(t)
                /\ Posting(t)' => Posting(t)
                /\ Sifting(t)' => Sifting(t)
  BY <1>3 DEF Step, ReadClock, Check, Peek, Pop, Count, Record, Enroll, Get, PostRole,
     AuditSet, ReadBack, DeleteRole, AuditDelete, GoTo, Answer, WebTypeOK, At, Req,
     Posting, Sifting
<1>4. CASE Step(t)
  BY <1>3, <1>4 DEF Routed, Posting, Sifting, At, Idle
<1>5. ASSUME NEW u \in Threads, Step(u) \/ Accept(u), u # t PROVE thread'[t] = thread[t]
  BY <1>5 DEF Step, ReadClock, Check, Peek, Pop, Count, Record, Enroll, Get, PostRole,
     AuditSet, ReadBack, DeleteRole, AuditDelete, GoTo, Answer, Accept, WebTypeOK
<1>6. ASSUME Tick \/ UNCHANGED vars PROVE thread'[t] = thread[t]
  BY <1>6 DEF Tick, vars
<1> QED
  BY <1>1, <1>2, <1>4, <1>5, <1>6 DEF Next

(* What a step does to the deque of a subject and to those on their way.   *)
LEMMA RoomMoves ==
  ASSUME WebTypeOK, [Next]_vars, NEW s \in Subjects
  PROVE  \/ Len(attempts'[s]) <= Len(attempts[s]) /\ Passed(s)' \subseteq Passed(s)
         \/ attempts'[s] = attempts[s] /\ ~Full(s)
         \/ \E t \in Passed(s) : /\ Passed(s)' = Passed(s) \ {t}
                                 /\ Len(attempts'[s]) = Len(attempts[s]) + 1
<1>0. attempts[s] \in Seq(Nat) /\ Len(attempts[s]) \in Nat
  BY DEF WebTypeOK
<1>1. CASE \E t \in Threads : Record(t)
  <2> PICK t \in Threads : Record(t)
    BY <1>1
  <2>1. ~At(t, "append")' /\ Caller(t)' = Caller(t)
    BY DEF Record, GoTo, WebTypeOK, At, Caller, Req
  <2>2. \A u \in Threads \ {t} : thread'[u] = thread[u]
    BY DEF Record, GoTo, WebTypeOK
  <2>3. \A u \in Threads \ {t} : (At(u, "append") <=> At(u, "append")') /\ Caller(u)' = Caller(u)
    BY <2>2 DEF At, Caller, Req
  <2>4. Passed(s)' = Passed(s) \ {t}
    BY <2>1, <2>3 DEF Passed
  <2>5. CASE Caller(t) = s
    <3>1. t \in Passed(s)
      BY <2>5 DEF Record, Passed
    <3>2. attempts'[s] = Append(attempts[s], thread[t].now)
      BY <2>5 DEF Record, WebTypeOK
    <3>3. thread[t].now \in Nat
      BY DEF WebTypeOK
    <3>4. Len(attempts'[s]) = Len(attempts[s]) + 1
      BY <1>0, <3>2, <3>3
    <3> QED
      BY <2>4, <3>1, <3>4
  <2>6. CASE Caller(t) # s
    <3>1. attempts'[s] = attempts[s]
      BY <2>6 DEF Record, WebTypeOK
    <3> QED
      BY <1>0, <2>4, <3>1
  <2> QED
    BY <2>5, <2>6
<1>2. CASE ~\E t \in Threads : Record(t)
  <2>1. attempts'[s] = attempts[s] \/ (attempts[s] # <<>> /\ attempts'[s] = Tail(attempts[s]))
    <3>1. ASSUME NEW t \in Threads, Pop(t)
          PROVE  attempts'[s] = attempts[s]
                   \/ (attempts[s] # <<>> /\ attempts'[s] = Tail(attempts[s]))
      BY <3>1 DEF Pop, WebTypeOK
    <3>2. ASSUME NEW t \in Threads, Step(t), ~Pop(t), ~Record(t) PROVE UNCHANGED attempts
      BY <3>2 DEF Step, ReadClock, Check, Peek, Count, Enroll, Get, PostRole, AuditSet,
         ReadBack, DeleteRole, AuditDelete, shared
    <3>3. ASSUME Tick \/ (UNCHANGED vars) \/ \E t \in Threads : Accept(t)
          PROVE  UNCHANGED attempts
      BY <3>3 DEF Tick, vars, Accept, shared
    <3> QED
      BY <1>2, <3>1, <3>2, <3>3 DEF Next
  <2>2. Len(attempts'[s]) <= Len(attempts[s])
    <3>1. CASE attempts'[s] = attempts[s]
      BY <1>0, <3>1
    <3>2. CASE attempts[s] # <<>> /\ attempts'[s] = Tail(attempts[s])
      <4>1. Len(Tail(attempts[s])) = Len(attempts[s]) - 1
        BY <1>0, <3>2
      <4> QED
        BY <1>0, <3>2, <4>1
    <3> QED
      BY <2>1, <3>1, <3>2
  <2>3. CASE Passed(s)' \subseteq Passed(s)
    BY <2>2, <2>3
  <2>4. CASE ~(Passed(s)' \subseteq Passed(s))
    <3>1. PICK t \in Threads : t \in Passed(s)' /\ t \notin Passed(s)
      BY <2>4 DEF Passed
    <3>2. At(t, "append")' /\ Caller(t)' = s /\ ~(At(t, "append") /\ Caller(t) = s)
      BY <3>1 DEF Passed
    <3>3. ~UNCHANGED thread[t] /\ thread'[t] # Idle
      BY <3>2 DEF At, Caller, Req, Idle
    <3>4. ~(thread'[t].req \in Requests /\ thread'[t].pc = thread'[t].req.kind)
      BY <3>2, RequestAssumption DEF At
    <3>5. Count(t) /\ ~Full(Caller(t)) /\ UNCHANGED attempts /\ Req(t)' = Req(t)
      BY <3>2, <3>3, <3>4, ThreadMoves
    <3> QED
      BY <3>2, <3>5 DEF Caller
  <2> QED
    BY <2>3, <2>4
<1> QED
  BY <1>1, <1>2

(* Every step leaves room in the deques.                                   *)
LEMMA StepRoom == WebTypeOK /\ Room /\ [Next]_vars /\ WebTypeOK' => Room'
<1> SUFFICES ASSUME WebTypeOK, WebTypeOK', Room, [Next]_vars PROVE Room'
  OBVIOUS
<1> SUFFICES ASSUME NEW s \in Subjects
             PROVE  Len(attempts'[s]) + Cardinality(Passed(s)')
                      <= ENROLL_LIMIT - 1 + Cardinality(Threads)
  BY DEF Room, Subjects
<1> DEFINE n == Len(attempts[s])  m == Len(attempts'[s])
           p == Cardinality(Passed(s))  q == Cardinality(Passed(s)')
           limit == ENROLL_LIMIT - 1 + Cardinality(Threads)
<1>1. n \in Nat /\ m \in Nat
  BY DEF WebTypeOK
<1>2. Passed(s) \subseteq Threads /\ Passed(s)' \subseteq Threads
  BY DEF Passed
<1>3. /\ IsFiniteSet(Passed(s)) /\ p \in Nat /\ q \in Nat /\ q <= Cardinality(Threads)
      /\ Cardinality(Threads) \in Nat
  BY <1>2, PassedFinite
<1>4. n + p <= limit
  BY DEF Room
<1>5. ENROLL_LIMIT \in Nat
  BY ServerAssumption
<1>6. CASE m <= n /\ Passed(s)' \subseteq Passed(s)
  <2>1. q <= p
    BY <1>3, <1>6, FS_Subset
  <2> QED
    BY <1>1, <1>3, <1>4, <1>5, <1>6, <2>1
<1>7. CASE attempts'[s] = attempts[s] /\ ~Full(s)
  <2>1. m = n /\ ~(n >= ENROLL_LIMIT)
    BY <1>7 DEF Full
  <2> QED
    BY <1>1, <1>3, <1>5, <2>1
<1>8. CASE \E t \in Passed(s) : Passed(s)' = Passed(s) \ {t} /\ m = n + 1
  <2>1. q = p - 1
    BY <1>3, <1>8, FS_RemoveElement
  <2> QED
    BY <1>1, <1>3, <1>4, <1>5, <1>8, <2>1
<1> QED
  BY <1>6, <1>7, <1>8, RoomMoves

(* The invariant is inductive.                                             *)
LEMMA WebInductive == Spec => []WebInv
<1>1. WebInv /\ [Next]_vars => WebInv'
  BY StepTypes, StepRouted, StepRoom DEF WebInv
<1> QED
  BY <1>1, InitWeb, PTL DEF Spec

(* The server's data keep their types whatever the threads do: a request   *)
(* is never lost by a thread, and ROLES holds nothing but roles that       *)
(* post_role checked.                                                      *)
THEOREM WebTypes == Spec => []WebTypeOK
<1>1. WebInv => WebTypeOK
  BY DEF WebInv
<1> QED
  BY <1>1, WebInductive, PTL

(* For any number of threads and any limit, the unlocked check of the      *)
(* deque's length (enrollment_server.py:54-56) lets it grow past the limit *)
(* by at most one attempt for each other thread.                           *)
THEOREM DequeBounded == Spec => []AttemptsBounded
<1>1. WebInv => AttemptsBounded
  <2> SUFFICES ASSUME WebTypeOK, Room, NEW s \in Subjects
               PROVE  Len(attempts[s]) <= ENROLL_LIMIT + Cardinality(Threads) - 1
    BY DEF WebInv, AttemptsBounded
  <2>1. Passed(s) \subseteq Threads
    BY DEF Passed
  <2>2. Cardinality(Passed(s)) \in Nat /\ Cardinality(Threads) \in Nat
    BY <2>1, PassedFinite
  <2>3. Len(attempts[s]) + Cardinality(Passed(s)) <= ENROLL_LIMIT - 1 + Cardinality(Threads)
    BY DEF Room
  <2>4. Len(attempts[s]) \in Nat /\ ENROLL_LIMIT \in Nat
    BY ServerAssumption DEF WebTypeOK
  <2> QED
    BY <2>2, <2>3, <2>4
<1> QED
  BY <1>1, WebInductive, PTL

-----------------------------------------------------------------------------
(* What the server promises to a caller or user whose requests were never  *)
(* handled at the same time: no internal error for a proper body, an audit *)
(* list that can be replayed, an exact limit.  For any number of threads,  *)
(* whatever the requests of the others do meanwhile.                       *)

WorksOn(t, s) == ~At(t, "idle") /\ Caller(t) = s

(* Two threads that work on one subject have met.                          *)
Separate ==
  \A t, u \in Threads, s \in Subjects : t # u /\ WorksOn(t, s) /\ WorksOn(u, s) => s \in met

Events == {"enroll_rejected_zone", "enroll_granted", "role_set", "role_deleted"}
Entries == [event : Events, subject : Subjects, req : Requests]
Decisions == [caller : Subjects, now : Nat, admitted : BOOLEAN]

Logs == audit \in Seq(Entries) /\ decided \in Seq(Decisions)

(* What a thread that was not disturbed relies on after each test: the     *)
(* deque it found filled is filled, the role it set or removed stays so.   *)
Fine(t) ==
  /\ At(t, "peek") \/ At(t, "pop") => attempts[Caller(t)] # <<>>
  /\ At(t, "audit_set") \/ At(t, "read_back")
       => roles[Caller(t)] = Req(t).role /\ roles[Caller(t)] # Nil
  /\ At(t, "not_found") \/ At(t, "removed") => roles[Caller(t)] = Nil

Undisturbed == \A t \in Threads : ~At(t, "idle") /\ Caller(t) \notin met => Fine(t)

(* Between an effect on ROLES and its audit entry.                         *)
Owes(t) == At(t, "audit_set") \/ At(t, "not_found") \/ At(t, "removed")

Audits ==
  \A s \in Subjects \ met : (\A t \in Threads : ~(WorksOn(t, s) /\ Owes(t))) => Replays(s)

(* A role held was set by a post.                                          *)
Known == \A s \in Subjects : roles[s] # Nil => WasSet(s)

(* What the entry a thread owes will say, who owes one about a user, and   *)
(* the entries about it after one of them.                                 *)
Value(t) == IF At(t, "audit_set") THEN Req(t).role ELSE Nil
Owing(s) == {t \in Threads : WorksOn(t, s) /\ Owes(t)}
Later(s, n) == {m \in DOMAIN audit : m > n /\ Change(s, m)}

(* The role held is that of an entry owed, or of one that those owed leave *)
(* near the end.                                                           *)
Accounted(s) ==
  \/ (\A n \in DOMAIN audit : ~Change(s, n)) /\ roles[s] = Nil /\ Owing(s) = {}
  \/ \E t \in Owing(s) : roles[s] = Value(t)
  \/ \E n \in DOMAIN audit :
       /\ Change(s, n) /\ roles[s] = Entered(n)
       /\ Cardinality(Later(s, n)) + Cardinality(Owing(s)) < Cardinality(Threads)

Accounts == \A s \in Subjects : Accounted(s)

(* Between the reading of the clock and the decision of rate_limited.      *)
Limiting(t) == \E pc \in {"check", "peek", "pop", "count"} : At(t, pc)

Clocks == \A t \in Threads : thread[t].now <= clock

(* What the loop found of the first attempt holds until it is used.        *)
Found(t) ==
  /\ At(t, "pop") => Old(thread[t].now, Head(attempts[Caller(t)]))
  /\ At(t, "count") /\ attempts[Caller(t)] # <<>>
       => ~Old(thread[t].now, Head(attempts[Caller(t)]))

Sifted == \A t \in Threads : ~At(t, "idle") /\ Caller(t) \notin met => Found(t)

(* The deque of a subject, with the attempt let through and not appended.  *)
Waits(t, s) == WorksOn(t, s) /\ At(t, "append")

Due(s) ==
  IF \E t \in Threads : Waits(t, s)
  THEN {Append(attempts[s], thread[t].now) : t \in {u \in Threads : Waits(u, s)}}
  ELSE {attempts[s]}

(* A time no later than any at which this subject is or will be judged.    *)
Past(s, x) ==
  /\ x <= clock
  /\ \A t \in Threads : WorksOn(t, s) /\ Limiting(t) => x <= thread[t].now

Ordered(s, d) ==
  /\ d \in Seq(Nat)
  /\ \A i, j \in 1..Len(d) : i <= j => d[i] <= d[j]
  /\ \A i \in 1..Len(d) : Past(s, d[i])

Counted(s, m) == decided[m].caller = s /\ decided[m].admitted

(* f gives the place of every attempt of d among the decisions; those let  *)
(* through that d lacks are out of the window for good.                    *)
Placed(s, d, f) ==
  /\ \A i, j \in 1..Len(d) : f[i] = f[j] => i = j
  /\ \A i \in 1..Len(d) : Counted(s, f[i]) /\ d[i] = decided[f[i]].now
  /\ \A m \in 1..Len(decided) : Counted(s, m) =>
       \/ \E i \in 1..Len(d) : f[i] = m
       \/ Past(s, decided[m].now + ENROLL_WINDOW_SECONDS)

Tracked(s, d) ==
  /\ Ordered(s, d)
  /\ \E f \in [1..Len(d) -> 1..Len(decided)] : Placed(s, d, f)

Deques == \A s \in Subjects \ met : \A d \in Due(s) : Tracked(s, d)

Base == WebTypeOK /\ Routed /\ Separate /\ Logs

(* The inductive invariant.                                                *)
AloneInv ==
  /\ Base /\ Undisturbed /\ Known /\ ErrorsHaveCause /\ Audits /\ Accounts
  /\ Clocks /\ Sifted /\ Deques /\ LimitExactAlone

(* What every step of a handler leaves alone.                              *)
LEMMA HandlerSteps ==
  ASSUME WebTypeOK, NEW t \in Threads, Step(t)
  PROVE  /\ ~At(t, "idle") /\ Caller(t) \in Subjects /\ Req(t) \in Requests
         /\ met' = met
         /\ \A u \in Threads \ {t} : thread'[u] = thread[u]
         /\ \/ thread'[t] = Idle
            \/ Req(t)' = Req(t)
<1>1. ~At(t, "idle")
  BY DEF Step, ReadClock, Check, Peek, Pop, Count, Record, Enroll, Get, PostRole,
     AuditSet, ReadBack, DeleteRole, AuditDelete, At
<1>2. met' = met
  BY DEF Step, ReadClock, Check, Peek, Pop, Count, Record, Enroll, Get, PostRole,
     AuditSet, ReadBack, DeleteRole, AuditDelete, history
<1>3. /\ \A u \in Threads \ {t} : thread'[u] = thread[u]
      /\ thread'[t] = Idle \/ Req(t)' = Req(t)
  BY DEF Step, ReadClock, Check, Peek, Pop, Count, Record, Enroll, Get, PostRole,
     AuditSet, ReadBack, DeleteRole, AuditDelete, GoTo, Answer, WebTypeOK, Req
<1> QED
  BY <1>1, <1>2, <1>3, CallerIsSubject

(* A request that is accepted joins those of its subject.                  *)
LEMMA AcceptSteps ==
  ASSUME WebTypeOK, NEW t \in Threads, Accept(t)
  PROVE  /\ At(t, "idle") /\ met \subseteq met'
         /\ \A u \in Threads \ {t} : thread'[u] = thread[u]
         /\ thread'[t].req \in Requests
         /\ thread'[t].pc = thread'[t].req.kind
         /\ thread'[t].pc \in {"enroll", "get", "post", "delete"}
         /\ \A u \in Threads : ~At(u, "idle") /\ Caller(u) = Caller(t)' => Caller(u) \in met'
         /\ UNCHANGED <<attempts, roles, audit, answers, decided>>
<1>1. Head(pending) \in Requests
  BY DEF Accept, WebTypeOK
<1>2. thread' = [thread EXCEPT ![t] = [pc |-> Head(pending).kind, req |-> Head(pending), now |-> 0]]
  BY DEF Accept
<1>3. thread'[t] = [pc |-> Head(pending).kind, req |-> Head(pending), now |-> 0]
  BY <1>2 DEF WebTypeOK
<1>4. Caller(t)' = Head(pending).subject
  BY <1>3 DEF Caller, Req
<1>5. \A u \in Threads : ~At(u, "idle") /\ Caller(u) = Caller(t)' => Caller(u) \in met'
  BY <1>4 DEF Accept
<1> QED
  BY <1>1, <1>2, <1>3, <1>5, RequestAssumption DEF Accept, WebTypeOK, shared

(* Threads that meet are remembered.                                       *)
LEMMA StepSeparate == WebTypeOK /\ Separate /\ [Next]_vars => Separate' /\ met \subseteq met'
<1> SUFFICES ASSUME WebTypeOK, Separate, [Next]_vars PROVE Separate' /\ met \subseteq met'
  OBVIOUS
<1>1. ASSUME NEW v \in Threads, Accept(v) PROVE Separate' /\ met \subseteq met'
  <2> SUFFICES ASSUME NEW t \in Threads, NEW u \in Threads, NEW s \in Subjects, t # u,
                      WorksOn(t, s)', WorksOn(u, s)'
               PROVE  s \in met'
    BY <1>1, AcceptSteps DEF Separate, Subjects
  <2>1. \A w \in Threads \ {v} : WorksOn(w, s)' => WorksOn(w, s)
    BY <1>1, AcceptSteps DEF WorksOn, At, Caller, Req
  <2>2. CASE t # v /\ u # v
    BY <1>1, <2>1, <2>2, AcceptSteps DEF Separate
  <2>3. CASE t = v
    BY <1>1, <2>1, <2>3, AcceptSteps DEF WorksOn
  <2>4. CASE u = v
    BY <1>1, <2>1, <2>4, AcceptSteps DEF WorksOn
  <2> QED
    BY <2>2, <2>3, <2>4
<1>2. ASSUME NEW v \in Threads, Step(v) PROVE Separate' /\ met \subseteq met'
  <2>1. \A w \in Threads, s \in Subjects : WorksOn(w, s)' => WorksOn(w, s)
    BY <1>2, HandlerSteps DEF WorksOn, At, Caller, Req, Idle
  <2> QED
    BY <1>2, <2>1, HandlerSteps DEF Separate, Subjects
<1>3. CASE Tick \/ UNCHANGED vars
  BY <1>3 DEF Tick, vars, history, Separate, WorksOn, At, Caller, Req, Subjects
<1> QED
  BY <1>1, <1>2, <1>3 DEF Next

(* A step enters at most one event.                                        *)
LEMMA AuditSteps ==
  ASSUME NEW t \in Threads, Step(t)
  PROVE  (UNCHANGED audit) \/ \E e \in Events : audit' = Audited(t, e)
<1>1. \/ UNCHANGED audit
      \/ audit' = Audited(t, "enroll_rejected_zone") \/ audit' = Audited(t, "enroll_granted")
      \/ audit' = Audited(t, "role_set") \/ audit' = Audited(t, "role_deleted")
  BY DEF Step, ReadClock, Check, Peek, Pop, Count, Record, Enroll, Get, PostRole,
     AuditSet, ReadBack, DeleteRole, AuditDelete, shared
<1> QED
  BY <1>1 DEF Events

(* The two lists grow by entries of their kind.                            *)
LEMMA StepLogs == WebTypeOK /\ Logs /\ [Next]_vars => Logs'
<1> SUFFICES ASSUME WebTypeOK, Logs, [Next]_vars PROVE Logs'
  OBVIOUS
<1>1. ASSUME NEW t \in Threads, Step(t) PROVE Logs'
  <2>0. Caller(t) \in Subjects /\ Req(t) \in Requests
    BY <1>1, HandlerSteps
  <2>1. (UNCHANGED decided) \/ Count(t)
    BY <1>1 DEF Step, ReadClock, Check, Peek, Pop, Record, Enroll, Get, PostRole,
       AuditSet, ReadBack, DeleteRole, AuditDelete, history
  <2>2. CASE Count(t)
    <3>1. thread[t].now \in Nat
      BY DEF WebTypeOK
    <3>2. [caller |-> Caller(t), now |-> thread[t].now, admitted |-> ~Full(Caller(t))] \in Decisions
      BY <2>0, <3>1 DEF Decisions
    <3> QED
      BY <2>2, <3>2 DEF Count, Logs, shared
  <2>3. (UNCHANGED audit) \/ \E e \in Events : audit' = Audited(t, e)
    BY <1>1, AuditSteps
  <2>4. \A e \in Events : Audited(t, e) \in Seq(Entries)
    BY <2>0 DEF Audited, Logs, Entries
  <2> QED
    BY <2>1, <2>2, <2>3, <2>4 DEF Logs
<1>2. ASSUME NEW t \in Threads, Accept(t) PROVE Logs'
  BY <1>2 DEF Accept, Logs, shared
<1>3. CASE Tick \/ UNCHANGED vars
  BY <1>3 DEF Tick, vars, shared, history, Logs
<1> QED
  BY <1>1, <1>2, <1>3 DEF Next

(* A step on another subject touches nothing of this one.                  *)
LEMMA Elsewhere ==
  ASSUME Base, NEW t \in Threads, Step(t), NEW s \in Subjects, Caller(t) # s
  PROVE  /\ attempts'[s] = attempts[s] /\ roles'[s] = roles[s]
         /\ \/ UNCHANGED audit
            \/ \E e \in Entries : audit' = Append(audit, e) /\ e.subject # s
         /\ \/ UNCHANGED decided
            \/ \E d \in Decisions : decided' = Append(decided, d) /\ d.caller # s
         /\ \A u \in Threads : WorksOn(u, s) => u # t
         /\ \A u \in Threads : WorksOn(u, s)' <=> WorksOn(u, s)
<1>0. Caller(t) \in Subjects /\ Req(t) \in Requests
  BY HandlerSteps DEF Base
<1>1. attempts'[s] = attempts[s] /\ roles'[s] = roles[s]
  BY DEF Step, ReadClock, Check, Peek, Pop, Count, Record, Enroll, Get, PostRole, SetRole,
     AuditSet, ReadBack, DeleteRole, AuditDelete, shared, Base, WebTypeOK
<1>2. (UNCHANGED audit) \/ \E e \in Events : audit' = Audited(t, e)
  BY AuditSteps
<1>3. ASSUME NEW e \in Events, audit' = Audited(t, e)
      PROVE  \E x \in Entries : audit' = Append(audit, x) /\ x.subject # s
  BY <1>0, <1>3 DEF Audited, Entries
<1>4. (UNCHANGED decided) \/ Count(t)
  BY DEF Step, ReadClock, Check, Peek, Pop, Record, Enroll, Get, PostRole,
     AuditSet, ReadBack, DeleteRole, AuditDelete, history
<1>5. ASSUME Count(t)
      PROVE  \E d \in Decisions : decided' = Append(decided, d) /\ d.caller # s
  <2>1. thread[t].now \in Nat
    BY DEF Base, WebTypeOK
  <2> DEFINE d == [caller |-> Caller(t), now |-> thread[t].now, admitted |-> ~Full(Caller(t))]
  <2>2. d \in Decisions /\ d.caller # s
    BY <1>0, <2>1 DEF Decisions
  <2>3. decided' = Append(decided, d)
    BY <1>5 DEF Count
  <2> QED
    BY <2>2, <2>3
<1>6. /\ \A u \in Threads : WorksOn(u, s) => u # t
      /\ \A u \in Threads : WorksOn(u, s)' <=> WorksOn(u, s)
  BY HandlerSteps DEF Base, WorksOn, Caller, Req, At, Idle
<1> QED
  BY <1>1, <1>2, <1>3, <1>4, <1>5, <1>6

(* Every step leaves the threads that were not disturbed what they rely    *)
(* on.                                                                     *)
LEMMA StepUndisturbed == Base /\ Undisturbed /\ [Next]_vars => Undisturbed'
<1> SUFFICES ASSUME Base, Undisturbed, [Next]_vars, NEW t \in Threads,
                    ~At(t, "idle")', Caller(t)' \notin met'
             PROVE  Fine(t)'
  BY DEF Undisturbed
<1>0. WebTypeOK /\ met \subseteq met'
  BY StepSeparate DEF Base
<1>1. ASSUME thread'[t] = thread[t], attempts'[Caller(t)] = attempts[Caller(t)],
             roles'[Caller(t)] = roles[Caller(t)]
      PROVE  Fine(t)'
  <2>1. Caller(t)' = Caller(t) /\ Req(t)' = Req(t) /\ \A pc : At(t, pc)' <=> At(t, pc)
    BY <1>1 DEF Caller, Req, At
  <2>2. Fine(t)
    BY <1>0, <2>1 DEF Undisturbed
  <2> QED
    BY <1>1, <2>1, <2>2 DEF Fine
<1>2. ASSUME NEW v \in Threads, Accept(v) PROVE Fine(t)'
  <2>1. CASE v = t
    <3>1. thread'[t].pc \in {"enroll", "get", "post", "delete"}
      BY <1>0, <1>2, <2>1, AcceptSteps
    <3> QED
      BY <3>1 DEF Fine, At
  <2>2. CASE v # t
    BY <1>0, <1>1, <1>2, <2>2, AcceptSteps
  <2> QED
    BY <2>1, <2>2
<1>3. ASSUME NEW v \in Threads, Step(v), v # t PROVE Fine(t)'
  <2>1. thread'[t] = thread[t]
    BY <1>0, <1>3, HandlerSteps
  <2>2. ~At(t, "idle") /\ Caller(t) \notin met
    BY <1>0, <2>1 DEF At, Caller, Req
  <2>3. Caller(t) \in Subjects /\ Caller(v) \in Subjects /\ ~At(v, "idle")
    BY <1>0, <1>3, <2>2, CallerIsSubject, HandlerSteps
  <2>4. Caller(v) # Caller(t)
    BY <1>3, <2>2, <2>3 DEF Base, Separate, WorksOn
  <2> QED
    BY <1>1, <1>3, <2>1, <2>3, <2>4, Elsewhere
<1>4. ASSUME Step(t) PROVE Fine(t)'
  <2>1. Req(t)' = Req(t) /\ Caller(t)' = Caller(t) /\ ~At(t, "idle") /\ Caller(t) \notin met
    BY <1>0, <1>4, HandlerSteps DEF At, Idle, Caller
  <2>2. Fine(t) /\ Caller(t) \in Subjects /\ Req(t) \in Requests
    BY <1>0, <2>1, CallerIsSubject DEF Undisturbed
  <2>3. ASSUME At(t, "peek")' \/ At(t, "pop")' PROVE attempts'[Caller(t)] # <<>>
    BY <1>0, <1>4, <2>2, <2>3 DEF Step, ReadClock, Check, Peek, Pop, Count, Record, Enroll, Get,
       PostRole, AuditSet, ReadBack, DeleteRole, AuditDelete, GoTo, Answer, WebTypeOK, At,
       Idle, shared, Fine
  <2>4. ASSUME At(t, "audit_set")' \/ At(t, "read_back")'
        PROVE  roles'[Caller(t)] = Req(t).role /\ roles'[Caller(t)] # Nil
    <3>1. (PostRole(t) /\ roles' = SetRole(t) /\ Req(t).body = "valid") \/ AuditSet(t)
      BY <1>0, <1>4, <2>4 DEF Step, ReadClock, Check, Peek, Pop, Count, Record, Enroll, Get,
         PostRole, AuditSet, ReadBack, DeleteRole, AuditDelete, GoTo, Answer, WebTypeOK, At, Idle
    <3>2. CASE AuditSet(t)
      BY <2>2, <3>2 DEF AuditSet, Fine
    <3>3. CASE PostRole(t) /\ roles' = SetRole(t) /\ Req(t).body = "valid"
      <4>1. Req(t).role \in Roles
        BY <2>2, <3>3, RequestAssumption DEF PostRole, Base, Routed, Posting
      <4> QED
        BY <1>0, <2>2, <3>3, <4>1, ServerAssumption DEF SetRole, WebTypeOK
    <3> QED
      BY <3>1, <3>2, <3>3
  <2>5. ASSUME At(t, "not_found")' \/ At(t, "removed")' PROVE roles'[Caller(t)] = Nil
    <3>1. DeleteRole(t)
      BY <1>0, <1>4, <2>5 DEF Step, ReadClock, Check, Peek, Pop, Count, Record, Enroll, Get,
         PostRole, AuditSet, ReadBack, DeleteRole, AuditDelete, GoTo, Answer, WebTypeOK, At, Idle
    <3> QED
      BY <1>0, <2>2, <3>1 DEF DeleteRole, WebTypeOK
  <2> QED
    BY <2>1, <2>3, <2>4, <2>5 DEF Fine
<1>5. CASE Tick \/ UNCHANGED vars
  BY <1>1, <1>5 DEF Tick, vars, shared
<1> QED
  BY <1>2, <1>3, <1>4, <1>5 DEF Next

(* A role once set stays known to have been.                               *)
LEMMA StepKnown ==
  ASSUME Base, [Next]_vars, NEW s \in Subjects
  PROVE  /\ WasSet(s) => WasSet(s)'
         /\ roles[s] = Nil /\ roles'[s] # Nil => WasSet(s)'
<1>0. WebTypeOK /\ Logs
  BY DEF Base
<1>1. CASE UNCHANGED <<audit, roles, thread>>
  BY <1>1 DEF WasSet, At, Caller, Req
<1>2. ASSUME NEW v \in Threads, Accept(v)
      PROVE  /\ WasSet(s) => WasSet(s)'
             /\ roles'[s] = roles[s]
  <2>1. /\ At(v, "idle") /\ UNCHANGED <<audit, roles>>
        /\ \A u \in Threads \ {v} : thread'[u] = thread[u]
    BY <1>0, <1>2, AcceptSteps
  <2> QED
    BY <2>1 DEF WasSet, At, Caller, Req
<1>3. ASSUME NEW v \in Threads, Step(v)
      PROVE  /\ WasSet(s) => WasSet(s)'
             /\ roles[s] = Nil /\ roles'[s] # Nil => WasSet(s)'
  <2>0. /\ Caller(v) \in Subjects /\ Req(v) \in Requests
        /\ \A u \in Threads \ {v} : thread'[u] = thread[u]
    BY <1>0, <1>3, HandlerSteps
  <2>1. ASSUME NEW n \in DOMAIN audit PROVE n \in DOMAIN audit' /\ audit'[n] = audit[n]
    <3>1. CASE UNCHANGED audit
      BY <3>1
    <3>2. ASSUME NEW e, audit' = Append(audit, e) PROVE n \in DOMAIN audit' /\ audit'[n] = audit[n]
      BY <1>0, <3>2 DEF Logs
    <3> QED
      BY <1>3, <3>1, <3>2, AuditSteps DEF Audited
  <2>2. ASSUME NEW n \in DOMAIN audit, audit[n].event = "role_set", audit[n].subject = s
        PROVE  WasSet(s)'
    BY <2>1, <2>2 DEF WasSet
  <2>3. ASSUME NEW t \in Threads, At(t, "audit_set"), Caller(t) = s PROVE WasSet(s)'
    <3>1. CASE t # v
      BY <2>0, <2>3, <3>1 DEF WasSet, At, Caller, Req
    <3>2. CASE t = v
      <4>1. AuditSet(v)
        BY <1>3, <2>3, <3>2 DEF Step, ReadClock, Check, Peek, Pop, Count, Record, Enroll, Get,
           PostRole, ReadBack, DeleteRole, AuditDelete, At
      <4> DEFINE e == [event |-> "role_set", subject |-> Caller(v), req |-> Req(v)]
      <4>2. audit' = Append(audit, e) /\ e.event = "role_set" /\ e.subject = s
        BY <2>3, <3>2, <4>1 DEF AuditSet, Audited
      <4> HIDE DEF e
      <4>3. Len(audit) + 1 \in DOMAIN audit' /\ audit'[Len(audit) + 1] = e
        BY <1>0, <4>2 DEF Logs
      <4> QED
        BY <4>2, <4>3 DEF WasSet
    <3> QED
      BY <3>1, <3>2
  <2>4. ASSUME roles[s] = Nil, roles'[s] # Nil PROVE WasSet(s)'
    <3>1. PostRole(v) /\ roles' = SetRole(v) /\ GoTo(v, "audit_set")
      <4>1. PostRole(v) \/ DeleteRole(v)
        BY <1>3, <2>4 DEF Step, ReadClock, Check, Peek, Pop, Count, Record, Enroll, Get,
           AuditSet, ReadBack, AuditDelete, shared
      <4>2. ~DeleteRole(v)
        BY <1>0, <2>4 DEF DeleteRole, WebTypeOK
      <4> QED
        BY <2>4, <4>1, <4>2 DEF PostRole
    <3>2. Caller(v) = s
      BY <1>0, <2>4, <3>1 DEF SetRole, WebTypeOK
    <3>3. At(v, "audit_set")' /\ Caller(v)' = s
      BY <1>0, <3>1, <3>2 DEF GoTo, WebTypeOK, At, Caller, Req
    <3> QED
      BY <3>3 DEF WasSet
  <2> QED
    BY <2>2, <2>3, <2>4 DEF WasSet
<1>4. ASSUME Tick \/ UNCHANGED vars PROVE UNCHANGED <<audit, roles, thread>>
  BY <1>4 DEF Tick, vars, shared
<1> QED
  BY <1>1, <1>2, <1>3, <1>4 DEF Next

(* What an internal error has for a cause.                                 *)
BothSet == \E s \in Subjects \cap Numbers, u \in Subjects \ Numbers : WasSet(s) /\ WasSet(u)
Cause(r) ==
  \/ r.body \in {"not_object", "unhashable", "malformed"}
  \/ r.body = "roles" /\ BothSet
  \/ r.kind \in {"enroll", "post"} /\ r.subject \in met

(* An answer is an internal error only for such a cause.                   *)
LEMMA AnswerSteps ==
  ASSUME Base, Undisturbed, Known, NEW t \in Threads, Step(t)
  PROVE  \/ UNCHANGED answers
         \/ \E n : Answer(t, n) /\ (n = 500 => Cause(Req(t)))
<1>0. ~At(t, "idle")
  BY HandlerSteps DEF Base
<1>1. CASE Peek(t) \/ Pop(t)
  <2>1. Req(t).kind = "enroll"
    BY <1>1 DEF Peek, Pop, Base, Routed, Sifting
  <2>2. UNCHANGED answers \/ (Caller(t) \in met /\ Answer(t, 500))
    BY <1>0, <1>1 DEF Peek, Pop, Undisturbed, Fine
  <2> QED
    BY <2>1, <2>2 DEF Cause, Caller
<1>2. CASE ReadBack(t)
  <2>1. Req(t).kind = "post"
    BY <1>2 DEF ReadBack, Base, Routed, Posting
  <2>2. Answer(t, 201) \/ (Caller(t) \in met /\ Answer(t, 500))
    BY <1>0, <1>2 DEF ReadBack, Undisturbed, Fine
  <2> QED
    BY <2>1, <2>2 DEF Cause, Caller
<1>3. CASE Count(t)
  BY <1>3 DEF Count
<1>4. CASE Enroll(t)
  BY <1>4 DEF Enroll, Cause
<1>5. CASE Get(t)
  <2>1. Unsortable => BothSet
    BY DEF Unsortable, BothSet, Known
  <2> QED
    BY <1>5, <2>1 DEF Get, Cause
<1>6. CASE PostRole(t)
  BY <1>6 DEF PostRole, Cause
<1>7. CASE AuditDelete(t)
  BY <1>7 DEF AuditDelete
<1>8. CASE ReadClock(t) \/ Check(t) \/ Record(t) \/ AuditSet(t) \/ DeleteRole(t)
  BY <1>8 DEF ReadClock, Check, Record, AuditSet, DeleteRole, history
<1> QED
  BY <1>1, <1>2, <1>3, <1>4, <1>5, <1>6, <1>7, <1>8 DEF Step

(* Internal errors stay explained.                                         *)
LEMMA StepErrors ==
  Base /\ Undisturbed /\ Known /\ ErrorsHaveCause /\ [Next]_vars => Known' /\ ErrorsHaveCause'
<1> SUFFICES ASSUME Base, Undisturbed, Known, ErrorsHaveCause, [Next]_vars
             PROVE  Known' /\ ErrorsHaveCause'
  OBVIOUS
<1>1. Known'
  BY StepKnown DEF Known, Subjects
<1>2. \A r : Cause(r) => Cause(r)'
  <2>1. met \subseteq met'
    BY StepSeparate DEF Base
  <2>2. BothSet => BothSet'
    BY StepKnown DEF BothSet, Subjects
  <2> QED
    BY <2>1, <2>2 DEF Cause
<1>3. ErrorsHaveCause <=> \A r \in DOMAIN answers : answers[r] = 500 => Cause(r)
  BY DEF ErrorsHaveCause, Cause, BothSet
<1>4. ErrorsHaveCause' <=> \A r \in DOMAIN answers' : answers'[r] = 500 => Cause(r)'
  BY DEF ErrorsHaveCause, Cause, BothSet
<1>5. CASE UNCHANGED answers
  BY <1>1, <1>2, <1>3, <1>4, <1>5
<1>6. ASSUME NEW t \in Threads, Step(t) PROVE ErrorsHaveCause'
  <2>1. ASSUME NEW n, Answer(t, n), n = 500 => Cause(Req(t)) PROVE ErrorsHaveCause'
    <3>1. ASSUME NEW r \in DOMAIN answers', r # Req(t)
          PROVE  r \in DOMAIN answers /\ answers'[r] = answers[r]
      BY <2>1, <3>1 DEF Answer
    <3>2. Req(t) \in DOMAIN answers' => answers'[Req(t)] = n
      BY <2>1 DEF Answer
    <3> QED
      BY <1>2, <1>3, <1>4, <2>1, <3>1, <3>2
  <2> QED
    BY <1>2, <1>3, <1>4, <1>6, <2>1, AnswerSteps
<1>7. ASSUME (\E t \in Threads : Accept(t)) \/ Tick \/ UNCHANGED vars PROVE UNCHANGED answers
  BY <1>7 DEF Accept, Tick, vars, history
<1> QED
  BY <1>1, <1>5, <1>6, <1>7 DEF Next

(* An entry that is no change of this user's role changes nothing for the  *)
(* replay.                                                                 *)
LEMMA ReplayOther ==
  ASSUME Logs, NEW s \in Subjects, Replays(s), NEW e \in Entries, audit' = Append(audit, e),
         roles'[s] = roles[s],
         e.subject # s \/ e.event \notin {"role_set", "role_deleted"}
  PROVE  Replays(s)'
<1>1. /\ DOMAIN audit = 1..Len(audit) /\ DOMAIN audit' = 1..(Len(audit) + 1)
      /\ Len(audit) \in Nat
      /\ \A n \in 1..Len(audit) : audit'[n] = audit[n]
      /\ audit'[Len(audit) + 1] = e
  BY DEF Logs
<1>2. \A n \in DOMAIN audit' : Change(s, n)' => n \in DOMAIN audit /\ Change(s, n)
  BY <1>1 DEF Change
<1>3. \A n \in DOMAIN audit : n \in DOMAIN audit' /\ (Change(s, n) => Change(s, n)')
  BY <1>1 DEF Change
<1>4. \A n \in DOMAIN audit' : LastChange(s, n)' => n \in DOMAIN audit /\ LastChange(s, n)
  BY <1>2, <1>3 DEF LastChange
<1>5. \A n \in DOMAIN audit : Entered(n)' = Entered(n)
  BY <1>1 DEF Entered
<1>6. (\A n \in DOMAIN audit' : ~Change(s, n)') => roles'[s] = Nil
  BY <1>3 DEF Replays
<1>7. \A n \in DOMAIN audit' : LastChange(s, n)' => roles'[s] = Entered(n)'
  BY <1>4, <1>5 DEF Replays
<1> QED
  BY <1>6, <1>7 DEF Replays

(* An entry that says what the role is now is the one the replay ends on.  *)
LEMMA ReplayLast ==
  ASSUME Logs, NEW s \in Subjects, NEW e \in Entries, audit' = Append(audit, e),
         e.subject = s, e.event \in {"role_set", "role_deleted"},
         roles'[s] = IF e.event = "role_deleted" THEN Nil ELSE e.req.role
  PROVE  Replays(s)'
<1>0. Len(audit) + 1 \in Nat /\ DOMAIN audit' = 1..(Len(audit) + 1) /\ audit'[Len(audit) + 1] = e
  BY DEF Logs
<1>1. PICK last \in Nat : DOMAIN audit' = 1..last /\ last \in 1..last /\ audit'[last] = e
  BY <1>0
<1>2. last \in DOMAIN audit' /\ Change(s, last)' /\ Entered(last)' = roles'[s]
  BY <1>1 DEF Change, Entered
<1>3. \A n \in DOMAIN audit' : LastChange(s, n)' => last <= n
  BY <1>2 DEF LastChange
<1>4. \A n \in DOMAIN audit' : LastChange(s, n)' => n = last
  BY <1>1, <1>3
<1> QED
  BY <1>2, <1>4 DEF Replays

(* A thread that comes to owe an entry has given its user the role that    *)
(* the entry will say.                                                     *)
LEMMA OwesNew ==
  ASSUME Base, NEW t \in Threads, Step(t), Owes(t)', ~Owes(t)
  PROVE  roles'[Caller(t)] = Value(t)'
<1>0. Caller(t) \in Subjects /\ WebTypeOK
  BY HandlerSteps DEF Base
<1>1. (PostRole(t) /\ roles' = SetRole(t) /\ GoTo(t, "audit_set")) \/ DeleteRole(t)
  BY <1>0 DEF Step, ReadClock, Check, Peek, Pop, Count, Record, Enroll, Get, PostRole,
     AuditSet, ReadBack, DeleteRole, AuditDelete, GoTo, Answer, Idle, WebTypeOK, Owes, At
<1>2. CASE PostRole(t) /\ roles' = SetRole(t) /\ GoTo(t, "audit_set")
  <2>1. roles'[Caller(t)] = Req(t).role
    BY <1>0, <1>2 DEF SetRole, WebTypeOK
  <2>2. At(t, "audit_set")' /\ Req(t)' = Req(t)
    BY <1>0, <1>2 DEF GoTo, WebTypeOK, At, Req
  <2> QED
    BY <2>1, <2>2 DEF Value
<1>3. CASE DeleteRole(t)
  <2>1. roles'[Caller(t)] = Nil
    BY <1>0, <1>3 DEF DeleteRole, WebTypeOK
  <2>2. ~At(t, "audit_set")'
    BY <1>0, <1>3 DEF DeleteRole, GoTo, WebTypeOK, At
  <2> QED
    BY <2>1, <2>2 DEF Value
<1> QED
  BY <1>1, <1>2, <1>3

(* What a step does to the roles and to the entries.                       *)
LEMMA RoleSteps ==
  ASSUME Base, NEW t \in Threads, Step(t)
  PROVE  \/ Owes(t)' /\ ~Owes(t)
         \/ UNCHANGED <<roles, audit>> /\ ~Owes(t)
         \/ /\ ~Owes(t) /\ UNCHANGED roles
            /\ \E e \in {"enroll_rejected_zone", "enroll_granted"} : audit' = Audited(t, e)
         \/ At(t, "audit_set") /\ UNCHANGED roles /\ audit' = Audited(t, "role_set")
         \/ /\ At(t, "not_found") \/ At(t, "removed")
            /\ UNCHANGED roles /\ audit' = Audited(t, "role_deleted")
<1>1. CASE ReadClock(t) \/ Check(t) \/ Peek(t) \/ Pop(t) \/ Count(t) \/ Record(t) \/ Get(t)
             \/ ReadBack(t)
  BY <1>1 DEF ReadClock, Check, Peek, Pop, Count, Record, Get, ReadBack, shared, Owes, At
<1>2. CASE Enroll(t)
  BY <1>2 DEF Enroll, Owes, At
<1>3. CASE PostRole(t)
  BY <1>3 DEF PostRole, Owes, At, GoTo, Base, WebTypeOK
<1>4. CASE AuditSet(t)
  BY <1>4 DEF AuditSet
<1>5. CASE DeleteRole(t)
  BY <1>5 DEF DeleteRole, Owes, At, GoTo, Base, WebTypeOK
<1>6. CASE AuditDelete(t)
  BY <1>6 DEF AuditDelete
<1> QED
  BY <1>1, <1>2, <1>3, <1>4, <1>5, <1>6 DEF Step

(* Every step keeps the audit list in step with the roles.                 *)
LEMMA StepAudits == Base /\ Undisturbed /\ Audits /\ [Next]_vars => Audits'
<1> SUFFICES ASSUME Base, Undisturbed, Audits, [Next]_vars, NEW s \in Subjects, s \notin met',
                    \A t \in Threads : ~(WorksOn(t, s) /\ Owes(t))'
             PROVE  Replays(s)'
  BY DEF Audits, Subjects
<1>0. WebTypeOK /\ Logs /\ s \notin met
  BY StepSeparate DEF Base
<1>1. ASSUME NEW v \in Threads, Accept(v) PROVE Replays(s)'
  <2>1. UNCHANGED <<roles, audit>> /\ At(v, "idle")
    BY <1>0, <1>1, AcceptSteps
  <2>2. \A t \in Threads : WorksOn(t, s) /\ Owes(t) => t # v /\ (WorksOn(t, s) /\ Owes(t))'
    BY <1>0, <1>1, <2>1, AcceptSteps DEF WorksOn, Owes, At, Caller, Req
  <2>3. Replays(s)
    BY <1>0, <2>2 DEF Audits
  <2> QED
    BY <2>1, <2>3 DEF Replays, LastChange, Change, Entered
<1>2. ASSUME NEW v \in Threads, Step(v), Caller(v) # s PROVE Replays(s)'
  <2>1. \A t \in Threads : WorksOn(t, s) => thread'[t] = thread[t]
    BY <1>0, <1>2, HandlerSteps DEF WorksOn
  <2>2. \A t \in Threads : WorksOn(t, s) /\ Owes(t) => (WorksOn(t, s) /\ Owes(t))'
    BY <2>1 DEF WorksOn, Owes, At, Caller, Req
  <2>3. Replays(s)
    BY <1>0, <2>2 DEF Audits
  <2>4. roles'[s] = roles[s]
    BY <1>2, Elsewhere
  <2>5. CASE UNCHANGED audit
    BY <2>3, <2>4, <2>5 DEF Replays, LastChange, Change, Entered
  <2>6. CASE \E e \in Entries : audit' = Append(audit, e) /\ e.subject # s
    BY <1>0, <2>3, <2>4, <2>6, ReplayOther
  <2> QED
    BY <1>2, <2>5, <2>6, Elsewhere
<1>3. ASSUME NEW v \in Threads, Step(v), Caller(v) = s PROVE Replays(s)'
  <2>1. ~At(v, "idle") /\ Req(v) \in Requests /\ WorksOn(v, s)
    BY <1>0, <1>3, HandlerSteps DEF WorksOn
  <2>2. \A t \in Threads : WorksOn(t, s) => t = v
    BY <1>0, <2>1 DEF Base, Separate
  <2>3. ASSUME NEW e \in Events, audit' = Audited(v, e)
        PROVE  \E x \in Entries : /\ audit' = Append(audit, x) /\ x.event = e
                                  /\ x.subject = s /\ x.req = Req(v)
    BY <1>3, <2>1, <2>3 DEF Audited, Entries
  <2>4. CASE ~Owes(v)
    <3>1. Replays(s)
      BY <1>0, <2>2, <2>4 DEF Audits
    <3>2. CASE UNCHANGED <<roles, audit>>
      BY <3>1, <3>2 DEF Replays, LastChange, Change, Entered
    <3>3. ASSUME NEW e \in {"enroll_rejected_zone", "enroll_granted"}, audit' = Audited(v, e),
                 UNCHANGED roles
          PROVE  Replays(s)'
      <4>1. e \in Events
        BY DEF Events
      <4>2. PICK x \in Entries : audit' = Append(audit, x) /\ x.event = e
        BY <2>3, <3>3, <4>1
      <4> QED
        BY <1>0, <3>1, <3>3, <4>2, ReplayOther
    <3>4. ~Owes(v)'
      <4>1. ASSUME Owes(v)' PROVE FALSE
        <5>1. thread'[v] # Idle
          BY <4>1 DEF Owes, At, Idle
        <5>2. Req(v)' = Req(v) /\ ~At(v, "idle")'
          BY <1>0, <1>3, <4>1, <5>1, HandlerSteps DEF Owes, At
        <5> QED
          BY <1>3, <4>1, <5>2 DEF WorksOn, Caller
      <4> QED
        BY <4>1
    <3> QED
      BY <1>3, <2>4, <3>2, <3>3, <3>4, RoleSteps DEF Owes
  <2>5. CASE Owes(v)
    <3>1. Fine(v)
      BY <1>0, <1>3, <2>1 DEF Undisturbed
    <3>2. CASE At(v, "audit_set") /\ UNCHANGED roles /\ audit' = Audited(v, "role_set")
      <4>1. roles'[s] = Req(v).role
        BY <1>3, <3>1, <3>2 DEF Fine
      <4>2. PICK x \in Entries : /\ audit' = Append(audit, x) /\ x.event = "role_set"
                                 /\ x.subject = s /\ x.req = Req(v)
        BY <2>3, <3>2 DEF Events
      <4> QED
        BY <1>0, <4>1, <4>2, ReplayLast
    <3>3. CASE /\ At(v, "not_found") \/ At(v, "removed")
               /\ UNCHANGED roles /\ audit' = Audited(v, "role_deleted")
      <4>1. roles'[s] = Nil
        BY <1>3, <3>1, <3>3 DEF Fine
      <4>2. PICK x \in Entries : /\ audit' = Append(audit, x) /\ x.event = "role_deleted"
                                 /\ x.subject = s
        BY <2>3, <3>3 DEF Events
      <4> QED
        BY <1>0, <4>1, <4>2, ReplayLast
    <3> QED
      BY <1>3, <2>5, <3>2, <3>3, RoleSteps
  <2> QED
    BY <2>4, <2>5
<1>4. ASSUME Tick \/ UNCHANGED vars PROVE Replays(s)'
  <2>1. UNCHANGED <<thread, roles, audit>>
    BY <1>4 DEF Tick, vars, shared
  <2>2. \A t \in Threads : WorksOn(t, s) /\ Owes(t) => (WorksOn(t, s) /\ Owes(t))'
    BY <2>1 DEF WorksOn, Owes, At, Caller, Req
  <2>3. Replays(s)
    BY <1>0, <2>2 DEF Audits
  <2> QED
    BY <2>1, <2>3 DEF Replays, LastChange, Change, Entered
<1> QED
  BY <1>1, <1>2, <1>3, <1>4 DEF Next

(* There are finitely many entries, and threads.                           *)
LEMMA LaterFinite ==
  ASSUME Base, NEW s, NEW n
  PROVE  /\ IsFiniteSet(Later(s, n)) /\ Cardinality(Later(s, n)) \in Nat
         /\ IsFiniteSet(Owing(s)) /\ Cardinality(Owing(s)) \in Nat
         /\ Cardinality(Threads) \in Nat
<1>1. DOMAIN audit = 1..Len(audit) /\ Len(audit) \in Nat /\ 1 \in Int /\ Len(audit) \in Int
  BY DEF Base, Logs
<1>2. IsFiniteSet(DOMAIN audit)
  BY <1>1, FS_Interval
<1>3. Later(s, n) \subseteq DOMAIN audit /\ Owing(s) \subseteq Threads
  BY DEF Later, Owing
<1> QED
  BY <1>2, <1>3, FS_Subset, FS_CardinalityType, PassedFinite

(* A step that changes neither the role of a user nor its entries, those   *)
(* made and those owed.                                                    *)
LEMMA AccountOther ==
  ASSUME Base, NEW s \in Subjects, Accounted(s), roles'[s] = roles[s], Owing(s)' = Owing(s),
         \A t \in Owing(s) : Value(t)' = Value(t),
         \/ UNCHANGED audit
         \/ \E e \in Entries : /\ audit' = Append(audit, e)
                               /\ e.subject # s \/ e.event \notin {"role_set", "role_deleted"}
  PROVE  Accounted(s)'
<1>1. CASE UNCHANGED audit
  <2>1. \A n : /\ Change(s, n)' <=> Change(s, n)
              /\ Entered(n)' = Entered(n) /\ Later(s, n)' = Later(s, n)
    BY <1>1 DEF Change, Entered, Later
  <2> QED
    BY <1>1, <2>1 DEF Accounted
<1>2. ASSUME NEW e \in Entries, audit' = Append(audit, e),
             e.subject # s \/ e.event \notin {"role_set", "role_deleted"}
      PROVE  Accounted(s)'
  <2>1. PICK last \in Nat : /\ DOMAIN audit = 1..(last - 1) /\ DOMAIN audit' = 1..last
                            /\ audit'[last] = e
                            /\ \A n \in DOMAIN audit : audit'[n] = audit[n]
    <3>1. Len(audit) + 1 \in Nat /\ (Len(audit) + 1) - 1 = Len(audit)
      BY DEF Base, Logs
    <3>2. /\ DOMAIN audit = 1..Len(audit) /\ DOMAIN audit' = 1..(Len(audit) + 1)
          /\ audit'[Len(audit) + 1] = e
          /\ \A n \in DOMAIN audit : audit'[n] = audit[n]
      BY <1>2 DEF Base, Logs
    <3> QED
      BY <3>1, <3>2
  <2>2. ~Change(s, last)'
    BY <1>2, <2>1 DEF Change
  <2>3. \A n \in DOMAIN audit : n \in DOMAIN audit'
    BY <2>1
  <2>4. \A n \in DOMAIN audit' : n \in DOMAIN audit \/ n = last
    BY <2>1
  <2>5. \A n \in DOMAIN audit : (Change(s, n)' <=> Change(s, n)) /\ Entered(n)' = Entered(n)
    BY <2>1 DEF Change, Entered
  <2>6. \A n : Later(s, n)' = Later(s, n)
    BY <2>2, <2>3, <2>4, <2>5 DEF Later
  <2>7. CASE (\A n \in DOMAIN audit : ~Change(s, n)) /\ roles[s] = Nil /\ Owing(s) = {}
    BY <2>2, <2>4, <2>5, <2>7 DEF Accounted
  <2>8. CASE \E t \in Owing(s) : roles[s] = Value(t)
    BY <2>8 DEF Accounted
  <2>9. ASSUME NEW n \in DOMAIN audit, Change(s, n), roles[s] = Entered(n),
               Cardinality(Later(s, n)) + Cardinality(Owing(s)) < Cardinality(Threads)
        PROVE  Accounted(s)'
    <3>1. /\ n \in DOMAIN audit' /\ Change(s, n)' /\ roles'[s] = Entered(n)'
          /\ Cardinality(Later(s, n)') + Cardinality(Owing(s)') < Cardinality(Threads)
      BY <2>3, <2>5, <2>6, <2>9
    <3> QED
      BY <3>1 DEF Accounted
  <2> QED
    BY <2>7, <2>8, <2>9 DEF Accounted
<1> QED
  BY <1>1, <1>2

(* A step that makes an entry owed about a user.                           *)
LEMMA AccountPaid ==
  ASSUME Base, NEW s \in Subjects, Accounted(s), roles'[s] = roles[s],
         NEW v \in Owing(s), Owing(s)' = Owing(s) \ {v},
         \A t \in Owing(s) \ {v} : Value(t)' = Value(t),
         NEW e \in Entries, audit' = Append(audit, e), e.subject = s,
         e.event \in {"role_set", "role_deleted"},
         Value(v) = IF e.event = "role_deleted" THEN Nil ELSE e.req.role
  PROVE  Accounted(s)'
<1>1. PICK last \in Nat : /\ last = Len(audit) + 1 /\ DOMAIN audit = 1..(last - 1)
                          /\ DOMAIN audit' = 1..last /\ audit'[last] = e
                          /\ \A n \in DOMAIN audit : audit'[n] = audit[n]
  BY DEF Base, Logs
<1>2. /\ last \in DOMAIN audit' /\ last \notin DOMAIN audit /\ DOMAIN audit' = DOMAIN audit \cup {last}
      /\ \A n \in DOMAIN audit : n < last /\ n \in Nat
  BY <1>1
<1>3. /\ Change(s, last)' /\ Entered(last)' = Value(v)
      /\ \A n \in DOMAIN audit : (Change(s, n)' <=> Change(s, n)) /\ Entered(n)' = Entered(n)
  BY <1>1 DEF Change, Entered
<1>4. \A n : IsFiniteSet(Later(s, n)) /\ Cardinality(Later(s, n)) \in Nat
  BY LaterFinite
<1>a. IsFiniteSet(Owing(s)) /\ Cardinality(Owing(s)) \in Nat /\ Cardinality(Threads) \in Nat
  BY LaterFinite
<1>5. Cardinality(Owing(s)') = Cardinality(Owing(s)) - 1
  BY <1>a, FS_RemoveElement, ZenonT(60)
<1>6. CASE roles[s] = Value(v)
  <2>1. Later(s, last)' = {}
    BY <1>1 DEF Later
  <2>2. Cardinality(Later(s, last)') = 0
    BY <2>1, FS_EmptySet
  <2>3. Cardinality(Owing(s)) <= Cardinality(Threads)
    <3>1. Owing(s) \subseteq Threads
      BY DEF Owing
    <3> QED
      BY <3>1, PassedFinite
  <2>4. Cardinality(Later(s, last)') + Cardinality(Owing(s)') < Cardinality(Threads)
    BY <1>a, <1>5, <2>2, <2>3
  <2> QED
    BY <1>2, <1>3, <1>6, <2>4 DEF Accounted
<1>7. ASSUME NEW t \in Owing(s), t # v, roles[s] = Value(t) PROVE Accounted(s)'
  BY <1>7 DEF Accounted
<1>8. ASSUME NEW n \in DOMAIN audit, Change(s, n), roles[s] = Entered(n),
             Cardinality(Later(s, n)) + Cardinality(Owing(s)) < Cardinality(Threads)
      PROVE  Accounted(s)'
  <2>1. Later(s, n)' = Later(s, n) \cup {last} /\ last \notin Later(s, n)
    BY <1>2, <1>3, <1>8 DEF Later
  <2>2. Cardinality(Later(s, n)') = Cardinality(Later(s, n)) + 1
    BY <1>4, <2>1, FS_AddElement
  <2>3. Cardinality(Later(s, n)') + Cardinality(Owing(s)') < Cardinality(Threads)
    BY <1>4, <1>a, <1>5, <1>8, <2>2
  <2> QED
    BY <1>2, <1>3, <1>8, <2>3 DEF Accounted
<1> QED
  BY <1>6, <1>7, <1>8 DEF Accounted

(* Every step keeps the role held accounted for.                           *)
LEMMA StepAccounts == Base /\ Accounts /\ [Next]_vars => Accounts'
<1> SUFFICES ASSUME Base, Accounts, [Next]_vars, NEW s \in Subjects
             PROVE  Accounted(s)'
  BY DEF Accounts, Subjects
<1>0. WebTypeOK /\ Accounted(s)
  BY DEF Base, Accounts
<1>1. ASSUME NEW v \in Threads, Accept(v) PROVE Accounted(s)'
  <2>1. /\ UNCHANGED <<roles, audit>> /\ At(v, "idle") /\ ~Owes(v)'
        /\ \A t \in Threads \ {v} : thread'[t] = thread[t]
    BY <1>0, <1>1, AcceptSteps DEF Owes, At
  <2>2. Owing(s)' = Owing(s) /\ \A t \in Owing(s) : Value(t)' = Value(t)
    BY <2>1 DEF Owing, Owes, WorksOn, Value, At, Caller, Req
  <2> QED
    BY <1>0, <2>1, <2>2, AccountOther
<1>2. ASSUME NEW v \in Threads, Step(v), Caller(v) # s PROVE Accounted(s)'
  <2>1. /\ \A t \in Threads \ {v} : thread'[t] = thread[t]
        /\ roles'[s] = roles[s] /\ ~WorksOn(v, s) /\ ~WorksOn(v, s)'
        /\ (UNCHANGED audit) \/ \E e \in Entries : audit' = Append(audit, e) /\ e.subject # s
    BY <1>0, <1>2, HandlerSteps, Elsewhere DEF WorksOn
  <2>2. Owing(s)' = Owing(s) /\ \A t \in Owing(s) : Value(t)' = Value(t)
    BY <2>1 DEF Owing, Owes, WorksOn, Value, At, Caller, Req
  <2> QED
    BY <1>0, <2>1, <2>2, AccountOther
<1>3. ASSUME NEW v \in Threads, Step(v), Caller(v) = s PROVE Accounted(s)'
  <2>1. /\ \A t \in Threads \ {v} : thread'[t] = thread[t]
        /\ ~At(v, "idle") /\ Req(v) \in Requests /\ WorksOn(v, s)
        /\ thread'[v] = Idle \/ Req(v)' = Req(v)
    BY <1>0, <1>3, HandlerSteps DEF WorksOn
  <2>2. \A t \in Threads \ {v} : /\ t \in Owing(s)' <=> t \in Owing(s)
                                 /\ Value(t)' = Value(t)
    BY <2>1 DEF Owing, Owes, WorksOn, Value, At, Caller, Req
  <2>3. ASSUME NEW e \in Events, audit' = Audited(v, e)
        PROVE  \E x \in Entries : /\ audit' = Append(audit, x) /\ x.event = e
                                  /\ x.subject = s /\ x.req = Req(v)
    BY <1>3, <2>1, <2>3 DEF Audited, Entries
  <2>4. CASE Owes(v)' /\ ~Owes(v) /\ roles'[Caller(v)] = Value(v)'
    <3>1. v \in Owing(s)'
      <4>1. Req(v)' = Req(v) /\ ~At(v, "idle")'
        BY <2>1, <2>4 DEF Owes, At, Idle
      <4> QED
        BY <1>3, <2>4, <4>1 DEF Owing, WorksOn, Caller
    <3> QED
      BY <1>3, <2>4, <3>1 DEF Accounted
  <2>5. ASSUME ~Owes(v), ~Owes(v)'
        PROVE  Owing(s)' = Owing(s) /\ \A t \in Owing(s) : Value(t)' = Value(t)
    BY <2>2, <2>5 DEF Owing
  <2>6. CASE ~Owes(v)' /\ UNCHANGED <<roles, audit>> /\ ~Owes(v)
    BY <1>0, <2>5, <2>6, AccountOther
  <2>7. ASSUME ~Owes(v), ~Owes(v)', UNCHANGED roles,
               NEW e \in {"enroll_rejected_zone", "enroll_granted"}, audit' = Audited(v, e)
        PROVE  Accounted(s)'
    <3>1. PICK x \in Entries : audit' = Append(audit, x) /\ x.event = e
      BY <2>3, <2>7 DEF Events
    <3>2. x.event \notin {"role_set", "role_deleted"}
      BY <2>7, <3>1
    <3> QED
      BY <1>0, <2>5, <2>7, <3>1, <3>2, AccountOther
  <2>8. ASSUME Owes(v), UNCHANGED roles, NEW e \in {"role_set", "role_deleted"},
               audit' = Audited(v, e), (e = "role_set") <=> At(v, "audit_set")
        PROVE  Accounted(s)'
    <3>1. PICK x \in Entries : /\ audit' = Append(audit, x) /\ x.event = e
                               /\ x.subject = s /\ x.req = Req(v)
      BY <2>3, <2>8 DEF Events
    <3>2. Value(v) = IF x.event = "role_deleted" THEN Nil ELSE x.req.role
      BY <2>8, <3>1 DEF Value
    <3>3. ~Owes(v)'
      BY <1>0, <1>3, <2>8 DEF Step, ReadClock, Check, Peek, Pop, Count, Record, Enroll, Get,
         PostRole, AuditSet, ReadBack, DeleteRole, AuditDelete, GoTo, Answer, Idle, WebTypeOK,
         Owes, At
    <3>4. v \in Owing(s) /\ Owing(s)' = Owing(s) \ {v}
      BY <2>1, <2>2, <2>8, <3>3 DEF Owing
    <3>5. \A t \in Owing(s) \ {v} : Value(t)' = Value(t)
      BY <2>2 DEF Owing
    <3> QED
      BY <1>0, <2>8, <3>1, <3>2, <3>4, <3>5, AccountPaid
  <2>9. (Owes(v)' /\ ~Owes(v)) \/ ~Owes(v)'
    BY <1>0, <1>3 DEF Step, ReadClock, Check, Peek, Pop, Count, Record, Enroll, Get,
       PostRole, AuditSet, ReadBack, DeleteRole, AuditDelete, GoTo, Answer, Idle, WebTypeOK,
       Owes, At
  <2>10. CASE ~Owes(v)'
    <3>1. CASE UNCHANGED <<roles, audit>> /\ ~Owes(v)
      BY <2>6, <2>10, <3>1
    <3>2. CASE /\ ~Owes(v) /\ UNCHANGED roles
               /\ \E e \in {"enroll_rejected_zone", "enroll_granted"} : audit' = Audited(v, e)
      BY <2>7, <2>10, <3>2
    <3>3. CASE At(v, "audit_set") /\ UNCHANGED roles /\ audit' = Audited(v, "role_set")
      BY <2>8, <3>3 DEF Owes
    <3>4. CASE /\ At(v, "not_found") \/ At(v, "removed")
               /\ UNCHANGED roles /\ audit' = Audited(v, "role_deleted")
      <4>1. Owes(v) /\ ~At(v, "audit_set")
        BY <3>4 DEF Owes, At
      <4> QED
        BY <2>8, <3>4, <4>1
    <3> QED
      BY <1>3, <2>10, <3>1, <3>2, <3>3, <3>4, RoleSteps
  <2>11. CASE Owes(v)' /\ ~Owes(v)
    <3>1. roles'[Caller(v)] = Value(v)'
      BY <1>3, <2>11, OwesNew
    <3> QED
      BY <2>4, <2>11, <3>1
  <2> QED
    BY <2>9, <2>10, <2>11
<1>4. CASE Tick \/ UNCHANGED vars
  <2>1. UNCHANGED <<thread, roles, audit>>
    BY <1>4 DEF Tick, vars, shared
  <2>2. Owing(s)' = Owing(s) /\ \A t \in Owing(s) : Value(t)' = Value(t)
    BY <2>1 DEF Owing, Owes, WorksOn, Value, At, Caller, Req
  <2> QED
    BY <1>0, <2>1, <2>2, AccountOther
<1> QED
  BY <1>1, <1>2, <1>3, <1>4 DEF Next

(* The times at which a subject is judged never go back.                   *)
Onward(s) ==
  /\ clock \in Nat /\ clock' \in Nat /\ clock <= clock'
  /\ \A t \in Threads : (WorksOn(t, s) /\ Limiting(t))' =>
       \/ thread'[t].now = clock
       \/ WorksOn(t, s) /\ Limiting(t) /\ thread'[t].now = thread[t].now

(* Every step goes onward, and no thread is ahead of the clock.            *)
LEMMA StepOnward ==
  ASSUME WebTypeOK, WebTypeOK', Clocks, [Next]_vars
  PROVE  Clocks' /\ \A s \in Subjects : Onward(s)
<1>0. clock \in Nat /\ clock' \in Nat /\ \A t \in Threads : thread[t].now \in Nat
  BY DEF WebTypeOK
<1> SUFFICES ASSUME NEW t \in Threads
             PROVE  /\ clock <= clock' /\ thread'[t].now <= clock'
                    /\ \A s \in Subjects : (WorksOn(t, s) /\ Limiting(t))' =>
                         \/ thread'[t].now = clock
                         \/ WorksOn(t, s) /\ Limiting(t) /\ thread'[t].now = thread[t].now
  BY <1>0, ServerAssumption DEF Clocks, Onward
<1>1. CASE thread'[t] = thread[t] /\ clock <= clock'
  BY <1>0, <1>1 DEF Clocks, WorksOn, Limiting, At, Caller, Req
<1>2. ASSUME NEW v \in Threads, Accept(v), UNCHANGED clock
      PROVE  \/ thread'[t] = thread[t]
             \/ thread'[t].now = 0 /\ ~Limiting(t)'
  <2>1. CASE v = t
    <3>1. ~Limiting(t)'
      BY <1>2, <2>1, AcceptSteps DEF Limiting, At
    <3>2. thread'[t].now = 0
      BY <1>2, <2>1 DEF Accept, WebTypeOK
    <3> QED
      BY <3>1, <3>2
  <2>2. CASE v # t
    BY <1>2, <2>2, AcceptSteps
  <2> QED
    BY <2>1, <2>2
<1>3. ASSUME Step(t), UNCHANGED clock
      PROVE  \/ ~Limiting(t)' /\ thread'[t].now \in {0, thread[t].now}
             \/ thread'[t].now = clock
             \/ Limiting(t) /\ Req(t)' = Req(t) /\ thread'[t].now = thread[t].now
  BY <1>3 DEF Step, ReadClock, Check, Peek, Pop, Count, Record, Enroll, Get, PostRole,
     AuditSet, ReadBack, DeleteRole, AuditDelete, GoTo, Answer, WebTypeOK, At, Req, Idle, Limiting
<1>4. ASSUME NEW v \in Threads, Step(v), v # t PROVE thread'[t] = thread[t]
  BY <1>4, HandlerSteps
<1>5. ASSUME Tick \/ UNCHANGED vars PROVE thread'[t] = thread[t] /\ clock <= clock'
  BY <1>0, <1>5 DEF Tick, vars
<1>6. CASE Step(t) /\ UNCHANGED clock
  <2>1. thread[t].now <= clock /\ ~At(t, "idle")
    BY <1>6, HandlerSteps DEF Clocks
  <2> QED
    BY <1>0, <1>3, <1>6, <2>1 DEF WorksOn, Caller, Limiting, At
<1>7. ASSUME NEW v \in Threads, Accept(v), UNCHANGED clock
      PROVE  /\ clock <= clock' /\ thread'[t].now <= clock'
             /\ \A s \in Subjects : (WorksOn(t, s) /\ Limiting(t))' =>
                  \/ thread'[t].now = clock
                  \/ WorksOn(t, s) /\ Limiting(t) /\ thread'[t].now = thread[t].now
  BY <1>0, <1>1, <1>2, <1>7
<1>8. ASSUME NEW v \in Threads, Step(v), UNCHANGED clock, v # t
      PROVE  thread'[t] = thread[t] /\ clock <= clock'
  BY <1>0, <1>4, <1>8
<1> QED
  BY <1>1, <1>5, <1>6, <1>7, <1>8 DEF Next

(* What is past stays past.                                                *)
LEMMA PastKept ==
  ASSUME NEW s \in Subjects, NEW x \in Nat, Past(s, x), Onward(s), WebTypeOK
  PROVE  Past(s, x)'
<1>1. x <= clock /\ x <= clock'
  BY DEF Past, Onward
<1>2. ASSUME NEW t \in Threads, (WorksOn(t, s) /\ Limiting(t))' PROVE x <= thread'[t].now
  BY <1>1, <1>2 DEF Past, Onward
<1> QED
  BY <1>1, <1>2 DEF Past

(* A deque stays explained by the decisions while nothing of its subject   *)
(* is decided in its favour.                                               *)
LEMMA TrackedKept ==
  ASSUME NEW s \in Subjects, NEW d, Tracked(s, d), Onward(s), WebTypeOK, Logs,
         \/ UNCHANGED decided
         \/ \E x \in Decisions : /\ decided' = Append(decided, x)
                                 /\ ~(x.caller = s /\ x.admitted)
  PROVE  Tracked(s, d)'
<1>1. Ordered(s, d)'
  <2>1. d \in Seq(Nat) /\ \A i \in 1..Len(d) : d[i] \in Nat /\ Past(s, d[i])
    BY DEF Tracked, Ordered
  <2>2. \A i \in 1..Len(d) : Past(s, d[i])'
    BY <2>1, PastKept
  <2> QED
    BY <2>2 DEF Tracked, Ordered
<1>2. PICK f \in [1..Len(d) -> 1..Len(decided)] : Placed(s, d, f)
  BY DEF Tracked
<1> DEFINE Carried ==
      /\ Len(decided) \in Nat /\ Len(decided') \in Nat
      /\ \A m \in 1..Len(decided) :
           m \in 1..Len(decided') /\ decided'[m] = decided[m] /\ decided[m].now \in Nat
      /\ \A m \in 1..Len(decided') : Counted(s, m)' => m \in 1..Len(decided)
<1>3. Carried
  <2>0. \A m \in 1..Len(decided) : decided[m] \in Decisions
    BY DEF Logs
  <2>1. \A m \in 1..Len(decided) : decided[m].now \in Nat
    BY <2>0 DEF Decisions
  <2>2. CASE UNCHANGED decided
    BY <2>1, <2>2 DEF Logs
  <2>3. ASSUME NEW x \in Decisions, decided' = Append(decided, x), ~(x.caller = s /\ x.admitted)
        PROVE  Carried
    <3>1. /\ Len(decided) \in Nat /\ Len(decided') = Len(decided) + 1
          /\ \A m \in 1..Len(decided) : decided'[m] = decided[m]
          /\ decided'[Len(decided) + 1] = x
      BY <2>3 DEF Logs
    <3>2. \A m \in 1..Len(decided') : Counted(s, m)' => m # Len(decided) + 1
      BY <2>3, <3>1 DEF Counted
    <3> QED
      BY <2>1, <3>1, <3>2
  <2> QED
    BY <2>2, <2>3
<1>4. f \in [1..Len(d) -> 1..Len(decided')]
  BY <1>3
<1>5. \A m \in 1..Len(decided) : Counted(s, m)' <=> Counted(s, m)
  BY <1>3 DEF Counted
<1>6. Placed(s, d, f)'
  <2>1. \A i \in 1..Len(d) : Counted(s, f[i])' /\ d[i] = decided'[f[i]].now
    BY <1>2, <1>3, <1>5 DEF Placed
  <2>2. ENROLL_WINDOW_SECONDS \in Nat
    BY ServerAssumption
  <2>3. ASSUME NEW m \in 1..Len(decided'), Counted(s, m)'
        PROVE  \/ \E i \in 1..Len(d) : f[i] = m
               \/ Past(s, decided[m].now + ENROLL_WINDOW_SECONDS)'
    <3>1. m \in 1..Len(decided) /\ Counted(s, m) /\ decided'[m] = decided[m]
          /\ decided[m].now + ENROLL_WINDOW_SECONDS \in Nat
      BY <1>3, <1>5, <2>2, <2>3
    <3>2. PICK y \in Nat : y = decided[m].now + ENROLL_WINDOW_SECONDS
      BY <3>1
    <3>3. (\E i \in 1..Len(d) : f[i] = m) \/ Past(s, y)
      BY <1>2, <3>1, <3>2 DEF Placed
    <3>4. Past(s, y) => Past(s, y)'
      BY PastKept
    <3>5. y = (decided[m].now + ENROLL_WINDOW_SECONDS)'
      BY <3>1, <3>2
    <3> QED
      BY <3>3, <3>4, <3>5 DEF Past
  <2> QED
    BY <1>2, <2>1, <2>3 DEF Placed
<1> QED
  BY <1>1, <1>4, <1>6 DEF Tracked

(* Every step leaves the first attempt to the thread that looked at it.    *)
LEMMA StepSifted == Base /\ Sifted /\ [Next]_vars => Sifted'
<1> SUFFICES ASSUME Base, Sifted, [Next]_vars, NEW t \in Threads,
                    ~At(t, "idle")', Caller(t)' \notin met'
             PROVE  Found(t)'
  BY DEF Sifted
<1>0. WebTypeOK /\ met \subseteq met'
  BY StepSeparate DEF Base
<1>1. ASSUME thread'[t] = thread[t], attempts'[Caller(t)] = attempts[Caller(t)]
      PROVE  Found(t)'
  <2>1. Caller(t)' = Caller(t) /\ \A pc : At(t, pc)' <=> At(t, pc)
    BY <1>1 DEF Caller, Req, At
  <2>2. Found(t)
    BY <1>0, <2>1 DEF Sifted
  <2> QED
    BY <1>1, <2>1, <2>2 DEF Found, Old
<1>2. ASSUME NEW v \in Threads, Accept(v) PROVE Found(t)'
  <2>1. CASE v = t
    <3>1. thread'[t].pc \in {"enroll", "get", "post", "delete"}
      BY <1>0, <1>2, <2>1, AcceptSteps
    <3> QED
      BY <3>1 DEF Found, At
  <2>2. CASE v # t
    BY <1>0, <1>1, <1>2, <2>2, AcceptSteps
  <2> QED
    BY <2>1, <2>2
<1>3. ASSUME NEW v \in Threads, Step(v), v # t PROVE Found(t)'
  <2>1. thread'[t] = thread[t]
    BY <1>0, <1>3, HandlerSteps
  <2>2. ~At(t, "idle") /\ Caller(t) \notin met
    BY <1>0, <2>1 DEF At, Caller, Req
  <2>3. Caller(t) \in Subjects /\ Caller(v) \in Subjects /\ ~At(v, "idle")
    BY <1>0, <1>3, <2>2, CallerIsSubject, HandlerSteps
  <2>4. Caller(v) # Caller(t)
    BY <1>3, <2>2, <2>3 DEF Base, Separate, WorksOn
  <2> QED
    BY <1>1, <1>3, <2>1, <2>3, <2>4, Elsewhere
<1>4. ASSUME Step(t) PROVE Found(t)'
  <2>1. Caller(t)' = Caller(t)
    BY <1>0, <1>4, HandlerSteps DEF At, Idle, Caller
  <2>2. CASE ~At(t, "pop")' /\ ~At(t, "count")'
    BY <2>2 DEF Found
  <2>3. CASE At(t, "pop")' \/ At(t, "count")'
    <3>1. Check(t) \/ Peek(t)
      BY <1>0, <1>4, <2>3 DEF Step, ReadClock, Check, Peek, Pop, Count, Record, Enroll, Get,
         PostRole, AuditSet, ReadBack, DeleteRole, AuditDelete, GoTo, Answer, WebTypeOK, At, Idle
    <3>2. UNCHANGED attempts /\ thread'[t].now = thread[t].now
      BY <1>0, <2>3, <3>1 DEF Check, Peek, GoTo, Answer, Idle, At, shared, WebTypeOK
    <3>3. At(t, "pop")' => Old(thread[t].now, Head(attempts[Caller(t)]))
      BY <1>0, <3>1 DEF Check, Peek, GoTo, Answer, Idle, At, WebTypeOK
    <3>4. At(t, "count")' /\ attempts[Caller(t)] # <<>>
            => ~Old(thread[t].now, Head(attempts[Caller(t)]))
      BY <1>0, <3>1 DEF Check, Peek, GoTo, Answer, Idle, At, WebTypeOK
    <3> QED
      BY <2>1, <3>2, <3>3, <3>4 DEF Found, Old
  <2> QED
    BY <2>2, <2>3
<1>5. CASE Tick \/ UNCHANGED vars
  BY <1>1, <1>5 DEF Tick, vars, shared
<1> QED
  BY <1>2, <1>3, <1>4, <1>5 DEF Next

(* An attempt dropped from the front was old, and stays so.                *)
LEMMA TrackedPop ==
  ASSUME Base, Clocks, Sifted, NEW t \in Threads, Pop(t), NEW s \in Subjects \ met,
         Caller(t) = s, NEW d, d = attempts[s], d # <<>>, Tracked(s, d)
  PROVE  Tracked(s, Tail(d))
<1>0. /\ d \in Seq(Nat) /\ Len(d) \in Nat /\ Len(d) >= 1 /\ Tail(d) \in Seq(Nat)
      /\ Len(Tail(d)) = Len(d) - 1 /\ Head(d) = d[1]
      /\ \A i \in 1..(Len(d) - 1) : Tail(d)[i] = d[i + 1]
  BY DEF Tracked, Ordered
<1>1. ~At(t, "idle") /\ WorksOn(t, s) /\ At(t, "pop")
  BY DEF Pop, At, WorksOn
<1>2. \A u \in Threads : WorksOn(u, s) => u = t
  BY <1>1 DEF Base, Separate
<1>3. PICK f \in [1..Len(d) -> 1..Len(decided)] : Placed(s, d, f)
  BY DEF Tracked
<1>4. Ordered(s, Tail(d))
  <2>1. \A i \in 1..Len(Tail(d)) : i + 1 \in 1..Len(d) /\ Tail(d)[i] = d[i + 1]
    BY <1>0
  <2>2. \A i \in 1..Len(Tail(d)) : Past(s, Tail(d)[i])
    BY <2>1 DEF Tracked, Ordered
  <2>3. ASSUME NEW i \in 1..Len(Tail(d)), NEW j \in 1..Len(Tail(d)), i <= j
        PROVE  Tail(d)[i] <= Tail(d)[j]
    <3>1. i + 1 <= j + 1
      BY <2>3
    <3> QED
      BY <2>1, <3>1 DEF Tracked, Ordered
  <2> QED
    BY <1>0, <2>2, <2>3 DEF Ordered
<1>5. Past(s, d[1] + ENROLL_WINDOW_SECONDS)
  <2>1. Old(thread[t].now, d[1])
    BY <1>0, <1>1 DEF Sifted, Found
  <2>2. thread[t].now <= clock /\ thread[t].now \in Nat /\ clock \in Nat
    BY DEF Clocks, Base, WebTypeOK
  <2>3. d[1] \in Nat /\ ENROLL_WINDOW_SECONDS \in Nat
    BY <1>0, ServerAssumption
  <2>4. d[1] + ENROLL_WINDOW_SECONDS <= thread[t].now
    BY <2>1, <2>2, <2>3 DEF Old
  <2>5. d[1] + ENROLL_WINDOW_SECONDS <= clock
    BY <2>2, <2>3, <2>4
  <2> QED
    BY <1>2, <2>4, <2>5 DEF Past
<1> DEFINE g == [i \in 1..(Len(d) - 1) |-> f[i + 1]]
<1>6. g \in [1..Len(Tail(d)) -> 1..Len(decided)]
  BY <1>0
<1>7. Placed(s, Tail(d), g)
  <2>1. \A i, j \in 1..Len(Tail(d)) : g[i] = g[j] => i = j
    <3> SUFFICES ASSUME NEW i \in 1..(Len(d) - 1), NEW j \in 1..(Len(d) - 1), g[i] = g[j]
                 PROVE  i = j
      BY <1>0
    <3>1. i + 1 \in 1..Len(d) /\ j + 1 \in 1..Len(d) /\ f[i + 1] = f[j + 1]
      BY <1>0
    <3>2. i + 1 = j + 1
      BY <1>3, <3>1 DEF Placed
    <3> QED
      BY <3>2
  <2>2. \A i \in 1..Len(Tail(d)) : Counted(s, g[i]) /\ Tail(d)[i] = decided[g[i]].now
    <3> SUFFICES ASSUME NEW i \in 1..(Len(d) - 1)
                 PROVE  Counted(s, g[i]) /\ Tail(d)[i] = decided[g[i]].now
      BY <1>0
    <3>1. i + 1 \in 1..Len(d) /\ g[i] = f[i + 1] /\ Tail(d)[i] = d[i + 1]
      BY <1>0
    <3> QED
      BY <1>3, <3>1 DEF Placed
  <2>3. ASSUME NEW m \in 1..Len(decided), Counted(s, m)
        PROVE  \/ \E i \in 1..Len(Tail(d)) : g[i] = m
               \/ Past(s, decided[m].now + ENROLL_WINDOW_SECONDS)
    <3>1. CASE \E i \in 1..Len(d) : f[i] = m
      <4>1. PICK i \in 1..Len(d) : f[i] = m
        BY <3>1
      <4>2. CASE i = 1
        BY <1>3, <1>5, <4>1, <4>2 DEF Placed
      <4>3. CASE i # 1
        <5>1. i - 1 \in 1..Len(Tail(d)) /\ g[i - 1] = m
          BY <1>0, <4>1, <4>3
        <5> QED
          BY <5>1
      <4> QED
        BY <4>2, <4>3
    <3> QED
      BY <1>3, <2>3, <3>1 DEF Placed
  <2> QED
    BY <2>1, <2>2, <2>3 DEF Placed
<1> QED
  BY <1>4, <1>6, <1>7 DEF Tracked

(* An attempt let through is the latest of its subject.                    *)
LEMMA TrackedAdmit ==
  ASSUME Base, Clocks, NEW s \in Subjects \ met, Onward(s), NEW t \in Threads, Count(t),
         ~Full(Caller(t)), Caller(t) = s, NEW d, Tracked(s, d), NEW now, now = thread[t].now
  PROVE  Tracked(s, Append(d, now))'
<1>0. /\ d \in Seq(Nat) /\ Len(d) \in Nat /\ \A i \in 1..Len(d) : d[i] \in Nat
      /\ now \in Nat /\ now <= clock /\ clock \in Nat /\ clock' \in Nat /\ clock <= clock'
  BY DEF Tracked, Ordered, Base, WebTypeOK, Clocks, Onward
<1>1. PICK e : e = Append(d, now)
  OBVIOUS
<1>2. /\ e \in Seq(Nat) /\ Len(e) = Len(d) + 1 /\ e[Len(d) + 1] = now
      /\ \A i \in 1..Len(d) : e[i] = d[i]
  BY <1>0, <1>1
<1>3. ~At(t, "idle") /\ WorksOn(t, s) /\ At(t, "count") /\ Limiting(t)
  BY DEF Count, At, WorksOn, Limiting
<1>4. At(t, "append")'
  BY DEF Count, Full, GoTo, At, Base, WebTypeOK
<1>5. \A u \in Threads : ~(WorksOn(u, s) /\ Limiting(u))'
  <2>1. ASSUME NEW u \in Threads, u # t, (WorksOn(u, s))' PROVE FALSE
    <3>1. thread'[u] = thread[u]
      BY <2>1 DEF Count, Full, GoTo, Base, WebTypeOK
    <3>2. WorksOn(u, s)
      BY <2>1, <3>1 DEF WorksOn, At, Caller, Req
    <3> QED
      BY <1>3, <2>1, <3>2 DEF Base, Separate
  <2>2. ~Limiting(t)'
    BY <1>4 DEF Limiting, At
  <2> QED
    BY <2>1, <2>2
<1>6. ASSUME NEW x \in Nat, Past(s, x) \/ x <= clock PROVE Past(s, x)'
  BY <1>0, <1>5, <1>6 DEF Past
<1>7. Ordered(s, e)'
  <2>1. \A i \in 1..Len(d) : d[i] <= now /\ Past(s, d[i])
    BY <1>3 DEF Tracked, Ordered, Past
  <2>2. \A i \in 1..Len(e) : i \in 1..Len(d) \/ i = Len(d) + 1
    BY <1>0, <1>2
  <2>3. \A i \in 1..Len(e) : e[i] \in Nat /\ (Past(s, e[i]) \/ e[i] <= clock)
    BY <1>0, <1>2, <2>1, <2>2
  <2>4. \A i \in 1..Len(e) : Past(s, e[i])'
    BY <1>6, <2>3
  <2>5. ASSUME NEW i \in 1..Len(e), NEW j \in 1..Len(e), i <= j PROVE e[i] <= e[j]
    <3>1. CASE j \in 1..Len(d)
      <4>1. i \in 1..Len(d)
        BY <1>0, <2>2, <2>5, <3>1
      <4>2. d[i] <= d[j] /\ e[i] = d[i] /\ e[j] = d[j]
        BY <1>2, <2>5, <3>1, <4>1 DEF Tracked, Ordered
      <4> QED
        BY <4>2
    <3>2. CASE j = Len(d) + 1
      <4>1. e[j] = now
        BY <1>2, <3>2
      <4>2. CASE i \in 1..Len(d)
        BY <1>2, <2>1, <4>1, <4>2
      <4>3. CASE i = Len(d) + 1
        <5>1. e[i] = now /\ now <= now
          BY <1>0, <1>2, <4>3
        <5> QED
          BY <4>1, <5>1
      <4> QED
        BY <2>2, <4>2, <4>3
    <3> QED
      BY <2>2, <3>1, <3>2
  <2> QED
    BY <1>2, <2>4, <2>5 DEF Ordered
<1>8. PICK f \in [1..Len(d) -> 1..Len(decided)] : Placed(s, d, f)
  BY DEF Tracked
<1>9. PICK last \in Nat : /\ last = Len(decided) + 1 /\ Len(decided) \in Nat
                          /\ Len(decided') = last
                          /\ Counted(s, last)' /\ decided'[last].now = now
                          /\ \A m \in 1..Len(decided) : decided'[m] = decided[m]
  <2> DEFINE x == [caller |-> Caller(t), now |-> thread[t].now, admitted |-> ~Full(Caller(t))]
  <2>1. decided' = Append(decided, x) /\ x.caller = s /\ x.now = now /\ x.admitted
    BY DEF Count
  <2> HIDE DEF x
  <2>2. PICK n \in Nat : n = Len(decided) + 1 /\ Len(decided) \in Nat
    BY DEF Base, Logs
  <2>3. Len(decided') = n /\ decided'[n] = x /\ \A m \in 1..Len(decided) : decided'[m] = decided[m]
    BY <2>1, <2>2 DEF Base, Logs
  <2>4. Counted(s, n)'
    BY <2>1, <2>3 DEF Counted
  <2> QED
    BY <2>1, <2>2, <2>3, <2>4
<1> DEFINE g == [i \in 1..(Len(d) + 1) |-> IF i = Len(d) + 1 THEN last ELSE f[i]]
<1>10. PICK h \in [1..Len(e) -> 1..Len(decided')] :
         /\ h[Len(d) + 1] = last
         /\ \A i \in 1..Len(d) : h[i] = f[i] /\ f[i] \in 1..Len(decided)
  <2>1. \A i \in 1..Len(d) : f[i] \in 1..Len(decided) /\ i # Len(d) + 1
    BY <1>0
  <2>2. \A i \in 1..(Len(d) + 1) : i \in 1..Len(d) \/ i = Len(d) + 1
    BY <1>0
  <2>3. 1..Len(decided) \subseteq 1..Len(decided') /\ last \in 1..Len(decided')
    BY <1>9
  <2>4. g \in [1..(Len(d) + 1) -> 1..Len(decided')]
    BY <2>1, <2>2, <2>3
  <2>5. Len(d) + 1 \in 1..(Len(d) + 1) /\ 1..Len(d) \subseteq 1..(Len(d) + 1)
    BY <1>0
  <2>6. g[Len(d) + 1] = last /\ \A i \in 1..Len(d) : g[i] = f[i]
    BY <2>1, <2>5
  <2> HIDE DEF g
  <2> QED
    BY <1>2, <2>1, <2>4, <2>6
<1>11. \A m \in 1..Len(decided) : /\ Counted(s, m)' <=> Counted(s, m)
                                  /\ decided[m].now + ENROLL_WINDOW_SECONDS \in Nat
  <2>1. \A m \in 1..Len(decided) : decided[m] \in Decisions
    BY DEF Base, Logs
  <2> QED
    BY <1>9, <2>1, ServerAssumption DEF Counted, Decisions
<1>12. \A i \in 1..Len(e) : i \in 1..Len(d) \/ i = Len(d) + 1
  BY <1>0, <1>2
<1>13. Placed(s, e, h)'
  <2>0. \A i \in 1..Len(d) : h[i] # last
    BY <1>9, <1>10
  <2>1. ASSUME NEW i \in 1..Len(e), NEW j \in 1..Len(e), h[i] = h[j] PROVE i = j
    <3>1. CASE i \in 1..Len(d) /\ j \in 1..Len(d)
      <4>1. f[i] = f[j]
        BY <1>10, <2>1, <3>1
      <4> QED
        BY <1>8, <3>1, <4>1 DEF Placed
    <3> QED
      BY <1>10, <1>12, <2>0, <2>1, <3>1
  <2>2. \A i \in 1..Len(e) : Counted(s, h[i])' /\ e[i] = decided'[h[i]].now
    <3> SUFFICES ASSUME NEW i \in 1..Len(e)
                 PROVE  Counted(s, h[i])' /\ e[i] = decided'[h[i]].now
      OBVIOUS
    <3>1. CASE i = Len(d) + 1
      BY <1>2, <1>9, <1>10, <3>1
    <3>2. CASE i \in 1..Len(d)
      BY <1>2, <1>8, <1>9, <1>10, <1>11, <3>2, ZenonT(60) DEF Placed
    <3> QED
      BY <1>12, <3>1, <3>2
  <2>3. ASSUME NEW m \in 1..Len(decided'), Counted(s, m)'
        PROVE  \/ \E i \in 1..Len(e) : h[i] = m
               \/ Past(s, decided[m].now + ENROLL_WINDOW_SECONDS)'
    <3>1. CASE m = last
      <4>1. Len(d) + 1 \in 1..Len(e)
        BY <1>0, <1>2
      <4> QED
        BY <1>10, <3>1, <4>1
    <3>2. CASE m \in 1..Len(decided)
      <4>1. PICK y \in Nat : y = decided[m].now + ENROLL_WINDOW_SECONDS
        BY <1>11, <3>2
      <4>2. (\E i \in 1..Len(d) : f[i] = m) \/ Past(s, y)
        BY <1>8, <1>11, <2>3, <3>2, <4>1 DEF Placed
      <4>3. Past(s, y) => Past(s, y)'
        BY <1>6
      <4>4. y = (decided[m].now + ENROLL_WINDOW_SECONDS)'
        BY <1>9, <3>2, <4>1
      <4>5. 1..Len(d) \subseteq 1..Len(e)
        BY <1>0, <1>2
      <4> QED
        BY <1>10, <4>2, <4>3, <4>4, <4>5 DEF Past
    <3> QED
      BY <1>9, <3>1, <3>2
  <2> QED
    BY <2>1, <2>2, <2>3 DEF Placed
<1>14. Tracked(s, e)'
  BY <1>7, <1>13 DEF Tracked
<1> QED
  BY <1>1, <1>14

(* A step that leaves the deque and those on their way leaves what is due. *)
LEMMA DueKept ==
  ASSUME NEW s \in Subjects, attempts'[s] = attempts[s],
         \A t \in Threads : Waits(t, s)' <=> Waits(t, s),
         \A t \in Threads : Waits(t, s) => thread'[t].now = thread[t].now
  PROVE  \A d : d \in Due(s)' => d \in Due(s)
  BY DEF Due

(* Every step keeps the deques explained by the decisions.                 *)
LEMMA StepDeques ==
  Base /\ WebTypeOK' /\ Clocks /\ Sifted /\ Deques /\ [Next]_vars => Deques'
<1> SUFFICES ASSUME Base, WebTypeOK', Clocks, Sifted, Deques, [Next]_vars,
                    NEW s \in Subjects, s \notin met', NEW d, d \in Due(s)'
             PROVE  Tracked(s, d)'
  BY DEF Deques, Subjects
<1>0. WebTypeOK /\ Logs /\ s \notin met /\ Onward(s)
  BY StepSeparate, StepOnward DEF Base
<1>1. ASSUME d \in Due(s),
             \/ UNCHANGED decided
             \/ \E x \in Decisions : decided' = Append(decided, x) /\ ~(x.caller = s /\ x.admitted)
      PROVE  Tracked(s, d)'
  <2>1. Tracked(s, d)
    BY <1>0, <1>1 DEF Deques
  <2> QED
    BY <1>0, <1>1, <2>1, TrackedKept
<1>2. ASSUME NEW v \in Threads, Accept(v) PROVE Tracked(s, d)'
  <2>1. UNCHANGED <<attempts, decided>> /\ ~At(v, "append")' /\ ~At(v, "append")
    BY <1>0, <1>2, AcceptSteps DEF At
  <2>2. \A t \in Threads \ {v} : thread'[t] = thread[t]
    BY <1>0, <1>2, AcceptSteps
  <2>3. \A t \in Threads : (Waits(t, s)' <=> Waits(t, s))
                           /\ (Waits(t, s) => thread'[t].now = thread[t].now)
    BY <2>1, <2>2 DEF Waits, WorksOn, At, Caller, Req
  <2> QED
    BY <1>1, <2>1, <2>3, DueKept
<1>3. ASSUME NEW v \in Threads, Step(v), Caller(v) # s PROVE Tracked(s, d)'
  <2>1. \A t \in Threads : WorksOn(t, s) => thread'[t] = thread[t]
    BY <1>0, <1>3, HandlerSteps DEF WorksOn
  <2>2. \A t \in Threads : WorksOn(t, s)' <=> WorksOn(t, s)
    BY <1>3, Elsewhere
  <2>3. \A t \in Threads : (Waits(t, s)' <=> Waits(t, s))
                           /\ (Waits(t, s) => thread'[t].now = thread[t].now)
    BY <2>1, <2>2 DEF Waits, At
  <2>4. attempts'[s] = attempts[s]
    BY <1>3, Elsewhere
  <2>5. d \in Due(s)
    BY <2>3, <2>4, DueKept
  <2> QED
    BY <1>1, <1>3, <2>5, Elsewhere
<1>4. ASSUME NEW v \in Threads, Step(v), Caller(v) = s PROVE Tracked(s, d)'
  <2>1. WorksOn(v, s)
    BY <1>0, <1>4, HandlerSteps DEF WorksOn
  <2>2. \A t \in Threads : WorksOn(t, s) => t = v
    BY <1>0, <2>1 DEF Base, Separate
  <2>3. \A t \in Threads \ {v} : ~WorksOn(t, s) /\ ~WorksOn(t, s)'
    BY <1>0, <1>4, <2>2, HandlerSteps DEF WorksOn, At, Caller, Req
  <2>4. \A t \in Threads : /\ Waits(t, s) => t = v /\ At(v, "append")
                           /\ Waits(t, s)' => t = v /\ At(v, "append")'
    BY <2>2, <2>3 DEF Waits
  <2>5. ASSUME ~At(v, "append"), ~At(v, "append")', attempts'[s] = attempts[s]
        PROVE  d \in Due(s)
    BY <2>4, <2>5, DueKept
  <2>6. CASE Record(v)
    <3>1. Waits(v, s)
      BY <2>1, <2>6 DEF Record, Waits
    <3>2. ~At(v, "append")'
      BY <1>0, <2>6 DEF Record, GoTo, At, WebTypeOK
    <3>3. d = attempts'[s]
      BY <2>4, <3>2 DEF Due
    <3>4. attempts'[s] = Append(attempts[s], thread[v].now)
      BY <1>0, <1>4, <2>6 DEF Record, WebTypeOK
    <3>5. d \in Due(s)
      BY <3>1, <3>3, <3>4 DEF Due
    <3>6. UNCHANGED decided
      BY <2>6 DEF Record, history
    <3> QED
      BY <1>1, <3>5, <3>6
  <2>7. CASE Pop(v)
    <3>1. ~At(v, "append") /\ ~At(v, "append")' /\ UNCHANGED decided
      BY <1>0, <2>7 DEF Pop, GoTo, Answer, Idle, At, WebTypeOK
    <3>2. CASE attempts[s] = <<>>
      <4>1. UNCHANGED attempts
        BY <1>4, <2>7, <3>2 DEF Pop
      <4> QED
        BY <1>1, <2>5, <3>1, <4>1
    <3>3. CASE attempts[s] # <<>>
      <4>1. attempts'[s] = Tail(attempts[s])
        BY <1>0, <1>4, <2>7, <3>3 DEF Pop, WebTypeOK
      <4>2. d = attempts'[s] /\ attempts[s] \in Due(s)
        BY <2>4, <3>1 DEF Due
      <4>3. PICK c : c = attempts[s] /\ Tracked(s, c)
        BY <1>0, <4>2 DEF Deques
      <4>4. Tracked(s, Tail(c))
        BY <1>0, <1>4, <2>7, <3>3, <4>3, TrackedPop
      <4>5. Tracked(s, d)
        BY <4>1, <4>2, <4>3, <4>4
      <4> QED
        BY <1>0, <3>1, <4>5, TrackedKept
    <3> QED
      BY <3>2, <3>3
  <2>8. CASE Count(v) /\ Full(Caller(v))
    <3>1. ~At(v, "append") /\ ~At(v, "append")' /\ UNCHANGED attempts
      BY <1>0, <2>8 DEF Count, Full, Answer, Idle, At, WebTypeOK, shared
    <3> DEFINE x == [caller |-> Caller(v), now |-> thread[v].now, admitted |-> ~Full(Caller(v))]
    <3>2. decided' = Append(decided, x) /\ ~x.admitted
      BY <2>8 DEF Count
    <3>3. x \in Decisions
      BY <1>0, <1>4 DEF Decisions, WebTypeOK
    <3> HIDE DEF x
    <3> QED
      BY <1>1, <2>5, <3>1, <3>2, <3>3
  <2>9. CASE Count(v) /\ ~Full(Caller(v))
    <3>1. ~At(v, "append") /\ At(v, "append")' /\ UNCHANGED attempts
           /\ thread'[v].now = thread[v].now /\ Req(v)' = Req(v)
      BY <1>0, <2>9 DEF Count, Full, GoTo, At, WebTypeOK, shared, Req
    <3>2. Waits(v, s)'
      BY <1>4, <3>1 DEF Waits, WorksOn, At, Caller
    <3>3. d = Append(attempts[s], thread[v].now) /\ attempts[s] \in Due(s)
      BY <2>4, <3>1, <3>2 DEF Due
    <3>4. PICK c, now : c = attempts[s] /\ now = thread[v].now /\ Tracked(s, c)
      BY <1>0, <3>3 DEF Deques
    <3>5. Tracked(s, Append(c, now))'
      BY <1>0, <1>4, <2>9, <3>4, TrackedAdmit
    <3> QED
      BY <3>3, <3>4, <3>5
  <2>10. CASE ~(Record(v) \/ Pop(v) \/ Count(v))
    <3>1. ~At(v, "append") /\ ~At(v, "append")' /\ UNCHANGED <<attempts, decided>>
      BY <1>0, <1>4, <2>10 DEF Step, ReadClock, Check, Peek, Enroll, Get, PostRole, AuditSet,
         ReadBack, DeleteRole, AuditDelete, GoTo, Answer, Idle, At, WebTypeOK, shared, history
    <3> QED
      BY <1>1, <2>5, <3>1
  <2> QED
    BY <2>6, <2>7, <2>8, <2>9, <2>10
<1>5. CASE Tick \/ UNCHANGED vars
  <2>1. UNCHANGED <<attempts, decided, thread>>
    BY <1>5 DEF Tick, vars, shared, history
  <2>2. d \in Due(s)
    BY <2>1 DEF Due, Waits, WorksOn, At, Caller, Req
  <2> QED
    BY <1>1, <2>1, <2>2
<1> QED
  BY <1>2, <1>3, <1>4, <1>5 DEF Next

(* When rate_limited decides, the deque holds exactly the attempts let     *)
(* through in the window before.                                           *)
LEMMA CountExact ==
  ASSUME Base, Sifted, Deques, NEW t \in Threads, At(t, "count"), NEW s \in Subjects \ met,
         Caller(t) = s
  PROVE  Cardinality({m \in 1..Len(decided) :
                        /\ Counted(s, m)
                        /\ thread[t].now < decided[m].now + ENROLL_WINDOW_SECONDS})
           = Len(attempts[s])
<1> DEFINE A == {m \in 1..Len(decided) :
                   /\ Counted(s, m)
                   /\ thread[t].now < decided[m].now + ENROLL_WINDOW_SECONDS}
           d == attempts[s]
<1>1. WorksOn(t, s) /\ Limiting(t) /\ Found(t) /\ thread[t].now \in Nat
  BY DEF WorksOn, At, Limiting, Sifted, Base, WebTypeOK
<1>2. \A u \in Threads : ~Waits(u, s)
  <2>1. \A u \in Threads : WorksOn(u, s) => u = t
    BY <1>1 DEF Base, Separate
  <2> QED
    BY <2>1 DEF Waits, At
<1>3. Tracked(s, d)
  BY <1>2 DEF Deques, Due
<1> HIDE DEF d
<1>4. PICK f \in [1..Len(d) -> 1..Len(decided)] : Placed(s, d, f)
  BY <1>3 DEF Tracked
<1>5. /\ d \in Seq(Nat) /\ Len(d) \in Nat
      /\ \A i \in 1..Len(d) : d[i] \in Nat
      /\ ENROLL_WINDOW_SECONDS \in Nat
  BY <1>3, ServerAssumption DEF Tracked, Ordered
<1>6. \A i \in 1..Len(d) : thread[t].now < d[i] + ENROLL_WINDOW_SECONDS
  <2> SUFFICES ASSUME NEW i \in 1..Len(d) PROVE thread[t].now < d[i] + ENROLL_WINDOW_SECONDS
    OBVIOUS
  <2>1. 1 \in 1..Len(d) /\ 1 <= i /\ d # <<>> /\ Head(d) = d[1]
    BY <1>5
  <2>2. d[1] <= d[i]
    BY <1>3, <2>1 DEF Tracked, Ordered
  <2>3. ~Old(thread[t].now, d[1])
    BY <1>1, <2>1 DEF Found, d
  <2> QED
    BY <1>1, <1>5, <2>1, <2>2, <2>3 DEF Old
<1>7. \A i \in 1..Len(d) : f[i] \in A
  BY <1>4, <1>6 DEF Placed
<1>8. ASSUME NEW m \in A PROVE \E i \in 1..Len(d) : f[i] = m
  <2>1. decided[m] \in Decisions
    BY <1>8 DEF Base, Logs
  <2>2. decided[m].now \in Nat
    BY <2>1 DEF Decisions
  <2>3. ~Past(s, decided[m].now + ENROLL_WINDOW_SECONDS)
    BY <1>1, <1>5, <1>8, <2>2 DEF Past
  <2> QED
    BY <1>4, <1>8, <2>3 DEF Placed
<1> HIDE DEF A
<1>9. f \in Bijection(1..Len(d), A)
  BY <1>4, <1>7, <1>8 DEF Bijection, Injection, Surjection, IsInjective, Placed
<1>10. ExistsBijection(1..Len(d), A)
  BY <1>9 DEF ExistsBijection
<1>11. Cardinality(A) = Len(d)
  BY <1>5, <1>10, FS_CountingElements
<1> QED
  BY <1>11 DEF A, d

(* Every decision is exact when it is made, and no later step changes what *)
(* was decided before it.                                                  *)
LEMMA StepLimit ==
  Base /\ Sifted /\ Deques /\ LimitExactAlone /\ [Next]_vars => LimitExactAlone'
<1> SUFFICES ASSUME Base, Sifted, Deques, LimitExactAlone, [Next]_vars,
                    NEW n \in DOMAIN decided', decided'[n].caller \notin met'
             PROVE  decided'[n].admitted <=> Cardinality(Admitted(n)') < ENROLL_LIMIT
  BY DEF LimitExactAlone
<1>0. met \subseteq met' /\ WebTypeOK
  BY StepSeparate DEF Base
<1>1. CASE UNCHANGED decided
  BY <1>0, <1>1 DEF LimitExactAlone, Admitted
<1>2. ASSUME NEW t \in Threads, Count(t) PROVE  decided'[n].admitted <=> Cardinality(Admitted(n)') < ENROLL_LIMIT
  <2> DEFINE x == [caller |-> Caller(t), now |-> thread[t].now, admitted |-> ~Full(Caller(t))]
  <2>1. decided' = Append(decided, x) /\ decided \in Seq(Decisions)
    BY <1>2 DEF Count, Base, Logs
  <2>2. /\ Len(decided) \in Nat /\ DOMAIN decided = 1..Len(decided)
        /\ DOMAIN decided' = 1..(Len(decided) + 1)
        /\ decided'[Len(decided) + 1] = x
        /\ \A m \in 1..Len(decided) : decided'[m] = decided[m]
    BY <2>1
  <2>3. CASE n \in 1..Len(decided)
    <3>1. \A m \in 1..(n - 1) : m \in 1..Len(decided) /\ decided'[m] = decided[m]
      BY <2>2, <2>3
    <3>2. Admitted(n)' = Admitted(n)
      BY <2>2, <2>3, <3>1 DEF Admitted
    <3> QED
      BY <1>0, <2>2, <2>3, <3>2 DEF LimitExactAlone
  <2>4. CASE n = Len(decided) + 1
    <3>1. PICK s : s = Caller(t)
      OBVIOUS
    <3>2. ~At(t, "idle") /\ At(t, "count")
      BY <1>2 DEF Count, At
    <3>3. s \in Subjects \ met
      BY <1>0, <2>2, <2>4, <3>1, <3>2, CallerIsSubject
    <3>4. 1..(n - 1) = 1..Len(decided) /\ decided'[n] = x
      BY <2>2, <2>4
    <3>5. \A m \in 1..Len(decided) : decided'[m].admitted = decided[m].admitted
            /\ decided'[m].caller = decided[m].caller /\ decided'[m].now = decided[m].now
      BY <2>2
    <3>6. Admitted(n)' = {m \in 1..Len(decided) :
                            /\ Counted(s, m)
                            /\ thread[t].now < decided[m].now + ENROLL_WINDOW_SECONDS}
      <4>1. decided'[n].caller = s /\ decided'[n].now = thread[t].now
        BY <3>1, <3>4
      <4> HIDE DEF x
      <4>2. Admitted(n)' = {m \in 1..(n - 1) :
                             /\ decided'[m].admitted /\ decided'[m].caller = decided'[n].caller
                             /\ decided'[n].now < decided'[m].now + ENROLL_WINDOW_SECONDS}
        BY DEF Admitted
      <4>3. Admitted(n)' = {m \in 1..Len(decided) :
                             /\ decided[m].admitted /\ decided[m].caller = s
                             /\ thread[t].now < decided[m].now + ENROLL_WINDOW_SECONDS}
        BY <3>4, <3>5, <4>1, <4>2
      <4> QED
        BY <4>3 DEF Counted
    <3>7. Cardinality(Admitted(n)') = Len(attempts[s])
      BY <3>1, <3>2, <3>3, <3>6, CountExact
    <3>8. Len(attempts[s]) \in Nat /\ ENROLL_LIMIT \in Nat
      BY <1>0, <3>3, ServerAssumption DEF WebTypeOK
    <3>9. decided'[n].admitted <=> ~(Len(attempts[s]) >= ENROLL_LIMIT)
      <4>1. x.admitted = ~Full(s)
        BY <3>1
      <4> HIDE DEF x
      <4>2. decided'[n].admitted = ~Full(s)
        BY <3>4, <4>1
      <4> QED
        BY <4>2 DEF Full
    <3> QED
      BY <3>7, <3>8, <3>9
  <2> QED
    BY <2>2, <2>3, <2>4
<1>3. (UNCHANGED decided) \/ \E t \in Threads : Count(t)
  BY ZenonT(60) DEF Next, Step, ReadClock, Check, Peek, Pop, Record, Enroll, Get, PostRole,
     AuditSet, ReadBack, DeleteRole, AuditDelete, Accept, Tick, vars, history
<1> QED
  BY <1>1, <1>2, <1>3

(* A new server has handled nothing.                                       *)
LEMMA InitAlone == Init => AloneInv
<1> SUFFICES ASSUME Init PROVE AloneInv
  OBVIOUS
<1>1. /\ decided = <<>> /\ audit = <<>> /\ met = {} /\ clock = 0
      /\ \A t \in Threads : At(t, "idle") /\ thread[t].now = 0
      /\ \A s \in Subjects : attempts[s] = <<>> /\ roles[s] = Nil
  BY DEF Init, Idle, At
<1>2. Base
  BY <1>1, InitWeb DEF Base, WebInv, Separate, WorksOn, Logs
<1>3. Undisturbed /\ Sifted
  BY <1>1 DEF Undisturbed, Sifted
<1>4. ErrorsHaveCause /\ Known
  BY <1>1 DEF Init, ErrorsHaveCause, Known
<1>5. Audits /\ Accounts
  <2>1. \A s \in Subjects : Owing(s) = {}
    BY <1>1 DEF Owing, Owes, At, WorksOn
  <2> QED
    BY <1>1, <2>1 DEF Audits, Replays, Accounts, Accounted
<1>6. Clocks
  BY <1>1 DEF Clocks
<1>7. Deques
  <2> SUFFICES ASSUME NEW s \in Subjects, NEW d \in Due(s) PROVE Tracked(s, d)
    BY DEF Deques
  <2>1. \A t \in Threads : ~Waits(t, s)
    BY <1>1 DEF Waits, WorksOn
  <2>2. d = <<>>
    BY <1>1, <2>1 DEF Due
  <2>3. d \in Seq(Nat) /\ Len(d) = 0 /\ Len(decided) = 0 /\ 1..0 = {}
    BY <1>1, <2>2
  <2>4. Ordered(s, d)
    BY <2>3 DEF Ordered
  <2>5. \E f \in [1..Len(d) -> 1..Len(decided)] : TRUE
    <3> DEFINE f == [i \in {} |-> 0]
    <3>1. f \in [{} -> {}]
      OBVIOUS
    <3> QED
      BY <2>3, <3>1
  <2>6. \A f : Placed(s, d, f)
    BY <2>3 DEF Placed
  <2> QED
    BY <2>4, <2>5, <2>6 DEF Tracked
<1>8. LimitExactAlone
  BY <1>1 DEF LimitExactAlone
<1> QED
  BY <1>2, <1>3, <1>4, <1>5, <1>6, <1>7, <1>8 DEF AloneInv

(* The invariant is inductive.                                             *)
THEOREM AloneInvariance == Spec => []AloneInv
<1>1. AloneInv /\ [Next]_vars => AloneInv'
  <2> SUFFICES ASSUME AloneInv, [Next]_vars PROVE AloneInv'
    OBVIOUS
  <2>0. /\ Base /\ Undisturbed /\ Known /\ ErrorsHaveCause /\ Audits /\ Accounts
        /\ Clocks /\ Sifted /\ Deques /\ LimitExactAlone
    BY DEF AloneInv
  <2>1. WebTypeOK /\ Routed /\ Separate /\ Logs
    BY <2>0 DEF Base
  <2>2. WebTypeOK' /\ Routed'
    BY <2>1, StepTypes, StepRouted
  <2>3. Base'
    BY <2>1, <2>2, StepSeparate, StepLogs DEF Base
  <2>4. Undisturbed' /\ Known' /\ ErrorsHaveCause' /\ Audits' /\ Accounts'
    BY <2>0, StepUndisturbed, StepErrors, StepAudits, StepAccounts
  <2>5. Clocks'
    BY <2>0, <2>1, <2>2, StepOnward
  <2>6. Sifted' /\ Deques' /\ LimitExactAlone'
    BY <2>0, <2>2, StepSifted, StepDeques, StepLimit
  <2> QED
    BY <2>3, <2>4, <2>5, <2>6 DEF AloneInv
<1> QED
  BY <1>1, InitAlone, PTL DEF Spec

(* For any number of threads: an internal error has one of three causes    *)
(* (enrollment_server.py:52-53,108,117,119; raw_data_api.py:181).  The     *)
(* request has a body, a user or a number its handler does not expect; or  *)
(* it reads ROLES after a number and a string were given roles; or it      *)
(* enrolls or sets a role, and another on its subject was handled at the   *)
(* same time.                                                              *)
THEOREM ErrorsExplained == Spec => []ErrorsHaveCause
<1>1. AloneInv => ErrorsHaveCause
  BY DEF AloneInv
<1> QED
  BY <1>1, AloneInvariance, PTL

(* For any limit, any window and any number of threads serving others:     *)
(* rate_limited (enrollment_server.py:49-57) is exact for a caller whose   *)
(* requests never overlapped.                                              *)
THEOREM LimitExact == Spec => []LimitExactAlone
<1>1. AloneInv => LimitExactAlone
  BY DEF AloneInv
<1> QED
  BY <1>1, AloneInvariance, PTL

(* Between requests the audit list (:117-118,123-124) says what role a     *)
(* user has whose requests never overlapped; for any number of threads     *)
(* whose requests do, the role is that of an entry which fewer others      *)
(* follow than there are threads.                                          *)
THEOREM AuditReplayed == Spec => []AuditReplays
<1>1. AloneInv => AuditReplays
  <2> SUFFICES ASSUME Base, Audits, Accounts, NEW s \in Subjects,
                      \A t \in Threads : At(t, "idle") \/ Caller(t) # s
               PROVE  (s \notin met => Replays(s)) /\ Near(s)
    BY DEF AloneInv, AuditReplays
  <2>1. s \notin met => Replays(s)
    BY DEF Audits, WorksOn
  <2>2. Owing(s) = {} /\ Accounted(s)
    BY DEF Owing, WorksOn, Accounts
  <2>3. ASSUME NEW n \in DOMAIN audit,
               Cardinality(Later(s, n)) + Cardinality(Owing(s)) < Cardinality(Threads)
        PROVE  Cardinality(Later(s, n)) < Cardinality(Threads)
    <3>1. Cardinality(Later(s, n)) \in Nat
      BY LaterFinite
    <3>2. Cardinality(Owing(s)) = 0
      BY <2>2, FS_EmptySet
    <3> QED
      BY <2>3, <3>1, <3>2
  <2>4. Near(s)
    BY <2>2, <2>3 DEF Accounted, Near, Later
  <2> QED
    BY <2>1, <2>4
<1> QED
  BY <1>1, AloneInvariance, PTL
=============================================================================
