------------------------- MODULE CoordinationProofs -------------------------
(***************************************************************************)
(* Proofs about Coordination, for every set of users, orders, keys and     *)
(* requests and every bound on the failures.                               *)
(***************************************************************************)
EXTENDS Coordination, TLAPS

\* A request in progress names a user and an order, and one with a key holds
\* it from its handler on.
Served == {"HANDLING", "WROTE", "ANSWERED"}

RequestIsConsistent(s) ==
  /\ requests[s].pc # "IDLE" => requests[s].user \in User /\ requests[s].rma \in Rma
  /\ requests[s].pc \in Served /\ requests[s].key # NoKey => requests[s].claimed

\* The holder of a key finds it in processing, and has succeeded just if its
\* outcome is a success that waits to be recorded.
HolderIsConsistent(s) ==
  requests[s].claimed =>
    /\ requests[s].user \in User
    /\ requests[s].key \in Key
    /\ requests[s].key # NoKey
    /\ keys[KeyOf(s)] = "PROCESSING"
    /\ succeeded[KeyOf(s)] = IF requests[s].pc = "ANSWERED" THEN 1 ELSE 0

\* A key counts no success while it is free and one when it is recorded.
KeyIsConsistent(k) ==
  /\ succeeded[k] \in {0, 1}
  /\ keys[k] = "FREE" => succeeded[k] = 0
  /\ keys[k] = "SUCCESS" => succeeded[k] = 1

\* The inductive invariant.
IInv ==
  /\ TypeOK
  /\ OneHandlerPerKey
  /\ \A s \in Slot : RequestIsConsistent(s)
  /\ \A s \in Slot : HolderIsConsistent(s)
  /\ \A k \in ScopedKey : KeyIsConsistent(k)

\* The holder of a key holds a scoped key.
LEMMA HolderHasKey ==
  ASSUME IInv, NEW s \in Slot, requests[s].claimed
  PROVE  KeyOf(s) \in ScopedKey
BY DEF IInv, HolderIsConsistent, KeyOf, ScopedKey

\* q is what the request of s may become while no key changes: it keeps what
\* it holds, or holds nothing.
Follows(s, q) ==
  /\ q \in Request
  /\ q.pc # "IDLE" => q.user \in User /\ q.rma \in Rma
  /\ q.pc \in Served /\ q.key # NoKey => q.claimed
  /\ q.claimed => /\ requests[s].claimed
                  /\ q.user = requests[s].user
                  /\ q.key = requests[s].key
                  /\ q.pc = "ANSWERED" <=> requests[s].pc = "ANSWERED"

\* A step of one request that leaves every key alone keeps the invariant.
LEMMA RequestKeeps ==
  ASSUME IInv, NEW s \in Slot, NEW q, Follows(s, q),
         requests' = [requests EXCEPT ![s] = q],
         UNCHANGED <<keys, succeeded>>,
         locks' \in [Rma -> Lock], crashes' \in Nat
  PROVE  IInv'
<1> USE DEF IInv, Follows
<1>1. TypeOK'
  BY DEF TypeOK
<1>2. OneHandlerPerKey'
  BY DEF OneHandlerPerKey, KeyOf, TypeOK
<1>3. ASSUME NEW t \in Slot PROVE RequestIsConsistent(t)'
  BY DEF RequestIsConsistent, TypeOK
<1>4. ASSUME NEW t \in Slot PROVE HolderIsConsistent(t)'
  BY DEF HolderIsConsistent, KeyOf, TypeOK
<1>5. ASSUME NEW k \in ScopedKey PROVE KeyIsConsistent(k)'
  BY DEF KeyIsConsistent
<1>. QED BY <1>1, <1>2, <1>3, <1>4, <1>5

\* The request ends, its outcome not recorded.
LEMMA EndKeeps ==
  ASSUME IInv, NEW s \in Slot, End(s), UNCHANGED <<locks, keys, succeeded>>,
         crashes' \in Nat
  PROVE  IInv'
<1>1. Follows(s, IdleRequest)
  BY DEF Follows, IdleRequest, Request, Pc, Kind, NoUser, NoKey, Served
<1>2. requests' = [requests EXCEPT ![s] = IdleRequest]
  BY DEF End
<1>. QED BY <1>1, <1>2, RequestKeeps DEF IInv, TypeOK

\* The request goes on to pc, before its response or to a refusal.
LEMMA GotoKeeps ==
  ASSUME IInv, NEW s \in Slot, NEW pc \in Pc, Goto(s, pc),
         UNCHANGED <<locks, keys, succeeded, crashes>>,
         requests[s].pc \notin {"IDLE", "ANSWERED"},
         pc \notin {"IDLE", "ANSWERED"},
         pc \in Served => requests[s].key = NoKey \/ requests[s].claimed
  PROVE  IInv'
<1> DEFINE q == [requests[s] EXCEPT !.pc = pc]
<1>1. requests' = [requests EXCEPT ![s] = q]
  BY DEF Goto
<1>2. requests[s] \in Request /\ RequestIsConsistent(s)
  BY DEF IInv, TypeOK
<1>3. Follows(s, q)
  BY <1>2 DEF Follows, RequestIsConsistent, Request, Pc, Served
<1> HIDE DEF q
<1>. QED BY <1>1, <1>3, RequestKeeps DEF IInv, TypeOK

\* A new request keeps the invariant.
LEMMA PostKeeps ==
  ASSUME IInv, NEW s \in Slot, NEW u \in User, NEW r \in Rma,
         NEW k \in Key \cup {NoKey}, NEW kind \in Kind, Post(s, u, r, k, kind)
  PROVE  IInv'
<1> DEFINE q == [pc |-> "WAITING", user |-> u, rma |-> r, key |-> k,
                 kind |-> kind, claimed |-> FALSE]
<1>1. requests' = [requests EXCEPT ![s] = q]
  BY DEF Post
<1>2. Follows(s, q)
  BY DEF Follows, Request, Pc, Served
<1> HIDE DEF q
<1>. QED BY <1>1, <1>2, RequestKeeps DEF IInv, TypeOK, Post

\* The second dispatch of /queryRepair keeps the invariant.
LEMMA RedispatchKeeps ==
  ASSUME IInv, NEW s \in Slot, Redispatch(s)
  PROVE  IInv'
<1> DEFINE q == [requests[s] EXCEPT !.pc = "WAITING", !.kind = "WRITE"]
<1>1. requests' = [requests EXCEPT ![s] = q] /\ requests[s].pc = "HANDLING"
  BY DEF Redispatch
<1>2. requests[s] \in Request /\ RequestIsConsistent(s)
  BY DEF IInv, TypeOK
<1>3. Follows(s, q)
  BY <1>1, <1>2 DEF Follows, RequestIsConsistent, Request, Pc, Kind, Served
<1> HIDE DEF q
<1>. QED BY <1>1, <1>3, RequestKeeps DEF IInv, TypeOK, Redispatch

\* The claim keeps the invariant: only a free key is taken, and no request
\* holds a free key.
LEMMA ClaimKeeps ==
  ASSUME IInv, NEW s \in Slot, ClaimIdempotency(s)
  PROVE  IInv'
<1> USE DEF IInv
<1>1. /\ requests[s] \in Request /\ requests[s].pc = "CHECKED"
      /\ requests[s].user \in User /\ requests[s].rma \in Rma
      /\ requests[s].key \in Key /\ requests[s].key # NoKey
      /\ KeyOf(s) \in ScopedKey
  BY DEF ClaimIdempotency, TypeOK, RequestIsConsistent, KeyOf, ScopedKey, Request
<1>2. CASE /\ keys[KeyOf(s)] \in Claimable
           /\ keys' = [keys EXCEPT ![KeyOf(s)] = "PROCESSING"]
           /\ requests' = [requests EXCEPT ![s] =
                             [@ EXCEPT !.pc = "HANDLING", !.claimed = TRUE]]
  <2> DEFINE q == [requests[s] EXCEPT !.pc = "HANDLING", !.claimed = TRUE]
  <2>1. /\ q \in Request /\ q.user = requests[s].user /\ q.rma = requests[s].rma
        /\ q.key = requests[s].key /\ q.pc = "HANDLING" /\ q.claimed
    BY <1>1 DEF Request, Pc
  <2>2. /\ requests' = [requests EXCEPT ![s] = q]
        /\ UNCHANGED <<locks, succeeded, crashes>>
    BY <1>2 DEF ClaimIdempotency
  <2>3. keys[KeyOf(s)] = "FREE" /\ succeeded[KeyOf(s)] = 0
    BY <1>1, <1>2 DEF Claimable, KeyIsConsistent
  <2> HIDE DEF q
  <2>4. \A t \in Slot \ {s} : requests'[t] = requests[t] /\ KeyOf(t)' = KeyOf(t)
    BY <2>2 DEF TypeOK, KeyOf
  <2>5. requests'[s] = q /\ KeyOf(s)' = KeyOf(s)
    BY <2>1, <2>2 DEF TypeOK, KeyOf
  <2>6. \A t \in Slot : requests[t].claimed => KeyOf(t) # KeyOf(s)
    BY <2>3 DEF HolderIsConsistent
  <2>7. TypeOK'
    BY <1>1, <1>2, <2>1, <2>2 DEF TypeOK, KeyState
  <2>8. OneHandlerPerKey'
    BY <2>1, <2>4, <2>5, <2>6 DEF OneHandlerPerKey
  <2>9. ASSUME NEW t \in Slot PROVE RequestIsConsistent(t)'
    BY <1>1, <2>1, <2>4, <2>5 DEF RequestIsConsistent
  <2>10. ASSUME NEW t \in Slot PROVE HolderIsConsistent(t)'
    <3>1. CASE t = s
      BY <1>1, <1>2, <2>1, <2>2, <2>3, <2>5, <3>1 DEF HolderIsConsistent, TypeOK
    <3>2. CASE t # s
      BY <1>1, <1>2, <2>2, <2>4, <2>6, <3>2, HolderHasKey DEF HolderIsConsistent, TypeOK
    <3>. QED BY <3>1, <3>2
  <2>11. ASSUME NEW k \in ScopedKey PROVE KeyIsConsistent(k)'
    BY <1>1, <1>2, <2>2, <2>3 DEF KeyIsConsistent, TypeOK
  <2>. QED BY <2>7, <2>8, <2>9, <2>10, <2>11
<1>3. CASE End(s) /\ UNCHANGED keys
  BY <1>3, EndKeeps DEF ClaimIdempotency, TypeOK
<1>4. CASE Goto(s, "REFUSED") /\ UNCHANGED keys
  BY <1>1, <1>4, GotoKeeps DEF ClaimIdempotency, Pc, Served
<1>. QED BY <1>2, <1>3, <1>4 DEF ClaimIdempotency

\* A successful response keeps the invariant: its request holds its key and
\* nothing succeeded under it before.
LEMMA AnswerKeeps ==
  ASSUME IInv, NEW s \in Slot, Answer(s), UNCHANGED <<keys, crashes>>,
         locks' \in [Rma -> Lock], requests[s].pc \in {"HANDLING", "WROTE"}
  PROVE  IInv'
<1> USE DEF IInv
<1> DEFINE q == [requests[s] EXCEPT !.pc = "ANSWERED"]
<1>1. requests[s] \in Request /\ requests[s].user \in User /\ requests[s].rma \in Rma
  BY DEF TypeOK, RequestIsConsistent
<1>2. /\ q \in Request /\ q.user = requests[s].user /\ q.rma = requests[s].rma
      /\ q.key = requests[s].key /\ q.pc = "ANSWERED"
      /\ q.claimed = requests[s].claimed
  BY <1>1 DEF Request, Pc
<1>3. requests' = [requests EXCEPT ![s] = q]
  BY DEF Answer, Goto
<1> HIDE DEF q
<1>4. \A t \in Slot \ {s} : requests'[t] = requests[t] /\ KeyOf(t)' = KeyOf(t)
  BY <1>3 DEF TypeOK, KeyOf
<1>5. requests'[s] = q /\ KeyOf(s)' = KeyOf(s)
  BY <1>2, <1>3 DEF TypeOK, KeyOf
<1>6. OneHandlerPerKey'
  BY <1>2, <1>4, <1>5 DEF OneHandlerPerKey
<1>7. ASSUME NEW t \in Slot PROVE RequestIsConsistent(t)'
  <2>1. requests[s].key # NoKey => requests[s].claimed
    BY DEF RequestIsConsistent, Served
  <2>. QED BY <1>1, <1>2, <1>4, <1>5, <2>1 DEF RequestIsConsistent
<1>8. CASE requests[s].key = NoKey /\ ~requests[s].claimed
  <2>1. succeeded' = succeeded
    BY <1>8 DEF Answer
  <2>2. TypeOK'
    BY <1>2, <1>3, <2>1 DEF TypeOK
  <2>3. ASSUME NEW t \in Slot PROVE HolderIsConsistent(t)'
    BY <1>2, <1>4, <1>5, <1>8, <2>1 DEF HolderIsConsistent
  <2>4. ASSUME NEW k \in ScopedKey PROVE KeyIsConsistent(k)'
    BY <2>1 DEF KeyIsConsistent
  <2>. QED BY <1>6, <1>7, <2>2, <2>3, <2>4
<1>9. CASE requests[s].key # NoKey /\ requests[s].claimed
  <2>1. succeeded' = [succeeded EXCEPT ![KeyOf(s)] = @ + 1]
    BY <1>9 DEF Answer
  <2>2. KeyOf(s) \in ScopedKey /\ keys[KeyOf(s)] = "PROCESSING" /\ succeeded[KeyOf(s)] = 0
    BY <1>9, HolderHasKey DEF HolderIsConsistent
  <2>3. succeeded'[KeyOf(s)] = 1
    BY <2>1, <2>2 DEF TypeOK
  <2>4. TypeOK'
    BY <1>2, <1>3, <2>1, <2>2 DEF TypeOK
  <2>5. ASSUME NEW t \in Slot PROVE HolderIsConsistent(t)'
    <3>1. CASE t = s
      BY <1>2, <1>5, <1>9, <2>2, <2>3, <3>1 DEF HolderIsConsistent
    <3>2. CASE t # s
      <4>1. requests[t].claimed => KeyOf(t) # KeyOf(s)
        BY <1>9, <3>2 DEF OneHandlerPerKey
      <4>2. requests[t].claimed => succeeded'[KeyOf(t)] = succeeded[KeyOf(t)]
        BY <2>1, <4>1, HolderHasKey DEF TypeOK
      <4>. QED BY <1>4, <3>2, <4>2 DEF HolderIsConsistent
    <3>. QED BY <3>1, <3>2
  <2>6. ASSUME NEW k \in ScopedKey PROVE KeyIsConsistent(k)'
    BY <2>1, <2>2 DEF KeyIsConsistent, TypeOK
  <2>. QED BY <1>6, <1>7, <2>4, <2>5, <2>6
<1>10. requests[s].key # NoKey <=> requests[s].claimed
  BY DEF HolderIsConsistent, RequestIsConsistent, Served
<1>11. requests[s].claimed \in BOOLEAN
  BY <1>1 DEF Request
<1>. QED BY <1>8, <1>9, <1>10, <1>11

\* What a finished request writes under its key.
RecordsOutcome(s, state) ==
  keys' = IF requests[s].claimed THEN [keys EXCEPT ![KeyOf(s)] = state] ELSE keys

\* The record of an outcome keeps the invariant, because it agrees with the
\* success that was counted.
LEMMA RecordKeeps ==
  ASSUME IInv, NEW s \in Slot, NEW state \in {"FREE", "SUCCESS"},
         RecordsOutcome(s, state), End(s), UNCHANGED <<locks, succeeded, crashes>>,
         requests[s].pc = IF state = "SUCCESS" THEN "ANSWERED" ELSE "REFUSED"
  PROVE  IInv'
<1> USE DEF IInv
<1>1. CASE ~requests[s].claimed
  BY <1>1, EndKeeps DEF RecordsOutcome, TypeOK
<1>2. CASE requests[s].claimed
  <2>1. keys' = [keys EXCEPT ![KeyOf(s)] = state] /\ KeyOf(s) \in ScopedKey
    BY <1>2, HolderHasKey DEF RecordsOutcome
  <2>2. IdleRequest \in Request /\ ~IdleRequest.claimed /\ IdleRequest.pc = "IDLE"
    BY DEF IdleRequest, Request, Pc, Kind, NoUser, NoKey
  <2>3. requests' = [requests EXCEPT ![s] = IdleRequest]
    BY DEF End
  <2>4. \A t \in Slot \ {s} : requests'[t] = requests[t] /\ KeyOf(t)' = KeyOf(t)
    BY <2>3 DEF TypeOK, KeyOf
  <2>5. requests'[s] = IdleRequest
    BY <2>3 DEF TypeOK
  <2>6. TypeOK'
    BY <2>1, <2>2, <2>3 DEF TypeOK, KeyState
  <2>7. OneHandlerPerKey'
    BY <2>2, <2>4, <2>5 DEF OneHandlerPerKey
  <2>8. ASSUME NEW t \in Slot PROVE RequestIsConsistent(t)'
    BY <2>2, <2>4, <2>5 DEF RequestIsConsistent, Served
  <2>9. ASSUME NEW t \in Slot PROVE HolderIsConsistent(t)'
    <3>1. CASE t = s
      BY <2>2, <2>5, <3>1 DEF HolderIsConsistent
    <3>2. CASE t # s
      <4>1. requests[t].claimed => KeyOf(t) # KeyOf(s)
        BY <1>2, <3>2 DEF OneHandlerPerKey
      <4>2. requests[t].claimed => keys'[KeyOf(t)] = keys[KeyOf(t)]
        BY <2>1, <4>1, HolderHasKey DEF TypeOK
      <4>. QED BY <2>4, <3>2, <4>2 DEF HolderIsConsistent
    <3>. QED BY <3>1, <3>2
  <2>10. ASSUME NEW k \in ScopedKey PROVE KeyIsConsistent(k)'
    <3>1. succeeded[KeyOf(s)] = IF state = "SUCCESS" THEN 1 ELSE 0
      BY <1>2 DEF HolderIsConsistent
    <3>. QED BY <2>1, <3>1 DEF KeyIsConsistent, TypeOK
  <2>. QED BY <2>6, <2>7, <2>8, <2>9, <2>10
<1>. QED BY <1>1, <1>2

\* Every step of the middleware and of a handler keeps the invariant.
LEMMA ServeKeeps ==
  ASSUME IInv, NEW s \in Slot, Serve(s)
  PROVE  IInv'
<1> USE DEF Pc, Served
<1>1. CASE AssertAvailable(s)
  BY <1>1, GotoKeeps DEF AssertAvailable
<1>2. CASE WithoutKey(s)
  BY <1>2, GotoKeeps DEF WithoutKey
<1>3. CASE ClaimIdempotency(s)
  BY <1>3, ClaimKeeps
<1>4. CASE Write(s)
  <2>1. requests[s].key = NoKey \/ requests[s].claimed
    BY <1>4 DEF Write, IInv, RequestIsConsistent
  <2>. QED BY <1>4, <2>1, GotoKeeps DEF Write
<1>5. CASE Respond(s)
  BY <1>5, AnswerKeeps DEF Respond, IInv, TypeOK
<1>6. CASE Reject(s)
  BY <1>6, GotoKeeps DEF Reject
<1>7. CASE Redispatch(s)
  BY <1>7, RedispatchKeeps
<1>8. CASE Acquire(s)
  <2>1. CASE Goto(s, "REFUSED") /\ UNCHANGED <<locks, succeeded>>
    BY <1>8, <2>1, GotoKeeps DEF Acquire
  <2>2. CASE /\ locks' = [locks EXCEPT ![requests[s].rma] =
                             [owner |-> requests[s].user, live |-> TRUE]]
             /\ Answer(s)
    <3>1. locks' \in [Rma -> Lock]
      BY <1>8, <2>2 DEF Acquire, IInv, TypeOK, Lock, RequestIsConsistent
    <3>. QED BY <1>8, <2>2, <3>1, AnswerKeeps DEF Acquire
  <2>. QED BY <1>8, <2>1, <2>2 DEF Acquire
<1>9. CASE Release(s)
  <2>1. CASE Goto(s, "REFUSED") /\ UNCHANGED <<locks, succeeded>>
    BY <1>9, <2>1, GotoKeeps DEF Release
  <2>2. CASE locks' = [locks EXCEPT ![requests[s].rma] = NoLock] /\ Answer(s)
    <3>1. locks' \in [Rma -> Lock]
      BY <2>2 DEF IInv, TypeOK, Lock, NoLock
    <3>. QED BY <1>9, <2>2, <3>1, AnswerKeeps DEF Release
  <2>. QED BY <1>9, <2>1, <2>2 DEF Release
<1>10. CASE FinishIdempotency(s)
  BY <1>10, RecordKeeps DEF FinishIdempotency, RecordsOutcome
<1>11. CASE FailIdempotency(s)
  BY <1>11, RecordKeeps DEF FailIdempotency, RecordsOutcome, KeyAfterFailure
<1>. QED BY <1>1, <1>2, <1>3, <1>4, <1>5, <1>6, <1>7, <1>8, <1>9, <1>10, <1>11 DEF Serve

\* Time and failures keep the invariant: a restart ends every request and
\* leaves the document as it is.
LEMMA SurroundingsKeep ==
  ASSUME IInv,
         \/ \E s \in Slot : PersistFails(s)
         \/ \E r \in Rma : Expire(r)
         \/ Crash
         \/ UNCHANGED vars
  PROVE  IInv'
<1> USE DEF IInv
<1>1. CASE \E s \in Slot : PersistFails(s)
  <2>1. PICK s \in Slot : PersistFails(s)
    BY <1>1
  <2>2. crashes' \in Nat
    BY <2>1 DEF PersistFails, TypeOK
  <2>. QED BY <2>1, <2>2, EndKeeps DEF PersistFails
<1>2. CASE \E r \in Rma : Expire(r)
  <2>1. PICK r \in Rma : Expire(r)
    BY <1>2
  <2>2. locks' \in [Rma -> Lock] /\ crashes' \in Nat
    BY <2>1 DEF Expire, TypeOK, Lock
  <2>3. UNCHANGED <<keys, requests, succeeded>>
    BY <2>1 DEF Expire
  <2>. QED BY <2>2, <2>3 DEF TypeOK, OneHandlerPerKey, KeyOf, RequestIsConsistent,
                              HolderIsConsistent, KeyIsConsistent
<1>3. CASE Crash
  <2>1. /\ requests' \in [Slot -> Request] /\ crashes' \in Nat
        /\ \A s \in Slot : ~requests'[s].claimed /\ requests'[s].pc = "IDLE"
    BY <1>3 DEF Crash, TypeOK, IdleRequest, Request, Pc, Kind
  <2>. QED BY <1>3, <2>1 DEF Crash, TypeOK, OneHandlerPerKey, RequestIsConsistent, Served,
                              HolderIsConsistent, KeyIsConsistent
<1>4. CASE UNCHANGED vars
  BY <1>4 DEF vars, TypeOK, OneHandlerPerKey, KeyOf, RequestIsConsistent,
              HolderIsConsistent, KeyIsConsistent
<1>. QED BY <1>1, <1>2, <1>3, <1>4

\* The invariant holds in every reachable state.
THEOREM IInvHolds == Spec => []IInv
<1>1. Init => IInv
  BY DEF Init, IInv, TypeOK, Lock, NoLock, KeyState, Request, IdleRequest, Pc, Kind,
         OneHandlerPerKey, RequestIsConsistent, Served, HolderIsConsistent, KeyIsConsistent
<1>2. IInv /\ [Next]_vars => IInv'
  <2> SUFFICES ASSUME IInv, [Next]_vars PROVE IInv'
    OBVIOUS
  <2>1. CASE \E s \in Slot, u \in User, r \in Rma, k \in Key \cup {NoKey}, kind \in Kind :
               Post(s, u, r, k, kind)
    BY <2>1, PostKeeps
  <2>2. CASE \E s \in Slot : Serve(s)
    BY <2>2, ServeKeeps
  <2>. QED BY <2>1, <2>2, SurroundingsKeep DEF Next
<1>. QED BY <1>1, <1>2, PTL DEF Spec

\* The document and the requests always have the shape the code gives them.
THEOREM TypeCorrect == Spec => []TypeOK
BY IInvHolds, PTL DEF IInv

\* A request repeated with its key succeeds at most once, and a recorded
\* response is that of a success.
THEOREM RepeatsAreHarmless == Spec => [](SucceedsOncePerKey /\ RecordedMeansSucceeded)
<1>1. IInv => SucceedsOncePerKey /\ RecordedMeansSucceeded
  BY DEF IInv, KeyIsConsistent, SucceedsOncePerKey, RecordedMeansSucceeded
<1>. QED BY <1>1, IInvHolds, PTL

\* Two requests with the same key are never handled at the same time.
THEOREM KeysAreExclusive == Spec => []OneHandlerPerKey
BY IInvHolds, PTL DEF IInv

\* A live lease changes hands only by a request of its owner or of an
\* administrator.
THEOREM LeasesAreKept == Spec => LeaseIsKept
<1> DEFINE Kept(r) ==
      locks[r].live /\ locks'[r].owner # locks[r].owner =>
        \E s \in Slot :
          /\ requests[s].rma = r
          /\ requests[s].kind = "UNLOCK"
          /\ requests[s].user \in Admin \cup {locks[r].owner}
<1>1. IInv /\ [Next]_vars => \A r \in Rma : Kept(r)
  <2> SUFFICES ASSUME IInv, [Next]_vars, NEW r \in Rma PROVE Kept(r)
    OBVIOUS
  <2> USE DEF IInv, TypeOK, Lock
  <2>1. ASSUME NEW s \in Slot, Acquire(s) PROVE Kept(r)
    BY <2>1 DEF Acquire, HeldByOther
  <2>2. ASSUME NEW s \in Slot, Release(s) PROVE Kept(r)
    BY <2>2 DEF Release, MayRelease, HeldByOtherEver, NoLock
  <2>3. ASSUME NEW q \in Rma, Expire(q) PROVE Kept(r)
    BY <2>3 DEF Expire
  <2>4. CASE UNCHANGED locks
    BY <2>4
  <2>. QED BY <2>1, <2>2, <2>3, <2>4
         DEF Next, Serve, Post, AssertAvailable, WithoutKey, ClaimIdempotency, Write,
             Respond, Reject, Redispatch, FinishIdempotency, FailIdempotency,
             PersistFails, Crash, vars
<1>2. [][\A r \in Rma : Kept(r)]_vars <=> LeaseIsKept
  BY DEF LeaseIsKept
<1>. QED BY <1>1, <1>2, IInvHolds, PTL DEF Spec
=============================================================================
