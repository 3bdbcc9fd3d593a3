---------------------------- MODULE Coordination ----------------------------
(***************************************************************************)
(* What every POST request of server.js goes through: the check of the     *)
(* order's lease and the claim of its idempotency key, kept by             *)
(* database/work-coordination-store.js, then the handler, and, once the    *)
(* response is sent, the record of its outcome under the key.              *)
(*                                                                         *)
(* An update of the store is queued and rewrites its document, so it is    *)
(* one step; the check of the lease is a read outside that queue.  Between *)
(* any two steps of a request the steps of others come in.  Keys are       *)
(* scoped by user, so a key here stands for a user's key.                  *)
(***************************************************************************)
EXTENDS Naturals, FiniteSets

CONSTANTS
  User,
  Admin,       \* the users with the role ADMIN
  Rma,         \* repair orders
  Key,         \* idempotency keys
  Slot,        \* requests in progress; bounds the concurrent ones
  MaxCrashes   \* bound on restarts and on writes of an outcome that fail

ASSUME CoordinationAssumption ==
  /\ Admin \subseteq User
  /\ MaxCrashes \in Nat

VARIABLES
  locks,      \* the leases, one record per order
  keys,       \* the idempotency records
  requests,   \* the POST requests in progress
  succeeded,  \* history: handlers that succeeded under the key
  crashes     \* restarts and lost outcomes so far

vars == <<locks, keys, requests, succeeded, crashes>>

-----------------------------------------------------------------------------

NoUser == "NO_USER"

NoKey == "NO_KEY"

\* live: the ten minutes of the lease are not over.
Lock == [owner: User \cup {NoUser}, live: BOOLEAN]

NoLock == [owner |-> NoUser, live |-> FALSE]

KeyState == {"FREE", "PROCESSING", "SUCCESS"}

ScopedKey == User \X Key

\* WRITE stands for the handlers that change the order, LEGACY for
\* /queryRepair, which hands its request to the application once more.
Kind == {"WRITE", "LEGACY", "LOCK", "UNLOCK"}

\* WAITING: before the check of the lease.  CHECKED: before the claim.
\* WROTE: the order is changed, the handler goes on.  ANSWERED and REFUSED:
\* the response is sent, its outcome is still to be recorded.
Pc == {"IDLE", "WAITING", "CHECKED", "HANDLING", "WROTE", "ANSWERED", "REFUSED"}

\* claimed: the request holds its key and its response will be recorded.
Request ==
  [pc: Pc, user: User \cup {NoUser}, rma: Rma \cup {"NO_RMA"},
   key: Key \cup {NoKey}, kind: Kind, claimed: BOOLEAN]

IdleRequest ==
  [pc |-> "IDLE", user |-> NoUser, rma |-> "NO_RMA", key |-> NoKey,
   kind |-> "WRITE", claimed |-> FALSE]

KeyOf(s) == <<requests[s].user, requests[s].key>>

Goto(s, pc) == requests' = [requests EXCEPT ![s].pc = pc]

End(s) == requests' = [requests EXCEPT ![s] = IdleRequest]

-----------------------------------------------------------------------------
(* The middleware.                                                         *)

Post(s, u, r, k, kind) ==
  /\ requests[s].pc = "IDLE"
  /\ requests' = [requests EXCEPT ![s] =
       [pc |-> "WAITING", user |-> u, rma |-> r, key |-> k, kind |-> kind,
        claimed |-> FALSE]]
  /\ UNCHANGED <<locks, keys, succeeded, crashes>>

HeldByOtherEver(r, u) == locks[r].owner \notin {u, NoUser}

HeldByOtherOnceOver(r, u) == ~locks[r].live /\ HeldByOtherEver(r, u)

HeldByOther(r, u) == locks[r].live /\ locks[r].owner # u

\* assertAvailable.  The refusal goes through the wrapped response if the
\* request had claimed its key.
AssertAvailable(s) ==
  /\ requests[s].pc = "WAITING"
  /\ IF HeldByOther(requests[s].rma, requests[s].user)
       THEN Goto(s, "REFUSED")
       ELSE Goto(s, "CHECKED")
  /\ UNCHANGED <<locks, keys, succeeded, crashes>>

WithoutKey(s) ==
  /\ requests[s].pc = "CHECKED"
  /\ requests[s].key = NoKey
  /\ Goto(s, "HANDLING")
  /\ UNCHANGED <<locks, keys, succeeded, crashes>>

ClaimableAfterSuccess == {"FREE", "SUCCESS"}

ClaimableTwice == {"FREE", "PROCESSING"}

Claimable == {"FREE"}

\* claimIdempotency, on a key that has no record, on one whose recorded
\* response is sent again, and on one that is being processed.
ClaimIdempotency(s) ==
  /\ requests[s].pc = "CHECKED"
  /\ requests[s].key # NoKey
  /\ \/ /\ keys[KeyOf(s)] \in Claimable
        /\ keys' = [keys EXCEPT ![KeyOf(s)] = "PROCESSING"]
        /\ requests' = [requests EXCEPT ![s] =
                          [@ EXCEPT !.pc = "HANDLING", !.claimed = TRUE]]
     \/ /\ keys[KeyOf(s)] = "SUCCESS"
        /\ End(s)
        /\ UNCHANGED keys
     \/ /\ keys[KeyOf(s)] = "PROCESSING"
        /\ Goto(s, "REFUSED")
        /\ UNCHANGED keys
  /\ UNCHANGED <<locks, succeeded, crashes>>

-----------------------------------------------------------------------------
(* The handlers.                                                           *)

\* The handler awaited something and now changes the order.
Write(s) ==
  /\ requests[s].pc = "HANDLING"
  /\ requests[s].kind = "WRITE"
  /\ Goto(s, "WROTE")
  /\ UNCHANGED <<locks, keys, succeeded, crashes>>

\* The response, a success by its status code.
Answer(s) ==
  /\ Goto(s, "ANSWERED")
  /\ succeeded' = IF requests[s].key = NoKey THEN succeeded
                  ELSE [succeeded EXCEPT ![KeyOf(s)] = @ + 1]

Respond(s) ==
  /\ requests[s].pc = "WROTE"
  /\ Answer(s)
  /\ UNCHANGED <<locks, keys, crashes>>

\* The handler fails before or after it changed the order.
Reject(s) ==
  /\ \/ requests[s].pc = "WROTE"
     \/ requests[s].pc = "HANDLING" /\ requests[s].kind = "WRITE"
  /\ Goto(s, "REFUSED")
  /\ UNCHANGED <<locks, keys, succeeded, crashes>>

\* /queryRepair: the same request enters the middleware again.
Redispatch(s) ==
  /\ requests[s].pc = "HANDLING"
  /\ requests[s].kind = "LEGACY"
  /\ requests' = [requests EXCEPT ![s] =
                    [@ EXCEPT !.pc = "WAITING", !.kind = "WRITE"]]
  /\ UNCHANGED <<locks, keys, succeeded, crashes>>

Acquire(s) ==
  /\ requests[s].pc = "HANDLING"
  /\ requests[s].kind = "LOCK"
  /\ LET r == requests[s].rma
         u == requests[s].user IN
       \/ /\ HeldByOther(r, u)
          /\ Goto(s, "REFUSED")
          /\ UNCHANGED <<locks, succeeded>>
       \/ /\ ~HeldByOther(r, u)
          /\ locks' = [locks EXCEPT ![r] = [owner |-> u, live |-> TRUE]]
          /\ Answer(s)
  /\ UNCHANGED <<keys, crashes>>

\* Only the owner or an administrator, whether the lease is over or not.
MayRelease(r, u) == ~HeldByOtherEver(r, u) \/ u \in Admin

Release(s) ==
  /\ requests[s].pc = "HANDLING"
  /\ requests[s].kind = "UNLOCK"
  /\ LET r == requests[s].rma
         u == requests[s].user IN
       \/ /\ ~MayRelease(r, u)
          /\ Goto(s, "REFUSED")
          /\ UNCHANGED <<locks, succeeded>>
       \/ /\ MayRelease(r, u)
          /\ locks' = [locks EXCEPT ![r] = NoLock]
          /\ Answer(s)
  /\ UNCHANGED <<keys, crashes>>

-----------------------------------------------------------------------------
(* The outcome is recorded after the response is on its way.               *)

FinishIdempotency(s) ==
  /\ requests[s].pc = "ANSWERED"
  /\ keys' = IF requests[s].claimed THEN [keys EXCEPT ![KeyOf(s)] = "SUCCESS"]
                                    ELSE keys
  /\ End(s)
  /\ UNCHANGED <<locks, succeeded, crashes>>

KeyAfterFailureKept == "PROCESSING"

\* The record is deleted, so that the client may try again.
KeyAfterFailure == "FREE"

FailIdempotency(s) ==
  /\ requests[s].pc = "REFUSED"
  /\ keys' = IF requests[s].claimed THEN [keys EXCEPT ![KeyOf(s)] = KeyAfterFailure]
                                    ELSE keys
  /\ End(s)
  /\ UNCHANGED <<locks, succeeded, crashes>>

-----------------------------------------------------------------------------
(* Time and failures.                                                      *)

Expire(r) ==
  /\ locks[r].live
  /\ locks' = [locks EXCEPT ![r].live = FALSE]
  /\ UNCHANGED <<keys, requests, succeeded, crashes>>

\* The outcome cannot be written; the handler of the promise only logs it.
PersistFails(s) ==
  /\ crashes < MaxCrashes
  /\ crashes' = crashes + 1
  /\ requests[s].pc \in {"ANSWERED", "REFUSED"}
  /\ End(s)
  /\ UNCHANGED <<locks, keys, succeeded>>

Crash ==
  /\ crashes < MaxCrashes
  /\ crashes' = crashes + 1
  /\ requests' = [s \in Slot |-> IdleRequest]
  /\ UNCHANGED <<locks, keys, succeeded>>

-----------------------------------------------------------------------------

Init ==
  /\ locks = [r \in Rma |-> NoLock]
  /\ keys = [k \in ScopedKey |-> "FREE"]
  /\ requests = [s \in Slot |-> IdleRequest]
  /\ succeeded = [k \in ScopedKey |-> 0]
  /\ crashes = 0

Serve(s) ==
  \/ AssertAvailable(s) \/ WithoutKey(s) \/ ClaimIdempotency(s)
  \/ Write(s) \/ Respond(s) \/ Reject(s) \/ Redispatch(s)
  \/ Acquire(s) \/ Release(s)
  \/ FinishIdempotency(s) \/ FailIdempotency(s)

Next ==
  \/ \E s \in Slot, u \in User, r \in Rma, k \in Key \cup {NoKey}, kind \in Kind :
       Post(s, u, r, k, kind)
  \/ \E s \in Slot : Serve(s) \/ PersistFails(s)
  \/ \E r \in Rma : Expire(r)
  \/ Crash

Spec == Init /\ [][Next]_vars

\* The event loop serves every request that is waiting: what a handler awaits
\* answers or fails in the end.
FairSpec == Spec /\ \A s \in Slot : WF_vars(Serve(s))

-----------------------------------------------------------------------------
(* Properties.                                                             *)

\* The document and the requests have the shape the code gives them.
TypeOK ==
  /\ locks \in [Rma -> Lock]
  /\ keys \in [ScopedKey -> KeyState]
  /\ requests \in [Slot -> Request]
  /\ succeeded \in [ScopedKey -> Nat]
  /\ crashes \in Nat

\* However often a client repeats a request with its key, while it runs, after
\* it failed, or across a restart that lost its outcome, its handler succeeds
\* at most once.
SucceedsOncePerKey == \A k \in ScopedKey : succeeded[k] <= 1

\* The recorded response is the response of a handler that succeeded.
RecordedMeansSucceeded ==
  \A k \in ScopedKey : keys[k] = "SUCCESS" => succeeded[k] = 1

\* Two requests with the same key are never handled at the same time.
OneHandlerPerKey ==
  \A s1, s2 \in Slot :
    /\ requests[s1].claimed
    /\ requests[s2].claimed
    /\ KeyOf(s1) = KeyOf(s2)
    => s1 = s2

\* A live lease ends before its time only by a request of its owner or by an
\* administrator's unlock, although the check of the middleware and the update
\* of the lease are two steps.
LeaseIsKept ==
  [][\A r \in Rma :
       locks[r].live /\ locks'[r].owner # locks[r].owner =>
         \E s \in Slot :
           /\ requests[s].rma = r
           /\ requests[s].kind = "UNLOCK"
           /\ requests[s].user \in Admin \cup {locks[r].owner}]_vars

\* A key is not left in processing: its request ends, and its outcome is
\* recorded or the key freed, as long as the backend runs on and its writes
\* succeed.
KeysSettle ==
  \A k \in ScopedKey :
    keys[k] = "PROCESSING" ~> keys[k] # "PROCESSING" \/ crashes > 0

\* docs/PRODUCTION_DEPLOYMENT.md:22: a completed request is answered with its
\* first result, so the outcome of a successful handler is recorded in the end.
\* The code does not keep this (README).
CompletedKeysReplay ==
  \A k \in ScopedKey : succeeded[k] = 1 ~> keys[k] = "SUCCESS"
=============================================================================
