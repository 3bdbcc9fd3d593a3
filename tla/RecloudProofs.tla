--------------------------- MODULE RecloudProofs ----------------------------
(***************************************************************************)
(* Proofs about RecloudSession, for any set of calls and with or without   *)
(* login by password, and about RmaQuery, the query made in the browser    *)
(* of the session, for any orders and phone numbers.                       *)
(*                                                                         *)
(* Of the session three invariants stand on their own: what the lock file  *)
(* says (LockNamesHolder), what it is held for (LockServesBrowser) and how *)
(* many submissions are allowed (LoginBudget).  SessionIsOne is the one    *)
(* that needs the control of all the activities together, and holds until  *)
(* the backend is told to stop.                                            *)
(*                                                                         *)
(* Of a query the invariant is that a call that has loaded the scan page   *)
(* is alone with the answers to its own query.                             *)
(***************************************************************************)
EXTENDS RecloudSession, RmaQuery, FiniteSetTheorems, TLAPS

\* The head of the queue is at work only for a call.
OpHasCall == pc["OP"] # "IDLE" => queue # <<>>

Typed == TypeOK /\ OpHasCall

\* The process holds the lock exactly when the lock file names it.
LockNamesHolder == held <=> lock = "SELF"

\* A submission that is still to come is allowed by attempted.
Submits(a) == IF pc[a] = "LOGIN" THEN 1 ELSE 0

Allowed == IF attempted THEN 1 ELSE 0

\* A submission left over from before the last authenticated visit.
LeftOver == IF overtaken THEN 1 ELSE 0

LoginBudget == logins + Submits("OP") + Submits("OPENING") <= Allowed + LeftOver

\* A browser starts, is worked in or is closed, one at a time and the first two
\* under the lock; what runs is the browser that is worked in or closed.
SessionIsOne ==
  /\ pc["INIT"] \notin {"CLOSING", "CLOSED"}
  /\ pc["INIT"] = "CALL" => queue = <<>> /\ pc["OP"] = "IDLE" /\ pc["OPENING"] = "IDLE"
  /\ pc["OPENING"] = "LAUNCH" =>
       context = 0 /\ held /\ pc["OP"] \in {"IDLE", "CALL", "WAIT"}
  /\ pc["OPENING"] = "CLOSING" => context = 0 /\ pc["OP"] # "CLOSING"
  /\ pc["OP"] \in {"CLOSING", "CLOSED"} => context = 0
  /\ context # 0 => held
  /\ \A b \in running :
       \/ b = context /\ context # 0
       \/ \E a \in {"OP", "OPENING"} : pc[a] = "CLOSING" /\ closing[a] = b

OneUntilStopped == ~Stopped => SessionIsOne

\* The inductive invariant.
Inv ==
  /\ Typed
  /\ LockNamesHolder
  /\ LockServesBrowser
  /\ LoginBudget
  /\ OneUntilStopped

-----------------------------------------------------------------------------
(* Where the shared parts of the steps leave the activities.               *)

\* The activities after the opening has settled.
LEMMA SettledIs ==
  ASSUME TypeOK, NEW ready \in BOOLEAN, NEW f, f = SettleOpening(ready)
  PROVE  /\ f \in [Activity -> Pc]
         /\ f["OPENING"] = "IDLE"
         /\ \A a \in {"INIT", "OP"} : pc[a] # "WAIT" => f[a] = pc[a]
         /\ f["STOP"] = "IDLE" => pc["STOP"] = "IDLE"
         /\ pc["INIT"] = "WAIT" => f["INIT"] \in {"WAIT", "DONE"}
         /\ pc["OP"] = "WAIT" => f["OP"] \in {"OPERATE", "FAILED"}
<1>1. \A a \in Activity : f[a] \in Pc
  BY DEF SettleOpening, Resumed, TypeOK, Activity, Pc
<1>2. f \in [Activity -> Pc]
  BY <1>1 DEF SettleOpening
<1> QED
  BY <1>2 DEF SettleOpening, Resumed, Activity

\* And after ensureOpen has come back to one of them.
LEMMA ReturnedIs ==
  ASSUME TypeOK, NEW ready \in BOOLEAN, NEW a \in {"OP", "OPENING"},
         pc[a] \in {"GOTO", "LOGIN", "SUBMITTED"}, NEW f, f = Returned(a, ready)
  PROVE  /\ f \in [Activity -> Pc]
         /\ f["OPENING"] = IF a = "OPENING" THEN "IDLE" ELSE pc["OPENING"]
         /\ pc["INIT"] # "WAIT" => f["INIT"] = pc["INIT"]
         /\ pc["INIT"] = "WAIT" => f["INIT"] \in {"WAIT", "DONE"}
         /\ f["STOP"] = "IDLE" => pc["STOP"] = "IDLE"
         /\ a = "OP" => f["OP"] \in {"OPERATE", "FAILED"}
         /\ a = "OPENING" /\ pc["OP"] # "WAIT" => f["OP"] = pc["OP"]
         /\ a = "OPENING" /\ pc["OP"] = "WAIT" => f["OP"] \in {"OPERATE", "FAILED"}
<1>1. CASE a = "OPENING"
  BY <1>1, SettledIs DEF Returned
<1>2. CASE a = "OP"
  BY <1>2 DEF Returned, Resumed, TypeOK, Activity, Pc
<1> QED
  BY <1>1, <1>2

\* A close leaves the document of the session in its shape.
LEMMA CloseTyped ==
  ASSUME TypeOK, NEW a \in Activity, NEW end \in [Activity -> Pc], Close(a, end)
  PROVE  /\ lock' \in {"NONE", "SELF", "OTHER"} /\ held' \in BOOLEAN
         /\ context' \in Nat /\ page' \in BOOLEAN
         /\ running' = running /\ launched' = launched
         /\ pc' \in [Activity -> Pc] /\ closing' \in [Activity -> Nat]
<1>1. CASE AwaitsBrowser
  <2>1. pc' \in [Activity -> Pc]
    BY <1>1 DEF Close, TypeOK, Pc
  <2> QED
    BY <1>1, <2>1 DEF Close, TypeOK
<1>2. CASE ~AwaitsBrowser
  BY <1>2 DEF Close, ReleaseProfileLock, TypeOK
<1> QED
  BY <1>1, <1>2

-----------------------------------------------------------------------------
(* Types.                                                                  *)

LEMMA CloseOpeningTyped ==
  ASSUME Typed, Close("OPENING", SettleOpening(FALSE)), UNCHANGED <<login, requests>>
  PROVE  Typed'
<1>1. SettleOpening(FALSE) \in [Activity -> Pc] /\ "OPENING" \in Activity
  BY SettledIs DEF Typed, Activity
<1>2. TypeOK'
  BY <1>1, CloseTyped DEF Typed, TypeOK, login, requests
<1>3. pc["OP"] = "IDLE" => pc'["OP"] = "IDLE"
  <2>1. pc' = SettleOpening(FALSE) \/ pc' = [pc EXCEPT !["OPENING"] = "CLOSING"]
    BY DEF Close
  <2> QED
    BY <2>1, SettledIs DEF Typed, TypeOK, Activity
<1> QED
  BY <1>2, <1>3 DEF Typed, OpHasCall, requests

LEMMA ReturnedTyped ==
  ASSUME Typed, NEW a \in {"OP", "OPENING"}, pc[a] \in {"GOTO", "LOGIN", "SUBMITTED"},
         NEW ready \in BOOLEAN, pc' = Returned(a, ready),
         UNCHANGED <<lock, held, session, closing, requests>>,
         attempted' \in BOOLEAN, logins' \in Nat, overtaken' \in BOOLEAN
  PROVE  Typed'
<1>1. pc' \in [Activity -> Pc] /\ (pc["OP"] = "IDLE" => pc'["OP"] = "IDLE")
  BY ReturnedIs DEF Typed
<1> QED
  BY <1>1 DEF Typed, TypeOK, OpHasCall, session, requests

LEMMA ReadyTyped ==
  ASSUME Typed, NEW a \in {"OP", "OPENING"}, pc[a] \in {"GOTO", "LOGIN", "SUBMITTED"},
         Ready(a), UNCHANGED requests
  PROVE  Typed'
<1>1. attempted' = FALSE /\ logins' = 0 /\ overtaken' \in BOOLEAN
  BY DEF Ready
<1>2. attempted' \in BOOLEAN
  BY <1>1
<1>3. logins' \in Nat /\ overtaken' \in BOOLEAN
  BY <1>1
<1> QED
  BY <1>2, <1>3, ReturnedTyped DEF Ready

LEMMA ThrowTyped ==
  ASSUME Typed, NEW a \in {"OP", "OPENING"}, pc[a] \in {"GOTO", "LOGIN", "SUBMITTED"},
         NEW recoverable \in BOOLEAN, Throw(a, recoverable), UNCHANGED <<login, requests>>
  PROVE  Typed'
<1>1. CASE a = "OPENING" /\ ~recoverable
  BY <1>1, CloseOpeningTyped DEF Throw
<1>2. CASE ~(a = "OPENING" /\ ~recoverable)
  <2>1. attempted' \in BOOLEAN /\ logins' \in Nat /\ overtaken' \in BOOLEAN
    BY DEF login, Typed, TypeOK
  <2> QED
    BY <1>2, <2>1, ReturnedTyped DEF Throw
<1> QED
  BY <1>1, <1>2

\* Every step keeps the variables in their types, and the head of the queue has
\* the call it works for.
LEMMA TypedStep ==
  Typed /\ [Next]_vars => Typed'
<1> SUFFICES ASSUME Typed, [Next]_vars
             PROVE  Typed'
  OBVIOUS
<1> USE DEF session, requests, login
<1>1. ASSUME BeginOp
      PROVE  Typed'
  BY <1>1 DEF BeginOp, Typed, TypeOK, OpHasCall, Activity, Pc, Outcome
<1>2. ASSUME EndOp
      PROVE  Typed'
  BY <1>2 DEF EndOp, Typed, TypeOK, OpHasCall, Activity, Pc, Outcome
<1>3. ASSUME NewPage
      PROVE  Typed'
  <2>1. pc["OP"] = "NEW_PAGE" /\ queue # <<>>
    BY <1>3 DEF NewPage, Typed, OpHasCall
  <2>2. UNCHANGED <<login, requests>>
    BY <1>3 DEF NewPage
  <2>3. CASE page' = TRUE /\ pc' = [pc EXCEPT !["OP"] = "GOTO"]
             /\ UNCHANGED <<lock, held, context, running, launched, closing>>
    BY <2>1, <2>2, <2>3 DEF Typed, TypeOK, OpHasCall, Activity, Pc, Outcome
  <2>4. CASE Close("OP", [pc EXCEPT !["OP"] = "CLOSED"])
    <3>1. [pc EXCEPT !["OP"] = "CLOSED"] \in [Activity -> Pc] /\ "OP" \in Activity
      BY DEF Typed, TypeOK, OpHasCall, Activity, Pc, Outcome
    <3>2. TypeOK'
      BY <2>2, <2>4, <3>1, CloseTyped DEF Typed, TypeOK
    <3> QED
      BY <2>1, <2>2, <3>2 DEF Typed, OpHasCall
  <2> QED
    BY <1>3, <2>3, <2>4 DEF NewPage
<1>4. ASSUME Launch
      PROVE  Typed'
  <2>1. UNCHANGED <<login, requests>>
    BY <1>4 DEF Launch
  <2>2. CASE Close("OPENING", SettleOpening(FALSE))
    BY <2>1, <2>2, CloseOpeningTyped
  <2>3. CASE /\ launched' = launched + 1
             /\ context' = launched'
             /\ running' = running \cup {launched'}
             /\ page' = TRUE
             /\ pc' = [pc EXCEPT !["OPENING"] = "GOTO"]
             /\ UNCHANGED <<lock, held, closing>>
    BY <2>1, <2>3 DEF Typed, TypeOK, OpHasCall, Activity, Pc, Outcome
  <2> QED
    BY <1>4, <2>2, <2>3 DEF Launch
<1>5. ASSUME NEW a \in {"INIT", "OP"}, EnsureOpen(a)
      PROVE  Typed'
  <2>1. pc[a] \in {"CALL", "CLOSED"} /\ UNCHANGED <<session, login, closing, requests>>
    BY <1>5 DEF EnsureOpen, OpenOnce
  <2>2. lock' \in {"NONE", "SELF", "OTHER"} /\ held' \in BOOLEAN
    BY <1>5 DEF EnsureOpen, OpenOnce, AcquireProfileLock, Typed, TypeOK
  <2>3. pc' \in [Activity -> Pc] /\ (pc'["OP"] # "IDLE" => pc["OP"] # "IDLE")
    BY <1>5 DEF EnsureOpen, OpenOnce, Resumed, Typed, TypeOK, OpHasCall, Activity, Pc,
       Outcome
  <2> QED
    BY <2>1, <2>2, <2>3 DEF Typed, TypeOK, OpHasCall
<1>6. ASSUME NEW a \in {"OP", "OPENING"}, Goto(a)
      PROVE  Typed'
  <2>1. pc[a] = "GOTO" /\ UNCHANGED requests
    BY <1>6 DEF Goto
  <2>2. CASE Ready(a)
    BY <2>1, <2>2, ReadyTyped
  <2>3. CASE pc' = Returned(a, FALSE) /\ UNCHANGED <<lock, held, session, closing, login>>
    <3>1. attempted' \in BOOLEAN /\ logins' \in Nat /\ overtaken' \in BOOLEAN
      BY <2>3 DEF Typed, TypeOK
    <3> QED
      BY <2>1, <2>3, <3>1, ReturnedTyped
  <2>4. CASE /\ attempted' = TRUE
             /\ pc' = [pc EXCEPT ![a] = "LOGIN"]
             /\ UNCHANGED <<lock, held, session, closing, logins, overtaken>>
    BY <2>1, <2>4 DEF Typed, TypeOK, OpHasCall, Activity, Pc, Outcome
  <2>5. CASE Throw(a, FALSE) /\ UNCHANGED login
    BY <2>1, <2>5, ThrowTyped
  <2> QED
    BY <1>6, <2>2, <2>3, <2>4, <2>5 DEF Goto
<1>7. ASSUME NEW a \in {"OP", "OPENING"}, AutofillLoginOnce(a)
      PROVE  Typed'
  <2>1. pc[a] = "LOGIN" /\ UNCHANGED requests
    BY <1>7 DEF AutofillLoginOnce
  <2>2. CASE /\ logins' = logins + 1
             /\ pc' = [pc EXCEPT ![a] = "SUBMITTED"]
             /\ UNCHANGED <<lock, held, session, closing, attempted, overtaken>>
    BY <2>1, <2>2 DEF Typed, TypeOK, OpHasCall, Activity, Pc, Outcome
  <2>3. CASE \E recoverable \in BOOLEAN : Throw(a, recoverable) /\ UNCHANGED login
    BY <2>1, <2>3, ThrowTyped
  <2> QED
    BY <1>7, <2>2, <2>3 DEF AutofillLoginOnce
<1>8. ASSUME NEW a \in {"OP", "OPENING"}, AfterLogin(a)
      PROVE  Typed'
  <2>1. pc[a] = "SUBMITTED" /\ UNCHANGED requests
    BY <1>8 DEF AfterLogin
  <2>2. CASE Ready(a)
    BY <2>1, <2>2, ReadyTyped
  <2>3. CASE \E recoverable \in BOOLEAN : Throw(a, recoverable) /\ UNCHANGED login
    BY <2>1, <2>3, ThrowTyped
  <2> QED
    BY <1>8, <2>2, <2>3 DEF AfterLogin
<1>9. ASSUME NEW a \in Activity, CloseEnds(a)
      PROVE  Typed'
  BY <1>9 DEF CloseEnds, AfterClose, ReleaseProfileLock, SettleOpening, Resumed,
     Typed, TypeOK, OpHasCall, Activity, Pc, Outcome
<1>10. ASSUME Shutdown
      PROVE  Typed'
  <2>1. [pc EXCEPT !["STOP"] = "DONE"] \in [Activity -> Pc] /\ "STOP" \in Activity
    BY DEF Typed, TypeOK, OpHasCall, Activity, Pc, Outcome
  <2>2. TypeOK'
    BY <1>10, <2>1, CloseTyped DEF Shutdown, Typed, TypeOK
  <2>3. pc'["OP"] = pc["OP"]
    BY <1>10 DEF Shutdown, Close, Typed, TypeOK, OpHasCall, Activity, Pc, Outcome
  <2> QED
    BY <1>10, <2>2, <2>3 DEF Shutdown, Typed, OpHasCall
<1>11. ASSUME NEW r \in Request, Enqueue(r)
      PROVE  Typed'
  BY <1>11 DEF Enqueue, Typed, TypeOK, OpHasCall, Activity, Pc, Outcome
<1>12. ASSUME PageCloses
      PROVE  Typed'
  BY <1>12 DEF PageCloses, Typed, TypeOK, OpHasCall, Activity, Pc, Outcome
<1>13. ASSUME OtherTakes
      PROVE  Typed'
  BY <1>13 DEF OtherTakes, Typed, TypeOK, OpHasCall, Activity, Pc, Outcome
<1>14. ASSUME OtherReleases
      PROVE  Typed'
  BY <1>14 DEF OtherReleases, Typed, TypeOK, OpHasCall, Activity, Pc, Outcome
<1>15. CASE UNCHANGED vars
  BY <1>15 DEF vars, Typed, TypeOK, OpHasCall, Activity, Pc, Outcome
<1> QED
  BY <1>1, <1>2, <1>3, <1>4, <1>5, <1>6, <1>7, <1>8, <1>9, <1>10, <1>11, <1>12, <1>13,
     <1>14, <1>15 DEF Next, Turn

-----------------------------------------------------------------------------
(* The lock and the login.                                                 *)

\* The file and the manager agree about the lock.
LEMMA LockNamesHolderStep ==
  LockNamesHolder /\ [Next]_vars => LockNamesHolder'
<1> SUFFICES ASSUME LockNamesHolder, [Next]_vars
             PROVE  LockNamesHolder'
  OBVIOUS
<1> USE DEF session, requests, login
<1>1. ASSUME BeginOp
      PROVE  LockNamesHolder'
  BY <1>1 DEF BeginOp, LockNamesHolder
<1>2. ASSUME EndOp
      PROVE  LockNamesHolder'
  BY <1>2 DEF EndOp, LockNamesHolder
<1>3. ASSUME NewPage
      PROVE  LockNamesHolder'
  BY <1>3 DEF NewPage, Close, ReleaseProfileLock, AwaitsBrowser, LockNamesHolder
<1>4. ASSUME Launch
      PROVE  LockNamesHolder'
  BY <1>4 DEF Launch, Close, ReleaseProfileLock, AwaitsBrowser, SettleOpening,
     Resumed, LockNamesHolder
<1>5. ASSUME NEW a \in {"INIT", "OP"}, EnsureOpen(a)
      PROVE  LockNamesHolder'
  BY <1>5 DEF EnsureOpen, OpenOnce, AcquireProfileLock, Resumed, LockNamesHolder
<1>6. ASSUME NEW a \in {"OP", "OPENING"}, Goto(a)
      PROVE  LockNamesHolder'
  BY <1>6 DEF Goto, MayLogin, Ready, Throw, Close, ReleaseProfileLock, AwaitsBrowser,
     Returned, SettleOpening, Resumed, LockNamesHolder
<1>7. ASSUME NEW a \in {"OP", "OPENING"}, AutofillLoginOnce(a)
      PROVE  LockNamesHolder'
  BY <1>7 DEF AutofillLoginOnce, Throw, Close, ReleaseProfileLock, AwaitsBrowser,
     Returned, SettleOpening, Resumed, LockNamesHolder
<1>8. ASSUME NEW a \in {"OP", "OPENING"}, AfterLogin(a)
      PROVE  LockNamesHolder'
  BY <1>8 DEF AfterLogin, Ready, Throw, Close, ReleaseProfileLock, AwaitsBrowser,
     Returned, SettleOpening, Resumed, LockNamesHolder
<1>9. ASSUME NEW a \in Activity, CloseEnds(a)
      PROVE  LockNamesHolder'
  BY <1>9 DEF CloseEnds, AfterClose, ReleaseProfileLock, SettleOpening, Resumed,
     LockNamesHolder
<1>10. ASSUME Shutdown
      PROVE  LockNamesHolder'
  BY <1>10 DEF Shutdown, Close, ReleaseProfileLock, AwaitsBrowser, LockNamesHolder
<1>11. ASSUME NEW r \in Request, Enqueue(r)
      PROVE  LockNamesHolder'
  BY <1>11 DEF Enqueue, LockNamesHolder
<1>12. ASSUME PageCloses
      PROVE  LockNamesHolder'
  BY <1>12 DEF PageCloses, LockNamesHolder
<1>13. ASSUME OtherTakes
      PROVE  LockNamesHolder'
  BY <1>13 DEF OtherTakes, LockNamesHolder
<1>14. ASSUME OtherReleases
      PROVE  LockNamesHolder'
  BY <1>14 DEF OtherReleases, LockNamesHolder
<1>15. CASE UNCHANGED vars
  BY <1>15 DEF vars, LockNamesHolder
<1> QED
  BY <1>1, <1>2, <1>3, <1>4, <1>5, <1>6, <1>7, <1>8, <1>9, <1>10, <1>11, <1>12, <1>13,
     <1>14, <1>15 DEF Next, Turn

\* Whoever has the lock has a browser, starts one or closes one.
LEMMA LockServesBrowserStep ==
  TypeOK /\ LockServesBrowser /\ [Next]_vars => LockServesBrowser'
<1> SUFFICES ASSUME TypeOK /\ LockServesBrowser, [Next]_vars
             PROVE  LockServesBrowser'
  OBVIOUS
<1> USE DEF session, requests, login
<1>1. ASSUME BeginOp
      PROVE  LockServesBrowser'
  BY <1>1 DEF BeginOp, TypeOK, LockServesBrowser, Activity
<1>2. ASSUME EndOp
      PROVE  LockServesBrowser'
  BY <1>2 DEF EndOp, TypeOK, LockServesBrowser, Activity
<1>3. ASSUME NewPage
      PROVE  LockServesBrowser'
  BY <1>3 DEF NewPage, Close, ReleaseProfileLock, AwaitsBrowser, TypeOK,
     LockServesBrowser, Activity
<1>4. ASSUME Launch
      PROVE  LockServesBrowser'
  <2>1. CASE context' = launched'/\ launched' = launched + 1
    BY <2>1 DEF TypeOK, LockServesBrowser
  <2>2. CASE Close("OPENING", SettleOpening(FALSE))
    <3>1. CASE AwaitsBrowser
      <4>1. pc'["OPENING"] = "CLOSING" /\ "OPENING" \in Activity
        BY <2>2, <3>1 DEF Close, TypeOK, Activity
      <4> QED
        BY <4>1 DEF LockServesBrowser
    <3>2. CASE ~AwaitsBrowser
      BY <2>2, <3>2 DEF Close, ReleaseProfileLock, LockServesBrowser
    <3> QED
      BY <3>1, <3>2
  <2> QED
    BY <1>4, <2>1, <2>2 DEF Launch
<1>5. ASSUME NEW a \in {"INIT", "OP"}, EnsureOpen(a)
      PROVE  LockServesBrowser'
  BY <1>5 DEF EnsureOpen, OpenOnce, AcquireProfileLock, Resumed, TypeOK,
     LockServesBrowser, Activity
<1>6. ASSUME NEW a \in {"OP", "OPENING"}, Goto(a)
      PROVE  LockServesBrowser'
  BY <1>6 DEF Goto, MayLogin, Ready, Throw, Close, ReleaseProfileLock, AwaitsBrowser,
     Returned, SettleOpening, Resumed, TypeOK, LockServesBrowser, Activity
<1>7. ASSUME NEW a \in {"OP", "OPENING"}, AutofillLoginOnce(a)
      PROVE  LockServesBrowser'
  BY <1>7 DEF AutofillLoginOnce, Throw, Close, ReleaseProfileLock, AwaitsBrowser,
     Returned, SettleOpening, Resumed, TypeOK, LockServesBrowser, Activity
<1>8. ASSUME NEW a \in {"OP", "OPENING"}, AfterLogin(a)
      PROVE  LockServesBrowser'
  BY <1>8 DEF AfterLogin, Ready, Throw, Close, ReleaseProfileLock, AwaitsBrowser,
     Returned, SettleOpening, Resumed, TypeOK, LockServesBrowser, Activity
<1>9. ASSUME NEW a \in Activity, CloseEnds(a)
      PROVE  LockServesBrowser'
  BY <1>9 DEF CloseEnds, AfterClose, ReleaseProfileLock, SettleOpening, Resumed,
     TypeOK, LockServesBrowser, Activity
<1>10. ASSUME Shutdown
      PROVE  LockServesBrowser'
  BY <1>10 DEF Shutdown, Close, ReleaseProfileLock, AwaitsBrowser, TypeOK,
     LockServesBrowser, Activity
<1>11. ASSUME NEW r \in Request, Enqueue(r)
      PROVE  LockServesBrowser'
  BY <1>11 DEF Enqueue, TypeOK, LockServesBrowser, Activity
<1>12. ASSUME PageCloses
      PROVE  LockServesBrowser'
  BY <1>12 DEF PageCloses, TypeOK, LockServesBrowser, Activity
<1>13. ASSUME OtherTakes
      PROVE  LockServesBrowser'
  BY <1>13 DEF OtherTakes, TypeOK, LockServesBrowser, Activity
<1>14. ASSUME OtherReleases
      PROVE  LockServesBrowser'
  BY <1>14 DEF OtherReleases, TypeOK, LockServesBrowser, Activity
<1>15. CASE UNCHANGED vars
  BY <1>15 DEF vars, TypeOK, LockServesBrowser, Activity
<1> QED
  BY <1>1, <1>2, <1>3, <1>4, <1>5, <1>6, <1>7, <1>8, <1>9, <1>10, <1>11, <1>12, <1>13,
     <1>14, <1>15 DEF Next, Turn

\* An authenticated visit leaves nothing to submit but what another activity is
\* about to.
LEMMA ReadyBudget ==
  ASSUME TypeOK, NEW a \in {"OP", "OPENING"}, pc[a] \in {"GOTO", "SUBMITTED"}, Ready(a)
  PROVE  LoginBudget'
<1>1. logins' = 0
  BY DEF Ready
<1>2. PICK b \in {"OP", "OPENING"} : b # a /\ {"OP", "OPENING"} = {a, b}
  OBVIOUS
<1>3. pc'[a] # "LOGIN" /\ (pc'[b] = "LOGIN" => pc[b] = "LOGIN")
  BY <1>2, TypeOK DEF Ready, Returned, SettleOpening, Resumed, TypeOK, Activity
<1>4. Submits(a)' = 0
  BY <1>3 DEF Submits
<1>5. Submits(b)' = 0 \/ (Submits(b)' = 1 /\ overtaken')
  <2>1. pc[b] = "LOGIN" => overtaken'
    BY <1>2 DEF Ready, Activity
  <2>. QED BY <1>3, <2>1 DEF Submits
<1>6. Submits("OP")' + Submits("OPENING")' <= LeftOver'
  BY <1>2, <1>4, <1>5 DEF LeftOver
<1>7. Allowed' \in {0, 1} /\ LeftOver' \in {0, 1} /\ Submits("OP")' \in {0, 1}
      /\ Submits("OPENING")' \in {0, 1}
  BY DEF Allowed, LeftOver, Submits
<1>. QED BY <1>1, <1>6, <1>7 DEF LoginBudget

\* attempted allows one submission, and only an authenticated visit resets it.
LEMMA LoginBudgetStep ==
  TypeOK /\ LoginBudget /\ [Next]_vars => LoginBudget'
<1> SUFFICES ASSUME TypeOK /\ LoginBudget, [Next]_vars
             PROVE  LoginBudget'
  OBVIOUS
<1> USE DEF session, requests, login
<1>1. ASSUME BeginOp
      PROVE  LoginBudget'
  BY <1>1 DEF BeginOp, TypeOK, LoginBudget, Submits, Allowed, LeftOver, Activity
<1>2. ASSUME EndOp
      PROVE  LoginBudget'
  BY <1>2 DEF EndOp, TypeOK, LoginBudget, Submits, Allowed, LeftOver, Activity
<1>3. ASSUME NewPage
      PROVE  LoginBudget'
  BY <1>3 DEF NewPage, Close, ReleaseProfileLock, AwaitsBrowser, TypeOK, LoginBudget,
     Submits, Allowed, LeftOver, Activity
<1>4. ASSUME Launch
      PROVE  LoginBudget'
  BY <1>4 DEF Launch, Close, ReleaseProfileLock, AwaitsBrowser, SettleOpening,
     Resumed, TypeOK, LoginBudget, Submits, Allowed, LeftOver, Activity
<1>5. ASSUME NEW a \in {"INIT", "OP"}, EnsureOpen(a)
      PROVE  LoginBudget'
  BY <1>5 DEF EnsureOpen, OpenOnce, AcquireProfileLock, Resumed, TypeOK, LoginBudget,
     Submits, Allowed, LeftOver, Activity
<1>6. ASSUME NEW a \in {"OP", "OPENING"}, Goto(a)
      PROVE  LoginBudget'
  <2>1. CASE page /\ Ready(a)
    BY <1>6, <2>1, ReadyBudget DEF Goto
  <2>2. CASE pc' = Returned(a, FALSE) /\ UNCHANGED login
    BY <1>6, <2>2 DEF Goto, Returned, SettleOpening, Resumed, TypeOK, LoginBudget,
       Submits, Allowed, LeftOver, Activity
  <2>3. CASE MayLogin /\ attempted' = TRUE /\ pc' = [pc EXCEPT ![a] = "LOGIN"] /\ UNCHANGED <<logins, overtaken>>
    BY <1>6, <2>3 DEF Goto, MayLogin, TypeOK, LoginBudget, Submits, Allowed, LeftOver, Activity
  <2>4. CASE Throw(a, FALSE) /\ UNCHANGED login
    BY <1>6, <2>4 DEF Goto, Throw, Close, ReleaseProfileLock, AwaitsBrowser, Returned,
       SettleOpening, Resumed, TypeOK, LoginBudget, Submits, Allowed, LeftOver, Activity
  <2> QED
    BY <1>6, <2>1, <2>2, <2>3, <2>4 DEF Goto
<1>7. ASSUME NEW a \in {"OP", "OPENING"}, AutofillLoginOnce(a)
      PROVE  LoginBudget'
  BY <1>7 DEF AutofillLoginOnce, Throw, Close, ReleaseProfileLock, AwaitsBrowser,
     Returned, SettleOpening, Resumed, TypeOK, LoginBudget, Submits, Allowed, LeftOver, Activity
<1>8. ASSUME NEW a \in {"OP", "OPENING"}, AfterLogin(a)
      PROVE  LoginBudget'
  <2>1. CASE Ready(a)
    BY <1>8, <2>1, ReadyBudget DEF AfterLogin
  <2>2. CASE \E recoverable \in BOOLEAN : Throw(a, recoverable) /\ UNCHANGED login
    BY <1>8, <2>2 DEF AfterLogin, Throw, Close, ReleaseProfileLock, AwaitsBrowser,
       Returned, SettleOpening, Resumed, TypeOK, LoginBudget, Submits, Allowed, LeftOver, Activity
  <2> QED
    BY <1>8, <2>1, <2>2 DEF AfterLogin
<1>9. ASSUME NEW a \in Activity, CloseEnds(a)
      PROVE  LoginBudget'
  BY <1>9 DEF CloseEnds, AfterClose, ReleaseProfileLock, SettleOpening, Resumed,
     TypeOK, LoginBudget, Submits, Allowed, LeftOver, Activity
<1>10. ASSUME Shutdown
      PROVE  LoginBudget'
  BY <1>10 DEF Shutdown, Close, ReleaseProfileLock, AwaitsBrowser, TypeOK,
     LoginBudget, Submits, Allowed, LeftOver, Activity
<1>11. ASSUME NEW r \in Request, Enqueue(r)
      PROVE  LoginBudget'
  BY <1>11 DEF Enqueue, TypeOK, LoginBudget, Submits, Allowed, LeftOver, Activity
<1>12. ASSUME PageCloses
      PROVE  LoginBudget'
  BY <1>12 DEF PageCloses, TypeOK, LoginBudget, Submits, Allowed, LeftOver, Activity
<1>13. ASSUME OtherTakes
      PROVE  LoginBudget'
  BY <1>13 DEF OtherTakes, TypeOK, LoginBudget, Submits, Allowed, LeftOver, Activity
<1>14. ASSUME OtherReleases
      PROVE  LoginBudget'
  BY <1>14 DEF OtherReleases, TypeOK, LoginBudget, Submits, Allowed, LeftOver, Activity
<1>15. CASE UNCHANGED vars
  BY <1>15 DEF vars, TypeOK, LoginBudget, Submits, Allowed, LeftOver, Activity
<1> QED
  BY <1>1, <1>2, <1>3, <1>4, <1>5, <1>6, <1>7, <1>8, <1>9, <1>10, <1>11, <1>12, <1>13,
     <1>14, <1>15 DEF Next, Turn

-----------------------------------------------------------------------------
(* One browser.                                                            *)

\* A close of an opening turns the browser it works in into one that is closed.
LEMMA CloseOpeningKeepsOne ==
  ASSUME TypeOK, OneUntilStopped, ~Stopped', UNCHANGED queue,
         pc["OPENING"] \in {"LAUNCH", "GOTO", "LOGIN", "SUBMITTED"},
         Close("OPENING", SettleOpening(FALSE))
  PROVE  SessionIsOne'
<1>1. CASE AwaitsBrowser
  <2>1. /\ context # 0 /\ context' = 0 /\ running' = running
        /\ closing' = [closing EXCEPT !["OPENING"] = context]
        /\ pc' = [pc EXCEPT !["OPENING"] = "CLOSING"]
        /\ held' = held
    BY <1>1 DEF Close, AwaitsBrowser
  <2>2. /\ pc'["OPENING"] = "CLOSING" /\ closing'["OPENING"] = context
        /\ \A a \in {"INIT", "OP", "STOP"} : pc'[a] = pc[a] /\ closing'[a] = closing[a]
    BY <2>1 DEF TypeOK, Activity
  <2>3. SessionIsOne
    BY <2>2 DEF OneUntilStopped, Stopped
  <2> QED
    BY <2>1, <2>2, <2>3 DEF SessionIsOne
<1>2. CASE ~AwaitsBrowser
  <2>1. /\ context = 0 /\ context' = 0 /\ running' = running /\ closing' = closing
        /\ pc' = SettleOpening(FALSE)
    BY <1>2 DEF Close, AwaitsBrowser
  <2>2. /\ pc'["OPENING"] = "IDLE"
        /\ \A a \in {"INIT", "OP"} : pc[a] # "WAIT" => pc'[a] = pc[a]
        /\ pc'["STOP"] = "IDLE" => pc["STOP"] = "IDLE"
        /\ pc["INIT"] = "WAIT" => pc'["INIT"] \in {"WAIT", "DONE"}
        /\ pc["OP"] = "WAIT" => pc'["OP"] \in {"OPERATE", "FAILED"}
    BY <2>1, SettledIs
  <2> QED
    BY <2>1, <2>2 DEF SessionIsOne, OneUntilStopped, Stopped
<1> QED
  BY <1>1, <1>2

\* ensureOpen may come back without touching the browser.
LEMMA ReturnedKeepsOne ==
  ASSUME TypeOK, OneUntilStopped, ~Stopped', NEW a \in {"OP", "OPENING"},
         pc[a] \in {"GOTO", "LOGIN", "SUBMITTED"}, NEW ready \in BOOLEAN,
         pc' = Returned(a, ready), UNCHANGED <<held, context, running, closing, queue>>
  PROVE  SessionIsOne'
<1>1. /\ pc'["OPENING"] = IF a = "OPENING" THEN "IDLE" ELSE pc["OPENING"]
      /\ pc["INIT"] # "WAIT" => pc'["INIT"] = pc["INIT"]
      /\ pc["INIT"] = "WAIT" => pc'["INIT"] \in {"WAIT", "DONE"}
      /\ pc'["STOP"] = "IDLE" => pc["STOP"] = "IDLE"
      /\ a = "OP" => pc'["OP"] \in {"OPERATE", "FAILED"}
      /\ a = "OPENING" /\ pc["OP"] # "WAIT" => pc'["OP"] = pc["OP"]
      /\ a = "OPENING" /\ pc["OP"] = "WAIT" => pc'["OP"] \in {"OPERATE", "FAILED"}
  BY ReturnedIs
<1>2. SessionIsOne
  BY <1>1 DEF OneUntilStopped, Stopped
<1> QED
  BY <1>1, <1>2 DEF SessionIsOne

LEMMA ThrowKeepsOne ==
  ASSUME TypeOK, OneUntilStopped, ~Stopped', NEW a \in {"OP", "OPENING"},
         pc[a] \in {"GOTO", "LOGIN", "SUBMITTED"}, NEW recoverable \in BOOLEAN,
         Throw(a, recoverable), UNCHANGED queue
  PROVE  SessionIsOne'
BY CloseOpeningKeepsOne, ReturnedKeepsOne DEF Throw, session

\* So does the close of a browser that gives no page.
LEMMA CloseOpKeepsOne ==
  ASSUME TypeOK, OneUntilStopped, ~Stopped', UNCHANGED queue,
         pc["OP"] = "NEW_PAGE", Close("OP", [pc EXCEPT !["OP"] = "CLOSED"])
  PROVE  SessionIsOne'
<1>1. CASE AwaitsBrowser
  <2>1. /\ context # 0 /\ context' = 0 /\ running' = running
        /\ closing' = [closing EXCEPT !["OP"] = context]
        /\ pc' = [pc EXCEPT !["OP"] = "CLOSING"]
        /\ held' = held
    BY <1>1 DEF Close, AwaitsBrowser
  <2>2. /\ pc'["OP"] = "CLOSING" /\ closing'["OP"] = context
        /\ \A a \in {"INIT", "OPENING", "STOP"} : pc'[a] = pc[a] /\ closing'[a] = closing[a]
    BY <2>1 DEF TypeOK, Activity
  <2>3. SessionIsOne
    BY <2>2 DEF OneUntilStopped, Stopped
  <2> QED
    BY <2>1, <2>2, <2>3 DEF SessionIsOne
<1>2. CASE ~AwaitsBrowser
  <2>1. /\ context = 0 /\ context' = 0 /\ running' = running /\ closing' = closing
        /\ pc' = [pc EXCEPT !["OP"] = "CLOSED"]
    BY <1>2 DEF Close, AwaitsBrowser
  <2>2. /\ pc'["OP"] = "CLOSED"
        /\ \A a \in {"INIT", "OPENING", "STOP"} : pc'[a] = pc[a]
    BY <2>1 DEF TypeOK, Activity
  <2>3. SessionIsOne
    BY <2>2 DEF OneUntilStopped, Stopped
  <2> QED
    BY <2>1, <2>2, <2>3 DEF SessionIsOne
<1> QED
  BY <1>1, <1>2

\* Every step keeps the session one, until the backend is told to stop.
LEMMA OneUntilStoppedStep ==
  Typed /\ LockNamesHolder /\ OneUntilStopped /\ [Next]_vars => OneUntilStopped'
<1> SUFFICES ASSUME Typed /\ LockNamesHolder /\ OneUntilStopped, [Next]_vars
             PROVE  OneUntilStopped'
  OBVIOUS
<1> USE DEF session, requests, login
<1>1. ASSUME BeginOp
      PROVE  OneUntilStopped'
  BY <1>1 DEF BeginOp, Typed, OpHasCall, TypeOK, LockNamesHolder, OneUntilStopped,
     SessionIsOne, Stopped, Activity
<1>2. ASSUME EndOp
      PROVE  OneUntilStopped'
  BY <1>2 DEF EndOp, Typed, OpHasCall, TypeOK, LockNamesHolder, OneUntilStopped,
     SessionIsOne, Stopped, Activity
<1>3. ASSUME NewPage
      PROVE  OneUntilStopped'
  <2> SUFFICES ASSUME ~Stopped'
               PROVE  SessionIsOne'
    BY DEF OneUntilStopped
  <2>1. pc["OP"] = "NEW_PAGE" /\ UNCHANGED queue
    BY <1>3 DEF NewPage
  <2>2. CASE pc' = [pc EXCEPT !["OP"] = "GOTO"] /\ UNCHANGED <<held, context, running, closing>>
    BY <2>1, <2>2 DEF Typed, OpHasCall, TypeOK, LockNamesHolder, OneUntilStopped,
       SessionIsOne, Stopped, Activity
  <2>3. CASE Close("OP", [pc EXCEPT !["OP"] = "CLOSED"])
    BY <2>1, <2>3, CloseOpKeepsOne DEF Typed
  <2> QED
    BY <1>3, <2>2, <2>3 DEF NewPage
<1>4. ASSUME Launch
      PROVE  OneUntilStopped'
  <2> SUFFICES ASSUME ~Stopped'
               PROVE  SessionIsOne'
    BY DEF OneUntilStopped
  <2>1. pc["OPENING"] = "LAUNCH" /\ UNCHANGED queue
    BY <1>4 DEF Launch
  <2>2. CASE Close("OPENING", SettleOpening(FALSE))
    BY <2>1, <2>2, CloseOpeningKeepsOne DEF Typed
  <2>3. CASE /\ launched' = launched + 1
             /\ context' = launched'
             /\ running' = running \cup {launched'}
             /\ pc' = [pc EXCEPT !["OPENING"] = "GOTO"]
             /\ UNCHANGED <<held, closing>>
    <3>1. SessionIsOne
      BY <2>3 DEF Typed, OpHasCall, TypeOK, LockNamesHolder, OneUntilStopped,
         SessionIsOne, Stopped, Activity
    <3>2. \A b \in running : FALSE
      BY <2>1, <3>1 DEF SessionIsOne
    <3>3. /\ pc'["OPENING"] = "GOTO"
          /\ \A a \in {"INIT", "OP"} : pc'[a] = pc[a]
      BY <2>3 DEF Typed, TypeOK, Activity
    <3>4. context' # 0
      BY <2>3 DEF Typed, TypeOK
    <3> QED
      BY <2>1, <2>3, <3>1, <3>2, <3>3, <3>4 DEF SessionIsOne
  <2> QED
    BY <1>4, <2>2, <2>3 DEF Launch
<1>5. ASSUME NEW a \in {"INIT", "OP"}, EnsureOpen(a)
      PROVE  OneUntilStopped'
  BY <1>5 DEF EnsureOpen, OpenOnce, AcquireProfileLock, Resumed, Typed, OpHasCall,
     TypeOK, LockNamesHolder, OneUntilStopped, SessionIsOne, Stopped, Activity
<1>6. ASSUME NEW a \in {"OP", "OPENING"}, Goto(a)
      PROVE  OneUntilStopped'
  <2>1. pc[a] \in {"GOTO", "LOGIN", "SUBMITTED"} /\ UNCHANGED queue
    BY <1>6 DEF Goto
  <2> SUFFICES ASSUME ~Stopped'
               PROVE  SessionIsOne'
    BY DEF OneUntilStopped
  <2>2. CASE \E recoverable \in BOOLEAN : Throw(a, recoverable)
    BY <2>1, <2>2, ThrowKeepsOne DEF Typed
  <2>3. CASE Ready(a)
    <3>1. pc' = Returned(a, TRUE) /\ UNCHANGED <<held, context, running, closing>>
      BY <2>3 DEF Ready
    <3> QED
      BY <2>1, <3>1, ReturnedKeepsOne DEF Typed
  <2>4. CASE pc' = Returned(a, FALSE) /\ UNCHANGED <<held, context, running, closing>>
    BY <2>1, <2>4, ReturnedKeepsOne DEF Typed
  <2>5. CASE pc' = [pc EXCEPT ![a] = "LOGIN"] /\ UNCHANGED <<held, context, running, closing>>
    BY <2>1, <2>5 DEF Typed, OpHasCall, TypeOK, LockNamesHolder, OneUntilStopped,
       SessionIsOne, Stopped, Activity
  <2> QED
    BY <1>6, <2>2, <2>3, <2>4, <2>5 DEF Goto
<1>7. ASSUME NEW a \in {"OP", "OPENING"}, AutofillLoginOnce(a)
      PROVE  OneUntilStopped'
  <2>1. pc[a] \in {"GOTO", "LOGIN", "SUBMITTED"} /\ UNCHANGED queue
    BY <1>7 DEF AutofillLoginOnce
  <2> SUFFICES ASSUME ~Stopped'
               PROVE  SessionIsOne'
    BY DEF OneUntilStopped
  <2>2. CASE \E recoverable \in BOOLEAN : Throw(a, recoverable)
    BY <2>1, <2>2, ThrowKeepsOne DEF Typed
  <2>3. CASE pc' = [pc EXCEPT ![a] = "SUBMITTED"]
             /\ UNCHANGED <<held, context, running, closing>>
    BY <2>1, <2>3 DEF Typed, OpHasCall, TypeOK, LockNamesHolder, OneUntilStopped,
       SessionIsOne, Stopped, Activity
  <2> QED
    BY <1>7, <2>2, <2>3 DEF AutofillLoginOnce
<1>8. ASSUME NEW a \in {"OP", "OPENING"}, AfterLogin(a)
      PROVE  OneUntilStopped'
  <2>1. pc[a] \in {"GOTO", "LOGIN", "SUBMITTED"} /\ UNCHANGED queue
    BY <1>8 DEF AfterLogin
  <2> SUFFICES ASSUME ~Stopped'
               PROVE  SessionIsOne'
    BY DEF OneUntilStopped
  <2>2. CASE \E recoverable \in BOOLEAN : Throw(a, recoverable)
    BY <2>1, <2>2, ThrowKeepsOne DEF Typed
  <2>3. CASE Ready(a)
    <3>1. pc' = Returned(a, TRUE) /\ UNCHANGED <<held, context, running, closing>>
      BY <2>3 DEF Ready
    <3> QED
      BY <2>1, <3>1, ReturnedKeepsOne DEF Typed
  <2> QED
    BY <1>8, <2>2, <2>3 DEF AfterLogin
<1>9. ASSUME NEW a \in Activity, CloseEnds(a)
      PROVE  OneUntilStopped'
  BY <1>9 DEF CloseEnds, AfterClose, ReleaseProfileLock, SettleOpening, Resumed,
     Typed, OpHasCall, TypeOK, LockNamesHolder, OneUntilStopped, SessionIsOne,
     Stopped, Activity
<1>10. ASSUME Shutdown
      PROVE  OneUntilStopped'
  BY <1>10 DEF Shutdown, Close, ReleaseProfileLock, AwaitsBrowser, Typed, OpHasCall,
     TypeOK, LockNamesHolder, OneUntilStopped, SessionIsOne, Stopped, Activity
<1>11. ASSUME NEW r \in Request, Enqueue(r)
      PROVE  OneUntilStopped'
  BY <1>11 DEF Enqueue, Typed, OpHasCall, TypeOK, LockNamesHolder, OneUntilStopped,
     SessionIsOne, Stopped, Activity
<1>12. ASSUME PageCloses
      PROVE  OneUntilStopped'
  BY <1>12 DEF PageCloses, Typed, OpHasCall, TypeOK, LockNamesHolder, OneUntilStopped,
     SessionIsOne, Stopped, Activity
<1>13. ASSUME OtherTakes
      PROVE  OneUntilStopped'
  BY <1>13 DEF OtherTakes, Typed, OpHasCall, TypeOK, LockNamesHolder, OneUntilStopped,
     SessionIsOne, Stopped, Activity
<1>14. ASSUME OtherReleases
      PROVE  OneUntilStopped'
  BY <1>14 DEF OtherReleases, Typed, OpHasCall, TypeOK, LockNamesHolder,
     OneUntilStopped, SessionIsOne, Stopped, Activity
<1>15. CASE UNCHANGED vars
  BY <1>15 DEF vars, Typed, OpHasCall, TypeOK, LockNamesHolder, OneUntilStopped,
     SessionIsOne, Stopped, Activity
<1> QED
  BY <1>1, <1>2, <1>3, <1>4, <1>5, <1>6, <1>7, <1>8, <1>9, <1>10, <1>11, <1>12, <1>13,
     <1>14, <1>15 DEF Next, Turn

-----------------------------------------------------------------------------

LEMMA InvInit == Init => Inv
<1> SUFFICES ASSUME Init
             PROVE  Inv
  OBVIOUS
<1>1. \A a \in Activity : pc[a] = IF a = "INIT" THEN "CALL" ELSE "IDLE"
  BY DEF Init
<1>2. Typed
  <2>1. pc \in [Activity -> Pc] /\ OpHasCall
    BY <1>1 DEF Init, OpHasCall, Activity, Pc
  <2>2. held \in BOOLEAN /\ page \in BOOLEAN /\ attempted \in BOOLEAN /\ overtaken \in BOOLEAN
    BY DEF Init
  <2>3. closing \in [Activity -> Nat] /\ settled \in [Request -> Outcome]
    BY DEF Init, Outcome
  <2> QED
    BY <2>1, <2>2, <2>3 DEF Init, Typed, TypeOK
<1>3. LockNamesHolder /\ LockServesBrowser
  BY DEF Init, LockNamesHolder, LockServesBrowser
<1>4. LoginBudget
  BY <1>1 DEF Init, LoginBudget, Submits, Allowed, LeftOver, Activity
<1>5. OneUntilStopped
  BY <1>1 DEF Init, OneUntilStopped, SessionIsOne, Activity
<1> QED
  BY <1>2, <1>3, <1>4, <1>5 DEF Inv

\* The session keeps its shape, its lock and its budget in every reachable state.
THEOREM Invariance == Spec => []Inv
<1>1. Init => Inv
  BY InvInit
<1>2. Inv /\ [Next]_vars => Inv'
  BY TypedStep, LockNamesHolderStep, LockServesBrowserStep, LoginBudgetStep,
     OneUntilStoppedStep DEF Inv, Typed
<1> QED
  BY <1>1, <1>2, PTL DEF Spec

\* RecloudSession.TypeOK: the variables have the values that the manager and the
\* queue give them.
THEOREM TypeCorrect == Spec => []TypeOK
<1>1. Inv => TypeOK
  BY DEF Inv, Typed
<1> QED
  BY <1>1, Invariance, PTL

\* RecloudSession.BrowserIsExclusive: until it is stopped, a backend has at most
\* one browser on the profile, and works in it under the lock.
THEOREM Exclusive == Spec => []BrowserIsExclusive
<1>1. Inv => BrowserIsExclusive
  <2> SUFFICES ASSUME Inv, ~Stopped
               PROVE  /\ Cardinality(running) <= 1
                      /\ context # 0 => held /\ lock = "SELF"
    BY DEF BrowserIsExclusive
  <2>1. SessionIsOne
    BY DEF Inv, OneUntilStopped
  <2>2. context # 0 => held /\ lock = "SELF"
    BY <2>1 DEF SessionIsOne, Inv, LockNamesHolder
  <2>3. \A b, c \in running : b = c
    BY <2>1 DEF SessionIsOne
  <2>4. Cardinality(running) <= 1
    <3>1. CASE running = {}
      BY <3>1, FS_EmptySet
    <3>2. CASE running # {}
      <4>1. PICK b \in running : TRUE
        BY <3>2
      <4>2. running = {b}
        BY <2>3, <4>1
      <4> QED
        BY <4>2, FS_Singleton
    <3> QED
      BY <3>1, <3>2
  <2> QED
    BY <2>2, <2>4
<1> QED
  BY <1>1, Invariance, PTL

\* RecloudSession.LockServesBrowser: also a launch, a navigation or a login that
\* fails, and a shutdown in the middle of one, leave no lock behind.
THEOREM LockServes == Spec => []LockServesBrowser
<1>1. Inv => LockServesBrowser
  BY DEF Inv
<1> QED
  BY <1>1, Invariance, PTL

\* RecloudSession.LoginsAreLimited: between two authenticated visits the password
\* is submitted at most once, and once more only if an activity was filling the form
\* when the first of the two was made.
THEOREM LoginsLimited == Spec => []LoginsAreLimited
<1>1. Inv => LoginsAreLimited
  BY DEF Inv, Typed, TypeOK, LoginBudget, Submits, Allowed, LeftOver, LoginsAreLimited
<1> QED
  BY <1>1, Invariance, PTL

(***************************************************************************)
(* The query of an RMA: the invariant.                                     *)
(***************************************************************************)

PageFields == {"at", "of", "note", "filled", "phone"}

QueryFields == {"pc", "number", "typed", "owed", "retried", "retryDue", "late", "body",
                "unread", "of", "phone", "mask", "heard"}

QueryTyped ==
    /\ DOMAIN shown = PageFields /\ DOMAIN call = QueryFields /\ DOMAIN call.of = Item
    /\ wire \subseteq Numbers

Numbered == {"full", "masked"}

\* What a page can look like: a telephone number in it is that of the customer
\* of its order, and a notice is about a number Recloud does not know.
Coherent(p) ==
    /\ p.at = "detail" => p.of \in Found
    /\ p.phone.form \in Numbered => p.phone.phone = PhoneOf[p.of]
    /\ p.note # None => p.note \in Numbers \ Found

\* Whatever a page says, it says of one of the numbers.
Concerns(p, numbers) ==
    /\ p.at = "detail" => p.of \in numbers
    /\ p.note # None => p.note \in numbers

Whose == {call.number} \cup call.owed

\* Once the scan page is ready, nothing arrives but what was owed then and what
\* the call asks for.
Expected ==
    /\ call.pc # "idle" => call.number \in Numbers
    /\ call.pc \notin {"idle", "open"} => Concerns(shown, Whose) /\ wire \subseteq Whose
    /\ call.pc \in {"enter", "look", "decide"} => call.typed = call.number

Fits(p, mask) == mask.form = "blind" \/ Signature[p] = Signature[mask.phone]

\* What the call has read of the page, item by item.
Read ==
    /\ call.pc \in {"decide", "form", "reveal"} => Coherent(call.body) /\ Concerns(call.body, Whose)
    /\ call.pc # "reveal" => call.heard = None
    /\ call.pc = "read" => \A i \in Item : call.of[i] = None
    /\ call.pc = "read" => call.phone = NoPhone /\ call.mask = NoPhone
    /\ call.pc \in {"read", "form", "reveal"} => call.unread \subseteq Item
    /\ call.pc \in {"form", "reveal"} =>
          /\ \A i \in Item : call.of[i] # None => call.of[i] \in Whose \cap Found
          /\ "phone" \in call.unread => call.of["phone"] = None
          /\ call.of["phone"] = None => call.phone = NoPhone /\ call.mask = NoPhone
          /\ call.mask.form \in Numbered => call.mask.phone = PhoneOf[call.of["phone"]]
          /\ call.phone.form = "full" =>
                \/ call.mask.form = "blind"
                \/ Signature[call.phone.phone] = Signature[PhoneOf[call.of["phone"]]]
    /\ call.pc = "reveal" =>
          /\ call.of["phone"] # None /\ call.mask.form \in {"masked", "blind"}
          /\ call.heard # None => Fits(call.heard, call.mask)

QueryInv ==
    /\ QueryTyped /\ Coherent(shown) /\ Expected /\ Read
    /\ AnswerBelongsToQuery /\ PhoneMatchesCustomer

(***************************************************************************)
(* The query of an RMA: pages and telephones.                              *)
(***************************************************************************)

\* Pages that have just been loaded say nothing.
LEMMA NewPages ==
    /\ \A p \in {ScanPage, LoginPage} :
          /\ DOMAIN p = PageFields /\ Coherent(p)
          /\ p.at # "detail" /\ p.note = None
    /\ \A n \in Found :
          /\ DOMAIN DetailFrame(n) = PageFields /\ Coherent(DetailFrame(n))
          /\ DetailFrame(n).of = n /\ DetailFrame(n).note = None
          /\ DetailFrame(n).at = "detail"
<1>1. /\ DOMAIN ScanPage = PageFields /\ ScanPage.at = "scan" /\ ScanPage.note = None
      /\ ~ScanPage.filled /\ ScanPage.phone = NoPhone
  BY DEF ScanPage, PageFields
<1>2. /\ DOMAIN LoginPage = PageFields /\ LoginPage.at = "login" /\ LoginPage.note = None
      /\ ~LoginPage.filled /\ LoginPage.phone = NoPhone
  BY <1>1 DEF LoginPage, PageFields
<1>3. ASSUME NEW n \in Found
      PROVE  /\ DOMAIN DetailFrame(n) = PageFields /\ DetailFrame(n).at = "detail"
             /\ DetailFrame(n).of = n /\ DetailFrame(n).note = None
             /\ ~DetailFrame(n).filled /\ DetailFrame(n).phone = NoPhone
  BY <1>1 DEF DetailFrame, PageFields
<1>4. NoPhone.form \notin Numbered
  BY DEF NoPhone, Numbered
<1> QED
  BY <1>1, <1>2, <1>3, <1>4 DEF Coherent

LEMMA IdleCall ==
    /\ DOMAIN Idle = QueryFields /\ DOMAIN Idle.of = Item
    /\ Idle.pc = "idle" /\ Idle.heard = None /\ Idle.phone = NoPhone /\ Idle.mask = NoPhone
    /\ Idle.unread = Item /\ \A i \in Item : Idle.of[i] = None
BY DEF Idle, QueryFields, NothingRead

\* A number that is selected has the digits of the mask.
LEMMA SelectedFits ==
    ASSUME NEW seen, NEW mask, selectMatchingPhone(seen, mask) # None
    PROVE  Fits(selectMatchingPhone(seen, mask), mask)
<1> DEFINE matching == {p \in seen : mask.form = "blind" \/ Signature[p] = Signature[mask.phone]}
<1>1. Cardinality(matching) = 1 /\ selectMatchingPhone(seen, mask) = CHOOSE p \in matching : TRUE
  BY DEF selectMatchingPhone
<1>2. matching # {}
  BY <1>1, FS_EmptySet
<1>3. (CHOOSE p \in matching : TRUE) \in matching
  BY <1>2
<1> QED
  BY <1>1, <1>3 DEF Fits

(***************************************************************************)
(* The query of an RMA: the steps of the call.                             *)
(***************************************************************************)

\* What is left of the invariant for a step that goes on.
LEMMA GoesOn ==
    ASSUME QueryInv, UNCHANGED <<enabled, result>>, DOMAIN shown' = PageFields,
           DOMAIN call' = QueryFields, DOMAIN call'.of = Item, wire' \subseteq Numbers,
           Coherent(shown'), Expected', Read'
    PROVE  QueryInv'
<1>1. QueryTyped' /\ Coherent(shown)'
  BY DEF QueryInv, QueryTyped
<1>2. AnswerBelongsToQuery' /\ PhoneMatchesCustomer'
  BY DEF QueryInv, AnswerBelongsToQuery, PhoneMatchesCustomer, Concerned
<1> QED
  BY <1>1, <1>2 DEF QueryInv

LEMMA CallEnds ==
    ASSUME QueryInv, NEW outcome, NEW of, NEW phone, NEW mask, Ends(outcome, of, phone, mask),
           UNCHANGED enabled, DOMAIN shown' = PageFields, Coherent(shown'),
           wire' \subseteq Numbers,
           outcome = "DETAIL" => of \subseteq Whose \cap Found,
           outcome = "ORDER_NOT_FOUND" => ~(Whose \subseteq Found),
           phone.form = "full" =>
              enabled /\ (mask.form = "blind"
                          \/ \E n \in Whose \cap Found :
                                Signature[phone.phone] = Signature[PhoneOf[n]])
    PROVE  QueryInv'
<1>1. call' = Idle
  BY DEF Ends
<1>2. /\ result'.query = call.number /\ result'.outcome = outcome /\ result'.owed = call.owed
      /\ result'.of = of /\ result'.phone = phone /\ result'.mask = mask
  BY DEF Ends
<1>3. QueryTyped' /\ Coherent(shown)' /\ Expected' /\ Read'
  BY <1>1, IdleCall DEF QueryTyped, Expected, Read
<1>4. Concerned(result)' = Whose
  BY <1>2 DEF Concerned, Whose
<1>5. AnswerBelongsToQuery' /\ PhoneMatchesCustomer'
  BY <1>2, <1>4 DEF AnswerBelongsToQuery, PhoneMatchesCustomer
<1> QED
  BY <1>3, <1>5 DEF QueryInv

LEMMA CallFails ==
    ASSUME QueryInv, NEW outcome, Fails(outcome), UNCHANGED enabled,
           DOMAIN shown' = PageFields, Coherent(shown'), wire' \subseteq Numbers,
           outcome # "DETAIL",
           outcome = "ORDER_NOT_FOUND" => ~(Whose \subseteq Found)
    PROVE  QueryInv'
<1>1. NoPhone.form = "none" /\ Ends(outcome, {}, NoPhone, NoPhone)
  BY DEF NoPhone, Fails
<1> QED
  BY <1>1, CallEnds

\* A failure that leaves the page.
LEMMA CallGivesUp ==
    ASSUME QueryInv, NEW outcome \in {"LOGIN_REQUIRED", "QUERY_TIMEOUT", "LOGISTICS_FILL_FAILED",
                                      "SCHEMA_CHANGED"},
           Fails(outcome), UNCHANGED <<enabled, shown, wire>>
    PROVE  QueryInv'
BY CallFails DEF QueryInv, QueryTyped

LEMMA BeginQueryKeeps ==
    ASSUME QueryInv, NEW n \in Numbers, Begin(n)
    PROVE  QueryInv'
<1>1. /\ call' = [Idle EXCEPT !.pc = "open", !.number = n] /\ result' = NoResult
      /\ UNCHANGED <<enabled, shown, wire>>
  BY DEF Begin
<1>2. /\ DOMAIN call' = QueryFields /\ DOMAIN call'.of = Item /\ call'.pc = "open"
      /\ call'.number = n /\ call'.heard = None
  BY <1>1, IdleCall DEF QueryFields
<1>3. Expected' /\ Read'
  BY <1>1, <1>2 DEF Expected, Read
<1>4. /\ QueryTyped' /\ Coherent(shown')
  BY <1>1, <1>2 DEF QueryInv, QueryTyped
<1>5. result'.outcome = "none" /\ result'.phone.form = "none"
  BY <1>1 DEF NoResult, NoPhone
<1>6. AnswerBelongsToQuery' /\ PhoneMatchesCustomer'
  BY <1>5 DEF AnswerBelongsToQuery, PhoneMatchesCustomer
<1> QED
  BY <1>3, <1>4, <1>6 DEF QueryInv

\* Going to the scan page takes note of what is still owed.
LEMMA ScanKeeps ==
    ASSUME QueryInv, ensureScanPage
    PROVE  QueryInv'
<1>1. call.pc = "open" /\ UNCHANGED enabled
  BY DEF ensureScanPage
<1>2. CASE UNCHANGED <<shown, wire>> /\ (Fails("LOGIN_REQUIRED") \/ Fails("QUERY_TIMEOUT"))
  BY <1>1, <1>2, CallGivesUp
<1>3. CASE shown' = LoginPage /\ wire' = {} /\ Fails("LOGIN_REQUIRED")
  BY <1>1, <1>3, NewPages, CallFails
<1>4. ASSUME NEW opened \in ScanPages, shown' = opened[1], wire' = opened[2]
      PROVE  /\ DOMAIN shown' = PageFields /\ Coherent(shown') /\ wire' \subseteq Numbers
             /\ shown'.at # "detail"
  <2>1. CASE opened = <<ScanPage, {}>>
    BY <1>4, <2>1, NewPages
  <2>2. CASE opened = <<[ScanPage EXCEPT !.note = shown.note], wire>>
    <3>1. shown' = [ScanPage EXCEPT !.note = shown.note] /\ wire' = wire
      BY <1>4, <2>2
    <3>2. /\ DOMAIN shown' = PageFields /\ shown'.at = "scan" /\ shown'.phone = NoPhone
          /\ shown'.note = shown.note
      BY <3>1 DEF ScanPage, PageFields
    <3>3. NoPhone.form \notin Numbered
      BY DEF NoPhone, Numbered
    <3> QED
      BY <3>1, <3>2, <3>3 DEF QueryInv, QueryTyped, Coherent
  <2> QED
    BY <1>4, <2>1, <2>2 DEF ScanPages
<1>5. CASE /\ \E opened \in ScanPages : shown' = opened[1] /\ wire' = opened[2]
           /\ Fails("QUERY_TIMEOUT")
  BY <1>1, <1>4, <1>5, CallFails
<1>6. CASE /\ \E opened \in ScanPages : shown' = opened[1] /\ wire' = opened[2]
           /\ call' = [call EXCEPT !.pc = "fill", !.owed = Outstanding(shown', wire')]
           /\ UNCHANGED result
  <2>1. /\ DOMAIN shown' = PageFields /\ Coherent(shown') /\ wire' \subseteq Numbers
        /\ shown'.at # "detail"
    BY <1>4, <1>6
  <2>2. /\ DOMAIN call' = QueryFields /\ DOMAIN call'.of = Item /\ call'.pc = "fill"
        /\ call'.number = call.number /\ call'.heard = call.heard
        /\ call'.owed = Outstanding(shown', wire')
    BY <1>6 DEF QueryInv, QueryTyped, QueryFields
  <2>3. Concerns(shown', Whose') /\ wire' \subseteq Whose'
    BY <2>1, <2>2 DEF Coherent, Concerns, Whose, Outstanding
  <2>4. Expected' /\ Read'
    BY <1>1, <2>2, <2>3 DEF QueryInv, Expected, Read
  <2> QED
    BY <1>1, <1>6, <2>1, <2>2, <2>4, GoesOn
<1> QED
  BY <1>1, <1>2, <1>3, <1>5, <1>6 DEF ensureScanPage

LEMMA FillKeeps ==
    ASSUME QueryInv, fillLogisticsNo
    PROVE  QueryInv'
<1>1. call.pc = "fill" /\ UNCHANGED <<enabled, shown, wire>>
  BY DEF fillLogisticsNo
<1>2. CASE Fails("LOGISTICS_FILL_FAILED") \/ Fails("QUERY_TIMEOUT")
  BY <1>1, <1>2, CallGivesUp
<1>3. CASE call' = [call EXCEPT !.pc = "enter", !.typed = call.number] /\ UNCHANGED result
  <2>1. /\ DOMAIN call' = QueryFields /\ DOMAIN call'.of = Item /\ call'.pc = "enter"
        /\ call'.number = call.number /\ call'.typed = call.number /\ call'.owed = call.owed
        /\ call'.heard = call.heard
    BY <1>3 DEF QueryInv, QueryTyped, QueryFields
  <2>2. Expected' /\ Read'
    BY <1>1, <2>1 DEF QueryInv, Expected, Read, Whose
  <2> QED
    BY <1>1, <1>3, <2>1, <2>2, GoesOn DEF QueryInv, QueryTyped
<1> QED
  BY <1>2, <1>3 DEF fillLogisticsNo

\* Enter asks for the number of the call, once more or not at all.
LEMMA SubmittedIs ==
    ASSUME QueryInv, call.pc \in {"enter", "look", "decide"}
    PROVE  Submitted \subseteq Whose \cap Numbers
BY DEF Submitted, QueryInv, QueryTyped, Expected, Whose

LEMMA EnterKeeps ==
    ASSUME QueryInv, enterRmaQuery
    PROVE  QueryInv'
<1>1. /\ call.pc = "enter" /\ wire' = Submitted /\ UNCHANGED <<enabled, shown, result>>
      /\ call' = [call EXCEPT !.pc = "look"]
  BY DEF enterRmaQuery, GoOn
<1>2. /\ DOMAIN call' = QueryFields /\ DOMAIN call'.of = Item /\ call'.pc = "look"
      /\ call'.number = call.number /\ call'.typed = call.typed /\ call'.owed = call.owed
      /\ call'.heard = call.heard
  BY <1>1 DEF QueryInv, QueryTyped, QueryFields
<1>3. wire' \subseteq Whose' \cap Numbers
  BY <1>1, <1>2, SubmittedIs DEF Whose
<1>4. Expected' /\ Read'
  BY <1>1, <1>2, <1>3 DEF QueryInv, Expected, Read, Whose
<1> QED
  BY <1>1, <1>2, <1>3, <1>4, GoesOn DEF QueryInv, QueryTyped

LEMMA ClockKeeps ==
    ASSUME QueryInv, Clock
    PROVE  QueryInv'
<1>1. /\ call.pc \in {"look", "decide"} /\ UNCHANGED <<enabled, shown, wire, result>>
      /\ DOMAIN call' = QueryFields /\ DOMAIN call'.of = Item /\ call'.pc = call.pc
      /\ call'.number = call.number /\ call'.typed = call.typed /\ call'.owed = call.owed
      /\ call'.body = call.body /\ call'.heard = call.heard
  BY DEF Clock, RetryFallsDue, DeadlinePasses, QueryInv, QueryTyped, QueryFields
<1>2. Expected' /\ Read'
  BY <1>1 DEF QueryInv, Expected, Read, Whose
<1> QED
  BY <1>1, <1>2, GoesOn DEF QueryInv, QueryTyped

\* What the text of the page says it says of a number that is expected.
LEMMA LookQueryKeeps ==
    ASSUME QueryInv, look \/ readRmaDetail
    PROVE  QueryInv'
<1>1. call.pc \in {"look", "read"} /\ UNCHANGED <<enabled, shown, wire>>
  BY DEF look, readRmaDetail
<1>2. CASE Fails("LOGIN_REQUIRED") \/ Fails("QUERY_TIMEOUT")
  BY <1>1, <1>2, CallGivesUp
<1> DEFINE Seen ==
             /\ \/ call.pc = "look" /\ call'.pc = "decide"
                \/ call.pc = "read" /\ call'.pc = "form"
             /\ DOMAIN call' = QueryFields /\ call'.body = shown /\ UNCHANGED result
             /\ call'.number = call.number /\ call'.typed = call.typed
             /\ call'.owed = call.owed /\ call'.heard = call.heard /\ call'.of = call.of
             /\ call'.phone = call.phone /\ call'.mask = call.mask
             /\ call'.unread = call.unread
<1>3. ASSUME Seen
      PROVE  QueryInv'
  <2>1. /\ DOMAIN call'.of = Item
        /\ call'.number = call.number /\ call'.typed = call.typed /\ call'.owed = call.owed
        /\ call'.body = shown
        /\ call'.heard = call.heard /\ call'.of = call.of /\ call'.phone = call.phone /\ call'.mask = call.mask
        /\ call'.unread = call.unread
    BY <1>3 DEF QueryInv, QueryTyped, QueryFields
  <2>2. Expected'
    BY <1>1, <1>3, <2>1 DEF QueryInv, Expected, Whose
  <2>3. Coherent(call'.body) /\ Concerns(call'.body, Whose')
    BY <1>1, <1>3, <2>1 DEF QueryInv, Expected, Whose
  <2>4. Read'
    BY <1>1, <1>3, <2>1, <2>3 DEF QueryInv, Read, Item, NoPhone, Numbered
  <2> QED
    BY <1>1, <1>3, <2>1, <2>2, <2>4, GoesOn DEF QueryInv, QueryTyped
<1> HIDE DEF Seen
<1>4. ASSUME NEW to, call' = [call EXCEPT !.pc = to, !.body = shown]
      PROVE  /\ DOMAIN call' = QueryFields /\ call'.pc = to /\ call'.body = shown
             /\ call'.number = call.number /\ call'.typed = call.typed
             /\ call'.owed = call.owed /\ call'.heard = call.heard /\ call'.of = call.of
             /\ call'.phone = call.phone /\ call'.mask = call.mask
             /\ call'.unread = call.unread
  BY <1>4 DEF QueryInv, QueryTyped, QueryFields
<1>5. CASE look /\ call' = [call EXCEPT !.pc = "decide", !.body = shown] /\ UNCHANGED result
  <2>1. call.pc = "look" /\ UNCHANGED result
    BY <1>5 DEF look
  <2>2. /\ DOMAIN call' = QueryFields /\ call'.pc = "decide" /\ call'.body = shown
        /\ call'.number = call.number /\ call'.typed = call.typed
             /\ call'.owed = call.owed /\ call'.heard = call.heard /\ call'.of = call.of
             /\ call'.phone = call.phone /\ call'.mask = call.mask
             /\ call'.unread = call.unread
    BY <1>4, <1>5
  <2>3. Seen
    BY <2>1, <2>2 DEF Seen
  <2> QED
    BY <1>3, <2>3
<1>6. CASE readRmaDetail /\ call' = [call EXCEPT !.pc = "form", !.body = shown]
           /\ UNCHANGED result
  <2>1. call.pc = "read" /\ UNCHANGED result
    BY <1>6 DEF readRmaDetail
  <2>2. /\ DOMAIN call' = QueryFields /\ call'.pc = "form" /\ call'.body = shown
        /\ call'.number = call.number /\ call'.typed = call.typed
             /\ call'.owed = call.owed /\ call'.heard = call.heard /\ call'.of = call.of
             /\ call'.phone = call.phone /\ call'.mask = call.mask
             /\ call'.unread = call.unread
    BY <1>4, <1>6
  <2>3. Seen
    BY <2>1, <2>2 DEF Seen
  <2> QED
    BY <1>3, <2>3
<1> QED
  BY <1>2, <1>5, <1>6 DEF look, readRmaDetail

\* A notice in the text is about a number that is expected.
LEMMA WaitKeeps ==
    ASSUME QueryInv, waitForRmaDetail
    PROVE  QueryInv'
<1>1. call.pc = "decide" /\ UNCHANGED <<enabled, shown>>
  BY DEF waitForRmaDetail
<1>2. CASE /\ call' = [Idle EXCEPT !.pc = "read", !.number = call.number, !.owed = call.owed]
           /\ UNCHANGED <<wire, result>>
  <2>1. /\ DOMAIN call' = QueryFields /\ DOMAIN call'.of = Item /\ call'.pc = "read"
        /\ call'.number = call.number /\ call'.owed = call.owed /\ call'.heard = None
        /\ call'.phone = NoPhone /\ call'.mask = NoPhone /\ call'.of = Idle.of
        /\ call'.unread = Item
    BY <1>2, IdleCall DEF QueryFields
  <2>2. Expected' /\ Read'
    BY <1>1, <1>2, <2>1, IdleCall DEF QueryInv, Expected, Read, Whose
  <2> QED
    BY <1>1, <1>2, <2>1, <2>2, GoesOn DEF QueryInv, QueryTyped
<1>3. ASSUME wire' \in {wire, Submitted}
      PROVE  wire' \subseteq Whose \cap Numbers
  BY <1>1, <1>3, SubmittedIs DEF QueryInv, QueryTyped, Expected
<1>4. CASE wire' \in {wire, Submitted} /\ call.body.note # None /\ Fails("ORDER_NOT_FOUND")
  <2>1. call.body.note \in Whose \ Found
    BY <1>1, <1>4 DEF QueryInv, Read, Coherent, Concerns
  <2> QED
    BY <1>1, <1>3, <1>4, <2>1, CallFails DEF QueryInv, QueryTyped
<1>5. CASE /\ wire' \in {wire, Submitted} /\ UNCHANGED result
           /\ call' = [call EXCEPT !.pc = "look", !.body = ScanPage, !.retried = @ \/ RetryEnter]
  <2>1. /\ DOMAIN call' = QueryFields /\ DOMAIN call'.of = Item /\ call'.pc = "look"
        /\ call'.number = call.number /\ call'.typed = call.typed /\ call'.owed = call.owed
        /\ call'.heard = call.heard
    BY <1>5 DEF QueryInv, QueryTyped, QueryFields
  <2>2. wire' \subseteq Whose' \cap Numbers
    BY <1>3, <1>5, <2>1 DEF Whose
  <2>3. Expected' /\ Read'
    BY <1>1, <1>5, <2>1, <2>2 DEF QueryInv, Expected, Read, Whose
  <2> QED
    BY <1>1, <1>5, <2>1, <2>2, <2>3, GoesOn DEF QueryInv, QueryTyped
<1> QED
  BY <1>2, <1>4, <1>5 DEF waitForRmaDetail

\* What stands in an item of a page is of an order that is expected.
LEMMA CollectKeeps ==
    ASSUME QueryInv, collectRtxpcFormItemPairs
    PROVE  QueryInv'
<1>1. call.pc = "form" /\ UNCHANGED <<enabled, shown, wire>>
  BY DEF collectRtxpcFormItemPairs
<1>2. CASE Fails("QUERY_TIMEOUT")
  BY <1>1, <1>2, CallGivesUp
<1>3. CASE \E i \in call.unread, n \in ShownOf, control \in BOOLEAN :
              /\ call' = [call EXCEPT
                   !.unread  = @ \ {i},
                   !.of[i]   = n,
                   !.phone   = IF i = "phone" /\ n # None THEN shown.phone ELSE @,
                   !.mask    = IF i = "phone" /\ n # None THEN shown.phone ELSE @,
                   !.pc      = IF i = "phone" /\ n # None /\ control /\ Reveals
                               THEN "reveal" ELSE "form"]
              /\ UNCHANGED result
  <2>0. PICK i \in call.unread, n \in ShownOf, control \in BOOLEAN :
              /\ call' = [call EXCEPT
                   !.unread  = @ \ {i},
                   !.of[i]   = n,
                   !.phone   = IF i = "phone" /\ n # None THEN shown.phone ELSE @,
                   !.mask    = IF i = "phone" /\ n # None THEN shown.phone ELSE @,
                   !.pc      = IF i = "phone" /\ n # None /\ control /\ Reveals
                               THEN "reveal" ELSE "form"]
              /\ UNCHANGED result
    BY <1>3
  <2>13. i \in Item
    BY <1>1, <2>0 DEF QueryInv, Read
  <2>1. /\ DOMAIN call' = QueryFields /\ call'.of = [call.of EXCEPT ![i] = n]
        /\ call'.number = call.number /\ call'.owed = call.owed /\ call'.body = call.body
        /\ call'.heard = call.heard /\ call'.unread = call.unread \ {i}
        /\ call'.phone = (IF i = "phone" /\ n # None THEN shown.phone ELSE call.phone)
        /\ call'.mask = (IF i = "phone" /\ n # None THEN shown.phone ELSE call.mask)
        /\ call'.pc = (IF i = "phone" /\ n # None /\ control /\ Reveals THEN "reveal" ELSE "form")
    BY <2>0 DEF QueryInv, QueryTyped, QueryFields
  <2>2. /\ DOMAIN call'.of = Item /\ call'.of[i] = n
        /\ \A k \in Item : k # i => call'.of[k] = call.of[k]
    BY <2>1, <2>13 DEF QueryInv, QueryTyped
  <2>3. call'.pc \in {"form", "reveal"} /\ Whose' = Whose
    BY <2>1 DEF Whose
  <2>4. n # None => /\ n \in Whose \cap Found
                    /\ shown.phone.form \in Numbered => shown.phone.phone = PhoneOf[n]
    BY <1>1, <2>0 DEF ShownOf, QueryInv, Coherent, Concerns, Expected
  <2>5. \A k \in Item : call'.of[k] # None => call'.of[k] \in Whose \cap Found
    BY <1>1, <2>2, <2>4 DEF QueryInv, Read
  <2>6. "phone" \in Item
    BY DEF Item
  <2>7. /\ "phone" \in call'.unread => call'.of["phone"] = None
        /\ call'.of["phone"] = None => call'.phone = NoPhone /\ call'.mask = NoPhone
        /\ call'.mask.form \in Numbered => call'.mask.phone = PhoneOf[call'.of["phone"]]
        /\ call'.phone.form = "full" =>
              \/ call'.mask.form = "blind"
              \/ Signature[call'.phone.phone] = Signature[PhoneOf[call'.of["phone"]]]
    <3>1. CASE i = "phone" /\ n # None
      BY <2>1, <2>2, <2>4, <3>1 DEF Numbered
    <3>2. CASE i # "phone"
      BY <1>1, <2>1, <2>2, <2>6, <3>2 DEF QueryInv, Read
    <3>3. CASE i = "phone" /\ n = None
      <4>1. call.phone = NoPhone /\ call.mask = NoPhone
        BY <1>1, <2>0, <3>3 DEF QueryInv, Read
      <4>2. NoPhone.form \notin Numbered /\ NoPhone.form # "full"
        BY DEF NoPhone, Numbered
      <4> QED
        BY <2>1, <2>2, <3>3, <4>1, <4>2
    <3> QED
      BY <3>1, <3>2, <3>3
  <2>8. Coherent(call'.body) /\ Concerns(call'.body, Whose')
    BY <1>1, <2>1, <2>3 DEF QueryInv, Read
  <2>9. call'.pc = "reveal" =>
           /\ call'.of["phone"] # None /\ call'.mask.form \in {"masked", "blind"}
           /\ call'.heard = None
    BY <1>1, <2>1, <2>2, <2>6 DEF Reveals, QueryInv, Read
  <2>10. call'.heard = None /\ call'.unread \subseteq Item
    BY <1>1, <2>1 DEF QueryInv, Read
  <2>11. Read'
    BY <2>3, <2>5, <2>7, <2>8, <2>9, <2>10 DEF Read
  <2>12. Expected'
    BY <1>1, <2>1, <2>3 DEF QueryInv, Expected
  <2> QED
    BY <1>1, <1>3, <2>1, <2>2, <2>11, <2>12, GoesOn DEF QueryInv, QueryTyped
<1> QED
  BY <1>2, <1>3 DEF collectRtxpcFormItemPairs

\* A number heard, and one read while the telephone is revealed, has the digits
\* of the mask.
LEMMA HearKeeps ==
    ASSUME QueryInv, createPhoneResponseListener
    PROVE  QueryInv'
<1>1. call.pc = "reveal" /\ UNCHANGED <<enabled, shown, wire, result>>
  BY DEF createPhoneResponseListener
<1>2. PICK seen \in SUBSET Phones :
         call' = [call EXCEPT !.heard = selectMatchingPhone(seen, call.mask)]
  BY DEF createPhoneResponseListener
<1>3. /\ DOMAIN call' = QueryFields /\ call'.heard = selectMatchingPhone(seen, call.mask)
      /\ call'.pc = call.pc /\ call'.number = call.number /\ call'.owed = call.owed
      /\ call'.body = call.body /\ call'.of = call.of /\ call'.unread = call.unread
      /\ call'.phone = call.phone /\ call'.mask = call.mask
  BY <1>2 DEF QueryInv, QueryTyped, QueryFields
<1>4. call'.heard # None => Fits(call'.heard, call.mask)
  BY <1>3, SelectedFits
<1>5. Expected'
  BY <1>1, <1>3 DEF QueryInv, Expected, Whose
<1>6. Read'
  BY <1>1, <1>3, <1>4 DEF QueryInv, Read, Whose
<1>7. DOMAIN call'.of = Item
  BY <1>3 DEF QueryInv, QueryTyped
<1> QED
  BY <1>1, <1>3, <1>5, <1>6, <1>7, GoesOn DEF QueryInv, QueryTyped

LEMMA RevealKeeps ==
    ASSUME QueryInv, revealFeedbackPhone
    PROVE  QueryInv'
<1>1. call.pc = "reveal" /\ UNCHANGED <<enabled, shown, wire, result>>
  BY DEF revealFeedbackPhone
<1>2. PICK p \in {call.heard} \cup
                 (IF call.heard # None THEN {}
                  ELSE {selectMatchingPhone(seen, call.mask) : seen \in SUBSET Phones}) :
         call' = [call EXCEPT !.pc = "form", !.heard = None,
                              !.phone = IF p = None THEN call.phone ELSE Full(p)]
  BY DEF revealFeedbackPhone
<1>3. /\ DOMAIN call' = QueryFields /\ call'.heard = None /\ call'.pc = "form"
      /\ call'.number = call.number /\ call'.owed = call.owed
      /\ call'.body = call.body /\ call'.of = call.of /\ call'.unread = call.unread
      /\ call'.phone = (IF p = None THEN call.phone ELSE Full(p)) /\ call'.mask = call.mask
  BY <1>2 DEF QueryInv, QueryTyped, QueryFields
<1>4. p # None => Fits(p, call.mask)
  BY <1>1, SelectedFits DEF QueryInv, Read
<1>5. /\ call.mask.form \in {"masked", "blind"} /\ call.of["phone"] # None
      /\ call.mask.form \in Numbered => call.mask.phone = PhoneOf[call.of["phone"]]
  BY <1>1 DEF QueryInv, Read
<1>6. call'.phone.form = "full" =>
         \/ call.mask.form = "blind"
         \/ Signature[call'.phone.phone] = Signature[PhoneOf[call.of["phone"]]]
  <2>1. CASE p = None
    BY <1>1, <1>3, <2>1 DEF QueryInv, Read
  <2>2. CASE p # None
    <3>1. call'.phone.phone = p
      BY <1>3, <2>2 DEF Full
    <3> QED
      BY <1>4, <1>5, <2>2, <3>1 DEF Fits, Numbered
  <2> QED
    BY <2>1, <2>2
<1>7. Expected'
  BY <1>1, <1>3 DEF QueryInv, Expected, Whose
<1>8. Read'
  BY <1>1, <1>3, <1>5, <1>6 DEF QueryInv, Read, Whose
<1>9. DOMAIN call'.of = Item
  BY <1>3 DEF QueryInv, QueryTyped
<1> QED
  BY <1>1, <1>3, <1>7, <1>8, <1>9, GoesOn DEF QueryInv, QueryTyped

\* What the parser lets out.
LEMMA ParseKeeps ==
    ASSUME QueryInv, parseRmaFieldPairs
    PROVE  QueryInv'
<1>1. /\ call.pc = "form" /\ UNCHANGED <<enabled, shown, wire>> /\ "phone" \in Item
  BY DEF parseRmaFieldPairs, Item
<1>2. PICK text \in [Item -> Numbers \cup {None}] :
         /\ \A i \in Item : text[i] \in TextOf(i)
         /\ LET of == [i \in Item |-> IF call.of[i] # None THEN call.of[i] ELSE text[i]]
                fromText == call.of["phone"] = None /\ text["phone"] # None
                value == IF fromText THEN call.body.phone ELSE call.phone
            IN  IF (\E i \in TextFields : of[i] = None) \/ value.form = "odd"
                THEN Fails("SCHEMA_CHANGED")
                ELSE Ends("DETAIL", {of[i] : i \in Item} \ {None},
                          formatCustomerPhone(value, enabled),
                          IF fromText THEN call.body.phone ELSE call.mask)
  BY DEF parseRmaFieldPairs
<1> DEFINE of == [i \in Item |-> IF call.of[i] # None THEN call.of[i] ELSE text[i]]
           fromText == call.of["phone"] = None /\ text["phone"] # None
           value == IF fromText THEN call.body.phone ELSE call.phone
           mask == IF fromText THEN call.body.phone ELSE call.mask
           given == formatCustomerPhone(value, enabled)
<1>3. CASE Fails("SCHEMA_CHANGED")
  BY <1>1, <1>3, CallGivesUp
<1>4. \A i \in Item : text[i] # None =>
         /\ text[i] = call.body.of /\ text[i] \in Whose \cap Found
         /\ call.body.phone.form \in Numbered => call.body.phone.phone = PhoneOf[text[i]]
  BY <1>1, <1>2 DEF TextOf, QueryInv, Read, Coherent, Concerns
<1>5. {of[i] : i \in Item} \ {None} \subseteq Whose \cap Found
  BY <1>1, <1>4 DEF QueryInv, Read
<1>6. given.form = "full" => enabled /\ value.form = "full" /\ given = value
  BY DEF formatCustomerPhone, Masked
<1>7. value.form = "full" =>
         mask.form = "blind" \/ \E n \in Whose \cap Found :
                                   Signature[value.phone] = Signature[PhoneOf[n]]
  <2>1. CASE fromText
    BY <1>1, <1>4, <2>1 DEF Numbered
  <2>2. CASE ~fromText /\ call.of["phone"] = None
    <3>1. value = NoPhone
      BY <1>1, <2>2 DEF QueryInv, Read
    <3> QED
      BY <3>1 DEF NoPhone
  <2>3. CASE call.of["phone"] # None
    <3>1. call.of["phone"] \in Whose \cap Found /\ value = call.phone /\ mask = call.mask
      BY <1>1, <2>3 DEF QueryInv, Read
    <3> QED
      BY <1>1, <3>1 DEF QueryInv, Read
  <2> QED
    BY <2>1, <2>2, <2>3
<1>8. given.form = "full" =>
         enabled /\ (mask.form = "blind" \/ \E n \in Whose \cap Found :
                                   Signature[given.phone] = Signature[PhoneOf[n]])
  BY <1>6, <1>7
<1>9. CASE Ends("DETAIL", {of[i] : i \in Item} \ {None}, given, mask)
  <2> HIDE DEF given, mask, of
  <2> QED
    BY <1>1, <1>5, <1>8, <1>9, CallEnds DEF QueryInv, QueryTyped
<1> QED
  BY <1>2, <1>3, <1>9

(***************************************************************************)
(* The query of an RMA: Recloud.                                           *)
(***************************************************************************)

\* An answer that still arrives is one that is expected.
LEMMA AnswerKeeps ==
    ASSUME QueryInv, NEW n \in Numbers, Answer(n)
    PROVE  QueryInv'
<1>1. n \in wire /\ wire' \subseteq wire /\ UNCHANGED <<enabled, call, result>>
  BY DEF Answer
<1>2. call.pc \notin {"idle", "open"} => n \in Whose
  BY <1>1 DEF QueryInv, Expected
<1>3. /\ DOMAIN shown' = PageFields /\ Coherent(shown')
      /\ call.pc \notin {"idle", "open"} => Concerns(shown', Whose)
  <2>1. CASE n \in Found /\ shown' = DetailFrame(n)
    BY <1>2, <2>1, NewPages DEF Concerns
  <2>2. CASE n \notin Found /\ shown' = [shown EXCEPT !.note = n]
    <3>1. /\ DOMAIN shown' = PageFields /\ shown'.at = shown.at /\ shown'.of = shown.of
          /\ shown'.phone = shown.phone /\ shown'.note = n
      BY <2>2 DEF QueryInv, QueryTyped, PageFields
    <3> QED
      BY <1>2, <2>2, <3>1 DEF QueryInv, Coherent, Expected, Concerns
  <2> QED
    BY <2>1, <2>2 DEF Answer
<1>4. Expected' /\ Read'
  BY <1>1, <1>3 DEF QueryInv, Expected, Read, Whose
<1> QED
  BY <1>1, <1>3, <1>4, GoesOn DEF QueryInv, QueryTyped

LEMMA DetailKeeps ==
    ASSUME QueryInv, FillDetail
    PROVE  QueryInv'
<1>1. shown.at = "detail" /\ UNCHANGED <<enabled, wire, call, result>>
  BY DEF FillDetail
<1>2. PICK v \in {Masked(PhoneOf[shown.of]), Full(PhoneOf[shown.of]), Blind, Odd} :
         shown' = [shown EXCEPT !.filled = TRUE, !.phone = v]
  BY DEF FillDetail
<1>3. /\ DOMAIN shown' = PageFields /\ shown'.at = shown.at /\ shown'.of = shown.of
      /\ shown'.phone = v /\ shown'.note = shown.note
  BY <1>2 DEF QueryInv, QueryTyped, PageFields
<1>4. v.form \in Numbered => v.phone = PhoneOf[shown.of]
  BY DEF Masked, Full, Blind, Odd, Numbered
<1>5. Coherent(shown')
  BY <1>1, <1>3, <1>4 DEF QueryInv, Coherent
<1>6. Expected' /\ Read'
  BY <1>1, <1>3 DEF QueryInv, Expected, Read, Concerns, Whose
<1> QED
  BY <1>1, <1>3, <1>5, <1>6, GoesOn DEF QueryInv, QueryTyped

LEMMA ExpireKeeps ==
    ASSUME QueryInv, Expire \/ Login
    PROVE  QueryInv'
<1>1. /\ shown' \in {ScanPage, LoginPage} /\ UNCHANGED <<enabled, call, result>>
      /\ wire' \subseteq wire
  BY DEF Expire, Login
<1>2. /\ DOMAIN shown' = PageFields /\ Coherent(shown')
      /\ shown'.at # "detail" /\ shown'.note = None
  BY <1>1, NewPages
<1>3. Expected' /\ Read'
  BY <1>1, <1>2 DEF QueryInv, Expected, Read, Concerns, Whose
<1> QED
  BY <1>1, <1>2, <1>3, GoesOn DEF QueryInv, QueryTyped

(***************************************************************************)
(* The query of an RMA: the theorems.                                      *)
(***************************************************************************)

LEMMA QueryInitInv == QInit => QueryInv
<1>1. SUFFICES ASSUME QInit
               PROVE  QueryInv
  OBVIOUS
<1>2. /\ shown = ScanPage /\ wire = {} /\ call = Idle
      /\ result.outcome = "none" /\ result.phone.form = "none"
  BY <1>1 DEF QInit, NoResult, NoPhone
<1>3. QueryTyped /\ Coherent(shown)
  BY <1>2, NewPages, IdleCall DEF QueryTyped
<1>4. Expected /\ Read
  BY <1>2, IdleCall DEF Expected, Read
<1>5. AnswerBelongsToQuery /\ PhoneMatchesCustomer
  BY <1>2 DEF AnswerBelongsToQuery, PhoneMatchesCustomer
<1> QED
  BY <1>3, <1>4, <1>5 DEF QueryInv

LEMMA QueryNextKeeps == QueryInv /\ [QNext]_qvars => QueryInv'
<1>1. SUFFICES ASSUME QueryInv, [QNext]_qvars
               PROVE  QueryInv'
  OBVIOUS
<1>2. ASSUME NEW n \in Numbers, Begin(n)
      PROVE  QueryInv'
  BY <1>1, <1>2, BeginQueryKeeps
<1>3. CASE Step
  BY <1>1, <1>3, ScanKeeps, FillKeeps, EnterKeeps, LookQueryKeeps, WaitKeeps, CollectKeeps,
     RevealKeeps, ParseKeeps DEF Step
<1>4. CASE Clock
  BY <1>1, <1>4, ClockKeeps
<1>5. CASE createPhoneResponseListener
  BY <1>1, <1>5, HearKeeps
<1>6. ASSUME NEW n \in Numbers, Answer(n)
      PROVE  QueryInv'
  BY <1>1, <1>6, AnswerKeeps
<1>7. CASE FillDetail \/ Expire \/ Login
  BY <1>1, <1>7, DetailKeeps, ExpireKeeps
<1>8. CASE UNCHANGED qvars
  <2>1. UNCHANGED <<enabled, shown, wire, call, result>>
    BY <1>8 DEF qvars
  <2>2. Expected' /\ Read'
    BY <1>1, <2>1 DEF QueryInv, Expected, Read, Whose
  <2> QED
    BY <1>1, <2>1, <2>2, GoesOn DEF QueryInv, QueryTyped
<1> QED
  BY <1>1, <1>2, <1>3, <1>4, <1>5, <1>6, <1>7, <1>8 DEF QNext, Recloud

\* In every behaviour of the query and of the page, the invariant holds.
THEOREM QueryInvariance == QSpec => []QueryInv
<1>1. QInit => QueryInv
  BY QueryInitInv
<1>2. QueryInv /\ [QNext]_qvars => QueryInv'
  BY QueryNextKeeps
<1> QED
  BY <1>1, <1>2, PTL DEF QSpec

\* RmaQuery.AnswerBelongsToQuery, for any number of orders and of calls: a value of
\* an order that was not asked for is in a detail, and an order is called missing
\* that Recloud has, only because of an answer that was owed when the call began.
THEOREM AnswersBelong == QSpec => []AnswerBelongsToQuery
<1>1. QueryInv => AnswerBelongsToQuery
  BY DEF QueryInv
<1> QED
  BY <1>1, QueryInvariance, PTL

\* RmaQuery.PhoneMatchesCustomer, for any numbers and any masks, those that leave
\* several customers alike included: whatever is heard or seen while a telephone is
\* revealed, a number that leaves the connector has the digits of the mask.
THEOREM PhonesBelong == QSpec => []PhoneMatchesCustomer
<1>1. QueryInv => PhoneMatchesCustomer
  BY DEF QueryInv
<1> QED
  BY <1>1, QueryInvariance, PTL
=============================================================================
