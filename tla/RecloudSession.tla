---------------------------- MODULE RecloudSession ----------------------------
(***************************************************************************)
(* The one browser in which a backend works on Recloud:                    *)
(* createRecloudSessionManager of connectors/recloud-session.js, the queue *)
(* withRecloud of server.js in front of it, and the lock file that keeps   *)
(* other backends and the login initialization off the browser profile.    *)
(*                                                                         *)
(* The single thread of the backend runs activities that await one         *)
(* another: INIT is initializeRecloudSession, which opens the session at   *)
(* startup without the queue; OP is the head of the queue; OPENING is the  *)
(* promise opening; STOP is shutdown.  A step is what runs between two     *)
(* awaits of one of them.                                                  *)
(***************************************************************************)
EXTENDS Naturals, FiniteSets, Sequences

CONSTANTS
  Request,  \* calls of withRecloud
  Autofill  \* RECLOUD_LOGIN_AUTOFILL_ENABLED

ASSUME SessionAssumption == Autofill \in BOOLEAN

VARIABLES
  lock,      \* the lock file, by the process it names
  held,      \* releaseLock # null
  context,   \* the browser that the manager holds, 0 for null
  running,   \* the browsers of the backend that run
  launched,  \* how many were launched
  page,      \* the manager has a page that is open
  attempted, \* autoLoginAttempted
  pc,        \* what each activity awaits
  closing,   \* the browser that its call of close is closing
  queue,     \* the calls that have not settled, the first of them is OP
  settled,   \* the outcome of those that have
  logins,    \* login forms submitted since the last authenticated visit
  overtaken  \* that visit was made while another activity filled the login form

session == <<context, running, launched, page>>
requests == <<queue, settled>>
login == <<attempted, logins, overtaken>>
vars == <<lock, held, session, login, pc, closing, requests>>

-----------------------------------------------------------------------------

Activity == {"INIT", "OP", "OPENING", "STOP"}

\* CALL and CLOSED are the two places where ensureOpen looks at what it has;
\* REJECTED is the rejected promise that opening keeps.
Pc == {"IDLE", "CALL", "NEW_PAGE", "CLOSING", "CLOSED", "WAIT", "LAUNCH", "GOTO",
       "LOGIN", "SUBMITTED", "OPERATE", "FAILED", "REJECTED", "DONE"}

Outcome == {"NONE", "OK", "FAILED"}

Stopped == pc["STOP"] # "IDLE"

\* The code behind an await of ensureOpen: an operation runs only in a session
\* that is logged in.
Resumed(a, ready) ==
  IF a = "INIT" THEN "DONE" ELSE IF ready THEN "OPERATE" ELSE "FAILED"

\* opening settles, and with it everyone who awaits it.
SettleOpeningReady(ready) ==
  [a \in Activity |->
     IF a = "OPENING" THEN "IDLE"
     ELSE IF pc[a] = "WAIT" /\ ready THEN Resumed(a, ready) ELSE pc[a]]

SettleOpening(ready) ==
  [a \in Activity |->
     IF a = "OPENING" THEN "IDLE"
     ELSE IF pc[a] = "WAIT" THEN Resumed(a, ready) ELSE pc[a]]

\* ensureOpen of a comes back.
Returned(a, ready) ==
  IF a = "OPENING" THEN SettleOpening(ready)
  ELSE [pc EXCEPT ![a] = Resumed(a, ready)]

-----------------------------------------------------------------------------
(* The lock file and close.                                                *)

\* A lock that names a dead process counts as none.
AcquireProfileLock ==
  /\ lock = "NONE"
  /\ lock' = "SELF"
  /\ held' = TRUE

KeepProfileLock == UNCHANGED <<lock, held>>

ReleaseProfileLock ==
  /\ held' = FALSE
  /\ lock' = IF held /\ lock = "SELF" THEN "NONE" ELSE lock

AwaitsNoBrowser == FALSE

AwaitsBrowser == context # 0

\* The part of close before its await, or all of it if there is no browser.
\* end is where it leaves the activities.
Close(a, end) ==
  /\ context' = 0
  /\ page' = FALSE
  /\ UNCHANGED <<running, launched>>
  /\ IF AwaitsBrowser
       THEN /\ closing' = [closing EXCEPT ![a] = context]
            /\ pc' = [pc EXCEPT ![a] = "CLOSING"]
            /\ UNCHANGED <<lock, held>>
       ELSE /\ ReleaseProfileLock
            /\ pc' = end
            /\ UNCHANGED closing

\* What follows the close of each.
AfterClose(a) ==
  IF a = "OPENING" THEN SettleOpening(FALSE)
  ELSE [pc EXCEPT ![a] = IF a = "STOP" THEN "DONE" ELSE "CLOSED"]

CloseEnds(a) ==
  /\ pc[a] = "CLOSING"
  /\ running' = running \ {closing[a]}
  /\ closing' = [closing EXCEPT ![a] = 0]
  /\ ReleaseProfileLock
  /\ pc' = AfterClose(a)
  /\ UNCHANGED <<context, launched, page, login, requests>>

-----------------------------------------------------------------------------
(* The queue withRecloud.                                                  *)

\* The server answers requests once the startup has called INIT.
Enqueue(r) ==
  /\ pc["INIT"] # "CALL"
  /\ settled[r] = "NONE"
  /\ \A i \in DOMAIN queue : queue[i] # r
  /\ queue' = Append(queue, r)
  /\ UNCHANGED <<lock, held, session, login, pc, closing, settled>>

BeginOp ==
  /\ pc["OP"] = "IDLE"
  /\ queue # <<>>
  /\ pc' = [pc EXCEPT !["OP"] = "CALL"]
  /\ UNCHANGED <<lock, held, session, login, closing, requests>>

\* Also a call that fails makes way for the one behind it.
EndOp ==
  /\ \E outcome \in {"OK", "FAILED"} :
       /\ pc["OP"] \in {"OPERATE", "FAILED"}
       /\ pc["OP"] = "FAILED" => outcome = "FAILED"
       /\ settled' = [settled EXCEPT ![Head(queue)] = outcome]
  /\ queue' = Tail(queue)
  /\ pc' = [pc EXCEPT !["OP"] = "IDLE"]
  /\ UNCHANGED <<lock, held, session, login, closing>>

-----------------------------------------------------------------------------
(* ensureOpen.                                                             *)

\* Without a page, a joins the opening under way or starts one.  The promise is
\* rejected and kept if the lock is not free.
OpenOnce(a) ==
  \/ /\ pc["OPENING"] = "IDLE"
     /\ AcquireProfileLock
     /\ pc' = [pc EXCEPT !["OPENING"] = "LAUNCH", ![a] = "WAIT"]
  \/ /\ pc["OPENING"] = "IDLE"
     /\ lock # "NONE"
     /\ pc' = [pc EXCEPT !["OPENING"] = "REJECTED", ![a] = Resumed(a, FALSE)]
     /\ UNCHANGED <<lock, held>>
  \/ /\ pc["OPENING"] = "REJECTED"
     /\ pc' = [pc EXCEPT ![a] = Resumed(a, FALSE)]
     /\ UNCHANGED <<lock, held>>
  \/ /\ pc["OPENING"] \notin {"IDLE", "REJECTED"}
     /\ pc' = [pc EXCEPT ![a] = "WAIT"]
     /\ UNCHANGED <<lock, held>>

EnsureOpen(a) ==
  /\ \/ /\ pc[a] = "CALL"
        /\ context # 0
        /\ pc' = [pc EXCEPT ![a] = IF page THEN "GOTO" ELSE "NEW_PAGE"]
        /\ UNCHANGED <<lock, held>>
     \/ /\ pc[a] = "CLOSED"
        /\ page
        /\ pc' = [pc EXCEPT ![a] = "GOTO"]
        /\ UNCHANGED <<lock, held>>
     \/ /\ \/ pc[a] = "CALL" /\ context = 0
           \/ pc[a] = "CLOSED" /\ ~page
        /\ OpenOnce(a)
  /\ UNCHANGED <<session, login, closing, requests>>

\* A browser without a page is asked for one, and closed if it gives none.
NewPage ==
  /\ pc["OP"] = "NEW_PAGE"
  /\ \/ /\ context \in running
        /\ page' = TRUE
        /\ pc' = [pc EXCEPT !["OP"] = "GOTO"]
        /\ UNCHANGED <<lock, held, context, running, launched, closing>>
     \/ Close("OP", [pc EXCEPT !["OP"] = "CLOSED"])
  /\ UNCHANGED <<login, requests>>

\* The browser of an opening starts, or does not.
Launch ==
  /\ pc["OPENING"] = "LAUNCH"
  /\ \/ /\ launched' = launched + 1
        /\ context' = launched'
        /\ running' = running \cup {launched'}
        /\ page' = TRUE
        /\ pc' = [pc EXCEPT !["OPENING"] = "GOTO"]
        /\ UNCHANGED <<lock, held, closing>>
     \/ Close("OPENING", SettleOpening(FALSE))
  /\ UNCHANGED <<login, requests>>

\* An error of a: an opening closes what it has opened, unless the error is one
\* that a person may put right in the page.
Throw(a, recoverable) ==
  IF a = "OPENING" /\ ~recoverable
    THEN Close(a, SettleOpening(FALSE))
    ELSE pc' = Returned(a, FALSE) /\ UNCHANGED <<lock, held, session, closing>>

-----------------------------------------------------------------------------
(* preparePage, for an opening or for the head of the queue.               *)

MayLoginAgain == Autofill

MayLogin == Autofill /\ ~attempted

\* An authenticated visit.
Ready(a) ==
  /\ attempted' = FALSE
  /\ logins' = 0
  /\ overtaken' = \E b \in Activity \ {a} : pc[b] = "LOGIN"
  /\ pc' = Returned(a, TRUE)
  /\ UNCHANGED <<lock, held, session, closing>>

\* The page shows the work area, something else, or the login.
Goto(a) ==
  /\ pc[a] = "GOTO"
  /\ \/ page /\ Ready(a)
     \/ /\ page
        /\ pc' = Returned(a, FALSE)
        /\ UNCHANGED <<lock, held, session, closing, login>>
     \/ /\ page
        /\ MayLogin
        /\ attempted' = TRUE
        /\ pc' = [pc EXCEPT ![a] = "LOGIN"]
        /\ UNCHANGED <<lock, held, session, closing, logins, overtaken>>
     \/ Throw(a, FALSE) /\ UNCHANGED login
  /\ UNCHANGED requests

\* autofillLoginOnce: a challenge, a changed form or no password leave it to a
\* person; the page may be gone.
AutofillLoginOnce(a) ==
  /\ pc[a] = "LOGIN"
  /\ \/ /\ page
        /\ logins' = logins + 1
        /\ pc' = [pc EXCEPT ![a] = "SUBMITTED"]
        /\ UNCHANGED <<lock, held, session, closing, attempted, overtaken>>
     \/ \E recoverable \in BOOLEAN : Throw(a, recoverable) /\ UNCHANGED login
  /\ UNCHANGED requests

AfterLogin(a) ==
  /\ pc[a] = "SUBMITTED"
  /\ \/ page /\ Ready(a)
     \/ \E recoverable \in BOOLEAN : Throw(a, recoverable) /\ UNCHANGED login
  /\ UNCHANGED requests

-----------------------------------------------------------------------------
(* Around the session.                                                     *)

Shutdown ==
  /\ pc["STOP"] = "IDLE"
  /\ Close("STOP", [pc EXCEPT !["STOP"] = "DONE"])
  /\ UNCHANGED <<login, requests>>

\* External: someone closes the page, or the browser goes with it.
PageCloses ==
  /\ page
  /\ page' = FALSE
  /\ running' \in {running, running \ {context}}
  /\ UNCHANGED <<lock, held, context, launched, login, pc, closing, requests>>

\* External: another backend or the login initialization has the profile.
OtherTakes ==
  /\ lock = "NONE"
  /\ lock' = "OTHER"
  /\ UNCHANGED <<held, session, login, pc, closing, requests>>

OtherReleases ==
  /\ lock = "OTHER"
  /\ lock' = "NONE"
  /\ UNCHANGED <<held, session, login, pc, closing, requests>>

-----------------------------------------------------------------------------

Init ==
  /\ lock = "NONE"
  /\ held = FALSE
  /\ context = 0
  /\ running = {}
  /\ launched = 0
  /\ page = FALSE
  /\ attempted = FALSE
  /\ pc = [a \in Activity |-> IF a = "INIT" THEN "CALL" ELSE "IDLE"]
  /\ closing = [a \in Activity |-> 0]
  /\ queue = <<>>
  /\ settled = [r \in Request |-> "NONE"]
  /\ logins = 0
  /\ overtaken = FALSE

\* A promise that settles in the end: time-outs bound every wait.
Turn ==
  \/ BeginOp \/ EndOp \/ NewPage \/ Launch
  \/ \E a \in {"INIT", "OP"} : EnsureOpen(a)
  \/ \E a \in {"OP", "OPENING"} : Goto(a) \/ AutofillLoginOnce(a) \/ AfterLogin(a)
  \/ \E a \in Activity : CloseEnds(a)

Next ==
  \/ Turn \/ Shutdown
  \/ \E r \in Request : Enqueue(r)
  \/ PageCloses \/ OtherTakes \/ OtherReleases

Spec == Init /\ [][Next]_vars

FairSpec == Spec /\ WF_vars(Turn)

-----------------------------------------------------------------------------
(* Properties.                                                             *)

\* The variables have the values that the manager and the queue give them.
TypeOK ==
  /\ lock \in {"NONE", "SELF", "OTHER"}
  /\ held \in BOOLEAN
  /\ context \in Nat
  /\ running \subseteq Nat
  /\ launched \in Nat
  /\ page \in BOOLEAN
  /\ attempted \in BOOLEAN
  /\ pc \in [Activity -> Pc]
  /\ closing \in [Activity -> Nat]
  /\ queue \in Seq(Request)
  /\ settled \in [Request -> Outcome]
  /\ logins \in Nat
  /\ overtaken \in BOOLEAN

\* Until it is stopped, a backend has at most one browser on the profile, and
\* the browser it works in runs under the lock, whatever its launches, pages and
\* closes do at the same time.
BrowserIsExclusive ==
  ~Stopped => /\ Cardinality(running) <= 1
              /\ context # 0 => held /\ lock = "SELF"

\* The lock is held for a browser: a launch or a navigation that fails does not
\* lock the others out of the profile.
LockServesBrowser ==
  held => \/ context # 0
          \/ pc["OPENING"] = "LAUNCH"
          \/ \E a \in Activity : pc[a] = "CLOSING"

\* Between two authenticated visits the password is submitted at most once,
\* however many calls, openings and closed pages come between; and once more only
\* if the first of the two visits overtook an activity that was filling the form.
LoginsAreLimited == logins <= IF overtaken THEN 2 ELSE 1

\* Every call of withRecloud settles, also behind calls that fail and when the
\* profile is taken, the browser dies or the backend is told to stop.
RequestsSettle ==
  \A r \in Request :
    (\E i \in DOMAIN queue : queue[i] = r) ~> settled[r] # "NONE"

\* src/connectors/recloud-session.js:63: an operation is refused because the
\* profile is in use by another living process only while it is.
InUseMeansInUse ==
  [][pc["OPENING"] = "REJECTED" /\ pc["OP"] = "CALL" /\ pc'["OP"] = "FAILED"
       => lock = "OTHER"]_vars
=============================================================================
