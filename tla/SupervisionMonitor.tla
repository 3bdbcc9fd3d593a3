-------------------------- MODULE SupervisionMonitor --------------------------
(***************************************************************************)
(* Supervision orders: customer-service requests that Recloud keeps for a  *)
(* repair order.  services/recloud-supervision-monitor.js polls them into  *)
(* the inbox (database/supervision-inbox-store.js) and, once the machine   *)
(* is received, into the work order, where the technician sees them.  The  *)
(* handlers of server.js sync, capture and read them there too.            *)
(*                                                                         *)
(* A poll works on a snapshot of the local orders and on lists that it     *)
(* reads from Recloud one status after the other; each of its reads and    *)
(* writes is a step, and the steps of handlers and of Recloud come in      *)
(* between.  running of the monitor is poll.pc # "IDLE".                   *)
(***************************************************************************)
EXTENDS Naturals, Sequences

CONSTANTS
  Rma,        \* repair orders
  Source,     \* supervision orders of Recloud, by their sourceId
  RmaOf,      \* the repair order of each
  User,       \* who may read a notice
  MaxErrors,  \* bound on polls that fail
  MaxCrashes, \* bound on restarts of the backend
  MaxAnnounced  \* an order that has this many announcements of a supervision
                \* order is not prepared again

ASSUME SupervisionAssumption ==
  /\ RmaOf \in [Source -> Rma]
  /\ MaxErrors \in Nat
  /\ MaxCrashes \in Nat
  /\ MaxAnnounced \in Nat

VARIABLES
  recloud,   \* external: the status of each supervision order in Recloud
  orders,    \* the work orders, as far as supervision is concerned
  inbox,     \* the inbox document
  poll,      \* the poll in progress
  timer,     \* the timer of the monitor
  rechecks,  \* receipts that have yet to ask for a poll
  sync,      \* a sync handler between its read of Recloud and its last save
  errors,    \* polls that failed
  crashes    \* restarts

vars == <<recloud, orders, inbox, poll, timer, rechecks, sync, errors, crashes>>

-----------------------------------------------------------------------------

TabUncompleted == <<"PENDING", "RESPONDED">>

\* The tabs of the central list, in the order they are read.  RESPONDED stands
\* for the two between an unhandled and a completed one.
Tab == <<"PENDING", "RESPONDED", "COMPLETED">>

Status == {"PENDING", "RESPONDED", "COMPLETED"}

None == "NONE"

\* A supervision order inside a work order; by is the operator who announced
\* it.  announced counts its entries SUPERVISION_RECEIVED in the timeline of the
\* order, which outlives the notice; before is the part of them that the order
\* had when it was last prepared.
Notice ==
  [status: Status \cup {None}, archived: BOOLEAN, readBy: SUBSET User,
   announced: Nat, before: Nat, by: {None, "MONITOR", "USER"}]

NoNotice ==
  [status |-> None, archived |-> FALSE, readBy |-> {}, announced |-> 0,
   before |-> 0, by |-> None]

\* What a second preparation leaves of a notice: its entries in the timeline.
Dropped(current) ==
  [status |-> None, archived |-> FALSE, readBy |-> {},
   announced |-> current.announced, before |-> current.announced, by |-> None]

\* received is hasTechnicianReceipt.
Order == [exists: BOOLEAN, received: BOOLEAN, notices: [Source -> Notice]]

InboxRecord == [status: Status \cup {None}, archived: BOOLEAN]

NoRecord == [status |-> None, archived |-> FALSE]

\* What a poll keeps of an order it has read.
Seen == [exists: BOOLEAN, received: BOOLEAN, status: [Source -> Status \cup {None}]]

View(o) ==
  [exists |-> o.exists, received |-> o.received,
   status |-> [s \in Source |-> o.notices[s].status]]

NothingSeen == View([exists |-> FALSE, received |-> FALSE,
                     notices |-> [s \in Source |-> NoNotice]])

\* pc: reading; taking the next entry; in the writes of an entry.
\* tabs is the number of tabs read, live what they showed and is not yet
\* worked off, entry what is being worked off.
PollState ==
  [pc: {"IDLE", "READING", "NEXT", "ARCHIVE_ORDER", "SAVE_INBOX", "SAVE_ORDER"},
   owner: {None, "TICK", "RECEIPT"}, hasLocal: BOOLEAN, local: [Rma -> Seen],
   tabs: 0..3, live: [Status -> SUBSET Source],
   source: Source \cup {None}, status: Status \cup {None}]

IdlePoll ==
  [pc |-> "IDLE", owner |-> None, hasLocal |-> FALSE,
   local |-> [r \in Rma |-> NothingSeen], tabs |-> 0,
   live |-> [st \in Status |-> {}], source |-> None, status |-> None]

NoSync == [rma |-> None, sources |-> {}]

-----------------------------------------------------------------------------
(* The order store.                                                        *)

AnnouncedAlways(current) == current.announced + 1

Announced(current) ==
  IF current.status = None THEN current.announced + 1 ELSE current.announced

ArchivedOnceCompleted(current, status) == status = "COMPLETED" /\ current.archived

\* A status other than completed takes the notice out of the archive; a caller
\* that has no status leaves it where it is.
Archived(current, status) == status \in {None, "COMPLETED"} /\ current.archived

ReadByFresh(current) == {}

ReadBy(current) == current.readBy

SavedNotice(current, status, by) ==
  [status    |-> IF status # None THEN status
                 ELSE IF current.status # None THEN current.status ELSE "PENDING",
   archived  |-> Archived(current, status),
   readBy    |-> ReadBy(current),
   announced |-> Announced(current),
   before    |-> current.before,
   by        |-> IF current.status = None THEN by ELSE current.by]

SaveSupervisionOrder(s, status, by) ==
  orders' = [orders EXCEPT ![RmaOf[s]].notices[s] = SavedNotice(@, status, by)]

MarkSupervisionOrderRead(s, u) ==
  /\ orders[RmaOf[s]].notices[s].status # None
  /\ orders' = [orders EXCEPT ![RmaOf[s]].notices[s].readBy = @ \cup {u}]
  /\ UNCHANGED <<recloud, inbox, poll, timer, rechecks, sync, errors, crashes>>

ArchivedNotice(current) ==
  IF current.status = None \/ current.archived THEN current
  ELSE [current EXCEPT !.status = "COMPLETED", !.archived = TRUE]

ArchiveSupervisionOrder(s) ==
  orders' = [orders EXCEPT ![RmaOf[s]].notices[s] = ArchivedNotice(@)]

-----------------------------------------------------------------------------
(* pollNow.                                                                *)

StartPoll(owner) == poll' = [IdlePoll EXCEPT !.pc = "READING", !.owner = owner]

EndPoll ==
  /\ poll' = IdlePoll
  /\ timer' = IF poll.owner = "TICK" THEN "ARMED" ELSE timer

\* The two reads that Promise.all waits for: the local orders ...
ReadLocal ==
  /\ poll.pc = "READING"
  /\ ~poll.hasLocal
  /\ poll' = [poll EXCEPT !.hasLocal = TRUE,
                          !.local = [r \in Rma |-> View(orders[r])]]
  /\ UNCHANGED <<recloud, orders, inbox, timer, rechecks, sync, errors, crashes>>

\* ... and the list of each status, which may move on between two of them.
ReadTab ==
  /\ poll.pc = "READING"
  /\ poll.tabs < Len(Tab)
  /\ LET tab == Tab[poll.tabs + 1] IN
       poll' = [poll EXCEPT !.tabs = @ + 1,
                            !.live[tab] = {s \in Source : recloud[s] = tab}]
  /\ UNCHANGED <<recloud, orders, inbox, timer, rechecks, sync, errors, crashes>>

HasUnread == poll.tabs < Len(Tab) \/ ~poll.hasLocal

Listed == {s \in Source : \E st \in Status : s \in poll.live[st]}

\* The entries are worked off in the order of the tabs.
IsFirstTab(i) ==
  /\ poll.live[Tab[i]] # {}
  /\ \A j \in 1..(i - 1) : poll.live[Tab[j]] = {}

\* An entry is taken, to be worked off at pc or to make way for the next one.
Work(s, status, pc) ==
  poll' = [poll EXCEPT !.live[status] = @ \ {s},
                       !.pc = pc,
                       !.source = IF pc = "NEXT" THEN None ELSE s,
                       !.status = IF pc = "NEXT" THEN None ELSE status]

Done == poll' = [poll EXCEPT !.pc = "NEXT", !.source = None, !.status = None]

ArchivedRecord(record) ==
  IF record = NoRecord THEN NoRecord
  ELSE [status |-> "COMPLETED", archived |-> TRUE]

BeginLoop ==
  /\ poll.pc = "READING"
  /\ ~HasUnread
  /\ Done
  /\ UNCHANGED <<recloud, orders, inbox, timer, rechecks, sync, errors, crashes>>

\* The loop over the entries ends.
PollSucceeds ==
  /\ poll.pc = "NEXT"
  /\ Listed = {}
  /\ EndPoll
  /\ UNCHANGED <<recloud, orders, inbox, rechecks, sync, errors, crashes>>

\* A completed entry goes to the archive of the inbox, and then of its order if
\* the snapshot has one; of the others, an inbox record is made for a pending
\* one and updated for one that has a record.
TakeEntry ==
  /\ poll.pc = "NEXT"
  /\ \E i \in DOMAIN Tab : \E s \in poll.live[Tab[i]] :
       /\ IsFirstTab(i)
       /\ IF Tab[i] = "COMPLETED"
            THEN /\ inbox' = [inbox EXCEPT ![s] = ArchivedRecord(@)]
                 /\ Work(s, Tab[i], IF poll.local[RmaOf[s]].exists
                                      THEN "ARCHIVE_ORDER" ELSE "NEXT")
            ELSE /\ Work(s, Tab[i], IF Tab[i] = "PENDING" \/ inbox[s] # NoRecord
                                      THEN "SAVE_INBOX" ELSE "NEXT")
                 /\ UNCHANGED inbox
  /\ UNCHANGED <<recloud, orders, timer, rechecks, sync, errors, crashes>>

ArchiveOrder ==
  /\ poll.pc = "ARCHIVE_ORDER"
  /\ IF orders[RmaOf[poll.source]].exists
       THEN ArchiveSupervisionOrder(poll.source)
       ELSE UNCHANGED orders
  /\ Done
  /\ UNCHANGED <<recloud, inbox, timer, rechecks, sync, errors, crashes>>

NotifiesUnreceived(seen, s, status) == seen.exists /\ seen.status[s] # status

\* Only an order that was received is notified, and one that has the notice
\* already only of a new status.
Notifies(seen, s, status) ==
  /\ seen.exists
  /\ seen.received
  /\ seen.status[s] # status

SaveInbox ==
  /\ poll.pc = "SAVE_INBOX"
  /\ inbox' = [inbox EXCEPT ![poll.source] =
                 [status |-> poll.status, archived |-> FALSE]]
  /\ IF Notifies(poll.local[RmaOf[poll.source]], poll.source, poll.status)
       THEN poll' = [poll EXCEPT !.pc = "SAVE_ORDER"]
       ELSE Done
  /\ UNCHANGED <<recloud, orders, timer, rechecks, sync, errors, crashes>>

SaveOrder ==
  /\ poll.pc = "SAVE_ORDER"
  /\ SaveSupervisionOrder(poll.source, poll.status, "MONITOR")
  /\ Done
  /\ UNCHANGED <<recloud, inbox, timer, rechecks, sync, errors, crashes>>

AfterErrorUnarmed == poll' = IdlePoll /\ UNCHANGED timer

\* What the catch and the finally of pollNow leave.
AfterError == EndPoll

\* A read of Recloud or of a document, or a write, fails.
PollFails ==
  /\ poll.pc # "IDLE"
  /\ errors < MaxErrors
  /\ errors' = errors + 1
  /\ AfterError
  /\ UNCHANGED <<recloud, orders, inbox, rechecks, sync, crashes>>

-----------------------------------------------------------------------------
(* What asks for a poll.                                                   *)

\* start, once the Recloud session is open, and every tick after it.  A poll
\* that is skipped because another is running ends the tick at once.
Start ==
  /\ timer = "OFF"
  /\ IF poll.pc = "IDLE"
       THEN StartPoll("TICK") /\ timer' = "WAITING"
       ELSE timer' = "ARMED" /\ UNCHANGED poll
  /\ UNCHANGED <<recloud, orders, inbox, rechecks, sync, errors, crashes>>

Tick ==
  /\ timer = "ARMED"
  /\ poll.pc = "IDLE"
  /\ StartPoll("TICK")
  /\ timer' = "WAITING"
  /\ UNCHANGED <<recloud, orders, inbox, rechecks, sync, errors, crashes>>

\* The receipt handler, after its order is saved.
Recheck(r) ==
  /\ r \in rechecks
  /\ rechecks' = rechecks \ {r}
  /\ IF poll.pc = "IDLE" THEN StartPoll("RECEIPT") ELSE UNCHANGED poll
  /\ UNCHANGED <<recloud, orders, inbox, timer, sync, errors, crashes>>

-----------------------------------------------------------------------------
(* The work orders and the handlers.                                       *)

\* A second preparation drops the notices and keeps the timeline: the receipt
\* and what was announced.
Prepare(r) ==
  /\ \A s \in Source : orders[r].notices[s].announced < MaxAnnounced
  /\ orders' = [orders EXCEPT ![r] =
       [exists |-> TRUE, received |-> @.received,
        notices |-> [s \in Source |-> Dropped(@.notices[s])]]]
  /\ UNCHANGED <<recloud, inbox, poll, timer, rechecks, sync, errors, crashes>>

CompleteReceipt(r) ==
  /\ orders[r].exists
  /\ orders' = [orders EXCEPT ![r].received = TRUE]
  /\ rechecks' = rechecks \cup {r}
  /\ UNCHANGED <<recloud, inbox, poll, timer, sync, errors, crashes>>

Capture(s) ==
  /\ orders[RmaOf[s]].exists
  /\ SaveSupervisionOrder(s, None, "USER")
  /\ UNCHANGED <<recloud, inbox, poll, timer, rechecks, sync, errors, crashes>>

\* The sync handler reads the unhandled ones and then saves one after the other.
SyncRead(r) ==
  /\ sync = NoSync
  /\ orders[r].exists
  /\ LET pending == {s \in Source : RmaOf[s] = r /\ recloud[s] = "PENDING"} IN
       /\ pending # {}
       /\ sync' = [rma |-> r, sources |-> pending]
  /\ UNCHANGED <<recloud, orders, inbox, poll, timer, rechecks, errors, crashes>>

SyncSave(s) ==
  /\ s \in sync.sources
  /\ SaveSupervisionOrder(s, None, "USER")
  /\ sync' = IF sync.sources = {s} THEN NoSync
             ELSE [sync EXCEPT !.sources = @ \ {s}]
  /\ UNCHANGED <<recloud, inbox, poll, timer, rechecks, errors, crashes>>

SyncFails ==
  /\ sync # NoSync
  /\ sync' = NoSync
  /\ UNCHANGED <<recloud, orders, inbox, poll, timer, rechecks, errors, crashes>>

-----------------------------------------------------------------------------
(* Around the backend.                                                     *)

\* External: customer service opens a supervision order and works on it.
RecloudMoves(s, status) ==
  /\ \/ recloud[s] = None /\ status = "PENDING"
     \/ recloud[s] = "PENDING" /\ status \in {"RESPONDED", "COMPLETED"}
     \/ recloud[s] = "RESPONDED" /\ status = "COMPLETED"
  /\ recloud' = [recloud EXCEPT ![s] = status]
  /\ UNCHANGED <<orders, inbox, poll, timer, rechecks, sync, errors, crashes>>

Crash ==
  /\ crashes < MaxCrashes
  /\ crashes' = crashes + 1
  /\ poll' = IdlePoll
  /\ timer' = "OFF"
  /\ rechecks' = {}
  /\ sync' = NoSync
  /\ UNCHANGED <<recloud, orders, inbox, errors>>

-----------------------------------------------------------------------------

Init ==
  /\ recloud = [s \in Source |-> None]
  /\ orders = [r \in Rma |-> [exists |-> FALSE, received |-> FALSE,
                              notices |-> [s \in Source |-> NoNotice]]]
  /\ inbox = [s \in Source |-> NoRecord]
  /\ poll = IdlePoll
  /\ timer = "OFF"
  /\ rechecks = {}
  /\ sync = NoSync
  /\ errors = 0
  /\ crashes = 0

PollStep ==
  \/ ReadLocal \/ ReadTab \/ BeginLoop \/ TakeEntry \/ ArchiveOrder
  \/ SaveInbox \/ SaveOrder \/ PollSucceeds

Next ==
  \/ PollStep \/ PollFails \/ Start \/ Tick
  \/ \E r \in Rma : Recheck(r) \/ Prepare(r) \/ CompleteReceipt(r) \/ SyncRead(r)
  \/ \E s \in Source :
       \/ Capture(s) \/ SyncSave(s)
       \/ \E u \in User : MarkSupervisionOrderRead(s, u)
       \/ \E status \in Status : RecloudMoves(s, status)
  \/ SyncFails \/ Crash

Spec == Init /\ [][Next]_vars

\* A poll that has started goes on, the session opens and the timer fires.
FairSpec == Spec /\ WF_vars(PollStep) /\ WF_vars(Start) /\ WF_vars(Tick)

-----------------------------------------------------------------------------
(* Properties.                                                             *)

\* Documents, snapshots and lists have the shape the code gives them.
TypeOK ==
  /\ recloud \in [Source -> Status \cup {None}]
  /\ orders \in [Rma -> Order]
  /\ inbox \in [Source -> InboxRecord]
  /\ poll \in PollState
  /\ timer \in {"OFF", "ARMED", "WAITING"}
  /\ rechecks \subseteq Rma
  /\ sync \in [rma: Rma \cup {None}, sources: SUBSET Source]
  /\ errors \in Nat
  /\ crashes \in Nat

\* The monitor notifies a technician only of an order that was received, and
\* only of a supervision order that the inbox has, although it decides on a
\* snapshot and fails or stops in the middle of an entry.
NoticesFollowReceipt ==
  \A s \in Source :
    orders[RmaOf[s]].notices[s].by = "MONITOR" =>
      orders[RmaOf[s]].received /\ inbox[s] # NoRecord

\* Between two preparations of its order a supervision order is announced once
\* at most, though polls, syncs and captures decide on snapshots of their own
\* and save it again and again.  After a second preparation it is announced
\* again: the notice is gone and the timeline has the first announcement.
AnnouncedOncePerPreparation ==
  \A s \in Source :
    LET notice == orders[RmaOf[s]].notices[s] IN
      notice.announced <= notice.before + 1

\* What was archived stays archived: no poll or sync that has read an older
\* status brings it back.
ArchivedIsFinal ==
  [][\A s \in Source :
       /\ inbox[s].archived => inbox'[s].archived
       /\ orders[RmaOf[s]].notices[s].archived =>
            \/ orders'[RmaOf[s]].notices[s].archived
            \/ orders'[RmaOf[s]].notices[s].status = None]_vars

\* Who has read a notice has read it, whatever is saved over it later.
ReadIsKept ==
  [][\A s \in Source :
       \/ orders[RmaOf[s]].notices[s].readBy
            \subseteq orders'[RmaOf[s]].notices[s].readBy
       \/ orders'[RmaOf[s]].notices[s].status = None]_vars

\* An unhandled supervision order reaches the technician of a received order,
\* whether the receipt or the supervision order came first, and however many
\* polls failed, were skipped or died with the backend before.
PendingIsNotified ==
  \A s \in Source :
    orders[RmaOf[s]].received /\ recloud[s] = "PENDING"
      ~> \/ orders[RmaOf[s]].notices[s].status # None
         \/ recloud[s] # "PENDING"

\* A completed supervision order leaves the inbox and the technician's list.
CompletedIsArchived ==
  \A s \in Source :
    recloud[s] = "COMPLETED" ~>
      /\ inbox[s] = NoRecord \/ inbox[s].archived
      /\ LET notice == orders[RmaOf[s]].notices[s] IN
           notice.status = None \/ notice.archived
=============================================================================
