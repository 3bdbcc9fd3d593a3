----------------------- MODULE SupervisionMonitorProofs -----------------------
(***************************************************************************)
(* Proofs about SupervisionMonitor, for every set of orders, supervision   *)
(* orders and readers and every bound on the failures.                     *)
(***************************************************************************)
EXTENDS SupervisionMonitor, TLAPS

NoticeOf(s) == orders[RmaOf[s]].notices[s]

Saving == {"SAVE_INBOX", "SAVE_ORDER"}

\* At most one announcement since the last preparation, and none while there is
\* no notice.
CountedOnce(n) ==
  /\ n.announced <= n.before + 1
  /\ n.status = None => n.announced <= n.before

\* What the monitor announced follows a receipt and is in the inbox; it was
\* announced once since the last preparation.
NoticeIsConsistent(s) ==
  /\ NoticeOf(s).by = "MONITOR" =>
       orders[RmaOf[s]].received /\ inbox[s] # NoRecord
  /\ CountedOnce(NoticeOf(s))

\* What is archived is completed in Recloud, and the poll under way has no older
\* status of it left.
ArchivedIsOver(s) ==
  inbox[s].archived \/ NoticeOf(s).archived =>
    /\ recloud[s] = "COMPLETED"
    /\ s \notin poll.live["PENDING"]
    /\ s \notin poll.live["RESPONDED"]
    /\ ~(poll.pc \in Saving /\ poll.source = s)

\* The poll knows only receipts that happened, and the list of the completed
\* ones stays true.
SnapshotIsPast ==
  /\ \A r \in Rma : poll.local[r].received => orders[r].received
  /\ \A s \in poll.live["COMPLETED"] : recloud[s] = "COMPLETED"

\* The writes of an entry that are still to come are those of its status.
EntryIsConsistent ==
  /\ poll.pc \in Saving =>
       poll.source \in Source /\ poll.status \in {"PENDING", "RESPONDED"}
  /\ poll.pc = "SAVE_ORDER" =>
       orders[RmaOf[poll.source]].received /\ inbox[poll.source] # NoRecord
  /\ poll.pc = "ARCHIVE_ORDER" =>
       /\ poll.source \in Source
       /\ recloud[poll.source] = "COMPLETED"
       /\ poll.live["PENDING"] = {}
       /\ poll.live["RESPONDED"] = {}

\* The inductive invariant.
IInv ==
  /\ TypeOK
  /\ \A s \in Source : NoticeIsConsistent(s) /\ ArchivedIsOver(s)
  /\ SnapshotIsPast
  /\ EntryIsConsistent

\* What saving does to a notice.
LEMMA SavedNoticeIs ==
  ASSUME NEW c \in Notice, NEW status \in Status \cup {None},
         NEW by \in {"MONITOR", "USER"}, NEW n, n = SavedNotice(c, status, by)
  PROVE  /\ n \in Notice
         /\ n.archived => c.archived /\ status \notin {"PENDING", "RESPONDED"}
         /\ status = None => n.archived = c.archived
         /\ n.readBy = c.readBy
         /\ CountedOnce(c) => CountedOnce(n)
         /\ n.by = "MONITOR" => by = "MONITOR" \/ c.by = "MONITOR"
<1>1. /\ n.status = IF status # None THEN status
                    ELSE IF c.status # None THEN c.status ELSE "PENDING"
      /\ n.archived = (status \in {None, "COMPLETED"} /\ c.archived)
      /\ n.readBy = c.readBy
      /\ n.announced = IF c.status = None THEN c.announced + 1 ELSE c.announced
      /\ n.before = c.before
      /\ n.by = IF c.status = None THEN by ELSE c.by
  BY DEF SavedNotice, Archived, ReadBy, Announced
<1>2. n = [status |-> n.status, archived |-> n.archived, readBy |-> n.readBy,
           announced |-> n.announced, before |-> n.before, by |-> n.by]
  BY DEF SavedNotice
<1>3. /\ c.status \in Status \cup {None}
      /\ c.archived \in BOOLEAN
      /\ c.readBy \in SUBSET User
      /\ c.announced \in Nat /\ c.before \in Nat
      /\ c.by \in {None, "MONITOR", "USER"}
  BY DEF Notice
<1>4. n.status \in Status \cup {None}
  BY <1>1, <1>3 DEF Status
<1>5. n.archived \in BOOLEAN
  BY <1>1
<1>6. n.announced \in Nat /\ n.before \in Nat /\ n.by \in {None, "MONITOR", "USER"}
  BY <1>1, <1>3
<1>7. n \in Notice
  BY <1>1, <1>2, <1>3, <1>4, <1>5, <1>6 DEF Notice
<1>8. n.archived => c.archived /\ status \notin {"PENDING", "RESPONDED"}
  BY <1>1 DEF None
<1>9. status = None => n.archived = c.archived
  BY <1>1, <1>3
<1>10. CountedOnce(c) => CountedOnce(n)
  <2>1. n.status # None
    BY <1>1 DEF None
  <2>2. CASE c.status = None
    BY <1>1, <1>3, <2>1, <2>2 DEF CountedOnce
  <2>3. CASE c.status # None
    BY <1>1, <1>3, <2>1, <2>3 DEF CountedOnce
  <2>. QED BY <2>2, <2>3
<1>11. n.by = "MONITOR" => by = "MONITOR" \/ c.by = "MONITOR"
  BY <1>1
<1>. QED BY <1>1, <1>7, <1>8, <1>9, <1>10, <1>11

\* What archiving does to a notice.
LEMMA ArchivedNoticeIs ==
  ASSUME NEW c \in Notice
  PROVE  LET n == ArchivedNotice(c) IN
           /\ n \in Notice
           /\ c.archived => n.archived
           /\ n.readBy = c.readBy
           /\ CountedOnce(c) => CountedOnce(n)
           /\ n.by = c.by
BY DEF ArchivedNotice, Notice, Status, CountedOnce, None

\* What a second preparation does to a notice.
LEMMA DroppedIs ==
  ASSUME NEW c \in Notice
  PROVE  LET n == Dropped(c) IN
           /\ n \in Notice
           /\ n.status = None /\ n.by # "MONITOR" /\ ~n.archived
           /\ CountedOnce(n)
<1>1. PICK k \in Nat : k = c.announced
  BY DEF Notice
<1>2. Dropped(c) = [status |-> None, archived |-> FALSE, readBy |-> {},
                    announced |-> k, before |-> k, by |-> None]
  BY <1>1 DEF Dropped
<1>3. Dropped(c) \in Notice
  BY <1>1, <1>2 DEF Notice
<1>4. CountedOnce(Dropped(c))
  BY <1>1, <1>2 DEF CountedOnce
<1>. QED BY <1>2, <1>3, <1>4 DEF None

\* A step that writes one notice leaves everything else of the orders alone.
LEMMA OneNotice ==
  ASSUME TypeOK, NEW s \in Source, NEW n \in Notice,
         orders' = [orders EXCEPT ![RmaOf[s]].notices[s] = n]
  PROVE  /\ orders' \in [Rma -> Order]
         /\ NoticeOf(s)' = n
         /\ \A t \in Source \ {s} : NoticeOf(t)' = NoticeOf(t)
         /\ \A r \in Rma : orders'[r].received = orders[r].received
<1>1. PICK r \in Rma : r = RmaOf[s]
  BY SupervisionAssumption
<1>2. orders[r] \in Order /\ orders \in [Rma -> Order]
  BY <1>1 DEF TypeOK
<1>3. PICK q : q = [orders[r] EXCEPT !.notices[s] = n]
  OBVIOUS
<1>4. /\ q \in Order
      /\ q.notices = [orders[r].notices EXCEPT ![s] = n]
      /\ q.received = orders[r].received
  BY <1>2, <1>3 DEF Order
<1>5. orders' = [orders EXCEPT ![r] = q]
  BY <1>1, <1>2, <1>3
<1>6. /\ orders'[r] = q
      /\ \A p \in Rma \ {r} : orders'[p] = orders[p]
  BY <1>2, <1>5
<1>7. orders' \in [Rma -> Order]
  BY <1>2, <1>4, <1>5
<1>8. NoticeOf(s)' = n
  BY <1>1, <1>2, <1>4, <1>6 DEF NoticeOf, Order
<1>9. ASSUME NEW t \in Source \ {s} PROVE NoticeOf(t)' = NoticeOf(t)
  <2>1. RmaOf[t] \in Rma
    BY SupervisionAssumption
  <2>2. CASE RmaOf[t] = r
    BY <1>2, <1>4, <1>6, <2>2 DEF NoticeOf, Order
  <2>3. CASE RmaOf[t] # r
    BY <1>6, <2>1, <2>3 DEF NoticeOf
  <2>. QED BY <2>2, <2>3
<1>. QED BY <1>4, <1>6, <1>7, <1>8, <1>9

\* The current notice of a supervision order is a notice.
LEMMA NoticeOfIs ==
  ASSUME TypeOK, NEW s \in Source
  PROVE  NoticeOf(s) \in Notice /\ RmaOf[s] \in Rma
BY SupervisionAssumption DEF TypeOK, NoticeOf, Order

\* A handler's write of one notice keeps the invariant.
LEMMA HandlerKeeps ==
  ASSUME IInv, TypeOK', NEW s \in Source, NEW n \in Notice,
         orders' = [orders EXCEPT ![RmaOf[s]].notices[s] = n],
         n.archived => NoticeOf(s).archived,
         CountedOnce(n),
         n.by = "MONITOR" => NoticeOf(s).by = "MONITOR",
         UNCHANGED <<recloud, inbox, poll>>
  PROVE  IInv'
<1>1. /\ NoticeOf(s)' = n
      /\ \A t \in Source \ {s} : NoticeOf(t)' = NoticeOf(t)
      /\ \A r \in Rma : orders'[r].received = orders[r].received
  BY OneNotice DEF IInv
<1>2. ASSUME NEW t \in Source PROVE NoticeIsConsistent(t)' /\ ArchivedIsOver(t)'
  <2>1. NoticeIsConsistent(t) /\ ArchivedIsOver(t) /\ RmaOf[t] \in Rma
    BY SupervisionAssumption DEF IInv
  <2>2. CASE t = s
    BY <1>1, <2>1, <2>2 DEF NoticeIsConsistent, ArchivedIsOver
  <2>3. CASE t # s
    BY <1>1, <2>1, <2>3 DEF NoticeIsConsistent, ArchivedIsOver
  <2>. QED BY <2>2, <2>3
<1>3. SnapshotIsPast'
  BY <1>1 DEF IInv, SnapshotIsPast
<1>4. EntryIsConsistent'
  BY <1>1, SupervisionAssumption DEF IInv, EntryIsConsistent
<1>. QED BY <1>2, <1>3, <1>4 DEF IInv

\* A capture and a sync save without a status.
LEMMA UserSaveKeeps ==
  ASSUME IInv, TypeOK', NEW s \in Source,
         SaveSupervisionOrder(s, None, "USER"),
         UNCHANGED <<recloud, inbox, poll>>
  PROVE  IInv'
<1>1. PICK n : n = SavedNotice(NoticeOf(s), None, "USER")
  OBVIOUS
<1>2. /\ n \in Notice
      /\ n.archived => NoticeOf(s).archived
      /\ CountedOnce(n)
      /\ n.by = "MONITOR" => NoticeOf(s).by = "MONITOR"
  BY <1>1, SavedNoticeIs, NoticeOfIs DEF IInv, NoticeIsConsistent
<1>3. orders' = [orders EXCEPT ![RmaOf[s]].notices[s] = n]
  BY <1>1 DEF SaveSupervisionOrder, NoticeOf
<1>. QED BY <1>2, <1>3, HandlerKeeps

-----------------------------------------------------------------------------
(* The invariant under the steps of a poll.                                *)

\* The fields of a poll.
LEMMA PollIs ==
  ASSUME TypeOK
  PROVE  /\ poll.local \in [Rma -> Seen]
         /\ poll.live \in [Status -> SUBSET Source]
         /\ poll.tabs \in 0..3
         /\ poll.status \in Status \cup {None}
BY DEF TypeOK, PollState

\* A poll that goes to its next entry.
LEMMA DoneIs ==
  ASSUME TypeOK, Done
  PROVE  /\ poll' \in PollState
         /\ poll'.pc = "NEXT"
         /\ poll'.live = poll.live
         /\ poll'.local = poll.local
BY DEF TypeOK, PollState, Done

\* A poll that takes an entry.
LEMMA WorkIs ==
  ASSUME TypeOK, NEW s \in Source, NEW status \in Status,
         NEW pc \in {"NEXT", "ARCHIVE_ORDER", "SAVE_INBOX"}, Work(s, status, pc)
  PROVE  /\ poll' \in PollState
         /\ poll'.pc = pc
         /\ poll'.local = poll.local
         /\ \A st \in Status : poll'.live[st] \subseteq poll.live[st]
         /\ pc # "NEXT" => poll'.source = s /\ poll'.status = status
<1>1. PICK live : live = [poll.live EXCEPT ![status] = @ \ {s}]
  OBVIOUS
<1>2. /\ live \in [Status -> SUBSET Source]
      /\ \A st \in Status : live[st] \subseteq poll.live[st]
  BY <1>1, PollIs
<1>3. PICK source : source = IF pc = "NEXT" THEN None ELSE s
  OBVIOUS
<1>4. PICK now : now = IF pc = "NEXT" THEN None ELSE status
  OBVIOUS
<1>5. poll' = [poll EXCEPT !.live = live, !.pc = pc, !.source = source,
                           !.status = now]
  BY <1>1, <1>3, <1>4, PollIs DEF Work, TypeOK, PollState
<1>6. source \in Source \cup {None} /\ now \in Status \cup {None}
  BY <1>3, <1>4
<1>7. /\ poll' \in PollState
      /\ poll'.pc = pc /\ poll'.live = live /\ poll'.local = poll.local
      /\ poll'.source = source /\ poll'.status = now
  BY <1>2, <1>5, <1>6 DEF TypeOK, PollState
<1>. QED BY <1>2, <1>3, <1>4, <1>7

\* A poll that has read nothing yet, or none.
LEMMA FreshPollKeeps ==
  ASSUME IInv, NEW owner \in {None, "TICK", "RECEIPT"},
         StartPoll(owner) \/ poll' = IdlePoll,
         UNCHANGED <<recloud, orders, inbox>>
  PROVE  /\ poll' \in PollState
         /\ TypeOK' => IInv'
<1>1. NothingSeen = [exists |-> FALSE, received |-> FALSE,
                     status |-> [s \in Source |-> None]]
  BY DEF NothingSeen, View, NoNotice
<1>2. NothingSeen \in Seen
  BY <1>1 DEF Seen
<1>3. /\ poll' \in PollState
      /\ poll'.pc \in {"IDLE", "READING"}
      /\ poll'.local = [r \in Rma |-> NothingSeen]
      /\ poll'.live = [st \in Status |-> {}]
  <2>1. PICK local : local = [r \in Rma |-> NothingSeen]
    OBVIOUS
  <2>2. PICK live : live = [st \in Status |-> {}]
    OBVIOUS
  <2>3. local \in [Rma -> Seen] /\ live \in [Status -> SUBSET Source]
    BY <1>2, <2>1, <2>2
  <2>4. IdlePoll = [pc |-> "IDLE", owner |-> None, hasLocal |-> FALSE,
                    local |-> local, tabs |-> 0, live |-> live,
                    source |-> None, status |-> None]
    BY <2>1, <2>2 DEF IdlePoll
  <2>5. IdlePoll \in PollState
    BY <2>3, <2>4 DEF PollState
  <2>6. CASE StartPoll(owner)
    <3>1. poll' = [pc |-> "READING", owner |-> owner, hasLocal |-> FALSE,
                   local |-> local, tabs |-> 0, live |-> live,
                   source |-> None, status |-> None]
      BY <2>4, <2>6 DEF StartPoll
    <3>. QED BY <2>1, <2>2, <2>3, <3>1 DEF PollState
  <2>7. CASE poll' = IdlePoll
    BY <2>1, <2>2, <2>4, <2>5, <2>7
  <2>. QED BY <2>6, <2>7
<1>4. ASSUME NEW s \in Source PROVE NoticeIsConsistent(s)' /\ ArchivedIsOver(s)'
  BY <1>3 DEF IInv, NoticeIsConsistent, ArchivedIsOver, NoticeOf, Status, Saving
<1>5. SnapshotIsPast'
  BY <1>1, <1>3 DEF SnapshotIsPast, Status
<1>6. EntryIsConsistent'
  BY <1>3 DEF EntryIsConsistent, Saving
<1>. QED BY <1>3, <1>4, <1>5, <1>6 DEF IInv

\* A step outside the documents, Recloud and the poll.
LEMMA FrameKeeps ==
  ASSUME IInv, TypeOK', UNCHANGED <<recloud, orders, inbox, poll>>
  PROVE  IInv'
BY DEF IInv, NoticeIsConsistent, ArchivedIsOver, NoticeOf, SnapshotIsPast,
       EntryIsConsistent

\* The local orders are read as they are.
LEMMA ReadLocalKeeps ==
  ASSUME IInv, ReadLocal
  PROVE  IInv'
<1>1. PICK local : local = [r \in Rma |-> View(orders[r])]
  OBVIOUS
<1>2. ASSUME NEW r \in Rma
      PROVE  View(orders[r]) \in Seen /\ View(orders[r]).received = orders[r].received
  <2>1. orders[r] \in Order
    BY DEF IInv, TypeOK
  <2>2. \A s \in Source : orders[r].notices[s].status \in Status \cup {None}
    BY <2>1 DEF Order, Notice
  <2>. QED BY <2>1, <2>2 DEF View, Seen, Order
<1>3. local \in [Rma -> Seen] /\ \A r \in Rma : local[r].received = orders[r].received
  BY <1>1, <1>2
<1>4. poll' = [poll EXCEPT !.hasLocal = TRUE, !.local = local]
  BY <1>1 DEF ReadLocal
<1>5. /\ poll' \in PollState
      /\ poll'.pc = "READING" /\ poll'.local = local /\ poll'.live = poll.live
  BY <1>3, <1>4 DEF IInv, TypeOK, PollState, ReadLocal
<1>6. TypeOK'
  BY <1>5 DEF IInv, TypeOK, ReadLocal
<1>7. ASSUME NEW s \in Source PROVE NoticeIsConsistent(s)' /\ ArchivedIsOver(s)'
  BY <1>5 DEF IInv, ReadLocal, NoticeIsConsistent, ArchivedIsOver, NoticeOf, Saving
<1>8. SnapshotIsPast' /\ EntryIsConsistent'
  BY <1>3, <1>5 DEF IInv, ReadLocal, SnapshotIsPast, EntryIsConsistent, Saving
<1>. QED BY <1>6, <1>7, <1>8 DEF IInv

\* A list shows what Recloud has, so never an older status of what is archived.
LEMMA ReadTabKeeps ==
  ASSUME IInv, ReadTab
  PROVE  IInv'
<1>1. PICK tab : tab = Tab[poll.tabs + 1]
  OBVIOUS
<1>2. poll.tabs + 1 \in 1..3 /\ tab \in Status
  BY <1>1, PollIs DEF IInv, ReadTab, Tab, Status
<1>3. PICK live : live = [poll.live EXCEPT ![tab] = {s \in Source : recloud[s] = tab}]
  OBVIOUS
<1>4. /\ live \in [Status -> SUBSET Source]
      /\ \A st \in Status, s \in Source :
           s \in live[st] => s \in poll.live[st] \/ recloud[s] = st
  BY <1>2, <1>3, PollIs DEF IInv
<1>5. PICK tabs : tabs = poll.tabs + 1
  OBVIOUS
<1>6. /\ poll' \in PollState
      /\ poll'.pc = "READING" /\ poll'.local = poll.local /\ poll'.live = live
  <2>1. tabs \in 0..3
    BY <1>2, <1>5
  <2>2. poll' = [poll EXCEPT !.tabs = tabs, !.live = live]
    BY <1>1, <1>3, <1>5, PollIs DEF IInv, ReadTab, TypeOK, PollState
  <2>. QED BY <1>4, <2>1, <2>2 DEF IInv, TypeOK, PollState, ReadTab
<1>7. TypeOK'
  BY <1>6 DEF IInv, TypeOK, ReadTab
<1>8. ASSUME NEW s \in Source PROVE NoticeIsConsistent(s)' /\ ArchivedIsOver(s)'
  BY <1>4, <1>6
  DEF IInv, ReadTab, NoticeIsConsistent, ArchivedIsOver, NoticeOf, Saving, Status
<1>9. SnapshotIsPast' /\ EntryIsConsistent'
  BY <1>4, <1>6
  DEF IInv, ReadTab, SnapshotIsPast, EntryIsConsistent, Saving, Status
<1>. QED BY <1>7, <1>8, <1>9 DEF IInv

\* The poll goes to its next entry.
LEMMA BeginLoopKeeps ==
  ASSUME IInv, BeginLoop
  PROVE  IInv'
<1>1. /\ poll' \in PollState
      /\ poll'.pc = "NEXT" /\ poll'.live = poll.live /\ poll'.local = poll.local
  BY DoneIs DEF IInv, BeginLoop
<1>2. TypeOK'
  BY <1>1 DEF IInv, TypeOK, BeginLoop
<1>3. ASSUME NEW s \in Source PROVE NoticeIsConsistent(s)' /\ ArchivedIsOver(s)'
  BY <1>1 DEF IInv, BeginLoop, NoticeIsConsistent, ArchivedIsOver, NoticeOf, Saving
<1>4. SnapshotIsPast' /\ EntryIsConsistent'
  BY <1>1 DEF IInv, BeginLoop, SnapshotIsPast, EntryIsConsistent, Saving
<1>. QED BY <1>2, <1>3, <1>4 DEF IInv

\* An entry is taken.  A completed one is archived in the inbox, and by the
\* order of the tabs no entry with an older status is left then.
LEMMA TakeEntryKeeps ==
  ASSUME IInv, TakeEntry
  PROVE  IInv'
<1>1. PICK i \in DOMAIN Tab : \E s \in poll.live[Tab[i]] :
        /\ IsFirstTab(i)
        /\ IF Tab[i] = "COMPLETED"
             THEN /\ inbox' = [inbox EXCEPT ![s] = ArchivedRecord(@)]
                  /\ Work(s, Tab[i], IF poll.local[RmaOf[s]].exists
                                       THEN "ARCHIVE_ORDER" ELSE "NEXT")
             ELSE /\ Work(s, Tab[i], IF Tab[i] = "PENDING" \/ inbox[s] # NoRecord
                                       THEN "SAVE_INBOX" ELSE "NEXT")
                  /\ UNCHANGED inbox
  BY DEF TakeEntry
<1>2. i \in 1..3 /\ Tab[i] \in Status
  BY DEF Tab, Status
<1>3. PICK s \in poll.live[Tab[i]] :
        /\ IsFirstTab(i)
        /\ IF Tab[i] = "COMPLETED"
             THEN /\ inbox' = [inbox EXCEPT ![s] = ArchivedRecord(@)]
                  /\ Work(s, Tab[i], IF poll.local[RmaOf[s]].exists
                                       THEN "ARCHIVE_ORDER" ELSE "NEXT")
             ELSE /\ Work(s, Tab[i], IF Tab[i] = "PENDING" \/ inbox[s] # NoRecord
                                       THEN "SAVE_INBOX" ELSE "NEXT")
                  /\ UNCHANGED inbox
  BY <1>1
<1>4. s \in Source
  BY <1>2, PollIs DEF IInv
<1>5. UNCHANGED <<recloud, orders, timer, rechecks, sync, errors, crashes>>
  BY DEF TakeEntry
<1>6. CASE Tab[i] = "COMPLETED"
  <2>1. i = 3 /\ Tab[1] = "PENDING" /\ Tab[2] = "RESPONDED"
    BY <1>2, <1>6 DEF Tab
  <2>2. poll.live["PENDING"] = {} /\ poll.live["RESPONDED"] = {}
    BY <1>3, <2>1 DEF IsFirstTab
  <2>3. recloud[s] = "COMPLETED"
    BY <1>3, <1>6 DEF IInv, SnapshotIsPast
  <2>4. PICK pc \in {"NEXT", "ARCHIVE_ORDER"} : Work(s, "COMPLETED", pc)
    BY <1>3, <1>6
  <2>5. /\ poll' \in PollState
        /\ poll'.pc = pc /\ poll'.local = poll.local
        /\ \A st \in Status : poll'.live[st] \subseteq poll.live[st]
        /\ pc # "NEXT" => poll'.source = s
    BY <1>4, <2>4, WorkIs DEF IInv, Status
  <2>6. inbox' \in [Source -> InboxRecord]
        /\ \A t \in Source : inbox'[t] = IF t = s THEN ArchivedRecord(inbox[s])
                                         ELSE inbox[t]
    <3>1. inbox' = [inbox EXCEPT ![s] = ArchivedRecord(inbox[s])]
      BY <1>3, <1>6
    <3>2. ArchivedRecord(inbox[s]) \in InboxRecord
      BY DEF ArchivedRecord, InboxRecord, NoRecord, Status
    <3>. QED BY <3>1, <3>2 DEF IInv, TypeOK
  <2>7. TypeOK'
    BY <1>5, <2>5, <2>6 DEF IInv, TypeOK
  <2>8. inbox[s] # NoRecord => ArchivedRecord(inbox[s]) # NoRecord
    BY DEF ArchivedRecord, NoRecord
  <2>9. ASSUME NEW t \in Source PROVE NoticeIsConsistent(t)' /\ ArchivedIsOver(t)'
    <3>1. NoticeIsConsistent(t) /\ ArchivedIsOver(t)
      BY DEF IInv
    <3>2. NoticeIsConsistent(t)'
      BY <1>5, <2>6, <2>8, <3>1 DEF NoticeIsConsistent, NoticeOf
    <3>3. poll'.live["PENDING"] = {} /\ poll'.live["RESPONDED"] = {}
      BY <2>2, <2>5 DEF Status
    <3>4. poll'.pc \notin Saving
      BY <2>5 DEF Saving
    <3>5. inbox'[t].archived => inbox[t].archived \/ t = s
      BY <2>6
    <3>6. ArchivedIsOver(t)'
      BY <1>5, <2>3, <3>1, <3>3, <3>4, <3>5 DEF ArchivedIsOver, NoticeOf
    <3>. QED BY <3>2, <3>6
  <2>10. SnapshotIsPast'
    BY <1>5, <2>5 DEF IInv, SnapshotIsPast, Status
  <2>11. EntryIsConsistent'
    BY <1>4, <1>5, <2>2, <2>3, <2>5 DEF EntryIsConsistent, Status, Saving
  <2>. QED BY <2>7, <2>9, <2>10, <2>11 DEF IInv
<1>7. CASE Tab[i] # "COMPLETED"
  <2>1. PICK status \in {"PENDING", "RESPONDED"} : status = Tab[i]
    BY <1>2, <1>7 DEF Status
  <2>2. PICK pc \in {"NEXT", "SAVE_INBOX"} : Work(s, status, pc)
    BY <1>3, <1>7, <2>1
  <2>3. UNCHANGED inbox /\ s \in poll.live[status]
    BY <1>3, <1>7, <2>1
  <2>4. /\ poll' \in PollState
        /\ poll'.pc = pc /\ poll'.local = poll.local
        /\ \A st \in Status : poll'.live[st] \subseteq poll.live[st]
        /\ pc # "NEXT" => poll'.source = s /\ poll'.status = status
    BY <1>4, <2>2, WorkIs DEF IInv, Status
  <2>5. TypeOK'
    BY <1>5, <2>3, <2>4 DEF IInv, TypeOK
  <2>6. ASSUME NEW t \in Source PROVE NoticeIsConsistent(t)' /\ ArchivedIsOver(t)'
    <3>1. NoticeIsConsistent(t) /\ ArchivedIsOver(t)
      BY DEF IInv
    <3>2. NoticeIsConsistent(t)'
      BY <1>5, <2>3, <3>1 DEF NoticeIsConsistent, NoticeOf
    <3>3. ArchivedIsOver(t)'
      BY <1>5, <2>3, <2>4, <3>1 DEF ArchivedIsOver, NoticeOf, Saving, Status
    <3>. QED BY <3>2, <3>3
  <2>7. SnapshotIsPast'
    BY <1>5, <2>4 DEF IInv, SnapshotIsPast, Status
  <2>8. EntryIsConsistent'
    BY <1>4, <2>4 DEF EntryIsConsistent, Saving
  <2>. QED BY <2>5, <2>6, <2>7, <2>8 DEF IInv
<1>. QED BY <1>6, <1>7

\* The order of a completed entry is archived.
LEMMA ArchiveOrderKeeps ==
  ASSUME IInv, ArchiveOrder
  PROVE  IInv'
<1>1. PICK s \in Source : s = poll.source /\ recloud[s] = "COMPLETED"
  BY DEF IInv, EntryIsConsistent, ArchiveOrder
<1>2. poll.live["PENDING"] = {} /\ poll.live["RESPONDED"] = {}
  BY DEF IInv, EntryIsConsistent, ArchiveOrder
<1>3. /\ poll' \in PollState
      /\ poll'.pc = "NEXT" /\ poll'.live = poll.live /\ poll'.local = poll.local
  BY DoneIs DEF IInv, ArchiveOrder
<1>4. UNCHANGED <<recloud, inbox, timer, rechecks, sync, errors, crashes>>
  BY DEF ArchiveOrder
<1>5. /\ orders' \in [Rma -> Order]
      /\ \A t \in Source \ {s} : NoticeOf(t)' = NoticeOf(t)
      /\ \A r \in Rma : orders'[r].received = orders[r].received
      /\ CountedOnce(NoticeOf(s)')
      /\ NoticeOf(s)'.by = NoticeOf(s).by
  <2>1. CASE UNCHANGED orders
    BY <2>1 DEF IInv, TypeOK, NoticeOf, NoticeIsConsistent
  <2>2. CASE ArchiveSupervisionOrder(s)
    <3>1. PICK n : n = ArchivedNotice(NoticeOf(s))
      OBVIOUS
    <3>2. n \in Notice /\ CountedOnce(n) /\ n.by = NoticeOf(s).by
      BY <3>1, ArchivedNoticeIs, NoticeOfIs DEF IInv, NoticeIsConsistent
    <3>3. orders' = [orders EXCEPT ![RmaOf[s]].notices[s] = n]
      BY <2>2, <3>1 DEF ArchiveSupervisionOrder, NoticeOf
    <3>. QED BY <3>2, <3>3, OneNotice DEF IInv
  <2>. QED BY <1>1, <2>1, <2>2 DEF ArchiveOrder
<1>6. TypeOK'
  BY <1>3, <1>4, <1>5 DEF IInv, TypeOK
<1>7. ASSUME NEW t \in Source PROVE NoticeIsConsistent(t)' /\ ArchivedIsOver(t)'
  <2>1. NoticeIsConsistent(t) /\ ArchivedIsOver(t) /\ RmaOf[t] \in Rma
    BY SupervisionAssumption DEF IInv
  <2>2. CountedOnce(NoticeOf(t)') /\ NoticeOf(t)'.by = NoticeOf(t).by
    BY <1>5, <2>1 DEF NoticeIsConsistent
  <2>3. NoticeIsConsistent(t)'
    BY <1>4, <1>5, <2>1, <2>2 DEF NoticeIsConsistent
  <2>4. ArchivedIsOver(t)'
    BY <1>1, <1>2, <1>3, <1>4, <1>5, <2>1 DEF ArchivedIsOver, Saving
  <2>. QED BY <2>3, <2>4
<1>8. SnapshotIsPast'
  BY <1>3, <1>4, <1>5 DEF IInv, SnapshotIsPast
<1>9. EntryIsConsistent'
  BY <1>3 DEF EntryIsConsistent, Saving
<1>. QED BY <1>6, <1>7, <1>8, <1>9 DEF IInv

\* The inbox is saved; what the poll decides next rests on a receipt it has seen.
LEMMA SaveInboxKeeps ==
  ASSUME IInv, SaveInbox
  PROVE  IInv'
<1>1. PICK s \in Source : s = poll.source
  BY DEF IInv, EntryIsConsistent, SaveInbox, Saving
<1>2. PICK record : record = [status |-> poll.status, archived |-> FALSE]
  OBVIOUS
<1>3. poll.status \in {"PENDING", "RESPONDED"}
  BY DEF IInv, EntryIsConsistent, SaveInbox, Saving
<1>4. record \in InboxRecord /\ record # NoRecord /\ ~record.archived
  BY <1>2, <1>3 DEF InboxRecord, NoRecord, None, Status
<1>5. inbox' = [inbox EXCEPT ![s] = record]
  BY <1>1, <1>2 DEF SaveInbox
<1>6. /\ inbox' \in [Source -> InboxRecord]
      /\ \A t \in Source : inbox'[t] = IF t = s THEN record ELSE inbox[t]
  BY <1>4, <1>5 DEF IInv, TypeOK
<1>7. UNCHANGED <<recloud, orders, timer, rechecks, sync, errors, crashes>>
  BY DEF SaveInbox
<1>8. /\ poll' \in PollState
      /\ poll'.live = poll.live /\ poll'.local = poll.local
      /\ \/ poll'.pc = "NEXT"
         \/ /\ poll'.pc = "SAVE_ORDER"
            /\ poll'.source = s /\ poll'.status = poll.status
            /\ poll.local[RmaOf[s]].received
  <2>1. CASE Notifies(poll.local[RmaOf[s]], s, poll.status)
    <3>1. poll' = [poll EXCEPT !.pc = "SAVE_ORDER"]
      BY <1>1, <2>1 DEF SaveInbox
    <3>2. poll.local[RmaOf[s]].received
      BY <2>1 DEF Notifies
    <3>. QED BY <1>1, <3>1, <3>2 DEF IInv, TypeOK, PollState
  <2>2. CASE ~Notifies(poll.local[RmaOf[s]], s, poll.status)
    <3>1. Done
      BY <1>1, <2>2 DEF SaveInbox
    <3>. QED BY <3>1, DoneIs DEF IInv
  <2>. QED BY <2>1, <2>2
<1>9. TypeOK'
  BY <1>6, <1>7, <1>8 DEF IInv, TypeOK
<1>10. ASSUME NEW t \in Source PROVE NoticeIsConsistent(t)' /\ ArchivedIsOver(t)'
  <2>1. NoticeIsConsistent(t) /\ ArchivedIsOver(t)
    BY DEF IInv
  <2>2. NoticeIsConsistent(t)'
    BY <1>4, <1>6, <1>7, <2>1 DEF NoticeIsConsistent, NoticeOf
  <2>3. poll.pc \in Saving
    BY DEF SaveInbox, Saving
  <2>4. CASE t = s
    BY <1>1, <1>4, <1>6, <1>7, <2>1, <2>2, <2>3, <2>4 DEF ArchivedIsOver, NoticeOf
  <2>5. CASE t # s
    BY <1>6, <1>7, <1>8, <2>1, <2>2, <2>5 DEF ArchivedIsOver, NoticeOf, Saving
  <2>. QED BY <2>4, <2>5
<1>11. SnapshotIsPast'
  BY <1>7, <1>8 DEF IInv, SnapshotIsPast
<1>12. EntryIsConsistent'
  <2>1. RmaOf[s] \in Rma
    BY SupervisionAssumption
  <2>2. poll.local[RmaOf[s]].received => orders[RmaOf[s]].received
    BY <2>1 DEF IInv, SnapshotIsPast
  <2>. QED BY <1>3, <1>4, <1>6, <1>7, <1>8, <2>2 DEF EntryIsConsistent, Saving
<1>. QED BY <1>9, <1>10, <1>11, <1>12 DEF IInv

\* The order is saved: the entry is neither completed nor archived.
LEMMA SaveOrderKeeps ==
  ASSUME IInv, SaveOrder
  PROVE  IInv'
<1>1. PICK s \in Source : s = poll.source
  BY DEF IInv, EntryIsConsistent, SaveOrder, Saving
<1>2. /\ poll.status \in {"PENDING", "RESPONDED"}
      /\ orders[RmaOf[s]].received /\ inbox[s] # NoRecord
  BY <1>1 DEF IInv, EntryIsConsistent, SaveOrder, Saving
<1>3. PICK n : n = SavedNotice(NoticeOf(s), poll.status, "MONITOR")
  OBVIOUS
<1>4. n \in Notice /\ ~n.archived /\ CountedOnce(n)
  BY <1>2, <1>3, SavedNoticeIs, NoticeOfIs DEF IInv, NoticeIsConsistent, Status
<1>5. orders' = [orders EXCEPT ![RmaOf[s]].notices[s] = n]
  BY <1>1, <1>3 DEF SaveOrder, SaveSupervisionOrder, NoticeOf
<1>6. /\ orders' \in [Rma -> Order]
      /\ NoticeOf(s)' = n
      /\ \A t \in Source \ {s} : NoticeOf(t)' = NoticeOf(t)
      /\ \A r \in Rma : orders'[r].received = orders[r].received
  BY <1>4, <1>5, OneNotice DEF IInv
<1>7. /\ poll' \in PollState
      /\ poll'.pc = "NEXT" /\ poll'.live = poll.live /\ poll'.local = poll.local
  BY DoneIs DEF IInv, SaveOrder
<1>8. UNCHANGED <<recloud, inbox, timer, rechecks, sync, errors, crashes>>
  BY DEF SaveOrder
<1>9. TypeOK'
  BY <1>6, <1>7, <1>8 DEF IInv, TypeOK
<1>10. ASSUME NEW t \in Source PROVE NoticeIsConsistent(t)' /\ ArchivedIsOver(t)'
  <2>1. NoticeIsConsistent(t) /\ ArchivedIsOver(t) /\ RmaOf[t] \in Rma
    BY SupervisionAssumption DEF IInv
  <2>2. CASE t = s
    <3>1. NoticeIsConsistent(t)'
      BY <1>2, <1>4, <1>6, <1>8, <2>1, <2>2 DEF NoticeIsConsistent
    <3>2. ArchivedIsOver(t)'
      BY <1>4, <1>6, <1>7, <1>8, <2>1, <2>2 DEF ArchivedIsOver, Saving
    <3>. QED BY <3>1, <3>2
  <2>3. CASE t # s
    BY <1>6, <1>7, <1>8, <2>1, <2>3 DEF NoticeIsConsistent, ArchivedIsOver, Saving
  <2>. QED BY <2>2, <2>3
<1>11. SnapshotIsPast'
  BY <1>6, <1>7, <1>8 DEF IInv, SnapshotIsPast
<1>12. EntryIsConsistent'
  BY <1>7 DEF EntryIsConsistent, Saving
<1>. QED BY <1>9, <1>10, <1>11, <1>12 DEF IInv

-----------------------------------------------------------------------------
(* The invariant under the handlers and around them.                       *)

\* A poll begins, ends, fails or dies.
LEMMA PollLifeKeeps ==
  ASSUME IInv,
         \/ Start \/ Tick \/ PollSucceeds \/ PollFails \/ Crash
         \/ \E r \in Rma : Recheck(r)
  PROVE  IInv'
<1>1. /\ UNCHANGED <<recloud, orders, inbox>>
      /\ \/ StartPoll("TICK") \/ StartPoll("RECEIPT") \/ poll' = IdlePoll
         \/ UNCHANGED poll
  BY DEF Start, Tick, PollSucceeds, PollFails, Crash, Recheck, EndPoll, AfterError
<1>2. CASE StartPoll("TICK") \/ StartPoll("RECEIPT") \/ poll' = IdlePoll
  <2>1. poll' \in PollState /\ (TypeOK' => IInv')
    BY <1>1, <1>2, FreshPollKeeps
  <2>2. TypeOK'
    BY <1>1, <2>1
    DEF IInv, TypeOK, Start, Tick, PollSucceeds, PollFails, Crash, Recheck,
        EndPoll, AfterError, NoSync
  <2>. QED BY <2>1, <2>2
<1>3. CASE UNCHANGED poll
  <2>1. TypeOK'
    BY <1>1, <1>3
    DEF IInv, TypeOK, Start, Tick, PollSucceeds, PollFails, Crash, Recheck,
        EndPoll, AfterError, NoSync
  <2>. QED BY <1>1, <1>3, <2>1, FrameKeeps
<1>. QED BY <1>1, <1>2, <1>3

\* A notice is read.
LEMMA MarkReadKeeps ==
  ASSUME IInv, NEW s \in Source, NEW u \in User, MarkSupervisionOrderRead(s, u)
  PROVE  IInv'
<1>1. PICK n : n = [NoticeOf(s) EXCEPT !.readBy = @ \cup {u}]
  OBVIOUS
<1>2. /\ n \in Notice
      /\ n.archived = NoticeOf(s).archived
      /\ n.announced = NoticeOf(s).announced /\ n.before = NoticeOf(s).before
      /\ n.status = NoticeOf(s).status
      /\ n.by = NoticeOf(s).by
  BY <1>1, NoticeOfIs DEF IInv, Notice
<1>3. orders' = [orders EXCEPT ![RmaOf[s]].notices[s] = n]
  <2>1. PICK q : q = orders[RmaOf[s]].notices[s].readBy \cup {u}
    OBVIOUS
  <2>2. orders' = [orders EXCEPT ![RmaOf[s]].notices[s].readBy = q]
    BY <2>1 DEF MarkSupervisionOrderRead
  <2>3. n = [orders[RmaOf[s]].notices[s] EXCEPT !.readBy = q]
    BY <1>1, <2>1 DEF NoticeOf
  <2>. QED BY <2>2, <2>3
<1>4. orders' \in [Rma -> Order]
  BY <1>2, <1>3, OneNotice DEF IInv
<1>5. TypeOK'
  BY <1>4 DEF IInv, TypeOK, MarkSupervisionOrderRead
<1>6. CountedOnce(n)
  BY <1>2 DEF IInv, NoticeIsConsistent, CountedOnce
<1>. QED BY <1>2, <1>3, <1>5, <1>6, HandlerKeeps DEF MarkSupervisionOrderRead

\* A capture, or a save of the sync handler.
LEMMA SaveKeeps ==
  ASSUME IInv, NEW s \in Source, Capture(s) \/ SyncSave(s)
  PROVE  IInv'
<1>1. SaveSupervisionOrder(s, None, "USER") /\ UNCHANGED <<recloud, inbox, poll>>
  BY DEF Capture, SyncSave
<1>2. orders' \in [Rma -> Order]
  <2>1. PICK n : n = SavedNotice(NoticeOf(s), None, "USER")
    OBVIOUS
  <2>2. n \in Notice
    BY <2>1, SavedNoticeIs, NoticeOfIs DEF IInv
  <2>3. orders' = [orders EXCEPT ![RmaOf[s]].notices[s] = n]
    BY <1>1, <2>1 DEF SaveSupervisionOrder, NoticeOf
  <2>. QED BY <2>2, <2>3, OneNotice DEF IInv
<1>3. sync' \in [rma: Rma \cup {None}, sources: SUBSET Source]
  <2>1. sync \in [rma: Rma \cup {None}, sources: SUBSET Source]
    BY DEF IInv, TypeOK
  <2>2. CASE Capture(s)
    BY <2>1, <2>2 DEF Capture
  <2>3. CASE SyncSave(s)
    BY <2>1, <2>3 DEF SyncSave, NoSync
  <2>. QED BY <2>2, <2>3
<1>4. TypeOK'
  BY <1>2, <1>3 DEF IInv, TypeOK, Capture, SyncSave
<1>. QED BY <1>1, <1>4, UserSaveKeeps

\* The other steps of the sync handler.
LEMMA SyncKeeps ==
  ASSUME IInv, SyncFails \/ \E r \in Rma : SyncRead(r)
  PROVE  IInv'
<1>1. UNCHANGED <<recloud, orders, inbox, poll>>
  BY DEF SyncFails, SyncRead
<1>2. sync' \in [rma: Rma \cup {None}, sources: SUBSET Source]
  BY DEF SyncFails, SyncRead, NoSync
<1>3. TypeOK'
  BY <1>1, <1>2 DEF IInv, TypeOK, SyncFails, SyncRead
<1>. QED BY <1>1, <1>3, FrameKeeps

\* Preparing an order again drops its notices and keeps its receipt.
LEMMA PrepareKeeps ==
  ASSUME IInv, NEW r \in Rma, Prepare(r)
  PROVE  IInv'
<1>1. PICK q : q = [exists |-> TRUE, received |-> orders[r].received,
                    notices |-> [s \in Source |-> Dropped(orders[r].notices[s])]]
  OBVIOUS
<1>2. \A s \in Source : Dropped(orders[r].notices[s]) \in Notice
  BY DroppedIs DEF IInv, TypeOK, Order
<1>3. orders \in [Rma -> Order] /\ orders[r] \in Order
  BY DEF IInv, TypeOK
<1>4. /\ q \in Order
      /\ q.received = orders[r].received
      /\ \A s \in Source : q.notices[s] = Dropped(orders[r].notices[s])
  BY <1>1, <1>2, <1>3 DEF Order
<1>5. orders' = [orders EXCEPT ![r] = q]
  BY <1>1 DEF Prepare
<1>6. /\ orders' \in [Rma -> Order]
      /\ \A p \in Rma : orders'[p] = IF p = r THEN q ELSE orders[p]
  BY <1>3, <1>4, <1>5
<1>7. \A p \in Rma : orders'[p].received = orders[p].received
  BY <1>4, <1>6
<1>8. UNCHANGED <<recloud, inbox, poll, timer, rechecks, sync, errors, crashes>>
  BY DEF Prepare
<1>9. TypeOK'
  BY <1>6, <1>8 DEF IInv, TypeOK
<1>10. ASSUME NEW t \in Source PROVE NoticeIsConsistent(t)' /\ ArchivedIsOver(t)'
  <2>1. NoticeIsConsistent(t) /\ ArchivedIsOver(t) /\ RmaOf[t] \in Rma
    BY SupervisionAssumption DEF IInv
  <2>2. NoticeOf(t)' = Dropped(NoticeOf(t)) \/ NoticeOf(t)' = NoticeOf(t)
    BY <1>4, <1>6, <2>1 DEF NoticeOf
  <2>3. LET n == Dropped(NoticeOf(t)) IN
          n.by # "MONITOR" /\ CountedOnce(n) /\ ~n.archived
    BY DroppedIs, NoticeOfIs DEF IInv
  <2>4. NoticeIsConsistent(t)'
    BY <1>7, <1>8, <2>1, <2>2, <2>3 DEF NoticeIsConsistent
  <2>5. ArchivedIsOver(t)'
    BY <1>8, <2>1, <2>2, <2>3 DEF ArchivedIsOver
  <2>. QED BY <2>4, <2>5
<1>11. SnapshotIsPast'
  BY <1>7, <1>8 DEF IInv, SnapshotIsPast
<1>12. EntryIsConsistent'
  BY <1>7, <1>8, SupervisionAssumption DEF IInv, EntryIsConsistent, Saving
<1>. QED BY <1>9, <1>10, <1>11, <1>12 DEF IInv

\* A receipt.
LEMMA ReceiptKeeps ==
  ASSUME IInv, NEW r \in Rma, CompleteReceipt(r)
  PROVE  IInv'
<1>1. PICK q : q = [orders[r] EXCEPT !.received = TRUE]
  OBVIOUS
<1>2. orders \in [Rma -> Order] /\ orders[r] \in Order
  BY DEF IInv, TypeOK
<1>3. q \in Order /\ q.received /\ q.notices = orders[r].notices
  BY <1>1, <1>2 DEF Order
<1>4. orders' = [orders EXCEPT ![r] = q]
  BY <1>1, <1>2 DEF CompleteReceipt
<1>5. /\ orders' \in [Rma -> Order]
      /\ \A p \in Rma : orders'[p] = IF p = r THEN q ELSE orders[p]
  BY <1>2, <1>3, <1>4
<1>6. \A p \in Rma : /\ orders[p].received => orders'[p].received
                     /\ orders'[p].notices = orders[p].notices
  BY <1>3, <1>5
<1>7. UNCHANGED <<recloud, inbox, poll, timer, sync, errors, crashes>>
  BY DEF CompleteReceipt
<1>8. TypeOK'
  BY <1>5, <1>7 DEF IInv, TypeOK, CompleteReceipt
<1>9. ASSUME NEW t \in Source PROVE NoticeIsConsistent(t)' /\ ArchivedIsOver(t)'
  <2>1. NoticeIsConsistent(t) /\ ArchivedIsOver(t) /\ RmaOf[t] \in Rma
    BY SupervisionAssumption DEF IInv
  <2>2. NoticeOf(t)' = NoticeOf(t)
    BY <1>6, <2>1 DEF NoticeOf
  <2>3. NoticeIsConsistent(t)'
    BY <1>6, <1>7, <2>1, <2>2 DEF NoticeIsConsistent
  <2>4. ArchivedIsOver(t)'
    BY <1>7, <2>1, <2>2 DEF ArchivedIsOver
  <2>. QED BY <2>3, <2>4
<1>10. SnapshotIsPast'
  BY <1>6, <1>7 DEF IInv, SnapshotIsPast
<1>11. EntryIsConsistent'
  BY <1>6, <1>7, SupervisionAssumption DEF IInv, EntryIsConsistent, Saving
<1>. QED BY <1>8, <1>9, <1>10, <1>11 DEF IInv

\* Customer service never takes back a completion.
LEMMA RecloudKeeps ==
  ASSUME IInv, NEW s \in Source, NEW status \in Status, RecloudMoves(s, status)
  PROVE  IInv'
<1>1. /\ recloud \in [Source -> Status \cup {None}]
      /\ recloud' = [recloud EXCEPT ![s] = status]
      /\ recloud[s] # "COMPLETED"
      /\ UNCHANGED <<orders, inbox, poll, timer, rechecks, sync, errors, crashes>>
  BY DEF IInv, TypeOK, RecloudMoves, None
<1>2. \A t \in Source : recloud[t] = "COMPLETED" => recloud'[t] = "COMPLETED"
  BY <1>1
<1>3. TypeOK'
  BY <1>1 DEF IInv, TypeOK
<1>4. ASSUME NEW t \in Source PROVE NoticeIsConsistent(t)' /\ ArchivedIsOver(t)'
  BY <1>1, <1>2 DEF IInv, NoticeIsConsistent, ArchivedIsOver, NoticeOf
<1>5. poll.live["COMPLETED"] \subseteq Source
  BY PollIs DEF IInv, Status
<1>6. SnapshotIsPast'
  BY <1>1, <1>2, <1>5 DEF IInv, SnapshotIsPast
<1>7. EntryIsConsistent'
  BY <1>1, <1>2 DEF IInv, EntryIsConsistent
<1>. QED BY <1>3, <1>4, <1>6, <1>7 DEF IInv

-----------------------------------------------------------------------------

\* The invariant holds at the start.
LEMMA InitHolds == Init => IInv
<1>. SUFFICES ASSUME Init PROVE IInv
  OBVIOUS
<1>1. NoNotice \in Notice /\ NoRecord \in InboxRecord
  BY DEF NoNotice, Notice, NoRecord, InboxRecord
<1>2. NothingSeen = [exists |-> FALSE, received |-> FALSE,
                     status |-> [s \in Source |-> None]]
  BY DEF NothingSeen, View, NoNotice
<1>3. NothingSeen \in Seen /\ ~NothingSeen.received
  BY <1>2 DEF Seen
<1>4. PICK local : local = [r \in Rma |-> NothingSeen]
  OBVIOUS
<1>5. PICK live : live = [st \in Status |-> {}]
  OBVIOUS
<1>6. /\ local \in [Rma -> Seen] /\ \A r \in Rma : ~local[r].received
      /\ live \in [Status -> SUBSET Source] /\ \A st \in Status : live[st] = {}
  BY <1>3, <1>4, <1>5
<1>7. poll = [pc |-> "IDLE", owner |-> None, hasLocal |-> FALSE, local |-> local,
              tabs |-> 0, live |-> live, source |-> None, status |-> None]
  BY <1>4, <1>5 DEF Init, IdlePoll
<1>8. poll \in PollState /\ poll.pc = "IDLE" /\ poll.local = local /\ poll.live = live
  BY <1>6, <1>7 DEF PollState
<1>9. /\ orders \in [Rma -> Order]
      /\ \A s \in Source : NoticeOf(s) = NoNotice
  BY <1>1, SupervisionAssumption DEF Init, Order, NoticeOf
<1>10. TypeOK
  BY <1>1, <1>8, <1>9 DEF Init, TypeOK, NoSync
<1>11. ASSUME NEW s \in Source PROVE NoticeIsConsistent(s) /\ ArchivedIsOver(s)
  <2>1. NoNotice.by # "MONITOR" /\ CountedOnce(NoNotice) /\ ~NoNotice.archived
    BY DEF NoNotice, None, CountedOnce
  <2>2. ~inbox[s].archived
    BY DEF Init, NoRecord
  <2>. QED BY <1>9, <2>1, <2>2 DEF NoticeIsConsistent, ArchivedIsOver
<1>12. SnapshotIsPast
  BY <1>6, <1>8 DEF SnapshotIsPast, Status
<1>13. EntryIsConsistent
  BY <1>8 DEF EntryIsConsistent, Saving
<1>. QED BY <1>10, <1>11, <1>12, <1>13 DEF IInv

\* Every step keeps the invariant.
LEMMA NextKeeps == IInv /\ [Next]_vars => IInv'
<1>. SUFFICES ASSUME IInv, [Next]_vars PROVE IInv'
  OBVIOUS
<1>1. CASE PollStep
  BY <1>1, ReadLocalKeeps, ReadTabKeeps, BeginLoopKeeps, TakeEntryKeeps,
     ArchiveOrderKeeps, SaveInboxKeeps, SaveOrderKeeps, PollLifeKeeps DEF PollStep
<1>2. CASE PollFails \/ Start \/ Tick \/ Crash \/ \E r \in Rma : Recheck(r)
  BY <1>2, PollLifeKeeps
<1>3. ASSUME NEW r \in Rma, Prepare(r) \/ CompleteReceipt(r) PROVE IInv'
  BY <1>3, PrepareKeeps, ReceiptKeeps
<1>4. CASE SyncFails \/ \E r \in Rma : SyncRead(r)
  BY <1>4, SyncKeeps
<1>5. ASSUME NEW s \in Source, Capture(s) \/ SyncSave(s) PROVE IInv'
  BY <1>5, SaveKeeps
<1>6. ASSUME NEW s \in Source, NEW u \in User, MarkSupervisionOrderRead(s, u)
      PROVE  IInv'
  BY <1>6, MarkReadKeeps
<1>7. ASSUME NEW s \in Source, NEW status \in Status, RecloudMoves(s, status)
      PROVE  IInv'
  BY <1>7, RecloudKeeps
<1>8. CASE UNCHANGED vars
  <2>1. UNCHANGED <<recloud, orders, inbox, poll>>
    BY <1>8 DEF vars
  <2>2. TypeOK'
    BY <1>8 DEF vars, IInv, TypeOK
  <2>. QED BY <2>1, <2>2, FrameKeeps
<1>. QED BY <1>1, <1>2, <1>3, <1>4, <1>5, <1>6, <1>7, <1>8 DEF Next

-----------------------------------------------------------------------------
(* What a step may do to a notice and to an inbox record.                  *)

\* The notice keeps who has read it and stays in the archive, or it is gone.
Kept(s) ==
  \/ NoticeOf(s)'.status = None
  \/ /\ NoticeOf(s).readBy \subseteq NoticeOf(s)'.readBy
     /\ NoticeOf(s).archived => NoticeOf(s)'.archived

\* Writing one notice that is kept keeps them all.
LEMMA OneNoticeIsKept ==
  ASSUME TypeOK, NEW s \in Source, NEW n \in Notice,
         orders' = [orders EXCEPT ![RmaOf[s]].notices[s] = n],
         NoticeOf(s).readBy \subseteq n.readBy,
         NoticeOf(s).archived => n.archived,
         NEW t \in Source
  PROVE  Kept(t)
<1>1. NoticeOf(s)' = n /\ \A x \in Source \ {s} : NoticeOf(x)' = NoticeOf(x)
  BY OneNotice
<1>2. CASE t = s
  BY <1>1, <1>2 DEF Kept
<1>3. CASE t # s
  BY <1>1, <1>3 DEF Kept
<1>. QED BY <1>2, <1>3

\* No step of a poll, a handler or a reader loses a notice that it does not
\* drop with the preparation.
LEMMA NoticesAreKept ==
  ASSUME IInv, [Next]_vars, NEW t \in Source
  PROVE  Kept(t)
<1>1. CASE UNCHANGED orders
  BY <1>1 DEF Kept, NoticeOf
<1>2. CASE ArchiveOrder
  <2>1. PICK s \in Source : s = poll.source
    BY <1>2 DEF IInv, EntryIsConsistent, ArchiveOrder
  <2>2. CASE ArchiveSupervisionOrder(s)
    <3>1. PICK n : n = ArchivedNotice(NoticeOf(s))
      OBVIOUS
    <3>2. /\ n \in Notice
          /\ n.readBy = NoticeOf(s).readBy
          /\ NoticeOf(s).archived => n.archived
      BY <3>1, ArchivedNoticeIs, NoticeOfIs DEF IInv
    <3>3. orders' = [orders EXCEPT ![RmaOf[s]].notices[s] = n]
      BY <2>2, <3>1 DEF ArchiveSupervisionOrder, NoticeOf
    <3>. QED BY <3>2, <3>3, OneNoticeIsKept DEF IInv
  <2>. QED BY <1>1, <1>2, <2>1, <2>2 DEF ArchiveOrder
<1>3. CASE SaveOrder
  <2>1. PICK s \in Source : s = poll.source
    BY <1>3 DEF IInv, EntryIsConsistent, SaveOrder, Saving
  <2>2. poll.status \in Status /\ ~NoticeOf(s).archived
    BY <1>3, <2>1
    DEF IInv, EntryIsConsistent, ArchivedIsOver, SaveOrder, Saving, Status
  <2>3. PICK n : n = SavedNotice(NoticeOf(s), poll.status, "MONITOR")
    OBVIOUS
  <2>4. n \in Notice /\ n.readBy = NoticeOf(s).readBy
    BY <2>2, <2>3, SavedNoticeIs, NoticeOfIs DEF IInv
  <2>5. orders' = [orders EXCEPT ![RmaOf[s]].notices[s] = n]
    BY <1>3, <2>1, <2>3 DEF SaveOrder, SaveSupervisionOrder, NoticeOf
  <2>. QED BY <2>2, <2>4, <2>5, OneNoticeIsKept DEF IInv
<1>4. ASSUME NEW s \in Source, Capture(s) \/ SyncSave(s) PROVE Kept(t)
  <2>1. PICK n : n = SavedNotice(NoticeOf(s), None, "USER")
    OBVIOUS
  <2>2. /\ n \in Notice
        /\ n.readBy = NoticeOf(s).readBy
        /\ n.archived = NoticeOf(s).archived
    BY <2>1, SavedNoticeIs, NoticeOfIs DEF IInv
  <2>3. orders' = [orders EXCEPT ![RmaOf[s]].notices[s] = n]
    BY <1>4, <2>1 DEF Capture, SyncSave, SaveSupervisionOrder, NoticeOf
  <2>. QED BY <2>2, <2>3, OneNoticeIsKept DEF IInv
<1>5. ASSUME NEW s \in Source, NEW u \in User, MarkSupervisionOrderRead(s, u)
      PROVE  Kept(t)
  <2>1. PICK q : q = orders[RmaOf[s]].notices[s].readBy \cup {u}
    OBVIOUS
  <2>2. PICK n : n = [NoticeOf(s) EXCEPT !.readBy = q]
    OBVIOUS
  <2>3. /\ n \in Notice
        /\ NoticeOf(s).readBy \subseteq n.readBy
        /\ n.archived = NoticeOf(s).archived
    BY <2>1, <2>2, NoticeOfIs DEF IInv, Notice, NoticeOf
  <2>4. orders' = [orders EXCEPT ![RmaOf[s]].notices[s].readBy = q]
    BY <1>5, <2>1 DEF MarkSupervisionOrderRead
  <2>5. orders' = [orders EXCEPT ![RmaOf[s]].notices[s] = n]
    BY <2>2, <2>4 DEF NoticeOf
  <2>. QED BY <2>3, <2>5, OneNoticeIsKept DEF IInv
<1>6. ASSUME NEW r \in Rma, Prepare(r) PROVE Kept(t)
  <2>1. PICK q : q = [exists |-> TRUE, received |-> orders[r].received,
                      notices |-> [s \in Source |-> Dropped(orders[r].notices[s])]]
    OBVIOUS
  <2>2. orders \in [Rma -> Order] /\ orders' = [orders EXCEPT ![r] = q]
    BY <1>6, <2>1 DEF IInv, TypeOK, Prepare
  <2>3. RmaOf[t] \in Rma /\ q.notices[t] = Dropped(orders[r].notices[t])
    BY <2>1, SupervisionAssumption
  <2>4. NoticeOf(t)' = Dropped(NoticeOf(t)) \/ NoticeOf(t)' = NoticeOf(t)
    BY <2>2, <2>3 DEF NoticeOf
  <2>5. Dropped(NoticeOf(t)).status = None
    BY DroppedIs, NoticeOfIs DEF IInv
  <2>. QED BY <2>4, <2>5 DEF Kept
<1>7. ASSUME NEW r \in Rma, CompleteReceipt(r) PROVE Kept(t)
  <2>1. PICK q : q = [orders[r] EXCEPT !.received = TRUE]
    OBVIOUS
  <2>2. orders \in [Rma -> Order] /\ orders[r] \in Order
    BY DEF IInv, TypeOK
  <2>3. q.notices = orders[r].notices /\ orders' = [orders EXCEPT ![r] = q]
    BY <1>7, <2>1, <2>2 DEF CompleteReceipt, Order
  <2>4. NoticeOf(t)' = NoticeOf(t)
    BY <2>2, <2>3, SupervisionAssumption DEF NoticeOf
  <2>. QED BY <2>4 DEF Kept
<1>8. \/ UNCHANGED orders \/ ArchiveOrder \/ SaveOrder
      \/ \E s \in Source : Capture(s) \/ SyncSave(s)
      \/ \E s \in Source, u \in User : MarkSupervisionOrderRead(s, u)
      \/ \E r \in Rma : Prepare(r) \/ CompleteReceipt(r)
  BY DEF Next, vars, PollStep, ReadLocal, ReadTab, BeginLoop, TakeEntry, SaveInbox,
         PollSucceeds, PollFails, Start, Tick, Recheck, SyncRead, SyncFails,
         RecloudMoves, Crash
<1>. QED BY <1>1, <1>2, <1>3, <1>4, <1>5, <1>6, <1>7, <1>8

\* No step takes a record of the inbox out of its archive.
LEMMA InboxArchiveIsKept ==
  ASSUME IInv, [Next]_vars, NEW t \in Source
  PROVE  inbox[t].archived => inbox'[t].archived
<1>1. CASE UNCHANGED inbox
  BY <1>1
<1>2. CASE SaveInbox
  <2>1. PICK s \in Source : s = poll.source /\ ~inbox[s].archived
    BY <1>2 DEF IInv, EntryIsConsistent, ArchivedIsOver, SaveInbox, Saving
  <2>2. PICK record : record = [status |-> poll.status, archived |-> FALSE]
    OBVIOUS
  <2>3. inbox \in [Source -> InboxRecord] /\ inbox' = [inbox EXCEPT ![s] = record]
    BY <1>2, <2>1, <2>2 DEF IInv, TypeOK, SaveInbox
  <2>. QED BY <2>1, <2>3
<1>3. CASE TakeEntry /\ ~UNCHANGED inbox
  <2>1. PICK i \in DOMAIN Tab : \E s \in poll.live[Tab[i]] :
          inbox' = [inbox EXCEPT ![s] = ArchivedRecord(@)]
    BY <1>3 DEF TakeEntry
  <2>2. PICK s : inbox' = [inbox EXCEPT ![s] = ArchivedRecord(inbox[s])]
    BY <2>1
  <2>3. inbox[s].archived => ArchivedRecord(inbox[s]).archived
    BY DEF ArchivedRecord, NoRecord
  <2>4. inbox \in [Source -> InboxRecord]
    BY DEF IInv, TypeOK
  <2>. QED BY <2>2, <2>3, <2>4
<1>4. UNCHANGED inbox \/ SaveInbox \/ TakeEntry
  BY DEF Next, vars, PollStep, ReadLocal, ReadTab, BeginLoop, ArchiveOrder, SaveOrder,
         PollSucceeds, PollFails, Start, Tick, Recheck, Prepare, CompleteReceipt,
         SyncRead, Capture, SyncSave, MarkSupervisionOrderRead, SyncFails,
         RecloudMoves, Crash
<1>. QED BY <1>1, <1>2, <1>3, <1>4

-----------------------------------------------------------------------------
(* The theorems.                                                           *)

\* The inductive invariant holds in every reachable state of the monitor.
THEOREM IInvHolds == Spec => []IInv
BY InitHolds, NextKeeps, PTL DEF Spec

\* Orders, inbox, snapshots and lists keep their shape through every poll, sync,
\* failure and restart.
THEOREM TypeCorrect == Spec => []TypeOK
<1>1. IInv => TypeOK
  BY DEF IInv
<1>. QED BY <1>1, IInvHolds, PTL

\* The monitor writes only into orders that were received, and only what the
\* inbox has: processEntry saves the inbox first and decides on receipts, which
\* no handler takes back.
THEOREM NoticesFollow == Spec => []NoticesFollowReceipt
<1>1. IInv => NoticesFollowReceipt
  BY DEF IInv, NoticeIsConsistent, NoticeOf, NoticesFollowReceipt
<1>. QED BY <1>1, IInvHolds, PTL

\* saveSupervisionOrder announces a supervision order once between two
\* preparations of its order, whoever saves it and however often.
THEOREM AnnouncedOnce == Spec => []AnnouncedOncePerPreparation
<1>1. IInv => AnnouncedOncePerPreparation
  BY DEF IInv, NoticeIsConsistent, CountedOnce, NoticeOf, AnnouncedOncePerPreparation
<1>. QED BY <1>1, IInvHolds, PTL

\* What is archived stays archived: whatever a poll or a sync read before, it has
\* no older status left to write.
THEOREM ArchiveIsFinal == Spec => ArchivedIsFinal
<1>1. ASSUME IInv, [Next]_vars
      PROVE  \A s \in Source :
               /\ inbox[s].archived => inbox'[s].archived
               /\ orders[RmaOf[s]].notices[s].archived =>
                    \/ orders'[RmaOf[s]].notices[s].archived
                    \/ orders'[RmaOf[s]].notices[s].status = None
  <2>. TAKE s \in Source
  <2>1. inbox[s].archived => inbox'[s].archived
    BY <1>1, InboxArchiveIsKept
  <2>2. Kept(s)
    BY <1>1, NoticesAreKept
  <2>. QED BY <2>1, <2>2 DEF Kept, NoticeOf
<1>. QED BY <1>1, IInvHolds, PTL DEF Spec, ArchivedIsFinal

\* No save over a notice forgets who has read it.
THEOREM ReadsAreKept == Spec => ReadIsKept
<1>1. ASSUME IInv, [Next]_vars
      PROVE  \A s \in Source :
               \/ orders[RmaOf[s]].notices[s].readBy
                    \subseteq orders'[RmaOf[s]].notices[s].readBy
               \/ orders'[RmaOf[s]].notices[s].status = None
  BY <1>1, NoticesAreKept DEF Kept, NoticeOf
<1>. QED BY <1>1, IInvHolds, PTL DEF Spec, ReadIsKept
=============================================================================
