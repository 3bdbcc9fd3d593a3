# FieldDesk verification

TLA+ models of FieldDesk's backend, of its browser automation and of the order
store of its web client, the TLC configurations that check them
and the proofs TLAPS checks. FieldDesk lets technicians of a repair shop work
on return orders (RMA): they scan a machine, receive it, inspect it, apply for
parts, complete the repair and ship it back, while a browser automation keeps
the manufacturer's portal (Recloud) in step.

- [The system](#the-system)
- [Modules](#modules)
- [Runs](#runs)
- [Proofs](#proofs)
- [Where the code and its documents differ](#where-the-code-and-its-documents-differ)
- [Not modelled, and the plan](#not-modelled-and-the-plan)

`PROJECT.json` maps every definition to the lines it models and lists the
components, runs, hazards and theorems.

## The system

One Node process (`server.js`) serves an HTTP API to a React frontend. It is
single-threaded: two handlers interleave only where one of them awaits. What
it must remember is in documents (JSON files or rows of SQLite or PostgreSQL),
each behind a store that queues its updates, so that one mutator of one store
is atomic and two mutators, or a read and a later mutator, are not. A second
program, the Python CRM agent, works on task files of its own.

| Component | State | Operations | Interacts with | What makes it correct |
|---|---|---|---|---|
| Work orders (`receipt-preparation-store.js`, order handlers of `server.js`) | one record per RMA: status, SN, model authorization, photographs, inspection, parts, completion, shipment, timeline | prepare, markModelAuthorization, cancel, transferToHeadquarters, completeReceipt, addReceiptAttachment, saveInspection, applyPart, updatePartApplication, saveRepairCompletion, submitReturnShipment, confirmCompletion | model catalogue (awaited between prepare and authorize), attachments, outbox | an order reaches a stage only with the evidence of the stages before; evidence and submissions are not lost or rewritten; one SN, one order in progress |
| Recloud sync outbox (`recloud-sync-outbox.js`, `recloud-sync-service.js`) | one task per order node: status, retry count, due time | enqueue, processTask, fail, retry | called after each order step; calls the Recloud adapter | no node is submitted again once acknowledged; nothing is called done that was not; every pending task is worked off |
| Leases and idempotency keys (`work-coordination-store.js`, POST middleware of `server.js`) | lease per RMA, record per user and key | acquire, release, assertAvailable, claim, finish, fail | runs before every POST handler, and again in the second dispatch of `/queryRepair` | a repeated request has its effect once; a live lease is respected |
| Inventory ledger (`inventory-store.js`) | stock of the warehouse and of each technician, return requests, transactions | apply, use, requestReturn, confirmReturn, usedPartsForOrder | reads the order's SN first; the completion reads the ledger | stock is conserved and explained by the ledger |
| Supervision monitor and inbox (`recloud-supervision-monitor.js`, `supervision-inbox-store.js`, supervision parts of the order store) | running flag, inbox, supervision orders inside each work order | pollNow, start, stop, sync, capture, read, archive | polls Recloud; writes inbox and orders one after the other from an older snapshot | each source is announced once per preparation of its order, only after receipt, and eventually; archived notices do not come back |
| Detection prefill (`detection-prefill-executor.js`, `recloud-detection-control-adapter.js`) | fields of a form and what was written so far | execute, rollback | the browser page | fields are written, read back and put back; what could not be put back is reported |
| Recloud session (`recloud-session.js`) | browser, page, profile lock | ensureOpen, close, recover | every automation; queued by `withRecloud` | one browser per profile; calls are served one at a time |
| Recloud automation (`recloud.js`, parsers) | the page, what is typed, marked and scrolled in it, the network guard | query an RMA, reveal a phone; inspect and simulate the receipt form; inspect the detection and repair forms; diagnose the receipt control; find it in the table | session; the portal's own scripts | an answer is of another order only after a query that was left unanswered; a dry run leaves nothing in Recloud, and in the page only what it cannot know; the control is that of the row, or none |
| Accounts, rate limits, fault catalogue, attachments, policies | small documents and pure functions | | | |
| CRM agent (`agent.py`, `task_manager.py`, two Streamlit applications) | task files | submit, approve, run, checkpoint, retry | browser; files shared by three processes | an approved task is run; saved CRM steps are not repeated |
| Web client (`repairOrderStore.js`, the pages of an order) | three keys of localStorage, shared by the tabs: list, current id, copy of the current order | initialize and migrate, create, save, update, status by action; one write per page after its request is answered | API | the three keys agree; nothing is dropped; histories match |

The hard behaviour is in five places: handlers that read, await and write
(work orders, completion, supervision); the asynchronous outbox with retries and
restarts; the idempotency record that is written after the response has left;
the browser page, which is slow, answers late, changes by itself and fails in the
middle of a form; and the client's pages, whose answers arrive after the user has
gone elsewhere.

## Modules

### WorkOrders

One record per RMA in `orders`, and three sets of handlers that wait between their
read and their save: `authorizing` (prepare-receipt, awaiting the model catalogue),
`uploading` (a photograph being stored) and `completing` (a completion with the parts
and the warranty it read). Every mutator of the store that a handler calls is an
action with the mutator's name; its guard is the store's status list and its early
returns, its effect the record the store builds (`CreateReceiptPreparation`,
`Authorized`, `Received`, ...). `MarkModelAuthorization` is the second half of the
prepare-receipt handler: it happens when the catalogue answers, whatever the order has
become by then, and `AuthorizationFails` is the catalogue's error.
`StartReceiptUpload` and `StartRepairCompletion` are the first halves of the two
handlers that check the order, await, and call the store.

Abstractions: photographs, parts and SNs are model values; the inspection's
warranty decision is a choice; completion forms are complete or
rejected (`RepairCompletionRejected`); who the technician is, and the
supervision orders of an order, are left out. The store's write queue is the
atomicity of an action; the order in which queued calls run is any order,
which contains the queue's.

### SyncObligation and SyncOutbox

`SyncObligation` is what the outbox promises of each node: *none*, *wanted*,
*delivered*, *acknowledged*, and no way back. `SyncOutbox` is the code:
`tasks` (the document), `runs` (invocations of `processTask`, each with the
task it read) and `acknowledged` (how many calls the adapter answered with
success, a history variable). An invocation reads the task, claims it by a
transition to PROCESSING, calls the adapter, and records; each step is an
action because the code awaits between them. `StorageFails` is a write that
rejects: it ends the invocation where it is, as the swallowed rejection does.
`Crash` forgets the invocations and keeps the document.

The repository has no command executor behind the real adapter; the adapter is
modelled by its contract, a success or an error that `classifyError` calls
permanent or retryable.

### Coordination

`locks` and `keys` are the coordination document, `requests` the POST requests
under way, each with a program counter: the middleware checks the lease, claims
the key, hands over to the handler; the answer leaves; then the outcome is
recorded or the key freed. `/queryRepair` goes through `Redispatch`, the second
pass of the middleware for the same request. `PersistFails` is a failing write
of the record, `Crash` a restart between two steps. `succeeded` counts the
successes of each key and is history only. Time is `Expire`: a lease may run out
at any moment.

A handler's change of the order is one step; the audit log and
`executeIdempotent`, which nothing calls, are left out, as are answers that are
not JSON.

### Inventory

`totalStock`, `technicianStock` and `returnRequests` are the inventory document;
`transactions` is its ledger, kept as what its entries add up to for each type,
order, part and technician, because sums are all its readers take from it. A sum
is the number of its single pieces (`Total`), so that theorems about finite sets
apply to it.
`Apply`, `Use`, `RequestReturn` and `ConfirmReturn` are the store's mutators.
A use or a return is a handler in `calls` between `InventoryContext`, which reads
the order's SN, and the mutator; `CallFails` is a refused quantity or a failed
write, which leave the document alone. No route of the server calls `apply`;
it is the store's way to give a technician stock, and so the model's.

### SupervisionMonitor

`recloud` is the status of each supervision order in Recloud (external, forward only:
unhandled, responded or in progress, completed). `orders` holds what supervision
changes of a work order, `inbox` the inbox document, `poll` the poll in progress: the
snapshot of the orders, the lists of the tabs read so far, and the entry being worked
off with its pending writes. One action per await of `pollNow`: `ReadLocal` and
`ReadTab` for the two concurrent reads, `TakeEntry`, `ArchiveOrder`, `SaveInbox`,
`SaveOrder` for the loop, `PollFails` for the catch. `Start`, `Tick` and `Recheck` ask
for polls; a poll that is running makes them skip theirs. `Capture`, `SyncRead`,
`SyncSave`, `MarkSupervisionOrderRead`, `Prepare` and `CompleteReceipt` are the
handlers that interleave with it. A second preparation drops the order's supervision
orders and keeps its timeline, so `announced`, the number of `SUPERVISION_RECEIVED`
entries of a source, goes on counting when the source is saved again; `before` is what
it was at the last preparation (`AnnouncedOncePerPreparation`). The content of a
notice and its analysis are left out, and so are notices captured without a sourceId,
which are never merged.

### RecloudSession

One backend and its browser: `createRecloudSessionManager`, the queue `withRecloud`,
startup and shutdown. The single thread runs four activities that await one another,
`pc` says where each stands: `INIT` (startup, not queued), `OP` (the head of the
queue), `OPENING` (the promise `opening`) and `STOP`. `EnsureOpen` and `OpenOnce` are
the synchronous parts of `ensureOpen`, `NewPage`, `Launch`, `Goto`,
`AutofillLoginOnce` and `AfterLogin` what follows its awaits, each with success and
failure; `Close` and `CloseEnds` are the two halves of `close`. What the portal shows
is a choice. The lock file is seen by one backend: free, its own, or another's; a lock
that names a dead process counts as free, and the steps of two processes inside
`acquireProfileLock` are left to a module of their own. `REJECTED` is a refusal that
`opening` keeps. `logins` counts the passwords submitted since the last authenticated
visit, and `overtaken` says that this visit was made while another activity was
filling the login form, which it goes on to submit.

### RmaQuery

`queryRmaByLogisticsNo` and the parser, on a page that is not only the client's.
`call` is the call in progress with its program counter: scan page, number typed,
Enter, the loop of `waitForRmaDetail` (a turn is a `look`, which reads the text of the
page, and a decision; a second Enter when it falls due, the deadline), the detail
read, the phone revealed. `shown` is what Recloud shows and `wire` the numbers whose
queries it has not answered. `Answer` lets an answer arrive at any time, after its
call too; `FillDetail` completes a detail after its frame; `Expire` and `Login` are
the session's.

The scan page has a hash-routed address of the application the detail belongs to
(`recloud.js:28`, 595), so `page.goto` changes the fragment, loads nothing and leaves
earlier queries pending. `ScanPages` allows that, with a notice that stays in the
page, and a full load, which abandons them. `owed` (history) remembers whose answers
were to come or stood in the page when the scan page was ready.

The detail is read as the code reads it: the text of the page once (`body`), then one
item of the form after the other, over awaits in which the page may show another
order, then the fields that the form lacked from the text, the telephone included.
`of` says for each field whose value it is. A mask of a telephone shows the digits
`Signature` gives, which several numbers may share; a mask without digits (`blind`)
can stand for any number, as in the code.

### DryRunForms and ReceiptDiagnostics

`DryRunForms` is every dry run on a form: `inspect`, `simulate`, `detect` (keyword
search and prefill by `executeDetectionPrefillSafely`) and `repair`. `form` holds per
field whether its value is the one found, the one of the dry run or another (fields
reformat, and writing one may change any other of the same form, before it in the plan
or after it, `Cascade`; the first field of a plan is the quick choice of a fault that
a keyword search types into); `guard` is the route handler that aborts what
`classifyRecloudRequest` calls a write; `call` is the dry run with its program
counter, the fields it has written and the snapshots it has taken. Each awaited
operation is an action that may fail, before or after its effect; `assertSafe` is
where a call learns that a write was blocked. `PageWrites` is the page saving what it
shows, whenever it likes; `Vanish` a form that goes away.

The adapter reads a field as an empty string when the read fails or its tag is not
there yet (`recloud-detection-control-adapter.js:84`, 93, 101). `snapshotField` may
take any field for empty, and takes a field that the keyword changed for what it has
become; it is then cleared or left, and verified as the original. `doubt` holds these
fields. A form whose `isVisible` throws counts as gone (`recloud.js:7962`, 8017), so
`closeDialog` and `rollback` may report as closed a form that is open. `MayRemain` is
what a call that answers ok may leave for these reasons, together with the fields that
another one may change when it is put back after them (`ChangedLater`, read off
`Cascade` and the order of the plan); all else must be as it was found.

`ReceiptDiagnostics` composes it with the diagnoses of the receipt control: one
call at a time has the page, the guard and `result` are shared. `view` is what
the page owes to a diagnosis (marks, scroll position, the response listener, a
reaction to the mouse, and the clicks and scrolls of the look at the table that
ran out of time and were not cancelled), `diag` what the looks have seen.
`Rerender` loses marks at any moment; `LateWork` lets abandoned work land in
whatever call has the page by then. `lookAround` is one of the looks after a
movement, `concludeDiagnosis` the classification, `restorePage` and `endHover` the
ways out. What `page.evaluate` reads of the DOM is abstracted to what the
classification tells apart: how many receipt controls are seen, covered or
alone, and whether the marked elements are still there.

### ReceiptLocator

Two searches choose which receipt control of the RMA table is clicked:
`findMappedReceiptControl` (row, then the element of the fixed layer that belongs to
it, by key, aria index, position or overlap) and `findPendingReceiptAction` (scores of
rows, then elements, then lines of coordinates). A state is a table; the two answers
are computed by operators that follow the code's cascade of strategies. The initial
states are all tables of `N` rows with every combination of logistics number, product,
status and control per row, and of layer, shift, keys and aria indices, on both
layers, on the main one or on none; assumptions on the table are in the head of the
module. When the page does not answer in time, the mapped search asks element by
element (`ControlsByElements`), passes over what does not answer and numbers the rest:
any subset of the elements may be read, and `unread` (history) holds the rows that
were not. Two cases in which the code can return another row's control are stated in
the properties instead of assumed away: a row that was passed over moves the others
up, and in a table whose main rows have aria indices and whose fixed rows, a little
higher, have neither index nor key, places are all there is to go by
(`PlaceMisleads`). The row is always the first: every handler asks for `rowIndex: 1`
(`server.js:461` and seven more), and `recloud.js:6382` falls back to it.

### LocalOrders

The client's store: `store` is the three localStorage keys, `tabs` the
page each tab shows with the copy it took when it was mounted, `requests` the calls
of the server under way. A store function is synchronous and so one step; a page
that awaits the server writes the store when the answer arrives (`Accepted`), into
whichever order is current then. `initializeRepairOrders` runs before every
read of the store, with its seed orders, its repairs of missing keys and the migration of
the old single order. An order is its id, its status, the last status of its
history and whether it has a completion date.

## Runs

| Run | Instance | Shows |
|---|---|---|
| `orders` | 1 RMA, 2 SNs, 1 photograph, 1 part, 2 pending catalogue answers | the evidence invariants, append-only evidence and frozen submissions, with two handlers waiting on the order |
| `outbox` | 1 key, 3 invocations, 2 retries, 1 restart, counts up to 4 | no second call after an acknowledgement, exclusive work, refinement of `SyncObligation`, and that pending tasks settle |
| `coordination` | 2 users (one an administrator), 2 concurrent requests, 1 key, 1 restart | one success per key, exclusive handling, live leases kept, keys settle |
| `inventory` | 1 part, stock 2, 2 technicians, 2 handlers, 2 SNs, quantities up to 2, 1 return | no negative stock, conservation, and a ledger that explains the stock |
| `supervision` | 1 order, 1 supervision order, 1 reader, 1 failed poll, 1 restart, up to 2 announcements | announced once per preparation of the order (a second one included), only after receipt, and in the end; archived and read stay so |
| `session` | 2 queued calls, login by password, any number of closed pages and of other owners of the profile | one browser, under the lock, until shutdown; the lock not leaked; one password submitted between two authenticated visits, two only where a call overtook a filling of the form; every call settles |
| `local_orders` | 1 tab with 2 requests under way, 1 RMA beside a demonstration and a legacy order, lists of up to 3 | list, current id and copy agree; the two entries of an order received twice stay equal; histories end with the status; no order and no completion date is dropped |
| `rma_query` | 2 orders and an unknown number, 3 phones of which 2 have one mask, 1 text field beside the telephone, up to 2 earlier queries unanswered | values of another order, and a notice about another number, only after a query that was left unanswered; a revealed phone has the digits of a mask of an order concerned, unless that mask has none; calls end |
| `receipt_locator` | all tables of 2 rows, fixed layer in line or a quarter row off, any elements that do not answer | the control is that of the row unless a row was passed over, and of a row with the logistics number if one was read; the older search does not guess; both agree where the number decides |
| `dry_runs` | 3 plan fields with changes in both directions, the SN changing the remark, 3 looks after each movement | nothing typed is saved while a dry run is under way; success leaves only what the call cannot know; guard, listener, marks and scroll position handed back; a found control was watched; calls end |
| `orders_sn`, `session_in_use` | smallest instance that shows it | one difference each between the code and its documents, below |

**Bounds.** The orders of different RMAs share only the SN check, so one RMA is
enough for all but `orders_sn`, which has two. Two SNs let a catalogue answer
be stale; `MaxCalls` = 2 handlers of a kind let the stale one come last.
`MaxQty` bounds the quantity of a part. Outbox tasks of different keys share
nothing, so one key is enough; the third invocation lets a retry run while two
others hold old reads. `MaxRetries`
is the service's option of that name, and `MaxCount` the count up to which an
operator still retries; it lies above `MaxRetries`, so manual review and the
retries after it both happen. Two requests with one key meet in every order
of their steps; a third would find a claimed or a free key like the second.
`MaxCrashes` is one because a restart forgets everything but the document, and a
second restart starts from such a state again.

Parts do not interact, so one is enough for the inventory; a stock of 2 with
quantities 1 and 2 has both an exact fit and an overdraft. Supervision orders
share only the loop of a poll, in which one may end the poll for those after it;
`PollFails` can do that anywhere, so one supervision order is enough, and it
may stand in two lists of one poll when it moves between two tabs. Calls of
`withRecloud` meet only in the session they leave to the next, so two are enough;
the instance with three holds as well.

Tabs share only the store, and a request left behind by one page races with the next
page of the same tab just as with another tab's, so one tab with two requests has the
interleavings of two tabs. `MaxOrders` = 3 leaves room for the same RMA twice. Two
known numbers and an unknown one give a call an answer of another order and the notice
that there is none. A call begins while at most `MaxUnanswered` = 1 numbers are
unanswered, and adds its own, so that the next scan page finds up to two; more would
be owed in the same way. The text fields of a detail are read alike, so one of them
beside the telephone is enough. Plan fields interact only along `Cascade`; three have
one between a first and a last, and the run's pairs go in both directions, so that
`ChangedLater` holds the last field and the remaining two must be put back. The code
looks three times after each movement, as the run does. In the table a row competes
with one other at a time, and shifts below half a row are all alike but for their
sign. `MaxAnnounced` = 2 has an order prepared a second time after its first
announcement; a third preparation meets what the second met. The largest runs are
`receipt_locator` (1 394 156 states, about 2 minutes with two workers), `rma_query`
(532 420, about 2 minutes) and `dry_runs` (242 841, about 1 minute).

**Fairness.** `FairSpec` of the outbox is weak fairness of each invocation's steps,
that of the coordination weak fairness of each request's: the event loop runs what is
ready, and an awaited call is answered or fails. That of the monitor is weak fairness
of the poll's steps, of the timer and of the start: the session opens at startup, and
page reads return or time out; a backend whose first opening fails never starts its
monitor, and nothing is claimed of it. That of the session is weak fairness of its
turns: every await is bounded by a time-out. `RmaQuery`, `DryRunForms` and
`ReceiptDiagnostics` have weak fairness of the call's steps (and of the clock) for the
same reason: each wait of Playwright that they stand for has a time-out; of Recloud
and its page nothing is assumed. The exception is `page.evaluate`, which carries no
time-out of its own: it returns as long as the page's thread runs, and a page that
hangs for good is outside what `CallsSettle` claims. Nothing is assumed of users, of
operators' retries or of failures. `TasksSettle` and `KeysSettle` are claimed for
executions without a failure (`crashes = 0`, which counts restarts and failing
writes); what a failure does to them is described
[below](#where-the-code-and-its-documents-differ).

**Deadlock** is off where the system really stops: for the outbox when every task is
done or stuck and no retry is left, for the session when its calls have settled, and
for `receipt_locator` when both searches have answered. The other modules always have
a request to accept.

**What the runs leave to the proofs.** The type invariants of `WorkOrders`,
`SyncOutbox`, `Coordination`, `SupervisionMonitor`, `RecloudSession` and
`LocalOrders`, and `HeadquartersOnlyUnsupported`, `SuccessWasAcknowledged`,
`WorkerOwnsItsTask` and `RecordedMeansSucceeded`, are theorems for every instance
and are not checked a second time on a small one.

## Proofs

Every safety invariant and every action property that a passing run checks is also
a theorem, for every value of the constants.

| Proofs | About |
|---|---|
| `WorkOrdersProofs`, `SyncOutboxProofs`, `CoordinationProofs`, `SupervisionMonitorProofs`, `InventoryProofs`, `LocalOrdersProofs` | the module each is named after |
| `RecloudProofs` | `RecloudSession`, and `RmaQuery`, whose calls use the session's browser |
| `ReceiptProofs` | `ReceiptDiagnostics` with `DryRunForms`, and `ReceiptLocator` |

* **WorkOrders.** A handler writes one order, so the invariant is a predicate of
  one order, `OrderOK`, lifted to the document. The evidence invariants are not
  inductive as they stand: a submitted completion inherits the inspection from
  the order it is saved on, so `OrderOK` adds what an order that may be completed
  has in its timeline. `GoodWrite` says what each mutator does to its order: it
  keeps `OrderOK`, loses no evidence, and leaves a finished order's submission
  alone. One lemma per mutator proves it; the invariants and the two action
  properties follow.
* **SyncOutbox.** `NoCallOnceAcknowledged` needs to know who may acknowledge:
  `IInv` says that a run at work finds its task in PROCESSING, that it is the
  only one, that a run before its answer has no acknowledgement and one after it
  has exactly one, and that an acknowledged task is PROCESSING or SUCCESS, from
  where no transition lets it be claimed. The refinement
  (`ImplementsObligation`) is proved step by step from it.
* **Coordination.** `SucceedsOncePerKey` needs the holder: `IInv` says that the
  request that holds a key finds it PROCESSING, is the only one, and has
  counted a success just if it has answered; a free key counts none.
* **SupervisionMonitor.** A poll acts on snapshots, so `IInv` says what of a snapshot
  stays true: a receipt it has seen and a completion it has listed (`SnapshotIsPast`),
  and what the writes of the entry under work rest on (`EntryIsConsistent`).
  `ArchivedIsFinal` needs the converse: what is archived is completed in Recloud and
  the poll has no older status of it left to write (`ArchivedIsOver`), which holds
  because the completed tab is read and worked off last. `NoticesFollowReceipt` and
  `AnnouncedOncePerPreparation` are its conjuncts; the second needs that a source
  without a notice in the order has not been announced since the last preparation. The
  two action properties follow step by step.
* **Inventory.** Conservation relates four sums, so the work is in one lemma:
  raising a function of quantities at one argument raises its `Total` by as much
  (`TotalRaised`), because the pieces that are new are finitely many and disjoint
  from those there were. It is applied to the ledger, to the technicians' stock
  and to the returns under way; what then remains of each mutator is
  arithmetic. The two invariants are inductive together with the types, with
  `FiniteSums`, and with `ReturnsAreAccounted`: of each part, what a technician has
  requested to return is what was confirmed and what is pending.
* **RecloudSession.** `BrowserIsExclusive` speaks of running browsers, but what makes
  it true is where the activities stand: `SessionIsOne` says that a launch finds no
  browser and holds the lock, that startup works only while the queue is idle, and
  that a browser which runs is the session's or is being closed by an activity that
  names it. It holds until the backend is told to stop, as the property does.
  `LockNamesHolder` (the manager's flag and the lock file agree) is needed to see that
  a release frees the lock of this backend; `LoginBudget` counts the submissions made
  and still to come since the last authenticated visit against `attempted`, which
  `LoginsAreLimited` does not mention, and against `overtaken`, which leaves one more
  to the activity that was filling the form when that visit ended.
* **RmaQuery.** Nothing in the code compares numbers, so the proof has to find out
  whose values a call can meet at all: once its scan page is ready, what is shown,
  what stands in the page as a notice and what is on the wire concerns its number or
  one in `owed` (`Expected`). `Read` carries that to the text, to every item read and
  to the telephone next to its mask, whatever the page shows by then. Masks need not
  differ.
* **LocalOrders.** `initializeRepairOrders` runs before every read, so the store's
  functions are compositions. In a store whose keys agree (`Good`) it changes
  nothing (`ReadsGood`), and each write keeps `Good` and forgets nothing
  (`SavedGood`, `ReceivedGood`); only the first read may find something else, and
  what it leaves is `Good`. `Array.find` returns the first entry with an id, which
  the least-number principle provides. `PagesShow` says which pages show an
  order, and that a receipt under way is one for inspection.
* **DryRunForms and ReceiptDiagnostics.** `OkMeansUntouched` speaks of the end of a
  call; on the way there, `MayDiffer` says which fields a call without an error can
  have changed and knows that it has to put back, by program counter and progress
  through the plan (`Progress`). `Remembered` says that all fields are as found but
  for these, for those in `doubt` and for those in `ChangedLater`: a put-back may
  change a field that was put back before only along `Cascade` from a field earlier in
  the plan (`PlanPut`, `KeywordPut`). `DryRunStaysHere` rests on `Guarded`: no field
  is changed before the guard stands, and a guard is taken away only at the end.
  `Looking` says what a diagnosis may have marked, moved and lost at each step,
  `Owned` what a late reaction to its mouse may still save.
* **ReceiptLocator.** No invariant needs strengthening over time (a table does not
  change); the work is in the operators. Elements of different rows are more than half
  a row apart, those of one row are not (`Above`, `Beside`), so each of the mapped
  search's ways to match leads to the first row or is ambiguous (`MatchIsFirst`).
  Where elements were passed over, the first of those read in its place
  (`FirstInPlace`) is the first row if none is missing, and the best of them has the
  number if any has (`BestHasNumber`). In the older search a row that is best alone
  exceeds every other (`SelectPrevails`, `OperationPrevails`, `CoordinatesPrevail`),
  by labels because labels without text tie, by lines because a line holds text and
  control only if the layers are in line. `LocatorInv` adds to
  `PendingActionIsNoGuess` that the number outweighs the rest; `SearchesAgree` needs
  it. The proof needs `RowIndex` = 1, and so does the code
  ([below](#where-the-code-and-its-documents-differ)).

The only assumptions are those named on the constants (`...Assumption`), which TLC
evaluates in the runs. Some of them deserve a word: `Plan` is not empty, has no field
twice and names neither the SN nor the remark (the seven fields that
`buildRecloudInspectionFormPlan` fixes, `recloud-sync-mapping.js:82`), and `Cascade`
is any set of pairs of fields of one form; the demonstration orders are distinct
(constants of the client); of the telephone masks nothing is assumed; and the layers
of a table are out of line by less than half a row (`TableAssumption`).

Liveness (`TasksSettle`, `KeysSettle`, `PendingIsNotified`, `CompletedIsArchived`,
`RequestsSettle`, `CallsSettle`) is model-checked only: it is outside what TLAPS
decides.

## Where the code and its documents differ

* *One SN, one order in progress* (`orders_sn`). Only `prepare` looks at other
  orders. `completeReceipt` and `markModelAuthorization` make a cancelled or
  reviewed order active again while another has taken its SN.
* *An SN is inspected only if its model is supported*
  (`test/receipt-preparation.test.js:174`). The prepare-receipt handler awaits the
  catalogue between `prepare` and `markModelAuthorization`, which does not compare
  SNs: an answer for an earlier SN authorizes the later one
  (`WorkOrders!InspectedSnWasAuthorized` does not hold).
* *A completion covers the parts used* (`docs/WORK_ORDER_STATES.md:144`). The
  parts are read before an await and saved after it, so one applied in between is
  missing (`WorkOrders!SubmittedPartsAreTheOrders` does not hold).
* *The profile is in use by another process* (`session_in_use`). The lock is taken
  before the `try` whose `finally` resets `opening`: a refusal at startup is
  kept, and after the other process is closed every call is still refused
  until the backend is restarted.
* *A failed sync reaches manual review* (`docs/OPERATIONS_RUNBOOK.md:33`). A task
  left in PROCESSING by a restart or a failed write is picked up by nothing
  (`SyncOutbox!InterruptedTasksReachReview` does not hold).
* *A completed request is answered with its first result*
  (`docs/PRODUCTION_DEPLOYMENT.md:22`): the record is written after the response, and
  a restart or a failed write in between strands the key
  (`Coordination!CompletedKeysReplay` does not hold).
* Seen while modelling and not given a run: an order that is prepared a second time
  keeps its timeline and loses its supervision orders
  (`receipt-preparation-store.js:61`), so the next poll announces the same supervision
  order in it again (597); a queued call that finds the session authenticated while
  startup is still filling the login form clears `autoLoginAttempted`, so the password
  is submitted by startup and may be submitted once more before the next authenticated
  visit; a shipped order can be received again (`completeReceipt` has no status
  guard), completed again and shipped a second time; a use of a part may be booked on
  the SN its order had before a second preparation; a poll writes the content of its
  snapshot back over a newer one; `/queryRepair` sent with an `Idempotency-Key` meets
  its own claim in its second dispatch and is refused as its own duplicate; an
  administrator's unlock is refused by the middleware as long as the lease is live; a
  lease acquired while a handler of another user waits does not stop the handler's
  write (`docs/PRODUCTION_DEPLOYMENT.md:21`); a retryable time-out may submit a node
  twice, because the portal may have taken the first call; the recheck after a receipt
  is skipped while a poll runs that read the orders before it, and the tick makes up
  for it; a queued call at startup navigates the page that the startup is navigating;
  a shutdown in the middle of a launch releases the lock under the browser that then
  starts, and a call that is queued during a shutdown opens the browser again.
* Seen in the client's store: an answer that arrives late updates whichever
  order is current by then, not the one it was asked for; `setCurrentRepairOrderId`
  is undone by the migration at the next read, which makes the copy
  decide (no page calls it); `normalizeOrder` drops `repairWorkNote`,
  which `RepairWork.jsx` reads; the page `RepairFinish` is reached by no navigation.
* Seen in the query of an RMA: after a query that timed out, or whose second Enter was
  not answered, the detail of its number can be returned for the next number, values
  of two orders can mix in one answer, because the text and the items are read one
  after the other from a page that changes, and an order can be called missing because
  of an earlier number's notice; a mask of a telephone without digits is satisfied by
  any single number in sight.
* Seen in the search for the receipt control: in a table whose main rows alone have
  aria indices, with a fixed layer a little higher, the place chooses the next row's
  control (`recloud.js:6709`); element by element, rows that do not answer in time are
  passed over and the rest numbered, so the second row can be taken for the first
  (6991-7052), unless the logistics number tells them apart.
* Seen in the detection prefill: a field that is read as empty because the read failed
  is cleared and verified as its original (`recloud-detection-control-adapter.js:84`,
  93, 101); a field is not read again after the others have been put back, so one that
  a later put-back changes stays changed in a call that answers ok; a form whose
  `isVisible` throws counts as gone (`recloud.js:7962`, 8017); a form left open in one
  of these ways can be saved by the page as soon as the guard is removed, and so can
  what the mouse of a diagnosis set off.
* Seen in the rest of the automation: `simulateReceiptForm` notes that the SN is
  filled only after `fill` returns, so a `fill` that throws after writing is not
  cleared (the call fails); it takes Escape for closing without looking; a write that
  is blocked after the last `assertSafe` leaves the answer a success; `confirmSign`
  leaves the form filled and unguarded; the receipt diagnosis by row hover leaves its
  marks behind when a target is missing before it moved and then reports 0 blocked
  requests whatever was blocked; the layout diagnosis takes one good look for found
  whatever the others saw; work of the table diagnosis that ran out of time is not
  cancelled; for any row but the first, `findMappedReceiptControl` counts places in a
  list in which a row of the fixed layer that is out of line stands a second time, and
  would return another row's control (no handler asks for one).

## Not modelled, and the plan

In this order:

1. `ProfileLock`: the steps of two processes inside `acquireProfileLock`, with
   `RecloudSession`'s view of the lock as its abstract specification.
2. `OrderSync`: work orders composed with the outbox; the swallowed enqueue
   error and the key of a re-prepared order.
3. `AgentRun` with `TaskFiles`: checkpoints of the CRM agent, and lost updates
   between the three processes that read, change and write the task files.
4. `Policies`: warranty, pricing, charges, form rules, supervision analysis,
   against reference definitions.
5. Fault catalogue (its unprotected `merge`), accounts, rate limiter.
6. The rest of the automation: `readProductLine`, `confirmSign`,
   `correctRmaProjectModel`, and the rest of the client: sign-in, roles, the
   inventory and administration pages.

Theorems worth proving next are those of the modules to come. Of the present ones,
liveness stays with TLC.

Of the diagnoses two details are left out: the hover of Playwright may itself scroll
its target into view (`recloud.js:3653`, 4412), so what `PageHandedBack` says of the
scroll position bears on the layout diagnosis, which scrolls and restores by itself;
and the look of the row hover before it moves, which changes nothing.

Left out for good: the DOM selectors of `recloud.js` and what its diagnoses report of
components and renderers (no state of their own), what pages show, file and OCR I/O,
deployment.
