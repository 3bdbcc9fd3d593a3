----------------------------- MODULE LocalOrders -----------------------------
(***************************************************************************)
(* The work orders the web client keeps in the browser's localStorage      *)
(* (shared/repairOrderStore.js) and the pages that read and write them.    *)
(*                                                                         *)
(* Three keys hold the state: "repairOrders" (the list),                   *)
(* "currentRepairOrderId" and "currentRepairOrder" (a copy of the current  *)
(* order, also the migration path of an older client).  They belong to the *)
(* browser, so every tab of the client shares them, and a store function   *)
(* runs to completion: it is one step.  A page copies the current order    *)
(* when it is mounted and writes the store when an answer of the server    *)
(* arrives, which may be after the user has left the page; the server (see *)
(* WorkOrders) may accept or refuse any request.                           *)
(*                                                                         *)
(* Of an order the model keeps its id, its status, the status of the last  *)
(* entry of its history and whether it has a completion date.              *)
(***************************************************************************)
EXTENDS Naturals, Sequences, SequencesExt

CONSTANTS
    Tabs,           \* tabs of the client open in one browser
    Rmas,           \* RMA numbers the server knows
    DemoOrders,     \* ids of the orders a fresh store is seeded with (a sequence)
    LegacyOrder,    \* id of the single order an older client may have left
    MaxRequests,    \* bound: requests under way at once
    MaxOrders       \* bound: entries of the list

ASSUME BoundsAssumption ==
    /\ MaxRequests \in Nat \ {0}
    /\ MaxOrders \in Nat
    /\ DemoOrders # <<>>
    /\ DemoOrders \in Seq(Range(DemoOrders))
    /\ \A i, j \in DOMAIN DemoOrders : DemoOrders[i] = DemoOrders[j] => i = j

VARIABLES
    store,          \* the three localStorage keys
    tabs,           \* per tab: the mounted page, the copy it shows, its busy flag
    requests        \* calls of the server under way

vars == <<store, tabs, requests>>

NoOrder == [id |-> "none"]
Nothing == [id |-> "none", status |-> "none"]
Idle == [kind |-> "idle"]
Slots == 1..MaxRequests

(***************************************************************************)
(* Statuses and orders.                                                    *)
(***************************************************************************)

REPAIR_STATUS == {
    "WAIT_RECEIPT", "WAIT_INSPECTION", "INSPECTION_COMPLETE", "WAIT_REPAIR",
    "REPAIRING", "PAUSED", "WAIT_PARTS", "WAIT_CONFIRM",
    "REPAIR_COMPLETED_PENDING_SHIPMENT", "SHIPPED_PENDING_COMPLETION",
    "COMPLETED"}

\* A status word of the older client, and a history an order came without.
LegacyStatus == "LEGACY"
NoHistory == "NO_HISTORY"

OrderIds == Rmas \cup Range(DemoOrders) \cup {LegacyOrder}

Order == [id : OrderIds, status : REPAIR_STATUS,
          history : REPAIR_STATUS \cup {LegacyStatus}, completedAt : BOOLEAN]

createDefaultOrder(id, status) ==
    [id |-> id, status |-> status, history |-> status, completedAt |-> FALSE]

\* The second demonstration order comes with a history that ends in PAUSED.
DEFAULT_ORDERS ==
    [i \in DOMAIN DemoOrders |->
        createDefaultOrder(DemoOrders[i], IF i = 1 THEN "WAIT_RECEIPT" ELSE "PAUSED")]

\* An unknown status becomes the first one; a missing history is written
\* from the status word as it was found.
normalizeOrder(o) ==
    [id          |-> o.id,
     status      |-> IF o.status \in REPAIR_STATUS THEN o.status ELSE "WAIT_RECEIPT",
     history     |-> IF o.history = NoHistory THEN o.status ELSE o.history,
     completedAt |-> o.completedAt]

IdsOf(orders) == {orders[i].id : i \in DOMAIN orders}

\* Array.find: the first entry with the id.
FirstWithId(orders, id) ==
    orders[CHOOSE i \in DOMAIN orders :
              /\ orders[i].id = id
              /\ \A j \in 1..(i - 1) : orders[j].id # id]

(***************************************************************************)
(* The functions of repairOrderStore.js, from a store to a store.          *)
(***************************************************************************)

\* Runs before every read.  The last part is the migration of the older
\* client's key, which the newer client keeps writing: the copy decides
\* which order is current.
initializeRepairOrders(s) ==
    LET listed   == IF s.orders = <<>> THEN DEFAULT_ORDERS
                    ELSE [i \in DOMAIN s.orders |-> normalizeOrder(s.orders[i])]
        selected == IF s.current = "none" THEN DemoOrders[1] ELSE s.current
        old      == normalizeOrder(s.mirror)
    IN  IF s.mirror = NoOrder
        THEN [s EXCEPT !.orders = listed, !.current = selected]
        ELSE [s EXCEPT
                !.orders  = IF old.id \in IdsOf(listed) THEN listed
                            ELSE Append(listed, old),
                !.current = old.id]

getRepairOrders(s) == initializeRepairOrders(s).orders

\* The order with the current id, the first one when no order has it; the
\* current id and the copy are written back.
getCurrentRepairOrder(s) ==
    LET i == initializeRepairOrders(s)
        o == IF i.current \in IdsOf(i.orders)
             THEN FirstWithId(i.orders, i.current) ELSE i.orders[1]
    IN  [i EXCEPT !.current = o.id, !.mirror = o]

CurrentOrder(s) == getCurrentRepairOrder(s).mirror

\* A new order is appended whether or not its id is in the list.
createRepairOrder(s, o) ==
    [s EXCEPT !.orders  = Append(getRepairOrders(s), normalizeOrder(o)),
              !.current = o.id,
              !.mirror  = o]

\* Mutant: the copy under the older client's key is not written.
saveWithoutMirror(s, order) ==
    LET o      == normalizeOrder(order)
        orders == getRepairOrders(s)
    IN  [s EXCEPT
            !.orders  = [i \in DOMAIN orders |->
                            IF orders[i].id = o.id THEN o ELSE orders[i]],
            !.current = o.id]

\* Mutant: only the first entry with the id is replaced, as find would.
saveFirstEntry(s, order) ==
    LET o      == normalizeOrder(order)
        orders == getRepairOrders(s)
        first  == SelectInSeq(orders, LAMBDA e : e.id = o.id)
    IN  [s EXCEPT
            !.orders  = IF first = 0 THEN Append(orders, o)
                        ELSE [orders EXCEPT ![first] = o],
            !.current = o.id,
            !.mirror  = o]

\* Every entry with the id becomes the given order.
saveCurrentRepairOrder(s, order) ==
    LET o      == normalizeOrder(order)
        orders == getRepairOrders(s)
    IN  [s EXCEPT
            !.orders  = IF o.id \in IdsOf(orders)
                        THEN [i \in DOMAIN orders |->
                                 IF orders[i].id = o.id THEN o ELSE orders[i]]
                        ELSE Append(orders, o),
            !.current = o.id,
            !.mirror  = o]

\* Mutant: the history is extended by the pages that remember to.
updateWithoutHistory(s, status) ==
    LET read == getCurrentRepairOrder(s)
    IN  saveCurrentRepairOrder(read,
            [read.mirror EXCEPT
                !.status      = status,
                !.completedAt = read.mirror.completedAt \/ status = "COMPLETED"])

\* Mutant: the completion date follows the status.
updateResettingCompletion(s, status) ==
    LET read == getCurrentRepairOrder(s)
        o    == read.mirror
    IN  saveCurrentRepairOrder(read,
            [o EXCEPT
                !.status      = status,
                !.history     = IF status # o.status THEN status ELSE o.history,
                !.completedAt = status = "COMPLETED"])

\* The fields go to the order that is current now.
updateRepairOrder(s, status) ==
    LET read == getCurrentRepairOrder(s)
        o    == read.mirror
    IN  saveCurrentRepairOrder(read,
            [id          |-> o.id,
             status      |-> status,
             history     |-> IF status # o.status THEN status ELSE o.history,
             completedAt |-> o.completedAt \/ status = "COMPLETED"])

\* updateRepairOrder with fields the list does not keep: the order is
\* rewritten as it is.
UpdateOtherFields(s) == updateRepairOrder(s, CurrentOrder(s).status)

actionStatusMap == [FINISH_REPAIR |-> "WAIT_CONFIRM"]

updateStatusByAction(s, action) == updateRepairOrder(s, actionStatusMap[action])

(***************************************************************************)
(* Navigation.                                                             *)
(***************************************************************************)

Pages == {"home", "repair", "partsApplication", "inventory", "repairWork",
          "repairProcess", "repairCompletion", "returnShipping"}

\* Home's "continue the current order".
nextPageForStatus(status) ==
    CASE status = "WAIT_INSPECTION"                       -> "partsApplication"
      [] status = "INSPECTION_COMPLETE"                   -> "repairCompletion"
      [] status = "WAIT_PARTS"                            -> "inventory"
      [] status \in {"WAIT_REPAIR", "REPAIRING", "PAUSED"} -> "repairWork"
      [] status = "WAIT_CONFIRM"                          -> "repairProcess"
      [] status \in {"REPAIR_COMPLETED_PENDING_SHIPMENT",
                     "SHIPPED_PENDING_COMPLETION"}        -> "returnShipping"
      [] OTHER                                            -> "repair"

\* The buttons a page shows, for the copy of the order it holds and for every
\* role (the warehouse goes from home to the shipping page), and the navigation
\* bar that every page has.
Links(page, shown) ==
    {"home", "repair", "inventory"} \cup
    CASE page = "home"             ->
            {nextPageForStatus(shown.status), "returnShipping"}
      [] page = "partsApplication" -> {"repairWork"}
      [] page = "inventory"        ->
            IF shown.status \in {"INSPECTION_COMPLETE", "WAIT_PARTS", "REPAIRING"}
            THEN {"repairWork"} ELSE {}
      [] page = "repairWork"       -> {"partsApplication"}
      [] page = "repairProcess"    ->
            {"repairWork"} \cup
            (IF shown.status = "INSPECTION_COMPLETE" THEN {"repairCompletion"}
             ELSE IF shown.status = "REPAIR_COMPLETED_PENDING_SHIPMENT"
             THEN {"returnShipping"} ELSE {})
      [] page = "repairCompletion" ->
            {"repairProcess"} \cup
            (IF shown.status = "REPAIR_COMPLETED_PENDING_SHIPMENT"
             THEN {"returnShipping"} ELSE {})
      [] OTHER                     -> {}

\* What a page uses of the order it copied.
Seen(o) == [id |-> o.id, status |-> o.status]

\* Mounting a page: all but the receipt page copy the current order, and
\* the read writes the store.
Mounted(s, page) ==
    [page  |-> page,
     shown |-> IF page = "repair" THEN Nothing ELSE Seen(CurrentOrder(s)),
     busy  |-> FALSE]

AfterMount(s, page) == IF page = "repair" THEN s ELSE getCurrentRepairOrder(s)

\* The requests of a page that is left no longer update its component.
Orphaned(t) ==
    [i \in Slots |-> IF requests[i] # Idle /\ requests[i].tab = t
                     THEN [requests[i] EXCEPT !.mounted = FALSE] ELSE requests[i]]

SetPage(t, page) ==
    /\ page \in Links(tabs[t].page, tabs[t].shown)
    /\ tabs' = [tabs EXCEPT ![t] = Mounted(store, page)]
    /\ store' = AfterMount(store, page)
    /\ requests' = Orphaned(t)

\* The home and the inventory page read the order whenever they render.
Rendered(t) ==
    /\ tabs[t].page \in {"home", "inventory"}
    /\ tabs' = [tabs EXCEPT ![t].shown = Seen(CurrentOrder(store))]
    /\ store' = getCurrentRepairOrder(store)
    /\ UNCHANGED requests

(***************************************************************************)
(* The pages' requests.  "status" is what the page will write when the     *)
(* server accepts: it is fixed when the button is pressed.                 *)
(***************************************************************************)

Call(request) ==
    /\ \E i \in Slots :
          /\ requests[i] = Idle
          /\ \A j \in Slots : j < i => requests[j] # Idle
          /\ requests' = [requests EXCEPT ![i] = request]
    /\ UNCHANGED store

\* The buttons of a page are disabled while it is saving.
Send(t, request) ==
    /\ ~tabs[t].busy
    /\ Call(request)
    /\ tabs' = [tabs EXCEPT ![t].busy = TRUE]

Request(t, kind, order, status) ==
    [tab |-> t, kind |-> kind, order |-> order, status |-> status, mounted |-> TRUE]

\* Repair.jsx: the receipt prepared for an RMA is completed.
completeReceiptAndInspect(t, r) ==
    /\ tabs[t].page = "repair"
    /\ Send(t, Request(t, "receive", r, "WAIT_INSPECTION"))

\* PartsApplication.jsx.
submitApplication(t) ==
    /\ tabs[t].page = "partsApplication"
    /\ Send(t, Request(t, "update", tabs[t].shown.id, "WAIT_PARTS"))

\* Inventory.jsx: a part is used (a return writes nothing here).  Its
\* buttons are never disabled.
act(t) ==
    /\ tabs[t].page = "inventory"
    /\ Call(Request(t, "update", tabs[t].shown.id, "REPAIRING"))
    /\ UNCHANGED tabs

\* RepairProcess.jsx.
saveDetection(t) ==
    /\ tabs[t].page = "repairProcess"
    /\ Send(t, Request(t, "update", tabs[t].shown.id, "INSPECTION_COMPLETE"))

\* RepairCompletion.jsx: a draft writes back the status the page shows.
save(t, submit) ==
    /\ tabs[t].page = "repairCompletion"
    /\ Send(t, Request(t, "update", tabs[t].shown.id,
                       IF submit THEN "REPAIR_COMPLETED_PENDING_SHIPMENT"
                       ELSE tabs[t].shown.status))

\* ReturnShipping.jsx: the order is chosen from the server's list; the local
\* order is written only when the page was opened on it.
ShippingRequest(t, r, status) ==
    /\ tabs[t].page = "returnShipping"
    /\ Send(t, Request(t, IF tabs[t].shown.id = r THEN "shipping" ELSE "server",
                       r, status))

submitShipping(t, r) == ShippingRequest(t, r, "SHIPPED_PENDING_COMPLETION")
completeOrder(t, r) == ShippingRequest(t, r, "COMPLETED")

\* RepairWork.jsx, without the server: the work note, the status, the page.
finishRepair(t) ==
    LET s == updateStatusByAction(UpdateOtherFields(store), "FINISH_REPAIR")
    IN  /\ tabs[t].page = "repairWork"
        /\ store' = AfterMount(s, "repairProcess")
        /\ tabs' = [tabs EXCEPT ![t] = Mounted(s, "repairProcess")]
        /\ requests' = Orphaned(t)

(***************************************************************************)
(* The answers.                                                            *)
(***************************************************************************)

NewOrder(q) == createDefaultOrder(q.order, q.status)

\* What the continuation of a request does to the store.
Written(s, q) ==
    IF q.kind = "receive"
    THEN saveCurrentRepairOrder(createRepairOrder(s, NewOrder(q)), NewOrder(q))
    ELSE IF q.kind \in {"update", "shipping"} THEN updateRepairOrder(s, q.status)
    ELSE s

\* A receipt opens the parts page of its tab, wherever the user is by then;
\* the other pages show the written order if they are still mounted (the
\* shipping page keeps the copy it was opened with).
Accepted(i) ==
    LET q == requests[i]
        t == q.tab
        s == Written(store, q)
    IN  /\ q # Idle
        /\ q.kind = "receive" => Len(getRepairOrders(store)) < MaxOrders
        /\ IF q.kind = "receive"
           THEN /\ store' = AfterMount(s, "partsApplication")
                /\ tabs' = [tabs EXCEPT ![t] = Mounted(s, "partsApplication")]
                /\ requests' = [Orphaned(t) EXCEPT ![i] = Idle]
           ELSE /\ store' = s
                /\ tabs' = IF ~q.mounted THEN tabs
                           ELSE [tabs EXCEPT ![t] =
                                   [page  |-> tabs[t].page,
                                    shown |-> IF q.kind = "update" THEN Seen(s.mirror)
                                              ELSE tabs[t].shown,
                                    busy  |-> FALSE]]
                /\ requests' = [requests EXCEPT ![i] = Idle]

\* The server refuses or cannot be reached: the message is shown, if the
\* page is still there.
Refused(i) ==
    LET q == requests[i]
    IN  /\ q # Idle
        /\ tabs' = IF q.mounted THEN [tabs EXCEPT ![q.tab].busy = FALSE] ELSE tabs
        /\ requests' = [requests EXCEPT ![i] = Idle]
        /\ UNCHANGED store

(***************************************************************************)
(* Specification.                                                          *)
(***************************************************************************)

\* A fresh browser, or one in which the older client left its single order.
InitialStores ==
    {[orders |-> <<>>, current |-> "none", mirror |-> m] :
        m \in {NoOrder} \cup
              {[id |-> LegacyOrder, status |-> LegacyStatus,
                history |-> NoHistory, completedAt |-> FALSE]}}

\* Every tab opens on the home page, which reads the current order.
Init ==
    /\ \E s \in InitialStores :
          /\ store = getCurrentRepairOrder(s)
          /\ tabs = [t \in Tabs |-> Mounted(s, "home")]
    /\ requests = [i \in Slots |-> Idle]

Next ==
    \/ \E t \in Tabs :
          \/ \E page \in Pages : SetPage(t, page)
          \/ Rendered(t)
          \/ \E r \in Rmas :
                \/ completeReceiptAndInspect(t, r)
                \/ submitShipping(t, r)
                \/ completeOrder(t, r)
          \/ submitApplication(t)
          \/ act(t)
          \/ saveDetection(t)
          \/ \E submit \in BOOLEAN : save(t, submit)
          \/ finishRepair(t)
    \/ \E i \in Slots : Accepted(i) \/ Refused(i)

Spec == Init /\ [][Next]_vars

(***************************************************************************)
(* Properties.                                                             *)
(***************************************************************************)

RequestRecord ==
    [tab : Tabs, kind : {"receive", "update", "shipping", "server"},
     order : OrderIds, status : REPAIR_STATUS, mounted : BOOLEAN]

\* The stored list, the current id and the copy hold what the store's
\* functions write, and tabs and requests what the pages keep.
TypeOK ==
    /\ store \in [orders : Seq(Order), current : OrderIds, mirror : Order]
    /\ tabs \in [Tabs -> [page : Pages, busy : BOOLEAN,
                       shown : [id : OrderIds, status : REPAIR_STATUS] \cup {Nothing}]]
    /\ requests \in [Slots -> RequestRecord \cup {Idle}]

\* The three keys agree whatever the tabs do: the current id is that of the
\* copy, and the copy is an entry of the list.  initializeRepairOrders makes
\* the copy decide, so a copy that were ahead of or behind the list would
\* bring back an order the user has left.
MirrorIsCurrent ==
    /\ store.current = store.mirror.id
    /\ \E i \in DOMAIN store.orders : store.orders[i] = store.mirror

\* A receipt completed again for the same RMA appends a second entry with
\* the same id (createRepairOrder does not look).  The entries stay equal,
\* because the page saves the new order over all of them and later writes
\* go to all of them; a search by id therefore never finds an old state.
CopiesAgree ==
    \A i, j \in DOMAIN store.orders :
        store.orders[i].id = store.orders[j].id => store.orders[i] = store.orders[j]

\* The history shown for an order ends with its status, over every path
\* (pages, late answers, drafts), unless the order came from the older
\* client with a status word that is not known any more.
HistoryEndsWithStatus ==
    \A i \in DOMAIN store.orders :
        \/ store.orders[i].history = store.orders[i].status
        \/ store.orders[i].history = LegacyStatus

\* No step drops an order or the completion date of an order that is not
\* received again: the list is only ever rewritten as a whole.
NothingIsForgotten ==
    [][ \A i \in DOMAIN store.orders :
           \E j \in DOMAIN store'.orders :
              /\ store'.orders[j].id = store.orders[i].id
              /\ \/ store.orders[i].completedAt => store'.orders[j].completedAt
                 \/ store'.orders[j].status = "WAIT_INSPECTION" ]_vars
=============================================================================
