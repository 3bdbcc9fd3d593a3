-------------------------- MODULE LocalOrdersProofs --------------------------
(***************************************************************************)
(* Proofs about LocalOrders, for any tabs, RMA numbers, demonstration      *)
(* orders and any number of requests under way.                            *)
(*                                                                         *)
(* In a store whose three keys agree (Good), what runs before every read   *)
(* changes nothing (ReadsGood), so each function of the store is what it   *)
(* writes; each write keeps the keys together and forgets nothing          *)
(* (SavedGood, ReceivedGood).                                              *)
(***************************************************************************)
EXTENDS LocalOrders, WellFoundedInduction, TLAPS

\* A list every read finds as it is, and the copy of one of its entries.
Readable(s) ==
    /\ s \in [orders : Seq(Order), current : OrderIds, mirror : Order]
    /\ s.current = s.mirror.id
    /\ s.mirror.id \in IdsOf(s.orders)

\* And the entries with one id are one order, whose history ends with its status.
Good(s) ==
    /\ s \in [orders : Seq(Order), current : OrderIds, mirror : Order]
    /\ s.current = s.mirror.id
    /\ \E i \in DOMAIN s.orders : s.orders[i] = s.mirror
    /\ \A i, j \in DOMAIN s.orders :
          s.orders[i].id = s.orders[j].id => s.orders[i] = s.orders[j]
    /\ \A i \in DOMAIN s.orders :
          \/ s.orders[i].history = s.orders[i].status
          \/ s.orders[i].history = LegacyStatus

\* r keeps the orders of s and their completion.
Keeps(s, r) ==
    \A i \in DOMAIN s.orders :
        /\ i \in DOMAIN r.orders
        /\ r.orders[i].id = s.orders[i].id
        /\ s.orders[i].completedAt => r.orders[i].completedAt

\* But for the orders that are received again.
KeepsOrReceives(s, r) ==
    \A i \in DOMAIN s.orders :
        /\ i \in DOMAIN r.orders
        /\ r.orders[i].id = s.orders[i].id
        /\ \/ s.orders[i].completedAt => r.orders[i].completedAt
           \/ r.orders[i].status = "WAIT_INSPECTION"

(***************************************************************************)
(* Orders and lists of them.                                               *)
(***************************************************************************)

\* The least-number principle.
LEMMA Least ==
    ASSUME NEW T, T \subseteq Nat, T # {}
    PROVE  \E m \in T : \A k \in T : ~ (k < m)
<1> DEFINE R == {ss \in Nat \X Nat : ss[1] < ss[2]}
<1>1. IsWellFoundedOn(OpToRel(<, Nat), Nat)
  BY NatLessThanWellFounded
<1>2. IsWellFoundedOn(R, Nat)
  BY <1>1 DEF OpToRel
<1> HIDE DEF R
<1>3. PICK m \in T : \A k \in T : ~ (<<k, m>> \in R)
  BY <1>2, WFMin
<1> QED
  BY <1>3 DEF R

\* Array.find finds an order with the id, if there is one.
LEMMA FirstHasId ==
    ASSUME NEW orders \in Seq(Order), NEW id, id \in IdsOf(orders)
    PROVE  \E i \in DOMAIN orders : orders[i].id = id /\ FirstWithId(orders, id) = orders[i]
<1> DEFINE T == {i \in DOMAIN orders : orders[i].id = id}
<1>1. T \subseteq Nat /\ T # {}
  BY DEF IdsOf
<1>2. PICK m \in T : \A k \in T : ~ (k < m)
  BY <1>1, Least
<1>3. /\ m \in DOMAIN orders
      /\ orders[m].id = id
      /\ \A j \in 1..(m - 1) : orders[j].id # id
  BY <1>2
<1>4. PICK n \in DOMAIN orders :
          /\ n = CHOOSE i \in DOMAIN orders :
                   /\ orders[i].id = id
                   /\ \A j \in 1..(i - 1) : orders[j].id # id
          /\ orders[n].id = id
  BY <1>3
<1> QED
  BY <1>4 DEF FirstWithId

\* An order that the store wrote is read as it is.
LEMMA NormalOrder ==
    ASSUME NEW o \in Order
    PROVE  /\ normalizeOrder(o) = o
           /\ o # NoOrder
           /\ o.id \in OrderIds /\ o.status \in REPAIR_STATUS
           /\ o.history \in REPAIR_STATUS \cup {LegacyStatus}
           /\ o.completedAt \in BOOLEAN
<1>1. /\ o = [id |-> o.id, status |-> o.status, history |-> o.history,
              completedAt |-> o.completedAt]
      /\ o.id \in OrderIds /\ o.status \in REPAIR_STATUS
      /\ o.history \in REPAIR_STATUS \cup {LegacyStatus}
      /\ o.completedAt \in BOOLEAN
  BY DEF Order
<1>2. o.history # NoHistory
  BY <1>1 DEF REPAIR_STATUS, LegacyStatus, NoHistory
<1>3. normalizeOrder(o) = o
  BY <1>1, <1>2 DEF normalizeOrder
<1>4. o # NoOrder
  BY <1>1 DEF NoOrder
<1> QED
  BY <1>1, <1>3, <1>4

\* Replacing entries keeps a list a list.
LEMMA MappedList ==
    ASSUME NEW orders \in Seq(Order), NEW f, DOMAIN f = DOMAIN orders,
           f = [i \in DOMAIN orders |-> f[i]],
           \A i \in DOMAIN orders : f[i] \in Order
    PROVE  f \in Seq(Order)
<1>1. DOMAIN orders = 1..Len(orders) /\ Len(orders) \in Nat
  OBVIOUS
<1>2. f \in [1..Len(orders) -> Order]
  BY <1>1
<1> QED
  BY <1>1, <1>2

(***************************************************************************)
(* The reads.                                                              *)
(***************************************************************************)

LEMMA InitializedReadable ==
    ASSUME NEW s, Readable(s)
    PROVE  initializeRepairOrders(s) = s
<1>1. /\ s.orders \in Seq(Order) /\ s.mirror \in Order /\ s.current = s.mirror.id
      /\ s = [orders |-> s.orders, current |-> s.current, mirror |-> s.mirror]
  BY DEF Readable
<1>2. s.orders # <<>> /\ s.mirror # NoOrder /\ normalizeOrder(s.mirror) = s.mirror
  BY <1>1, NormalOrder DEF Readable, IdsOf
<1>3. [i \in DOMAIN s.orders |-> normalizeOrder(s.orders[i])] = s.orders
  <2>1. \A i \in DOMAIN s.orders : normalizeOrder(s.orders[i]) = s.orders[i]
    BY <1>1, NormalOrder
  <2>2. s.orders = [i \in DOMAIN s.orders |-> s.orders[i]]
    BY <1>1
  <2> QED
    BY <2>1, <2>2
<1>4. s.mirror.id \in IdsOf(s.orders)
  BY DEF Readable
<1>5. initializeRepairOrders(s)
        = [s EXCEPT !.orders = s.orders, !.current = s.mirror.id]
  BY <1>2, <1>3, <1>4 DEF initializeRepairOrders
<1> QED
  BY <1>1, <1>5

\* In a good store a read changes nothing.
LEMMA ReadsGood ==
    ASSUME NEW s, Good(s)
    PROVE  /\ Readable(s)
           /\ getRepairOrders(s) = s.orders
           /\ getCurrentRepairOrder(s) = s
           /\ CurrentOrder(s) = s.mirror
<1>1. Readable(s)
  BY DEF Good, Readable, IdsOf
<1>2. initializeRepairOrders(s) = s
  BY <1>1, InitializedReadable
<1>3. s.current \in IdsOf(s.orders) /\ s.orders \in Seq(Order) /\ s.current = s.mirror.id
      /\ s = [orders |-> s.orders, current |-> s.current, mirror |-> s.mirror]
  BY <1>1 DEF Readable
<1>4. PICK i \in DOMAIN s.orders :
          s.orders[i].id = s.current /\ FirstWithId(s.orders, s.current) = s.orders[i]
  BY <1>3, FirstHasId
<1>5. s.orders[i] = s.mirror
  BY <1>3, <1>4 DEF Good
<1>6. getCurrentRepairOrder(s) = [s EXCEPT !.current = s.mirror.id, !.mirror = s.mirror]
  BY <1>2, <1>3, <1>4, <1>5 DEF getCurrentRepairOrder
<1>7. getCurrentRepairOrder(s) = s
  BY <1>3, <1>6
<1> QED
  BY <1>1, <1>2, <1>7 DEF getRepairOrders, CurrentOrder

(***************************************************************************)
(* The writes.                                                             *)
(***************************************************************************)

\* The history of an order ends with its status, if that is still known.
Told(o) == o.history = o.status \/ o.history = LegacyStatus

\* The entries with other ids than the one being saved.
OthersGood(s, id) ==
    /\ \A i, j \in DOMAIN s.orders :
          s.orders[i].id = s.orders[j].id /\ s.orders[i].id # id
             => s.orders[i] = s.orders[j]
    /\ \A i \in DOMAIN s.orders : s.orders[i].id # id => Told(s.orders[i])

\* What is saved replaces every entry with its id, or is a new one.
LEMMA SavedIs ==
    ASSUME NEW s, Readable(s), NEW o \in Order, NEW r, r = saveCurrentRepairOrder(s, o)
    PROVE  /\ r.current = o.id /\ r.mirror = o
           /\ r \in [orders : Seq(Order), current : OrderIds, mirror : Order]
           /\ \A i \in DOMAIN s.orders :
                 /\ i \in DOMAIN r.orders
                 /\ r.orders[i] = IF s.orders[i].id = o.id THEN o ELSE s.orders[i]
           /\ \A i \in DOMAIN r.orders : i \in DOMAIN s.orders \/ r.orders[i] = o
           /\ \E i \in DOMAIN r.orders : r.orders[i] = o
<1>1. /\ normalizeOrder(o) = o /\ o.id \in OrderIds
      /\ getRepairOrders(s) = s.orders
      /\ s.orders \in Seq(Order)
      /\ s = [orders |-> s.orders, current |-> s.current, mirror |-> s.mirror]
  BY NormalOrder, InitializedReadable DEF getRepairOrders, Readable
<1>2. CASE o.id \in IdsOf(s.orders)
  <2> DEFINE f == [i \in DOMAIN s.orders |-> IF s.orders[i].id = o.id THEN o ELSE s.orders[i]]
  <2>1. f \in Seq(Order)
    BY <1>1, MappedList
  <2>2. r = [orders |-> f, current |-> o.id, mirror |-> o]
    BY <1>1, <1>2 DEF saveCurrentRepairOrder
  <2>3. \E i \in DOMAIN s.orders : f[i] = o
    BY <1>2 DEF IdsOf
  <2> QED
    BY <1>1, <2>1, <2>2, <2>3
<1>3. CASE o.id \notin IdsOf(s.orders)
  <2>1. r = [orders |-> Append(s.orders, o), current |-> o.id, mirror |-> o]
    BY <1>1, <1>3 DEF saveCurrentRepairOrder
  <2>2. \A i \in DOMAIN s.orders : s.orders[i].id # o.id
    BY <1>3 DEF IdsOf
  <2>3. /\ Append(s.orders, o) \in Seq(Order)
        /\ DOMAIN Append(s.orders, o) = DOMAIN s.orders \cup {Len(s.orders) + 1}
        /\ Len(s.orders) + 1 \notin DOMAIN s.orders
        /\ Append(s.orders, o)[Len(s.orders) + 1] = o
        /\ \A i \in DOMAIN s.orders : Append(s.orders, o)[i] = s.orders[i]
    BY <1>1
  <2> QED
    BY <1>1, <2>1, <2>2, <2>3
<1> QED
  BY <1>2, <1>3

\* A store in which the other orders are as they should be is good once the
\* order is saved.
LEMMA SavedGood ==
    ASSUME NEW s, Readable(s), NEW o \in Order, Told(o), OthersGood(s, o.id)
    PROVE  Good(saveCurrentRepairOrder(s, o))
<1> DEFINE r == saveCurrentRepairOrder(s, o)
<1>1. /\ r.current = o.id /\ r.mirror = o
      /\ r \in [orders : Seq(Order), current : OrderIds, mirror : Order]
      /\ \A i \in DOMAIN s.orders :
            /\ i \in DOMAIN r.orders
            /\ r.orders[i] = IF s.orders[i].id = o.id THEN o ELSE s.orders[i]
      /\ \A i \in DOMAIN r.orders : i \in DOMAIN s.orders \/ r.orders[i] = o
      /\ \E i \in DOMAIN r.orders : r.orders[i] = o
  BY SavedIs
<1> HIDE DEF r
<1>2. \A i \in DOMAIN r.orders :
         \/ r.orders[i] = o
         \/ i \in DOMAIN s.orders /\ r.orders[i] = s.orders[i] /\ s.orders[i].id # o.id
  BY <1>1
<1>3. \A i, j \in DOMAIN r.orders :
         r.orders[i].id = r.orders[j].id => r.orders[i] = r.orders[j]
  BY <1>2 DEF OthersGood
<1>4. \A i \in DOMAIN r.orders : Told(r.orders[i])
  BY <1>2 DEF OthersGood
<1> QED
  BY <1>1, <1>3, <1>4 DEF Good, Told, r

LEMMA OthersOfGood ==
    ASSUME NEW s, Good(s), NEW id
    PROVE  OthersGood(s, id)
BY DEF Good, OthersGood, Told

\* The current order is written over with another status.
LEMMA UpdatedGood ==
    ASSUME NEW s, Good(s), NEW status \in REPAIR_STATUS,
           NEW r, r = updateRepairOrder(s, status)
    PROVE  Good(r) /\ Keeps(s, r)
<1> DEFINE o == [id |-> s.mirror.id, status |-> status,
                 history |-> IF status # s.mirror.status THEN status ELSE s.mirror.history,
                 completedAt |-> s.mirror.completedAt \/ status = "COMPLETED"]
<1>1. /\ Readable(s) /\ getCurrentRepairOrder(s) = s /\ s.mirror \in Order
      /\ s.mirror = [id |-> s.mirror.id, status |-> s.mirror.status,
                     history |-> s.mirror.history, completedAt |-> s.mirror.completedAt]
  BY ReadsGood DEF Good, Order
<1>2. o \in Order
  <2>1. s.mirror.id \in OrderIds /\ s.mirror.history \in REPAIR_STATUS \cup {LegacyStatus}
    BY <1>1, NormalOrder
  <2>2. o.history \in REPAIR_STATUS \cup {LegacyStatus}
    BY <2>1
  <2>3. o.completedAt \in BOOLEAN
    OBVIOUS
  <2> QED
    BY <2>1, <2>2, <2>3 DEF Order
<1>3. Told(s.mirror)
  BY DEF Good, Told
<1>4. Told(o)
  BY <1>3 DEF Told
<1>5. r = saveCurrentRepairOrder(s, o)
  BY <1>1, Zenon DEF updateRepairOrder
<1>6. o.id = s.mirror.id /\ o.status = status /\ (s.mirror.completedAt => o.completedAt)
  OBVIOUS
<1> HIDE DEF o
<1>7. Good(r)
  BY <1>1, <1>2, <1>4, <1>5, OthersOfGood, SavedGood
<1>8. /\ r.mirror = o
      /\ \A i \in DOMAIN s.orders :
            /\ i \in DOMAIN r.orders
            /\ r.orders[i] = IF s.orders[i].id = o.id THEN o ELSE s.orders[i]
  BY <1>1, <1>2, <1>5, SavedIs
<1>9. \A i \in DOMAIN s.orders : s.orders[i].id = o.id => s.orders[i] = s.mirror
  BY <1>6 DEF Good
<1>10. Keeps(s, r)
  BY <1>6, <1>8, <1>9 DEF Keeps
<1> QED
  BY <1>6, <1>7, <1>8, <1>10

\* An order received again is appended and then saved over its older entries.
LEMMA ReceivedGood ==
    ASSUME NEW s, Good(s), NEW id \in OrderIds,
           NEW o, o = createDefaultOrder(id, "WAIT_INSPECTION"),
           NEW r, r = saveCurrentRepairOrder(createRepairOrder(s, o), o)
    PROVE  Good(r) /\ KeepsOrReceives(s, r)
<1> DEFINE t == [orders |-> Append(s.orders, o), current |-> o.id, mirror |-> o]
<1>1. /\ o \in Order /\ Told(o) /\ o.status = "WAIT_INSPECTION"
  BY DEF createDefaultOrder, Order, Told, REPAIR_STATUS
<1>2. /\ s.orders \in Seq(Order) /\ getRepairOrders(s) = s.orders
      /\ s = [orders |-> s.orders, current |-> s.current, mirror |-> s.mirror]
  BY ReadsGood DEF Good
<1>3. createRepairOrder(s, o) = t
  <2>1. normalizeOrder(o) = o
    BY <1>1, NormalOrder
  <2>2. createRepairOrder(s, o)
          = [s EXCEPT !.orders = Append(s.orders, o), !.current = o.id, !.mirror = o]
    BY <1>2, <2>1 DEF createRepairOrder
  <2> QED
    BY <1>2, <2>2
<1>4. /\ Append(s.orders, o) \in Seq(Order)
      /\ DOMAIN Append(s.orders, o) = DOMAIN s.orders \cup {Len(s.orders) + 1}
      /\ Append(s.orders, o)[Len(s.orders) + 1] = o
      /\ \A i \in DOMAIN s.orders : Append(s.orders, o)[i] = s.orders[i]
  BY <1>1, <1>2
<1>5. Readable(t)
  BY <1>1, <1>4, NormalOrder DEF Readable, IdsOf
<1>6. OthersGood(t, o.id)
  <2>1. OthersGood(s, o.id)
    BY OthersOfGood
  <2> QED
    BY <1>4, <2>1 DEF OthersGood
<1>7. \A i \in DOMAIN s.orders : i \in DOMAIN t.orders /\ t.orders[i] = s.orders[i]
  BY <1>4
<1> HIDE DEF t
<1>8. Good(r)
  BY <1>1, <1>3, <1>5, <1>6, SavedGood
<1>9. \A i \in DOMAIN t.orders :
         /\ i \in DOMAIN r.orders
         /\ r.orders[i] = IF t.orders[i].id = o.id THEN o ELSE t.orders[i]
  BY <1>1, <1>3, <1>5, SavedIs
<1>10. KeepsOrReceives(s, r)
  BY <1>1, <1>7, <1>9 DEF KeepsOrReceives
<1> QED
  BY <1>8, <1>10

(***************************************************************************)
(* The pages.                                                              *)
(***************************************************************************)

PageRecord == [page : Pages, busy : BOOLEAN,
               shown : [id : OrderIds, status : REPAIR_STATUS] \cup {Nothing}]

\* All but the receipt page show an order, and a receipt under way opens the
\* order for inspection.
PagesShow ==
    /\ \A t \in Tabs : tabs[t].page # "repair" => tabs[t].shown # Nothing
    /\ \A i \in Slots : requests[i] # Idle /\ requests[i].kind = "receive"
                           => requests[i].status = "WAIT_INSPECTION"

\* The inductive invariant.
Inv == TypeOK /\ Good(store) /\ PagesShow

\* What a page sees of a good store.
LEMMA MountedIs ==
    ASSUME NEW s, Good(s), NEW page \in Pages
    PROVE  /\ Mounted(s, page) \in PageRecord
           /\ Mounted(s, page).page = page
           /\ page # "repair" => Mounted(s, page).shown # Nothing
           /\ AfterMount(s, page) = s
<1>1. CurrentOrder(s) = s.mirror /\ getCurrentRepairOrder(s) = s /\ s.mirror \in Order
  BY ReadsGood DEF Good
<1>2. Seen(s.mirror) \in [id : OrderIds, status : REPAIR_STATUS]
  BY <1>1, NormalOrder DEF Seen
<1>3. Seen(s.mirror) # Nothing
  <2>1. Seen(s.mirror).status \in REPAIR_STATUS
    BY <1>2
  <2> QED
    BY <2>1 DEF Nothing, REPAIR_STATUS
<1> QED
  BY <1>1, <1>2, <1>3 DEF Mounted, AfterMount, PageRecord

\* The order a page shows, on the pages that write to it.
LEMMA ShownIs ==
    ASSUME TypeOK, PagesShow, NEW t \in Tabs, tabs[t].page # "repair"
    PROVE  tabs[t].shown.id \in OrderIds /\ tabs[t].shown.status \in REPAIR_STATUS
<1>1. tabs[t].shown \in [id : OrderIds, status : REPAIR_STATUS]
  BY DEF TypeOK, PagesShow
<1> QED
  BY <1>1

LEMMA OrphanedIs ==
    ASSUME TypeOK, PagesShow, NEW t
    PROVE  /\ Orphaned(t) \in [Slots -> RequestRecord \cup {Idle}]
           /\ \A i \in Slots : Orphaned(t)[i] # Idle /\ Orphaned(t)[i].kind = "receive"
                                 => Orphaned(t)[i].status = "WAIT_INSPECTION"
<1> SUFFICES ASSUME NEW i \in Slots
             PROVE  /\ Orphaned(t)[i] \in RequestRecord \cup {Idle}
                    /\ Orphaned(t)[i] # Idle /\ Orphaned(t)[i].kind = "receive"
                         => Orphaned(t)[i].status = "WAIT_INSPECTION"
  BY DEF Orphaned
<1>1. requests[i] \in RequestRecord \cup {Idle}
  BY DEF TypeOK
<1>2. Orphaned(t)[i] = IF requests[i] # Idle /\ requests[i].tab = t
                       THEN [requests[i] EXCEPT !.mounted = FALSE] ELSE requests[i]
  BY DEF Orphaned
<1>3. CASE requests[i] # Idle /\ requests[i].tab = t
  <2> DEFINE q == [requests[i] EXCEPT !.mounted = FALSE]
  <2>1. /\ q \in RequestRecord
        /\ q.kind = requests[i].kind /\ q.status = requests[i].status
    BY <1>1, <1>3 DEF RequestRecord
  <2> QED
    BY <1>2, <1>3, <2>1 DEF PagesShow
<1>4. CASE ~ (requests[i] # Idle /\ requests[i].tab = t)
  BY <1>1, <1>2, <1>4 DEF PagesShow
<1> QED
  BY <1>3, <1>4

\* A request of a page.
LEMMA RequestIs ==
    ASSUME NEW t \in Tabs, NEW kind \in {"receive", "update", "shipping", "server"},
           NEW order \in OrderIds, NEW status \in REPAIR_STATUS
    PROVE  /\ Request(t, kind, order, status) \in RequestRecord
           /\ Request(t, kind, order, status).kind = kind
           /\ Request(t, kind, order, status).status = status
BY DEF Request, RequestRecord

LEMMA StatusWords ==
    /\ "WAIT_INSPECTION" \in REPAIR_STATUS /\ "INSPECTION_COMPLETE" \in REPAIR_STATUS
    /\ "REPAIRING" \in REPAIR_STATUS /\ "WAIT_PARTS" \in REPAIR_STATUS
    /\ "WAIT_CONFIRM" \in REPAIR_STATUS /\ "COMPLETED" \in REPAIR_STATUS
    /\ "REPAIR_COMPLETED_PENDING_SHIPMENT" \in REPAIR_STATUS
    /\ "SHIPPED_PENDING_COMPLETION" \in REPAIR_STATUS
BY DEF REPAIR_STATUS

\* Sending a request writes nothing yet.
LEMMA CallKeepsInv ==
    ASSUME Inv, NEW q \in RequestRecord, q.kind = "receive" => q.status = "WAIT_INSPECTION",
           Call(q), tabs' = tabs \/ \E t \in Tabs : tabs' = [tabs EXCEPT ![t].busy = TRUE]
    PROVE  Inv' /\ store' = store
<1>1. PICK i \in Slots : requests' = [requests EXCEPT ![i] = q] /\ store' = store
  BY DEF Call
<1>2. requests' \in [Slots -> RequestRecord \cup {Idle}]
  BY <1>1 DEF Inv, TypeOK
<1>3. /\ tabs' \in [Tabs -> PageRecord]
      /\ \A t \in Tabs : tabs'[t].page = tabs[t].page /\ tabs'[t].shown = tabs[t].shown
  <2>1. tabs \in [Tabs -> PageRecord]
    BY DEF Inv, TypeOK, PageRecord
  <2>2. CASE tabs' = tabs
    BY <2>1, <2>2
  <2>3. CASE \E t \in Tabs : tabs' = [tabs EXCEPT ![t].busy = TRUE]
    <3>1. PICK t \in Tabs : tabs' = [tabs EXCEPT ![t] = [tabs[t] EXCEPT !.busy = TRUE]]
      BY <2>3
    <3>2. [tabs[t] EXCEPT !.busy = TRUE] \in PageRecord
      <4>1. tabs[t] \in PageRecord
        BY <2>1
      <4> QED
        BY <4>1 DEF PageRecord
    <3>3. /\ [tabs[t] EXCEPT !.busy = TRUE].page = tabs[t].page
          /\ [tabs[t] EXCEPT !.busy = TRUE].shown = tabs[t].shown
      BY <2>1 DEF PageRecord
    <3> QED
      BY <2>1, <3>1, <3>2, <3>3
  <2> QED
    BY <2>2, <2>3
<1>4. TypeOK'
  BY <1>1, <1>2, <1>3 DEF Inv, TypeOK, PageRecord
<1>5. PagesShow'
  BY <1>1, <1>3 DEF Inv, TypeOK, PagesShow
<1>6. Good(store)'
  BY <1>1 DEF Inv
<1> QED
  BY <1>1, <1>4, <1>5, <1>6 DEF Inv

LEMMA SendKeepsInv ==
    ASSUME Inv, NEW q \in RequestRecord, q.kind = "receive" => q.status = "WAIT_INSPECTION",
           NEW t \in Tabs, Send(t, q)
    PROVE  Inv' /\ store' = store
BY CallKeepsInv DEF Send

\* A page is mounted on a good store, and the requests of the one before it
\* are orphaned.
LEMMA MountKeepsInv ==
    ASSUME Inv, NEW t \in Tabs, NEW page \in Pages, NEW s, Good(s),
           store' = AfterMount(s, page),
           tabs' = [tabs EXCEPT ![t] = Mounted(s, page)],
           NEW q \in [Slots -> RequestRecord \cup {Idle}], requests' = q,
           \A i \in Slots : q[i] # Idle /\ q[i].kind = "receive"
                              => q[i].status = "WAIT_INSPECTION"
    PROVE  Inv' /\ store' = s
<1>1. /\ Mounted(s, page) \in PageRecord
      /\ Mounted(s, page).page = page
      /\ page # "repair" => Mounted(s, page).shown # Nothing
      /\ store' = s
  BY MountedIs
<1>2. tabs \in [Tabs -> PageRecord]
  BY DEF Inv, TypeOK, PageRecord
<1>3. tabs' \in [Tabs -> PageRecord]
  BY <1>1, <1>2
<1>4. TypeOK'
  BY <1>1, <1>3 DEF TypeOK, PageRecord, Good
<1>5. PagesShow'
  <2>1. \A u \in Tabs : tabs'[u].page # "repair" => tabs'[u].shown # Nothing
    BY <1>1, <1>2 DEF Inv, PagesShow
  <2> QED
    BY <2>1 DEF PagesShow
<1> QED
  BY <1>1, <1>4, <1>5 DEF Inv

LEMMA KeepsSelf ==
    ASSUME NEW s
    PROVE  Keeps(s, s)
BY DEF Keeps

LEMMA KeepsIsKept ==
    ASSUME NEW s, NEW r, Keeps(s, r)
    PROVE  KeepsOrReceives(s, r)
BY DEF Keeps, KeepsOrReceives

LEMMA KeepsTwice ==
    ASSUME NEW s, NEW r, NEW u, Keeps(s, r), Keeps(r, u)
    PROVE  Keeps(s, u)
BY DEF Keeps

\* An accepted request writes what its kind says, of the store as it is now.
LEMMA WrittenGood ==
    ASSUME Inv, NEW q \in RequestRecord, q.kind = "receive" => q.status = "WAIT_INSPECTION"
    PROVE  Good(Written(store, q)) /\ KeepsOrReceives(store, Written(store, q))
<1>1. Good(store) /\ q.order \in OrderIds /\ q.status \in REPAIR_STATUS
  BY DEF Inv, RequestRecord
<1>2. CASE q.kind = "receive"
  <2>1. /\ NewOrder(q) = createDefaultOrder(q.order, "WAIT_INSPECTION")
        /\ Written(store, q)
             = saveCurrentRepairOrder(createRepairOrder(store, NewOrder(q)), NewOrder(q))
    BY <1>2 DEF NewOrder, Written
  <2> QED
    BY <1>1, <2>1, ReceivedGood
<1>3. CASE q.kind \in {"update", "shipping"}
  <2>1. Written(store, q) = updateRepairOrder(store, q.status)
    BY <1>3 DEF Written
  <2> QED
    BY <1>1, <2>1, UpdatedGood, KeepsIsKept
<1>4. CASE q.kind \notin {"receive", "update", "shipping"}
  <2>1. Written(store, q) = store
    BY <1>4 DEF Written
  <2> QED
    BY <1>1, <2>1, KeepsSelf, KeepsIsKept
<1> QED
  BY <1>2, <1>3, <1>4

LEMMA AcceptedKeepsInv ==
    ASSUME Inv, NEW i \in Slots, Accepted(i)
    PROVE  Inv' /\ KeepsOrReceives(store, store')
<1> DEFINE q == requests[i]
           t == q.tab
           s == Written(store, q)
<1>1. /\ q \in RequestRecord /\ t \in Tabs
      /\ q.kind = "receive" => q.status = "WAIT_INSPECTION"
  <2>1. q # Idle
    BY DEF Accepted
  <2> QED
    BY <2>1 DEF Inv, TypeOK, PagesShow, RequestRecord
<1>2. Good(s) /\ KeepsOrReceives(store, s)
  BY <1>1, WrittenGood
<1>3. CASE q.kind = "receive"
  <2> DEFINE p == [Orphaned(t) EXCEPT ![i] = Idle]
  <2>1. /\ store' = AfterMount(s, "partsApplication")
        /\ tabs' = [tabs EXCEPT ![t] = Mounted(s, "partsApplication")]
        /\ requests' = p
    BY <1>3 DEF Accepted
  <2>2. /\ p \in [Slots -> RequestRecord \cup {Idle}]
        /\ \A j \in Slots : p[j] # Idle /\ p[j].kind = "receive"
                              => p[j].status = "WAIT_INSPECTION"
    BY OrphanedIs DEF Inv
  <2>3. "partsApplication" \in Pages
    BY DEF Pages
  <2> HIDE DEF q, t, s, p
  <2>4. Inv' /\ store' = s
    BY <1>1, <1>2, <2>1, <2>2, <2>3, MountKeepsInv
  <2> QED
    BY <1>2, <2>4
<1>4. CASE q.kind # "receive"
  <2>1. /\ store' = s
        /\ requests' = [requests EXCEPT ![i] = Idle]
        /\ tabs' = IF ~q.mounted THEN tabs
                   ELSE [tabs EXCEPT ![t] =
                           [page  |-> tabs[t].page,
                            shown |-> IF q.kind = "update" THEN Seen(s.mirror)
                                      ELSE tabs[t].shown,
                            busy  |-> FALSE]]
    BY <1>4 DEF Accepted
  <2>2. tabs \in [Tabs -> PageRecord]
    BY DEF Inv, TypeOK, PageRecord
  <2>3. Seen(s.mirror) \in [id : OrderIds, status : REPAIR_STATUS] /\ Seen(s.mirror) # Nothing
    <3>1. s.mirror.id \in OrderIds /\ s.mirror.status \in REPAIR_STATUS
      BY <1>2, NormalOrder DEF Good
    <3>2. "none" \notin REPAIR_STATUS
      BY DEF REPAIR_STATUS
    <3> QED
      BY <3>1, <3>2 DEF Seen, Nothing
  <2>4. /\ tabs' \in [Tabs -> PageRecord]
        /\ \A u \in Tabs : /\ tabs'[u].page = tabs[u].page
                           /\ tabs[u].shown # Nothing => tabs'[u].shown # Nothing
    <3>1. CASE ~q.mounted
      BY <2>1, <2>2, <3>1
    <3>2. CASE q.mounted
      <4> DEFINE n == [page  |-> tabs[t].page,
                       shown |-> IF q.kind = "update" THEN Seen(s.mirror)
                                 ELSE tabs[t].shown,
                       busy  |-> FALSE]
      <4>1. tabs' = [tabs EXCEPT ![t] = n]
        BY <2>1, <3>2
      <4>2. /\ n \in PageRecord /\ n.page = tabs[t].page
            /\ tabs[t].shown # Nothing => n.shown # Nothing
        BY <1>1, <2>2, <2>3 DEF PageRecord
      <4> HIDE DEF n
      <4> QED
        BY <2>2, <4>1, <4>2
    <3> QED
      BY <3>1, <3>2
  <2>5. requests' \in [Slots -> RequestRecord \cup {Idle}]
    BY <2>1 DEF Inv, TypeOK
  <2>6. TypeOK'
    BY <1>2, <2>1, <2>4, <2>5 DEF TypeOK, PageRecord, Good
  <2>7. PagesShow'
    BY <2>1, <2>4 DEF Inv, TypeOK, PagesShow
  <2> QED
    BY <1>2, <2>1, <2>6, <2>7 DEF Inv
<1> QED
  BY <1>3, <1>4

\* A refusal frees the buttons and writes nothing.
LEMMA RefusedKeepsInv ==
    ASSUME Inv, NEW i \in Slots, Refused(i)
    PROVE  Inv' /\ store' = store
<1> DEFINE q == requests[i]
           n == [tabs[q.tab] EXCEPT !.busy = FALSE]
<1>1. /\ q \in RequestRecord
      /\ tabs' = IF q.mounted THEN [tabs EXCEPT ![q.tab] = n] ELSE tabs
      /\ requests' = [requests EXCEPT ![i] = Idle]
      /\ store' = store
  BY DEF Refused, Inv, TypeOK
<1>2. tabs \in [Tabs -> PageRecord] /\ q.tab \in Tabs
  BY <1>1 DEF Inv, TypeOK, PageRecord, RequestRecord
<1>3. n \in PageRecord /\ n.page = tabs[q.tab].page /\ n.shown = tabs[q.tab].shown
  <2>1. tabs[q.tab] \in PageRecord
    BY <1>2
  <2> QED
    BY <2>1 DEF PageRecord
<1> HIDE DEF n
<1>4. /\ tabs' \in [Tabs -> PageRecord]
      /\ \A t \in Tabs : tabs'[t].page = tabs[t].page /\ tabs'[t].shown = tabs[t].shown
  BY <1>1, <1>2, <1>3
<1>5. requests' \in [Slots -> RequestRecord \cup {Idle}]
  BY <1>1 DEF Inv, TypeOK
<1>6. TypeOK'
  BY <1>1, <1>4, <1>5 DEF Inv, TypeOK, PageRecord
<1>7. PagesShow'
  BY <1>1, <1>4 DEF Inv, TypeOK, PagesShow
<1> QED
  BY <1>1, <1>6, <1>7 DEF Inv

\* The repair page writes the order twice, the second time with the status,
\* and opens the page of the detection.
LEMMA FinishKeepsInv ==
    ASSUME Inv, NEW t \in Tabs, finishRepair(t)
    PROVE  Inv' /\ Keeps(store, store')
<1> DEFINE r == UpdateOtherFields(store)
           s == updateStatusByAction(r, "FINISH_REPAIR")
<1>1. Good(store) /\ store.mirror.status \in REPAIR_STATUS
  BY NormalOrder DEF Inv, Good
<1>2. Good(r) /\ Keeps(store, r)
  <2>1. r = updateRepairOrder(store, store.mirror.status)
    BY <1>1, ReadsGood DEF UpdateOtherFields
  <2> QED
    BY <1>1, <2>1, UpdatedGood
<1>3. s = updateRepairOrder(r, "WAIT_CONFIRM")
  BY DEF updateStatusByAction, actionStatusMap
<1>4. /\ store' = AfterMount(s, "repairProcess")
      /\ tabs' = [tabs EXCEPT ![t] = Mounted(s, "repairProcess")]
      /\ requests' = Orphaned(t)
  BY DEF finishRepair
<1>5. /\ Orphaned(t) \in [Slots -> RequestRecord \cup {Idle}]
      /\ \A i \in Slots : Orphaned(t)[i] # Idle /\ Orphaned(t)[i].kind = "receive"
                            => Orphaned(t)[i].status = "WAIT_INSPECTION"
  BY OrphanedIs DEF Inv
<1>6. "repairProcess" \in Pages
  BY DEF Pages
<1> HIDE DEF r, s
<1>7. Good(s) /\ Keeps(r, s)
  BY <1>2, <1>3, StatusWords, UpdatedGood
<1>8. Inv' /\ store' = s
  BY <1>4, <1>5, <1>6, <1>7, MountKeepsInv
<1> QED
  BY <1>2, <1>7, <1>8, KeepsTwice

LEMMA SetPageKeepsInv ==
    ASSUME Inv, NEW t \in Tabs, NEW page \in Pages, SetPage(t, page)
    PROVE  Inv' /\ store' = store
<1>1. /\ store' = AfterMount(store, page)
      /\ tabs' = [tabs EXCEPT ![t] = Mounted(store, page)]
      /\ requests' = Orphaned(t) /\ Good(store)
  BY DEF SetPage, Inv
<1>2. /\ Orphaned(t) \in [Slots -> RequestRecord \cup {Idle}]
      /\ \A i \in Slots : Orphaned(t)[i] # Idle /\ Orphaned(t)[i].kind = "receive"
                            => Orphaned(t)[i].status = "WAIT_INSPECTION"
  BY OrphanedIs DEF Inv
<1> QED
  BY <1>1, <1>2, MountKeepsInv

\* A page that renders again shows the order that is current now.
LEMMA RenderedKeepsInv ==
    ASSUME Inv, NEW t \in Tabs, Rendered(t)
    PROVE  Inv' /\ store' = store
<1> DEFINE n == [tabs[t] EXCEPT !.shown = Seen(store.mirror)]
<1>1. Good(store) /\ CurrentOrder(store) = store.mirror /\ getCurrentRepairOrder(store) = store
  BY ReadsGood DEF Inv
<1>2. store' = store /\ requests' = requests /\ tabs' = [tabs EXCEPT ![t] = n]
  BY <1>1 DEF Rendered
<1>3. tabs \in [Tabs -> PageRecord]
  BY DEF Inv, TypeOK, PageRecord
<1>4. /\ Seen(store.mirror) \in [id : OrderIds, status : REPAIR_STATUS]
      /\ Seen(store.mirror) # Nothing
  <2>1. store.mirror.id \in OrderIds /\ store.mirror.status \in REPAIR_STATUS
    BY <1>1, NormalOrder DEF Good
  <2>2. "none" \notin REPAIR_STATUS
    BY DEF REPAIR_STATUS
  <2> QED
    BY <2>1, <2>2 DEF Seen, Nothing
<1>5. n \in PageRecord /\ n.page = tabs[t].page /\ n.shown # Nothing
  <2>1. tabs[t] \in PageRecord
    BY <1>3
  <2> HIDE DEF n
  <2>2. n.shown = Seen(store.mirror) /\ n.page = tabs[t].page /\ n \in PageRecord
    BY <1>4, <2>1 DEF n, PageRecord
  <2> QED
    BY <1>4, <2>2
<1> HIDE DEF n
<1>6. TypeOK'
  BY <1>2, <1>3, <1>5 DEF Inv, TypeOK, PageRecord
<1>7. PagesShow'
  BY <1>2, <1>3, <1>5 DEF Inv, PagesShow
<1> QED
  BY <1>1, <1>2, <1>6, <1>7 DEF Inv

\* The buttons that ask the server.
Asks(t) ==
    \/ \E r \in Rmas :
          \/ completeReceiptAndInspect(t, r)
          \/ submitShipping(t, r)
          \/ completeOrder(t, r)
    \/ submitApplication(t)
    \/ act(t)
    \/ saveDetection(t)
    \/ \E submit \in BOOLEAN : save(t, submit)

LEMMA AsksKeepsInv ==
    ASSUME Inv, NEW t \in Tabs, Asks(t)
    PROVE  Inv' /\ store' = store
<1>0. Rmas \subseteq OrderIds
  BY DEF OrderIds
<1>1. ASSUME NEW r \in Rmas, completeReceiptAndInspect(t, r)
      PROVE  Inv' /\ store' = store
  BY <1>0, <1>1, RequestIs, StatusWords, SendKeepsInv DEF completeReceiptAndInspect
<1>2. ASSUME NEW r \in Rmas, NEW status \in {"SHIPPED_PENDING_COMPLETION", "COMPLETED"},
             ShippingRequest(t, r, status)
      PROVE  Inv' /\ store' = store
  <2> DEFINE kind == IF tabs[t].shown.id = r THEN "shipping" ELSE "server"
  <2>1. Send(t, Request(t, kind, r, status))
    BY <1>2 DEF ShippingRequest
  <2>2. kind \in {"receive", "update", "shipping", "server"} /\ kind # "receive"
    OBVIOUS
  <2> HIDE DEF kind
  <2> QED
    BY <1>0, <2>1, <2>2, RequestIs, StatusWords, SendKeepsInv
<1>3. ASSUME tabs[t].page # "repair", NEW status \in REPAIR_STATUS,
             Send(t, Request(t, "update", tabs[t].shown.id, status))
      PROVE  Inv' /\ store' = store
  <2>1. tabs[t].shown.id \in OrderIds
    BY <1>3, ShownIs DEF Inv
  <2> QED
    BY <1>3, <2>1, RequestIs, SendKeepsInv
<1>4. CASE submitApplication(t)
  BY <1>3, <1>4, StatusWords DEF submitApplication
<1>5. CASE act(t)
  <2>1. /\ tabs[t].page # "repair" /\ tabs' = tabs
        /\ Call(Request(t, "update", tabs[t].shown.id, "REPAIRING"))
    BY <1>5 DEF act
  <2>2. tabs[t].shown.id \in OrderIds
    BY <2>1, ShownIs DEF Inv
  <2> QED
    BY <2>1, <2>2, StatusWords, RequestIs, CallKeepsInv
<1>6. CASE saveDetection(t)
  BY <1>3, <1>6, StatusWords DEF saveDetection
<1>7. ASSUME NEW submit \in BOOLEAN, save(t, submit)
      PROVE  Inv' /\ store' = store
  <2> DEFINE status == IF submit THEN "REPAIR_COMPLETED_PENDING_SHIPMENT"
                       ELSE tabs[t].shown.status
  <2>1. tabs[t].page # "repair" /\ Send(t, Request(t, "update", tabs[t].shown.id, status))
    BY <1>7 DEF save
  <2>2. status \in REPAIR_STATUS
    BY <2>1, ShownIs, StatusWords DEF Inv
  <2> HIDE DEF status
  <2> QED
    BY <1>3, <2>1, <2>2
<1> QED
  BY <1>1, <1>2, <1>4, <1>5, <1>6, <1>7 DEF Asks, submitShipping, completeOrder

(***************************************************************************)
(* The first read.                                                         *)
(***************************************************************************)

\* A list whose entries with one id are one order with its history.
Distinct(orders) ==
    /\ orders \in Seq(Order)
    /\ \A i, j \in DOMAIN orders : orders[i].id = orders[j].id => orders[i] = orders[j]
    /\ \A i \in DOMAIN orders : Told(orders[i])

\* Such a list and one of its orders make a good store.
LEMMA OpenedGood ==
    ASSUME NEW orders, Distinct(orders), NEW id, id \in IdsOf(orders),
           NEW o, o = FirstWithId(orders, id)
    PROVE  Good([orders |-> orders, current |-> o.id, mirror |-> o])
<1>1. PICK i \in DOMAIN orders : orders[i].id = id /\ o = orders[i]
  BY FirstHasId DEF Distinct
<1>2. o \in Order /\ o.id \in OrderIds
  BY <1>1, NormalOrder DEF Distinct
<1> QED
  BY <1>1, <1>2 DEF Good, Distinct, Told

\* The demonstration orders are such a list.
LEMMA DefaultsDistinct ==
    /\ Distinct(DEFAULT_ORDERS)
    /\ DemoOrders[1] \in IdsOf(DEFAULT_ORDERS)
    /\ 1 \in DOMAIN DEFAULT_ORDERS
<1>1. /\ DemoOrders \in Seq(Range(DemoOrders))
      /\ DemoOrders # <<>>
      /\ \A i, j \in DOMAIN DemoOrders : DemoOrders[i] = DemoOrders[j] => i = j
  BY BoundsAssumption
<1>2. DOMAIN DemoOrders = 1..Len(DemoOrders) /\ Len(DemoOrders) \in Nat /\ Len(DemoOrders) # 0
  BY <1>1
<1>3. \A i \in DOMAIN DemoOrders : DemoOrders[i] \in OrderIds
  BY <1>1, <1>2 DEF OrderIds
<1>4. \A i \in DOMAIN DemoOrders :
         /\ DEFAULT_ORDERS[i] \in Order
         /\ DEFAULT_ORDERS[i].id = DemoOrders[i]
         /\ Told(DEFAULT_ORDERS[i])
  BY <1>3 DEF DEFAULT_ORDERS, createDefaultOrder, Order, REPAIR_STATUS, Told
<1>5. DOMAIN DEFAULT_ORDERS = 1..Len(DemoOrders)
  BY <1>2 DEF DEFAULT_ORDERS
<1>6. DEFAULT_ORDERS \in Seq(Order)
  <2>1. DEFAULT_ORDERS \in [1..Len(DemoOrders) -> Order]
    BY <1>2, <1>4 DEF DEFAULT_ORDERS
  <2> QED
    BY <1>2, <2>1
<1>7. Distinct(DEFAULT_ORDERS)
  BY <1>1, <1>2, <1>4, <1>5, <1>6 DEF Distinct
<1>8. 1 \in DOMAIN DEFAULT_ORDERS
  BY <1>2, <1>5
<1> QED
  BY <1>2, <1>4, <1>5, <1>7, <1>8 DEF IdsOf

\* A fresh browser, and one with the order of the older client: its status
\* word is replaced, and kept in the history.
LEMMA OpensGood ==
    ASSUME NEW s \in InitialStores
    PROVE  Good(getCurrentRepairOrder(s))
<1> DEFINE i == initializeRepairOrders(s)
           o == FirstWithId(i.orders, i.current)
<1>1. SUFFICES /\ Distinct(i.orders)
               /\ i.current \in IdsOf(i.orders)
               /\ i = [orders |-> i.orders, current |-> i.current, mirror |-> i.mirror]
  <2>1. getCurrentRepairOrder(s) = [i EXCEPT !.current = o.id, !.mirror = o]
    BY <1>1 DEF getCurrentRepairOrder
  <2>2. getCurrentRepairOrder(s) = [orders |-> i.orders, current |-> o.id, mirror |-> o]
    BY <1>1, <2>1
  <2> HIDE DEF i
  <2> QED
    BY <1>1, <2>2, OpenedGood
<1>2. PICK m : /\ s = [orders |-> <<>>, current |-> "none", mirror |-> m]
               /\ \/ m = NoOrder
                  \/ m = [id |-> LegacyOrder, status |-> LegacyStatus,
                          history |-> NoHistory, completedAt |-> FALSE]
  BY DEF InitialStores
<1>0. s.orders = <<>> /\ s.current = "none" /\ s.mirror = m
  BY <1>2
<1>3. CASE s.mirror = NoOrder
  <2>1. i = [orders |-> DEFAULT_ORDERS, current |-> DemoOrders[1], mirror |-> s.mirror]
    <3>1. i = [s EXCEPT !.orders = DEFAULT_ORDERS, !.current = DemoOrders[1]]
      BY <1>0, <1>3 DEF initializeRepairOrders
    <3> QED
      BY <1>0, <1>2, <3>1
  <2> HIDE DEF i
  <2> QED
    BY <2>1, DefaultsDistinct
<1>4. CASE s.mirror # NoOrder
  <2> DEFINE old == [id |-> LegacyOrder, status |-> "WAIT_RECEIPT",
                     history |-> LegacyStatus, completedAt |-> FALSE]
             listed == IF LegacyOrder \in IdsOf(DEFAULT_ORDERS) THEN DEFAULT_ORDERS
                       ELSE Append(DEFAULT_ORDERS, old)
  <2>1. s.mirror = [id |-> LegacyOrder, status |-> LegacyStatus,
                    history |-> NoHistory, completedAt |-> FALSE]
    BY <1>0, <1>2, <1>4
  <2>2. normalizeOrder(s.mirror) = old
    <3>1. LegacyStatus \notin REPAIR_STATUS
      BY DEF REPAIR_STATUS, LegacyStatus
    <3> QED
      BY <2>1, <3>1 DEF normalizeOrder
  <2>3. i = [orders |-> listed, current |-> LegacyOrder, mirror |-> s.mirror]
    <3>1. i = [s EXCEPT !.orders = listed, !.current = LegacyOrder]
      BY <1>0, <1>4, <2>2 DEF initializeRepairOrders
    <3> QED
      BY <1>0, <1>2, <3>1
  <2>4. old \in Order /\ Told(old) /\ old.id = LegacyOrder
    BY DEF Order, OrderIds, REPAIR_STATUS, Told
  <2> HIDE DEF old
  <2>5. Distinct(listed) /\ LegacyOrder \in IdsOf(listed)
    <3>1. CASE LegacyOrder \in IdsOf(DEFAULT_ORDERS)
      BY <3>1, DefaultsDistinct
    <3>2. CASE LegacyOrder \notin IdsOf(DEFAULT_ORDERS)
      <4>1. /\ Append(DEFAULT_ORDERS, old) \in Seq(Order)
            /\ DOMAIN Append(DEFAULT_ORDERS, old)
                 = DOMAIN DEFAULT_ORDERS \cup {Len(DEFAULT_ORDERS) + 1}
            /\ Append(DEFAULT_ORDERS, old)[Len(DEFAULT_ORDERS) + 1] = old
            /\ \A j \in DOMAIN DEFAULT_ORDERS :
                  Append(DEFAULT_ORDERS, old)[j] = DEFAULT_ORDERS[j]
        BY <2>4, DefaultsDistinct DEF Distinct
      <4>2. \A j \in DOMAIN DEFAULT_ORDERS : DEFAULT_ORDERS[j].id # LegacyOrder
        BY <3>2 DEF IdsOf
      <4> QED
        BY <2>4, <3>2, <4>1, <4>2, DefaultsDistinct DEF Distinct, IdsOf
    <3> QED
      BY <3>1, <3>2
  <2> HIDE DEF i, listed
  <2> QED
    BY <2>3, <2>5
<1> QED
  BY <1>3, <1>4

\* The first states satisfy the invariant.
LEMMA InitInv ==
    Init => Inv
<1> SUFFICES ASSUME Init PROVE Inv
  OBVIOUS
<1>1. PICK s \in InitialStores :
         store = getCurrentRepairOrder(s) /\ tabs = [t \in Tabs |-> Mounted(s, "home")]
  BY DEF Init
<1>2. Good(store) /\ requests = [i \in Slots |-> Idle]
  BY <1>1, OpensGood DEF Init
<1>3. /\ Mounted(s, "home") = [page |-> "home", shown |-> Seen(store.mirror), busy |-> FALSE]
  BY <1>1 DEF Mounted, CurrentOrder
<1>4. /\ Seen(store.mirror) \in [id : OrderIds, status : REPAIR_STATUS]
      /\ Seen(store.mirror) # Nothing
  <2>1. store.mirror.id \in OrderIds /\ store.mirror.status \in REPAIR_STATUS
    BY <1>2, NormalOrder DEF Good
  <2>2. "none" \notin REPAIR_STATUS
    BY DEF REPAIR_STATUS
  <2> QED
    BY <2>1, <2>2 DEF Seen, Nothing
<1>5. Mounted(s, "home") \in PageRecord /\ Mounted(s, "home").shown # Nothing
  <2>1. "home" \in Pages /\ FALSE \in BOOLEAN
    BY DEF Pages
  <2>2. ASSUME NEW x, x \in [id : OrderIds, status : REPAIR_STATUS]
        PROVE  [page |-> "home", shown |-> x, busy |-> FALSE] \in PageRecord
    BY <2>1, <2>2 DEF PageRecord
  <2> QED
    BY <1>3, <1>4, <2>2
<1>6. TypeOK
  BY <1>1, <1>2, <1>5 DEF TypeOK, PageRecord, Good
<1>7. PagesShow
  BY <1>1, <1>2, <1>5 DEF PagesShow
<1> QED
  BY <1>2, <1>6, <1>7 DEF Inv

(***************************************************************************)
(* The steps, and what follows for every behaviour.                        *)
(***************************************************************************)

LEMMA NextKeepsInv ==
    ASSUME Inv, [Next]_vars
    PROVE  Inv' /\ KeepsOrReceives(store, store')
<1>1. CASE UNCHANGED vars
  <2>1. Inv' /\ store' = store
    BY <1>1 DEF vars, Inv, TypeOK, PagesShow, Good
  <2> QED
    BY <2>1, KeepsSelf, KeepsIsKept
<1>2. ASSUME NEW t \in Tabs, NEW page \in Pages, SetPage(t, page)
      PROVE  Inv' /\ KeepsOrReceives(store, store')
  BY <1>2, SetPageKeepsInv, KeepsSelf, KeepsIsKept
<1>3. ASSUME NEW t \in Tabs, Rendered(t)
      PROVE  Inv' /\ KeepsOrReceives(store, store')
  BY <1>3, RenderedKeepsInv, KeepsSelf, KeepsIsKept
<1>4. ASSUME NEW t \in Tabs, Asks(t)
      PROVE  Inv' /\ KeepsOrReceives(store, store')
  BY <1>4, AsksKeepsInv, KeepsSelf, KeepsIsKept
<1>5. ASSUME NEW t \in Tabs, finishRepair(t)
      PROVE  Inv' /\ KeepsOrReceives(store, store')
  BY <1>5, FinishKeepsInv, KeepsIsKept
<1>6. ASSUME NEW i \in Slots, Accepted(i)
      PROVE  Inv' /\ KeepsOrReceives(store, store')
  BY <1>6, AcceptedKeepsInv
<1>7. ASSUME NEW i \in Slots, Refused(i)
      PROVE  Inv' /\ KeepsOrReceives(store, store')
  BY <1>7, RefusedKeepsInv, KeepsSelf, KeepsIsKept
<1> QED
  BY <1>1, <1>2, <1>3, <1>4, <1>5, <1>6, <1>7 DEF Next, Asks

\* Whatever the tabs do and whenever the server answers, the store is good
\* and the pages that write to an order show one.
THEOREM Invariance == Spec => []Inv
<1>1. Init => Inv
  BY InitInv
<1>2. Inv /\ [Next]_vars => Inv'
  BY NextKeepsInv
<1> QED
  BY <1>1, <1>2, PTL DEF Spec

\* The three keys, the pages and the requests hold what the client writes.
THEOREM TypeCorrect == Spec => []TypeOK
<1>1. Inv => TypeOK
  BY DEF Inv
<1> QED
  BY <1>1, Invariance, PTL

\* The copy under the older client's key is the current order of the list,
\* so the migration that runs before every read never brings back another.
THEOREM MirrorFollows == Spec => []MirrorIsCurrent
<1>1. Inv => MirrorIsCurrent
  BY DEF Inv, Good, MirrorIsCurrent
<1> QED
  BY <1>1, Invariance, PTL

\* The entries that receipts of one RMA leave stay equal for any number of
\* receipts, so the first one found is the order.
THEOREM CopiesStayEqual == Spec => []CopiesAgree
<1>1. Inv => CopiesAgree
  BY DEF Inv, Good, CopiesAgree
<1> QED
  BY <1>1, Invariance, PTL

\* The history of an order ends with its status on every path.
THEOREM HistoryFollows == Spec => []HistoryEndsWithStatus
<1>1. Inv => HistoryEndsWithStatus
  BY DEF Inv, Good, HistoryEndsWithStatus
<1> QED
  BY <1>1, Invariance, PTL

\* No step drops an order, or the completion of one that is not received again.
THEOREM NothingForgotten == Spec => NothingIsForgotten
<1>1. Inv /\ [Next]_vars =>
        [ \A i \in DOMAIN store.orders :
            \E j \in DOMAIN store'.orders :
               /\ store'.orders[j].id = store.orders[i].id
               /\ \/ store.orders[i].completedAt => store'.orders[j].completedAt
                  \/ store'.orders[j].status = "WAIT_INSPECTION" ]_vars
  BY NextKeepsInv DEF KeepsOrReceives
<1> QED
  BY <1>1, Invariance, PTL DEF Spec, NothingIsForgotten
=============================================================================
