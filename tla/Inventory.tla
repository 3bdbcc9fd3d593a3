------------------------------ MODULE Inventory ------------------------------
(***************************************************************************)
(* The spare parts of FieldDesk (database/inventory-store.js) and the      *)
(* handlers of server.js that move them.                                   *)
(*                                                                         *)
(* A mutator of the store is queued and rewrites the document, so it is    *)
(* one step; when it throws, or the write fails, the document stays as it  *)
(* was.  The handlers first read the SN of the order and then queue the    *)
(* mutator, so they are two steps.                                         *)
(***************************************************************************)
EXTENDS Naturals, Sequences, FiniteSets

CONSTANTS
  Part,          \* codes of the parts in stock
  Tech,          \* technicians
  Rma,           \* repair orders
  Sn,            \* serial numbers of machines
  InitialStock,  \* what the warehouse starts with
  MaxQty,        \* bound on the quantity of one operation
  Slot,          \* slots for the handlers that wait for the store
  MaxReturns     \* bound on the return requests

ASSUME InventoryAssumption ==
  /\ InitialStock \in [Part -> Nat]
  /\ MaxQty \in Nat
  /\ MaxReturns \in Nat

VARIABLES
  totalStock,       \* what the warehouse has
  technicianStock,  \* what each technician has
  returnRequests,   \* the requests, in the order of their creation
  transactions,     \* the ledger: what its entries add up to
  orderSn,          \* external: the SN of each order in the order store
  calls             \* handlers that have read their order's SN

vars ==
  <<totalStock, technicianStock, returnRequests, transactions, orderSn, calls>>

-----------------------------------------------------------------------------

TransactionType ==
  {"PART_APPLIED", "PART_USED", "RETURN_REQUESTED", "RETURN_CONFIRMED"}

\* What a ledger entry is bound to.
Context == [rma: Rma, sn: Sn]

Entry == [type: TransactionType, context: Context, part: Part, tech: Tech]

ReturnRequest ==
  [status: {"PENDING_WAREHOUSE_CONFIRMATION", "RETURN_CONFIRMED"},
   context: Context, part: Part, quantity: 1..MaxQty, tech: Tech]

Call ==
  [op: {"USE", "RETURN"}, context: Context, part: Part, quantity: 1..MaxQty,
   tech: Tech]

NoCall == [op |-> "NONE"]

TransactionOnceConfirmed(type, c, p, n, t) ==
  transactions' =
    IF type = "RETURN_REQUESTED" THEN transactions
    ELSE [transactions EXCEPT
           ![[type |-> type, context |-> c, part |-> p, tech |-> t]] = @ + n]

Transaction(type, c, p, n, t) ==
  transactions' = [transactions EXCEPT
    ![[type |-> type, context |-> c, part |-> p, tech |-> t]] = @ + n]

FinishCall(i) == calls' = [calls EXCEPT ![i] = NoCall]

GiveTo(t, p, n) == technicianStock' = [technicianStock EXCEPT ![t][p] = @ + n]

TakeFromUnchecked(t, p, n) ==
  technicianStock' = [technicianStock EXCEPT ![t][p] = @ - n]

TakeFrom(t, p, n) ==
  /\ technicianStock[t][p] >= n
  /\ technicianStock' = [technicianStock EXCEPT ![t][p] = @ - n]

-----------------------------------------------------------------------------
(* The store.                                                              *)

Apply(c, p, n, t) ==
  /\ totalStock[p] >= n
  /\ totalStock' = [totalStock EXCEPT ![p] = @ - n]
  /\ GiveTo(t, p, n)
  /\ Transaction("PART_APPLIED", c, p, n, t)
  /\ UNCHANGED <<returnRequests, orderSn, calls>>

Use(i) ==
  LET call == calls[i] IN
    /\ call.op = "USE"
    /\ FinishCall(i)
    /\ TakeFrom(call.tech, call.part, call.quantity)
    /\ Transaction("PART_USED", call.context, call.part, call.quantity, call.tech)
    /\ UNCHANGED <<totalStock, returnRequests, orderSn>>

RequestReturn(i) ==
  LET call == calls[i] IN
    /\ call.op = "RETURN"
    /\ FinishCall(i)
    /\ Len(returnRequests) < MaxReturns
    /\ TakeFrom(call.tech, call.part, call.quantity)
    /\ returnRequests' = Append(returnRequests,
         [status |-> "PENDING_WAREHOUSE_CONFIRMATION", context |-> call.context,
          part |-> call.part, quantity |-> call.quantity, tech |-> call.tech])
    /\ Transaction("RETURN_REQUESTED", call.context, call.part, call.quantity,
                   call.tech)
    /\ UNCHANGED <<totalStock, orderSn>>

\* The store throws, or the document cannot be written.
CallFails(i) ==
  /\ calls[i] # NoCall
  /\ FinishCall(i)
  /\ UNCHANGED <<totalStock, technicianStock, returnRequests, transactions, orderSn>>

ConfirmableAlways == {"PENDING_WAREHOUSE_CONFIRMATION", "RETURN_CONFIRMED"}

Confirmable == {"PENDING_WAREHOUSE_CONFIRMATION"}

\* Two clerks may confirm the same request; the entry names its technician.
ConfirmReturn(i) ==
  /\ returnRequests[i].status \in Confirmable
  /\ LET request == returnRequests[i] IN
       /\ totalStock' = [totalStock EXCEPT ![request.part] = @ + request.quantity]
       /\ Transaction("RETURN_CONFIRMED", request.context, request.part,
                      request.quantity, request.tech)
  /\ returnRequests' = [returnRequests EXCEPT ![i].status = "RETURN_CONFIRMED"]
  /\ UNCHANGED <<technicianStock, orderSn, calls>>

-----------------------------------------------------------------------------
(* The handlers.                                                           *)

\* inventoryContext: the SN the order has when the request comes in.
InventoryContext(i, op, r, p, n, t) ==
  /\ calls[i] = NoCall
  /\ calls' = [calls EXCEPT ![i] =
       [op |-> op, context |-> [rma |-> r, sn |-> orderSn[r]], part |-> p,
        quantity |-> n, tech |-> t]]
  /\ UNCHANGED <<totalStock, technicianStock, returnRequests, transactions, orderSn>>

\* External: the order is prepared again, for another machine.
PrepareAgain(r, s) ==
  /\ orderSn[r] # s
  /\ orderSn' = [orderSn EXCEPT ![r] = s]
  /\ UNCHANGED <<totalStock, technicianStock, returnRequests, transactions, calls>>

-----------------------------------------------------------------------------

Init ==
  /\ totalStock = InitialStock
  /\ technicianStock = [t \in Tech |-> [p \in Part |-> 0]]
  /\ returnRequests = <<>>
  /\ transactions = [e \in Entry |-> 0]
  /\ orderSn \in [Rma -> Sn]
  /\ calls = [i \in Slot |-> NoCall]

Next ==
  \/ \E p \in Part, n \in 1..MaxQty, t \in Tech, r \in Rma :
       \/ Apply([rma |-> r, sn |-> orderSn[r]], p, n, t)
       \/ \E i \in Slot, op \in {"USE", "RETURN"} :
            InventoryContext(i, op, r, p, n, t)
  \/ \E i \in Slot : Use(i) \/ RequestReturn(i) \/ CallFails(i)
  \/ \E i \in DOMAIN returnRequests : ConfirmReturn(i)
  \/ \E r \in Rma, s \in Sn : PrepareAgain(r, s)

Spec == Init /\ [][Next]_vars

-----------------------------------------------------------------------------
(* Properties.                                                             *)

\* The document has the shape the code gives it; no stock is ever negative,
\* although the handlers of two technicians or two clicks of one interleave.
TypeOK ==
  /\ totalStock \in [Part -> Nat]
  /\ technicianStock \in [Tech -> [Part -> Nat]]
  /\ returnRequests \in Seq(ReturnRequest)
  /\ transactions \in [Entry -> Nat]
  /\ orderSn \in [Rma -> Sn]
  /\ calls \in [Slot -> Call \cup {NoCall}]

\* What a function of quantities counts, piece by piece, and how much that is.
Units(f) == UNION {{<<x, k>> : k \in 1..f[x]} : x \in DOMAIN f}

Total(f) == Cardinality(Units(f))

\* What the technicians have of a part.
StockOf(p) == [t \in Tech |-> technicianStock[t][p]]

Held(p) == Total(StockOf(p))

\* What waits for the warehouse, returned by some of them.
Awaits(i, p, techs) ==
  /\ returnRequests[i].part = p
  /\ returnRequests[i].tech \in techs
  /\ returnRequests[i].status = "PENDING_WAREHOUSE_CONFIRMATION"

Awaited(p, techs) ==
  [i \in DOMAIN returnRequests |->
     IF Awaits(i, p, techs) THEN returnRequests[i].quantity ELSE 0]

Pending(p, techs) == Total(Awaited(p, techs))

\* What the ledger adds up to for a type, a part and some technicians.
Entries(type, p, techs) ==
  [m \in Context \X techs |->
     transactions[[type |-> type, context |-> m[1], part |-> p, tech |-> m[2]]]]

Moved(type, p, techs) == Total(Entries(type, p, techs))

\* Parts are neither made nor lost: what the warehouse, the technicians and the
\* return requests under way have, with what was used, is what there was.
StockIsConserved ==
  \A p \in Part :
    totalStock[p] + Held(p) + Pending(p, Tech) + Moved("PART_USED", p, Tech)
      = InitialStock[p]

\* The ledger explains the stock: replaying it gives what the warehouse and
\* each technician have, although the entry of a confirmation is written by a
\* clerk for a technician.
LedgerExplainsStock ==
  \A p \in Part :
    /\ totalStock[p] + Moved("PART_APPLIED", p, Tech)
         = InitialStock[p] + Moved("RETURN_CONFIRMED", p, Tech)
    /\ \A t \in Tech :
         /\ technicianStock[t][p] + Moved("PART_USED", p, {t})
              + Moved("RETURN_REQUESTED", p, {t}) = Moved("PART_APPLIED", p, {t})
         /\ Moved("RETURN_CONFIRMED", p, {t}) <= Moved("RETURN_REQUESTED", p, {t})
=============================================================================
