------------------------------ MODULE WorkOrders ------------------------------
(***************************************************************************)
(* The local work orders of FieldDesk: the records that                    *)
(* database/receipt-preparation-store.js keeps, one per RMA, and the HTTP  *)
(* handlers of server.js that change them.                                 *)
(*                                                                         *)
(* Every mutator of the store is queued and rewrites the whole document,   *)
(* so it is one step here.  A handler that reads an order, awaits          *)
(* something else and only then calls a mutator is two steps: what it read *)
(* waits in authorizing, uploading or completing, and steps of the other   *)
(* handlers come in between.                                               *)
(***************************************************************************)
EXTENDS Naturals, FiniteSets

CONSTANTS
  Rma,        \* repair orders, known by their RMA number
  Sn,         \* serial numbers of machines
  Photo,      \* receipt photographs
  Part,       \* spare parts of the catalogue
  MaxQty,     \* bound on the quantity of a part on one order
  MaxCalls    \* bound on the handlers that wait between two steps

ASSUME WorkOrderAssumption ==
  /\ MaxQty \in Nat
  /\ MaxCalls \in Nat

VARIABLES
  orders,       \* the document of the store
  authorizing,  \* prepare-receipt handlers that await the Feishu catalogue
  uploading,    \* receipt-photo handlers that await the file being stored
  completing    \* repair-completion handlers between their read and their save

vars == <<orders, authorizing, uploading, completing>>

-----------------------------------------------------------------------------
(* Statuses. "ABSENT" stands for an RMA that has no record.                *)

ReceiptStatuses ==
  {"RECEIPT_PREPARED", "TRANSFER_TO_HEADQUARTERS_PENDING",
   "MODEL_AUTHORIZATION_REVIEW"}

BenchStatuses ==
  {"RECEIVED_PENDING_INSPECTION", "INSPECTION_IN_PROGRESS",
   "INSPECTION_COMPLETED_PENDING_REPAIR", "REPAIR_COMPLETION_DRAFT"}

FinishedStatuses ==
  {"REPAIR_COMPLETED_PENDING_SHIPMENT", "SHIPPED_PENDING_COMPLETION",
   "COMPLETED"}

LeftStatuses == {"RECEIPT_PREPARATION_CANCELLED", "TRANSFERRED_TO_HEADQUARTERS"}

StatusSet ==
  {"ABSENT"} \cup ReceiptStatuses \cup BenchStatuses \cup FinishedStatuses
             \cup LeftStatuses

ActiveReceiptStatuses ==
  {"RECEIPT_PREPARED", "TRANSFER_TO_HEADQUARTERS_PENDING"} \cup BenchStatuses

InspectableStatuses ==
  {"RECEIVED_PENDING_INSPECTION", "INSPECTION_IN_PROGRESS",
   "INSPECTION_COMPLETED_PENDING_REPAIR"}

PartSelectionStatuses ==
  {"RECEIVED_PENDING_INSPECTION", "INSPECTION_COMPLETED_PENDING_REPAIR"}

PartUpdateStatuses == PartSelectionStatuses \cup {"REPAIR_COMPLETION_DRAFT"}

CompletableOnceShipped == PartUpdateStatuses \cup FinishedStatuses

CompletableStatuses ==
  {"INSPECTION_COMPLETED_PENDING_REPAIR", "REPAIR_COMPLETION_DRAFT"}

-----------------------------------------------------------------------------
(* Records.                                                                *)

NoSn == "NO_SN"

Authorizations == {"NONE", "SUPPORTED", "UNSUPPORTED", "REVIEW"}

Warranties == {"NONE", "IN_WARRANTY", "OUT_OF_WARRANTY"}

Events ==
  {"CRM_QUERIED", "RECEIPT_PREPARED", "MODEL_SUPPORTED", "TRANSFER_REQUIRED",
   "MODEL_REVIEW_REQUIRED", "TRANSFERRED_TO_HEADQUARTERS",
   "RECEIPT_ATTACHMENT_UPLOADED", "RECEIPT_COMPLETED", "INSPECTION_COMPLETED",
   "PART_APPLICATION", "PART_APPLICATION_UPDATED", "REPAIR_COMPLETED",
   "RETURN_SHIPPED", "ORDER_COMPLETED"}

PartList == [Part -> 0..MaxQty]

NoParts == [p \in Part |-> 0]

Completion ==
  [state: {"NONE", "DRAFT", "SUBMITTED"}, parts: PartList, warranty: Warranties]

NoCompletion == [state |-> "NONE", parts |-> NoParts, warranty |-> "NONE"]

Order ==
  [status: StatusSet, sn: Sn \cup {NoSn}, auth: Authorizations,
   authSn: Sn \cup {NoSn}, photos: SUBSET Photo, received: BOOLEAN,
   warranty: Warranties, parts: PartList, completion: Completion,
   shipped: BOOLEAN, closed: BOOLEAN, timeline: SUBSET Events]

NoOrder ==
  [status |-> "ABSENT", sn |-> NoSn, auth |-> "NONE", authSn |-> NoSn,
   photos |-> {}, received |-> FALSE, warranty |-> "NONE", parts |-> NoParts,
   completion |-> NoCompletion, shipped |-> FALSE, closed |-> FALSE,
   timeline |-> {}]

AuthorizeCall == [rma: Rma, sn: Sn]

UploadCall == [rma: Rma, photo: Photo]

CompleteCall ==
  [rma: Rma, parts: PartList, warranty: Warranties \ {"NONE"}, submit: BOOLEAN]

\* A handler may only start to wait while fewer than MaxCalls do.
RoomForCall ==
  Cardinality(authorizing) + Cardinality(uploading) + Cardinality(completing)
    < MaxCalls

Exists(r) == orders[r].status # "ABSENT"

\* The store rewrites the document with o as the record of r.
Write(r, o) == orders' = [orders EXCEPT ![r] = o]

-----------------------------------------------------------------------------
(* POST /api/repairs/prepare-receipt, first step.  The record is built     *)
(* afresh: an existing one hands over its photographs and its timeline and *)
(* nothing else that this module keeps, whatever its status was.           *)

PreparationKeepingStatus(existing, s) ==
  [NoOrder EXCEPT
     !.status   = IF existing.status = "ABSENT" THEN "RECEIPT_PREPARED"
                                                ELSE existing.status,
     !.sn       = s,
     !.photos   = existing.photos,
     !.timeline = existing.timeline]

PreparationDroppingPhotos(existing, s) ==
  [NoOrder EXCEPT !.status = "RECEIPT_PREPARED", !.sn = s,
                  !.timeline = existing.timeline]

CreateReceiptPreparation(existing, s) ==
  [NoOrder EXCEPT
     !.status   = "RECEIPT_PREPARED",
     !.sn       = s,
     !.photos   = existing.photos,
     !.timeline = IF existing.status = "ABSENT"
                    THEN {"CRM_QUERIED", "RECEIPT_PREPARED"}
                    ELSE existing.timeline]

SnConflict(r, s) ==
  \E other \in Rma \ {r} :
    /\ orders[other].sn = s
    /\ orders[other].status \in ActiveReceiptStatuses

Prepare(r, s) ==
  /\ RoomForCall
  /\ ~SnConflict(r, s)
  /\ Write(r, CreateReceiptPreparation(orders[r], s))
  /\ authorizing' = authorizing \cup {[rma |-> r, sn |-> s]}
  /\ UNCHANGED <<uploading, completing>>

\* The catalogue has answered a for the SN of the call.
AuthorizedStatus(a) ==
  IF a = "SUPPORTED" THEN "RECEIPT_PREPARED"
  ELSE IF a = "UNSUPPORTED" THEN "TRANSFER_TO_HEADQUARTERS_PENDING"
  ELSE "MODEL_AUTHORIZATION_REVIEW"

AuthorizedEvent(a) ==
  IF a = "SUPPORTED" THEN "MODEL_SUPPORTED"
  ELSE IF a = "UNSUPPORTED" THEN "TRANSFER_REQUIRED"
  ELSE "MODEL_REVIEW_REQUIRED"

AuthorizedKeepingBench(order, s, a) ==
  [order EXCEPT !.status = IF @ \in BenchStatuses THEN @ ELSE AuthorizedStatus(a),
                !.auth = a, !.authSn = s]

Authorized(order, s, a) ==
  [order EXCEPT !.status   = AuthorizedStatus(a),
                !.auth     = a,
                !.authSn   = s,
                !.timeline = @ \cup {AuthorizedEvent(a)}]

MarkModelAuthorization(call, a) ==
  /\ call \in authorizing
  /\ authorizing' = authorizing \ {call}
  /\ Write(call.rma, Authorized(orders[call.rma], call.sn, a))
  /\ UNCHANGED <<uploading, completing>>

\* The catalogue failed: the handler answers with the error and the order
\* stays prepared.
AuthorizationFails(call) ==
  /\ call \in authorizing
  /\ authorizing' = authorizing \ {call}
  /\ UNCHANGED <<orders, uploading, completing>>

-----------------------------------------------------------------------------
(* The other receipt operations.                                           *)

Cancelled(order) == [order EXCEPT !.status = "RECEIPT_PREPARATION_CANCELLED"]

Cancel(r) ==
  /\ Exists(r)
  /\ Write(r, Cancelled(orders[r]))
  /\ UNCHANGED <<authorizing, uploading, completing>>

Transferred(order) ==
  [order EXCEPT !.status   = "TRANSFERRED_TO_HEADQUARTERS",
                !.timeline = @ \cup {"TRANSFERRED_TO_HEADQUARTERS"}]

TransferToHeadquarters(r) ==
  /\ Exists(r)
  /\ orders[r].auth = "UNSUPPORTED"
  /\ Write(r, Transferred(orders[r]))
  /\ UNCHANGED <<authorizing, uploading, completing>>

Received(order) ==
  [order EXCEPT !.status   = "RECEIVED_PENDING_INSPECTION",
                !.received = TRUE,
                !.timeline = @ \cup {"RECEIPT_COMPLETED"}]

\* The status is not looked at: only the authorization and the photographs.
CompleteReceipt(r) ==
  /\ Exists(r)
  /\ orders[r].auth = "SUPPORTED"
  /\ orders[r].photos # {}
  /\ Write(r, Received(orders[r]))
  /\ UNCHANGED <<authorizing, uploading, completing>>

StartReceiptUpload(r, photo) ==
  /\ RoomForCall
  /\ orders[r].status = "RECEIPT_PREPARED"
  /\ uploading' = uploading \cup {[rma |-> r, photo |-> photo]}
  /\ UNCHANGED <<orders, authorizing, completing>>

WithPhoto(order, photo) ==
  [order EXCEPT !.photos   = @ \cup {photo},
                !.timeline = @ \cup {"RECEIPT_ATTACHMENT_UPLOADED"}]

\* The file is stored by now; the record takes it only if the order is still
\* prepared.
AddReceiptAttachment(call) ==
  /\ call \in uploading
  /\ uploading' = uploading \ {call}
  /\ IF orders[call.rma].status = "RECEIPT_PREPARED"
       THEN Write(call.rma, WithPhoto(orders[call.rma], call.photo))
       ELSE UNCHANGED orders
  /\ UNCHANGED <<authorizing, completing>>

-----------------------------------------------------------------------------
(* Inspection and parts.  The warranty rules of the inspection handler     *)
(* decide whether it reaches the store at all, and with which w.           *)

Inspected(order, w) ==
  [order EXCEPT !.status   = "INSPECTION_COMPLETED_PENDING_REPAIR",
                !.warranty = w,
                !.timeline = @ \cup {"INSPECTION_COMPLETED"}]

SaveInspection(r, w) ==
  /\ orders[r].status \in InspectableStatuses
  /\ Write(r, Inspected(orders[r], w))
  /\ UNCHANGED <<authorizing, uploading, completing>>

WithPart(order, p, q, event) ==
  [order EXCEPT !.parts    = [@ EXCEPT ![p] = q],
                !.timeline = @ \cup {event}]

ApplyPart(r, p, q) ==
  /\ orders[r].status \in PartSelectionStatuses
  /\ orders[r].parts[p] + q <= MaxQty
  /\ Write(r, WithPart(orders[r], p, orders[r].parts[p] + q, "PART_APPLICATION"))
  /\ UNCHANGED <<authorizing, uploading, completing>>

\* q = 0 removes the application; any other q replaces its quantity.
UpdatePartApplication(r, p, q) ==
  /\ orders[r].status \in PartUpdateStatuses
  /\ orders[r].parts[p] > 0
  /\ Write(r, WithPart(orders[r], p, q, "PART_APPLICATION_UPDATED"))
  /\ UNCHANGED <<authorizing, uploading, completing>>

-----------------------------------------------------------------------------
(* Repair completion.  The handler computes the used parts and the charge  *)
(* from the order it read; the store checks only the status again.         *)

StartRepairCompletion(r, submit) ==
  /\ RoomForCall
  /\ Exists(r)
  /\ orders[r].warranty # "NONE"
  /\ completing' = completing \cup
       {[rma |-> r, parts |-> orders[r].parts,
         warranty |-> orders[r].warranty, submit |-> submit]}
  /\ UNCHANGED <<orders, authorizing, uploading>>

CompletedOrder(order, call) ==
  [order EXCEPT
     !.status     = IF call.submit THEN "REPAIR_COMPLETED_PENDING_SHIPMENT"
                                   ELSE "REPAIR_COMPLETION_DRAFT",
     !.completion = [state    |-> IF call.submit THEN "SUBMITTED" ELSE "DRAFT",
                     parts    |-> call.parts,
                     warranty |-> call.warranty],
     !.timeline   = IF call.submit THEN @ \cup {"REPAIR_COMPLETED"} ELSE @]

SaveRepairCompletion(call) ==
  /\ call \in completing
  /\ completing' = completing \ {call}
  /\ IF orders[call.rma].status \in CompletableStatuses
       THEN Write(call.rma, CompletedOrder(orders[call.rma], call))
       ELSE UNCHANGED orders
  /\ UNCHANGED <<authorizing, uploading>>

\* A required field is missing, a fee is invalid or the price needs review:
\* the handler ends without a save.
RepairCompletionRejected(call) ==
  /\ call \in completing
  /\ completing' = completing \ {call}
  /\ UNCHANGED <<orders, authorizing, uploading>>

-----------------------------------------------------------------------------
(* Return shipment and the administrator's confirmation.                   *)

Shipped(order) ==
  [order EXCEPT !.status   = "SHIPPED_PENDING_COMPLETION",
                !.shipped  = TRUE,
                !.timeline = @ \cup {"RETURN_SHIPPED"}]

SubmitReturnShipment(r) ==
  /\ orders[r].status = "REPAIR_COMPLETED_PENDING_SHIPMENT"
  /\ Write(r, Shipped(orders[r]))
  /\ UNCHANGED <<authorizing, uploading, completing>>

Closed(order) ==
  [order EXCEPT !.status   = "COMPLETED",
                !.closed   = TRUE,
                !.timeline = @ \cup {"ORDER_COMPLETED"}]

ConfirmCompletion(r) ==
  /\ orders[r].status = "SHIPPED_PENDING_COMPLETION"
  /\ Write(r, Closed(orders[r]))
  /\ UNCHANGED <<authorizing, uploading, completing>>

-----------------------------------------------------------------------------

Init ==
  /\ orders = [r \in Rma |-> NoOrder]
  /\ authorizing = {}
  /\ uploading = {}
  /\ completing = {}

ReceiptStep ==
  \/ \E r \in Rma, s \in Sn : Prepare(r, s)
  \/ \E call \in authorizing, a \in Authorizations \ {"NONE"} :
       MarkModelAuthorization(call, a)
  \/ \E call \in authorizing : AuthorizationFails(call)
  \/ \E r \in Rma : Cancel(r) \/ TransferToHeadquarters(r) \/ CompleteReceipt(r)
  \/ \E r \in Rma, photo \in Photo : StartReceiptUpload(r, photo)
  \/ \E call \in uploading : AddReceiptAttachment(call)

BenchStep ==
  \/ \E r \in Rma, w \in Warranties \ {"NONE"} : SaveInspection(r, w)
  \/ \E r \in Rma, p \in Part :
       \/ \E q \in 1..MaxQty : ApplyPart(r, p, q)
       \/ \E q \in 0..MaxQty : UpdatePartApplication(r, p, q)
  \/ \E r \in Rma, submit \in BOOLEAN : StartRepairCompletion(r, submit)
  \/ \E call \in completing :
       SaveRepairCompletion(call) \/ RepairCompletionRejected(call)

ShippingStep == \E r \in Rma : SubmitReturnShipment(r) \/ ConfirmCompletion(r)

Next == ReceiptStep \/ BenchStep \/ ShippingStep

Spec == Init /\ [][Next]_vars

-----------------------------------------------------------------------------
(* Properties.                                                             *)

\* The document and the waiting handlers have the shape the code gives them.
TypeOK ==
  /\ orders \in [Rma -> Order]
  /\ authorizing \in SUBSET AuthorizeCall
  /\ uploading \in SUBSET UploadCall
  /\ completing \in SUBSET CompleteCall

\* An order on the bench or beyond was received with a supported model and at
\* least one photograph, however late a catalogue answer, a cancellation or a
\* second preparation of the same RMA came in.
BenchNeedsReceipt ==
  \A r \in Rma : orders[r].status \in BenchStatuses \cup FinishedStatuses =>
    /\ orders[r].auth = "SUPPORTED"
    /\ orders[r].photos # {}
    /\ orders[r].received
    /\ "RECEIPT_COMPLETED" \in orders[r].timeline

\* An order that waits for shipment, is shipped or is closed has a submitted
\* completion charged under a warranty decision, and each later stage has the
\* record of the one before it.
FinishNeedsEvidence ==
  \A r \in Rma : LET o == orders[r] IN
    /\ o.status \in FinishedStatuses =>
         /\ o.completion.state = "SUBMITTED"
         /\ o.completion.warranty # "NONE"
         /\ {"INSPECTION_COMPLETED", "REPAIR_COMPLETED"} \subseteq o.timeline
    /\ o.status \in {"SHIPPED_PENDING_COMPLETION", "COMPLETED"} => o.shipped
    /\ o.status = "COMPLETED" => o.closed

\* A machine goes to headquarters only on an answer that does not support it,
\* and an order parked there is never also counted as supported.
HeadquartersOnlyUnsupported ==
  \A r \in Rma :
    orders[r].status \in {"TRANSFER_TO_HEADQUARTERS_PENDING",
                          "TRANSFERRED_TO_HEADQUARTERS"}
      => orders[r].auth = "UNSUPPORTED"

\* No step, not even a second preparation of the same RMA, loses a receipt
\* photograph or an entry of the timeline.
EvidenceIsAppendOnly ==
  [][\A r \in Rma :
       /\ orders[r].photos \subseteq orders'[r].photos
       /\ orders[r].timeline \subseteq orders'[r].timeline]_vars

\* What was submitted stays as submitted: while an order stays finished, no
\* completion, inspection or parts handler that read it earlier rewrites its
\* parts, its warranty or its completion.
SubmissionIsFrozen ==
  [][\A r \in Rma :
       /\ orders[r].status \in FinishedStatuses
       /\ orders'[r].status \in FinishedStatuses
       => /\ orders'[r].completion = orders[r].completion
          /\ orders'[r].parts = orders[r].parts
          /\ orders'[r].warranty = orders[r].warranty]_vars

\* docs/DATA_MODEL.md:268: one SN is bound to one order in progress at a time.
SnBoundOnce ==
  \A r1, r2 \in Rma :
    /\ orders[r1].status \in ActiveReceiptStatuses
    /\ orders[r2].status \in ActiveReceiptStatuses
    /\ orders[r1].sn = orders[r2].sn
    => r1 = r2

\* test/receipt-preparation.test.js:174: a model that is not supported cannot
\* enter inspection, so a received machine was authorized under its own SN.
\* The code does not keep this (README).
InspectedSnWasAuthorized ==
  \A r \in Rma :
    orders[r].status \in BenchStatuses => orders[r].authSn = orders[r].sn

\* docs/WORK_ORDER_STATES.md:144: the completion check covers the consistency
\* of the used parts, so a submitted completion lists the parts of its order.
\* The code does not keep this (README).
SubmittedPartsAreTheOrders ==
  \A r \in Rma :
    orders[r].status \in FinishedStatuses
      => orders[r].completion.parts = orders[r].parts
=============================================================================
