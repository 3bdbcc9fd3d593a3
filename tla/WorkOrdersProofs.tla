-------------------------- MODULE WorkOrdersProofs --------------------------
(***************************************************************************)
(* Proofs about WorkOrders, for every set of RMAs, serial numbers,         *)
(* photographs and parts and for every bound.                              *)
(*                                                                         *)
(* No handler writes more than one order, so the invariant is a predicate  *)
(* of one order: a lemma per mutator of the store shows that the order it  *)
(* writes satisfies it, and LiftOrder carries that to the document.        *)
(***************************************************************************)
EXTENDS WorkOrders, TLAPS

\* What every record of the store satisfies.  The conjunct on CompletableStatuses
\* makes the others inductive: a submitted completion inherits the inspection
\* entry of the timeline from the order it is saved on.
OrderOK(o) ==
  /\ o \in Order
  /\ o.status \in BenchStatuses \cup FinishedStatuses =>
       /\ o.auth = "SUPPORTED"
       /\ o.photos # {}
       /\ o.received
       /\ "RECEIPT_COMPLETED" \in o.timeline
  /\ o.status \in FinishedStatuses =>
       /\ o.completion.state = "SUBMITTED"
       /\ o.completion.warranty # "NONE"
       /\ {"INSPECTION_COMPLETED", "REPAIR_COMPLETED"} \subseteq o.timeline
  /\ o.status \in {"SHIPPED_PENDING_COMPLETION", "COMPLETED"} => o.shipped
  /\ o.status = "COMPLETED" => o.closed
  /\ o.status \in {"TRANSFER_TO_HEADQUARTERS_PENDING",
                   "TRANSFERRED_TO_HEADQUARTERS"} => o.auth = "UNSUPPORTED"
  /\ o.status \in CompletableStatuses => "INSPECTION_COMPLETED" \in o.timeline
  /\ o.status = "ABSENT" => o.timeline = {}

\* What every write of the store does to the order it writes: it keeps the
\* predicate, loses no evidence and leaves a finished order's submission alone.
GoodWrite(o, n) ==
  /\ OrderOK(n)
  /\ o.photos \subseteq n.photos
  /\ o.timeline \subseteq n.timeline
  /\ o.status \in FinishedStatuses /\ n.status \in FinishedStatuses =>
       /\ n.completion = o.completion
       /\ n.parts = o.parts
       /\ n.warranty = o.warranty

CallsOK ==
  /\ authorizing \in SUBSET AuthorizeCall
  /\ uploading \in SUBSET UploadCall
  /\ completing \in SUBSET CompleteCall

\* The inductive invariant.
IInv ==
  /\ orders \in [Rma -> Order]
  /\ \A r \in Rma : OrderOK(orders[r])
  /\ CallsOK

-----------------------------------------------------------------------------
(* What the mutators of the store write.                                   *)

\* An empty list of parts is a list of parts.
LEMMA NoPartsTyped == NoParts \in PartList
BY WorkOrderAssumption DEF NoParts, PartList

\* An RMA without a record satisfies the predicate.
LEMMA NoOrderOK == OrderOK(NoOrder)
<1>1. NoOrder \in Order
  BY NoPartsTyped DEF NoOrder, Order, NoCompletion, Completion, StatusSet,
     Authorizations, Warranties
<1>. QED
  BY <1>1 DEF OrderOK, NoOrder, BenchStatuses, FinishedStatuses, CompletableStatuses

\* A preparation starts the record over and keeps photographs and timeline.
LEMMA PreparationOK ==
  ASSUME NEW o, OrderOK(o), NEW s \in Sn
  PROVE  GoodWrite(o, CreateReceiptPreparation(o, s))
<1>1. NoOrder \in Order
  BY NoOrderOK DEF OrderOK
<1>2. CreateReceiptPreparation(o, s) \in Order
  BY <1>1 DEF OrderOK, Order, StatusSet, ReceiptStatuses, Events,
     CreateReceiptPreparation
<1>3. OrderOK(CreateReceiptPreparation(o, s))
  BY <1>1, <1>2 DEF OrderOK, Order, CreateReceiptPreparation, BenchStatuses,
     FinishedStatuses, CompletableStatuses
<1>. QED
  BY <1>1, <1>3 DEF GoodWrite, OrderOK, Order, CreateReceiptPreparation, FinishedStatuses

\* The answer of the catalogue takes the order back to a receipt status.
LEMMA AuthorizedOK ==
  ASSUME NEW o, OrderOK(o), NEW s \in Sn, NEW a \in Authorizations \ {"NONE"}
  PROVE  GoodWrite(o, Authorized(o, s, a))
<1>1. AuthorizedStatus(a) \in ReceiptStatuses
  BY DEF AuthorizedStatus, ReceiptStatuses
<1>2. AuthorizedEvent(a) \in Events
  BY DEF AuthorizedEvent, Events
<1>3. Authorized(o, s, a) \in Order
  BY <1>1, <1>2 DEF OrderOK, Order, StatusSet, Authorized
<1>4. OrderOK(Authorized(o, s, a))
  BY <1>1, <1>3 DEF OrderOK, Order, Authorized, AuthorizedStatus,
     ReceiptStatuses, BenchStatuses, FinishedStatuses, CompletableStatuses
<1>. QED
  BY <1>4 DEF GoodWrite, OrderOK, Order, Authorized, FinishedStatuses,
     AuthorizedStatus

\* A cancelled preparation has no obligations.
LEMMA CancelledOK ==
  ASSUME NEW o, OrderOK(o)
  PROVE  GoodWrite(o, Cancelled(o))
<1>1. Cancelled(o) \in Order
  BY DEF OrderOK, Order, StatusSet, ReceiptStatuses, BenchStatuses,
       FinishedStatuses, LeftStatuses, CompletableStatuses, Events, Cancelled
<1>2. OrderOK(Cancelled(o))
  BY <1>1 DEF OrderOK, Order, StatusSet, ReceiptStatuses, BenchStatuses,
       FinishedStatuses, LeftStatuses, CompletableStatuses, Events, Cancelled
<1>. QED
  BY <1>2 DEF GoodWrite, OrderOK, Order, Cancelled, FinishedStatuses

\* A transfer needs an answer that does not support the machine.
LEMMA TransferredOK ==
  ASSUME NEW o, OrderOK(o),
         o.status # "ABSENT", o.auth = "UNSUPPORTED"
  PROVE  GoodWrite(o, Transferred(o))
<1>1. Transferred(o) \in Order
  BY DEF OrderOK, Order, StatusSet, ReceiptStatuses, BenchStatuses,
       FinishedStatuses, LeftStatuses, CompletableStatuses, Events, Transferred
<1>2. OrderOK(Transferred(o))
  BY <1>1 DEF OrderOK, Order, StatusSet, ReceiptStatuses, BenchStatuses,
       FinishedStatuses, LeftStatuses, CompletableStatuses, Events, Transferred
<1>. QED
  BY <1>2 DEF GoodWrite, OrderOK, Order, Transferred, FinishedStatuses

\* A receipt needs a supported machine and a photograph.
LEMMA ReceivedOK ==
  ASSUME NEW o, OrderOK(o),
         o.status # "ABSENT", o.auth = "SUPPORTED", o.photos # {}
  PROVE  GoodWrite(o, Received(o))
<1>1. Received(o) \in Order
  BY DEF OrderOK, Order, StatusSet, ReceiptStatuses, BenchStatuses,
       FinishedStatuses, LeftStatuses, CompletableStatuses, Events, Received
<1>2. OrderOK(Received(o))
  BY <1>1 DEF OrderOK, Order, StatusSet, ReceiptStatuses, BenchStatuses,
       FinishedStatuses, LeftStatuses, CompletableStatuses, Events, Received
<1>. QED
  BY <1>2 DEF GoodWrite, OrderOK, Order, Received, FinishedStatuses

\* A photograph is added to a prepared order only.
LEMMA WithPhotoOK ==
  ASSUME NEW o, OrderOK(o),
         o.status = "RECEIPT_PREPARED", NEW f \in Photo
  PROVE  GoodWrite(o, WithPhoto(o, f))
<1>1. WithPhoto(o, f) \in Order
  BY DEF OrderOK, Order, StatusSet, ReceiptStatuses, BenchStatuses,
       FinishedStatuses, LeftStatuses, CompletableStatuses, Events, WithPhoto
<1>2. OrderOK(WithPhoto(o, f))
  BY <1>1 DEF OrderOK, Order, StatusSet, ReceiptStatuses, BenchStatuses,
       FinishedStatuses, LeftStatuses, CompletableStatuses, Events, WithPhoto
<1>. QED
  BY <1>2 DEF GoodWrite, OrderOK, Order, WithPhoto, FinishedStatuses

\* An inspection leaves the receipt evidence alone and enters the timeline.
LEMMA InspectedOK ==
  ASSUME NEW o, OrderOK(o),
         o.status \in InspectableStatuses, NEW w \in Warranties \ {"NONE"}
  PROVE  GoodWrite(o, Inspected(o, w))
<1>1. Inspected(o, w) \in Order
  BY DEF OrderOK, Order, StatusSet, ReceiptStatuses, BenchStatuses,
       FinishedStatuses, LeftStatuses, CompletableStatuses, Events, InspectableStatuses,
       Inspected
<1>2. OrderOK(Inspected(o, w))
  BY <1>1 DEF OrderOK, Order, StatusSet, ReceiptStatuses, BenchStatuses,
       FinishedStatuses, LeftStatuses, CompletableStatuses, Events, InspectableStatuses,
       Inspected
<1>. QED
  BY <1>2 DEF GoodWrite, OrderOK, Order, Inspected, FinishedStatuses,
     InspectableStatuses

\* A changed list of parts changes nothing else that matters.
LEMMA WithPartOK ==
  ASSUME NEW o, OrderOK(o), o.status \in PartUpdateStatuses,
         NEW p \in Part, NEW q \in 0..MaxQty, NEW e \in Events
  PROVE  GoodWrite(o, WithPart(o, p, q, e))
<1>1. [o.parts EXCEPT ![p] = q] \in PartList
  BY DEF OrderOK, Order, PartList
<1>2. WithPart(o, p, q, e) \in Order
  BY <1>1 DEF OrderOK, Order, WithPart
<1>3. OrderOK(WithPart(o, p, q, e))
  BY <1>2 DEF OrderOK, Order, WithPart, PartUpdateStatuses,
     PartSelectionStatuses, BenchStatuses, FinishedStatuses, CompletableStatuses
<1>. QED
  BY <1>3 DEF GoodWrite, OrderOK, Order, WithPart, FinishedStatuses,
     PartUpdateStatuses, PartSelectionStatuses

\* A completion is saved on an inspected order, draft or submitted.
LEMMA CompletedOrderOK ==
  ASSUME NEW o, OrderOK(o), o.status \in CompletableStatuses,
         NEW call \in CompleteCall
  PROVE  GoodWrite(o, CompletedOrder(o, call))
<1> DEFINE n == CompletedOrder(o, call)
<1>1. [state    |-> IF call.submit THEN "SUBMITTED" ELSE "DRAFT",
       parts    |-> call.parts,
       warranty |-> call.warranty] \in Completion
  BY DEF CompleteCall, Completion
<1>2. n \in Order
  BY <1>1 DEF OrderOK, CompletedOrder, Order, StatusSet, BenchStatuses,
     FinishedStatuses, Events
<1>3. ASSUME call.submit PROVE OrderOK(n)
  BY <1>2, <1>3 DEF OrderOK, Order, CompleteCall, CompletedOrder,
     BenchStatuses, FinishedStatuses, CompletableStatuses
<1>4. ASSUME ~call.submit PROVE OrderOK(n)
  BY <1>2, <1>4 DEF OrderOK, Order, CompletedOrder, BenchStatuses,
     FinishedStatuses, CompletableStatuses
<1>5. o.timeline \subseteq n.timeline
  BY DEF OrderOK, Order, CompletedOrder
<1>. QED
  BY <1>3, <1>4, <1>5 DEF GoodWrite, OrderOK, Order, CompletedOrder,
     FinishedStatuses, CompletableStatuses

\* A shipment needs a submitted completion.
LEMMA ShippedOK ==
  ASSUME NEW o, OrderOK(o),
         o.status = "REPAIR_COMPLETED_PENDING_SHIPMENT"
  PROVE  GoodWrite(o, Shipped(o))
<1>1. Shipped(o) \in Order
  BY DEF OrderOK, Order, StatusSet, ReceiptStatuses, BenchStatuses,
       FinishedStatuses, LeftStatuses, CompletableStatuses, Events, Shipped
<1>2. OrderOK(Shipped(o))
  BY <1>1 DEF OrderOK, Order, StatusSet, ReceiptStatuses, BenchStatuses,
       FinishedStatuses, LeftStatuses, CompletableStatuses, Events, Shipped
<1>. QED
  BY <1>2 DEF GoodWrite, OrderOK, Order, Shipped, FinishedStatuses

\* A confirmation needs a shipment.
LEMMA ClosedOK ==
  ASSUME NEW o, OrderOK(o),
         o.status = "SHIPPED_PENDING_COMPLETION"
  PROVE  GoodWrite(o, Closed(o))
<1>1. Closed(o) \in Order
  BY DEF OrderOK, Order, StatusSet, ReceiptStatuses, BenchStatuses,
       FinishedStatuses, LeftStatuses, CompletableStatuses, Events, Closed
<1>2. OrderOK(Closed(o))
  BY <1>1 DEF OrderOK, Order, StatusSet, ReceiptStatuses, BenchStatuses,
       FinishedStatuses, LeftStatuses, CompletableStatuses, Events, Closed
<1>. QED
  BY <1>2 DEF GoodWrite, OrderOK, Order, Closed, FinishedStatuses
-----------------------------------------------------------------------------
(* From one order to the document.                                         *)

\* A good write of one order keeps the document and is all that changes.
LEMMA LiftOrder ==
  ASSUME IInv, NEW r \in Rma, NEW n, GoodWrite(orders[r], n), Write(r, n)
  PROVE  /\ orders' \in [Rma -> Order]
         /\ \A q \in Rma : GoodWrite(orders[q], orders'[q])
<1>1. n \in Order
  BY DEF GoodWrite, OrderOK
<1>2. orders' \in [Rma -> Order] /\ orders'[r] = n
  BY <1>1 DEF IInv, Write
<1>3. ASSUME NEW q \in Rma, q # r PROVE orders'[q] = orders[q]
  BY <1>3 DEF IInv, Write
<1>. QED
  BY <1>2, <1>3 DEF IInv, GoodWrite

\* What every step does.
StepOK ==
  /\ orders' \in [Rma -> Order]
  /\ \A q \in Rma : GoodWrite(orders[q], orders'[q])
  /\ CallsOK'

\* A step that writes no order is good.
LEMMA NoWrite ==
  ASSUME IInv, UNCHANGED orders, CallsOK'
  PROVE  StepOK
BY DEF IInv, StepOK, GoodWrite

\* Every receipt step is good.
LEMMA ReceiptStepOK ==
  ASSUME IInv, ReceiptStep
  PROVE  StepOK
<1>1. ASSUME NEW r \in Rma, NEW s \in Sn, Prepare(r, s) PROVE StepOK
  <2>1. CallsOK'
    BY <1>1 DEF IInv, CallsOK, Prepare, AuthorizeCall
  <2>. QED BY <1>1, <2>1, PreparationOK, LiftOrder DEF IInv, Prepare, StepOK
<1>2. ASSUME NEW call \in authorizing, NEW a \in Authorizations \ {"NONE"},
             MarkModelAuthorization(call, a)
      PROVE  StepOK
  <2>1. call.rma \in Rma /\ call.sn \in Sn
    BY DEF IInv, CallsOK, AuthorizeCall
  <2>2. CallsOK'
    BY <1>2 DEF IInv, CallsOK, MarkModelAuthorization
  <2>. QED
    BY <1>2, <2>1, <2>2, AuthorizedOK, LiftOrder
       DEF IInv, MarkModelAuthorization, StepOK
<1>3. ASSUME NEW call \in authorizing, AuthorizationFails(call) PROVE StepOK
  BY <1>3, NoWrite DEF IInv, CallsOK, AuthorizationFails
<1>4. ASSUME NEW r \in Rma, Cancel(r) PROVE StepOK
  BY <1>4, CancelledOK, LiftOrder DEF IInv, CallsOK, Cancel, StepOK
<1>5. ASSUME NEW r \in Rma, TransferToHeadquarters(r) PROVE StepOK
  BY <1>5, TransferredOK, LiftOrder
     DEF IInv, CallsOK, TransferToHeadquarters, Exists, StepOK
<1>6. ASSUME NEW r \in Rma, CompleteReceipt(r) PROVE StepOK
  BY <1>6, ReceivedOK, LiftOrder
     DEF IInv, CallsOK, CompleteReceipt, Exists, StepOK
<1>7. ASSUME NEW r \in Rma, NEW photo \in Photo, StartReceiptUpload(r, photo)
      PROVE  StepOK
  BY <1>7, NoWrite DEF IInv, CallsOK, StartReceiptUpload, UploadCall
<1>8. ASSUME NEW call \in uploading, AddReceiptAttachment(call) PROVE StepOK
  <2>1. call.rma \in Rma /\ call.photo \in Photo
    BY DEF IInv, CallsOK, UploadCall
  <2>2. CallsOK'
    BY <1>8 DEF IInv, CallsOK, AddReceiptAttachment
  <2>3. CASE orders[call.rma].status = "RECEIPT_PREPARED"
    BY <1>8, <2>1, <2>2, <2>3, WithPhotoOK, LiftOrder
       DEF IInv, AddReceiptAttachment, StepOK
  <2>4. CASE orders[call.rma].status # "RECEIPT_PREPARED"
    BY <1>8, <2>2, <2>4, NoWrite DEF AddReceiptAttachment
  <2>. QED BY <2>3, <2>4
<1>. QED
  BY <1>1, <1>2, <1>3, <1>4, <1>5, <1>6, <1>7, <1>8 DEF ReceiptStep

\* Every step at the bench is good.
LEMMA BenchStepOK ==
  ASSUME IInv, BenchStep
  PROVE  StepOK
<1>1. ASSUME NEW r \in Rma, NEW w \in Warranties \ {"NONE"}, SaveInspection(r, w)
      PROVE  StepOK
  BY <1>1, InspectedOK, LiftOrder DEF IInv, CallsOK, SaveInspection, StepOK
<1>2. ASSUME NEW r \in Rma, NEW p \in Part, NEW q \in 1..MaxQty, ApplyPart(r, p, q)
      PROVE  StepOK
  <2>1. orders[r].parts[p] + q \in 0..MaxQty
    BY <1>2, WorkOrderAssumption DEF IInv, Order, PartList, ApplyPart
  <2>2. orders[r].status \in PartUpdateStatuses
    BY <1>2 DEF ApplyPart, PartUpdateStatuses
  <2>3. "PART_APPLICATION" \in Events
    BY DEF Events
  <2>4. CallsOK'
    BY <1>2 DEF IInv, CallsOK, ApplyPart
  <2>. QED
    BY <1>2, <2>1, <2>2, <2>3, <2>4, WithPartOK, LiftOrder
       DEF IInv, ApplyPart, StepOK
<1>3. ASSUME NEW r \in Rma, NEW p \in Part, NEW q \in 0..MaxQty,
             UpdatePartApplication(r, p, q)
      PROVE  StepOK
  <2>1. "PART_APPLICATION_UPDATED" \in Events
    BY DEF Events
  <2>2. CallsOK'
    BY <1>3 DEF IInv, CallsOK, UpdatePartApplication
  <2>. QED
    BY <1>3, <2>1, <2>2, WithPartOK, LiftOrder
       DEF IInv, UpdatePartApplication, StepOK
<1>4. ASSUME NEW r \in Rma, NEW submit \in BOOLEAN, StartRepairCompletion(r, submit)
      PROVE  StepOK
  <2>1. orders[r].parts \in PartList /\ orders[r].warranty \in Warranties \ {"NONE"}
    BY <1>4 DEF IInv, Order, StartRepairCompletion
  <2>2. CallsOK'
    BY <1>4, <2>1 DEF IInv, CallsOK, StartRepairCompletion, CompleteCall
  <2>. QED BY <1>4, <2>2, NoWrite DEF StartRepairCompletion
<1>5. ASSUME NEW call \in completing, SaveRepairCompletion(call) PROVE StepOK
  <2>1. call \in CompleteCall /\ call.rma \in Rma
    BY DEF IInv, CallsOK, CompleteCall
  <2>2. CallsOK'
    BY <1>5 DEF IInv, CallsOK, SaveRepairCompletion
  <2>3. CASE orders[call.rma].status \in CompletableStatuses
    BY <1>5, <2>1, <2>2, <2>3, CompletedOrderOK, LiftOrder
       DEF IInv, SaveRepairCompletion, StepOK
  <2>4. CASE orders[call.rma].status \notin CompletableStatuses
    BY <1>5, <2>2, <2>4, NoWrite DEF SaveRepairCompletion
  <2>. QED BY <2>3, <2>4
<1>6. ASSUME NEW call \in completing, RepairCompletionRejected(call) PROVE StepOK
  BY <1>6, NoWrite DEF IInv, CallsOK, RepairCompletionRejected
<1>. QED
  BY <1>1, <1>2, <1>3, <1>4, <1>5, <1>6 DEF BenchStep

\* Both shipping steps are good.
LEMMA ShippingStepOK ==
  ASSUME IInv, ShippingStep
  PROVE  StepOK
<1>1. ASSUME NEW r \in Rma, SubmitReturnShipment(r) PROVE StepOK
  BY <1>1, ShippedOK, LiftOrder DEF IInv, CallsOK, SubmitReturnShipment, StepOK
<1>2. ASSUME NEW r \in Rma, ConfirmCompletion(r) PROVE StepOK
  BY <1>2, ClosedOK, LiftOrder DEF IInv, CallsOK, ConfirmCompletion, StepOK
<1>. QED BY <1>1, <1>2 DEF ShippingStep

\* Every step is good.
LEMMA NextStepOK == IInv /\ [Next]_vars => StepOK
<1> SUFFICES ASSUME IInv, [Next]_vars PROVE StepOK
  OBVIOUS
<1>1. CASE UNCHANGED vars
  BY <1>1, NoWrite DEF IInv, CallsOK, vars
<1>. QED
  BY <1>1, ReceiptStepOK, BenchStepOK, ShippingStepOK DEF Next

-----------------------------------------------------------------------------
(* The theorems.                                                           *)

\* The strengthened invariant holds in every reachable state.
THEOREM IInvHolds == Spec => []IInv
<1>1. Init => IInv
  BY NoOrderOK DEF Init, IInv, CallsOK, OrderOK
<1>2. IInv /\ [Next]_vars => IInv'
  BY NextStepOK DEF StepOK, GoodWrite, IInv
<1>. QED BY <1>1, <1>2, PTL DEF Spec

\* The document and the waiting handlers keep their shape.
THEOREM TypeCorrect == Spec => []TypeOK
<1>1. IInv => TypeOK
  BY DEF IInv, CallsOK, TypeOK
<1>. QED BY <1>1, IInvHolds, PTL

\* No order gets to the bench or beyond without receipt evidence.
THEOREM BenchWasReceived == Spec => []BenchNeedsReceipt
<1>1. IInv => BenchNeedsReceipt
  BY DEF IInv, OrderOK, BenchNeedsReceipt
<1>. QED BY <1>1, IInvHolds, PTL

\* No order is finished, shipped or closed without the evidence of the stages
\* before.
THEOREM FinishedHasEvidence == Spec => []FinishNeedsEvidence
<1>1. IInv => FinishNeedsEvidence
  BY DEF IInv, OrderOK, FinishNeedsEvidence
<1>. QED BY <1>1, IInvHolds, PTL

\* Only an unsupported machine is sent to headquarters.
THEOREM HeadquartersGetsUnsupported == Spec => []HeadquartersOnlyUnsupported
<1>1. IInv => HeadquartersOnlyUnsupported
  BY DEF IInv, OrderOK, HeadquartersOnlyUnsupported
<1>. QED BY <1>1, IInvHolds, PTL

\* No step loses a photograph or an entry of a timeline.
THEOREM EvidenceIsKept == Spec => EvidenceIsAppendOnly
<1>1. IInv /\ [Next]_vars =>
        \A r \in Rma : /\ orders[r].photos \subseteq orders'[r].photos
                       /\ orders[r].timeline \subseteq orders'[r].timeline
  BY NextStepOK DEF StepOK, GoodWrite
<1>. QED BY <1>1, IInvHolds, PTL DEF Spec, EvidenceIsAppendOnly

\* No step rewrites the submission of an order that stays finished.
THEOREM SubmissionStaysFrozen == Spec => SubmissionIsFrozen
<1>1. IInv /\ [Next]_vars =>
        \A r \in Rma :
          /\ orders[r].status \in FinishedStatuses
          /\ orders'[r].status \in FinishedStatuses
          => /\ orders'[r].completion = orders[r].completion
             /\ orders'[r].parts = orders[r].parts
             /\ orders'[r].warranty = orders[r].warranty
  BY NextStepOK DEF StepOK, GoodWrite
<1>. QED BY <1>1, IInvHolds, PTL DEF Spec, SubmissionIsFrozen
=============================================================================
