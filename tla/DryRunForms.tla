----------------------------- MODULE DryRunForms -----------------------------
(***************************************************************************)
(* The dry runs on Recloud's forms (connectors/recloud.js): the receipt    *)
(* form is inspected, or filled and emptied again; the detection form is   *)
(* inspected, searched by a keyword and prefilled, field by field, by      *)
(* executeDetectionPrefillSafely, which puts back what it found; the       *)
(* repair form is inspected.  None may change Recloud, and each says so in *)
(* its answer.                                                             *)
(*                                                                         *)
(* A network guard aborts what the page sends.  The page saves drafts when *)
(* it likes, fields reformat what is typed and change one another, a       *)
(* control takes a value and reports a failure or cannot be read, forms go *)
(* away or do not close.                                                   *)
(*                                                                         *)
(* External: Recloud's forms.  The fields of one form may change others of *)
(* that form when they are written, in any way (Cascade).                  *)
(***************************************************************************)
EXTENDS Naturals, Sequences

CONSTANTS
    Plan,           \* the fields of a prefill plan, in the order of writing
    Cascade         \* <<f, g>>: writing f may change g

PlanFields == {Plan[i] : i \in 1..Len(Plan)}
ReceiptFields == {"sn", "remark"}
Fields == ReceiptFields \cup PlanFields

\* The field searched by a keyword is the first of a plan, the quick choice of
\* a fault.
KeywordField == Plan[1]

ASSUME PlanAssumption ==
    /\ Plan \in Seq(PlanFields) /\ Plan # <<>>
    /\ \A i, j \in 1..Len(Plan) : Plan[i] = Plan[j] => i = j
    /\ Cascade \subseteq (PlanFields \X PlanFields) \cup (ReceiptFields \X ReceiptFields)
    /\ ReceiptFields \cap PlanFields = {}

VARIABLES
    form,           \* the form in the page and the values in it
    guard,          \* the route handler that aborts writes
    saved,          \* what the page saved that a dry run made it save
    call,           \* the dry run that has the page
    result          \* how the last one ended, if none is under way

vars == <<form, guard, saved, call, result>>

(***************************************************************************)
(* The form.                                                               *)
(***************************************************************************)

\* Per field: the value found, the value of the dry run, or another one.
AsFound == [f \in Fields |-> "orig"]
NoForm == [open |-> FALSE, val |-> AsFound]

\* The fields of an open form that are not as they were found.
Changed == {f \in Fields : form.open /\ form.val[f] # "orig"}

\* What the form can hold once v was written to f.
Put(f, v) ==
    {[g \in Fields |-> IF g = f THEN w
                       ELSE IF g \in hit THEN "odd" ELSE form.val[g]] :
     w \in {v, "odd"}, hit \in SUBSET {g \in Fields : <<f, g>> \in Cascade}}

\* Whether or not an attempt to close the form succeeds.
TryToClose(open) ==
    /\ open \in {FALSE, form.open}
    /\ form' = IF open THEN form ELSE NoForm

Vanish ==
    /\ form.open
    /\ form' = NoForm
    /\ UNCHANGED <<guard, saved, call, result>>

\* Mutant: a path that reads like a query decides.
classifyByReadPath(method, readPath, mutationPath) ==
    IF method = "POST" /\ readPath THEN "read" ELSE "mutation"

\* What a request is taken for, by its method and the words in its path.
classifyRecloudRequest(method, readPath, mutationPath) ==
    IF \/ method \notin {"POST", "PUT", "PATCH", "DELETE"}
       \/ method = "POST" /\ readPath /\ ~mutationPath
    THEN "read" ELSE "mutation"

\* What becomes of a request that the page makes to save something.  (A path
\* that reads like a query and not like a write would pass the guard; Recloud
\* is assumed to have no such path that saves, nor to save by a GET.)
PageSends(what) ==
    \E method \in {"POST", "PUT"}, readPath, mutationPath \in BOOLEAN :
       /\ readPath => mutationPath
       /\ IF guard.on /\ classifyRecloudRequest(method, readPath, mutationPath) = "mutation"
          THEN guard' = [guard EXCEPT !.blocked = TRUE] /\ UNCHANGED saved
          ELSE saved' = saved \cup what /\ UNCHANGED guard

\* The page saves a draft of the open form.
PageWrites ==
    /\ form.open
    /\ PageSends(Changed)
    /\ UNCHANGED <<form, call, result>>

(***************************************************************************)
(* The call.                                                               *)
(***************************************************************************)

Ops == {"inspect", "simulate", "detect", "repair"}

NoResult == [op |-> "none", ok |-> FALSE, doubt |-> {}]

Idle == [op |-> "none", pc |-> "idle",
         filled   |-> {},       \* fields filled and to be put back
         error    |-> FALSE,    \* an error is on its way out
         closed   |-> FALSE,    \* the form was seen to be gone
         tried    |-> FALSE,    \* closing was tried
         at       |-> 0,        \* field of the plan
         snaps    |-> 0,        \* fields of the plan read before writing
         primary  |-> FALSE,    \* a field could not be written
         restore  |-> FALSE,    \* a field could not be put back
         doubt    |-> {}]       \* fields taken for something else (history)

At(op, pc) == call.op = op /\ call.pc = pc
Goto(pc) == call' = [call EXCEPT !.pc = pc]
Throw == call' = [call EXCEPT !.pc = "finally", !.error = TRUE]

\* fill(): the control may fail without or after writing, or not be there.
Fill(f, v, filled, failed) ==
    \/ /\ form.open
       /\ \E val \in Put(f, v) : form' = [form EXCEPT !.val = val]
       /\ call' \in {filled, failed}
    \/ call' = failed /\ UNCHANGED form

\* Every handler queries the order first, which loads the page anew.
Begin(op) ==
    /\ call.pc = "idle"
    /\ call' = [Idle EXCEPT !.op = op,
                            !.pc = IF op = "simulate" THEN "open" ELSE "guard"]
    /\ form' = NoForm
    /\ saved' = {}
    /\ result' = NoResult
    /\ UNCHANGED guard

\* The guard is on before the entry of the form is clicked, in a simulation
\* when the form has been found.
createReceiptNetworkGuard ==
    /\ call.pc = "guard"
    /\ guard' = [on |-> TRUE, blocked |-> FALSE]
    /\ Goto(IF call.op = "simulate" THEN "read" ELSE "open")
    /\ UNCHANGED <<form, saved, result>>

\* The entry is looked for and clicked, and the form waited for, which may
\* be in the page although the wait is over.
openReceiptFormForDryRun ==
    /\ call.pc = "open"
    /\ \/ form' = [NoForm EXCEPT !.open = TRUE]
          /\ Goto(IF call.op \in {"inspect", "simulate"} THEN "locate" ELSE "opened")
       \/ form' \in {NoForm, [NoForm EXCEPT !.open = TRUE]}
          /\ call' = [call EXCEPT !.error = TRUE,
                                  !.pc = IF call.op \in {"detect", "repair"} THEN "finally" ELSE "stop"]
    /\ UNCHANGED <<guard, saved, result>>

\* What the call does when the guard has seen no write.
AfterSafe ==
    [opened     |-> IF call.op = "detect" THEN "search" ELSE "close",
     snSafe     |-> "fillRemark",
     remarkSafe |-> "verify",
     searched   |-> "restoreKeyword",
     restored   |-> "keywordBack",
     rolledBack |-> "closePage",
     prefilled  |-> "close",
     last       |-> "finally"]

\* Mutant: wait until the page is quiet.
waitUntilSafe ==
    /\ call.pc \in DOMAIN AfterSafe
    /\ IF guard.blocked THEN UNCHANGED call ELSE Goto(AfterSafe[call.pc])
    /\ UNCHANGED <<form, guard, saved, result>>

\* A write was attempted at any time since the guard is on, or the call goes on.
assertSafe ==
    /\ call.pc \in DOMAIN AfterSafe
    /\ IF guard.blocked THEN Throw ELSE Goto(AfterSafe[call.pc])
    /\ UNCHANGED <<form, guard, saved, result>>

\* The fields and the button are found, or the structure has changed.
locateReceiptFormControls ==
    /\ call.pc = "locate"
    /\ \/ form.open /\ Goto(IF call.op = "simulate" THEN "guard" ELSE "opened")
       \/ Throw
    /\ UNCHANGED <<form, guard, saved, result>>

\* Closing, once: an inspection of a form, or a detection that is done.  The
\* repair form may be a page of its own, left by going back.  A form that
\* cannot be looked for counts as gone.
closeDialog ==
    /\ call.pc = "close"
    /\ \E open \in BOOLEAN, closed \in BOOLEAN :
          /\ TryToClose(open) /\ (open \/ closed)
          /\ call' = [call EXCEPT !.pc = "last", !.closed = closed, !.tried = TRUE]
    /\ UNCHANGED <<guard, saved, result>>

(***************************************************************************)
(* The receipt form is filled and emptied.                                 *)
(***************************************************************************)

\* The SN must be blank before anything is typed.
readOriginals ==
    /\ At("simulate", "read")
    /\ (form.open /\ Goto("fillSn")) \/ Throw
    /\ UNCHANGED <<form, guard, saved, result>>

simulateReceiptForm ==
    /\ \/ /\ At("simulate", "fillSn")
          /\ Fill("sn", "test", [call EXCEPT !.pc = "snSafe", !.filled = {"sn"}],
                                [call EXCEPT !.pc = "finally", !.error = TRUE])
       \/ /\ At("simulate", "fillRemark")
          /\ Fill("remark", "test",
                  [call EXCEPT !.pc = "remarkSafe", !.filled = @ \cup {"remark"}],
                  [call EXCEPT !.pc = "finally", !.error = TRUE])
       \/ /\ At("simulate", "verify")
          /\ UNCHANGED form
          /\ call' = [call EXCEPT !.pc = "finally",
                                  !.error = form.val["sn"] # "test" \/ form.val["remark"] # "test"
                                            \/ ~form.open]
    /\ UNCHANGED <<guard, saved, result>>

\* What follows a field put back: its value is read again.  A guard that has
\* seen a write is an error, but no reason to stop cleaning.
PutBack(f, pc) ==
    IF f \notin call.filled THEN UNCHANGED form /\ Goto(pc)
    ELSE \/ /\ form.open
            /\ \E val \in Put(f, "orig") :
                  /\ form' = [form EXCEPT !.val = val]
                  /\ call' = [call EXCEPT !.pc = pc,
                                          !.error = @ \/ guard.blocked \/ val[f] # "orig"]
         \/ LET failed == [call EXCEPT !.pc = "escape", !.error = TRUE]
            IN  Fill(f, "orig", failed, failed)

\* The SN is cleared, then the remark; an exception skips the rest.
cleanReceiptForm ==
    /\ \/ At("simulate", "finally") /\ PutBack("sn", "cleanRemark")
       \/ At("simulate", "cleanRemark") /\ PutBack("remark", "escape")
    /\ UNCHANGED <<guard, saved, result>>

\* Whether Escape closed the form is not looked at.
escapeReceiptForm ==
    /\ At("simulate", "escape")
    /\ \E open \in BOOLEAN : TryToClose(open)
    /\ \E failed \in BOOLEAN :
          call' = [call EXCEPT !.pc = "stop", !.error = @ \/ failed \/ guard.blocked]
    /\ UNCHANGED <<guard, saved, result>>

(***************************************************************************)
(* The detection form is searched and prefilled.                           *)
(***************************************************************************)

\* The keyword is typed, or all faults are listed, or neither is asked for.
\* The input counts as touched before it is filled; it is read before, and as
\* empty if that fails.
searchFaults ==
    /\ At("detect", "search")
    /\ \/ Goto("prefill") /\ UNCHANGED form
       \/ \E empty \in BOOLEAN :
             LET doubt == IF empty THEN {KeywordField} ELSE {}
             IN  Fill(KeywordField, "test",
                      [call EXCEPT !.pc = "searched", !.filled = {KeywordField},
                                   !.doubt = @ \cup doubt],
                      [call EXCEPT !.pc = "finally", !.filled = {KeywordField}, !.error = TRUE])
    /\ UNCHANGED <<guard, saved, result>>

restoreKeyword ==
    /\ \/ /\ At("detect", "restoreKeyword")
          /\ Fill(KeywordField, "orig", [call EXCEPT !.pc = "restored"],
                                        [call EXCEPT !.pc = "finally", !.error = TRUE])
       \/ /\ At("detect", "keywordBack")
          /\ UNCHANGED form
          /\ IF form.open /\ (form.val[KeywordField] = "orig" \/ KeywordField \in call.doubt)
             THEN call' = [call EXCEPT !.pc = "prefill", !.filled = {}]
             ELSE Throw
    /\ UNCHANGED <<guard, saved, result>>

\* A plan is optional, and refused if fields are missing.
startPrefill ==
    /\ At("detect", "prefill")
    /\ \/ Goto("close")
       \/ Throw
       \/ call' = [call EXCEPT !.pc = "snapshot", !.at = 1]
    /\ UNCHANGED <<form, guard, saved, result>>

\* All fields are read before the first is written.  A field is taken for
\* empty if its read fails or its tag is not there yet, and for what the
\* keyword made of it.
snapshotField ==
    /\ At("detect", "snapshot")
    /\ \/ /\ form.open
          /\ \E taken \in SUBSET {Plan[call.at]} :
                /\ Plan[call.at] \in Changed => taken # {}
                /\ call' = [call EXCEPT !.snaps = @ + 1, !.doubt = @ \cup taken,
                              !.at = IF @ < Len(Plan) THEN @ + 1 ELSE 1,
                              !.pc = IF call.at < Len(Plan) THEN @ ELSE "write"]
       \/ call' = [call EXCEPT !.pc = "restore", !.primary = TRUE]
    /\ UNCHANGED <<form, guard, saved, result>>

\* A field is written and read back.
writeField ==
    /\ At("detect", "write")
    /\ \/ /\ form.open
          /\ \E val \in Put(Plan[call.at], "test") :
                /\ form' = [form EXCEPT !.val = val]
                /\ \/ /\ val[Plan[call.at]] = "test"
                      /\ call' = IF call.at < Len(Plan) THEN [call EXCEPT !.at = @ + 1]
                                 ELSE [call EXCEPT !.pc = "restore"]
                   \/ call' = [call EXCEPT !.pc = "restore", !.primary = TRUE]
       \/ /\ UNCHANGED form
          /\ call' = [call EXCEPT !.pc = "restore", !.primary = TRUE]
    /\ UNCHANGED <<guard, saved, result>>

\* Mutant: in the order in which they were read.
FirstSnapshot == Plan[Len(Plan) + 1 - call.snaps]

\* The field put back next: the last one read.
NextSnapshot == Plan[call.snaps]

\* Every field read is put back, whatever became of the others; a field that
\* fails is passed over.  One that was read as empty is cleared, unless it reads
\* as empty already, and is well if it reads as empty afterwards.
restoreField ==
    /\ At("detect", "restore") /\ call.snaps > 0
    /\ \/ /\ form.open
          /\ \E val \in Put(NextSnapshot, "orig") \cup {form.val}, failed \in BOOLEAN :
                /\ form' = [form EXCEPT !.val = val]
                /\ val[NextSnapshot] # "orig" /\ NextSnapshot \notin call.doubt => failed
                /\ call' = [call EXCEPT !.snaps = @ - 1, !.restore = @ \/ failed]
       \/ /\ UNCHANGED form
          /\ call' = [call EXCEPT !.snaps = @ - 1, !.restore = TRUE]
    /\ UNCHANGED <<guard, saved, result>>

\* Fields that cannot be put back after a complete prefill are dropped with
\* the form; after another they are an error.
endPrefill ==
    /\ At("detect", "restore") /\ call.snaps = 0
    /\ IF call.restore /\ ~call.primary THEN Goto("rollback")
       ELSE IF call.restore \/ call.primary THEN Throw ELSE Goto("prefilled")
    /\ UNCHANGED <<form, guard, saved, result>>

\* The form is closed without saving, by its buttons or Escape, or the page
\* with it.  Here too a form that cannot be looked for counts as gone.
rollback ==
    /\ \/ /\ At("detect", "rollback")
          /\ \E open \in BOOLEAN, closed \in BOOLEAN :
                /\ TryToClose(open) /\ (open \/ closed)
                /\ call' = [call EXCEPT !.pc = "rolledBack", !.closed = closed,
                              !.doubt = IF open /\ closed THEN PlanFields ELSE @]
       \/ /\ At("detect", "closePage")
          /\ \/ /\ form' = IF call.closed THEN form ELSE NoForm
                /\ call' = [call EXCEPT !.pc = "prefilled", !.closed = TRUE]
             \/ ~call.closed /\ Throw /\ UNCHANGED form
    /\ UNCHANGED <<guard, saved, result>>

(***************************************************************************)
(* The end of a call.                                                      *)
(***************************************************************************)

\* A keyword that is still there is put back, again if need be.
restoreKeywordFinally ==
    /\ At("detect", "finally") /\ call.filled # {}
    /\ \/ /\ form.open
          /\ \E val \in Put(KeywordField, "orig") : form' = [form EXCEPT !.val = val]
       \/ UNCHANGED form
    /\ call' = [call EXCEPT !.filled = {}, !.error = TRUE]
    /\ UNCHANGED <<guard, saved, result>>

\* A form not seen to be gone is closed: by Escape, in an inspection of the
\* receipt form only if that was not tried before.
closeFinally ==
    /\ call.op \in {"inspect", "detect", "repair"}
    /\ call.pc = "finally" /\ call.filled = {}
    /\ \E open \in BOOLEAN :
          IF call.closed \/ (call.op = "inspect" /\ call.tried)
          THEN UNCHANGED form ELSE TryToClose(open)
    /\ Goto("stop")
    /\ UNCHANGED <<guard, saved, result>>

\* The guard is removed and the call answers.
stop ==
    /\ call.pc = "stop"
    /\ guard' = [on |-> FALSE, blocked |-> FALSE]
    /\ result' = [op |-> call.op, ok |-> ~call.error, doubt |-> call.doubt]
    /\ call' = Idle
    /\ UNCHANGED <<form, saved>>

(***************************************************************************)
(* Specification.                                                          *)
(***************************************************************************)

Init ==
    /\ form = NoForm
    /\ guard = [on |-> FALSE, blocked |-> FALSE]
    /\ saved = {}
    /\ call = Idle
    /\ result = NoResult

Step ==
    \/ createReceiptNetworkGuard \/ openReceiptFormForDryRun \/ assertSafe
    \/ locateReceiptFormControls \/ closeDialog
    \/ readOriginals \/ simulateReceiptForm \/ cleanReceiptForm \/ escapeReceiptForm
    \/ searchFaults \/ restoreKeyword \/ startPrefill \/ snapshotField
    \/ writeField \/ restoreField \/ endPrefill \/ rollback
    \/ restoreKeywordFinally \/ closeFinally \/ stop

Next == (\E op \in Ops : Begin(op)) \/ Step \/ PageWrites \/ Vanish

\* Every wait of a step has a time-out.
Spec == Init /\ [][Next]_vars /\ WF_vars(Step)

(***************************************************************************)
(* Properties.                                                             *)
(***************************************************************************)

\* Fields that another field may change when it is put back after them.
ChangedLater ==
    {f \in Fields : \/ f = "sn" /\ <<"remark", "sn">> \in Cascade
                    \/ \E j \in 1..Len(Plan), i \in 1..Len(Plan) :
                          i < j /\ f = Plan[j] /\ <<Plan[i], f>> \in Cascade}

\* What a call that answers ok may leave in the form: fields that it has taken
\* for empty or read too late, all of a plan if it has taken the form for gone,
\* and fields that were changed again after they were put back.
MayRemain == result.doubt \cup ChangedLater

\* Nothing reaches Recloud while a dry run is under way or a guard is there,
\* from the first key typed until the last field is put back, whatever fails in
\* between; afterwards, of a call that has said ok, only what it may have left.
DryRunStaysHere ==
    /\ guard.on \/ call.op \in Ops => saved = {}
    /\ result.ok /\ result.op \in Ops => saved \subseteq MayRemain

\* A dry run that reports success leaves the form gone or each field as it was
\* found, but for what it cannot know, although fields reformat, change one
\* another in both directions, fail after writing and cannot be read.
OkMeansUntouched == call.pc = "idle" /\ result.ok => Changed \subseteq MayRemain

\* Every dry run ends, whatever the page does, and frees the browser.
CallsSettle == call.pc # "idle" ~> call.pc = "idle"
=============================================================================
