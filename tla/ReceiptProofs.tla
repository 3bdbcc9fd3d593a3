---------------------------- MODULE ReceiptProofs -----------------------------
(***************************************************************************)
(* Proofs about the receipt forms and the control that opens them.         *)
(*                                                                         *)
(* The dry runs and the diagnoses (ReceiptDiagnostics), for any plan, any  *)
(* way in which the fields of a form change one another and any number of  *)
(* looks: the heart of the invariant is MayDiffer, at each step of a call  *)
(* that has met no error the fields whose value the call can have changed  *)
(* and knows that it has to put back.  It is empty when a call ends well,  *)
(* and what then differs is what the call has taken for something else, or *)
(* was changed again by a field put back later.                            *)
(*                                                                         *)
(* The searches for the control (ReceiptLocator), for any number of rows   *)
(* and any layers out of line by less than half a row: an invariant that   *)
(* says of each search what it answers, from lemmas about the elements of  *)
(* a table and about the scores of each search.                            *)
(***************************************************************************)
EXTENDS ReceiptDiagnostics, ReceiptLocator, FiniteSetTheorems, WellFoundedInduction, TLAPS

(***************************************************************************)
(* The invariant.                                                          *)
(***************************************************************************)

Values == {"orig", "test", "odd"}

CallFields == {"op", "pc", "filled", "error", "closed", "tried", "at", "snaps",
               "primary", "restore", "doubt"}

FormTyped ==
    /\ DOMAIN form = {"open", "val"} /\ form.val \in [Fields -> Values]
    /\ DOMAIN call = CallFields /\ call.at \in Nat /\ call.snaps \in Nat
    /\ call.doubt \subseteq PlanFields

TableTyped ==
    /\ DOMAIN guard = {"on", "blocked"}
    /\ DOMAIN view = {"marks", "scroll", "own", "listening", "stirred", "late"}
    /\ DOMAIN diag = {"was", "look", "most", "alone", "occluded", "lost"}

\* Where a call can be.
FormPcs(op) ==
    {"open", "finally", "stop"} \cup
    (IF op = "simulate"
     THEN {"locate", "guard", "read", "fillSn", "snSafe", "fillRemark", "remarkSafe",
           "verify", "cleanRemark", "escape"}
     ELSE {"guard", "opened", "close", "last"}) \cup
    (IF op = "inspect" THEN {"locate"} ELSE {}) \cup
    (IF op = "detect"
     THEN {"search", "searched", "restoreKeyword", "restored", "keywordBack", "prefill",
           "snapshot", "write", "restore", "rollback", "rolledBack", "closePage",
           "prefilled"}
     ELSE {})

DiagnosisPcs(op) ==
    {"tab", "seek", "tabled", "leave", "stop"} \cup
    (IF op # "table" THEN {"fixed"} ELSE {}) \cup
    (IF op \in ReadingOps THEN {"arm", "read", "finally"} ELSE {}) \cup
    (IF op \in MovingOps THEN {"mark", "arm", "move", "look", "looked", "finally"} ELSE {})
    \cup (IF op = "hover" THEN {"unmark"} ELSE {})

\* Where a call that has met an error can be.
ErrorPcs == {"finally", "cleanRemark", "escape", "stop", "leave", "unmark"}

Paths ==
    /\ \/ call.op \in Ops /\ call.pc \in FormPcs(call.op)
       \/ call.op \in Diagnoses /\ call.pc \in DiagnosisPcs(call.op)
       \/ call.op = "none" /\ call.pc = "idle"
    /\ call.error => call.pc \in ErrorPcs

\* Where a dry run has no guard yet.
Unguarded == {"guard"} \cup (IF call.op = "simulate" THEN {"open", "locate"} ELSE {})

Guarded ==
    /\ call.pc = "idle" => ~guard.on
    /\ call.op \in Ops /\ ~call.error /\ call.pc \notin Unguarded => guard.on
    /\ call.op \in Ops /\ ~guard.on =>
          /\ call.filled = {} /\ Changed = {}
          /\ call.op = "simulate" \/ call.pc = "guard"
    /\ call.pc \in {"move", "look"} => guard.on

BeforePrefill == {"guard", "open", "opened", "search", "searched", "restoreKeyword",
                  "restored", "keywordBack", "prefill"}

\* How far a call has come.
Progress ==
    /\ call.op = "detect" /\ call.pc \in BeforePrefill => call.snaps = 0
    /\ At("detect", "snapshot") => call.at \in 1..Len(Plan) /\ call.snaps = call.at - 1
    /\ At("detect", "write") => call.at \in 1..Len(Plan) /\ call.snaps = Len(Plan)
    /\ At("detect", "restore") => call.snaps \in 0..Len(Plan)
    /\ call.op = "simulate" =>
          /\ call.pc \in {"snSafe", "fillRemark"} => call.filled = {"sn"}
          /\ call.pc \in {"remarkSafe", "verify"} => call.filled = {"sn", "remark"}
          /\ call.pc \in {"finally", "cleanRemark"} /\ ~call.error
                => call.filled = {"sn", "remark"}
    /\ call.op = "detect" /\ call.pc \in {"rolledBack", "closePage"} =>
          (call.closed /\ form.open => call.doubt = PlanFields)

\* The fields that a call without an error can have changed and not put back.
MayDiffer ==
    IF call.op = "simulate"
    THEN IF call.pc \in {"snSafe", "fillRemark", "remarkSafe", "verify", "finally"}
         THEN ReceiptFields
         ELSE IF call.pc = "cleanRemark" THEN {"remark"} ELSE {}
    ELSE IF call.op = "detect"
    THEN IF call.pc \in {"searched", "restoreKeyword", "restored", "keywordBack"}
         THEN {KeywordField}
         ELSE IF call.pc = "restore" /\ ~call.restore
         THEN {Plan[i] : i \in 1..call.snaps}
         ELSE IF call.pc \in {"write", "restore", "rollback", "rolledBack", "closePage"}
         THEN PlanFields ELSE {}
    ELSE {}

\* Those, the ones taken for something else, and the ones changed again.
May == MayDiffer \cup call.doubt \cup ChangedLater

Remembered ==
    call.op \in Ops /\ ~call.error /\ form.open =>
        \A f \in Fields \ May : form.val[f] = "orig"

\* Where a diagnosis has not moved the mouse.
BeforeGuard == {"tab", "seek", "tabled", "fixed", "mark", "arm"}

\* What the page has saved, and what it may still do because of the mouse.
Owned ==
    /\ guard.on \/ call.op \in Ops \/ call.pc \in BeforeGuard => saved = {}
    /\ result.ok /\ result.op \in Ops => saved \subseteq MayRemain
    /\ view.stirred =>
          /\ call.op \in MovingOps \cup {"none"} /\ call.pc \notin BeforeGuard
          /\ call.op = "none" => result.op \notin Ops

Watching == {"hover", "rowHover"}

\* What a diagnosis has done to the page, and seen.
Looking ==
    /\ call.op \in Diagnoses => ~form.open /\ view.marks \subseteq Targets(call.op)
    /\ view.listening => call.pc \in {"tab", "seek", "tabled", "leave"}
    /\ diag.was # "none" =>
          /\ call.pc \in {"arm", "move", "look", "looked", "finally", "unmark", "stop", "idle"}
          /\ call.op \in MovingOps \cup {"none"}
          /\ call.pc \in {"stop", "idle"} => view.marks = {}
          /\ "scroll" \in view.marks \/ view.scroll \in {diag.was, view.own}
    /\ call.op \in Watching =>
          /\ ~diag.lost
          /\ call.pc \in {"finally", "unmark", "stop", "leave"} /\ ~call.error => diag.most = 1
    /\ call.op \in MovingOps /\ call.pc = "leave" => call.error

\* What the last answer says.
Answered ==
    result.ok =>
        /\ call.pc = "idle"
        /\ Changed \subseteq MayRemain
        /\ result.op \in Watching => diag.most = 1 /\ ~diag.lost

\* The inductive invariant.
Inv ==
    /\ FormTyped /\ TableTyped
    /\ Paths /\ Guarded /\ Progress /\ Remembered
    /\ Owned /\ Looking /\ Answered

(***************************************************************************)
(* Fields and plans.                                                       *)
(***************************************************************************)

LEMMA PlanIs ==
    /\ Len(Plan) \in Nat /\ 1 \in 1..Len(Plan)
    /\ \A i \in 1..Len(Plan) : Plan[i] \in PlanFields
    /\ PlanFields \subseteq Fields /\ ReceiptFields \subseteq Fields
    /\ ReceiptFields = {"sn", "remark"} /\ ReceiptFields \cap PlanFields = {}
    /\ KeywordField \in PlanFields /\ KeywordField = Plan[1]
<1>1. Plan \in Seq(PlanFields) /\ Plan # <<>>
  BY PlanAssumption
<1>2. Len(Plan) \in Nat /\ Len(Plan) # 0
  BY <1>1
<1>3. 1 \in 1..Len(Plan) /\ \A i \in 1..Len(Plan) : Plan[i] \in PlanFields
  BY <1>2 DEF PlanFields
<1>4. ReceiptFields = {"sn", "remark"} /\ ReceiptFields \cap PlanFields = {}
  BY PlanAssumption DEF ReceiptFields
<1> QED
  BY <1>2, <1>3, <1>4 DEF Fields, KeywordField

\* A write to a field sets that field and those it changes.
LEMMA PutIs ==
    ASSUME FormTyped, NEW f \in Fields, NEW v \in {"orig", "test"}, NEW val \in Put(f, v)
    PROVE  /\ val \in [Fields -> Values]
           /\ \A g \in Fields : g # f /\ <<f, g>> \notin Cascade => val[g] = form.val[g]
<1>1. PICK w \in {v, "odd"}, hit \in SUBSET {g \in Fields : <<f, g>> \in Cascade} :
         val = [g \in Fields |-> IF g = f THEN w
                                 ELSE IF g \in hit THEN "odd" ELSE form.val[g]]
  BY DEF Put
<1> QED
  BY <1>1 DEF FormTyped, Values

\* The fields of the receipt form change no field of a plan, and the remark,
\* which is put back last, changes the SN only if that counts as changed later.
LEMMA PlainPut ==
    ASSUME FormTyped, NEW f \in ReceiptFields, NEW v \in {"orig", "test"},
           NEW val \in Put(f, v)
    PROVE  /\ val \in [Fields -> Values]
           /\ \A g \in Fields \ ReceiptFields : val[g] = form.val[g]
           /\ f = "remark" =>
                 \A g \in Fields \ ChangedLater : g # f => val[g] = form.val[g]
<1>1. f \in Fields
  BY PlanIs
<1>2. \A g \in Fields \ ReceiptFields : <<f, g>> \notin Cascade /\ g # f
  BY PlanIs, PlanAssumption
<1>3. /\ val \in [Fields -> Values]
      /\ \A g \in Fields : g # f /\ <<f, g>> \notin Cascade => val[g] = form.val[g]
  BY <1>1, PutIs
<1>4. ASSUME f = "remark", NEW g \in Fields \ ChangedLater, g # f
      PROVE  val[g] = form.val[g]
  <2>1. CASE g \in ReceiptFields
    <3>1. g = "sn"
      BY <1>4, <2>1 DEF ReceiptFields
    <3>2. <<f, g>> \notin Cascade
      BY <1>4, <3>1 DEF ChangedLater
    <3> QED
      BY <1>3, <1>4, <3>2
  <2>2. CASE g \notin ReceiptFields
    BY <1>2, <1>3, <2>2
  <2> QED
    BY <2>1, <2>2
<1> QED
  BY <1>2, <1>3, <1>4

\* Those of a plan change no field outside it, and one that comes later only if
\* that counts as changed later.
LEMMA PlanPut ==
    ASSUME FormTyped, NEW i \in 1..Len(Plan), NEW v \in {"orig", "test"},
           NEW val \in Put(Plan[i], v)
    PROVE  /\ val \in [Fields -> Values]
           /\ \A g \in Fields \ PlanFields : val[g] = form.val[g]
           /\ \A j \in 1..Len(Plan) :
                 i < j /\ Plan[j] \notin ChangedLater => val[Plan[j]] = form.val[Plan[j]]
<1>1. Plan[i] \in PlanFields /\ PlanFields \subseteq Fields /\ Len(Plan) \in Nat
  BY PlanIs
<1>2. \A g \in Fields \ PlanFields : <<Plan[i], g>> \notin Cascade
  BY <1>1, PlanIs, PlanAssumption
<1>3. ASSUME NEW j \in 1..Len(Plan), i < j, Plan[j] \notin ChangedLater
      PROVE  <<Plan[i], Plan[j]>> \notin Cascade /\ Plan[i] # Plan[j] /\ Plan[j] \in Fields
  <2>1. Plan[j] \in Fields
    BY PlanIs
  <2>2. <<Plan[i], Plan[j]>> \notin Cascade
    BY <1>3, <2>1 DEF ChangedLater
  <2>3. i # j
    BY <1>1, <1>3
  <2>4. Plan[i] # Plan[j]
    BY <2>3, PlanAssumption
  <2> QED
    BY <2>1, <2>2, <2>4
<1>4. /\ val \in [Fields -> Values]
      /\ \A g \in Fields : g # Plan[i] /\ <<Plan[i], g>> \notin Cascade => val[g] = form.val[g]
  BY <1>1, PutIs
<1> QED
  BY <1>1, <1>2, <1>3, <1>4

\* The keyword changes fields of a plan that come later.
LEMMA KeywordPut ==
    ASSUME FormTyped, NEW v \in {"orig", "test"}, NEW val \in Put(KeywordField, v)
    PROVE  /\ val \in [Fields -> Values]
           /\ \A g \in Fields \ ChangedLater : g # KeywordField => val[g] = form.val[g]
<1>1. 1 \in 1..Len(Plan) /\ KeywordField = Plan[1] /\ Len(Plan) \in Nat
  BY PlanIs
<1>2. /\ val \in [Fields -> Values]
      /\ \A g \in Fields \ PlanFields : val[g] = form.val[g]
      /\ \A j \in 1..Len(Plan) :
            1 < j /\ Plan[j] \notin ChangedLater => val[Plan[j]] = form.val[Plan[j]]
  BY <1>1, PlanPut
<1>3. ASSUME NEW g \in Fields \ ChangedLater, g # KeywordField, g \in PlanFields
      PROVE  val[g] = form.val[g]
  <2>1. PICK j \in 1..Len(Plan) : g = Plan[j]
    BY <1>3 DEF PlanFields
  <2>2. 1 < j
    BY <1>1, <1>3, <2>1
  <2> QED
    BY <1>2, <1>3, <2>1, <2>2
<1> QED
  BY <1>2, <1>3

(***************************************************************************)
(* The steps of a dry run.                                                 *)
(***************************************************************************)

\* What every step of a dry run but the first, the guard and the last does.
FormMoves ==
    /\ UNCHANGED <<guard, saved, result, view, diag>>
    /\ FormTyped'
    /\ call'.op = call.op /\ call'.pc \in FormPcs(call.op)
    /\ call.error => call'.error
    /\ call'.error => call'.pc \in ErrorPcs
    /\ ~call'.error /\ call.pc \in Unguarded => call'.pc \in Unguarded
    /\ guard.on \/ (call'.filled = {} /\ Changed' = {} /\ call.op = "simulate")
    /\ Progress'
    /\ Remembered'

\* The dry runs are no diagnoses, and are not idle.
LEMMA OpsDiffer ==
    ASSUME NEW op \in Ops
    PROVE  /\ op \notin Diagnoses /\ op \notin MovingOps /\ op \notin Watching /\ op # "none"
           /\ \A pc \in FormPcs(op) :
                 /\ pc # "idle" /\ pc # "look" /\ pc # "move" /\ pc \notin BeforeGuard
                 /\ pc \notin {"tab", "seek", "tabled", "leave"}
BY DEF Ops, Diagnoses, MovingOps, ReadingOps, Watching, FormPcs, BeforeGuard

\* Without a guard a simulation has touched nothing.
LEMMA GuardIs ==
    ASSUME Inv, call.op \in Ops, call.pc # "guard"
    PROVE  /\ ~call.error /\ call.pc \notin Unguarded => guard.on
           /\ guard.on \/ (call.filled = {} /\ Changed = {} /\ call.op = "simulate")
BY DEF Inv, Guarded

LEMMA FormStep ==
    ASSUME Inv, call.op \in Ops, FormMoves
    PROVE  Inv'
<1>1. /\ call.op \notin Diagnoses /\ call.op \notin MovingOps /\ call.op \notin Watching
      /\ call.op # "none" /\ call'.pc # "idle" /\ call'.pc # "look" /\ call'.pc # "move"
      /\ call'.pc \notin {"tab", "seek", "tabled", "leave"} /\ call'.pc \notin BeforeGuard
      /\ call.pc \in FormPcs(call.op)
  BY OpsDiffer DEF Inv, Paths, FormMoves
<1>2. call.pc # "idle" /\ call.pc # "look" /\ call.pc \notin {"tab", "seek", "tabled", "leave"}
  BY <1>1, OpsDiffer
<1>3. ~view.stirred /\ ~view.listening /\ diag.was = "none" /\ ~result.ok /\ saved = {}
  BY <1>1, <1>2 DEF Inv, Owned, Looking, Answered
<1>4. TableTyped' /\ FormTyped' /\ Progress' /\ Remembered'
  BY DEF Inv, FormMoves, TableTyped
<1>5. Paths'
  BY DEF FormMoves, Paths
<1>6. Guarded'
  <2>1. ~call'.error => ~call.error
    BY DEF FormMoves
  <2>2. ~call'.error /\ call'.pc \notin Unguarded' => call.pc \notin Unguarded
    BY DEF FormMoves, Unguarded
  <2> QED
    BY <1>1, <2>1, <2>2 DEF Inv, Guarded, FormMoves
<1>7. Owned'
  BY <1>1, <1>3 DEF Owned, FormMoves
<1>8. Looking'
  BY <1>1, <1>3 DEF FormMoves, Looking
<1>9. Answered'
  BY <1>3 DEF Answered, FormMoves
<1> QED
  BY <1>4, <1>5, <1>6, <1>7, <1>8, <1>9 DEF Inv

\* What a step of a dry run leaves alone.
Rest == UNCHANGED <<guard, saved, result, view, diag>>

\* A step that meets an error, whatever it has done to the form.
LEMMA ErrorStep ==
    ASSUME Inv, call.op \in Ops, Rest, FormTyped',
           call'.op = call.op, call'.pc \in FormPcs(call.op), call'.pc \in ErrorPcs,
           call'.error,
           guard.on \/ (call'.filled = {} /\ Changed' = {} /\ call.op = "simulate")
    PROVE  Inv'
<1>1. call'.pc \notin {"snapshot", "write", "restore", "snSafe", "fillRemark", "remarkSafe",
                       "verify", "rolledBack", "closePage"} \cup BeforePrefill
  BY DEF ErrorPcs, BeforePrefill
<1>2. Progress'
  BY <1>1 DEF Progress, At
<1>3. Remembered'
  BY DEF Remembered
<1>4. FormMoves
  BY <1>2, <1>3 DEF FormMoves, Rest
<1> QED
  BY <1>4, FormStep

LEMMA ThrowStep ==
    ASSUME Inv, call.op \in Ops, call.pc # "guard", Rest, Throw, form' = form
    PROVE  Inv'
<1>1. /\ DOMAIN call' = CallFields /\ call'.at = call.at /\ call'.snaps = call.snaps
      /\ call'.op = call.op /\ call'.pc = "finally" /\ call'.error
      /\ call'.doubt = call.doubt /\ call'.filled = call.filled
  BY DEF Inv, FormTyped, CallFields, Throw
<1>2. FormTyped'
  BY <1>1 DEF Inv, FormTyped
<1>3. call'.pc \in FormPcs(call.op) /\ call'.pc \in ErrorPcs
  BY <1>1 DEF FormPcs, ErrorPcs
<1>4. guard.on \/ (call'.filled = {} /\ Changed' = {} /\ call.op = "simulate")
  BY <1>1, GuardIs DEF Changed
<1> QED
  BY <1>1, <1>2, <1>3, <1>4, ErrorStep

\* A step that goes on, and changes neither the form nor what a call keeps.
LEMMA GotoStep ==
    ASSUME Inv, call.op \in Ops, call.pc # "guard", Rest, form' = form, NEW pc, Goto(pc),
           pc \in FormPcs(call.op),
           call.error => pc \in ErrorPcs,
           call.pc \in Unguarded => pc \in Unguarded,
           Progress', ~call.error /\ form.open => MayDiffer \subseteq MayDiffer'
    PROVE  Inv'
<1>1. /\ DOMAIN call' = CallFields /\ call'.at = call.at /\ call'.snaps = call.snaps
      /\ call'.op = call.op /\ call'.pc = pc /\ (call'.error <=> call.error)
      /\ call'.doubt = call.doubt /\ call'.filled = call.filled
  BY DEF Inv, FormTyped, CallFields, Goto
<1>2. FormTyped'
  BY <1>1 DEF Inv, FormTyped
<1>3. ~call.error /\ form.open => May \subseteq May'
  BY <1>1 DEF May
<1>4. Remembered'
  BY <1>1, <1>3 DEF Inv, Remembered
<1>5. guard.on \/ (call'.filled = {} /\ Changed' = {} /\ call.op = "simulate")
  BY <1>1, GuardIs DEF Changed
<1>6. FormMoves
  BY <1>1, <1>2, <1>4, <1>5 DEF FormMoves, Rest
<1> QED
  BY <1>6, FormStep

LEMMA AssertSafeKeeps ==
    ASSUME Inv, assertSafe, UNCHANGED <<view, diag>>
    PROVE  Inv'
<1>1. /\ call.pc \in {"opened", "snSafe", "remarkSafe", "searched", "restored",
                     "rolledBack", "prefilled", "last"}
      /\ Rest /\ form' = form
  BY DEF assertSafe, AfterSafe, Rest
<1>2. call.op \in Ops /\ call.pc \in FormPcs(call.op) /\ ~call.error
  BY <1>1 DEF Inv, Paths, DiagnosisPcs, ErrorPcs
<1>3. CASE Throw
  BY <1>1, <1>2, <1>3, ThrowStep
<1>4. CASE Goto(AfterSafe[call.pc])
  <2> DEFINE pc == AfterSafe[call.pc]
  <2>1. pc \in FormPcs(call.op)
    BY <1>1, <1>2 DEF AfterSafe, FormPcs
  <2>2. call.pc \notin Unguarded
    BY <1>1 DEF Unguarded
  <2>3. /\ call'.op = call.op /\ call'.pc = pc /\ call'.doubt = call.doubt
        /\ call'.filled = call.filled /\ call'.at = call.at /\ call'.snaps = call.snaps
        /\ (call'.restore <=> call.restore) /\ (call'.closed => call.closed)
    BY <1>4 DEF Inv, FormTyped, CallFields, Goto
  <2>4. Progress'
    BY <1>1, <1>2, <2>3 DEF Inv, Progress, BeforePrefill, AfterSafe, At, FormPcs
  <2>5. MayDiffer \subseteq MayDiffer'
    BY <1>1, <2>3 DEF MayDiffer, AfterSafe
  <2> QED
    BY <1>1, <1>2, <1>4, <2>1, <2>2, <2>4, <2>5, GotoStep
<1> QED
  BY <1>3, <1>4 DEF assertSafe

LEMMA NoFormIs ==
    /\ DOMAIN NoForm = {"open", "val"} /\ ~NoForm.open
    /\ NoForm.val \in [Fields -> Values]
    /\ \A f \in Fields : NoForm.val[f] = "orig"
<1>1. NoForm = [open |-> FALSE, val |-> AsFound]
  BY DEF NoForm
<1>2. AsFound \in [Fields -> Values] /\ \A f \in Fields : AsFound[f] = "orig"
  BY DEF AsFound, Values
<1> QED
  BY <1>1, <1>2

\* Closing leaves the form or takes it away.
LEMMA TryIs ==
    ASSUME FormTyped, NEW open \in BOOLEAN, TryToClose(open)
    PROVE  /\ DOMAIN form' = {"open", "val"} /\ form'.val \in [Fields -> Values]
           /\ form'.open => form' = form /\ form.open
           /\ ~open => ~form'.open
BY NoFormIs DEF TryToClose, FormTyped

LEMMA OpenKeeps ==
    ASSUME Inv, openReceiptFormForDryRun, UNCHANGED <<view, diag>>
    PROVE  Inv'
<1> DEFINE blank == [NoForm EXCEPT !.open = TRUE]
<1>1. call.pc = "open" /\ call.op \in Ops /\ ~call.error /\ Rest
  BY DEF openReceiptFormForDryRun, Inv, Paths, DiagnosisPcs, ErrorPcs, Rest
<1>2. /\ DOMAIN blank = {"open", "val"} /\ blank.val \in [Fields -> Values]
      /\ \A f \in Fields : blank.val[f] = "orig"
  BY NoFormIs
<1> HIDE DEF blank
<1>3. /\ DOMAIN form' = {"open", "val"} /\ form'.val \in [Fields -> Values]
      /\ \A f \in Fields : form'.val[f] = "orig"
  BY <1>2, NoFormIs DEF openReceiptFormForDryRun, blank
<1>4. Remembered'
  BY <1>3 DEF Remembered
<1>7. guard.on \/ (call.filled = {} /\ Changed' = {} /\ call.op = "simulate")
  BY <1>1, <1>3, GuardIs DEF Changed
<1>5. CASE Goto(IF call.op \in {"inspect", "simulate"} THEN "locate" ELSE "opened")
  <2>1. /\ DOMAIN call' = CallFields /\ call'.at = call.at /\ call'.snaps = call.snaps
        /\ call'.op = call.op /\ ~call'.error
        /\ call'.doubt = call.doubt /\ call'.filled = call.filled
        /\ call'.pc = IF call.op \in {"inspect", "simulate"} THEN "locate" ELSE "opened"
    BY <1>1, <1>5 DEF Inv, FormTyped, CallFields, Goto
  <2>2. FormTyped'
    BY <1>3, <2>1 DEF Inv, FormTyped
  <2>3. Progress'
    BY <1>1, <2>1 DEF Inv, Progress, BeforePrefill, At
  <2>4. call'.pc \in FormPcs(call.op) /\ (call.pc \in Unguarded => call'.pc \in Unguarded)
    BY <1>1, <2>1 DEF FormPcs, Unguarded, Ops
  <2> QED
    BY <1>1, <1>4, <1>7, <2>1, <2>2, <2>3, <2>4, FormStep DEF FormMoves, Rest
<1>6. CASE call' = [call EXCEPT !.error = TRUE,
                                !.pc = IF call.op \in {"detect", "repair"} THEN "finally"
                                       ELSE "stop"]
  <2>1. /\ DOMAIN call' = CallFields /\ call'.at = call.at /\ call'.snaps = call.snaps
        /\ call'.op = call.op /\ call'.error
        /\ call'.doubt = call.doubt /\ call'.filled = call.filled
        /\ call'.pc \in {"finally", "stop"}
    BY <1>1, <1>6 DEF Inv, FormTyped, CallFields
  <2>2. FormTyped'
    BY <1>3, <2>1 DEF Inv, FormTyped
  <2>3. call'.pc \in FormPcs(call.op) /\ call'.pc \in ErrorPcs
    BY <2>1 DEF FormPcs, ErrorPcs
  <2> QED
    BY <1>1, <1>7, <2>1, <2>2, <2>3, ErrorStep
<1> QED
  BY <1>5, <1>6 DEF openReceiptFormForDryRun

\* The guard comes before anything could have been saved.
LEMMA GuardKeeps ==
    ASSUME Inv, createReceiptNetworkGuard, UNCHANGED <<view, diag>>
    PROVE  Inv'
<1>1. /\ call.pc = "guard" /\ call.op \in Ops /\ ~call.error
      /\ UNCHANGED <<form, saved, result>>
      /\ guard' = [on |-> TRUE, blocked |-> FALSE]
  BY DEF createReceiptNetworkGuard, Inv, Paths, DiagnosisPcs, ErrorPcs
<1>2. /\ DOMAIN call' = CallFields /\ call'.at = call.at /\ call'.snaps = call.snaps
      /\ call'.op = call.op /\ ~call'.error
      /\ call'.doubt = call.doubt
      /\ call'.pc = IF call.op = "simulate" THEN "read" ELSE "open"
  BY <1>1 DEF createReceiptNetworkGuard, Inv, FormTyped, CallFields, Goto
<1>3. guard'.on /\ DOMAIN guard' = {"on", "blocked"}
  BY <1>1
<1>4. /\ call.op \notin Diagnoses /\ call.op \notin MovingOps /\ call.op \notin Watching
      /\ call.op # "none" /\ call'.pc \in {"read", "open"} /\ call'.pc \in FormPcs(call.op)
      /\ call'.pc \notin {"idle", "move", "look"} \cup BeforeGuard
  BY <1>1, <1>2, OpsDiffer DEF FormPcs, BeforeGuard
<1>5. saved = {} /\ ~view.stirred /\ ~view.listening /\ diag.was = "none" /\ ~result.ok
  BY <1>1, <1>4 DEF Inv, Owned, Looking, Answered
<1>6. FormTyped' /\ TableTyped'
  BY <1>1, <1>2, <1>3 DEF Inv, FormTyped, TableTyped
<1>7. Paths' /\ Guarded'
  BY <1>1, <1>2, <1>3, <1>4 DEF Paths, Guarded
<1>8. Progress' /\ Remembered'
  <2>1. Progress'
    BY <1>1, <1>2 DEF Inv, Progress, BeforePrefill, At
  <2>2. MayDiffer = {} /\ MayDiffer' = {}
    BY <1>1, <1>2 DEF MayDiffer
  <2> QED
    BY <1>1, <1>2, <2>1, <2>2 DEF Inv, Remembered, May
<1>9. Owned' /\ Looking' /\ Answered'
  BY <1>1, <1>2, <1>4, <1>5 DEF Owned, Looking, Answered
<1> QED
  BY <1>6, <1>7, <1>8, <1>9 DEF Inv

LEMMA LocateKeeps ==
    ASSUME Inv, locateReceiptFormControls, UNCHANGED <<view, diag>>
    PROVE  Inv'
<1>1. /\ call.pc = "locate" /\ call.op \in Ops /\ call.op # "detect" /\ ~call.error
      /\ Rest /\ form' = form
  BY DEF locateReceiptFormControls, Inv, Paths, DiagnosisPcs, FormPcs, ErrorPcs, Rest
<1>2. CASE form.open /\ Goto(IF call.op = "simulate" THEN "guard" ELSE "opened")
  <2> DEFINE pc == IF call.op = "simulate" THEN "guard" ELSE "opened"
  <2>1. /\ call'.op = call.op /\ call'.pc = pc /\ call'.doubt = call.doubt
        /\ call'.snaps = call.snaps
    BY <1>2 DEF Inv, FormTyped, CallFields, Goto
  <2>2. Progress'
    BY <1>1, <1>2, <2>1 DEF Inv, Progress, BeforePrefill, At
  <2>3. pc \in FormPcs(call.op) /\ (call.pc \in Unguarded => pc \in Unguarded)
    BY <1>1 DEF FormPcs, Unguarded
  <2>4. MayDiffer \subseteq MayDiffer'
    BY <1>1 DEF MayDiffer
  <2> QED
    BY <1>1, <1>2, <2>2, <2>3, <2>4, GotoStep
<1>3. CASE Throw
  BY <1>1, <1>3, ThrowStep
<1> QED
  BY <1>2, <1>3 DEF locateReceiptFormControls

LEMMA CloseKeeps ==
    ASSUME Inv, closeDialog, UNCHANGED <<view, diag>>
    PROVE  Inv'
<1>1. call.pc = "close" /\ call.op \in Ops /\ call.op # "simulate" /\ ~call.error /\ Rest
  BY DEF closeDialog, Inv, Paths, DiagnosisPcs, ErrorPcs, Rest, FormPcs
<1>2. PICK open \in BOOLEAN, closed \in BOOLEAN :
         /\ TryToClose(open)
         /\ call' = [call EXCEPT !.pc = "last", !.closed = closed, !.tried = TRUE]
  BY DEF closeDialog
<1>3. /\ DOMAIN form' = {"open", "val"} /\ form'.val \in [Fields -> Values]
      /\ form'.open => form' = form /\ form.open
  BY <1>2, TryIs DEF Inv
<1>4. /\ DOMAIN call' = CallFields /\ call'.at = call.at /\ call'.snaps = call.snaps
      /\ call'.op = call.op /\ call'.pc = "last" /\ ~call'.error
      /\ call'.doubt = call.doubt
  BY <1>1, <1>2 DEF Inv, FormTyped, CallFields
<1>5. FormTyped'
  BY <1>3, <1>4 DEF Inv, FormTyped
<1>6. Progress'
  BY <1>1, <1>4 DEF Inv, Progress, BeforePrefill, At
<1>7. Remembered'
  <2>1. MayDiffer = {} /\ MayDiffer' = {}
    BY <1>1, <1>4 DEF MayDiffer
  <2> QED
    BY <1>1, <1>3, <1>4, <2>1 DEF Inv, Remembered, May
<1>8. call'.pc \in FormPcs(call.op) /\ call.pc \notin Unguarded /\ guard.on
  BY <1>1, <1>4, GuardIs DEF FormPcs, Unguarded
<1> QED
  BY <1>1, <1>4, <1>5, <1>6, <1>7, <1>8, FormStep DEF FormMoves, Rest

LEMMA ReadKeeps ==
    ASSUME Inv, readOriginals, UNCHANGED <<view, diag>>
    PROVE  Inv'
<1>1. At("simulate", "read") /\ call.op \in Ops /\ ~call.error /\ Rest /\ form' = form
  BY DEF readOriginals, Inv, Paths, At, ErrorPcs, Rest, Ops
<1>2. CASE Goto("fillSn")
  <2>1. call'.op = call.op /\ call'.pc = "fillSn" /\ call'.doubt = call.doubt
    BY <1>2 DEF Inv, FormTyped, CallFields, Goto
  <2>2. Progress'
    BY <1>1, <2>1 DEF Inv, Progress, BeforePrefill, At
  <2>3. "fillSn" \in FormPcs(call.op) /\ call.pc \notin Unguarded
    BY <1>1 DEF FormPcs, Unguarded, At
  <2>4. MayDiffer \subseteq MayDiffer'
    BY <1>1 DEF MayDiffer, At
  <2> QED
    BY <1>1, <1>2, <2>2, <2>3, <2>4, GotoStep DEF At
<1>3. CASE Throw
  BY <1>1, <1>3, ThrowStep DEF At
<1> QED
  BY <1>2, <1>3 DEF readOriginals

(***************************************************************************)
(* The receipt form is filled and emptied.                                 *)
(***************************************************************************)

\* Filling a field changes it and those of its form.
LEMMA FillIs ==
    ASSUME FormTyped, NEW f \in Fields, NEW v \in {"orig", "test"},
           NEW a, NEW b, Fill(f, v, a, b)
    PROVE  /\ DOMAIN form' = {"open", "val"} /\ form'.val \in [Fields -> Values]
           /\ form'.open = form.open
           /\ f \in ReceiptFields =>
                 \A g \in Fields \ ReceiptFields : form'.val[g] = form.val[g]
           /\ f = KeywordField =>
                 \A g \in Fields \ ChangedLater : g # f => form'.val[g] = form.val[g]
           /\ call' \in {a, b}
<1>1. CASE form' = form
  BY <1>1 DEF Fill, FormTyped
<1>2. ASSUME NEW val \in Put(f, v), form' = [form EXCEPT !.val = val]
      PROVE  /\ DOMAIN form' = {"open", "val"} /\ form'.val \in [Fields -> Values]
             /\ form'.open = form.open
             /\ f \in ReceiptFields =>
                   \A g \in Fields \ ReceiptFields : form'.val[g] = form.val[g]
             /\ f = KeywordField =>
                   \A g \in Fields \ ChangedLater : g # f => form'.val[g] = form.val[g]
  <2>1. val \in [Fields -> Values]
    BY PutIs
  <2>2. f \in ReceiptFields => \A g \in Fields \ ReceiptFields : val[g] = form.val[g]
    BY PlainPut
  <2>3. f = KeywordField => \A g \in Fields \ ChangedLater : g # f => val[g] = form.val[g]
    BY KeywordPut
  <2> QED
    BY <1>2, <2>1, <2>2, <2>3 DEF FormTyped
<1> QED
  BY <1>1, <1>2 DEF Fill

LEMMA SimulateKeeps ==
    ASSUME Inv, simulateReceiptForm, UNCHANGED <<view, diag>>
    PROVE  Inv'
<1>1. /\ call.op = "simulate" /\ call.op \in Ops /\ Rest
      /\ call.pc \in {"fillSn", "fillRemark", "verify"}
      /\ call.pc \notin Unguarded
  BY DEF simulateReceiptForm, At, Rest, Ops, Unguarded
<1>2. ~call.error /\ guard.on
  BY <1>1, GuardIs DEF Inv, Paths, ErrorPcs
<1>3. ASSUME NEW f \in {"sn", "remark"}, NEW pc \in {"snSafe", "remarkSafe"},
             NEW filled,
             Fill(f, "test", [call EXCEPT !.pc = pc, !.filled = filled],
                             [call EXCEPT !.pc = "finally", !.error = TRUE]),
             \/ call.pc = "fillSn" /\ f = "sn" /\ pc = "snSafe" /\ filled = {"sn"}
             \/ call.pc = "fillRemark" /\ f = "remark" /\ pc = "remarkSafe"
                                       /\ filled = {"sn", "remark"}
      PROVE  Inv'
  <2>1. /\ DOMAIN form' = {"open", "val"} /\ form'.val \in [Fields -> Values]
        /\ form'.open = form.open
        /\ \A g \in Fields \ ReceiptFields : form'.val[g] = form.val[g]
    BY <1>3, FillIs, PlanIs DEF Inv
  <2>2. CASE call' = [call EXCEPT !.pc = pc, !.filled = filled]
    <3>1. /\ DOMAIN call' = CallFields /\ call'.at = call.at /\ call'.snaps = call.snaps
          /\ call'.op = call.op /\ call'.pc = pc /\ ~call'.error
          /\ call'.doubt = call.doubt /\ call'.filled = filled
      BY <1>2, <2>2 DEF Inv, FormTyped, CallFields
    <3>2. FormTyped'
      BY <2>1, <3>1 DEF Inv, FormTyped
    <3>3. Progress'
      BY <1>1, <1>3, <2>1, <3>1 DEF Inv, Progress, BeforePrefill, At
    <3>4. MayDiffer' = ReceiptFields /\ MayDiffer \subseteq ReceiptFields
      BY <1>1, <1>3, <3>1 DEF MayDiffer
    <3>5. Remembered'
      BY <1>1, <1>2, <2>1, <3>1, <3>4 DEF Inv, Remembered, May
    <3>6. call'.pc \in FormPcs(call.op)
      BY <1>1, <3>1 DEF FormPcs
    <3> QED
      BY <1>1, <1>2, <3>1, <3>2, <3>3, <3>5, <3>6, FormStep DEF FormMoves, Rest
  <2>3. CASE call' = [call EXCEPT !.pc = "finally", !.error = TRUE]
    <3>1. /\ DOMAIN call' = CallFields /\ call'.at = call.at /\ call'.snaps = call.snaps
          /\ call'.op = call.op /\ call'.pc = "finally" /\ call'.error
          /\ call'.doubt = call.doubt
      BY <2>3 DEF Inv, FormTyped, CallFields
    <3>2. FormTyped'
      BY <2>1, <3>1 DEF Inv, FormTyped
    <3>3. call'.pc \in FormPcs(call.op) /\ call'.pc \in ErrorPcs
      BY <3>1 DEF FormPcs, ErrorPcs
    <3> QED
      BY <1>1, <2>1, <3>1, <3>2, <3>3, <1>2, ErrorStep
  <2> QED
    BY <1>3, <2>2, <2>3, FillIs, PlanIs DEF Inv
<1>4. CASE At("simulate", "fillSn")
  BY <1>3, <1>4 DEF simulateReceiptForm, At
<1>5. CASE At("simulate", "fillRemark")
  <2>1. call.filled = {"sn"}
    BY <1>5 DEF Inv, Progress, BeforePrefill, At
  <2>2. Fill("remark", "test",
             [call EXCEPT !.pc = "remarkSafe", !.filled = {"sn", "remark"}],
             [call EXCEPT !.pc = "finally", !.error = TRUE])
    <3>1. call.filled \cup {"remark"} = {"sn", "remark"}
      BY <2>1
    <3>2. Fill("remark", "test",
               [call EXCEPT !.pc = "remarkSafe", !.filled = call.filled \cup {"remark"}],
               [call EXCEPT !.pc = "finally", !.error = TRUE])
      BY <1>5 DEF simulateReceiptForm, At
    <3> QED
      BY <3>1, <3>2
  <2> QED
    BY <1>3, <1>5, <2>2 DEF At
<1>6. CASE At("simulate", "verify")
  <2>1. /\ DOMAIN call' = CallFields /\ call'.at = call.at /\ call'.snaps = call.snaps
        /\ call'.op = call.op /\ call'.pc = "finally"
        /\ call'.doubt = call.doubt /\ call'.filled = call.filled
        /\ form' = form
    BY <1>6 DEF simulateReceiptForm, At, Inv, FormTyped, CallFields
  <2>2. FormTyped'
    BY <2>1 DEF Inv, FormTyped
  <2>3. Progress'
    BY <1>6, <2>1 DEF Inv, Progress, BeforePrefill, At
  <2>4. MayDiffer = MayDiffer'
    BY <1>6, <2>1 DEF MayDiffer, At
  <2>5. Remembered'
    BY <1>1, <1>2, <2>1, <2>4 DEF Inv, Remembered, May
  <2>6. call'.pc \in FormPcs(call.op) /\ call'.pc \in ErrorPcs
    BY <2>1 DEF FormPcs, ErrorPcs
  <2> QED
    BY <1>1, <1>2, <2>1, <2>2, <2>3, <2>5, <2>6, FormStep DEF FormMoves, Rest
<1> QED
  BY <1>4, <1>5, <1>6 DEF simulateReceiptForm

\* A field is put back, or an error remembered.
LEMMA PutBackKeeps ==
    ASSUME Inv, Rest, NEW f \in {"sn", "remark"}, NEW pc \in {"cleanRemark", "escape"},
           call.op = "simulate", PutBack(f, pc),
           \/ call.pc = "finally" /\ f = "sn" /\ pc = "cleanRemark"
           \/ call.pc = "cleanRemark" /\ f = "remark" /\ pc = "escape"
    PROVE  Inv'
<1>1. /\ call.op \in Ops /\ pc \in ErrorPcs /\ pc \in FormPcs(call.op)
      /\ "escape" \in ErrorPcs /\ "escape" \in FormPcs(call.op) /\ call.pc \notin Unguarded
      /\ (guard.on \/ (call.filled = {} /\ Changed = {})) /\ f \in ReceiptFields
  BY GuardIs, PlanIs DEF Ops, ErrorPcs, FormPcs, Unguarded
<1>2. f \notin call.filled => call.error
  BY DEF Inv, Progress
<1>3. CASE f \notin call.filled
  <2>1. form' = form /\ Goto(pc)
    BY <1>3 DEF PutBack
  <2>2. /\ DOMAIN call' = CallFields /\ call'.at = call.at /\ call'.snaps = call.snaps
        /\ call'.op = call.op /\ call'.pc = pc /\ (call'.error <=> call.error)
        /\ call'.doubt = call.doubt /\ call'.filled = call.filled
    BY <2>1 DEF Inv, FormTyped, CallFields, Goto
  <2>3. FormTyped'
    BY <2>1, <2>2 DEF Inv, FormTyped
  <2> QED
    BY <1>1, <1>2, <1>3, <2>1, <2>2, <2>3, ErrorStep DEF Changed
<1>4. ASSUME f \in call.filled, form.open,
             NEW val \in Put(f, "orig"), form' = [form EXCEPT !.val = val],
             call' = [call EXCEPT !.pc = pc,
                                  !.error = @ \/ guard.blocked \/ val[f] # "orig"]
      PROVE  Inv'
  <2>1. /\ val \in [Fields -> Values]
        /\ \A g \in Fields \ ReceiptFields : val[g] = form.val[g]
        /\ f = "remark" =>
              \A g \in Fields \ ChangedLater : g # f => val[g] = form.val[g]
    BY <1>1, PlainPut DEF Inv
  <2>2. /\ DOMAIN form' = {"open", "val"} /\ form'.val = val /\ form'.open = form.open
    BY <1>4 DEF Inv, FormTyped
  <2>3. /\ DOMAIN call' = CallFields /\ call'.at = call.at /\ call'.snaps = call.snaps
        /\ call'.op = call.op /\ call'.pc = pc /\ (call.error => call'.error)
        /\ (~call'.error => val[f] = "orig")
        /\ call'.doubt = call.doubt /\ call'.filled = call.filled
    BY <1>4 DEF Inv, FormTyped, CallFields
  <2>4. FormTyped'
    BY <2>1, <2>2, <2>3 DEF Inv, FormTyped
  <2>5. Progress'
    BY <2>2, <2>3 DEF Inv, Progress, BeforePrefill, At
  <2>6. ASSUME ~call'.error, form'.open, NEW g \in Fields \ May'
        PROVE  val[g] = "orig"
    <3>1. form.open /\ ~call.error /\ val[f] = "orig"
      BY <2>2, <2>3, <2>6
    <3>2. g \notin call.doubt /\ g \notin ChangedLater
      BY <2>3, <2>6 DEF May
    <3>3. CASE f = "sn"
      <4>1. MayDiffer = ReceiptFields /\ MayDiffer' = {"remark"}
        BY <2>3, <3>3 DEF MayDiffer
      <4>2. g # "remark"
        BY <2>6, <4>1 DEF May
      <4>3. CASE g = "sn"
        BY <3>1, <3>3, <4>3
      <4>4. CASE g \notin ReceiptFields
        <5>1. g \in Fields \ May
          BY <2>6, <3>2, <4>1, <4>4 DEF May
        <5> QED
          BY <1>1, <2>1, <2>6, <3>1, <4>4, <5>1 DEF Inv, Remembered
      <4> QED
        BY <4>2, <4>3, <4>4, PlanIs
    <3>4. CASE f = "remark"
      <4>1. MayDiffer = {"remark"}
        BY <3>4 DEF MayDiffer
      <4>2. CASE g # "remark"
        <5>1. g \in Fields \ May
          BY <2>6, <3>2, <4>1, <4>2 DEF May
        <5> QED
          BY <1>1, <2>1, <2>6, <3>1, <3>2, <3>4, <4>2, <5>1 DEF Inv, Remembered
      <4> QED
        BY <3>1, <3>4, <4>2
    <3> QED
      BY <3>3, <3>4
  <2>7. Remembered'
    BY <2>2, <2>6 DEF Remembered
  <2>8. guard.on
    BY <1>1, <1>4
  <2> QED
    BY <1>1, <2>3, <2>4, <2>5, <2>7, <2>8, FormStep DEF FormMoves, Rest
<1>5. ASSUME f \in call.filled,
             Fill(f, "orig", [call EXCEPT !.pc = "escape", !.error = TRUE],
                             [call EXCEPT !.pc = "escape", !.error = TRUE])
      PROVE  Inv'
  <2>1. /\ DOMAIN form' = {"open", "val"} /\ form'.val \in [Fields -> Values]
        /\ form'.open = form.open
        /\ call' = [call EXCEPT !.pc = "escape", !.error = TRUE]
    BY <1>1, <1>5, FillIs, PlanIs DEF Inv
  <2>2. /\ DOMAIN call' = CallFields /\ call'.at = call.at /\ call'.snaps = call.snaps
        /\ call'.op = call.op /\ call'.pc = "escape" /\ call'.error
        /\ call'.doubt = call.doubt
    BY <2>1 DEF Inv, FormTyped, CallFields
  <2>3. FormTyped'
    BY <2>1, <2>2 DEF Inv, FormTyped
  <2> QED
    BY <1>1, <1>5, <2>1, <2>2, <2>3, ErrorStep
<1> QED
  BY <1>3, <1>4, <1>5 DEF PutBack

LEMMA CleanKeeps ==
    ASSUME Inv, cleanReceiptForm, UNCHANGED <<view, diag>>
    PROVE  Inv'
<1>1. Rest
  BY DEF cleanReceiptForm, Rest
<1> QED
  BY <1>1, PutBackKeeps DEF cleanReceiptForm, At

LEMMA EscapeKeeps ==
    ASSUME Inv, escapeReceiptForm, UNCHANGED <<view, diag>>
    PROVE  Inv'
<1>1. call.op = "simulate" /\ call.pc = "escape" /\ call.op \in Ops /\ Rest
  BY DEF escapeReceiptForm, At, Rest, Ops
<1>2. PICK open \in BOOLEAN : TryToClose(open)
  BY DEF escapeReceiptForm
<1>3. /\ DOMAIN form' = {"open", "val"} /\ form'.val \in [Fields -> Values]
      /\ form'.open => form' = form /\ form.open
  BY <1>2, TryIs DEF Inv
<1>4. PICK failed \in BOOLEAN :
         call' = [call EXCEPT !.pc = "stop", !.error = @ \/ failed \/ guard.blocked]
  BY DEF escapeReceiptForm
<1>5. /\ DOMAIN call' = CallFields /\ call'.at = call.at /\ call'.snaps = call.snaps
      /\ call'.op = call.op /\ call'.pc = "stop" /\ (call.error => call'.error)
      /\ call'.doubt = call.doubt /\ call'.filled = call.filled
  BY <1>4 DEF Inv, FormTyped, CallFields
<1>6. FormTyped'
  BY <1>3, <1>5 DEF Inv, FormTyped
<1>7. Progress'
  BY <1>3, <1>5 DEF Inv, Progress, BeforePrefill, At
<1>8. Remembered'
  <2>1. MayDiffer = {} /\ MayDiffer' = {}
    BY <1>1, <1>5 DEF MayDiffer
  <2> QED
    BY <1>1, <1>3, <1>5, <2>1 DEF Inv, Remembered, May
<1>9. call'.pc \in FormPcs(call.op) /\ call'.pc \in ErrorPcs /\ call.pc \notin Unguarded
  BY <1>1, <1>5 DEF FormPcs, ErrorPcs, Unguarded
<1>10. guard.on \/ (call'.filled = {} /\ Changed' = {} /\ call.op = "simulate")
  BY <1>1, <1>3, <1>5, GuardIs DEF Changed
<1> QED
  BY <1>1, <1>5, <1>6, <1>7, <1>8, <1>9, <1>10, FormStep DEF FormMoves, Rest

(***************************************************************************)
(* The detection form is searched and prefilled.                           *)
(***************************************************************************)

LEMMA SearchKeeps ==
    ASSUME Inv, searchFaults, UNCHANGED <<view, diag>>
    PROVE  Inv'
<1>1. /\ call.op = "detect" /\ call.pc = "search" /\ call.op \in Ops /\ Rest
      /\ call.pc \notin Unguarded /\ call.snaps = 0
  BY DEF searchFaults, At, Rest, Ops, Unguarded, Inv, Progress, BeforePrefill
<1>2. ~call.error /\ guard.on
  BY <1>1, GuardIs DEF Inv, Paths, ErrorPcs
<1>3. CASE Goto("prefill") /\ form' = form
  <2>1. /\ call'.op = call.op /\ call'.pc = "prefill" /\ call'.doubt = call.doubt
        /\ call'.snaps = call.snaps
    BY <1>3 DEF Inv, FormTyped, CallFields, Goto
  <2>2. Progress'
    BY <1>1, <1>3, <2>1 DEF Inv, Progress, BeforePrefill, At
  <2>3. "prefill" \in FormPcs(call.op)
    BY <1>1 DEF FormPcs
  <2>4. MayDiffer \subseteq MayDiffer'
    BY <1>1 DEF MayDiffer
  <2> QED
    BY <1>1, <1>2, <1>3, <2>2, <2>3, <2>4, GotoStep
<1>4. ASSUME NEW doubt \in SUBSET {KeywordField},
             Fill(KeywordField, "test",
                  [call EXCEPT !.pc = "searched", !.filled = {KeywordField},
                               !.doubt = @ \cup doubt],
                  [call EXCEPT !.pc = "finally", !.filled = {KeywordField}, !.error = TRUE])
      PROVE  Inv'
  <2>1. /\ DOMAIN form' = {"open", "val"} /\ form'.val \in [Fields -> Values]
        /\ form'.open = form.open
        /\ \A g \in Fields \ ChangedLater : g # KeywordField => form'.val[g] = form.val[g]
    BY <1>4, FillIs, PlanIs DEF Inv
  <2>2. CASE call' = [call EXCEPT !.pc = "searched", !.filled = {KeywordField},
                                  !.doubt = @ \cup doubt]
    <3>1. /\ DOMAIN call' = CallFields /\ call'.at = call.at /\ call'.snaps = call.snaps
          /\ call'.op = call.op /\ call'.pc = "searched" /\ ~call'.error
          /\ call'.doubt = call.doubt \cup doubt
      BY <1>2, <2>2 DEF Inv, FormTyped, CallFields
    <3>2. FormTyped'
      BY <2>1, <3>1, PlanIs DEF Inv, FormTyped
    <3>3. Progress'
      BY <1>1, <3>1 DEF Inv, Progress, BeforePrefill, At
    <3>4. MayDiffer = {} /\ MayDiffer' = {KeywordField}
      BY <1>1, <3>1 DEF MayDiffer
    <3>5. Remembered'
      BY <1>1, <1>2, <2>1, <3>1, <3>4 DEF Inv, Remembered, May
    <3>6. call'.pc \in FormPcs(call.op)
      BY <1>1, <3>1 DEF FormPcs
    <3> QED
      BY <1>1, <1>2, <3>1, <3>2, <3>3, <3>5, <3>6, FormStep DEF FormMoves, Rest
  <2>3. CASE call' = [call EXCEPT !.pc = "finally", !.filled = {KeywordField}, !.error = TRUE]
    <3>1. /\ DOMAIN call' = CallFields /\ call'.at = call.at /\ call'.snaps = call.snaps
          /\ call'.op = call.op /\ call'.pc = "finally" /\ call'.error
          /\ call'.doubt = call.doubt
      BY <2>3 DEF Inv, FormTyped, CallFields
    <3>2. FormTyped'
      BY <2>1, <3>1 DEF Inv, FormTyped
    <3>3. call'.pc \in FormPcs(call.op) /\ call'.pc \in ErrorPcs
      BY <3>1 DEF FormPcs, ErrorPcs
    <3> QED
      BY <1>1, <1>2, <3>1, <3>2, <3>3, ErrorStep
  <2> QED
    BY <1>4, <2>2, <2>3, FillIs, PlanIs DEF Inv
<1>5. ASSUME NEW empty \in BOOLEAN,
             Fill(KeywordField, "test",
                  [call EXCEPT !.pc = "searched", !.filled = {KeywordField},
                               !.doubt = @ \cup (IF empty THEN {KeywordField} ELSE {})],
                  [call EXCEPT !.pc = "finally", !.filled = {KeywordField}, !.error = TRUE])
      PROVE  Inv'
  <2> DEFINE doubt == IF empty THEN {KeywordField} ELSE {}
  <2>1. doubt \in SUBSET {KeywordField}
    OBVIOUS
  <2>2. Fill(KeywordField, "test",
             [call EXCEPT !.pc = "searched", !.filled = {KeywordField},
                          !.doubt = @ \cup doubt],
             [call EXCEPT !.pc = "finally", !.filled = {KeywordField}, !.error = TRUE])
    BY <1>5
  <2> HIDE DEF doubt
  <2> QED
    BY <1>4, <2>1, <2>2
<1> QED
  BY <1>3, <1>5 DEF searchFaults

LEMMA KeywordKeeps ==
    ASSUME Inv, restoreKeyword, UNCHANGED <<view, diag>>
    PROVE  Inv'
<1>1. /\ call.op = "detect" /\ call.pc \in {"restoreKeyword", "keywordBack"}
      /\ call.op \in Ops /\ Rest /\ call.pc \notin Unguarded /\ call.snaps = 0
  BY DEF restoreKeyword, At, Rest, Ops, Unguarded, Inv, Progress, BeforePrefill
<1>2. ~call.error /\ guard.on
  BY <1>1, GuardIs DEF Inv, Paths, ErrorPcs
<1>3. CASE At("detect", "restoreKeyword")
  <2>1. Fill(KeywordField, "orig", [call EXCEPT !.pc = "restored"],
                                   [call EXCEPT !.pc = "finally", !.error = TRUE])
    BY <1>3 DEF restoreKeyword, At
  <2>2. /\ DOMAIN form' = {"open", "val"} /\ form'.val \in [Fields -> Values]
        /\ form'.open = form.open
        /\ \A g \in Fields \ ChangedLater : g # KeywordField => form'.val[g] = form.val[g]
    BY <2>1, FillIs, PlanIs DEF Inv
  <2>3. CASE call' = [call EXCEPT !.pc = "restored"]
    <3>1. /\ DOMAIN call' = CallFields /\ call'.at = call.at /\ call'.snaps = call.snaps
          /\ call'.op = call.op /\ call'.pc = "restored" /\ ~call'.error
          /\ call'.doubt = call.doubt
      BY <1>2, <2>3 DEF Inv, FormTyped, CallFields
    <3>2. FormTyped'
      BY <2>2, <3>1 DEF Inv, FormTyped
    <3>3. Progress'
      BY <1>1, <3>1 DEF Inv, Progress, BeforePrefill, At
    <3>4. MayDiffer = {KeywordField} /\ MayDiffer' = {KeywordField}
      BY <1>1, <1>3, <3>1 DEF MayDiffer, At
    <3>5. Remembered'
      BY <1>1, <1>2, <2>2, <3>1, <3>4 DEF Inv, Remembered, May
    <3>6. call'.pc \in FormPcs(call.op)
      BY <1>1, <3>1 DEF FormPcs
    <3> QED
      BY <1>1, <1>2, <3>1, <3>2, <3>3, <3>5, <3>6, FormStep DEF FormMoves, Rest
  <2>4. CASE call' = [call EXCEPT !.pc = "finally", !.error = TRUE]
    <3>1. /\ DOMAIN call' = CallFields /\ call'.at = call.at /\ call'.snaps = call.snaps
          /\ call'.op = call.op /\ call'.pc = "finally" /\ call'.error
          /\ call'.doubt = call.doubt
      BY <2>4 DEF Inv, FormTyped, CallFields
    <3>2. FormTyped'
      BY <2>2, <3>1 DEF Inv, FormTyped
    <3>3. call'.pc \in FormPcs(call.op) /\ call'.pc \in ErrorPcs
      BY <3>1 DEF FormPcs, ErrorPcs
    <3> QED
      BY <1>1, <1>2, <3>1, <3>2, <3>3, ErrorStep
  <2> QED
    BY <2>1, <2>3, <2>4, FillIs, PlanIs DEF Inv
<1>4. CASE /\ At("detect", "keywordBack") /\ form.open
           /\ form.val[KeywordField] = "orig" \/ KeywordField \in call.doubt
  <2>1. form' = form /\ call' = [call EXCEPT !.pc = "prefill", !.filled = {}]
    BY <1>4 DEF restoreKeyword, At
  <2>2. /\ DOMAIN call' = CallFields /\ call'.at = call.at /\ call'.snaps = call.snaps
        /\ call'.op = call.op /\ call'.pc = "prefill" /\ ~call'.error
        /\ call'.doubt = call.doubt
    BY <1>2, <2>1 DEF Inv, FormTyped, CallFields
  <2>3. FormTyped'
    BY <2>1, <2>2 DEF Inv, FormTyped
  <2>4. Progress'
    BY <1>1, <2>2 DEF Inv, Progress, BeforePrefill, At
  <2>5. MayDiffer = {KeywordField} /\ MayDiffer' = {}
    BY <1>1, <1>4, <2>2 DEF MayDiffer, At
  <2>6. Remembered'
    BY <1>1, <1>2, <1>4, <2>1, <2>2, <2>5 DEF Inv, Remembered, May
  <2>7. call'.pc \in FormPcs(call.op)
    BY <1>1, <2>2 DEF FormPcs
  <2> QED
    BY <1>1, <1>2, <2>2, <2>3, <2>4, <2>6, <2>7, FormStep DEF FormMoves, Rest
<1>5. CASE /\ At("detect", "keywordBack")
           /\ ~(form.open /\ (form.val[KeywordField] = "orig" \/ KeywordField \in call.doubt))
  <2>1. form' = form /\ Throw
    BY <1>5 DEF restoreKeyword, At
  <2> QED
    BY <1>1, <2>1, ThrowStep
<1> QED
  BY <1>1, <1>3, <1>4, <1>5 DEF At

LEMMA StartKeeps ==
    ASSUME Inv, startPrefill, UNCHANGED <<view, diag>>
    PROVE  Inv'
<1>1. /\ call.op = "detect" /\ call.pc = "prefill" /\ call.op \in Ops /\ Rest
      /\ call.pc \notin Unguarded /\ call.snaps = 0 /\ form' = form
  BY DEF startPrefill, At, Rest, Ops, Unguarded, Inv, Progress, BeforePrefill
<1>2. ~call.error /\ guard.on
  BY <1>1, GuardIs DEF Inv, Paths, ErrorPcs
<1>3. CASE Goto("close")
  <2>1. /\ call'.op = call.op /\ call'.pc = "close" /\ call'.doubt = call.doubt
    BY <1>3 DEF Inv, FormTyped, CallFields, Goto
  <2>2. Progress'
    BY <1>1, <2>1 DEF Inv, Progress, BeforePrefill, At
  <2>3. "close" \in FormPcs(call.op)
    BY <1>1 DEF FormPcs
  <2>4. MayDiffer \subseteq MayDiffer'
    BY <1>1 DEF MayDiffer
  <2> QED
    BY <1>1, <1>2, <1>3, <2>2, <2>3, <2>4, GotoStep
<1>4. CASE Throw
  BY <1>1, <1>4, ThrowStep
<1>5. CASE call' = [call EXCEPT !.pc = "snapshot", !.at = 1]
  <2>1. /\ DOMAIN call' = CallFields /\ call'.at = 1 /\ call'.snaps = call.snaps
        /\ call'.op = call.op /\ call'.pc = "snapshot" /\ ~call'.error
        /\ call'.doubt = call.doubt
    BY <1>2, <1>5 DEF Inv, FormTyped, CallFields
  <2>2. FormTyped'
    BY <1>1, <2>1 DEF Inv, FormTyped
  <2>3. Progress'
    <3>1. call'.at \in 1..Len(Plan) /\ call'.snaps = call'.at - 1
      BY <1>1, <2>1, PlanIs
    <3> QED
      BY <1>1, <2>1, <3>1 DEF Inv, Progress, BeforePrefill, At
  <2>4. MayDiffer = {}
    BY <1>1 DEF MayDiffer
  <2>5. Remembered'
    BY <1>1, <1>2, <2>1, <2>4 DEF Inv, Remembered, May
  <2>6. call'.pc \in FormPcs(call.op)
    BY <1>1, <2>1 DEF FormPcs
  <2> QED
    BY <1>1, <1>2, <2>1, <2>2, <2>3, <2>5, <2>6, FormStep DEF FormMoves, Rest
<1> QED
  BY <1>3, <1>4, <1>5 DEF startPrefill

LEMMA SnapshotKeeps ==
    ASSUME Inv, snapshotField, UNCHANGED <<view, diag>>
    PROVE  Inv'
<1>1. /\ call.op = "detect" /\ call.pc = "snapshot" /\ call.op \in Ops /\ Rest
      /\ call.pc \notin Unguarded /\ form' = form
      /\ call.at \in 1..Len(Plan) /\ call.snaps = call.at - 1 /\ Len(Plan) \in Nat
  BY PlanIs DEF snapshotField, At, Rest, Ops, Unguarded, Inv, Progress
<1>2. ~call.error /\ guard.on
  BY <1>1, GuardIs DEF Inv, Paths, ErrorPcs
<1>3. ASSUME NEW pc \in {"snapshot", "write", "restore"}, DOMAIN call' = CallFields,
             call'.at \in Nat, call'.snaps \in Nat, call'.op = call.op, call'.pc = pc,
             ~call'.error, call'.doubt \subseteq PlanFields, call.doubt \subseteq call'.doubt,
             pc = "snapshot" => call'.at \in 1..Len(Plan) /\ call'.snaps = call'.at - 1,
             pc = "write" => call'.at \in 1..Len(Plan) /\ call'.snaps = Len(Plan),
             pc = "restore" => call'.snaps \in 0..Len(Plan)
      PROVE  Inv'
  <2>1. FormTyped'
    BY <1>1, <1>3 DEF Inv, FormTyped
  <2>2. call'.pc \notin BeforePrefill
    BY <1>3 DEF BeforePrefill
  <2>3. Progress'
    BY <1>1, <1>3, <2>2 DEF Inv, Progress, At
  <2>4. MayDiffer = {}
    BY <1>1 DEF MayDiffer
  <2>5. Remembered'
    BY <1>1, <1>2, <1>3, <2>4 DEF Inv, Remembered, May
  <2>6. call'.pc \in FormPcs(call.op)
    BY <1>1, <1>3 DEF FormPcs
  <2> QED
    BY <1>1, <1>2, <1>3, <2>1, <2>3, <2>5, <2>6, FormStep DEF FormMoves, Rest
<1>4. ASSUME NEW taken \in SUBSET {Plan[call.at]},
             call' = [call EXCEPT !.snaps = @ + 1, !.doubt = @ \cup taken,
                        !.at = IF @ < Len(Plan) THEN @ + 1 ELSE 1,
                        !.pc = IF call.at < Len(Plan) THEN @ ELSE "write"]
      PROVE  Inv'
  <2>1. /\ DOMAIN call' = CallFields /\ call'.snaps = call.snaps + 1 /\ call'.op = call.op
        /\ call'.at = (IF call.at < Len(Plan) THEN call.at + 1 ELSE 1)
        /\ call'.pc = (IF call.at < Len(Plan) THEN "snapshot" ELSE "write")
        /\ ~call'.error /\ call'.doubt = call.doubt \cup taken
    BY <1>1, <1>2, <1>4 DEF Inv, FormTyped, CallFields
  <2>2. call'.doubt \subseteq PlanFields /\ call.doubt \subseteq call'.doubt
    BY <1>1, <2>1, PlanIs DEF Inv, FormTyped
  <2>3. CASE call.at < Len(Plan)
    <3>1. call'.at \in 1..Len(Plan) /\ call'.snaps = call'.at - 1 /\ call'.snaps \in Nat
      BY <1>1, <2>1, <2>3
    <3> QED
      BY <1>3, <2>1, <2>2, <2>3, <3>1
  <2>4. CASE ~(call.at < Len(Plan))
    <3>1. call'.at \in 1..Len(Plan) /\ call'.snaps = Len(Plan)
      BY <1>1, <2>1, <2>4
    <3> QED
      BY <1>1, <1>3, <2>1, <2>2, <2>4, <3>1
  <2> QED
    BY <2>3, <2>4
<1>6. CASE call' = [call EXCEPT !.pc = "restore", !.primary = TRUE]
  <2>1. /\ DOMAIN call' = CallFields /\ call'.at = call.at /\ call'.snaps = call.snaps
        /\ call'.op = call.op /\ call'.pc = "restore" /\ ~call'.error
        /\ call'.doubt = call.doubt
    BY <1>1, <1>2, <1>6 DEF Inv, FormTyped, CallFields
  <2>2. call'.snaps \in 0..Len(Plan) /\ call'.doubt \subseteq PlanFields
    BY <1>1, <2>1 DEF Inv, FormTyped
  <2> QED
    BY <1>1, <1>3, <2>1, <2>2
<1> QED
  BY <1>4, <1>6 DEF snapshotField

\* All fields of the plan have been read before one is written.
LEMMA WriteKeeps ==
    ASSUME Inv, writeField, UNCHANGED <<view, diag>>
    PROVE  Inv'
<1>1. /\ call.op = "detect" /\ call.pc = "write" /\ call.op \in Ops /\ Rest
      /\ call.pc \notin Unguarded
      /\ call.at \in 1..Len(Plan) /\ call.snaps = Len(Plan) /\ Len(Plan) \in Nat
  BY PlanIs DEF writeField, At, Rest, Ops, Unguarded, Inv, Progress
<1>2. ~call.error /\ guard.on
  BY <1>1, GuardIs DEF Inv, Paths, ErrorPcs
<1>3. ASSUME DOMAIN form' = {"open", "val"}, form'.val \in [Fields -> Values],
             form'.open = form.open,
             \A g \in Fields \ PlanFields : form'.val[g] = form.val[g],
             NEW pc \in {"write", "restore"}, DOMAIN call' = CallFields,
             call'.at \in 1..Len(Plan), call'.snaps = call.snaps, call'.op = call.op,
             call'.pc = pc, ~call'.error, call'.doubt = call.doubt
      PROVE  Inv'
  <2>1. FormTyped'
    BY <1>1, <1>3 DEF Inv, FormTyped
  <2>2. call'.pc \notin BeforePrefill
    BY <1>3 DEF BeforePrefill
  <2>3. Progress'
    BY <1>1, <1>3, <2>2 DEF Inv, Progress, At
  <2>4. MayDiffer = PlanFields /\ MayDiffer' = PlanFields
    BY <1>1, <1>3 DEF MayDiffer, PlanFields
  <2>5. Remembered'
    BY <1>1, <1>2, <1>3, <2>4 DEF Inv, Remembered, May
  <2>6. call'.pc \in FormPcs(call.op)
    BY <1>1, <1>3 DEF FormPcs
  <2> QED
    BY <1>1, <1>2, <1>3, <2>1, <2>3, <2>5, <2>6, FormStep DEF FormMoves, Rest
<1>4. ASSUME call' \in {IF call.at < Len(Plan) THEN [call EXCEPT !.at = @ + 1]
                        ELSE [call EXCEPT !.pc = "restore"],
                        [call EXCEPT !.pc = "restore", !.primary = TRUE]}
      PROVE  /\ DOMAIN call' = CallFields /\ call'.at \in 1..Len(Plan)
             /\ call'.snaps = call.snaps /\ call'.op = call.op
             /\ call'.pc \in {"write", "restore"} /\ ~call'.error
             /\ call'.doubt = call.doubt
  <2>1. CASE call.at < Len(Plan) /\ call' = [call EXCEPT !.at = @ + 1]
    <3>1. /\ DOMAIN call' = CallFields /\ call'.at = call.at + 1
          /\ call'.snaps = call.snaps /\ call'.op = call.op
          /\ call'.pc = "write" /\ ~call'.error
          /\ call'.doubt = call.doubt
      BY <1>1, <1>2, <2>1 DEF Inv, FormTyped, CallFields
    <3> QED
      BY <1>1, <2>1, <3>1
  <2>2. CASE call' = [call EXCEPT !.pc = "restore"]
    BY <1>1, <1>2, <2>2 DEF Inv, FormTyped, CallFields
  <2>3. CASE call' = [call EXCEPT !.pc = "restore", !.primary = TRUE]
    BY <1>1, <1>2, <2>3 DEF Inv, FormTyped, CallFields
  <2> QED
    BY <1>4, <2>1, <2>2, <2>3
<1>5. ASSUME NEW val \in Put(Plan[call.at], "test"), form' = [form EXCEPT !.val = val]
      PROVE  /\ DOMAIN form' = {"open", "val"} /\ form'.val \in [Fields -> Values]
             /\ form'.open = form.open
             /\ \A g \in Fields \ PlanFields : form'.val[g] = form.val[g]
  <2>1. /\ val \in [Fields -> Values]
        /\ \A g \in Fields \ PlanFields : val[g] = form.val[g]
    BY <1>1, PlanPut DEF Inv
  <2> QED
    BY <1>5, <2>1 DEF Inv, FormTyped
<1>6. call' \in {IF call.at < Len(Plan) THEN [call EXCEPT !.at = @ + 1]
                 ELSE [call EXCEPT !.pc = "restore"],
                 [call EXCEPT !.pc = "restore", !.primary = TRUE]}
  BY DEF writeField
<1>7. /\ DOMAIN form' = {"open", "val"} /\ form'.val \in [Fields -> Values]
      /\ form'.open = form.open
      /\ \A g \in Fields \ PlanFields : form'.val[g] = form.val[g]
  <2>1. CASE form' = form
    BY <2>1 DEF Inv, FormTyped
  <2>2. CASE \E val \in Put(Plan[call.at], "test") : form' = [form EXCEPT !.val = val]
    BY <1>5, <2>2
  <2> QED
    BY <2>1, <2>2 DEF writeField
<1> QED
  BY <1>3, <1>4, <1>6, <1>7

\* Putting a field back changes a field that was put back before it only if that
\* counts as changed later.
LEMMA RestoreKeeps ==
    ASSUME Inv, restoreField, UNCHANGED <<view, diag>>
    PROVE  Inv'
<1>1. /\ call.op = "detect" /\ call.pc = "restore" /\ call.op \in Ops /\ Rest
      /\ call.pc \notin Unguarded
      /\ call.snaps \in 1..Len(Plan) /\ Len(Plan) \in Nat
  <2>1. call.snaps > 0 /\ call.snaps \in 0..Len(Plan) /\ Len(Plan) \in Nat
    BY PlanIs DEF restoreField, Inv, Progress
  <2>2. call.snaps \in 1..Len(Plan)
    BY <2>1
  <2> QED
    BY <2>1, <2>2 DEF restoreField, At, Rest, Ops, Unguarded
<1>2. ~call.error /\ guard.on
  BY <1>1, GuardIs DEF Inv, Paths, ErrorPcs
<1>3. ASSUME DOMAIN form' = {"open", "val"}, form'.val \in [Fields -> Values],
             form'.open = form.open,
             \A g \in Fields \ PlanFields : form'.val[g] = form.val[g],
             DOMAIN call' = CallFields, call'.at = call.at, call'.snaps = call.snaps - 1,
             call'.op = call.op, call'.pc = "restore", ~call'.error,
             call'.doubt = call.doubt,
             ~call'.restore =>
                 /\ ~call.restore
                 /\ form'.val[Plan[call.snaps]] = "orig" \/ Plan[call.snaps] \in call.doubt
                 /\ \A j \in 1..Len(Plan) :
                       call.snaps < j /\ Plan[j] \notin ChangedLater =>
                           form'.val[Plan[j]] = form.val[Plan[j]]
      PROVE  Inv'
  <2>1. FormTyped'
    BY <1>1, <1>3 DEF Inv, FormTyped
  <2>2. call'.pc \notin BeforePrefill
    BY <1>3 DEF BeforePrefill
  <2>3. Progress'
    BY <1>1, <1>3, <2>2 DEF Inv, Progress, At
  <2>4. ASSUME call'.restore PROVE Remembered'
    <3>1. MayDiffer' = PlanFields
      BY <1>1, <1>3, <2>4 DEF MayDiffer
    <3>2. MayDiffer \subseteq PlanFields
      BY <1>1 DEF MayDiffer, PlanFields
    <3> QED
      BY <1>1, <1>2, <1>3, <3>1, <3>2 DEF Inv, Remembered, May
  <2>5. ASSUME ~call'.restore PROVE Remembered'
    <3>1. /\ MayDiffer' = {Plan[i] : i \in 1..(call.snaps - 1)}
          /\ MayDiffer = {Plan[i] : i \in 1..call.snaps}
      BY <1>1, <1>3, <2>5 DEF MayDiffer
    <3>2. ASSUME NEW g \in Fields \ May', form.open
          PROVE  form'.val[g] = "orig"
      <4>0. g \notin MayDiffer' /\ g \notin call.doubt /\ g \notin ChangedLater
        BY <1>3, <3>2 DEF May
      <4>1. CASE g \notin PlanFields
        <5>1. g \in Fields \ May
          BY <1>1, <3>1, <3>2, <4>0, <4>1 DEF PlanFields, May
        <5> QED
          BY <1>1, <1>2, <1>3, <3>2, <4>1, <5>1 DEF Inv, Remembered
      <4>2. CASE g \in PlanFields
        <5>1. PICK j \in 1..Len(Plan) : g = Plan[j]
          BY <4>2 DEF PlanFields
        <5>2. j \in Nat /\ ~(j \in 1..(call.snaps - 1))
          BY <1>1, <3>1, <4>0, <5>1
        <5>3. CASE j = call.snaps
          BY <1>3, <2>5, <4>0, <5>1, <5>3
        <5>4. CASE call.snaps < j
          <6>1. \A i \in 1..call.snaps : i \in 1..Len(Plan) /\ i # j
            BY <1>1, <5>4
          <6>2. g \notin MayDiffer
            BY <3>1, <5>1, <6>1, PlanAssumption
          <6>3. g \in Fields \ May
            BY <3>2, <4>0, <6>2 DEF May
          <6> QED
            BY <1>1, <1>2, <1>3, <2>5, <3>2, <4>0, <5>1, <5>4, <6>3 DEF Inv, Remembered
        <5> QED
          BY <1>1, <5>1, <5>2, <5>3, <5>4
      <4> QED
        BY <4>1, <4>2
    <3> QED
      BY <1>3, <3>2 DEF Remembered
  <2>6. call'.pc \in FormPcs(call.op)
    BY <1>1, <1>3 DEF FormPcs
  <2> QED
    BY <1>1, <1>2, <1>3, <2>1, <2>3, <2>4, <2>5, <2>6, FormStep DEF FormMoves, Rest
<1>4. ASSUME NEW val \in Put(Plan[call.snaps], "orig") \cup {form.val}, NEW failed \in BOOLEAN,
             form' = [form EXCEPT !.val = val],
             val[Plan[call.snaps]] # "orig" /\ Plan[call.snaps] \notin call.doubt => failed,
             call' = [call EXCEPT !.snaps = @ - 1, !.restore = @ \/ failed]
      PROVE  Inv'
  <2>1. /\ val \in [Fields -> Values]
        /\ \A g \in Fields \ PlanFields : val[g] = form.val[g]
        /\ \A j \in 1..Len(Plan) :
              call.snaps < j /\ Plan[j] \notin ChangedLater => val[Plan[j]] = form.val[Plan[j]]
    BY <1>1, <1>4, PlanPut DEF Inv, FormTyped
  <2>2. DOMAIN form' = {"open", "val"} /\ form'.val = val /\ form'.open = form.open
    BY <1>4 DEF Inv, FormTyped
  <2>3. /\ DOMAIN call' = CallFields /\ call'.at = call.at /\ call'.snaps = call.snaps - 1
        /\ call'.op = call.op /\ call'.pc = "restore" /\ ~call'.error
        /\ call'.doubt = call.doubt
        /\ (~call'.restore => ~call.restore /\ ~failed)
    BY <1>1, <1>2, <1>4 DEF Inv, FormTyped, CallFields
  <2> QED
    BY <1>3, <1>4, <2>1, <2>2, <2>3
<1>5. ASSUME form' = form, call' = [call EXCEPT !.snaps = @ - 1, !.restore = TRUE]
      PROVE  Inv'
  <2>1. /\ DOMAIN call' = CallFields /\ call'.at = call.at /\ call'.snaps = call.snaps - 1
        /\ call'.op = call.op /\ call'.pc = "restore" /\ ~call'.error
        /\ call'.doubt = call.doubt /\ call'.restore
    BY <1>1, <1>2, <1>5 DEF Inv, FormTyped, CallFields
  <2> QED
    BY <1>3, <1>5, <2>1 DEF Inv, FormTyped
<1> QED
  BY <1>4, <1>5 DEF restoreField, NextSnapshot

LEMMA EndPrefillKeeps ==
    ASSUME Inv, endPrefill, UNCHANGED <<view, diag>>
    PROVE  Inv'
<1>1. /\ call.op = "detect" /\ call.pc = "restore" /\ call.op \in Ops /\ Rest
      /\ call.pc \notin Unguarded /\ form' = form /\ call.snaps = 0
  BY DEF endPrefill, At, Rest, Ops, Unguarded
<1>2. ~call.error /\ guard.on
  BY <1>1, GuardIs DEF Inv, Paths, ErrorPcs
<1>3. ASSUME NEW pc \in {"rollback", "prefilled"}, Goto(pc), MayDiffer \subseteq MayDiffer'
      PROVE  Inv'
  <2>1. /\ call'.op = call.op /\ call'.pc = pc /\ call'.doubt = call.doubt
    BY <1>3 DEF Inv, FormTyped, CallFields, Goto
  <2>2. Progress'
    BY <1>1, <1>3, <2>1 DEF Inv, Progress, BeforePrefill, At
  <2>3. pc \in FormPcs(call.op)
    BY <1>1, <1>3 DEF FormPcs
  <2> QED
    BY <1>1, <1>2, <1>3, <2>2, <2>3, GotoStep
<1>4. CASE call.restore /\ Goto("rollback")
  <2>1. call'.op = call.op /\ call'.pc = "rollback"
    BY <1>4 DEF Inv, FormTyped, CallFields, Goto
  <2>2. MayDiffer \subseteq MayDiffer'
    BY <1>1, <1>4, <2>1 DEF MayDiffer
  <2> QED
    BY <1>3, <1>4, <2>2
<1>5. CASE ~call.restore /\ Goto("prefilled")
  <2>1. MayDiffer = {}
    BY <1>1, <1>5 DEF MayDiffer
  <2> QED
    BY <1>3, <1>5, <2>1
<1>6. CASE Throw
  BY <1>1, <1>6, ThrowStep
<1> QED
  BY <1>4, <1>5, <1>6 DEF endPrefill

\* A form that is not put back is dropped.
LEMMA RollbackKeeps ==
    ASSUME Inv, rollback, UNCHANGED <<view, diag>>
    PROVE  Inv'
<1>1. /\ call.op = "detect" /\ call.pc \in {"rollback", "closePage"} /\ call.op \in Ops
      /\ Rest /\ call.pc \notin Unguarded
  BY DEF rollback, At, Rest, Ops, Unguarded
<1>2. ~call.error /\ guard.on
  BY <1>1, GuardIs DEF Inv, Paths, ErrorPcs
<1>3. ASSUME DOMAIN form' = {"open", "val"}, form'.val \in [Fields -> Values],
             NEW pc \in {"rolledBack", "prefilled"}, DOMAIN call' = CallFields,
             call'.at = call.at, call'.snaps = call.snaps, call'.op = call.op,
             call'.pc = pc, ~call'.error, call'.doubt \subseteq PlanFields,
             pc = "rolledBack" /\ call'.closed /\ form'.open => call'.doubt = PlanFields,
             Remembered'
      PROVE  Inv'
  <2>1. FormTyped'
    BY <1>3 DEF Inv, FormTyped
  <2>2. Progress'
    BY <1>1, <1>3 DEF Progress, BeforePrefill, At
  <2>3. call'.pc \in FormPcs(call.op)
    BY <1>1, <1>3 DEF FormPcs
  <2> QED
    BY <1>1, <1>2, <1>3, <2>1, <2>2, <2>3, FormStep DEF FormMoves, Rest
<1>4. ASSUME NEW open \in BOOLEAN, NEW closed \in BOOLEAN, TryToClose(open),
             call.pc = "rollback",
             call' = [call EXCEPT !.pc = "rolledBack", !.closed = closed,
                                  !.doubt = IF open /\ closed THEN PlanFields ELSE @]
      PROVE  Inv'
  <2>1. /\ DOMAIN form' = {"open", "val"} /\ form'.val \in [Fields -> Values]
        /\ form'.open => form' = form /\ form.open
        /\ ~open => ~form'.open
    BY <1>4, TryIs DEF Inv
  <2>2. /\ DOMAIN call' = CallFields /\ call'.at = call.at /\ call'.snaps = call.snaps
        /\ call'.op = call.op /\ call'.pc = "rolledBack" /\ ~call'.error
        /\ (call'.closed <=> closed)
        /\ call'.doubt = (IF open /\ closed THEN PlanFields ELSE call.doubt)
    BY <1>2, <1>4 DEF Inv, FormTyped, CallFields
  <2>3. MayDiffer = PlanFields /\ MayDiffer' = PlanFields
    BY <1>1, <1>4, <2>2 DEF MayDiffer
  <2>4. call'.doubt \subseteq PlanFields /\ call.doubt \subseteq PlanFields
    BY <2>2 DEF Inv, FormTyped
  <2>5. Remembered'
    BY <1>1, <1>2, <2>1, <2>3, <2>4 DEF Inv, Remembered, May
  <2> QED
    BY <1>3, <2>1, <2>2, <2>4, <2>5
<1>5. ASSUME call.pc = "closePage", form' = IF call.closed THEN form ELSE NoForm,
             call' = [call EXCEPT !.pc = "prefilled", !.closed = TRUE]
      PROVE  Inv'
  <2>1. /\ DOMAIN form' = {"open", "val"} /\ form'.val \in [Fields -> Values]
        /\ form'.open => form' = form /\ form.open /\ call.closed
    BY <1>5, NoFormIs DEF Inv, FormTyped
  <2>2. /\ DOMAIN call' = CallFields /\ call'.at = call.at /\ call'.snaps = call.snaps
        /\ call'.op = call.op /\ call'.pc = "prefilled" /\ ~call'.error
        /\ call'.doubt = call.doubt
    BY <1>2, <1>5 DEF Inv, FormTyped, CallFields
  <2>3. form'.open => call.doubt = PlanFields
    BY <1>1, <1>5, <2>1 DEF Inv, Progress
  <2>4. MayDiffer = PlanFields /\ MayDiffer' = {}
    BY <1>1, <1>5, <2>2 DEF MayDiffer
  <2>5. Remembered'
    BY <1>1, <1>2, <2>1, <2>2, <2>3, <2>4 DEF Inv, Remembered, May
  <2> QED
    BY <1>3, <2>1, <2>2, <2>5 DEF Inv, FormTyped
<1>6. CASE Throw /\ form' = form
  BY <1>1, <1>6, ThrowStep
<1> QED
  BY <1>4, <1>5, <1>6 DEF rollback, At

LEMMA KeywordFinallyKeeps ==
    ASSUME Inv, restoreKeywordFinally, UNCHANGED <<view, diag>>
    PROVE  Inv'
<1>1. /\ call.op = "detect" /\ call.pc = "finally" /\ call.op \in Ops /\ Rest
      /\ call' = [call EXCEPT !.filled = {}, !.error = TRUE]
  BY DEF restoreKeywordFinally, At, Rest, Ops
<1>2. /\ DOMAIN form' = {"open", "val"} /\ form'.val \in [Fields -> Values]
      /\ form'.open = form.open
  <2>1. CASE form' = form
    BY <2>1 DEF Inv, FormTyped
  <2>2. ASSUME NEW val \in Put(KeywordField, "orig"), form' = [form EXCEPT !.val = val]
        PROVE  /\ DOMAIN form' = {"open", "val"} /\ form'.val \in [Fields -> Values]
               /\ form'.open = form.open
    <3>1. val \in [Fields -> Values]
      BY KeywordPut DEF Inv
    <3> QED
      BY <2>2, <3>1 DEF Inv, FormTyped
  <2> QED
    BY <2>1, <2>2 DEF restoreKeywordFinally
<1>3. /\ DOMAIN call' = CallFields /\ call'.at = call.at /\ call'.snaps = call.snaps
      /\ call'.op = call.op /\ call'.pc = "finally" /\ call'.error
      /\ call'.doubt = call.doubt
  BY <1>1 DEF Inv, FormTyped, CallFields
<1>4. FormTyped'
  BY <1>2, <1>3 DEF Inv, FormTyped
<1>5. call'.pc \in FormPcs(call.op) /\ call'.pc \in ErrorPcs
  BY <1>3 DEF FormPcs, ErrorPcs
<1>6. guard.on
  BY <1>1, GuardIs
<1> QED
  BY <1>1, <1>2, <1>3, <1>4, <1>5, <1>6, ErrorStep

LEMMA CloseFinallyKeeps ==
    ASSUME Inv, closeFinally, UNCHANGED <<view, diag>>
    PROVE  Inv'
<1>1. /\ call.op \in {"inspect", "detect", "repair"} /\ call.pc = "finally"
      /\ call.op \in Ops /\ call.op # "simulate" /\ Rest
  BY DEF closeFinally, Rest, Ops
<1>2. /\ DOMAIN form' = {"open", "val"} /\ form'.val \in [Fields -> Values]
      /\ form'.open => form' = form /\ form.open
  <2>1. CASE form' = form
    BY <2>1 DEF Inv, FormTyped
  <2>2. CASE \E open \in BOOLEAN : TryToClose(open)
    BY <2>2, TryIs DEF Inv
  <2> QED
    BY <2>1, <2>2 DEF closeFinally
<1>3. /\ DOMAIN call' = CallFields /\ call'.at = call.at /\ call'.snaps = call.snaps
      /\ call'.op = call.op /\ call'.pc = "stop" /\ (call'.error <=> call.error)
      /\ call'.doubt = call.doubt
  BY DEF closeFinally, Goto, Inv, FormTyped, CallFields
<1>4. FormTyped'
  BY <1>2, <1>3 DEF Inv, FormTyped
<1>5. Progress'
  BY <1>1, <1>2, <1>3 DEF Inv, Progress, BeforePrefill, At
<1>6. Remembered'
  <2>1. MayDiffer = {} /\ MayDiffer' = {}
    BY <1>1, <1>3 DEF MayDiffer
  <2> QED
    BY <1>1, <1>2, <1>3, <2>1 DEF Inv, Remembered, May
<1>7. /\ call'.pc \in FormPcs(call.op) /\ call'.pc \in ErrorPcs /\ call.pc \notin Unguarded
      /\ guard.on
  BY <1>1, <1>3, GuardIs DEF FormPcs, ErrorPcs, Unguarded
<1> QED
  BY <1>1, <1>3, <1>4, <1>5, <1>6, <1>7, FormStep DEF FormMoves, Rest

(***************************************************************************)
(* The end and the beginning of a call.                                    *)
(***************************************************************************)

LEMMA IdleIs ==
    /\ DOMAIN Idle = CallFields /\ Idle.at = 0 /\ Idle.snaps = 0
    /\ Idle.op = "none" /\ Idle.pc = "idle" /\ ~Idle.error
    /\ Idle.doubt = {} /\ Idle.filled = {}
BY DEF Idle, CallFields

\* What a call that ends without an error leaves in the form.
LEMMA StopKeeps ==
    ASSUME Inv, stop, UNCHANGED <<view, diag>>
    PROVE  Inv'
<1>1. /\ call.pc = "stop" /\ call' = Idle /\ UNCHANGED <<form, saved>>
      /\ guard' = [on |-> FALSE, blocked |-> FALSE]
      /\ result' = [op |-> call.op, ok |-> ~call.error, doubt |-> call.doubt]
  BY DEF stop
<1>2. ~guard'.on /\ DOMAIN guard' = {"on", "blocked"}
  BY <1>1
<1>3. result'.op = call.op /\ (result'.ok <=> ~call.error) /\ result'.doubt = call.doubt
  BY <1>1
<1>4. FormTyped' /\ TableTyped'
  BY <1>1, <1>2, IdleIs DEF Inv, FormTyped, TableTyped
<1>5. Paths' /\ Guarded' /\ Remembered'
  BY <1>1, <1>2, IdleIs DEF Paths, Guarded, Remembered, Ops
<1>6. Progress'
  BY <1>1, IdleIs DEF Progress, At
<1>7. Owned'
  <2>1. call.op \in Ops => saved' = {}
    BY <1>1 DEF Inv, Owned
  <2>2. view'.stirred => call.op \notin Ops
    BY <1>1, OpsDiffer DEF Inv, Owned
  <2>3. call'.op \notin Ops /\ call'.op = "none" /\ call'.pc \notin BeforeGuard
    BY <1>1, IdleIs DEF Ops, BeforeGuard
  <2> QED
    BY <1>1, <1>2, <1>3, <2>1, <2>2, <2>3 DEF Owned
<1>8. Looking'
  BY <1>1, IdleIs DEF Inv, Looking, Diagnoses, ReadingOps, MovingOps, Watching
<1>9. Answered'
  <2>1. SUFFICES ASSUME ~call.error
                 PROVE  /\ Changed' \subseteq MayRemain'
                        /\ call.op \in Watching => diag.most = 1 /\ ~diag.lost
    BY <1>1, <1>3, IdleIs DEF Answered
  <2>2. Changed' = Changed /\ MayRemain' = call.doubt \cup ChangedLater
    BY <1>1, <1>3 DEF Changed, MayRemain
  <2>3. CASE call.op \in Ops
    <3>1. May = call.doubt \cup ChangedLater
      BY <1>1 DEF MayDiffer, May
    <3>2. Changed \subseteq May
      BY <2>1, <2>3 DEF Inv, Remembered, Changed
    <3> QED
      BY <2>2, <2>3, <3>1, <3>2, OpsDiffer
  <2>4. CASE call.op \in Diagnoses
    BY <1>1, <2>1, <2>2, <2>4 DEF Inv, Looking, Changed
  <2> QED
    BY <1>1, <2>3, <2>4 DEF Inv, Paths
<1> QED
  BY <1>4, <1>5, <1>6, <1>7, <1>8, <1>9 DEF Inv

\* A call begins on a page that it loads anew.
LEMMA NewPageIs ==
    ASSUME NEW places, NEW listening \in BOOLEAN, NewPage(places, listening)
    PROVE  /\ DOMAIN view' = {"marks", "scroll", "own", "listening", "stirred", "late"}
           /\ view'.marks = {} /\ ~view'.stirred /\ (view'.listening => listening)
           /\ DOMAIN diag' = {"was", "look", "most", "alone", "occluded", "lost"}
           /\ diag'.was = "none" /\ ~diag'.lost
BY DEF NewPage, NoView, NoDiag

LEMMA BeginKeeps ==
    ASSUME Inv, NEW op \in Ops, Begin(op), NewPage({"left"}, FALSE)
    PROVE  Inv'
<1>1. /\ call.pc = "idle" /\ form' = NoForm /\ saved' = {} /\ UNCHANGED guard
      /\ ~guard.on /\ ~result'.ok
  BY DEF Begin, Inv, Guarded, NoResult
<1>2. /\ DOMAIN call' = CallFields /\ call'.at = 0 /\ call'.snaps = 0 /\ call'.op = op
      /\ call'.pc = (IF op = "simulate" THEN "open" ELSE "guard")
      /\ ~call'.error /\ call'.doubt = {} /\ call'.filled = {}
  BY IdleIs DEF Begin, CallFields
<1>3. /\ DOMAIN view' = {"marks", "scroll", "own", "listening", "stirred", "late"}
      /\ view'.marks = {} /\ ~view'.stirred /\ ~view'.listening
      /\ DOMAIN diag' = {"was", "look", "most", "alone", "occluded", "lost"}
      /\ diag'.was = "none" /\ ~diag'.lost
  BY NewPageIs
<1>4. /\ op \notin Diagnoses /\ op \notin MovingOps /\ op \notin Watching
      /\ call'.pc \in FormPcs(op) /\ call'.pc \notin {"idle", "move", "look"} \cup BeforeGuard
  BY <1>2, OpsDiffer DEF FormPcs, BeforeGuard
<1>5. FormTyped' /\ TableTyped'
  BY <1>1, <1>2, <1>3, NoFormIs DEF Inv, FormTyped, TableTyped
<1>6. Paths' /\ Guarded'
  <2>1. Changed' = {}
    BY <1>1, NoFormIs DEF Changed
  <2> QED
    BY <1>1, <1>2, <1>4, <2>1 DEF Paths, Guarded, Unguarded
<1>7. Progress' /\ Remembered'
  BY <1>1, <1>2, NoFormIs DEF Progress, Remembered, At
<1>8. Owned' /\ Looking' /\ Answered'
  BY <1>1, <1>2, <1>3, <1>4 DEF Owned, Looking, Answered
<1> QED
  BY <1>5, <1>6, <1>7, <1>8 DEF Inv

(***************************************************************************)
(* The steps of a diagnosis.                                               *)
(***************************************************************************)

LEMMA DiagnosisIs ==
    ASSUME NEW op \in Diagnoses
    PROVE  /\ op \notin Ops /\ op # "none" /\ "idle" \notin DiagnosisPcs(op)
           /\ op \in Watching => op \in MovingOps
           /\ op \in MovingOps => op \notin ReadingOps
           /\ op \in Watching <=> op \in {"hover", "rowHover"}
BY DEF Ops, Diagnoses, DiagnosisPcs, Watching, MovingOps, ReadingOps

\* What a step of a diagnosis does to the call.
CallMoves ==
    /\ DOMAIN call' = CallFields /\ call'.at \in Nat /\ call'.snaps \in Nat
    /\ call'.op = call.op /\ call'.pc \in DiagnosisPcs(call.op)
    /\ call'.doubt = call.doubt
    /\ call.error => call'.error
    /\ call'.error => call'.pc \in ErrorPcs

LEMMA DiagnosisStep ==
    ASSUME Inv, call.op \in Diagnoses, UNCHANGED <<form, saved, result>>, TableTyped',
           CallMoves,
           call'.pc \in {"move", "look"} => guard'.on,
           call'.pc \in BeforeGuard => call.pc \in BeforeGuard,
           guard'.on => saved = {},
           view'.stirred => call.op \in MovingOps /\ call'.pc \notin BeforeGuard,
           Looking'
    PROVE  Inv'
<1>1. call.op \notin Ops /\ call'.pc # "idle" /\ call.pc # "idle" /\ call.op # "none"
  BY DiagnosisIs DEF CallMoves, Inv, Paths
<1>2. FormTyped'
  BY DEF Inv, FormTyped, CallMoves
<1>3. Paths'
  BY DEF Paths, CallMoves
<1>4. Guarded'
  BY <1>1 DEF Guarded, CallMoves
<1>5. Progress'
  <2>1. call'.op \notin {"detect", "simulate"}
    BY <1>1 DEF CallMoves, Ops
  <2> QED
    BY <2>1 DEF Progress, At
<1>6. Remembered' /\ Answered'
  BY <1>1 DEF Inv, Remembered, Answered, CallMoves
<1>7. Owned'
  <2>1. ~result.ok /\ call'.op = call.op
    BY <1>1 DEF Inv, Answered, CallMoves
  <2>2. call'.pc \in BeforeGuard => saved = {}
    BY DEF Inv, Owned
  <2> QED
    BY <1>1, <2>1, <2>2 DEF Owned
<1> QED
  BY <1>2, <1>3, <1>4, <1>5, <1>6, <1>7 DEF Inv

\* The steps that leave the guard alone, and do not begin to look.
LEMMA QuietStep ==
    ASSUME Inv, call.op \in Diagnoses, UNCHANGED <<form, guard, saved, result>>,
           DOMAIN view' = DOMAIN view, DOMAIN diag' = DOMAIN diag,
           view'.stirred => view.stirred, CallMoves,
           call'.pc # "move", call'.pc # "look",
           call'.pc \in BeforeGuard => call.pc \in BeforeGuard, Looking'
    PROVE  Inv'
<1>1. call.op # "none" /\ call.pc # "idle"
  BY DiagnosisIs DEF Inv, Paths
<1>2. TableTyped'
  BY DEF Inv, TableTyped
<1>3. /\ guard'.on => saved = {}
      /\ view'.stirred => call.op \in MovingOps /\ call'.pc \notin BeforeGuard
  BY <1>1 DEF Inv, Owned
<1> QED
  BY <1>2, <1>3, DiagnosisStep

LEMMA GotoMoves ==
    ASSUME Inv, call.op \in Diagnoses, NEW pc \in DiagnosisPcs(call.op), Goto(pc),
           call.error => pc \in ErrorPcs
    PROVE  CallMoves /\ call'.pc = pc /\ (call'.error <=> call.error) /\ call'.op = call.op
<1>1. /\ DOMAIN call' = CallFields /\ call'.at = call.at /\ call'.snaps = call.snaps
      /\ call'.op = call.op /\ call'.pc = pc /\ (call'.error <=> call.error)
      /\ call'.doubt = call.doubt
  BY DEF Inv, FormTyped, CallFields, Goto
<1> QED
  BY <1>1 DEF CallMoves, Inv, FormTyped

LEMMA FailMoves ==
    ASSUME Inv, call.op \in Diagnoses, NEW pc \in DiagnosisPcs(call.op), pc \in ErrorPcs,
           Fail(pc)
    PROVE  CallMoves /\ call'.pc = pc /\ call'.error /\ call'.op = call.op
<1>1. /\ DOMAIN call' = CallFields /\ call'.at = call.at /\ call'.snaps = call.snaps
      /\ call'.op = call.op /\ call'.pc = pc /\ call'.error
      /\ call'.doubt = call.doubt
  BY DEF Inv, FormTyped, CallFields, Fail
<1> QED
  BY <1>1 DEF CallMoves, Inv, FormTyped

LEMMA ThrowMoves ==
    ASSUME Inv, call.op \in Diagnoses, "finally" \in DiagnosisPcs(call.op), Throw
    PROVE  CallMoves /\ call'.pc = "finally" /\ call'.error /\ call'.op = call.op
<1>1. Fail("finally") /\ "finally" \in ErrorPcs
  BY DEF Throw, Fail, ErrorPcs
<1> QED
  BY <1>1, FailMoves

LEMMA TabKeeps ==
    ASSUME Inv, activateProductTab
    PROVE  Inv'
<1>1. /\ call.pc = "tab" /\ call.op \in Diagnoses /\ ~call.error
      /\ UNCHANGED <<form, guard, saved, result, diag>>
  BY DEF activateProductTab, Inv, Paths, FormPcs, ErrorPcs
<1>2. PICK pc \in {"seek", "tabled"} : Goto(pc)
  BY DEF activateProductTab
<1>3. CallMoves /\ call'.pc = pc /\ ~call'.error /\ call'.op = call.op
  BY <1>1, <1>2, GotoMoves DEF DiagnosisPcs
<1>4. /\ DOMAIN view' = DOMAIN view /\ view'.marks = view.marks
      /\ view'.scroll = view.scroll /\ view'.own = view.own
      /\ (view'.stirred => view.stirred)
  BY DEF activateProductTab, Inv, TableTyped
<1>5. Looking'
  BY <1>1, <1>3, <1>4 DEF Inv, Looking
<1> QED
  BY <1>1, <1>3, <1>4, <1>5, QuietStep DEF BeforeGuard

LEMMA SeekKeeps ==
    ASSUME Inv, scrollToTable
    PROVE  Inv'
<1>1. /\ call.pc = "seek" /\ call.op \in Diagnoses /\ ~call.error
      /\ UNCHANGED <<form, guard, saved, result, diag>> /\ Goto("tabled")
  BY DEF scrollToTable, Inv, Paths, FormPcs, ErrorPcs
<1>2. CallMoves /\ call'.pc = "tabled" /\ ~call'.error /\ call'.op = call.op
  BY <1>1, GotoMoves DEF DiagnosisPcs
<1>3. /\ DOMAIN view' = DOMAIN view /\ view'.marks = view.marks
      /\ (view'.stirred => view.stirred)
  BY DEF scrollToTable, Inv, TableTyped
<1>4. diag'.was = "none"
  BY <1>1 DEF Inv, Looking
<1>5. Looking'
  BY <1>1, <1>2, <1>3, <1>4 DEF Inv, Looking
<1> QED
  BY <1>1, <1>2, <1>3, <1>5, QuietStep DEF BeforeGuard

LEMMA StructureKeeps ==
    ASSUME Inv, diagnoseReceiptTableStructure
    PROVE  Inv'
<1>1. /\ call.pc = "tabled" /\ call.op \in Diagnoses /\ ~call.error
      /\ UNCHANGED <<form, guard, saved, result, diag>>
      /\ view' = [view EXCEPT !.listening = FALSE]
  BY DEF diagnoseReceiptTableStructure, Inv, Paths, FormPcs, ErrorPcs
<1>2. /\ CallMoves /\ call'.op = call.op
      /\ \/ call'.pc = "leave" /\ call.op = "table"
         \/ call'.pc = "fixed" /\ call.op # "table"
  <2>1. CASE call.op = "table" /\ Goto("leave")
    BY <1>1, <2>1, GotoMoves DEF DiagnosisPcs
  <2>2. CASE call.op = "table" /\ Fail("leave")
    BY <1>1, <2>2, FailMoves DEF DiagnosisPcs, ErrorPcs
  <2>3. CASE call.op # "table" /\ Goto("fixed")
    BY <1>1, <2>3, GotoMoves DEF DiagnosisPcs
  <2> QED
    BY <2>1, <2>2, <2>3 DEF diagnoseReceiptTableStructure
<1>3. /\ DOMAIN view' = DOMAIN view /\ view'.marks = view.marks /\ ~view'.listening
      /\ (view'.stirred => view.stirred)
  BY <1>1 DEF Inv, TableTyped
<1>4. diag'.was = "none"
  BY <1>1 DEF Inv, Looking
<1>5. "table" \notin MovingOps /\ "table" \notin Watching
  BY DEF MovingOps, Watching
<1>6. Looking'
  BY <1>1, <1>2, <1>3, <1>4, <1>5 DEF Inv, Looking
<1> QED
  BY <1>1, <1>2, <1>3, <1>6, QuietStep DEF BeforeGuard

LEMMA FixedKeeps ==
    ASSUME Inv, diagnoseFixedReceiptOperation
    PROVE  Inv'
<1>1. /\ call.pc = "fixed" /\ call.op \in Diagnoses /\ call.op # "table" /\ ~call.error
      /\ UNCHANGED <<form, guard, saved, result, view, diag>>
  BY DEF diagnoseFixedReceiptOperation, Inv, Paths, FormPcs, DiagnosisPcs, ErrorPcs
<1>2. /\ CallMoves /\ call'.op = call.op
      /\ \/ call'.pc = "leave" /\ (call'.error \/ call.op = "fixed")
         \/ call'.pc \in {"mark", "arm"}
  <2>1. CASE Fail("leave")
    BY <1>1, <2>1, FailMoves DEF DiagnosisPcs, ErrorPcs
  <2>2. CASE call.op = "fixed" /\ Goto("leave")
    BY <1>1, <2>2, GotoMoves DEF DiagnosisPcs
  <2>3. CASE call.op \in MovingOps /\ Goto("mark")
    BY <1>1, <2>3, GotoMoves DEF DiagnosisPcs
  <2>4. CASE call.op \notin MovingOps \cup {"fixed"} /\ Goto("arm")
    <3>1. "arm" \in DiagnosisPcs(call.op)
      BY <1>1, <2>4 DEF DiagnosisPcs, Diagnoses
    <3> QED
      BY <1>1, <2>4, <3>1, GotoMoves
  <2> QED
    BY <2>1, <2>2, <2>3, <2>4 DEF diagnoseFixedReceiptOperation, MovingOps
<1>3. diag.was = "none" /\ ~view.listening
  BY <1>1 DEF Inv, Looking
<1>4. "fixed" \notin MovingOps /\ "fixed" \notin Watching
  BY DEF MovingOps, Watching
<1>5. Looking'
  BY <1>1, <1>2, <1>3, <1>4 DEF Inv, Looking
<1> QED
  BY <1>1, <1>2, <1>5, QuietStep DEF BeforeGuard

\* The position of the table is read with the marking.
LEMMA MarkKeeps ==
    ASSUME Inv, markTargets
    PROVE  Inv'
<1>1. /\ call.pc = "mark" /\ call.op \in Diagnoses /\ call.op \in MovingOps /\ ~call.error
      /\ UNCHANGED <<form, guard, saved, result>>
  BY DEF markTargets, Inv, Paths, FormPcs, DiagnosisPcs, ErrorPcs
<1>2. diag.was = "none" /\ ~view.listening
  BY <1>1 DEF Inv, Looking
<1>3. PICK found \in SUBSET Targets(call.op) :
         /\ view' = [view EXCEPT !.marks = found]
         /\ IF found = Targets(call.op)
            THEN Goto("arm") /\ diag' = [diag EXCEPT !.was = view.scroll]
            ELSE Fail("leave") /\ UNCHANGED diag
  BY DEF markTargets
<1>4. /\ DOMAIN view' = DOMAIN view /\ view'.marks = found /\ ~view'.listening
      /\ view'.scroll = view.scroll
      /\ (view'.stirred => view.stirred)
  BY <1>2, <1>3 DEF Inv, TableTyped
<1>5. CASE Goto("arm") /\ diag' = [diag EXCEPT !.was = view.scroll]
  <2>1. CallMoves /\ call'.pc = "arm" /\ call'.op = call.op
    BY <1>1, <1>5, GotoMoves DEF DiagnosisPcs
  <2>2. /\ DOMAIN diag' = DOMAIN diag /\ diag'.was = view.scroll
        /\ (diag'.lost <=> diag.lost) /\ diag'.most = diag.most
    BY <1>5 DEF Inv, TableTyped
  <2>3. Looking'
    BY <1>1, <1>4, <2>1, <2>2 DEF Inv, Looking
  <2> QED
    BY <1>1, <1>4, <2>1, <2>2, <2>3, QuietStep DEF BeforeGuard
<1>6. CASE Fail("leave") /\ UNCHANGED diag
  <2>1. CallMoves /\ call'.pc = "leave" /\ call'.error /\ call'.op = call.op
    BY <1>1, <1>6, FailMoves DEF DiagnosisPcs, ErrorPcs
  <2>2. Looking'
    BY <1>1, <1>2, <1>4, <1>6, <2>1 DEF Inv, Looking
  <2> QED
    BY <1>1, <1>4, <1>6, <2>1, <2>2, QuietStep DEF BeforeGuard
<1> QED
  BY <1>3, <1>5, <1>6

LEMMA BeginDiagnosisKeeps ==
    ASSUME Inv, NEW op \in Diagnoses, BeginDiagnosis(op)
    PROVE  Inv'
<1>1. /\ call.pc = "idle" /\ form' = NoForm /\ saved' = {} /\ UNCHANGED guard
      /\ ~result'.ok /\ ~guard.on
  BY DEF BeginDiagnosis, Inv, Guarded, NoResult
<1>2. PICK queried \in BOOLEAN :
         call' = [Idle EXCEPT !.op = op, !.error = ~queried,
                              !.pc = IF queried THEN "tab" ELSE "leave"]
  BY DEF BeginDiagnosis
<1>3. /\ DOMAIN call' = CallFields /\ call'.at = 0 /\ call'.snaps = 0 /\ call'.op = op
      /\ call'.pc = (IF queried THEN "tab" ELSE "leave")
      /\ (call'.error <=> ~queried) /\ call'.doubt = {}
  BY <1>2, IdleIs DEF CallFields
<1>4. /\ DOMAIN view' = {"marks", "scroll", "own", "listening", "stirred", "late"}
      /\ view'.marks = {} /\ ~view'.stirred
      /\ DOMAIN diag' = {"was", "look", "most", "alone", "occluded", "lost"}
      /\ diag'.was = "none" /\ ~diag'.lost
  BY NewPageIs DEF BeginDiagnosis
<1>5. /\ op \notin Ops /\ op \in Diagnoses /\ op # "detect" /\ op # "simulate"
      /\ call'.pc \in DiagnosisPcs(op) /\ call'.pc \in {"tab", "leave"}
      /\ call'.pc = "leave" => call'.error
  BY <1>3 DEF DiagnosisPcs, Ops, Diagnoses, ReadingOps, MovingOps
<1>6. FormTyped' /\ TableTyped'
  BY <1>1, <1>3, <1>4, NoFormIs DEF Inv, FormTyped, TableTyped
<1>7. Paths' /\ Guarded'
  BY <1>1, <1>3, <1>5 DEF Paths, Guarded, ErrorPcs
<1>8. Progress' /\ Remembered'
  BY <1>1, <1>3, <1>5, NoFormIs DEF Progress, Remembered, At
<1>9. Owned' /\ Answered'
  BY <1>1, <1>4, <1>5 DEF Owned, Answered
<1>10. Looking'
  BY <1>1, <1>3, <1>4, <1>5, NoFormIs DEF Looking
<1> QED
  BY <1>6, <1>7, <1>8, <1>9, <1>10 DEF Inv

LEMMA ArmKeeps ==
    ASSUME Inv, guardDiagnosis
    PROVE  Inv'
<1>1. /\ call.pc = "arm" /\ call.op \in Diagnoses /\ ~call.error
      /\ call.op \in ReadingOps \cup MovingOps
      /\ UNCHANGED <<form, saved, result, view, diag>>
  BY DEF guardDiagnosis, Inv, Paths, FormPcs, DiagnosisPcs, ErrorPcs
<1>2. guard'.on /\ DOMAIN guard' = {"on", "blocked"}
  BY DEF guardDiagnosis
<1>3. /\ DOMAIN call' = CallFields /\ call'.at = 1 /\ call'.snaps = call.snaps
      /\ call'.op = call.op /\ ~call'.error /\ call'.doubt = call.doubt
      /\ call'.pc = (IF call.op \in MovingOps THEN "move" ELSE "read")
  BY <1>1 DEF guardDiagnosis, Inv, FormTyped, CallFields
<1>4. call'.pc \in DiagnosisPcs(call.op)
  BY <1>1, <1>3 DEF DiagnosisPcs
<1>5. CallMoves
  BY <1>1, <1>3, <1>4 DEF CallMoves, Inv, FormTyped
<1>6. saved = {} /\ ~view.stirred /\ call'.pc \notin BeforeGuard
  BY <1>1, <1>3 DEF Inv, Owned, BeforeGuard
<1>7. diag.was # "none" => call.op \in MovingOps
  BY <1>1, DiagnosisIs DEF Inv, Looking
<1>8. ~view.listening
  BY <1>1 DEF Inv, Looking
<1>9. Looking'
  BY <1>1, <1>3, <1>7, <1>8 DEF Inv, Looking
<1>10. TableTyped'
  BY <1>1, <1>2 DEF Inv, TableTyped
<1> QED
  BY <1>1, <1>2, <1>5, <1>6, <1>9, <1>10, DiagnosisStep

\* What a movement does besides.
LEMMA StirIs ==
    ASSUME Inv, call.op \in MovingOps, call.op \in Diagnoses, call.pc = "move", Stir
    PROVE  /\ CallMoves /\ call'.pc = "look" /\ ~call'.error /\ call'.op = call.op
           /\ DOMAIN diag' = DOMAIN diag /\ diag'.was = diag.was
           /\ diag'.most = diag.most /\ (diag'.lost <=> diag.lost)
<1>1. ~call.error
  BY DEF Inv, Paths, ErrorPcs
<1>2. "look" \in DiagnosisPcs(call.op)
  BY DEF DiagnosisPcs
<1>3. CallMoves /\ call'.pc = "look" /\ ~call'.error /\ call'.op = call.op
  BY <1>1, <1>2, GotoMoves DEF Stir
<1>4. /\ DOMAIN diag' = DOMAIN diag /\ diag'.was = diag.was
      /\ diag'.most = diag.most /\ (diag'.lost <=> diag.lost)
  BY DEF Stir, Inv, TableTyped
<1> QED
  BY <1>3, <1>4

\* A diagnosis that fails, the page as it is.
LEMMA DiagnosisThrows ==
    ASSUME Inv, call.op \in Diagnoses, "finally" \in DiagnosisPcs(call.op),
           call.pc \in {"move", "look", "looked", "read"},
           Throw, UNCHANGED <<form, guard, saved, result, diag>>,
           DOMAIN view' = DOMAIN view, view'.marks = view.marks,
           view'.scroll = view.scroll \/ "scroll" \in view.marks, view'.own = view.own,
           view'.listening = view.listening,
           view'.stirred => view.stirred \/ call.op \in MovingOps
    PROVE  Inv'
<1>1. CallMoves /\ call'.pc = "finally" /\ call'.error /\ call'.op = call.op
  BY ThrowMoves
<1>2. TableTyped'
  BY DEF Inv, TableTyped
<1>3. call.op # "none" /\ (guard.on => saved = {}) /\ call'.pc \notin BeforeGuard
  BY <1>1, DiagnosisIs DEF Inv, Owned, BeforeGuard
<1>4. view'.stirred => call.op \in MovingOps
  BY <1>3 DEF Inv, Owned
<1>5. Looking'
  BY <1>1, <1>3 DEF Inv, Looking
<1> QED
  BY <1>1, <1>2, <1>3, <1>4, <1>5, DiagnosisStep

LEMMA HoverKeeps ==
    ASSUME Inv, hoverTarget
    PROVE  Inv'
<1>1. /\ call.pc = "move" /\ call.op \in Watching /\ call.op \in MovingOps
      /\ call.op \in Diagnoses /\ ~call.error
      /\ UNCHANGED <<form, guard, saved, result>>
  BY DEF hoverTarget, Inv, Paths, ErrorPcs, Watching, MovingOps, Diagnoses
<1>2. guard.on /\ saved = {}
  BY <1>1 DEF Inv, Guarded, Owned
<1>3. CASE Throw /\ UNCHANGED <<view, diag>>
  <2>1. "finally" \in DiagnosisPcs(call.op)
    BY <1>1 DEF DiagnosisPcs
  <2> QED
    BY <1>1, <1>3, <2>1, DiagnosisThrows
<1>4. CASE Stir /\ view' = [view EXCEPT !.stirred = TRUE]
  <2>1. /\ CallMoves /\ call'.pc = "look" /\ ~call'.error /\ call'.op = call.op
        /\ DOMAIN diag' = DOMAIN diag /\ diag'.was = diag.was
        /\ diag'.most = diag.most /\ (diag'.lost <=> diag.lost)
    BY <1>1, <1>4, StirIs
  <2>2. /\ DOMAIN view' = DOMAIN view /\ view'.marks = view.marks
        /\ view'.scroll = view.scroll /\ view'.own = view.own
        /\ view'.listening = view.listening
    BY <1>4 DEF Inv, TableTyped
  <2>3. TableTyped'
    BY <1>1, <2>1, <2>2 DEF Inv, TableTyped
  <2>4. Looking'
    BY <1>1, <2>1, <2>2 DEF Inv, Looking
  <2> QED
    BY <1>1, <1>2, <2>1, <2>3, <2>4, DiagnosisStep DEF BeforeGuard
<1> QED
  BY <1>3, <1>4 DEF hoverTarget

\* Where the table is scrolled to does not matter while the mark of its
\* container is there.
LEMMA ScrollKeeps ==
    ASSUME Inv, scrollLayout
    PROVE  Inv'
<1>1. /\ call.pc = "move" /\ call.op = "layout" /\ call.op \in MovingOps
      /\ call.op \in Diagnoses /\ ~call.error
      /\ UNCHANGED <<form, guard, saved, result>>
  BY DEF scrollLayout, At, Inv, Paths, ErrorPcs, MovingOps, Diagnoses
<1>2. guard.on /\ saved = {} /\ "finally" \in DiagnosisPcs(call.op)
  BY <1>1 DEF Inv, Guarded, Owned, DiagnosisPcs
<1>3. CASE Throw /\ UNCHANGED <<view, diag>>
  BY <1>1, <1>2, <1>3, DiagnosisThrows
<1>4. ASSUME NEW place, NEW moved \in BOOLEAN, "scroll" \in view.marks,
             view' = [view EXCEPT !.scroll = place, !.stirred = @ \/ moved],
             IF moved THEN Stir ELSE Throw /\ UNCHANGED diag
      PROVE  Inv'
  <2>1. /\ DOMAIN view' = DOMAIN view /\ view'.marks = view.marks /\ view'.own = view.own
        /\ view'.listening = view.listening
    BY <1>4 DEF Inv, TableTyped
  <2>2. CASE moved /\ Stir
    <3>1. /\ CallMoves /\ call'.pc = "look" /\ ~call'.error /\ call'.op = call.op
          /\ DOMAIN diag' = DOMAIN diag /\ diag'.was = diag.was
          /\ diag'.most = diag.most /\ (diag'.lost <=> diag.lost)
      BY <1>1, <2>2, StirIs
    <3>2. TableTyped'
      BY <1>1, <2>1, <3>1 DEF Inv, TableTyped
    <3>3. Looking'
      BY <1>1, <1>4, <2>1, <3>1 DEF Inv, Looking, Watching
    <3> QED
      BY <1>1, <1>2, <3>1, <3>2, <3>3, DiagnosisStep DEF BeforeGuard
  <2>3. CASE Throw /\ UNCHANGED diag
    BY <1>1, <1>2, <1>4, <2>1, <2>3, DiagnosisThrows
  <2> QED
    BY <1>4, <2>2, <2>3
<1>5. CASE \E moved \in {FALSE, "main" \in view.marks} :
              /\ "scroll" \in view.marks
              /\ view' = [view EXCEPT !.scroll = Positions(diag.was)[call.at],
                                      !.stirred = @ \/ moved]
              /\ IF moved THEN Stir ELSE Throw /\ UNCHANGED diag
  BY <1>4, <1>5
<1> QED
  BY <1>3, <1>5 DEF scrollLayout

\* A look goes on to another, to the next movement or to the verdict.
LEMMA LookOnIs ==
    ASSUME Inv, call.pc = "look", call.op \in Diagnoses, LookOn
    PROVE  /\ CallMoves /\ call'.op = call.op /\ ~call'.error
           /\ call'.pc \in {"look", "move", "looked"}
<1>1. ~call.error /\ call.op \in MovingOps
  BY DEF Inv, Paths, ErrorPcs, FormPcs, DiagnosisPcs
<1>2. {"look", "move", "looked"} \subseteq DiagnosisPcs(call.op)
  BY <1>1 DEF DiagnosisPcs
<1>3. CASE UNCHANGED call
  BY <1>1, <1>2, <1>3 DEF CallMoves, Inv, FormTyped
<1>4. CASE call' = [call EXCEPT !.pc = "move", !.at = @ + 1]
  <2>1. /\ DOMAIN call' = CallFields /\ call'.at = call.at + 1 /\ call'.snaps = call.snaps
        /\ call'.op = call.op /\ call'.pc = "move" /\ ~call'.error
        /\ call'.doubt = call.doubt
    BY <1>1, <1>4 DEF Inv, FormTyped, CallFields
  <2>2. call'.at \in Nat
    BY <2>1 DEF Inv, FormTyped
  <2>3. CallMoves
    BY <1>1, <1>2, <2>1, <2>2 DEF CallMoves, Inv, FormTyped
  <2> QED
    BY <2>1, <2>3
<1>5. CASE Goto("looked")
  <2>1. CallMoves /\ call'.pc = "looked" /\ ~call'.error /\ call'.op = call.op
    BY <1>1, <1>2, <1>5, GotoMoves
  <2> QED
    BY <2>1
<1> QED
  BY <1>3, <1>4, <1>5 DEF LookOn

\* A watching diagnosis that looks has missed nothing.
LEMMA LookKeeps ==
    ASSUME Inv, lookAround
    PROVE  Inv'
<1>1. /\ call.pc = "look" /\ call.op \in MovingOps /\ call.op \in Diagnoses /\ ~call.error
      /\ "finally" \in DiagnosisPcs(call.op)
      /\ UNCHANGED <<form, guard, saved, result, view>>
  BY DEF lookAround, Inv, Paths, ErrorPcs, FormPcs, DiagnosisPcs
<1>2. guard.on /\ saved = {}
  BY <1>1 DEF Inv, Guarded, Owned
<1>3. CASE Throw /\ UNCHANGED diag
  BY <1>1, <1>3, DiagnosisThrows
<1>4. ASSUME NEW n \in 0..2, NEW covered \in BOOLEAN, diag' = Seen(n, covered), LookOn,
             view.marks = Targets(call.op) \/ call.op = "layout"
      PROVE  Inv'
  <2>1. /\ CallMoves /\ call'.op = call.op /\ ~call'.error
        /\ call'.pc \in {"look", "move", "looked"}
    BY <1>1, <1>4, LookOnIs
  <2>2. /\ DOMAIN diag' = DOMAIN diag /\ diag'.was = diag.was
        /\ diag'.lost => diag.lost \/ view.marks # Targets(call.op)
    BY <1>4 DEF Seen, Inv, TableTyped
  <2>3. TableTyped'
    BY <1>1, <2>2 DEF Inv, TableTyped
  <2>4. call.op \in Watching => ~diag'.lost
    BY <1>1, <1>4, <2>2 DEF Inv, Looking, Watching
  <2>5. Looking'
    BY <1>1, <2>1, <2>2, <2>4 DEF Inv, Looking
  <2>6. call'.pc \notin BeforeGuard
    BY <2>1 DEF BeforeGuard
  <2> QED
    BY <1>1, <1>2, <2>1, <2>3, <2>5, <2>6, DiagnosisStep
<1>5. 0 \in 0..2 /\ FALSE \in BOOLEAN
  OBVIOUS
<1> QED
  BY <1>3, <1>4, <1>5 DEF lookAround

\* A control that was found is the only one that was seen.
LEMMA ConcludeKeeps ==
    ASSUME Inv, concludeDiagnosis
    PROVE  Inv'
<1>1. /\ call.pc = "looked" /\ call.op \in MovingOps /\ call.op \in Diagnoses /\ ~call.error
      /\ "finally" \in DiagnosisPcs(call.op)
      /\ UNCHANGED <<form, guard, saved, result, view, diag>>
  BY DEF concludeDiagnosis, Inv, Paths, ErrorPcs, FormPcs, DiagnosisPcs
<1>2. CASE Throw
  BY <1>1, <1>2, DiagnosisThrows
<1>3. CASE Goto("finally") /\ (call.op \in Watching => diag.most = 1)
  <2>1. CallMoves /\ call'.pc = "finally" /\ ~call'.error /\ call'.op = call.op
    BY <1>1, <1>3, GotoMoves
  <2>2. Looking'
    BY <1>1, <1>3, <2>1 DEF Inv, Looking
  <2> QED
    BY <1>1, <2>1, <2>2, QuietStep DEF BeforeGuard
<1>4. PICK found \in IF call.op = "hover" THEN summarizeReceiptHoverSnapshots
                     ELSE IF call.op = "rowHover" THEN classifyReceiptRowHoverDiagnostics
                     ELSE classifyReceiptLayoutDiagnostics :
         IF found /\ ~guard.blocked THEN Goto("finally") ELSE Throw
  BY DEF concludeDiagnosis
<1>5. CASE call.op = "hover" /\ found \in summarizeReceiptHoverSnapshots
  <2>1. CASE diag.most = 1
    BY <1>2, <1>3, <1>4, <2>1
  <2>2. CASE found = FALSE
    BY <1>2, <1>4, <2>2
  <2> QED
    BY <1>5, <2>1, <2>2 DEF summarizeReceiptHoverSnapshots
<1>6. CASE call.op = "rowHover" /\ found \in classifyReceiptRowHoverDiagnostics
  <2>1. CASE diag.most = 1
    BY <1>2, <1>3, <1>4, <2>1
  <2>2. CASE found = FALSE
    BY <1>2, <1>4, <2>2
  <2> QED
    BY <1>6, <2>1, <2>2 DEF classifyReceiptRowHoverDiagnostics
<1>7. CASE call.op = "layout"
  BY <1>2, <1>3, <1>4, <1>7 DEF Watching
<1> QED
  BY <1>1, <1>4, <1>5, <1>6, <1>7 DEF MovingOps

LEMMA ComponentsKeep ==
    ASSUME Inv, call.op \in ReadingOps, NEW found \in BOOLEAN, ReadComponents(found)
    PROVE  Inv'
<1>1. /\ call.pc = "read" /\ call.op \in Diagnoses /\ ~call.error
      /\ call.op \notin MovingOps /\ call.op \notin Watching
      /\ "finally" \in DiagnosisPcs(call.op)
      /\ UNCHANGED <<form, guard, saved, result, view, diag>>
  BY DEF ReadComponents, Inv, Paths, ErrorPcs, Diagnoses, ReadingOps, MovingOps, Watching,
         DiagnosisPcs
<1>2. CASE Throw
  BY <1>1, <1>2, DiagnosisThrows
<1>3. CASE Goto("finally")
  <2>1. CallMoves /\ call'.pc = "finally" /\ ~call'.error /\ call'.op = call.op
    BY <1>1, <1>3, GotoMoves
  <2>2. Looking'
    BY <1>1, <2>1, DiagnosisIs DEF Inv, Looking
  <2> QED
    BY <1>1, <2>1, <2>2, QuietStep DEF BeforeGuard
<1> QED
  BY <1>2, <1>3 DEF ReadComponents

LEMMA VueKeeps ==
    ASSUME Inv, diagnoseReceiptVueState
    PROVE  Inv'
BY ComponentsKeep DEF diagnoseReceiptVueState, ReadingOps

LEMMA SourceKeeps ==
    ASSUME Inv, diagnoseReceiptOperationSource \/ diagnoseReceiptRendererConfig
    PROVE  Inv'
<1>1. ReadComponents(FALSE) /\ call.op \in ReadingOps /\ FALSE \in BOOLEAN
  BY DEF diagnoseReceiptOperationSource, diagnoseReceiptRendererConfig, ReadingOps
<1> QED
  BY <1>1, ComponentsKeep

(***************************************************************************)
(* The end of a diagnosis.                                                 *)
(***************************************************************************)

\* The container of the table goes back, or a new one has taken its place.
LEMMA RestorePageKeeps ==
    ASSUME Inv, restorePage
    PROVE  Inv'
<1>1. /\ call.pc = "finally" /\ call.op \in {"rowHover", "layout"} /\ call.op \in Diagnoses
      /\ call.op \in MovingOps /\ "stop" \in DiagnosisPcs(call.op) /\ "stop" \in ErrorPcs
      /\ UNCHANGED <<form, guard, saved, result, diag>> /\ Goto("stop")
  BY DEF restorePage, Diagnoses, MovingOps, DiagnosisPcs, ErrorPcs
<1>2. CallMoves /\ call'.pc = "stop" /\ (call'.error <=> call.error) /\ call'.op = call.op
  BY <1>1, GotoMoves
<1>3. view' = [view EXCEPT !.marks = {},
                           !.scroll = IF "scroll" \in view.marks THEN diag.was ELSE @]
  BY DEF restorePage
<1>4. /\ DOMAIN view' = DOMAIN view /\ view'.marks = {} /\ view'.own = view.own
      /\ view'.listening = view.listening /\ (view'.stirred => view.stirred)
      /\ view'.scroll = IF "scroll" \in view.marks THEN diag.was ELSE view.scroll
  BY <1>3 DEF Inv, TableTyped
<1>5. Looking'
  BY <1>1, <1>2, <1>4 DEF Inv, Looking
<1> QED
  BY <1>1, <1>2, <1>4, <1>5, QuietStep DEF BeforeGuard

\* A hover has not touched the container.
LEMMA EndHoverKeeps ==
    ASSUME Inv, endHover
    PROVE  Inv'
<1>1. /\ call.op = "hover" /\ call.op \in Diagnoses /\ call.op \in MovingOps
      /\ call.op \in Watching /\ {"unmark", "stop"} \subseteq DiagnosisPcs(call.op)
      /\ {"unmark", "stop"} \subseteq ErrorPcs
      /\ UNCHANGED <<form, saved, result, diag>>
  BY DEF endHover, At, Diagnoses, MovingOps, Watching, DiagnosisPcs, ErrorPcs
<1>2. "scroll" \notin view.marks
  BY <1>1 DEF Inv, Looking, Targets
<1>3. CASE /\ call.pc = "finally" /\ Goto("unmark") /\ UNCHANGED view
           /\ guard' = [on |-> FALSE, blocked |-> FALSE]
  <2>1. CallMoves /\ call'.pc = "unmark" /\ (call'.error <=> call.error) /\ call'.op = call.op
    BY <1>1, <1>3, GotoMoves
  <2>2. ~guard'.on /\ DOMAIN guard' = {"on", "blocked"}
    BY <1>3
  <2>3. TableTyped'
    BY <1>1, <1>3, <2>2 DEF Inv, TableTyped
  <2>4. call'.pc \notin BeforeGuard
    BY <2>1 DEF BeforeGuard
  <2>5. Looking'
    BY <1>1, <1>3, <2>1 DEF Inv, Looking
  <2> QED
    BY <1>1, <2>1, <2>2, <2>3, <2>4, <2>5, DiagnosisStep
<1>4. CASE /\ call.pc = "unmark" /\ Goto("stop") /\ UNCHANGED guard
           /\ view' = [view EXCEPT !.marks = {}]
  <2>1. CallMoves /\ call'.pc = "stop" /\ (call'.error <=> call.error) /\ call'.op = call.op
    BY <1>1, <1>4, GotoMoves
  <2>2. /\ DOMAIN view' = DOMAIN view /\ view'.marks = {} /\ view'.own = view.own
        /\ view'.scroll = view.scroll
        /\ view'.listening = view.listening /\ (view'.stirred => view.stirred)
    BY <1>4 DEF Inv, TableTyped
  <2>3. Looking'
    BY <1>1, <1>2, <1>4, <2>1, <2>2 DEF Inv, Looking
  <2> QED
    BY <1>1, <1>4, <2>1, <2>2, <2>3, QuietStep DEF BeforeGuard
<1> QED
  BY <1>3, <1>4 DEF endHover, At

LEMMA LeaveKeeps ==
    ASSUME Inv, leaveDiagnosis
    PROVE  Inv'
<1>1. /\ call.pc = "leave" \/ (call.pc = "finally" /\ call.op \in ReadingOps)
      /\ call.op \in Diagnoses
      /\ UNCHANGED <<form, guard, saved, result, diag>> /\ Goto("stop")
      /\ view' = [view EXCEPT !.listening = FALSE]
  BY DEF leaveDiagnosis, Inv, Paths, FormPcs, Diagnoses
<1>2. "stop" \in DiagnosisPcs(call.op) /\ "stop" \in ErrorPcs
  BY DEF DiagnosisPcs, ErrorPcs
<1>3. CallMoves /\ call'.pc = "stop" /\ (call'.error <=> call.error) /\ call'.op = call.op
  BY <1>1, <1>2, GotoMoves
<1>4. /\ DOMAIN view' = DOMAIN view /\ view'.marks = view.marks
      /\ ~view'.listening /\ (view'.stirred => view.stirred)
  BY <1>1 DEF Inv, TableTyped
<1>5. diag.was = "none"
  BY <1>1, DiagnosisIs DEF Inv, Looking
<1>6. Looking'
  BY <1>1, <1>3, <1>4, <1>5 DEF Inv, Looking
<1> QED
  BY <1>1, <1>2, <1>3, <1>4, <1>6, QuietStep DEF BeforeGuard

(***************************************************************************)
(* The page.                                                               *)
(***************************************************************************)

\* Under a guard nothing is saved.
LEMMA SendsIs ==
    ASSUME Inv, NEW what, PageSends(what)
    PROVE  /\ DOMAIN guard' = {"on", "blocked"} /\ (guard'.on <=> guard.on)
           /\ guard.on => saved' = saved
           /\ saved' \subseteq saved \cup what
<1>1. PICK method \in {"POST", "PUT"}, readPath \in BOOLEAN, mutationPath \in BOOLEAN :
         /\ readPath => mutationPath
         /\ IF guard.on /\ classifyRecloudRequest(method, readPath, mutationPath) = "mutation"
            THEN guard' = [guard EXCEPT !.blocked = TRUE] /\ UNCHANGED saved
            ELSE saved' = saved \cup what /\ UNCHANGED guard
  BY DEF PageSends
<1>2. classifyRecloudRequest(method, readPath, mutationPath) = "mutation"
  BY <1>1 DEF classifyRecloudRequest
<1>3. CASE guard.on
  <2>1. guard' = [guard EXCEPT !.blocked = TRUE] /\ saved' = saved
    BY <1>1, <1>2, <1>3
  <2> QED
    BY <1>3, <2>1 DEF Inv, TableTyped
<1>4. CASE ~guard.on
  <2>1. guard' = guard /\ saved' = saved \cup what
    BY <1>1, <1>4
  <2> QED
    BY <1>4, <2>1 DEF Inv, TableTyped
<1> QED
  BY <1>3, <1>4

\* What a step of the page leaves alone that it only sends.
LEMMA SentKeeps ==
    ASSUME Inv, UNCHANGED <<form, call, result, view, diag>>,
           DOMAIN guard' = {"on", "blocked"}, guard'.on <=> guard.on,
           guard.on \/ call.op \in Ops \/ call.pc \in BeforeGuard => saved' = {},
           result.ok /\ result.op \in Ops => saved' \subseteq MayRemain
    PROVE  Inv'
<1>1. FormTyped' /\ TableTyped'
  BY DEF Inv, FormTyped, TableTyped
<1>2. Paths' /\ Guarded'
  BY DEF Inv, Paths, Guarded, Unguarded, Changed
<1>3. Progress'
  BY DEF Inv, Progress, At
<1>4. Remembered'
  BY DEF Inv, Remembered, May, MayDiffer
<1>5. Owned' /\ Looking'
  BY DEF Inv, Owned, Looking, MayRemain
<1>6. Answered'
  BY DEF Inv, Answered, Changed, MayRemain
<1> QED
  BY <1>1, <1>2, <1>3, <1>4, <1>5, <1>6 DEF Inv

\* A draft that the page saves while there is no guard is the form as found,
\* unless the call has ended.
LEMMA DraftKeeps ==
    ASSUME Inv, PageWrites, UNCHANGED <<view, diag>>
    PROVE  Inv'
<1>1. form.open /\ PageSends(Changed) /\ UNCHANGED <<form, call, result>>
  BY DEF PageWrites
<1>2. /\ DOMAIN guard' = {"on", "blocked"} /\ (guard'.on <=> guard.on)
      /\ guard.on => saved' = saved
      /\ saved' \subseteq saved \cup Changed
  BY <1>1, SendsIs
<1>3. call.pc \notin BeforeGuard
  <2>1. call.op \notin Diagnoses
    BY <1>1 DEF Inv, Looking
  <2>2. CASE call.op \in Ops
    BY <2>2, OpsDiffer DEF Inv, Paths
  <2>3. CASE call.pc = "idle"
    BY <2>3 DEF BeforeGuard
  <2> QED
    BY <2>1, <2>2, <2>3 DEF Inv, Paths
<1>4. ~guard.on /\ call.op \in Ops => Changed = {}
  BY DEF Inv, Guarded
<1>5. guard.on \/ call.op \in Ops => saved' = {}
  BY <1>2, <1>4 DEF Inv, Owned
<1>6. result.ok /\ result.op \in Ops => saved' \subseteq MayRemain
  BY <1>2 DEF Inv, Owned, Answered
<1> QED
  BY <1>1, <1>2, <1>3, <1>5, <1>6, SentKeeps

\* What the mouse makes the page save is aborted, or a diagnosis did it.
LEMMA ReactsKeeps ==
    ASSUME Inv, PageReacts
    PROVE  Inv'
<1>1. /\ view.stirred /\ PageSends({"mouse"})
      /\ UNCHANGED <<form, call, result, view, diag>>
  BY DEF PageReacts
<1>2. /\ DOMAIN guard' = {"on", "blocked"} /\ (guard'.on <=> guard.on)
      /\ guard.on => saved' = saved
  BY <1>1, SendsIs
<1>3. call.op \notin Ops /\ call.pc \notin BeforeGuard /\ (guard.on => saved = {})
  BY <1>1, OpsDiffer DEF Inv, Owned
<1>4. ~(result.ok /\ result.op \in Ops)
  <2>1. result.ok => call.pc = "idle"
    BY DEF Inv, Answered
  <2>2. call.pc = "idle" => call.op = "none"
    BY DiagnosisIs, OpsDiffer DEF Inv, Paths
  <2> QED
    BY <1>1, <2>1, <2>2 DEF Inv, Owned
<1> QED
  BY <1>1, <1>2, <1>3, <1>4, SentKeeps

LEMMA VanishKeeps ==
    ASSUME Inv, Vanish, UNCHANGED <<view, diag>>
    PROVE  Inv'
<1>1. form' = NoForm /\ UNCHANGED <<guard, saved, call, result>>
  BY DEF Vanish
<1>2. FormTyped' /\ TableTyped' /\ ~form'.open
  BY <1>1, NoFormIs DEF Inv, FormTyped, TableTyped
<1>3. Paths' /\ Guarded'
  BY <1>1, <1>2 DEF Inv, Paths, Guarded, Unguarded, Changed
<1>4. Progress' /\ Remembered'
  BY <1>1, <1>2 DEF Inv, Progress, Remembered, At
<1>5. Owned' /\ Looking'
  BY <1>1, <1>2 DEF Inv, Owned, Looking, MayRemain
<1>6. Answered'
  BY <1>1, <1>2 DEF Inv, Answered, Changed, MayRemain
<1> QED
  BY <1>2, <1>3, <1>4, <1>5, <1>6 DEF Inv

\* The table changes: marks go, and the container of the table stays as it
\* is, is put where the page wants it, or has lost its mark.
LEMMA ViewKeeps ==
    ASSUME Inv, UNCHANGED <<vars, diag>>, DOMAIN view' = DOMAIN view,
           view'.marks \subseteq view.marks, view'.listening = view.listening,
           view'.stirred = view.stirred,
           \/ view'.scroll = view'.own
           \/ /\ view'.scroll = view.scroll /\ view'.own = view.own
              /\ "scroll" \in view.marks => "scroll" \in view'.marks
    PROVE  Inv'
<1>1. UNCHANGED <<form, guard, saved, call, result>>
  BY DEF vars
<1>2. FormTyped' /\ TableTyped'
  BY <1>1 DEF Inv, FormTyped, TableTyped
<1>3. Paths' /\ Guarded'
  BY <1>1 DEF Inv, Paths, Guarded, Unguarded, Changed
<1>4. Progress'
  BY <1>1 DEF Inv, Progress, At
<1>5. Remembered'
  BY <1>1 DEF Inv, Remembered, May, MayDiffer
<1>6. Owned'
  BY <1>1 DEF Inv, Owned, MayRemain
<1>7. Looking'
  BY <1>1 DEF Inv, Looking
<1>8. Answered'
  BY <1>1 DEF Inv, Answered, Changed, MayRemain
<1> QED
  BY <1>2, <1>3, <1>4, <1>5, <1>6, <1>7, <1>8 DEF Inv

LEMMA RerenderKeeps ==
    ASSUME Inv, Rerender
    PROVE  Inv'
<1>1. PICK kept \in SUBSET view.marks :
         view' = IF "scroll" \in view.marks \ kept
                 THEN [view EXCEPT !.marks = kept, !.scroll = "left", !.own = "left"]
                 ELSE [view EXCEPT !.marks = kept]
  BY DEF Rerender
<1>2. /\ DOMAIN view' = DOMAIN view /\ view'.marks = kept
      /\ view'.listening = view.listening /\ view'.stirred = view.stirred
      /\ "scroll" \in view.marks \ kept => view'.scroll = "left" /\ view'.own = "left"
      /\ "scroll" \notin view.marks \ kept => view'.scroll = view.scroll /\ view'.own = view.own
  BY <1>1 DEF Inv, TableTyped
<1> QED
  BY <1>2, ViewKeeps DEF Rerender

LEMMA LateKeeps ==
    ASSUME Inv, LateWork
    PROVE  Inv'
<1>1. PICK work \in view.late :
         LET over == view.late \ {work}
         IN  \/ view' = [view EXCEPT !.late = over]
             \/ view' = [view EXCEPT !.late = over, !.marks = {},
                                     !.scroll = "left", !.own = "left"]
             \/ view' = [view EXCEPT !.late = over, !.scroll = "right", !.own = "right"]
  BY DEF LateWork
<1>2. /\ DOMAIN view' = DOMAIN view /\ view'.marks \subseteq view.marks
      /\ view'.listening = view.listening /\ view'.stirred = view.stirred
      /\ \/ view'.scroll = view'.own
         \/ view'.scroll = view.scroll /\ view'.own = view.own /\ view'.marks = view.marks
  BY <1>1 DEF Inv, TableTyped
<1> QED
  BY <1>2, ViewKeeps DEF LateWork

(***************************************************************************)
(* The theorems.                                                           *)
(***************************************************************************)

LEMMA InitInv == DInit => Inv
<1>1. SUFFICES ASSUME DInit
               PROVE  Inv
  OBVIOUS
<1>2. /\ form = NoForm /\ call = Idle /\ saved = {}
      /\ DOMAIN guard = {"on", "blocked"} /\ ~guard.on /\ ~result.ok
  BY <1>1 DEF DInit, Init, NoResult
<1>3. /\ DOMAIN view = {"marks", "scroll", "own", "listening", "stirred", "late"}
      /\ view.marks = {} /\ ~view.stirred /\ ~view.listening
      /\ DOMAIN diag = {"was", "look", "most", "alone", "occluded", "lost"}
      /\ diag.was = "none" /\ ~diag.lost
  BY <1>1 DEF DInit, NoView, NoDiag
<1>4. FormTyped /\ TableTyped
  BY <1>2, <1>3, IdleIs, NoFormIs DEF FormTyped, TableTyped
<1>5. Paths /\ Guarded /\ Remembered
  BY <1>2, IdleIs DEF Paths, Guarded, Remembered, Ops
<1>6. Progress
  BY <1>2, IdleIs, NoFormIs DEF Progress, At
<1>7. Owned /\ Answered
  BY <1>2, <1>3 DEF Owned, Answered
<1>8. Looking
  BY <1>2, <1>3, IdleIs DEF Looking, Diagnoses, ReadingOps, MovingOps, Watching
<1> QED
  BY <1>4, <1>5, <1>6, <1>7, <1>8 DEF Inv

LEMMA StepKeeps ==
    ASSUME Inv, Step, UNCHANGED <<view, diag>>
    PROVE  Inv'
<1>1. CASE createReceiptNetworkGuard
  BY <1>1, GuardKeeps
<1>2. CASE openReceiptFormForDryRun
  BY <1>2, OpenKeeps
<1>3. CASE assertSafe
  BY <1>3, AssertSafeKeeps
<1>4. CASE locateReceiptFormControls
  BY <1>4, LocateKeeps
<1>5. CASE closeDialog
  BY <1>5, CloseKeeps
<1>6. CASE readOriginals
  BY <1>6, ReadKeeps
<1>7. CASE simulateReceiptForm
  BY <1>7, SimulateKeeps
<1>8. CASE cleanReceiptForm
  BY <1>8, CleanKeeps
<1>9. CASE escapeReceiptForm
  BY <1>9, EscapeKeeps
<1>10. CASE searchFaults
  BY <1>10, SearchKeeps
<1>11. CASE restoreKeyword
  BY <1>11, KeywordKeeps
<1>12. CASE startPrefill
  BY <1>12, StartKeeps
<1>13. CASE snapshotField
  BY <1>13, SnapshotKeeps
<1>14. CASE writeField
  BY <1>14, WriteKeeps
<1>15. CASE restoreField
  BY <1>15, RestoreKeeps
<1>16. CASE endPrefill
  BY <1>16, EndPrefillKeeps
<1>17. CASE rollback
  BY <1>17, RollbackKeeps
<1>18. CASE restoreKeywordFinally
  BY <1>18, KeywordFinallyKeeps
<1>19. CASE closeFinally
  BY <1>19, CloseFinallyKeeps
<1>20. CASE stop
  BY <1>20, StopKeeps
<1> QED
  BY <1>1, <1>2, <1>3, <1>4, <1>5, <1>6, <1>7, <1>8, <1>9, <1>10, <1>11, <1>12, <1>13,
     <1>14,
     <1>15, <1>16, <1>17, <1>18, <1>19, <1>20 DEF Step

LEMMA DiagnoseKeeps ==
    ASSUME Inv, Diagnose
    PROVE  Inv'
<1>1. CASE activateProductTab
  BY <1>1, TabKeeps
<1>2. CASE scrollToTable
  BY <1>2, SeekKeeps
<1>3. CASE diagnoseReceiptTableStructure
  BY <1>3, StructureKeeps
<1>4. CASE diagnoseFixedReceiptOperation
  BY <1>4, FixedKeeps
<1>5. CASE markTargets
  BY <1>5, MarkKeeps
<1>6. CASE guardDiagnosis
  BY <1>6, ArmKeeps
<1>7. CASE hoverTarget
  BY <1>7, HoverKeeps
<1>8. CASE scrollLayout
  BY <1>8, ScrollKeeps
<1>9. CASE lookAround
  BY <1>9, LookKeeps
<1>10. CASE concludeDiagnosis
  BY <1>10, ConcludeKeeps
<1>11. CASE diagnoseReceiptVueState
  BY <1>11, VueKeeps
<1>12. CASE diagnoseReceiptOperationSource \/ diagnoseReceiptRendererConfig
  BY <1>12, SourceKeeps
<1>13. CASE restorePage
  BY <1>13, RestorePageKeeps
<1>14. CASE endHover
  BY <1>14, EndHoverKeeps
<1>15. CASE leaveDiagnosis
  BY <1>15, LeaveKeeps
<1> QED
  BY <1>1, <1>2, <1>3, <1>4, <1>5, <1>6, <1>7, <1>8, <1>9, <1>10, <1>11, <1>12, <1>13,
     <1>14,
     <1>15 DEF Diagnose

LEMMA StutterKeeps ==
    ASSUME Inv, UNCHANGED dvars
    PROVE  Inv'
<1>1. UNCHANGED <<vars, view, diag>>
  BY DEF dvars
<1> QED
  BY <1>1, ViewKeeps

LEMMA NextKeeps == Inv /\ [DNext]_dvars => Inv'
<1>1. SUFFICES ASSUME Inv, [DNext]_dvars
               PROVE  Inv'
  OBVIOUS
<1>2. ASSUME NEW op \in Ops, Begin(op), NewPage({"left"}, FALSE)
      PROVE  Inv'
  BY <1>1, <1>2, BeginKeeps
<1>3. ASSUME NEW op \in Diagnoses, BeginDiagnosis(op)
      PROVE  Inv'
  BY <1>1, <1>3, BeginDiagnosisKeeps
<1>4. CASE Step /\ UNCHANGED <<view, diag>>
  BY <1>1, <1>4, StepKeeps
<1>5. CASE Diagnose
  BY <1>1, <1>5, DiagnoseKeeps
<1>6. CASE PageWrites /\ UNCHANGED <<view, diag>>
  BY <1>1, <1>6, DraftKeeps
<1>7. CASE Vanish /\ UNCHANGED <<view, diag>>
  BY <1>1, <1>7, VanishKeeps
<1>8. CASE Rerender
  BY <1>1, <1>8, RerenderKeeps
<1>9. CASE PageReacts
  BY <1>1, <1>9, ReactsKeeps
<1>10. CASE LateWork
  BY <1>1, <1>10, LateKeeps
<1>11. CASE UNCHANGED dvars
  BY <1>1, <1>11, StutterKeeps
<1> QED
  BY <1>1, <1>2, <1>3, <1>4, <1>5, <1>6, <1>7, <1>8, <1>9, <1>10, <1>11 DEF DNext, DStep

\* In every behaviour of the calls that share the page, whatever it does by
\* itself, the invariant holds.
THEOREM Invariance == DSpec => []Inv
<1>1. DInit => Inv
  BY InitInv
<1>2. Inv /\ [DNext]_dvars => Inv'
  BY NextKeeps
<1> QED
  BY <1>1, <1>2, PTL DEF DSpec

\* For any plan and any way in which the fields of a form change one another:
\* while a dry run is under way or a guard is there nothing that the page saves
\* reaches Recloud, and what reaches it after an answer that says ok are fields
\* that the call took for something else or that were changed again after they
\* were put back.
THEOREM NothingSaved == DSpec => []DryRunStaysHere
<1>1. Inv => DryRunStaysHere
  BY DEF Inv, Owned, DryRunStaysHere
<1> QED
  BY <1>1, Invariance, PTL

\* For any plan and any such way: a call that answers ok has left the form gone
\* or as found, but for those fields.
THEOREM OkIsHonest == DSpec => []OkMeansUntouched
<1>1. Inv => OkMeansUntouched
  BY DEF Inv, Answered, OkMeansUntouched
<1> QED
  BY <1>1, Invariance, PTL

\* A hover that reports the receipt control saw no second one and missed none
\* of its marked elements, however the page rendered anew.
THEOREM FoundIsSeen == DSpec => []FoundWasWatched
<1>1. Inv => FoundWasWatched
  BY DEF Inv, Answered, FoundWasWatched, Watching
<1> QED
  BY <1>1, Invariance, PTL

\* Every call hands the page back: no guard, no observer, no mark, and the
\* table where it was or where something else has put it.
THEOREM PageIsHandedBack == DSpec => []PageHandedBack
<1>1. Inv => PageHandedBack
  <2>1. SUFFICES ASSUME Inv, call.pc = "idle"
                 PROVE  /\ ~guard.on /\ ~view.listening
                        /\ diag.was # "none" => /\ view.marks = {}
                                                /\ view.scroll \in {diag.was, view.own}
    BY DEF PageHandedBack
  <2>2. ~guard.on
    BY <2>1 DEF Inv, Guarded
  <2>3. ~view.listening
    BY <2>1 DEF Inv, Looking
  <2>4. ASSUME diag.was # "none"
        PROVE  view.marks = {} /\ view.scroll \in {diag.was, view.own}
    BY <2>1, <2>4 DEF Inv, Looking
  <2> QED
    BY <2>2, <2>3, <2>4
<1> QED
  BY <1>1, Invariance, PTL

(***************************************************************************)
(* The searches for the receive control: the invariant.                    *)
(***************************************************************************)

\* Row p has something row r has not, and the logistics number if r has it.
Exceeds(p, r) ==
    /\ \E has \in {"logistics", "product", "status"} : table.row[p][has] /\ ~table.row[r][has]
    /\ table.row[r].logistics => table.row[p].logistics

MappedIsFirst ==
    mapped.status = "found" /\ ~PlaceMisleads =>
        /\ mapped.row \in Rows
        /\ unread = {} => mapped.row = RowIndex
        /\ \A r \in Rows \ unread : table.row[r].logistics => table.row[mapped.row].logistics

PendingExceeds ==
    pending.status = "found" =>
        /\ pending.row \in Rows
        /\ \A r \in Rows \ {pending.row} :
              table.row[r].control = "one" => Exceeds(pending.row, r)

LocatorInv == table \in Tables /\ MappedIsFirst /\ PendingExceeds

(***************************************************************************)
(* Small sets.                                                             *)
(***************************************************************************)

LEMMA FiniteImage ==
    ASSUME NEW S, IsFiniteSet(S), NEW f, DOMAIN f = S
    PROVE  IsFiniteSet({f[x] : x \in S})
<1> DEFINE T == {f[x] : x \in S}
           g == [x \in S |-> f[x]]
<1>1. g \in Surjection(S, T)
  BY DEF Surjection
<1> QED
  BY <1>1, FS_Surjection DEF ExistsSurjection

LEMMA Sole ==
    ASSUME NEW S, IsFiniteSet(S), Cardinality(S) = 1
    PROVE  /\ Only(S) \in S
           /\ \A x \in S : x = Only(S)
<1>1. PICK x : S = {x}
  BY FS_Singleton
<1> QED
  BY <1>1 DEF Only

LEMMA SomeMember ==
    ASSUME NEW S, Cardinality(S) = 1
    PROVE  Only(S) \in S
<1>1. S # {}
  BY FS_EmptySet
<1> QED
  BY <1>1 DEF Only

\* Bounded numbers have a greatest one.
LEMMA Greatest ==
    ASSUME NEW b \in Nat, NEW T, T \subseteq 0..b, T # {}
    PROVE  \E m \in T : \A k \in T : k <= m
<1> DEFINE R == {ss \in Nat \X Nat : ss[1] < ss[2]}
           D == {n \in Nat : n <= b /\ b - n \in T}
<1>1. IsWellFoundedOn(OpToRel(<, Nat), Nat)
  BY NatLessThanWellFounded
<1>2. IsWellFoundedOn(R, Nat)
  BY <1>1 DEF OpToRel
<1>3. D \subseteq Nat /\ D # {}
  <2>1. PICK n \in T : TRUE
    OBVIOUS
  <2>2. b - n \in D
    BY <2>1
  <2> QED
    BY <2>2
<1> HIDE DEF R, D
<1>4. PICK m \in D : \A k \in D : ~ (<<k, m>> \in R)
  BY <1>2, <1>3, WFMin
<1>5. \A k \in D : ~ (k < m)
  BY <1>3, <1>4 DEF R
<1>6. b - m \in T
  BY <1>4 DEF D
<1>7. ASSUME NEW k \in T
      PROVE  k <= b - m
  <2>1. b - k \in D
    BY DEF D
  <2> QED
    BY <1>3, <1>5, <2>1
<1> QED
  BY <1>6, <1>7

(***************************************************************************)
(* The table and its elements.                                             *)
(***************************************************************************)

RowFields == {"logistics", "product", "status"}

LEMMA TableIs ==
    ASSUME table \in Tables
    PROVE  /\ \A r \in Rows : /\ table.row[r].control \in Controls
                              /\ \A has \in RowFields : table.row[r][has] \in BOOLEAN
           /\ table.icons \in BOOLEAN /\ table.aria \in {"none", "main", "both"}
           /\ table.layer \in {"rows", "cells", "loose", "none"}
           /\ table.shift \in Int
           /\ -Height < 2 * table.shift /\ 2 * table.shift < Height
           /\ table.layer = "none" => table.shift = 0
BY TableAssumption DEF Tables, RowFields

LEMMA RowsAre ==
    /\ Rows \subseteq Nat \ {0} /\ 1 \in Rows /\ IsFiniteSet(Rows)
    /\ \A r \in Rows : r <= N
BY TableAssumption, FS_Interval DEF Rows

\* Rows lie one below the other.
LEMMA Spacing ==
    /\ Height \in Nat \ {0}
    /\ \A r \in Rows : Height * r \in Int
    /\ \A r, s \in Rows : r < s => Height * r + Height <= Height * s
<1>1. Height \in Nat \ {0}
  BY TableAssumption
<1>2. ASSUME NEW r \in Rows, NEW s \in Rows, r < s
      PROVE  Height * r + Height <= Height * s
  <2>1. r \in Nat /\ s \in Nat
    BY RowsAre
  <2> DEFINE k == s - r - 1
  <2>2. k \in Nat /\ s = r + 1 + k
    BY <2>1, <1>2
  <2> HIDE DEF k
  <2>3. Height * s = Height * r + Height + Height * k
    BY <2>1, <2>2, <1>1
  <2>4. Height * k \in Nat /\ Height * r \in Nat
    BY <2>1, <2>2, <1>1
  <2> QED
    BY <2>3, <2>4, <1>1
<1> QED
  BY <1>1, <1>2, RowsAre

Elements == Main \cup Fixed

\* What the elements say of their rows.
LEMMA ElementIs ==
    ASSUME table \in Tables, NEW e \in Elements
    PROVE  /\ e.row \in Rows /\ e.layer \in {"main", "fixed"} /\ e.y \in Int
           /\ e = Element(e.row, e.layer)
           /\ e.layer = "main" => e \in Main /\ e.y = Height * e.row
           /\ e.layer = "fixed" => e \in Fixed /\ table.layer # "none"
                                   /\ e.y = Height * e.row + table.shift
           /\ e.key \in {0, e.row} /\ e.aria \in {0, e.row}
           /\ e.aria = 0 =>
                 table.aria = "none" \/ (table.aria = "main" /\ e.layer = "fixed")
           /\ e.aria # 0 =>
                 table.aria = "both" \/ (table.aria = "main" /\ e.layer = "main")
           /\ table.keys = "both" => e.key = e.row
<1>1. PICK r \in Rows, l \in {"main", "fixed"} :
        e = Element(r, l) /\ (l = "fixed" => table.layer # "none")
  BY DEF Elements, Main, Fixed
<1>2. e.row = r /\ e.layer = l
  BY <1>1 DEF Element
<1>3. e.y = IF l = "main" THEN Height * r ELSE Height * r + table.shift
  BY <1>1 DEF Element
<1>4. /\ e.key \in {0, r} /\ e.aria \in {0, r}
      /\ e.aria = 0 => table.aria = "none" \/ (table.aria = "main" /\ l = "fixed")
      /\ e.aria # 0 => table.aria = "both" \/ (table.aria = "main" /\ l = "main")
      /\ table.keys = "both" => e.key = r
  BY <1>1, RowsAre, TableIs DEF Element
<1>5. l = "main" => e \in Main
  BY <1>1 DEF Main
<1>6. l = "fixed" => e \in Fixed
  BY <1>1 DEF Fixed
<1>7. e.y \in Int
  BY <1>3, Spacing, TableIs
<1> QED
  BY <1>1, <1>2, <1>3, <1>4, <1>5, <1>6, <1>7

LEMMA MainIs ==
    ASSUME table \in Tables, NEW r \in Rows
    PROVE  /\ Element(r, "main") \in Main /\ Element(r, "main") \in Elements
           /\ Element(r, "main").row = r /\ Element(r, "main").layer = "main"
BY DEF Main, Elements, Element

LEMMA FixedIs ==
    ASSUME table \in Tables, NEW r \in Rows, table.layer # "none"
    PROVE  /\ Element(r, "fixed") \in Fixed /\ Element(r, "fixed") \in Elements
           /\ Element(r, "fixed").row = r /\ Element(r, "fixed").layer = "fixed"
BY DEF Fixed, Elements, Element

\* What an element says of its row; only the main layer has the text.
LEMMA TextIs ==
    ASSUME table \in Tables, NEW e \in Elements
    PROVE  /\ e.logistics \in BOOLEAN /\ e.product \in BOOLEAN /\ e.status \in BOOLEAN
           /\ e.logistics <=> e.layer = "main" /\ table.row[e.row].logistics
           /\ e.product <=> e.layer = "main" /\ table.row[e.row].product
           /\ e.status <=> e.layer = "main" /\ table.row[e.row].status
           /\ e.label <=> (e.layer = "fixed" \/ table.layer = "none") /\ HasLabel(e.row)
<1> DEFINE r == e.row
           l == e.layer
           x == Element(r, l)
<1>1. e = x
  BY ElementIs
<1>2. x.logistics = (l = "main" /\ table.row[r].logistics)
  BY DEF Element
<1>3. x.product = (l = "main" /\ table.row[r].product)
  BY DEF Element
<1>4. x.status = (l = "main" /\ table.row[r].status)
  BY DEF Element
<1>5. x.label = ((l = "fixed" \/ table.layer = "none") /\ HasLabel(r))
  BY DEF Element
<1> HIDE DEF x
<1>6. /\ e.logistics = (l = "main" /\ table.row[r].logistics)
      /\ e.product = (l = "main" /\ table.row[r].product)
      /\ e.status = (l = "main" /\ table.row[r].status)
      /\ e.label = ((l = "fixed" \/ table.layer = "none") /\ HasLabel(r))
  BY <1>1, <1>2, <1>3, <1>4, <1>5
<1> QED
  BY <1>6

\* A higher row is above a lower one in whatever layers they are, and more
\* than half a row away; the elements of one row are within half a row.
LEMMA Above ==
    ASSUME table \in Tables, NEW d \in Elements, NEW e \in Elements, d.row < e.row
    PROVE  2 * d.y + Height < 2 * e.y
<1>1. Height * d.row + Height <= Height * e.row
  BY Spacing, ElementIs
<1>2. /\ Height * d.row \in Int /\ Height * e.row \in Int
      /\ d.y = Height * d.row \/ d.y = Height * d.row + table.shift
      /\ e.y = Height * e.row \/ e.y = Height * e.row + table.shift
  BY Spacing, ElementIs
<1>3. table.shift \in Int /\ -Height < 2 * table.shift /\ 2 * table.shift < Height
  BY TableIs
<1>4. CASE d.y = Height * d.row + table.shift /\ e.y = Height * e.row + table.shift
  BY <1>1, <1>2, <1>3, <1>4, Spacing
<1>5. CASE d.y = Height * d.row /\ e.y = Height * e.row + table.shift
  BY <1>1, <1>2, <1>3, <1>5, Spacing
<1>6. CASE d.y = Height * d.row + table.shift /\ e.y = Height * e.row
  BY <1>1, <1>2, <1>3, <1>6, Spacing
<1>7. CASE d.y = Height * d.row /\ e.y = Height * e.row
  BY <1>1, <1>2, <1>3, <1>7, Spacing
<1> QED
  BY <1>2, <1>4, <1>5, <1>6, <1>7

LEMMA Beside ==
    ASSUME table \in Tables, NEW d \in Elements, NEW e \in Elements
    PROVE  /\ d.row = e.row => OverlapsByHalf(d, e) /\ Overlaps(d, e)
           /\ -Height <= 2 * Below(d, e) /\ 2 * Below(d, e) <= Height => d.row = e.row
           /\ d.y = e.y => d.row = e.row
<1>1. d.row \in Nat /\ e.row \in Nat /\ d.y \in Int /\ e.y \in Int /\ Height \in Nat
  BY ElementIs, RowsAre, Spacing
<1>2. ASSUME d.row = e.row
      PROVE  OverlapsByHalf(d, e) /\ Overlaps(d, e)
  <2>1. /\ Height * d.row \in Int
        /\ d.y = Height * d.row \/ d.y = Height * d.row + table.shift
        /\ e.y = Height * d.row \/ e.y = Height * d.row + table.shift
    BY <1>2, Spacing, ElementIs
  <2>2. /\ table.shift \in Int /\ -Height < 2 * table.shift /\ 2 * table.shift < Height
    BY TableIs
  <2> QED
    BY <1>1, <2>1, <2>2 DEF OverlapsByHalf, Overlaps, Below
<1>3. d.row < e.row => 2 * d.y + Height < 2 * e.y
  BY Above
<1>4. e.row < d.row => 2 * e.y + Height < 2 * d.y
  BY Above
<1>5. ASSUME -Height <= 2 * Below(d, e), 2 * Below(d, e) <= Height
      PROVE  d.row = e.row
  BY <1>1, <1>3, <1>4, <1>5 DEF Below
<1>6. d.y = e.y => d.row = e.row
  BY <1>1, <1>3, <1>4
<1> QED
  BY <1>2, <1>5, <1>6

LEMMA ElementsFinite ==
    /\ IsFiniteSet(Elements) /\ IsFiniteSet(Main) /\ IsFiniteSet(Fixed)
    /\ FixedRows \subseteq Fixed
<1>1. IsFiniteSet(Main)
  <2> DEFINE f == [r \in Rows |-> Element(r, "main")]
  <2>1. Main = {f[r] : r \in Rows}
    BY DEF Main
  <2>2. IsFiniteSet({f[r] : r \in Rows})
    BY RowsAre, FiniteImage
  <2> QED
    BY <2>1, <2>2
<1>2. IsFiniteSet(Fixed)
  <2> DEFINE f == [r \in Rows |-> Element(r, "fixed")]
  <2>1. {Element(r, "fixed") : r \in Rows} = {f[r] : r \in Rows}
    OBVIOUS
  <2>2. IsFiniteSet({f[r] : r \in Rows})
    BY RowsAre, FiniteImage
  <2> QED
    BY <2>1, <2>2, FS_EmptySet DEF Fixed
<1> QED
  BY <1>1, <1>2, FS_Union DEF Elements, FixedRows

(***************************************************************************)
(* findMappedReceiptControl.                                               *)
(***************************************************************************)

\* The first of some elements has no element of a higher row among them.
LEMMA NoneAbove ==
    ASSUME table \in Tables, NEW S, S \subseteq Elements,
           NEW e \in Elements, NEW d \in S, PositionIn(S, e) = 1
    PROVE  ~ (d.row < e.row)
<1> DEFINE A == {c \in S : c.y < e.y \/ (c.y = e.y /\ c.layer = "main" /\ e.layer # "main")}
<1>1. IsFiniteSet(A)
  BY ElementsFinite, FS_Subset
<1>2. Cardinality(A) \in Nat
  BY <1>1, FS_CardinalityType
<1>3. 1 + Cardinality(A) = 1
  BY DEF PositionIn
<1> HIDE DEF A
<1>4. A = {}
  BY <1>1, <1>2, <1>3, FS_EmptySet
<1>5. ASSUME d.row < e.row
      PROVE  FALSE
  <2>1. 2 * d.y + Height < 2 * e.y /\ d.y \in Int /\ e.y \in Int /\ Height \in Nat
    BY <1>5, Above, ElementIs, Spacing
  <2>2. d.y < e.y
    BY <2>1
  <2> QED
    BY <2>2, <1>4 DEF A
<1> QED
  BY <1>5

LEMMA DistinctRowsAre ==
    Main \subseteq DistinctRows /\ DistinctRows \subseteq Elements
<1>1. \A e \in Main : e.layer = "main"
  BY DEF Main, Element
<1>2. \A e \in Main \cup FixedRows : e.layer = "main" => e \in DistinctRows
  BY DEF DistinctRows, Distinct
<1>3. DistinctRows \subseteq Main \cup FixedRows
  BY DEF DistinctRows, Distinct
<1> QED
  BY <1>1, <1>2, <1>3, ElementsFinite DEF Elements

\* The number weighs more than all the rest of a row.
LEMMA ScoreIs ==
    ASSUME table \in Tables, NEW e \in Elements
    PROVE  /\ ReceiptScore(e) \in Nat
           /\ e.logistics <=> ReceiptScore(e) >= 4
<1>1. e.logistics \in BOOLEAN
  BY TextIs
<1>2. /\ Num(e.status \/ e.label) \in {0, 1} /\ Num(e.product) \in {0, 1}
      /\ e.logistics => Num(e.logistics) = 1
      /\ ~e.logistics => Num(e.logistics) = 0
  BY DEF Num
<1>3. CASE Num(e.logistics) = 1
  BY <1>2, <1>3 DEF ReceiptScore
<1>4. CASE Num(e.logistics) = 0
  BY <1>2, <1>4 DEF ReceiptScore
<1> QED
  BY <1>1, <1>2, <1>3, <1>4

\* Of the best of some rows each has the number if one of them has it.
LEMMA BestHasNumber ==
    ASSUME table \in Tables, NEW S, S \subseteq Elements, NEW t \in BestOf(S),
           NEW r \in Rows, Element(r, "main") \in S, table.row[r].logistics
    PROVE  table.row[t.row].logistics
<1> DEFINE e == Element(r, "main")
<1>1. e \in Elements /\ e \in S /\ e.row = r /\ e.layer = "main"
  BY MainIs
<1> HIDE DEF e
<1>2. e.logistics
  BY <1>1, TextIs
<1>3. t \in S /\ t \in Elements /\ ReceiptScore(e) <= ReceiptScore(t)
  BY <1>1 DEF BestOf, Best
<1>4. ReceiptScore(e) >= 4 /\ ReceiptScore(e) \in Nat /\ ReceiptScore(t) \in Nat
  BY <1>1, <1>2, <1>3, ScoreIs
<1>5. ReceiptScore(t) >= 4
  BY <1>3, <1>4
<1>6. t.logistics
  BY <1>3, <1>5, ScoreIs
<1> QED
  BY <1>3, <1>6, TextIs

\* Where the fixed layer is not the higher one, nothing stands above the first
\* row of the main layer.
LEMMA FirstInPlace ==
    ASSUME table \in Tables, ~(table.shift < 0), NEW S, S \subseteq Elements,
           NEW t \in Elements, t.row = 1, t.layer = "main"
    PROVE  PositionIn(S, t) = 1
<1> DEFINE A == {c \in S : c.y < t.y \/ (c.y = t.y /\ c.layer = "main" /\ t.layer # "main")}
<1>1. t.y = Height * 1 /\ Height \in Nat \ {0}
  BY ElementIs, Spacing
<1>2. ASSUME NEW c \in S
      PROVE  ~(c.y < t.y)
  <2>1. c \in Elements /\ c.row \in Nat \ {0} /\ c.y \in Int /\ table.shift \in Int
        /\ (c.y = Height * c.row \/ c.y = Height * c.row + table.shift)
    BY ElementIs, RowsAre, TableIs
  <2>2. CASE c.row = 1
    BY <1>1, <2>1, <2>2
  <2>3. CASE t.row < c.row
    <3>1. 2 * t.y + Height < 2 * c.y
      BY <2>1, <2>3, Above
    <3> QED
      BY <1>1, <2>1, <3>1
  <2> QED
    BY <2>1, <2>2, <2>3
<1>3. A = {}
  BY <1>2
<1> QED
  BY <1>3, FS_EmptySet DEF PositionIn

LEMMA TargetIsFirst ==
    ASSUME table \in Tables, NEW t \in TargetRows
    PROVE  /\ t \in Elements /\ t.row = 1 /\ t \in BestRows
           /\ t.aria = 0 => PositionIn(DistinctRows, t) = 1
<1>1. /\ t \in BestRows /\ t \in Elements
      /\ t.aria # 0 => t.aria = 1
      /\ t.aria = 0 => PositionIn(DistinctRows, t) = 1
  BY DistinctRowsAre DEF TargetRows, RowIndex, BestRows, BestOf, Best
<1>2. CASE t.aria # 0
  BY <1>1, <1>2, ElementIs
<1>3. CASE t.aria = 0
  <2> DEFINE d == Element(1, "main")
  <2>1. d \in DistinctRows /\ d.row = 1
    BY MainIs, RowsAre, DistinctRowsAre
  <2> HIDE DEF d
  <2>2. ~ (1 < t.row)
    BY <1>1, <1>3, <2>1, NoneAbove, DistinctRowsAre
  <2>3. t.row \in Nat \ {0}
    BY <1>1, ElementIs, RowsAre
  <2>4. t.row = 1
    BY <2>2, <2>3
  <2> QED
    BY <1>1, <2>4
<1> QED
  BY <1>1, <1>2, <1>3

\* In rows, the elements beside the target are of the layer, and that of the
\* target's row is among them.
LEMMA RowsBeside ==
    ASSUME table \in Tables, NEW t \in Elements, t.row = 1, table.layer = "rows"
    PROVE  /\ BesideTarget(t) \subseteq Elements
           /\ Element(1, "fixed") \in BesideTarget(t)
<1>1. BesideTarget(t) = {f \in Fixed : Overlaps(f, t)}
  BY DEF BesideTarget
<1>2. Element(1, "fixed") \in Fixed /\ Element(1, "fixed") \in Elements
      /\ Element(1, "fixed").row = 1
  BY RowsAre, FixedIs
<1>3. Overlaps(Element(1, "fixed"), t)
  BY <1>2, Beside
<1> QED
  BY <1>1, <1>2, <1>3 DEF Elements

\* What is beside the target keeps its row and its place, whatever else it
\* loses; the container has no row.
LEMMA BesideIs ==
    ASSUME table \in Tables, NEW t \in Elements, t.row = 1, table.layer # "none",
           NEW f \in BesideTarget(t)
    PROVE  /\ f.key \in {0, f.row} /\ f.aria \in {0, f.row}
           /\ f.row = 0 => table.layer = "cells"
           /\ f.row # 0 => \E g \in Elements : g.row = f.row /\ g.y = f.y
<1>1. CASE table.layer = "rows"
  <2>1. f \in Elements
    BY <1>1, RowsBeside
  <2> QED
    BY <2>1, ElementIs, RowsAre
<1>2. CASE table.layer = "cells"
  <2>1. \/ f \in Fixed
        \/ f = [Element(1, "fixed") EXCEPT !.row = 0, !.key = 0, !.aria = 0, !.y = t.y]
    BY <1>2 DEF BesideTarget
  <2>2. CASE f \in Fixed
    <3>1. f \in Elements
      BY <2>2 DEF Elements
    <3> QED
      BY <3>1, ElementIs, RowsAre
  <2>3. CASE f = [Element(1, "fixed") EXCEPT !.row = 0, !.key = 0, !.aria = 0, !.y = t.y]
    <3>1. f.row = 0 /\ f.key = 0 /\ f.aria = 0
      BY <2>3 DEF Element
    <3> QED
      BY <3>1, <1>2
  <2> QED
    BY <2>1, <2>2, <2>3
<1>3. CASE table.layer = "loose"
  <2>1. PICK g \in Fixed : f = [g EXCEPT !.key = 0, !.aria = 0]
    BY <1>3 DEF BesideTarget
  <2>2. g \in Elements /\ g = Element(g.row, g.layer)
    BY ElementIs DEF Elements
  <2>3. f.key = 0 /\ f.aria = 0 /\ f.row = g.row /\ f.y = g.y
    <3> DEFINE r == g.row
               l == g.layer
    <3>1. f = [Element(r, l) EXCEPT !.key = 0, !.aria = 0]
      BY <2>1, <2>2
    <3>2. g = Element(r, l)
      BY <2>2
    <3> HIDE DEF r, l
    <3> QED
      BY <3>1, <3>2 DEF Element
  <2> QED
    BY <2>2, <2>3, ElementIs, RowsAre
<1> QED
  BY <1>1, <1>2, <1>3, TableIs

\* What matches the target and is alone in doing so is of its row.
LEMMA MatchIsFirst ==
    ASSUME table \in Tables, ~PlaceMisleads, NEW t \in TargetRows, table.layer # "none",
           Cardinality(FixedMatches(t)) = 1
    PROVE  Only(FixedMatches(t)).row = 1
<1> DEFINE S == BesideTarget(t)
           M == FixedMatches(t)
           f == Only(M)
<1>0. t \in Elements /\ t.row = 1
  BY TargetIsFirst
<1>1. f \in M
  BY SomeMember
<1>2. /\ f \in S
      /\ \/ f \in ByKey(t, S)
         \/ f \in ByAria(t, S)
         \/ /\ ByKey(t, S) = {} /\ ByAria(t, S) = {}
            /\ M = ByPosition(t, S) \/ M = ByOverlap(t, S)
  BY <1>1 DEF FixedMatches, ByKey, ByAria, ByPosition, ByOverlap
<1>3. t.key \in {0, 1} /\ t.aria \in {0, 1}
  BY <1>0, ElementIs
<1>4. f.key \in {0, f.row} /\ f.aria \in {0, f.row}
  BY <1>0, <1>2, BesideIs
<1>5. CASE f \in ByKey(t, S)
  BY <1>3, <1>4, <1>5 DEF ByKey
<1>6. CASE f \in ByAria(t, S)
  BY <1>3, <1>4, <1>6 DEF ByAria
<1>7. CASE ByKey(t, S) = {} /\ ByAria(t, S) = {} /\ M = ByPosition(t, S)
  <2>1. table.layer = "rows" /\ PositionIn(S, f) = PositionIn(DistinctRows, t)
    BY <1>1, <1>7 DEF ByPosition
  <2> DEFINE d == Element(1, "fixed")
  <2>2. S \subseteq Elements /\ d \in S
    BY <1>0, <2>1, RowsBeside
  <2>3. d \in Elements /\ d.row = 1
    BY <2>1, FixedIs, RowsAre
  <2> HIDE DEF d
  <2>4. PositionIn(DistinctRows, t) = 1
    <3>1. CASE t.aria = 0
      BY <3>1, TargetIsFirst
    <3>2. CASE t.aria # 0
      <4>1. t.aria = 1 /\ ~(d.aria = 1)
        BY <1>3, <1>7, <2>2, <3>2 DEF ByAria
      <4>2. d.aria = 0
        BY <2>3, <4>1, ElementIs
      <4>3. t.layer = "main" /\ table.aria = "main"
        BY <1>0, <2>3, <3>2, <4>2, ElementIs
      <4>4. table.keys # "both"
        <5>1. ASSUME table.keys = "both"
              PROVE  FALSE
          <6>1. t.key = 1 /\ d.key = 1
            BY <1>0, <2>3, <5>1, ElementIs
          <6>2. d \in ByKey(t, S)
            BY <2>2, <6>1 DEF ByKey
          <6> QED
            BY <1>7, <6>2
        <5> QED
          BY <5>1
      <4>5. ~(table.shift < 0)
        BY <2>1, <4>3, <4>4 DEF PlaceMisleads
      <4> QED
        BY <1>0, <4>3, <4>5, FirstInPlace, DistinctRowsAre
    <3> QED
      BY <3>1, <3>2
  <2>5. PositionIn(S, f) = 1
    BY <2>1, <2>4
  <2>6. ~ (1 < f.row)
    BY <1>2, <2>2, <2>3, <2>5, NoneAbove
  <2>7. f.row \in Nat \ {0}
    BY <1>2, <2>2, ElementIs, RowsAre
  <2> QED
    BY <2>6, <2>7
<1>8. CASE M = ByOverlap(t, S)
  <2>1. OverlapsByHalf(f, t)
    BY <1>1, <1>8 DEF ByOverlap
  <2>2. CASE f.row # 0
    <3>1. PICK g \in Elements : g.row = f.row /\ g.y = f.y
      BY <1>0, <1>2, <2>2, BesideIs
    <3>2. OverlapsByHalf(g, t)
      BY <2>1, <3>1 DEF OverlapsByHalf, Below
    <3>3. -Height <= 2 * Below(g, t) /\ 2 * Below(g, t) <= Height
      <4>1. g.y \in Int /\ t.y \in Int /\ Height \in Nat
        BY <1>0, ElementIs, Spacing
      <4> QED
        BY <3>2, <4>1 DEF OverlapsByHalf, Below
    <3>4. g.row = t.row
      BY <1>0, <3>3, Beside
    <3> QED
      BY <1>0, <3>1, <3>4
  <2>3. CASE f.row = 0
    <3>1. table.layer = "cells"
      BY <1>0, <1>2, <2>3, BesideIs
    <3> DEFINE d == Element(1, "fixed")
               c == [d EXCEPT !.row = 0, !.key = 0, !.aria = 0, !.y = t.y]
    <3>2. d \in Fixed /\ d \in Elements /\ d.row = 1
      BY FixedIs, RowsAre
    <3>3. OverlapsByHalf(d, t)
      BY <1>0, <3>2, Beside
    <3>4. S = {e \in Fixed : OverlapsByHalf(e, t)} \cup {c}
      BY <3>1 DEF BesideTarget
    <3>5. IsFiniteSet(S)
      <4> DEFINE B == {e \in Fixed : OverlapsByHalf(e, t)}
      <4>1. PICK x : S = B \cup {x}
        BY <3>4
      <4>2. IsFiniteSet(B) /\ IsFiniteSet({x})
        BY ElementsFinite, FS_Subset, FS_Singleton
      <4> HIDE DEF B
      <4>3. IsFiniteSet(B \cup {x})
        BY <4>2, FS_Union
      <4> QED
        BY <4>1, <4>3
    <3>6. d \in M
      BY <1>8, <3>2, <3>3, <3>4 DEF ByOverlap
    <3>7. IsFiniteSet(M)
      BY <1>8, <3>5, FS_Subset DEF ByOverlap
    <3>8. d = f
      BY <3>6, <3>7, Sole
    <3> QED
      BY <2>3, <3>2, <3>8
  <2> QED
    BY <2>2, <2>3
<1> QED
  BY <1>2, <1>5, <1>6, <1>7, <1>8

LEMMA ControlIs ==
    ASSUME NEW r
    PROVE  /\ ControlIn(r).status = "found" => ControlIn(r).row = r /\ table.row[r].control = "one"
BY DEF ControlIn, Found, Refused

LEMMA MappedControlIsFirst ==
    ASSUME table \in Tables, ~PlaceMisleads, MappedControl.status = "found"
    PROVE  /\ MappedControl.row = 1
           /\ \E t \in BestRows : t.row = 1
<1> DEFINE t == Only(TargetRows)
           f == Only(FixedMatches(t))
<1>1. /\ Cardinality(TargetRows) = 1 /\ table.layer # "none"
      /\ Cardinality(FixedMatches(t)) = 1 /\ MappedControl = ControlIn(f.row)
  BY DEF MappedControl, Refused
<1>2. t \in TargetRows
  BY <1>1, SomeMember
<1>3. t \in BestRows /\ t.row = 1
  BY <1>2, TargetIsFirst
<1>4. f.row = 1
  BY <1>1, <1>2, MatchIsFirst
<1> QED
  BY <1>1, <1>3, <1>4, ControlIs

\* Element by element: what is found is of the row of the best element read.
LEMMA ElementsControl ==
    ASSUME table \in Tables, NEW read, read \subseteq Main \cup FixedRows,
           NEW c \in ControlsByElements(read), c.status = "found"
    PROVE  /\ c.row \in Rows
           /\ (\A r \in Rows : Element(r, "main") \in read) => c.row = 1
           /\ \A r \in Rows : Element(r, "main") \in read /\ table.row[r].logistics
                              => table.row[c.row].logistics
<1> DEFINE rows == Distinct(read)
           best == BestOf(rows)
           t == Only(best)
           before == {e \in rows : DocumentIndex(e) < DocumentIndex(t)}
           place == IF t.aria # 0 THEN t.aria ELSE 1 + Cardinality(before)
           cells == {e \in Main \cup Fixed :
                        e.label /\ -Height <= 2 * Below(e, t) /\ 2 * Below(e, t) <= Height}
<1>1. Cardinality(best) = 1 /\ place = 1
      /\ \E e \in cells : c = Found(e.row)
  <2>1. c # Refused("not_found") /\ c # Refused("control_ambiguous")
    BY DEF Refused
  <2> QED
    BY <2>1 DEF ControlsByElements, RowIndex
<1>2. read \subseteq Elements /\ rows \subseteq read
      /\ \A r \in Rows : Element(r, "main") \in read => Element(r, "main") \in rows
  BY ElementsFinite, MainIs DEF Distinct, Elements
<1>3. t \in best /\ t \in rows /\ t \in Elements
  BY <1>1, <1>2, SomeMember DEF BestOf, Best
<1>4. c.row = t.row
  <2>1. PICK e \in cells : c = Found(e.row)
    BY <1>1
  <2>2. e \in Elements /\ -Height <= 2 * Below(e, t) /\ 2 * Below(e, t) <= Height
    BY <2>1 DEF Elements
  <2>3. e.row = t.row
    BY <1>3, <2>2, Beside
  <2> QED
    BY <2>1, <2>3 DEF Found
<1>5. t.row \in Rows /\ t.row \in Nat \ {0} /\ N \in Nat \ {0}
      /\ t.aria \in {0, t.row} /\ t.layer \in {"main", "fixed"}
  BY <1>3, ElementIs, RowsAre, TableAssumption
<1>6. ASSUME \A r \in Rows : Element(r, "main") \in read
      PROVE  t.row = 1
  <2>1. CASE t.aria # 0
    BY <1>1, <1>5, <2>1
  <2>2. CASE t.aria = 0
    <3> DEFINE m == Element(1, "main")
    <3>1. m \in rows /\ m.row = 1 /\ m.layer = "main"
      BY <1>2, <1>6, RowsAre, MainIs
    <3> HIDE DEF m
    <3>2. IsFiniteSet(before)
      BY <1>2, ElementsFinite, FS_Subset
    <3>3. Cardinality(before) \in Nat /\ 1 + Cardinality(before) = 1
      BY <1>1, <2>2, <3>2, FS_CardinalityType
    <3>4. before = {}
      <4> HIDE DEF before
      <4> QED
        BY <3>2, <3>3, FS_EmptySet
    <3>5. ~(DocumentIndex(m) < DocumentIndex(t))
      BY <3>1, <3>4
    <3> QED
      BY <1>5, <3>1, <3>5 DEF DocumentIndex
  <2> QED
    BY <2>1, <2>2
<1>7. ASSUME NEW r \in Rows, Element(r, "main") \in read, table.row[r].logistics
      PROVE  table.row[t.row].logistics
  <2>1. Element(r, "main") \in rows /\ rows \subseteq Elements
    BY <1>2, <1>7
  <2> HIDE DEF rows
  <2> QED
    BY <1>3, <1>7, <2>1, BestHasNumber
<1> QED
  BY <1>4, <1>5, <1>6, <1>7

LEMMA MappedStep ==
    ASSUME table \in Tables, findMappedReceiptControl
    PROVE  MappedIsFirst'
<1>1. table' = table /\ (PlaceMisleads' <=> PlaceMisleads)
  BY DEF findMappedReceiptControl, PlaceMisleads
<1>2. SUFFICES ASSUME mapped'.status = "found", ~PlaceMisleads
               PROVE  /\ mapped'.row \in Rows
                      /\ unread' = {} => mapped'.row = 1
                      /\ \A r \in Rows \ unread' :
                            table.row[r].logistics => table.row[mapped'.row].logistics
  BY <1>1 DEF MappedIsFirst, RowIndex
<1>3. CASE mapped' \in {MappedControl, Refused("not_found")} /\ unread' = {}
  <2>1. mapped' = MappedControl
    BY <1>2, <1>3 DEF Refused
  <2>2. PICK t \in BestRows : mapped'.row = 1 /\ t.row = 1
    BY <1>2, <2>1, MappedControlIsFirst
  <2>3. ASSUME NEW r \in Rows, table.row[r].logistics
        PROVE  table.row[1].logistics
    <3>1. Element(r, "main") \in DistinctRows /\ DistinctRows \subseteq Elements
      BY MainIs, DistinctRowsAre
    <3> QED
      BY <2>2, <2>3, <3>1, BestHasNumber DEF BestRows
  <2> QED
    BY <1>3, <2>2, <2>3, RowsAre
<1>4. CASE \E read \in SUBSET (Main \cup FixedRows) :
             /\ mapped' \in ControlsByElements(read)
             /\ unread' = {r \in Rows : Element(r, "main") \notin read}
  <2>1. PICK read \in SUBSET (Main \cup FixedRows) :
             /\ mapped' \in ControlsByElements(read)
             /\ unread' = {r \in Rows : Element(r, "main") \notin read}
    BY <1>4
  <2>2. /\ mapped'.row \in Rows
        /\ (\A r \in Rows : Element(r, "main") \in read) => mapped'.row = 1
        /\ \A r \in Rows : Element(r, "main") \in read /\ table.row[r].logistics
                           => table.row[mapped'.row].logistics
    BY <1>2, <2>1, ElementsControl
  <2> QED
    BY <2>1, <2>2
<1> QED
  BY <1>3, <1>4 DEF findMappedReceiptControl

(***************************************************************************)
(* findPendingReceiptAction.                                               *)
(***************************************************************************)

LEMMA NumIs ==
    ASSUME NEW b \in BOOLEAN
    PROVE  Num(b) \in {0, 1} /\ (b <=> Num(b) = 1)
BY DEF Num

LEMMA TextScoreIs ==
    ASSUME table \in Tables, NEW e \in Elements
    PROVE  /\ TextScore(e) \in 0..160
           /\ e.layer = "fixed" => TextScore(e) = 0
<1>1. /\ Num(e.logistics) \in {0, 1} /\ Num(e.status) \in {0, 1} /\ Num(e.product) \in {0, 1}
  BY TextIs, NumIs
<1>2. ASSUME e.layer = "fixed"
      PROVE  Num(e.logistics) = 0 /\ Num(e.status) = 0 /\ Num(e.product) = 0
  BY <1>2, TextIs DEF Num
<1> QED
  BY <1>1, <1>2 DEF TextScore

\* A row that weighs more has something the other has not; and the number
\* outweighs the rest.
LEMMA Outweighs ==
    ASSUME table \in Tables, NEW e \in Main, NEW d \in Main, TextScore(d) < TextScore(e)
    PROVE  Exceeds(e.row, d.row)
<1> DEFINE p == e.row
           r == d.row
           n(x) == Num(table.row[x].logistics)
           s(x) == Num(table.row[x].status)
           q(x) == Num(table.row[x].product)
<1>1. e \in Elements /\ d \in Elements /\ e.layer = "main" /\ d.layer = "main"
      /\ p \in Rows /\ r \in Rows
  <2>1. e \in Elements /\ d \in Elements
    BY DEF Elements
  <2>2. e.layer = "main" /\ d.layer = "main"
    BY DEF Main, Element
  <2> QED
    BY <2>1, <2>2, ElementIs
<1>2. \A x \in Rows : /\ table.row[x].logistics \in BOOLEAN /\ table.row[x].status \in BOOLEAN
                      /\ table.row[x].product \in BOOLEAN
  BY TableIs DEF RowFields
<1>3. \A x \in Rows : /\ n(x) \in {0, 1} /\ (table.row[x].logistics <=> n(x) = 1)
                      /\ s(x) \in {0, 1} /\ (table.row[x].status <=> s(x) = 1)
                      /\ q(x) \in {0, 1} /\ (table.row[x].product <=> q(x) = 1)
  BY <1>2, NumIs
<1>4. \A x \in Elements : x.layer = "main" =>
        /\ x.logistics = table.row[x.row].logistics /\ x.status = table.row[x.row].status
        /\ x.product = table.row[x.row].product
  <2>1. \A x \in Elements : x.layer = "main" =>
          /\ x.logistics <=> table.row[x.row].logistics
          /\ x.status <=> table.row[x.row].status
          /\ x.product <=> table.row[x.row].product
          /\ x.logistics \in BOOLEAN /\ x.status \in BOOLEAN /\ x.product \in BOOLEAN
          /\ x.row \in Rows
    BY TextIs, ElementIs
  <2> QED
    BY <1>2, <2>1
<1>5. /\ TextScore(e) = 100 * n(p) + 40 * s(p) + 20 * q(p)
      /\ TextScore(d) = 100 * n(r) + 40 * s(r) + 20 * q(r)
  BY <1>1, <1>4 DEF TextScore
<1> HIDE DEF n, s, q, p, r
<1>6. /\ n(p) \in {0, 1} /\ s(p) \in {0, 1} /\ q(p) \in {0, 1}
      /\ n(r) \in {0, 1} /\ s(r) \in {0, 1} /\ q(r) \in {0, 1}
  BY <1>1, <1>3
<1>7. /\ (n(p) = 1 /\ n(r) = 0) \/ (s(p) = 1 /\ s(r) = 0) \/ (q(p) = 1 /\ q(r) = 0)
      /\ n(r) = 1 => n(p) = 1
  BY <1>5, <1>6
<1>8. /\ \/ table.row[p].logistics /\ ~table.row[r].logistics
         \/ table.row[p].status /\ ~table.row[r].status
         \/ table.row[p].product /\ ~table.row[r].product
      /\ table.row[r].logistics => table.row[p].logistics
  BY <1>1, <1>3, <1>7
<1>9. Exceeds(p, r)
  BY <1>8 DEF Exceeds
<1> QED
  BY <1>9 DEF p, r

\* What a search needs: the row it chooses exceeds all others.
Prevails(p) ==
    /\ p \in Rows
    /\ \A r \in Rows \ {p} : table.row[r].control = "one" => Exceeds(p, r)

LEMMA CandidatesAre ==
    ASSUME table \in Tables
    PROVE  /\ Candidates \subseteq Elements
           /\ \A e \in Candidates : /\ e.label /\ (e.layer = "fixed" \/ table.layer = "none")
                                    /\ CandidateScore(e) \in 0..165
                                    /\ CandidateScore(e) <= TextScore(e) + 5
                                    /\ e.layer = "fixed" => e \in FixedRows
           /\ \A e \in Main \cup FixedRows :
                 e.label /\ table.row[e.row].control = "one" =>
                    e \in Candidates /\ CandidateScore(e) = TextScore(e) + 5
<1>1. FixedRows \subseteq Fixed /\ Main \cup FixedRows \subseteq Elements
  BY ElementsFinite DEF Elements
<1>2. Candidates \subseteq Elements
  BY <1>1 DEF Candidates
<1>3. ASSUME NEW e \in Candidates
      PROVE  /\ e.label /\ (e.layer = "fixed" \/ table.layer = "none")
             /\ CandidateScore(e) \in 0..165
             /\ CandidateScore(e) <= TextScore(e) + 5
  <2>1. TextScore(e) \in 0..160
    BY <1>2, TextScoreIs
  <2>2. Num(table.row[e.row].control # "disabled") \in {0, 1}
    BY DEF Num
  <2>3. CandidateScore(e) \in 0..165 /\ CandidateScore(e) <= TextScore(e) + 5
    BY <2>1, <2>2 DEF CandidateScore
  <2>4. e.label
    BY DEF Candidates
  <2> QED
    BY <1>2, <2>3, <2>4, TextIs
<1>4. ASSUME NEW e \in Candidates, e.layer = "fixed"
      PROVE  e \in FixedRows
  <2>1. e \notin Main
    BY <1>4 DEF Main, Element
  <2> QED
    BY <2>1 DEF Candidates
<1>5. ASSUME NEW e \in Main \cup FixedRows, e.label, table.row[e.row].control = "one"
      PROVE  e \in Candidates /\ CandidateScore(e) = TextScore(e) + 5
  <2>1. e \in Candidates
    BY <1>5 DEF Candidates
  <2>2. Num(table.row[e.row].control # "disabled") = 1
    BY <1>5 DEF Num
  <2> QED
    BY <2>1, <2>2, <1>1, TextScoreIs DEF CandidateScore
<1> QED
  BY <1>2, <1>3, <1>4, <1>5

LEMMA Less ==
    /\ \A a, b, c \in Int : ~ (a <= b) /\ a <= c => b < c
    /\ \A b, c, x, y \in Int : b < c /\ b = x + 5 /\ c <= y + 5 => x < y
OBVIOUS

\* Among labels: the candidate that is best alone beats the row's own.
LEMMA SelectPrevails ==
    ASSUME table \in Tables, Candidates # {}, selectReceiptCandidate.status = "found"
    PROVE  Prevails(selectReceiptCandidate.row)
<1> DEFINE best == Best(Candidates, CandidateScore)
           c == Only(best)
<1>1. (\A d, e \in best : d.y = e.y) /\ selectReceiptCandidate = Found(c.row)
  BY DEF selectReceiptCandidate, Refused
<1>2. \A e : e \in best <=>
        e \in Candidates /\ \A d \in Candidates : CandidateScore(d) <= CandidateScore(e)
  BY DEF Best
<1>3. best # {}
  <2> DEFINE T == {CandidateScore(e) : e \in Candidates}
  <2>1. T \subseteq 0..165 /\ T # {}
    BY CandidatesAre
  <2>2. PICK m \in T : \A k \in T : k <= m
    <3> HIDE DEF T
    <3> QED
      BY <2>1, Greatest
  <2> QED
    BY <1>2, <2>2
<1> HIDE DEF best
<1>4. c \in best
  BY <1>3 DEF Only
<1> HIDE DEF c
<1>5. c \in Candidates /\ c \in Elements /\ c.row \in Rows /\ c.label
      /\ (c.layer = "fixed" \/ table.layer = "none") /\ c.layer \in {"main", "fixed"}
  BY <1>2, <1>4, CandidatesAre, ElementIs
<1>6. ~table.icons
  BY <1>5, TextIs DEF HasLabel
<1>7. ASSUME NEW r \in Rows \ {c.row}, table.row[r].control = "one"
      PROVE  Exceeds(c.row, r)
  <2> DEFINE e == Element(r, c.layer)
  <2>1. e \in Main \cup FixedRows /\ e \in Elements /\ e.row = r /\ e.layer = c.layer
    <3>1. CASE c.layer = "main"
      BY <3>1, MainIs
    <3>2. CASE c.layer = "fixed"
      <4>1. c \in FixedRows
        BY <1>5, <3>2, CandidatesAre
      <4>2. table.layer = "rows" /\ FixedRows = Fixed
        BY <4>1 DEF FixedRows
      <4> QED
        BY <3>2, <4>2, FixedIs
    <3> QED
      BY <1>5, <3>1, <3>2
  <2> HIDE DEF e
  <2>2. e.label
    BY <1>5, <1>6, <1>7, <2>1, TextIs DEF HasLabel
  <2>3. e \in Candidates /\ CandidateScore(e) = TextScore(e) + 5
    BY <1>7, <2>1, <2>2, CandidatesAre
  <2>4. e.y # c.y
    BY <1>5, <2>1, Beside
  <2>5. e \notin best
    BY <1>1, <1>4, <2>4
  <2>6. PICK d \in Candidates : ~ (CandidateScore(d) <= CandidateScore(e))
    BY <1>2, <2>3, <2>5
  <2>7. CandidateScore(d) <= CandidateScore(c)
    BY <1>2, <1>4
  <2>8. CandidateScore(d) \in 0..165 /\ CandidateScore(e) \in 0..165 /\ CandidateScore(c) \in 0..165
        /\ CandidateScore(c) <= TextScore(c) + 5
    BY <1>5, <2>3, CandidatesAre
  <2>9. TextScore(c) \in 0..160 /\ TextScore(e) \in 0..160
        /\ (c.layer = "fixed" => TextScore(c) = 0)
    BY <1>5, <2>1, TextScoreIs
  <2>10. TextScore(e) < TextScore(c)
    <3>1. /\ CandidateScore(d) \in Int /\ CandidateScore(e) \in Int /\ CandidateScore(c) \in Int
          /\ TextScore(c) \in Int /\ TextScore(e) \in Int
      BY <2>8, <2>9
    <3>2. CandidateScore(e) < CandidateScore(c)
      BY <2>6, <2>7, <3>1, Less
    <3> QED
      BY <2>3, <2>8, <3>1, <3>2, Less
  <2>11. c.layer = "main"
    BY <1>5, <2>9, <2>10
  <2>12. c \in Main /\ e \in Main
    BY <1>5, <2>1, <2>11, ElementIs
  <2>13. Exceeds(c.row, e.row)
    BY <2>10, <2>12, Outweighs
  <2> QED
    BY <2>1, <2>13
<1>8. Prevails(c.row)
  BY <1>5, <1>7 DEF Prevails
<1> QED
  BY <1>1, <1>8 DEF Found

LEMMA OneControlIs ==
    ASSUME table \in Tables, NEW S, S \subseteq Elements, OneControl(S).status = "found"
    PROVE  /\ table.row[OneControl(S).row].control = "one"
           /\ \E e \in WithControl(S) : e.row = OneControl(S).row
<1> DEFINE rows == {e.row : e \in {d \in WithControl(S) : table.row[d.row].control # "disabled"}}
<1>1. Cardinality(rows) = 1 /\ table.row[Only(rows)].control = "one"
      /\ OneControl(S) = Found(Only(rows))
  BY DEF OneControl, Refused
<1>2. PICK e \in WithControl(S) : e.row = Only(rows)
  <2>1. Only(rows) \in rows
    BY <1>1, SomeMember
  <2> QED
    BY <2>1
<1>3. OneControl(S).row = Only(rows)
  BY <1>1 DEF Found
<1> HIDE DEF rows
<1> QED
  BY <1>1, <1>2, <1>3

\* By rows: the one row that beats all others, and what belongs to it.
LEMMA OperationPrevails ==
    ASSUME table \in Tables, diagnoseReceiptOperation.status = "found"
    PROVE  Prevails(diagnoseReceiptOperation.row)
<1> DEFINE t == Only(TargetReceiptRow)
           S == CorrespondingOperationRows(t)
<1>1. Cardinality(TargetReceiptRow) = 1 /\ diagnoseReceiptOperation = OneControl(S)
  BY DEF diagnoseReceiptOperation, Refused
<1>2. IsFiniteSet(TargetReceiptRow)
  BY ElementsFinite, FS_Subset DEF TargetReceiptRow, Best
<1>3. t \in TargetReceiptRow /\ \A e \in TargetReceiptRow : e = t
  BY <1>1, <1>2, Sole
<1>4. \A e : e \in TargetReceiptRow <=>
        e \in Main /\ \A d \in Main : TextScore(d) <= TextScore(e)
  BY DEF TargetReceiptRow, Best
<1>5. t \in Main /\ t \in Elements /\ t.layer = "main" /\ t.row \in Rows
  <2>1. t \in Main /\ t \in Elements
    BY <1>3, <1>4 DEF Elements
  <2> QED
    BY <2>1, ElementIs DEF Main, Element
<1> HIDE DEF t
<1>6. S \subseteq Elements
  BY <1>5, ElementsFinite DEF CorrespondingOperationRows, Elements
<1>7. ASSUME NEW e \in S
      PROVE  e.row = t.row
  <2>1. \/ e = t
        \/ t.key # 0 /\ e.key = t.key
        \/ e.row = DocumentIndex(t)
        \/ e.y = t.y
    BY DEF CorrespondingOperationRows
  <2>2. e \in Elements
    BY <1>6
  <2>3. DocumentIndex(t) = t.row
    BY <1>5 DEF DocumentIndex
  <2>4. e.y = t.y => e.row = t.row
    BY <1>5, <2>2, Beside
  <2>5. t.key # 0 /\ e.key = t.key => e.row = t.row
    <3>1. e.key \in {0, e.row} /\ t.key \in {0, t.row}
      BY <1>5, <2>2, ElementIs
    <3> QED
      BY <3>1
  <2> QED
    BY <2>1, <2>3, <2>4, <2>5
<1>8. OneControl(S).row = t.row
  <2>1. PICK e \in WithControl(S) : e.row = OneControl(S).row
    BY <1>1, <1>6, OneControlIs
  <2> QED
    BY <1>7, <2>1 DEF WithControl
<1>9. ASSUME NEW r \in Rows \ {t.row}
      PROVE  Exceeds(t.row, r)
  <2> DEFINE e == Element(r, "main")
  <2>1. e \in Main /\ e \in Elements /\ e.row = r
    BY MainIs
  <2> HIDE DEF e
  <2>2. e \notin TargetReceiptRow
    BY <1>3, <2>1
  <2>3. PICK d \in Main : ~ (TextScore(d) <= TextScore(e))
    BY <1>4, <2>1, <2>2
  <2>4. TextScore(d) <= TextScore(t)
    BY <1>3, <1>4
  <2>5. d \in Elements
    BY DEF Elements
  <2>6. TextScore(d) \in 0..160 /\ TextScore(e) \in 0..160 /\ TextScore(t) \in 0..160
    BY <1>5, <2>1, <2>5, TextScoreIs
  <2>7. TextScore(e) < TextScore(t)
    <3>1. TextScore(d) \in Int /\ TextScore(e) \in Int /\ TextScore(t) \in Int
      BY <2>6
    <3> QED
      BY <2>3, <2>4, <3>1, Less
  <2>8. Exceeds(t.row, e.row)
    BY <1>5, <2>1, <2>7, Outweighs
  <2> QED
    BY <2>1, <2>8
<1> QED
  BY <1>1, <1>5, <1>8, <1>9 DEF Prevails

LineOf(y) == {e \in Elements : e.y = y}

LEMMA LineScoreIs ==
    ASSUME NEW y
    PROVE  \E n, q, s, c \in {0, 1} :
              /\ LineScore(y) = 1000 * n + 100 * q + 10 * s + c
              /\ n = 1 <=> \E e \in LineOf(y) : e.logistics
              /\ q = 1 <=> \E e \in LineOf(y) : e.product
              /\ s = 1 <=> \E e \in LineOf(y) : e.status
              /\ c = 1 <=> WithControl(LineOf(y)) # {}
<1> DEFINE n == Num(\E e \in LineOf(y) : e.logistics)
           q == Num(\E e \in LineOf(y) : e.product)
           s == Num(\E e \in LineOf(y) : e.status)
           c == Num(WithControl(LineOf(y)) # {})
<1>1. LineScore(y) = 1000 * n + 100 * q + 10 * s + c
  BY DEF LineScore, LineOf, Elements
<1>2. n \in {0, 1} /\ (n = 1 <=> \E e \in LineOf(y) : e.logistics)
  BY DEF Num
<1>3. q \in {0, 1} /\ (q = 1 <=> \E e \in LineOf(y) : e.product)
  BY DEF Num
<1>4. s \in {0, 1} /\ (s = 1 <=> \E e \in LineOf(y) : e.status)
  BY DEF Num
<1>5. c \in {0, 1} /\ (c = 1 <=> WithControl(LineOf(y)) # {})
  BY DEF Num
<1> HIDE DEF n, q, s, c
<1> QED
  BY <1>1, <1>2, <1>3, <1>4, <1>5

\* By lines: the line that is best alone holds text only if the layers are in
\* line, and then lines are rows.
LEMMA CoordinatesPrevail ==
    ASSUME table \in Tables, diagnoseReceiptByCoordinates.status = "found"
    PROVE  Prevails(diagnoseReceiptByCoordinates.row)
<1> DEFINE ys == {e.y : e \in Elements}
           lines == {y \in ys : LineScore(y) > 0}
           best == Best(lines, LineScore)
           y0 == Only(best)
           S == LineOf(y0)
           p == OneControl(S).row
<1>1. Cardinality(best) = 1 /\ diagnoseReceiptByCoordinates = OneControl(S)
  BY DEF diagnoseReceiptByCoordinates, Refused, LineOf, Elements
<1>2. IsFiniteSet(best)
  <2> DEFINE f == [e \in Elements |-> e.y]
  <2>1. ys = {f[e] : e \in Elements}
    OBVIOUS
  <2>2. IsFiniteSet({f[e] : e \in Elements})
    BY ElementsFinite, FiniteImage
  <2>3. best \subseteq ys
    BY DEF Best
  <2> HIDE DEF ys, best
  <2> QED
    BY <2>1, <2>2, <2>3, FS_Subset
<1>3. \A y : y \in best <=> y \in lines /\ \A z \in lines : LineScore(z) <= LineScore(y)
  BY DEF Best
<1> HIDE DEF best
<1>4. y0 \in best /\ \A y \in best : y = y0
  BY <1>1, <1>2, Sole
<1> HIDE DEF y0
<1>5. S \subseteq Elements /\ \A e \in S : e.y = y0
  BY DEF LineOf
<1>6. PICK x \in WithControl(S) : x.row = p
  BY <1>1, <1>5, OneControlIs
<1>7. /\ x \in Elements /\ x.y = y0 /\ x.row \in Rows /\ x.layer \in {"main", "fixed"}
      /\ x.layer = "fixed" \/ table.layer = "none"
      /\ x.layer = "fixed" => table.layer # "none"
  BY <1>5, <1>6, ElementIs DEF WithControl
<1> HIDE DEF p
<1>8. ASSUME NEW r \in Rows \ {p}, table.row[r].control = "one"
      PROVE  Exceeds(p, r)
  <2> DEFINE d == Element(r, x.layer)
  <2>1. d \in Elements /\ d.row = r /\ d.layer = x.layer
    BY <1>7, MainIs, FixedIs
  <2> HIDE DEF d
  <2>2. d \in WithControl(LineOf(d.y))
    BY <1>7, <1>8, <2>1 DEF WithControl, LineOf, HasControl
  <2>3. d.y # y0
    BY <1>6, <1>7, <2>1, Beside
  <2>4. PICK n, q, s, c \in {0, 1} :
          /\ LineScore(y0) = 1000 * n + 100 * q + 10 * s + c
          /\ n = 1 <=> \E e \in LineOf(y0) : e.logistics
          /\ q = 1 <=> \E e \in LineOf(y0) : e.product
          /\ s = 1 <=> \E e \in LineOf(y0) : e.status
          /\ c = 1 <=> WithControl(LineOf(y0)) # {}
    BY LineScoreIs
  <2>5. PICK n2, q2, s2, c2 \in {0, 1} :
          /\ LineScore(d.y) = 1000 * n2 + 100 * q2 + 10 * s2 + c2
          /\ n2 = 1 <=> \E e \in LineOf(d.y) : e.logistics
          /\ q2 = 1 <=> \E e \in LineOf(d.y) : e.product
          /\ s2 = 1 <=> \E e \in LineOf(d.y) : e.status
          /\ c2 = 1 <=> WithControl(LineOf(d.y)) # {}
    BY LineScoreIs
  <2>6. c2 = 1
    BY <2>2, <2>5
  <2>7. d.y \in lines /\ d.y \notin best
    <3>1. d.y \in ys
      BY <2>1
    <3>2. LineScore(d.y) > 0
      BY <2>5, <2>6
    <3> QED
      BY <1>4, <2>3, <3>1, <3>2
  <2>8. LineScore(d.y) < LineScore(y0)
    <3>1. PICK z \in lines : ~ (LineScore(z) <= LineScore(d.y))
      BY <1>3, <2>7
    <3>2. LineScore(z) <= LineScore(y0)
      BY <1>3, <1>4
    <3>3. LineScore(z) \in Int
      <4>1. PICK n3, q3, s3, c3 \in {0, 1} :
              LineScore(z) = 1000 * n3 + 100 * q3 + 10 * s3 + c3
        BY LineScoreIs
      <4> QED
        BY <4>1
    <3>4. LineScore(d.y) \in Int /\ LineScore(y0) \in Int
      BY <2>4, <2>5
    <3> QED
      BY <3>1, <3>2, <3>3, <3>4, Less
  <2>9. /\ n = 1 \/ q = 1 \/ s = 1
        /\ (n = 1 /\ n2 = 0) \/ (q = 1 /\ q2 = 0) \/ (s = 1 /\ s2 = 0)
        /\ n2 = 1 => n = 1
    <3>1. 1000 * n2 + 100 * q2 + 10 * s2 + 1 < 1000 * n + 100 * q + 10 * s + c
      BY <2>4, <2>5, <2>6, <2>8
    <3>2. /\ n \in {0, 1} /\ q \in {0, 1} /\ s \in {0, 1} /\ c \in {0, 1}
          /\ n2 \in {0, 1} /\ q2 \in {0, 1} /\ s2 \in {0, 1}
      OBVIOUS
    <3> QED
      BY <3>1, <3>2
  <2>10. \A e \in LineOf(y0) : e \in Elements /\ e.y = y0 /\ e.row = p
    BY <1>6, <1>7, Beside DEF LineOf
  <2>11. /\ n = 1 => table.row[p].logistics
         /\ q = 1 => table.row[p].product
         /\ s = 1 => table.row[p].status
    BY <2>4, <2>10, TextIs
  <2>12. x.layer = "fixed" => table.shift = 0
    <3>1. PICK e \in LineOf(y0) : e.layer = "main"
      BY <2>4, <2>9, <2>10, TextIs
    <3>2. e.y = Height * p /\ x.y = e.y
      BY <1>7, <2>10, <3>1, ElementIs
    <3>3. ASSUME x.layer = "fixed"
          PROVE  table.shift = 0
      <4>1. x.y = Height * p + table.shift
        BY <1>6, <1>7, <3>3, ElementIs
      <4>2. Height * p \in Int /\ table.shift \in Int
        BY <1>6, <1>7, Spacing, TableIs
      <4> QED
        BY <3>2, <4>1, <4>2
    <3> QED
      BY <3>3
  <2> DEFINE m == Element(r, "main")
  <2>13. m \in Elements /\ m.row = r /\ m.layer = "main"
    BY MainIs
  <2> HIDE DEF m
  <2>14. m \in LineOf(d.y)
    <3>1. m.y = Height * r /\ Height * r \in Int
      BY <2>13, ElementIs, Spacing
    <3>2. d.y = Height * r
      <4>1. d.y = Height * r \/ (d.y = Height * r + table.shift /\ d.layer = "fixed")
        BY <1>7, <2>1, ElementIs
      <4> QED
        BY <2>1, <2>12, <3>1, <4>1
    <3> QED
      BY <2>13, <3>1, <3>2 DEF LineOf
  <2>15. /\ table.row[r].logistics => n2 = 1
         /\ table.row[r].product => q2 = 1
         /\ table.row[r].status => s2 = 1
    BY <2>5, <2>13, <2>14, TextIs
  <2>16. /\ \/ table.row[p].logistics /\ ~table.row[r].logistics
            \/ table.row[p].status /\ ~table.row[r].status
            \/ table.row[p].product /\ ~table.row[r].product
         /\ table.row[r].logistics => table.row[p].logistics
    BY <2>9, <2>11, <2>15
  <2> QED
    BY <2>16 DEF Exceeds
<1>9. Prevails(p)
  BY <1>6, <1>7, <1>8 DEF Prevails
<1> QED
  BY <1>1, <1>9 DEF p

LEMMA PendingStep ==
    ASSUME table \in Tables, findPendingReceiptAction
    PROVE  PendingExceeds'
<1>1. pending' = PendingAction /\ table' = table
  BY DEF findPendingReceiptAction
<1>2. ASSUME PendingAction.status = "found"
      PROVE  Prevails(PendingAction.row)
  <2>1. \/ Candidates # {} /\ PendingAction = selectReceiptCandidate
        \/ PendingAction = diagnoseReceiptOperation
        \/ PendingAction = diagnoseReceiptByCoordinates
    BY <1>2 DEF PendingAction, Refused
  <2> QED
    BY <1>2, <2>1, SelectPrevails, OperationPrevails, CoordinatesPrevail
<1> QED
  BY <1>1, <1>2 DEF PendingExceeds, Prevails, Exceeds

(***************************************************************************)
(* The searches for the receive control: the theorems.                     *)
(***************************************************************************)

\* Whatever the table and whatever elements of it answer: the mapped search
\* answers with the row asked for or, if it passed rows over, with one that has
\* the number if any row it read has it; the older one with a row that prevails.
THEOREM LocatorInvariance == LSpec => []LocatorInv
<1>1. LInit => LocatorInv
  BY DEF LInit, LocatorInv, MappedIsFirst, PendingExceeds, Refused
<1>2. LocatorInv /\ [LNext]_lvars => LocatorInv'
  <2> SUFFICES ASSUME LocatorInv, [LNext]_lvars
               PROVE  LocatorInv'
    OBVIOUS
  <2>1. CASE findMappedReceiptControl
    <3>1. MappedIsFirst'
      BY <2>1, MappedStep DEF LocatorInv
    <3> QED
      BY <2>1, <3>1 DEF findMappedReceiptControl, LocatorInv, PendingExceeds, Exceeds
  <2>2. CASE findPendingReceiptAction
    <3>1. PendingExceeds'
      BY <2>2, PendingStep DEF LocatorInv
    <3> QED
      BY <2>2, <3>1 DEF findPendingReceiptAction, LocatorInv, MappedIsFirst, PlaceMisleads
  <2>3. CASE UNCHANGED lvars
    BY <2>3 DEF lvars, LocatorInv, MappedIsFirst, PlaceMisleads, PendingExceeds, Exceeds
  <2> QED
    BY <2>1, <2>2, <2>3 DEF LNext
<1> QED
  BY <1>1, <1>2, PTL DEF LSpec

\* The control that an inspection is given is that of the row asked for, unless
\* rows were passed over or the place of the row misleads, and its row has the
\* logistics number if any row that was read has it.
THEOREM MappedIsTheRows == LSpec => []MappedControlIsTheRows
<1>1. LocatorInv => MappedControlIsTheRows
  BY DEF LocatorInv, MappedIsFirst, MappedControlIsTheRows
<1> QED
  BY <1>1, LocatorInvariance, PTL

\* The control that a simulation is given is that of a row that has what no
\* other usable row has.
THEOREM PendingIsNoGuess == LSpec => []PendingActionIsNoGuess
<1>1. LocatorInv => PendingActionIsNoGuess
  BY DEF LocatorInv, PendingExceeds, PendingActionIsNoGuess, Exceeds
<1> QED
  BY <1>1, LocatorInvariance, PTL

\* Where one row has the logistics number and it was read, a control that both
\* searches return is the same.
THEOREM Agreement == LSpec => []SearchesAgree
<1>1. ASSUME LocatorInv
      PROVE  SearchesAgree
  <2> DEFINE numbered == {r \in Rows : table.row[r].logistics}
  <2>1. SUFFICES ASSUME mapped.status = "found", pending.status = "found", ~PlaceMisleads,
                        Cardinality(numbered) = 1,
                        \A r \in unread : ~table.row[r].logistics,
                        table.row[mapped.row].control = "one"
                 PROVE  mapped.row = pending.row
    BY DEF SearchesAgree
  <2>2. PICK x : numbered = {x}
    <3>1. IsFiniteSet(numbered)
      BY RowsAre, FS_Subset
    <3> HIDE DEF numbered
    <3> QED
      BY <2>1, <3>1, FS_Singleton
  <2>3. mapped.row \in Rows /\ table.row[mapped.row].logistics
    <3>1. x \in Rows /\ table.row[x].logistics
      BY <2>2
    <3>2. x \notin unread
      BY <2>1, <3>1
    <3> QED
      BY <1>1, <2>1, <3>1, <3>2 DEF LocatorInv, MappedIsFirst
  <2>4. x = mapped.row
    BY <2>2, <2>3
  <2>5. /\ pending.row \in Rows
        /\ pending.row # mapped.row => table.row[pending.row].logistics
    BY <1>1, <2>1, <2>3 DEF LocatorInv, PendingExceeds, Exceeds
  <2>6. pending.row # mapped.row => pending.row \in numbered
    BY <2>5
  <2> QED
    BY <2>2, <2>4, <2>6
<1> QED
  BY <1>1, LocatorInvariance, PTL
=============================================================================
