------------------------- MODULE ReceiptDiagnostics -------------------------
(***************************************************************************)
(* The diagnoses of the receipt control (connectors/recloud.js, the        *)
(* .../receipt-form/*-diagnostics handlers of server.js), on the page that *)
(* the dry runs of DryRunForms use: one call at a time has the page, and   *)
(* the calls share the network guard.                                      *)
(*                                                                         *)
(* A call loads the order, looks at its table, finds the operation cell of *)
(* its row, and then only reads (fixed, vue, source, renderer), or marks   *)
(* elements, moves the mouse or the table and looks at the page several    *)
(* times (hover, rowHover, layout).  Meanwhile the page renders anew, it   *)
(* reacts to the mouse, and what the look at the table had begun when its  *)
(* time was over still happens.                                            *)
(*                                                                         *)
(* External: the page.  It saves what the mouse makes it save when it      *)
(* likes.                                                                  *)
(***************************************************************************)
EXTENDS DryRunForms

CONSTANT Looks      \* looks at the page after each movement

ASSUME LooksAssumption == Looks \in Nat \ {0}

VARIABLES
    view,           \* the table in the page, and what it owes to a diagnosis
    diag            \* what the diagnosis has seen

dvars == <<vars, view, diag>>

ReadingOps == {"vue", "source", "renderer"}
MovingOps == {"hover", "rowHover", "layout"}
Diagnoses == {"table", "fixed"} \cup ReadingOps \cup MovingOps

\* The elements that a diagnosis marks and finds again by its marks.
Targets(op) ==
    {"cell"} \cup (IF op \in {"rowHover", "layout"} THEN {"main", "fixed"} ELSE {})
             \cup (IF op = "layout" THEN {"scroll"} ELSE {})

Places == {"left", "middle", "right"}

\* Where the table is moved: places that coincide are visited once.
Positions(was) == IF was = "middle" THEN <<"left", "right", "middle">> ELSE <<"left", "right">>

\* Movements: one; the main row, its centre, the fixed row and the cell, then
\* up to three elements of the cell that may be missing; or the positions.
Required(op) == IF op = "rowHover" THEN 4
                ELSE IF op = "layout" THEN Len(Positions(diag.was)) ELSE 1
Optional(op) == IF op = "rowHover" THEN 3 ELSE 0

NoView == [marks     |-> {},        \* elements that carry a mark
           scroll    |-> "left",    \* where the table is scrolled to
           own       |-> "left",    \* where it would be without the layout diagnosis
           listening |-> FALSE,     \* responses are observed
           stirred   |-> FALSE,     \* the page may react to the mouse
           late      |-> {}]        \* work left behind by the look at the table

NoDiag == [was      |-> "none",     \* scroll position read with the marking
           look     |-> 0,          \* looks to come after this movement
           most     |-> 0,          \* receipt controls seen at once
           alone    |-> FALSE,      \* one was seen by itself, not covered
           occluded |-> FALSE,      \* one was seen covered
           lost     |-> FALSE]      \* a look missed a marked element

Fail(pc) == call' = [call EXCEPT !.pc = pc, !.error = TRUE]

(***************************************************************************)
(* The page.                                                               *)
(***************************************************************************)

\* Elements are replaced, their marks with them.  A new container of the
\* table is not scrolled.
Rerender ==
    /\ \E kept \in SUBSET view.marks \ {view.marks} :
          view' = IF "scroll" \in view.marks \ kept
                  THEN [view EXCEPT !.marks = kept, !.scroll = "left", !.own = "left"]
                  ELSE [view EXCEPT !.marks = kept]
    /\ UNCHANGED <<vars, diag>>

\* What the mouse has caused.
PageReacts ==
    /\ view.stirred
    /\ PageSends({"mouse"})
    /\ UNCHANGED <<form, call, result, view, diag>>

\* Work that was given up happens after all, or comes to nothing: the tab is
\* clicked, which renders the table anew, or the table is scrolled.
LateWork ==
    /\ \E work \in view.late :
          LET over == view.late \ {work}
          IN  \/ view' = [view EXCEPT !.late = over]
              \/ work = "click"  /\ view' = [view EXCEPT !.late = over, !.marks = {},
                                                         !.scroll = "left", !.own = "left"]
              \/ work = "scroll" /\ view' = [view EXCEPT !.late = over, !.scroll = "right",
                                                         !.own = "right"]
    /\ UNCHANGED <<vars, diag>>

\* The order is queried, which loads the page anew.  (Where the table is
\* scrolled to matters to the layout diagnosis.)
NewPage(places, listening) ==
    /\ \E place \in places :
          view' = [NoView EXCEPT !.late = view.late, !.scroll = place, !.own = place,
                                 !.listening = listening]
    /\ diag' = NoDiag

(***************************************************************************)
(* The look at the table, which every diagnosis begins with.               *)
(***************************************************************************)

\* The responses are observed from before the query.
BeginDiagnosis(op) ==
    /\ call.pc = "idle"
    /\ \E queried \in BOOLEAN :
          call' = [Idle EXCEPT !.op = op, !.error = ~queried,
                               !.pc = IF queried THEN "tab" ELSE "leave"]
    /\ form' = NoForm
    /\ saved' = {}
    /\ result' = NoResult
    /\ NewPage(IF op = "layout" THEN Places ELSE {"left"}, op = "source")
    /\ UNCHANGED guard

\* The product tab is active, or it is the only one and is clicked; a click
\* that takes too long is given up, not taken back.
activateProductTab ==
    /\ call.pc = "tab"
    /\ \/ Goto("seek") /\ UNCHANGED view
       \/ Goto("tabled") /\ UNCHANGED view
       \/ Goto("tabled") /\ view' = [view EXCEPT !.late = @ \cup {"click"}]
    /\ UNCHANGED <<form, guard, saved, result, diag>>

\* The headers and the rows are looked for, the page and the table scrolled
\* and not scrolled back, until they are found or the time is over.
scrollToTable ==
    /\ call.pc = "seek"
    /\ Goto("tabled")
    /\ \/ UNCHANGED view
       \/ view' = [view EXCEPT !.scroll = "right", !.own = "right"]
       \/ view' = [view EXCEPT !.late = @ \cup {"scroll"}]
    /\ UNCHANGED <<form, guard, saved, result, diag>>

\* The answer about the table, which may be that the time is over: the other
\* diagnoses go on in any case.
diagnoseReceiptTableStructure ==
    /\ call.pc = "tabled"
    /\ IF call.op = "table" THEN Goto("leave") \/ Fail("leave") ELSE Goto("fixed")
    /\ view' = [view EXCEPT !.listening = FALSE]
    /\ UNCHANGED <<form, guard, saved, result, diag>>

\* The row in the fixed column and its operation cell, or an error.
diagnoseFixedReceiptOperation ==
    /\ call.pc = "fixed"
    /\ \/ Fail("leave")
       \/ Goto(IF call.op = "fixed" THEN "leave"
               ELSE IF call.op \in MovingOps THEN "mark" ELSE "arm")
    /\ UNCHANGED <<form, guard, saved, result, view, diag>>

(***************************************************************************)
(* The diagnoses that mark, move and look.                                 *)
(***************************************************************************)

\* The elements are marked that are found by their place in the page and are
\* the only ones there; if one is missing the call ends, the others marked.
markTargets ==
    /\ call.pc = "mark"
    /\ \E found \in SUBSET Targets(call.op) :
          /\ "scroll" \in found => "main" \in found
          /\ view' = [view EXCEPT !.marks = found]
          /\ IF found = Targets(call.op)
             THEN Goto("arm") /\ diag' = [diag EXCEPT !.was = view.scroll]
             ELSE Fail("leave") /\ UNCHANGED diag
    /\ UNCHANGED <<form, guard, saved, result>>

guardDiagnosis ==
    /\ call.pc = "arm"
    /\ guard' = [on |-> TRUE, blocked |-> FALSE]
    /\ call' = [call EXCEPT !.pc = IF call.op \in MovingOps THEN "move" ELSE "read", !.at = 1]
    /\ UNCHANGED <<form, saved, result, view, diag>>

Stir == /\ Goto("look")
        /\ diag' = [diag EXCEPT !.look = Looks]

HoveredMark == IF call.op = "rowHover" /\ call.at <= 2 THEN "main"
               ELSE IF call.op = "rowHover" /\ call.at = 3 THEN "fixed" ELSE "cell"

\* The mouse goes to the marked element, if it is there and can be hovered.
hoverTarget ==
    /\ call.pc = "move" /\ call.op \in {"hover", "rowHover"}
    /\ \/ /\ HoveredMark \in view.marks
          /\ view' = [view EXCEPT !.stirred = TRUE]
          /\ Stir
       \/ Throw /\ UNCHANGED <<view, diag>>
    /\ UNCHANGED <<form, guard, saved, result>>

\* The table is scrolled, and the mouse moved to the row if that is in sight.
scrollLayout ==
    /\ At("layout", "move")
    /\ \/ /\ "scroll" \in view.marks
          /\ \E moved \in {FALSE, "main" \in view.marks} :
                /\ view' = [view EXCEPT !.scroll = Positions(diag.was)[call.at],
                                        !.stirred = @ \/ moved]
                /\ IF moved THEN Stir ELSE Throw /\ UNCHANGED diag
       \/ Throw /\ UNCHANGED <<view, diag>>
    /\ UNCHANGED <<form, guard, saved, result>>

\* What a look adds: it sees n receipt controls, a single one perhaps covered,
\* to which the layout diagnosis pays no regard.
Seen(n, covered) ==
    [diag EXCEPT !.look = @ - 1,
                 !.most = IF n > @ THEN n ELSE @,
                 !.alone = @ \/ (n = 1 /\ (~covered \/ call.op = "layout")),
                 !.occluded = @ \/ (n = 1 /\ covered),
                 !.lost = @ \/ view.marks # Targets(call.op)]

\* Then comes another look, the next movement or the verdict.
LookOn ==
    /\ \/ diag.look > 1 /\ UNCHANGED call
       \/ /\ diag.look = 1 /\ call.at < Required(call.op) + Optional(call.op)
          /\ call' = [call EXCEPT !.pc = "move", !.at = @ + 1]
       \/ diag.look = 1 /\ call.at >= Required(call.op) /\ Goto("looked")

\* Mutant: what is missing has no control in it.
lookAroundAnyway ==
    /\ call.pc = "look"
    /\ \E n \in 0..2, covered \in BOOLEAN : diag' = Seen(n, covered)
    /\ LookOn
    /\ UNCHANGED <<form, guard, saved, result, view>>

\* A hover ends when a marked element is gone.  In the layout diagnosis the
\* look sees nothing.
lookAround ==
    /\ call.pc = "look"
    /\ IF view.marks = Targets(call.op)
       THEN (\E n \in 0..2, covered \in BOOLEAN : diag' = Seen(n, covered)) /\ LookOn
       ELSE IF call.op = "layout" THEN diag' = Seen(0, FALSE) /\ LookOn
            ELSE Throw /\ UNCHANGED diag
    /\ UNCHANGED <<form, guard, saved, result, view>>

\* Popups of the page can stand in the way of a hover.
summarizeReceiptHoverSnapshots ==
    IF diag.most = 1 /\ diag.alone /\ ~diag.occluded THEN BOOLEAN ELSE {FALSE}

classifyReceiptRowHoverDiagnostics == {diag.most = 1 /\ diag.alone}

\* One look is enough, whatever the others saw.
classifyReceiptLayoutDiagnostics == {diag.alone}

\* Whether the control was found; a diagnosis that saw the page send a write
\* has not found it.
concludeDiagnosis ==
    /\ call.pc = "looked"
    /\ \E found \in IF call.op = "hover" THEN summarizeReceiptHoverSnapshots
                    ELSE IF call.op = "rowHover" THEN classifyReceiptRowHoverDiagnostics
                    ELSE classifyReceiptLayoutDiagnostics :
          IF found /\ ~guard.blocked THEN Goto("finally") ELSE Throw
    /\ UNCHANGED <<form, guard, saved, result, view, diag>>

(***************************************************************************)
(* The diagnoses that read the components of the page.                     *)
(***************************************************************************)

\* The cell is found again by its place, and what is behind it is read.
ReadComponents(found) ==
    /\ call.pc = "read"
    /\ IF found /\ ~guard.blocked THEN Goto("finally") ELSE Throw
    /\ UNCHANGED <<form, guard, saved, result, view, diag>>

diagnoseReceiptVueState == call.op = "vue" /\ \E found \in BOOLEAN : ReadComponents(found)

\* These two always end with a reason why there is no control.
diagnoseReceiptOperationSource == call.op = "source" /\ ReadComponents(FALSE)
diagnoseReceiptRendererConfig == call.op = "renderer" /\ ReadComponents(FALSE)

(***************************************************************************)
(* The end of a diagnosis.                                                 *)
(***************************************************************************)

\* Mutant: the page is put in order when the diagnosis has gone well.
restorePageIfFound ==
    /\ call.pc = "finally" /\ call.op \in {"rowHover", "layout"}
    /\ Goto("stop")
    /\ view' = IF call.error THEN view
               ELSE [view EXCEPT !.marks = {},
                                 !.scroll = IF "scroll" \in view.marks THEN diag.was ELSE @]
    /\ UNCHANGED <<form, guard, saved, result, diag>>

\* The container is scrolled back if it is still the one that was marked.
restorePage ==
    /\ call.pc = "finally" /\ call.op \in {"rowHover", "layout"}
    /\ Goto("stop")
    /\ view' = [view EXCEPT !.marks = {},
                            !.scroll = IF "scroll" \in view.marks THEN diag.was ELSE @]
    /\ UNCHANGED <<form, guard, saved, result, diag>>

\* After a hover the guard goes first.
endHover ==
    /\ \/ /\ At("hover", "finally")
          /\ Goto("unmark")
          /\ guard' = [on |-> FALSE, blocked |-> FALSE]
          /\ UNCHANGED view
       \/ /\ At("hover", "unmark")
          /\ Goto("stop")
          /\ view' = [view EXCEPT !.marks = {}]
          /\ UNCHANGED guard
    /\ UNCHANGED <<form, saved, result, diag>>

\* A diagnosis that has only read, or has not come that far.
leaveDiagnosis ==
    /\ call.pc = "leave" \/ (call.pc = "finally" /\ call.op \in ReadingOps)
    /\ Goto("stop")
    /\ view' = [view EXCEPT !.listening = FALSE]
    /\ UNCHANGED <<form, guard, saved, result, diag>>

(***************************************************************************)
(* Specification: the dry runs and the diagnoses.                          *)
(***************************************************************************)

DInit == Init /\ view = NoView /\ diag = NoDiag

Diagnose ==
    \/ activateProductTab \/ scrollToTable \/ diagnoseReceiptTableStructure
    \/ diagnoseFixedReceiptOperation
    \/ markTargets \/ guardDiagnosis \/ hoverTarget \/ scrollLayout \/ lookAround
    \/ concludeDiagnosis
    \/ diagnoseReceiptVueState \/ diagnoseReceiptOperationSource
    \/ diagnoseReceiptRendererConfig
    \/ restorePage \/ endHover \/ leaveDiagnosis

DStep == (Step /\ UNCHANGED <<view, diag>>) \/ Diagnose

DNext ==
    \/ \E op \in Ops : Begin(op) /\ NewPage({"left"}, FALSE)
    \/ \E op \in Diagnoses : BeginDiagnosis(op)
    \/ DStep
    \/ (PageWrites \/ Vanish) /\ UNCHANGED <<view, diag>>
    \/ Rerender \/ PageReacts \/ LateWork

\* Every wait of a step has a time-out.
DSpec == DInit /\ [][DNext]_dvars /\ WF_dvars(DStep)

(***************************************************************************)
(* Properties.                                                             *)
(***************************************************************************)

\* A hover that reports the receipt control has seen no second one, and it
\* has watched the marked elements all the time, although the page renders
\* anew and late work of the look at the table clicks and scrolls in it.
FoundWasWatched ==
    call.pc = "idle" /\ result.ok /\ result.op \in {"hover", "rowHover"}
        => diag.most = 1 /\ ~diag.lost

\* No dry run and no diagnosis leaves its guard behind, which would abort the
\* writes of a real receipt later, or its observer; and a diagnosis that went
\* on to move leaves no mark in the page and the table where it was, or where
\* something else has put it, however it ended.
PageHandedBack ==
    call.pc = "idle" =>
        /\ ~guard.on /\ ~view.listening
        /\ diag.was # "none" => /\ view.marks = {}
                                /\ view.scroll \in {diag.was, view.own}
=============================================================================
