---------------------------- MODULE ReceiptLocator ----------------------------
(***************************************************************************)
(* Which "receive" control of the RMA table is clicked                     *)
(* (connectors/recloud.js).  An inspection of the receipt form uses        *)
(* findMappedReceiptControl, a simulation findPendingReceiptAction, the    *)
(* older of the two.  A click on the control of another row opens the      *)
(* receipt of another machine.                                             *)
(*                                                                         *)
(* The table draws its operation column in a layer of its own, fixed at    *)
(* the right, whose rows are other elements than those with the logistics  *)
(* number, the product line and the status.  They are matched by key, by   *)
(* aria index, by position in the layer or by the pixels they share.       *)
(*                                                                         *)
(* External: the table.  Keys and aria indices are unique and those of     *)
(* the row wherever they occur, which is in both layers, in the main one   *)
(* or nowhere; the layers are out of line by less than half a row, but by  *)
(* more than the four pixels that count as in line; the controls of a      *)
(* table all have a label or all a title.                                  *)
(***************************************************************************)
EXTENDS Integers, FiniteSets

CONSTANTS
    N,              \* rows of the table
    Height,         \* of a row
    Shifts          \* of the fixed layer against the main one

Rows == 1..N

\* The row that every handler asks for.
RowIndex == 1

ASSUME TableAssumption ==
    /\ N \in Nat \ {0} /\ Height \in Nat \ {0}
    /\ \A s \in Shifts : s \in Int /\ -Height < 2 * s /\ 2 * s < Height

VARIABLES
    table,          \* what the page shows
    mapped,         \* the answer of findMappedReceiptControl
    unread,         \* rows it asked for in vain (history)
    pending         \* the answer of findPendingReceiptAction

lvars == <<table, mapped, unread, pending>>

(***************************************************************************)
(* The table.                                                              *)
(***************************************************************************)

Controls == {"none", "one", "two", "disabled"}

\* Per row: whether its text has the logistics number, the product line and
\* the status, and its control.  The layer: rows, cells without rows, cells
\* outside the fixed container, or no layer and the control in the row.
Tables ==
    {t \in [row : [Rows -> [logistics : BOOLEAN, product : BOOLEAN, status : BOOLEAN, control : Controls]],
            icons : BOOLEAN, layer : {"rows", "cells", "loose", "none"},
            shift : Shifts, keys : {"none", "main", "both"}, aria : {"none", "main", "both"}] :
        t.layer = "none" => t.shift = 0 /\ t.keys # "main" /\ t.aria # "main"}

HasLabel(r) == table.row[r].control # "none" /\ ~table.icons
HasControl(r) == table.row[r].control # "none"

\* An element of a layer.  Its text: the row's in the main layer, with the
\* label if the control is there; only the label in the fixed one.
Element(r, l) ==
    [row |-> r, layer |-> l,
     y    |-> IF l = "main" THEN Height * r ELSE Height * r + table.shift,
     key  |-> IF table.keys = "both" \/ (table.keys = "main" /\ l = "main") THEN r ELSE 0,
     aria |-> IF table.aria = "both" \/ (table.aria = "main" /\ l = "main") THEN r ELSE 0,
     logistics |-> l = "main" /\ table.row[r].logistics,
     product   |-> l = "main" /\ table.row[r].product,
     status    |-> l = "main" /\ table.row[r].status,
     label     |-> (l = "fixed" \/ table.layer = "none") /\ HasLabel(r)]

Main == {Element(r, "main") : r \in Rows}
Fixed == IF table.layer = "none" THEN {} ELSE {Element(r, "fixed") : r \in Rows}
FixedRows == IF table.layer = "rows" THEN Fixed ELSE {}

\* By how much a lies above b.
Below(a, b) == b.y - a.y
Overlaps(a, b) == -Height < Below(a, b) /\ Below(a, b) < Height
OverlapsByHalf(a, b) == -Height < 2 * Below(a, b) /\ 2 * Below(a, b) < Height

Num(b) == IF b THEN 1 ELSE 0
Best(S, Score(_)) == {e \in S : \A d \in S : Score(d) <= Score(e)}
Only(S) == CHOOSE x \in S : TRUE

Refused(why) == [status |-> why, row |-> 0]
Found(r) == [status |-> "found", row |-> r]

\* The control of a row, if it is the only one and can be used.
ControlIn(r) ==
    IF table.row[r].control = "one" THEN Found(r)
    ELSE Refused(IF table.row[r].control = "none" THEN "control_not_found"
                 ELSE "control_ambiguous")

(***************************************************************************)
(* findMappedReceiptControl.                                               *)
(***************************************************************************)

\* The rows of both layers; a row of the fixed layer that cannot be told
\* from that of the main layer counts once.
Distinct(S) ==
    {e \in S : e.layer = "main" \/
                  \A m \in S \cap Main : <<e.key, e.aria, e.y>> # <<m.key, m.aria, m.y>>}

DistinctRows == Distinct(Main \cup FixedRows)

ReceiptScore(e) ==
    4 * Num(e.logistics) + 2 * Num(e.status \/ e.label) + Num(e.product)

BestOf(S) == {e \in Best(S, ReceiptScore) : ReceiptScore(e) > 0}
BestRows == BestOf(DistinctRows)

\* From top to bottom, the main layer first.
PositionIn(S, e) ==
    1 + Cardinality({d \in S : d.y < e.y \/ (d.y = e.y /\ d.layer = "main" /\ e.layer # "main")})

\* Of the best rows the one that is asked for, by its place.
TargetRows ==
    {e \in BestRows : IF e.aria # 0 THEN e.aria = RowIndex
                      ELSE PositionIn(DistinctRows, e) = RowIndex}

\* The fixed rows beside the target; without rows, the cells and with them
\* the container, which has no key; without those, the cells with a label.
BesideTarget(t) ==
    IF table.layer = "rows" THEN {f \in Fixed : Overlaps(f, t)}
    ELSE IF table.layer = "cells"
    THEN {f \in Fixed : OverlapsByHalf(f, t)} \cup
         {[Element(1, "fixed") EXCEPT !.row = 0, !.key = 0, !.aria = 0, !.y = t.y]}
    ELSE {[f EXCEPT !.key = 0, !.aria = 0] :
             f \in {g \in Fixed : g.label /\ OverlapsByHalf(g, t)}}

ByKey(t, S) == {f \in S : t.key # 0 /\ f.key = t.key}
ByAria(t, S) == {f \in S : t.aria # 0 /\ f.aria = t.aria}
ByPosition(t, S) ==
    {f \in S : table.layer = "rows" /\ PositionIn(S, f) = PositionIn(DistinctRows, t)}
ByOverlap(t, S) == {f \in S : OverlapsByHalf(f, t)}

\* Mutant: aria indices are not looked at.
MatchWithoutAria(t) ==
    LET S == BesideTarget(t)
    IN  IF ByKey(t, S) # {} THEN ByKey(t, S)
        ELSE IF ByPosition(t, S) # {} THEN ByPosition(t, S)
        ELSE ByOverlap(t, S)

\* The first way that gives any.
FixedMatches(t) ==
    LET S == BesideTarget(t)
    IN  IF ByKey(t, S) # {} THEN ByKey(t, S)
        ELSE IF ByAria(t, S) # {} THEN ByAria(t, S)
        ELSE IF ByPosition(t, S) # {} THEN ByPosition(t, S)
        ELSE ByOverlap(t, S)

MappedControl ==
    IF Cardinality(TargetRows) # 1 THEN Refused("row_not_unique")
    ELSE IF table.layer = "none" THEN Refused("fixed_right_not_found")
    ELSE LET matches == FixedMatches(Only(TargetRows))
         IN  IF Cardinality(matches) # 1 THEN Refused("fixed_row_ambiguous")
             ELSE ControlIn(Only(matches).row)

\* In the order of the document: the main layer, then the fixed one.
DocumentIndex(e) == IF e.layer = "main" THEN e.row ELSE N + e.row

\* When the page does not answer in time, it is asked element by element, and
\* what does not answer is passed over: the one best row of those that were
\* read, by its place among them, and a cell with a label not farther than half
\* a row, if it is the only one that was read.
ControlsByElements(read) ==
    LET rows == Distinct(read)
        best == BestOf(rows)
        target == Only(best)
        place == IF target.aria # 0 THEN target.aria
                 ELSE 1 + Cardinality({e \in rows : DocumentIndex(e) < DocumentIndex(target)})
        cells == {e \in Main \cup Fixed :
                     e.label /\ -Height <= 2 * Below(e, target) /\ 2 * Below(e, target) <= Height}
    IN  IF Cardinality(best) # 1 \/ place # RowIndex
        THEN {Refused("not_found")}
        ELSE {Refused("control_ambiguous")} \cup
             {Found(e.row) : e \in {c \in cells : table.row[c.row].control \in {"one", "two"}}}

\* A control that has been found must still be visible.
findMappedReceiptControl ==
    /\ mapped.status = "none"
    /\ \/ /\ mapped' \in {MappedControl, Refused("not_found")}
          /\ unread' = {}
       \/ \E read \in SUBSET (Main \cup FixedRows) :
             /\ mapped' \in ControlsByElements(read)
             /\ unread' = {r \in Rows : Element(r, "main") \notin read}
    /\ UNCHANGED <<table, pending>>

(***************************************************************************)
(* findPendingReceiptAction.                                               *)
(***************************************************************************)

\* Mutant: the product line counts for more than the number.
ProductScore(e) ==
    20 * Num(e.logistics) + 40 * Num(e.status) + 100 * Num(e.product)

TextScore(e) ==
    100 * Num(e.logistics) + 40 * Num(e.status) + 20 * Num(e.product)

\* The labels, each with the row element around it, if there is one.  A row
\* with two controls is passed over, since neither is the only one.
Candidates ==
    {e \in Main \cup FixedRows : e.label /\ table.row[e.row].control # "two"}

CandidateScore(e) == TextScore(e) + 5 * Num(table.row[e.row].control # "disabled")

\* Mutant: the first of the best.
FirstCandidate ==
    Found(Only(Best(Candidates, CandidateScore)).row)

\* The best candidate; of several best ones none, unless they are in a line.
selectReceiptCandidate ==
    LET best == Best(Candidates, CandidateScore)
    IN  IF \A c, d \in best : c.y = d.y THEN Found(Only(best).row)
        ELSE Refused("action_ambiguous")

\* The row that beats all others; without labels the fixed layer has no text
\* and is left out.
TargetReceiptRow == Best(Main, TextScore)

\* The elements of the target's row: its own, those with its key, the one
\* at its place in the fixed layer and those in line with it.
CorrespondingOperationRows(t) ==
    {t} \cup {e \in Main \cup FixedRows : t.key # 0 /\ e.key = t.key}
        \cup {f \in FixedRows : f.row = DocumentIndex(t) \/ f.y = t.y}

\* Elements with controls in a set of elements.  The main layer has them if
\* there is no other.
WithControl(S) ==
    {e \in S : HasControl(e.row) /\ (e.layer = "fixed" \/ table.layer = "none")}

\* The only control that can be used.
OneControl(S) ==
    LET rows == {e.row : e \in {d \in WithControl(S) : table.row[d.row].control # "disabled"}}
    IN  IF Cardinality(rows) = 1 /\ table.row[Only(rows)].control = "one"
        THEN Found(Only(rows)) ELSE Refused("not_found")

diagnoseReceiptOperation ==
    IF Cardinality(TargetReceiptRow) # 1 THEN Refused("not_found")
    ELSE OneControl(CorrespondingOperationRows(Only(TargetReceiptRow)))

\* Cells in line make a row; the operation cell is the one under the header.
LineScore(y) ==
    LET line == {e \in Main \cup Fixed : e.y = y}
    IN  1000 * Num(\E e \in line : e.logistics) + 100 * Num(\E e \in line : e.product)
        + 10 * Num(\E e \in line : e.status) + Num(WithControl(line) # {})

diagnoseReceiptByCoordinates ==
    LET lines == {y \in {e.y : e \in Main \cup Fixed} : LineScore(y) > 0}
        best == Best(lines, LineScore)
    IN  IF Cardinality(best) # 1 THEN Refused("not_found")
        ELSE OneControl({e \in Main \cup Fixed : e.y = Only(best)})

\* Labels first; without any in the table, the two diagnoses.
PendingAction ==
    IF \E r \in Rows : HasLabel(r)
    THEN IF Candidates = {} THEN Refused("not_found") ELSE selectReceiptCandidate
    ELSE IF diagnoseReceiptOperation.status = "found" THEN diagnoseReceiptOperation
    ELSE diagnoseReceiptByCoordinates

findPendingReceiptAction ==
    /\ pending.status = "none"
    /\ pending' = PendingAction
    /\ UNCHANGED <<table, mapped, unread>>

(***************************************************************************)
(* Specification.                                                          *)
(***************************************************************************)

LInit ==
    /\ table \in Tables
    /\ mapped = Refused("none") /\ unread = {}
    /\ pending = Refused("none")

\* Neither search changes what the other reads, so one order stands for both.
LNext ==
    \/ findPendingReceiptAction
    \/ pending.status # "none" /\ findMappedReceiptControl

LSpec == LInit /\ [][LNext]_lvars

(***************************************************************************)
(* Properties.                                                             *)
(***************************************************************************)

\* The fixed layer has no key and no aria index and is a little higher than the
\* main layer, whose rows have an aria index.  Then position decides, among the
\* rows of both layers for the target and among the fixed rows beside it for the
\* control, and may take the control of the next row.
PlaceMisleads ==
    /\ table.layer = "rows" /\ table.shift < 0
    /\ table.aria = "main" /\ table.keys # "both"

\* The control the mapped search returns is the one in the row asked for,
\* although it was found in another layer, out of line, in a list of rows in
\* which a row may count once or twice; of another row it is only if a row was
\* passed over, which moves the others up.  Its row has the logistics number if
\* any row that was read has it.
MappedControlIsTheRows ==
    mapped.status = "found" /\ ~PlaceMisleads =>
        /\ unread = {} => mapped.row = RowIndex
        /\ (\E r \in Rows \ unread : table.row[r].logistics) => table.row[mapped.row].logistics

\* The older search never guesses: the row it chooses has something a row
\* whose control could be used as well has not, although it weighs what a
\* row has in three ways and looks at rows, elements, lines and labels.
PendingActionIsNoGuess ==
    pending.status = "found" =>
        \A r \in Rows \ {pending.row} :
            table.row[r].control = "one" =>
                \E has \in {"logistics", "product", "status"} :
                    table.row[pending.row][has] /\ ~table.row[r][has]

\* What one search simulates, the other inspects: if the logistics number
\* tells the rows apart and its row was read, a control found by both is the
\* same.  (Where it does not, one prefers a pending row, the other a product
\* line; of a row with two controls one search takes the one it has read, and
\* the other passes the row over.)
SearchesAgree ==
    /\ mapped.status = "found" /\ pending.status = "found" /\ ~PlaceMisleads
    /\ Cardinality({r \in Rows : table.row[r].logistics}) = 1
    /\ \A r \in unread : ~table.row[r].logistics
    /\ table.row[mapped.row].control = "one"
    => mapped.row = pending.row
=============================================================================
