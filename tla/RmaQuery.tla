------------------------------- MODULE RmaQuery -------------------------------
(***************************************************************************)
(* queryRmaByLogisticsNo (connectors/recloud.js): a logistics number is    *)
(* typed into the scan page of Recloud and the detail page that appears is *)
(* read and parsed (connectors/recloud-rma-parser.js).                     *)
(*                                                                         *)
(* withRecloud runs one call at a time (module RecloudSession), but the    *)
(* page is not only the client's: Recloud answers a query when it likes,   *)
(* after the call has timed out too, fills the detail after its frame,     *)
(* loads other lists, and sends the user to the login page.  The client    *)
(* reads the page item by item and never compares what it reads with the   *)
(* number it asked for.                                                    *)
(*                                                                         *)
(* External: Recloud's pages.  The scan page has an address of the same    *)
(* application that differs from a detail's in its fragment only, so going *)
(* there leaves earlier queries unanswered; where the browser does load    *)
(* the page, they are abandoned.  Both are left open.                      *)
(***************************************************************************)
EXTENDS Naturals, FiniteSets

CONSTANTS
    Numbers,        \* logistics numbers technicians scan
    Found,          \* those Recloud has an RMA for
    Phones,         \* mobile numbers that occur in Recloud
    PhoneOf,        \* the customer's number of an RMA
    Signature,      \* the digits of a number that its mask leaves visible
    TextFields,     \* texts an answer cannot be without: its number, fault, pickup number
    MaxUnanswered,  \* with more numbers unanswered no call begins
    None

ASSUME QueryAssumption ==
    /\ Found \subseteq Numbers
    /\ PhoneOf \in [Found -> Phones]
    /\ "phone" \notin TextFields
    /\ MaxUnanswered \in Nat
    /\ None \notin Numbers \cup Phones

VARIABLES
    enabled,        \* RECLOUD_REVEAL_PHONE_ENABLED
    shown,          \* what the browser shows
    wire,           \* numbers with a query Recloud has not answered
    call,           \* the call that has the page
    result          \* how the last call ended

qvars == <<enabled, shown, wire, call, result>>

(***************************************************************************)
(* The page.                                                               *)
(***************************************************************************)

\* A value of the telephone field: a number, whole or masked; a mask without
\* the digits that tell numbers apart; a format that is neither; nothing.
PhoneValues == [form : {"full", "masked"}, phone : Phones] \cup
               [form : {"blind", "odd", "none"}, phone : {None}]
NoPhone == [form |-> "none", phone |-> None]
Blind == [form |-> "blind", phone |-> None]
Odd == [form |-> "odd", phone |-> None]
Masked(p) == [form |-> "masked", phone |-> p]
Full(p) == [form |-> "full", phone |-> p]

ScanPage == [at |-> "scan", of |-> None, note |-> None, filled |-> FALSE, phone |-> NoPhone]
LoginPage == [ScanPage EXCEPT !.at = "login"]
DetailFrame(n) == [ScanPage EXCEPT !.at = "detail", !.of = n]

\* Recloud answers: the frame of the detail, or a notice on the scan page.  A
\* number may have another query, of a second Enter or of an earlier call.
Answer(n) ==
    /\ n \in wire
    /\ shown.at # "login"
    /\ wire' \in {wire, wire \ {n}}
    /\ shown' = IF n \in Found THEN DetailFrame(n)
                ELSE [shown EXCEPT !.note = n]
    /\ UNCHANGED <<enabled, call, result>>

\* The fields of the detail follow; how the telephone is shown depends on
\* the account and on what the order holds.
FillDetail ==
    /\ shown.at = "detail" /\ ~shown.filled
    /\ \E v \in {Masked(PhoneOf[shown.of]), Full(PhoneOf[shown.of]), Blind, Odd} :
          shown' = [shown EXCEPT !.filled = TRUE, !.phone = v]
    /\ UNCHANGED <<enabled, wire, call, result>>

\* The login page is of another application and is loaded.
Expire ==
    /\ shown.at # "login"
    /\ shown' = LoginPage
    /\ wire' = {}
    /\ UNCHANGED <<enabled, call, result>>

\* The login of module RecloudSession, between calls.
Login ==
    /\ call.pc = "idle" /\ shown.at = "login"
    /\ shown' = ScanPage
    /\ UNCHANGED <<enabled, wire, call, result>>

(***************************************************************************)
(* The telephone.                                                          *)
(***************************************************************************)

\* Mutant: any single number will do.
selectOnlyPhone(seen, mask) == IF Cardinality(seen) = 1 THEN CHOOSE p \in seen : TRUE ELSE None

\* Of the whole numbers in some texts, the only one the mask can stand for; a
\* mask without digits can stand for any.
selectMatchingPhone(seen, mask) ==
    LET matching == {p \in seen : mask.form = "blind" \/ Signature[p] = Signature[mask.phone]}
    IN  IF Cardinality(matching) = 1 THEN CHOOSE p \in matching : TRUE ELSE None

\* What leaves the parser: a whole number only if it may, else its mask.  (A
\* value that is neither is refused below.)
formatCustomerPhone(v, allowFullPhone) ==
    IF v.form = "full" /\ ~allowFullPhone THEN Masked(v.phone) ELSE v

(***************************************************************************)
(* The call.                                                               *)
(***************************************************************************)

\* The form items that count.
Item == TextFields \cup {"phone"}

NothingRead == [i \in Item |-> None]

\* typed is what stands in the input, owed whose answers may still come or
\* stand on the page when the scan page is ready (history), body the text of
\* the page, unread the items the call has not come to, of whose order each
\* value is, phone the value of the telephone and mask what was read of it.
Idle == [pc |-> "idle", number |-> None, typed |-> None, owed |-> {}, retried |-> FALSE,
         retryDue |-> FALSE, late |-> FALSE, body |-> ScanPage, unread |-> Item,
         of |-> NothingRead, phone |-> NoPhone, mask |-> NoPhone, heard |-> None]

NoResult == [query |-> None, outcome |-> "none", owed |-> {}, of |-> {},
             phone |-> NoPhone, mask |-> NoPhone]

GoOn(pc) == call' = [call EXCEPT !.pc = pc]

\* of: the orders whose values are in the answer.
Ends(outcome, of, phone, mask) ==
    /\ result' = [query |-> call.number, outcome |-> outcome, owed |-> call.owed,
                  of |-> of, phone |-> phone, mask |-> mask]
    /\ call' = Idle

Fails(outcome) == Ends(outcome, {}, NoPhone, NoPhone)

Begin(n) ==
    /\ call.pc = "idle"
    /\ Cardinality(wire) <= MaxUnanswered
    /\ call' = [Idle EXCEPT !.pc = "open", !.number = n]
    /\ result' = NoResult
    /\ UNCHANGED <<enabled, shown, wire>>

\* What going to the address of the scan page leaves: the scan page anew, or
\* the one of the application that runs, with a notice and earlier queries.
ScanPages == {<<ScanPage, {}>>, <<[ScanPage EXCEPT !.note = shown.note], wire>>}

Outstanding(page, queries) == queries \cup ({page.note} \cap Numbers)

\* The address of the scan page is opened, whatever the page shows.  (The way
\* through the menu is for a page outside Recloud, which the session never
\* leaves behind.)  A page that does not come or does not show the input in
\* time ends the call.
ensureScanPage ==
    /\ call.pc = "open"
    /\ \/ /\ shown.at = "login"
          /\ Fails("LOGIN_REQUIRED")
          /\ UNCHANGED <<shown, wire>>
       \/ /\ shown.at # "login"
          /\ \E opened \in ScanPages : shown' = opened[1] /\ wire' = opened[2]
          /\ \/ /\ call' = [call EXCEPT !.pc = "fill", !.owed = Outstanding(shown', wire')]
                /\ UNCHANGED result
             \/ Fails("QUERY_TIMEOUT")
       \/ /\ shown.at # "login"
          /\ shown' = LoginPage /\ wire' = {}
          /\ Fails("LOGIN_REQUIRED")
       \/ /\ shown.at # "login"
          /\ Fails("QUERY_TIMEOUT")
          /\ UNCHANGED <<shown, wire>>
    /\ UNCHANGED enabled

\* Mutant: what was typed is not read back.
typeLogisticsNo ==
    /\ call.pc = "fill"
    /\ \/ /\ shown.at = "scan"
          /\ \E v \in Numbers : call' = [call EXCEPT !.pc = "enter", !.typed = v]
          /\ UNCHANGED result
       \/ shown.at # "scan" /\ Fails("QUERY_TIMEOUT")
    /\ UNCHANGED <<enabled, shown, wire>>

\* The number is typed like a scanner does, which may lose keys, and read
\* back.  Nothing can be typed without the input.
fillLogisticsNo ==
    /\ call.pc = "fill"
    /\ \/ /\ shown.at = "scan"
          /\ call' = [call EXCEPT !.pc = "enter", !.typed = call.number]
          /\ UNCHANGED result
       \/ shown.at = "scan" /\ Fails("LOGISTICS_FILL_FAILED")
       \/ shown.at # "scan" /\ Fails("QUERY_TIMEOUT")
    /\ UNCHANGED <<enabled, shown, wire>>

\* Enter submits the input that has the focus, if it is still there.
Submitted == IF shown.at = "scan" THEN wire \cup {call.typed} ELSE wire

enterRmaQuery ==
    /\ call.pc = "enter"
    /\ wire' = Submitted
    /\ GoOn("look")
    /\ UNCHANGED <<enabled, shown, result>>

\* The clock: the retry falls due, later the deadline passes.
RetryFallsDue ==
    /\ call.pc \in {"look", "decide"} /\ ~call.retryDue
    /\ call' = [call EXCEPT !.retryDue = TRUE]
    /\ UNCHANGED <<enabled, shown, wire, result>>

DeadlinePasses ==
    /\ call.pc \in {"look", "decide"} /\ call.retryDue /\ ~call.late
    /\ call' = [call EXCEPT !.late = TRUE]
    /\ UNCHANGED <<enabled, shown, wire, result>>

\* Mutant: the wait ends with an answer only.
lookAgain ==
    /\ call.pc = "look"
    /\ \/ shown.at = "login" /\ Fails("LOGIN_REQUIRED")
       \/ /\ shown.at # "login"
          /\ call' = [call EXCEPT !.pc = "decide", !.body = shown]
          /\ UNCHANGED result
    /\ UNCHANGED <<enabled, shown, wire>>

\* One turn of the wait begins: the deadline, the login page, then the text
\* of the page.
look ==
    /\ call.pc = "look"
    /\ \/ call.late /\ Fails("QUERY_TIMEOUT")
       \/ ~call.late /\ shown.at = "login" /\ Fails("LOGIN_REQUIRED")
       \/ /\ ~call.late /\ shown.at # "login"
          /\ call' = [call EXCEPT !.pc = "decide", !.body = shown]
          /\ UNCHANGED result
    /\ UNCHANGED <<enabled, shown, wire>>

isRmaDetailReady == shown.at # "scan" /\ call.body.at = "detail"

RetryEnter == ~call.retried /\ call.retryDue /\ shown.at = "scan"

\* The turn ends: whether the input is hidden is seen after the text was
\* read.  Enter is pressed a second time once; a notice in the text ends
\* the wait even then.
waitForRmaDetail ==
    /\ call.pc = "decide"
    /\ \/ /\ isRmaDetailReady
          /\ call' = [Idle EXCEPT !.pc = "read", !.number = call.number, !.owed = call.owed]
          /\ UNCHANGED <<wire, result>>
       \/ /\ ~isRmaDetailReady
          /\ wire' = IF RetryEnter THEN Submitted ELSE wire
          /\ \/ call.body.note # None /\ Fails("ORDER_NOT_FOUND")
             \/ /\ call.body.note = None
                /\ call' = [call EXCEPT !.pc = "look", !.body = ScanPage,
                                        !.retried = @ \/ RetryEnter]
                /\ UNCHANGED result
    /\ UNCHANGED <<enabled, shown>>

\* The text of the page is read once, for what the form does not have.
readRmaDetail ==
    /\ call.pc = "read"
    /\ \/ shown.at = "login" /\ Fails("LOGIN_REQUIRED")
       \/ /\ shown.at # "login"
          /\ \/ /\ call' = [call EXCEPT !.pc = "form", !.body = shown]
                /\ UNCHANGED result
             \/ Fails("QUERY_TIMEOUT")
    /\ UNCHANGED <<enabled, shown, wire>>

\* The order whose value an item of the form shows, if it shows one.
ShownOf == IF shown.at = "detail" /\ shown.filled THEN {None, shown.of} ELSE {None}

\* The telephone is in a control, which is masked or not, or in a text.
Reveals == enabled /\ shown.phone.form \in {"masked", "blind"}

\* One item of the form after the other, in the order of the page; an item
\* that the page has lost meanwhile runs out of time.
collectRtxpcFormItemPairs ==
    /\ call.pc = "form"
    /\ \/ \E i \in call.unread, n \in ShownOf, control \in BOOLEAN :
             /\ call' = [call EXCEPT
                   !.unread  = @ \ {i},
                   !.of[i]   = n,
                   !.phone   = IF i = "phone" /\ n # None THEN shown.phone ELSE @,
                   !.mask    = IF i = "phone" /\ n # None THEN shown.phone ELSE @,
                   !.pc      = IF i = "phone" /\ n # None /\ control /\ Reveals
                               THEN "reveal" ELSE "form"]
             /\ UNCHANGED result
       \/ call.unread # {} /\ Fails("QUERY_TIMEOUT")
    /\ UNCHANGED <<enabled, shown, wire>>

\* While the listener is on, every response the page receives is searched.
createPhoneResponseListener ==
    /\ call.pc = "reveal" /\ call.heard = None
    /\ \E seen \in SUBSET Phones :
          call' = [call EXCEPT !.heard = selectMatchingPhone(seen, call.mask)]
    /\ UNCHANGED <<enabled, shown, wire, result>>

\* Polls: a number heard, or one that has become visible; a missing button,
\* an error or the end of the wait leaves the mask.
revealFeedbackPhone ==
    /\ call.pc = "reveal"
    /\ \E p \in {call.heard} \cup
                (IF call.heard # None THEN {}
                 ELSE {selectMatchingPhone(seen, call.mask) : seen \in SUBSET Phones}) :
          call' = [call EXCEPT !.pc = "form", !.heard = None,
                               !.phone = IF p = None THEN call.phone ELSE Full(p)]
    /\ UNCHANGED <<enabled, shown, wire, result>>

\* What the text of the page adds: the number in its title, and any field that
\* it shows as a line.
TextOf(i) ==
    IF call.body.at = "detail" /\ (i = "rmaNo" \/ call.body.filled)
    THEN {None, call.body.of} ELSE {None}

\* The form goes before the text; without a number or a fault, or with a
\* telephone of no known format, the page has changed.
parseRmaFieldPairs ==
    /\ call.pc = "form" /\ call.unread = {}
    /\ \E text \in [Item -> Numbers \cup {None}] :
          /\ \A i \in Item : text[i] \in TextOf(i)
          /\ LET of == [i \in Item |-> IF call.of[i] # None THEN call.of[i] ELSE text[i]]
                 fromText == call.of["phone"] = None /\ text["phone"] # None
                 value == IF fromText THEN call.body.phone ELSE call.phone
             IN  IF (\E i \in TextFields : of[i] = None) \/ value.form = "odd"
                 THEN Fails("SCHEMA_CHANGED")
                 ELSE Ends("DETAIL", {of[i] : i \in Item} \ {None},
                           formatCustomerPhone(value, enabled),
                           IF fromText THEN call.body.phone ELSE call.mask)
    /\ UNCHANGED <<enabled, shown, wire>>

(***************************************************************************)
(* Specification.                                                          *)
(***************************************************************************)

QInit ==
    /\ enabled \in BOOLEAN
    /\ shown = ScanPage
    /\ wire = {}
    /\ call = Idle
    /\ result = NoResult

Step ==
    \/ ensureScanPage \/ fillLogisticsNo \/ enterRmaQuery \/ look
    \/ waitForRmaDetail \/ readRmaDetail \/ collectRtxpcFormItemPairs
    \/ revealFeedbackPhone \/ parseRmaFieldPairs

Clock == RetryFallsDue \/ DeadlinePasses

Recloud == (\E n \in Numbers : Answer(n)) \/ FillDetail \/ Expire \/ Login

QNext == (\E n \in Numbers : Begin(n)) \/ Step \/ Clock \/ createPhoneResponseListener \/ Recloud

\* The call takes its next step and time passes; nothing is asked of Recloud.
Fairness == WF_qvars(Step) /\ WF_qvars(RetryFallsDue) /\ WF_qvars(DeadlinePasses)

QSpec == QInit /\ [][QNext]_qvars /\ Fairness

(***************************************************************************)
(* Properties.                                                             *)
(***************************************************************************)

\* Whose values an answer may have: the number that was asked for, and the
\* numbers whose answers Recloud still owed, or had on the page as a notice,
\* when the scan page was ready.
Concerned(r) == {r.query} \cup r.owed

\* Nothing of another order is in an answer, and no order is said not to exist
\* because of another number, unless an earlier query was left unanswered: the
\* code compares nothing, a call ends while its second Enter is unanswered, and
\* the values of one answer are read one by one from a page that changes.
AnswerBelongsToQuery ==
    /\ result.outcome = "DETAIL" => result.of \subseteq Concerned(result) \cap Found
    /\ result.outcome = "ORDER_NOT_FOUND" => ~(Concerned(result) \subseteq Found)

\* A whole telephone number leaves the connector only if the setting allows it,
\* and then it has the digits that the mask of a customer concerned shows,
\* whatever other responses and texts were on the page while it was revealed;
\* only where the mask shows none of them is it any number in sight.
PhoneMatchesCustomer ==
    result.phone.form = "full" =>
      /\ enabled
      /\ \/ result.mask.form = "blind"
         \/ \E n \in Concerned(result) \cap Found :
               Signature[result.phone.phone] = Signature[PhoneOf[n]]

\* Every call ends, whether Recloud answers or not, and frees the page.
CallsSettle == call.pc # "idle" ~> call.pc = "idle"
=============================================================================
