---------------------------- MODULE CaptureDraft ----------------------------
(***************************************************************************)
(* The CaptureDraft aggregate: what one draft row holds and what each of   *)
(* its transitions returns.  Every transition of the code is a pure method *)
(* that returns a new frozen instance or raises ValueError; here a         *)
(* transition is an operator from draft to draft and the condition under   *)
(* which the method does not raise is a predicate of its own, so that the  *)
(* modules that use them decide who calls them, on which copy of the row.  *)
(*                                                                         *)
(* Data is abstracted to what the properties tell apart.  A field is       *)
(* where its value came from (its DraftFieldSource, "none" for no value)   *)
(* and whether Expense can take the value: `sound' is FALSE for an amount  *)
(* of zero, a date beyond the future tolerance and an unknown category.    *)
(* Notes and recognition_result_id, which no transition reads, are left    *)
(* out.                                                                    *)
(***************************************************************************)
EXTENDS Naturals, FiniteSets

CONSTANTS Expense,    \* identities a new Expense may get
          NoExpense   \* expense_id is NULL

ASSUME NoExpenseAssumption == NoExpense \notin Expense

Field == {"amount", "date", "merchant", "category"}

\* DraftFieldSource; "none" stands for a NULL value and a NULL source.
Provenance == {"none", "default", "user", "recognition"}

Slot == [source : Provenance, sound : BOOLEAN]
EmptySlot == [source |-> "none", sound |-> TRUE]

CaptureSource == {"web_manual", "telegram_manual", "telegram_receipt"}

OpenStates == {"collecting", "awaiting_recognition", "ready_for_review"}
FinalStates == {"confirmed", "cancelled", "expired"}

Draft == [origin     : CaptureSource,
          state      : OpenStates \cup FinalStates,
          revision   : Nat,
          field      : [Field -> Slot],
          expense_id : Expense \cup {NoExpense}]

IsOpen(d) == d.state \in OpenStates

Filled(d, f) == d.field[f].source # "none"

Complete(d) == Filled(d, "amount") /\ Filled(d, "date")

-----------------------------------------------------------------------------
(* Creation *)

Start(origin) ==
    [origin     |-> origin,
     state      |-> "collecting",
     revision   |-> 0,
     field      |-> [f \in Field |-> EmptySlot],
     expense_id |-> NoExpense]

StartFromReceipt ==
    [Start("telegram_receipt") EXCEPT !.state = "awaiting_recognition"]

-----------------------------------------------------------------------------
(* Transitions.  The setters, cancel and expire require an open state.     *)

SetField(d, f, source, sound) ==
    [d EXCEPT !.field[f] = [source |-> source, sound |-> sound],
              !.revision = d.revision + 1]

\* One PATCH body may set several fields, each through its own setter and so
\* with its own revision.  `edit' maps the fields it names to whether Expense
\* could take the value; a note has no provenance and only costs a revision.
Edit == UNION {[S -> BOOLEAN] : S \in SUBSET (Field \cup {"note"})}

SetFields(d, edit) ==
    [d EXCEPT !.field = [f \in Field |->
                            IF f \in DOMAIN edit
                            THEN [source |-> "user", sound |-> edit[f]]
                            ELSE d.field[f]],
              !.revision = d.revision + Cardinality(DOMAIN edit)]

\* Mutant of MayFill: a result overwrites whatever is there.
MayOverwrite(d, f) == TRUE

\* A result fills a field only when it holds nothing or a default value.
MayFill(d, f) == d.field[f].source \in {"none", "default"}

\* Only a draft that waits for the result changes its state.
AfterRecognition(d, filled) ==
    IF d.state # "awaiting_recognition" THEN d.state
    ELSE IF filled["amount"].source # "none" /\ filled["date"].source # "none"
         THEN "ready_for_review" ELSE "collecting"

\* found: the fields, of amount, date and merchant, the result has a value
\* for.  Uncategorized is proposed when there is no category at all.
ApplyRecognition(d, found) ==
    LET filled == [f \in Field |->
                      IF f \in found /\ MayFill(d, f)
                      THEN [source |-> "recognition", sound |-> TRUE]
                      ELSE IF f = "category" /\ ~Filled(d, "category")
                      THEN [source |-> "default", sound |-> TRUE]
                      ELSE d.field[f]]
    IN  [d EXCEPT !.field      = filled,
                  !.state      = AfterRecognition(d, filled),
                  !.revision   = d.revision + 1]

\* Returns the draft itself unless it is waiting; the revision is not bumped.
ContinueManually(d) ==
    IF d.state = "awaiting_recognition" THEN [d EXCEPT !.state = "collecting"] ELSE d

CanMarkReady(d) == d.state = "collecting"
MarkReadyForReview(d) == [d EXCEPT !.state = "ready_for_review"]

\* Mutant of Confirm: the Expense is not recorded on the draft.
ConfirmUnnamed(d, e) == [d EXCEPT !.state = "confirmed"]

IsConfirmable(d) == d.state = "ready_for_review" /\ Complete(d)
Confirm(d, e) == [d EXCEPT !.state = "confirmed", !.expense_id = e]

Cancel(d) == [d EXCEPT !.state = "cancelled"]

Expire(d) == [d EXCEPT !.state = "expired"]
=============================================================================
