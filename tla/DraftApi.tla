------------------------------ MODULE DraftApi ------------------------------
(***************************************************************************)
(* The drafts of one user in PostgreSQL and everything that writes them    *)
(* other than the Telegram conversation: the HTTP handlers of              *)
(* http/capture.py, the ConfirmCaptureDraft use case, soft deletion of the *)
(* Expense, the receipt worker that applies a recognition result, and the  *)
(* retention job that expires abandoned drafts.                            *)
(*                                                                         *)
(* Edit, ready and cancel read the row WITHOUT a lock, compute the new row *)
(* in Python and write every column back with UPDATE ... WHERE id = ...:   *)
(* the read and the write are two steps here, and `op' carries the row     *)
(* computed in between.  Only confirmation reads with SELECT ... FOR       *)
(* UPDATE and holds the row lock until it commits.                         *)
(*                                                                         *)
(* A web server process is one event loop running synchronous database     *)
(* calls: from a handler's read to its write no other handler of the same  *)
(* process runs.  `home' says which process serves a request, so the same  *)
(* module describes the deployed system (one process) and one with more.   *)
(* The worker and the retention job are processes of their own.            *)
(***************************************************************************)
EXTENDS CaptureDraft

CONSTANTS DraftId, NoDraft,
          Request,      \* requests a client may have in flight
          Deployments,  \* ways to spread the requests over server processes
          Edits,        \* PATCH bodies that clients send
          MaxRevision   \* bound on the field writes one draft accepts

ASSUME NoDraftAssumption == NoDraft \notin Draft
ASSUME EditsAssumption == Edits \subseteq Edit
ASSUME MaxRevisionAssumption == MaxRevision \in Nat

VARIABLES
    home,       \* home[r]: the server process that runs r's handler; never changes
    drafts,     \* capture_drafts
    expenses,   \* expenses
    op,         \* what a running handler holds between its statements
    dormant,    \* drafts untouched for ABANDONED_DRAFT_INACTIVITY
    unfinished, \* drafts whose receipt is still queued or processing
    answers,    \* history: <<draft, expense>> returned by a confirmation
    accepted,   \* history: field writes acknowledged, per draft
    faulted     \* history: drafts whose confirmation ended in an unhandled error

vars == <<drafts, expenses, op, dormant, unfinished, answers, accepted, faulted>>
ghosts == <<answers, accepted, faulted>>

Idle == [kind |-> "idle"]
Running == [kind : {"write", "confirm"}, draft : DraftId, row : Draft,
            bumps : Nat, stale : BOOLEAN]

ExpenseRow == [capture_draft_id : DraftId, field : [Field -> Slot], deleted : BOOLEAN]

ASSUME NoExpenseRowAssumption == NoExpense \notin ExpenseRow

TypeOK ==
    /\ drafts \in [DraftId -> Draft \cup {NoDraft}]
    /\ expenses \in [Expense -> ExpenseRow \cup {NoExpense}]
    /\ op \in [Request -> Running \cup {Idle}]
    /\ dormant \subseteq DraftId
    /\ unfinished \subseteq {d \in DraftId : drafts[d] # NoDraft}
    /\ answers \subseteq DraftId \X Expense
    /\ accepted \in [DraftId -> Nat]
    /\ faulted \subseteq DraftId

Exists(d) == drafts[d] # NoDraft
Recorded(e) == expenses[e] # NoExpense

\* Mutant of LoopFree: handlers await, or run in threads, between statements.
AlwaysFree(r) == TRUE

\* One event loop: a handler starts its statements when no other handler of
\* its process is between its own.
LoopFree(r) == \A q \in Request : home[q] = home[r] => op[q] = Idle

\* The row lock of SELECT ... FOR UPDATE, held until the transaction ends.
RowLocked(d) == \E r \in Request : op[r] # Idle /\ op[r].kind = "confirm" /\ op[r].draft = d

\* Mutant of CaptureDraftTaken: the table has no unique constraint.
NeverTaken(d) == FALSE

\* UNIQUE (capture_draft_id) of expenses.
CaptureDraftTaken(d) == \E e \in Expense : Recorded(e) /\ expenses[e].capture_draft_id = d

Init ==
    /\ home \in Deployments
    /\ drafts = [d \in DraftId |-> NoDraft]
    /\ expenses = [e \in Expense |-> NoExpense]
    /\ op = [r \in Request |-> Idle]
    /\ dormant = {}
    /\ unfinished = {}
    /\ answers = {}
    /\ accepted = [d \in DraftId |-> 0]
    /\ faulted = {}

-----------------------------------------------------------------------------
(* HTTP handlers: one statement *)

StartDraft(r, d) ==
    /\ LoopFree(r)
    /\ ~Exists(d)
    /\ drafts' = [drafts EXCEPT ![d] = Start("web_manual")]
    /\ UNCHANGED <<expenses, op, dormant, unfinished, ghosts>>

(* HTTP handlers: an unlocked read, then a write of the whole row *)

\* bumps: the field writes the row adds; stale: its modified_at is seven days old.
Hold(r, kind, d, row, bumps, stale) ==
    op' = [op EXCEPT ![r] = [kind |-> kind, draft |-> d, row |-> row,
                             bumps |-> bumps, stale |-> stale]]

\* Only a setter checks the state: a PATCH that sets nothing reads any draft
\* and writes it back, its modified_at included.
ReadForEdit(r, d, edit) ==
    /\ LoopFree(r)
    /\ Exists(d)
    /\ IsOpen(drafts[d]) \/ DOMAIN edit = {}
    /\ LET row == SetFields(drafts[d], edit)
       IN  /\ DOMAIN edit # {} => accepted[d] + Cardinality(DOMAIN edit) <= MaxRevision
           /\ Hold(r, "write", d, row, Cardinality(DOMAIN edit),
                   DOMAIN edit = {} /\ d \in dormant)
    /\ UNCHANGED <<drafts, expenses, dormant, unfinished, ghosts>>

ReadForReady(r, d) ==
    /\ LoopFree(r)
    /\ Exists(d) /\ CanMarkReady(drafts[d])
    /\ Hold(r, "write", d, MarkReadyForReview(drafts[d]), 0, FALSE)
    /\ UNCHANGED <<drafts, expenses, dormant, unfinished, ghosts>>

ReadForCancel(r, d) ==
    /\ LoopFree(r)
    /\ Exists(d) /\ IsOpen(drafts[d])
    /\ Hold(r, "write", d, Cancel(drafts[d]), 0, FALSE)
    /\ UNCHANGED <<drafts, expenses, dormant, unfinished, ghosts>>

\* repository.update: waits for the row lock, checks nothing else, commits.
WriteRow(r) ==
    /\ op[r] # Idle /\ op[r].kind = "write"
    /\ LET d == op[r].draft
       IN  /\ ~RowLocked(d)
           /\ drafts' = [drafts EXCEPT ![d] = op[r].row]
           /\ dormant' = IF op[r].stale THEN dormant \cup {d} ELSE dormant \ {d}
           /\ accepted' = [accepted EXCEPT ![d] = @ + op[r].bumps]
    /\ op' = [op EXCEPT ![r] = Idle]
    /\ UNCHANGED <<expenses, unfinished, answers, faulted>>

-----------------------------------------------------------------------------
(* Confirmation *)

\* get_for_update, the state checks, and the future-date tolerance.
LockForConfirm(r, d) ==
    /\ LoopFree(r)
    /\ Exists(d) /\ ~RowLocked(d)
    /\ IsConfirmable(drafts[d])
    /\ drafts[d].field["date"].sound
    /\ Hold(r, "confirm", d, drafts[d], 0, FALSE)
    /\ UNCHANGED <<drafts, expenses, dormant, unfinished, ghosts>>

\* Expense.create accepts the amount and the category's foreign key holds.
ExpenseAccepts(row) == row.field["amount"].sound /\ row.field["category"].sound

\* Insert the Expense, confirm the draft, commit both.
CommitConfirm(r, e) ==
    /\ op[r] # Idle /\ op[r].kind = "confirm"
    /\ LET d == op[r].draft
           row == op[r].row
       IN  /\ ~Recorded(e)
           /\ ExpenseAccepts(row) /\ ~CaptureDraftTaken(d)
           /\ expenses' = [expenses EXCEPT ![e] = [capture_draft_id |-> d,
                                                   field            |-> row.field,
                                                   deleted          |-> FALSE]]
           /\ drafts' = [drafts EXCEPT ![d] = Confirm(row, e)]
           /\ dormant' = dormant \ {d}
           /\ answers' = answers \cup {<<d, e>>}
    /\ op' = [op EXCEPT ![r] = Idle]
    /\ UNCHANGED <<unfinished, accepted, faulted>>

\* ValueError of Expense.create or IntegrityError of the insert: neither is
\* handled, the session closes and its transaction rolls back.
FaultConfirm(r) ==
    /\ op[r] # Idle /\ op[r].kind = "confirm"
    /\ ~ExpenseAccepts(op[r].row) \/ CaptureDraftTaken(op[r].draft)
    /\ op' = [op EXCEPT ![r] = Idle]
    /\ faulted' = faulted \cup {op[r].draft}
    /\ UNCHANGED <<drafts, expenses, dormant, unfinished, answers, accepted>>

\* A repeated confirmation returns the Expense the draft already produced.
ConfirmAgain(r, d) ==
    /\ LoopFree(r)
    /\ Exists(d) /\ ~RowLocked(d)
    /\ drafts[d].state = "confirmed"
    /\ LET e == drafts[d].expense_id
       IN  /\ e # NoExpense
           /\ Recorded(e) /\ ~expenses[e].deleted
           /\ answers' = answers \cup {<<d, e>>}
    /\ UNCHANGED <<drafts, expenses, op, dormant, unfinished, accepted, faulted>>

\* The process stops, or the connection breaks, inside a handler.
Crash(r) ==
    /\ op[r] # Idle
    /\ op' = [op EXCEPT ![r] = Idle]
    /\ UNCHANGED <<drafts, expenses, dormant, unfinished, ghosts>>

\* Soft deletion and restoration lock the Expense row and commit at once.
SetDeleted(r, e, deleted) ==
    /\ LoopFree(r)
    /\ Recorded(e)
    /\ expenses[e].deleted # deleted
    /\ expenses' = [expenses EXCEPT ![e].deleted = deleted]
    /\ UNCHANGED <<drafts, op, dormant, unfinished, ghosts>>

-----------------------------------------------------------------------------
(* Other processes *)

\* Telegram intake: a receipt draft, waiting for its recognition, with
\* today's date as a default.
ReceiptDraft == SetField(StartFromReceipt, "date", "default", TRUE)

ReceiptArrives(d) ==
    /\ ~Exists(d)
    /\ drafts' = [drafts EXCEPT ![d] = ReceiptDraft]
    /\ unfinished' = unfinished \cup {d}
    /\ accepted' = [accepted EXCEPT ![d] = 1]
    /\ UNCHANGED <<expenses, op, dormant, answers, faulted>>

\* Mutant of WithResult: the worker does not look at the draft's state.
ResultRegardless(row, found) == ApplyRecognition(row, found)

\* The draft as the worker's transaction leaves it; a closed draft is left alone.
WithResult(row, found) == IF IsOpen(row) THEN ApplyRecognition(row, found) ELSE row
WithoutResult(row) == IF IsOpen(row) THEN ContinueManually(row) ELSE row

\* The worker finishes the receipt's attempt in one transaction that locks
\* the draft row before reading it.
FinishReceipt(d, found) ==
    /\ d \in unfinished /\ ~RowLocked(d)
    /\ IsOpen(drafts[d]) => accepted[d] < MaxRevision
    /\ drafts' = [drafts EXCEPT ![d] = WithResult(@, found)]
    /\ accepted' = [accepted EXCEPT ![d] = IF IsOpen(drafts[d]) THEN @ + 1 ELSE @]
    /\ dormant' = IF IsOpen(drafts[d]) THEN dormant \ {d} ELSE dormant
    /\ unfinished' = unfinished \ {d}
    /\ UNCHANGED <<expenses, op, answers, faulted>>

\* No output: the user enters the values, no result is recorded.
FailReceipt(d) ==
    /\ d \in unfinished /\ ~RowLocked(d)
    /\ drafts' = [drafts EXCEPT ![d] = WithoutResult(@)]
    /\ dormant' = IF drafts[d].state = "awaiting_recognition" THEN dormant \ {d} ELSE dormant
    /\ unfinished' = unfinished \ {d}
    /\ UNCHANGED <<expenses, op, ghosts>>

\* Seven days without a write.  No handler runs for as long as that.
TimePasses(d) ==
    /\ Exists(d) /\ IsOpen(drafts[d])
    /\ \A r \in Request : op[r] # Idle => op[r].draft # d
    /\ dormant' = dormant \cup {d}
    /\ UNCHANGED <<drafts, expenses, op, unfinished, ghosts>>

\* Mutant of Abandoned: the job knows the two states of manual drafts only.
AbandonedManually == {d \in DraftId : /\ Exists(d) /\ d \in dormant /\ ~RowLocked(d)
                                      /\ drafts[d].state \in {"collecting", "ready_for_review"}}

Abandoned == {d \in DraftId : Exists(d) /\ IsOpen(drafts[d]) /\ d \in dormant /\ ~RowLocked(d)}

\* One statement: FOR UPDATE SKIP LOCKED, re-checked by the UPDATE.  It sets
\* the state and modified_at only.
ExpireAbandoned ==
    /\ Abandoned # {}
    /\ drafts' = [d \in DraftId |-> IF d \in Abandoned THEN Expire(drafts[d]) ELSE drafts[d]]
    /\ dormant' = dormant \ Abandoned
    /\ UNCHANGED <<expenses, op, unfinished, ghosts>>

-----------------------------------------------------------------------------
Handler(r) ==
    \/ \E d \in DraftId :
          \/ StartDraft(r, d)
          \/ \E edit \in Edits : ReadForEdit(r, d, edit)
          \/ ReadForReady(r, d)
          \/ ReadForCancel(r, d)
          \/ LockForConfirm(r, d)
          \/ ConfirmAgain(r, d)
    \/ WriteRow(r)
    \/ \E e \in Expense : CommitConfirm(r, e)
    \/ FaultConfirm(r)
    \/ Crash(r)
    \/ \E e \in Expense : SetDeleted(r, e, TRUE) \/ SetDeleted(r, e, FALSE)

Worker ==
    \E d \in DraftId :
        \/ FailReceipt(d)
        \/ \E found \in SUBSET {"amount", "date", "merchant"} : FinishReceipt(d, found)

Next ==
    \/ \E r \in Request : Handler(r)
    \/ \E d \in DraftId : ReceiptArrives(d) \/ TimePasses(d)
    \/ Worker
    \/ ExpireAbandoned

Step == Next /\ UNCHANGED home

Spec == Init /\ [][Step]_<<vars, home>>

\* The worker and the scheduled job keep running, and a handler that has
\* begun ends; clients owe nothing.  The job is strongly fair: a confirmation's
\* row lock lasts for a few statements and the job comes back on every run.
FairSpec ==
    /\ Spec
    /\ WF_vars(Worker)
    /\ SF_vars(ExpireAbandoned)
    /\ \A r \in Request : WF_vars(\/ WriteRow(r)
                                  \/ FaultConfirm(r)
                                  \/ \E e \in Expense : CommitConfirm(r, e))

-----------------------------------------------------------------------------
(* Properties of every deployment *)

\* A draft produces at most one Expense, however confirmations, edits, stale
\* writes and crashes interleave (the docstring of ConfirmCaptureDraft).
AtMostOneExpense ==
    \A e, f \in Expense :
        Recorded(e) /\ Recorded(f) /\ expenses[e].capture_draft_id = expenses[f].capture_draft_id
        => e = f

\* A draft is confirmed exactly when it names an Expense, and the Expense it
\* names exists and was made from it: what a repeated confirmation relies on.
ConfirmedNamesItsExpense ==
    \A d \in DraftId : Exists(d) =>
        LET e == drafts[d].expense_id
        IN  /\ drafts[d].state = "confirmed" <=> e # NoExpense
            /\ e # NoExpense => Recorded(e) /\ expenses[e].capture_draft_id = d

\* All confirmations of a draft, the first and every repetition, return the
\* same Expense (idempotence of confirm_draft).
OneAnswer ==
    \A a, b \in answers : a[1] = b[1] => a[2] = b[2]

\* Confirming is idempotent: one Expense per draft, and always the same answer.
ConfirmedOnce == AtMostOneExpense /\ OneAnswer

-----------------------------------------------------------------------------
(* Properties of the deployed system: one server process *)

OneLoop == \A q, r \in Request : home[q] = home[r]

\* Once an Expense was recorded for a draft, the draft stays confirmed and
\* names it: no unlocked write puts the draft back.
ExpenseMeansConfirmed ==
    OneLoop =>
        \A e \in Expense : Recorded(e) =>
            LET d == expenses[e].capture_draft_id
            IN  Exists(d) /\ drafts[d].state = "confirmed" /\ drafts[d].expense_id = e

\* A confirmed or cancelled row never changes again.
FinalStays ==
    [][OneLoop => \A d \in DraftId :
          Exists(d) /\ drafts[d].state \in {"confirmed", "cancelled"} => drafts'[d] = drafts[d]]_vars

\* A value the user supplied is replaced by another value of the user only,
\* whatever the worker, the job and other requests do (draft.py: "the user's
\* input always wins").
UserValuesWin ==
    [][OneLoop => \A d \in DraftId, f \in Field :
          Exists(d) /\ drafts[d].field[f].source = "user"
          => Exists(d)' /\ drafts'[d].field[f].source = "user"]_vars

\* Every acknowledged field write of a manual draft is in the row: its
\* revision counts them all.
NoLostEdit ==
    OneLoop => \A d \in DraftId :
        Exists(d) /\ drafts[d].origin # "telegram_receipt" => drafts[d].revision = accepted[d]

\* A draft nobody touches is expired, or somebody touches it after all.
AbandonedDraftsEnd ==
    \A d \in DraftId : (d \in dormant /\ Exists(d) /\ IsOpen(drafts[d]))
                       ~> ~(d \in dormant /\ Exists(d) /\ IsOpen(drafts[d]))

-----------------------------------------------------------------------------
(* What the documents say and the code does not keep *)

\* domain_design_proposal.md, invariant 18: a confirmed, cancelled or expired
\* draft cannot be edited.
FinalDraftNeverEdited ==
    [][OneLoop => \A d \in DraftId :
          Exists(d) /\ drafts[d].state \in FinalStates => drafts'[d] = drafts[d]]_vars

\* domain_design_proposal.md, invariant 19: confirmation requires every
\* mandatory Expense field to be valid, so it never ends in an error that
\* nobody handles.
ConfirmNeverFaults == faulted = {}
=============================================================================
