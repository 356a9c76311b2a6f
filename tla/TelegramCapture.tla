--------------------------- MODULE TelegramCapture ---------------------------
(***************************************************************************)
(* One user's conversation with the bot: ManualCaptureFlow, the            *)
(* conversation row it keeps beside the drafts, and everything that reads  *)
(* or writes the same rows meanwhile: the receipt worker, the retention    *)
(* job, unlinking, and the HTTP handlers when the user also works on the   *)
(* Web.                                                                    *)
(*                                                                         *)
(* An update is handled in two steps.  The first locks the conversation    *)
(* row, reads the active draft WITHOUT a lock and computes what to write;  *)
(* the second writes rows and conversation and commits.  `plan' is what is *)
(* to be written.  A confirmation commits twice: the use case commits the  *)
(* session, which also gives up the conversation lock, and the handler     *)
(* saves the conversation afterwards.                                      *)
(*                                                                         *)
(* The server is one event loop, so no second update and no HTTP handler   *)
(* runs between the two steps; the worker and the job do.  The worker      *)
(* locks the conversation before it reads the draft.  The job locks drafts *)
(* first: when it meets a handler half way PostgreSQL aborts one of the    *)
(* two, and both outcomes are steps below.                                 *)
(*                                                                         *)
(* An HTTP handler that edits, marks ready or cancels is two steps as      *)
(* well, and it locks nothing: the worker and the job commit in between,   *)
(* and its write of the whole row puts back what they changed.             *)
(* `overwritten' remembers the drafts this happened to.                    *)
(*                                                                         *)
(* An Expense goes by the draft it came from.  Revisions, which nothing    *)
(* here reads, stay zero; the wording of currency_is_default is left out.  *)
(***************************************************************************)
EXTENDS Naturals, FiniteSets

CONSTANTS DraftId, NoDraft,
          WebOps,     \* what the user does on the Web: "edit", "ready", "cancel", "confirm"
          Edits,      \* PATCH bodies the Web sends
          Results     \* sets of fields a recognition finds

ASSUME NoDraftAssumption == NoDraft \notin DraftId
INSTANCE CaptureDraft WITH Expense <- DraftId, NoExpense <- NoDraft

ASSUME WebOpsAssumption == WebOps \subseteq {"edit", "ready", "cancel", "confirm"}
ASSUME EditsAssumption == Edits \subseteq Edit
ASSUME ResultsAssumption == Results \subseteq SUBSET {"amount", "date", "merchant"}

VARIABLES
    drafts,     \* capture_drafts
    conv,       \* the row of telegram_conversations
    plan,       \* what the running handler is about to write
    unfinished, \* drafts whose receipt is still queued or processing
    dormant,    \* drafts untouched for ABANDONED_DRAFT_INACTIVITY
    orphaned,   \* history: drafts that were active when the user unlinked
    overwritten \* history: drafts a request wrote over somebody's commit

history == <<orphaned, overwritten>>
vars == <<drafts, conv, plan, unfinished, dormant, history>>

NoRow == [state |-> "none"]

AwaitingInput == {"nothing", "amount", "currency", "merchant", "category", "date"}

Conversation == [active   : DraftId \cup {NoDraft},
                 awaiting : AwaitingInput,
                 pending  : BOOLEAN]    \* pending_receipt_file_id is set

Finished == [active |-> NoDraft, awaiting |-> "nothing", pending |-> FALSE]

NoPlan == [stage |-> "none"]

\* write: rows and conversation, then commit; confirm: the use case is next;
\* save: it has committed and the conversation is left to save; web: an HTTP
\* handler is between the row it read and the row it writes.
TypeOK ==
    /\ drafts \in [DraftId -> Draft \cup {NoRow}]
    /\ conv \in Conversation
    /\ \/ plan = NoPlan
       \/ /\ plan.stage \in {"write", "confirm", "save"}
          /\ plan.conv \in Conversation
          /\ DOMAIN plan.rows \subseteq DraftId
          /\ \A d \in DOMAIN plan.rows : plan.rows[d] \in Draft
       \/ plan \in [stage : {"web"}, draft : DraftId, read : Draft, row : Draft, aged : BOOLEAN]
    /\ unfinished \subseteq DraftId
    /\ dormant \subseteq DraftId
    /\ orphaned \subseteq DraftId
    /\ overwritten \subseteq DraftId

Exists(d) == drafts[d] # NoRow
Open(d) == Exists(d) /\ IsOpen(drafts[d])

Row(d) == [d EXCEPT !.revision = 0]

Quiet == plan = NoPlan

\* Mutant of ConversationLocked (LockedNever): lock() only selects the row.
\* The conversation row is locked from an update handler's first statement to
\* its first commit, and by no HTTP handler.
LockedNever == FALSE

ConversationLocked == ~Quiet /\ plan.stage \notin {"save", "web"}

Init ==
    /\ drafts = [d \in DraftId |-> NoRow]
    /\ conv = Finished
    /\ plan = NoPlan
    /\ unfinished = {}
    /\ dormant = {}
    /\ orphaned = {}
    /\ overwritten = {}

-----------------------------------------------------------------------------
(* The conversation *)

WaitingFor(c, awaiting) == [c EXCEPT !.awaiting = awaiting]

WithPending(c, pending) == [c EXCEPT !.pending = pending]

\* with_draft drops the photo that was waiting.
WithDraft(c, d, awaiting) == [active |-> d, awaiting |-> awaiting, pending |-> FALSE]

Write(c, rows) ==
    /\ plan' = [stage |-> "write", conv |-> c, rows |-> rows]
    /\ UNCHANGED <<drafts, conv, unfinished, dormant, history>>

NoRows == [d \in {} |-> NoRow]
One(d, row) == [x \in {d} |-> row]
Two(d, row, e, other) == [x \in {d, e} |-> IF x = d THEN row ELSE other]

\* The draft a handler works on; one that is no longer open does not count.
ActiveDraft == IF conv.active # NoDraft /\ Open(conv.active) THEN conv.active ELSE NoDraft

\* Mutant of FindsNothing: the row is left as it is.
FindsNothingToSave == ActiveDraft = NoDraft /\ Write(conv, NoRows)

\* A handler that finds no active draft saves a finished conversation.
FindsNothing == ActiveDraft = NoDraft /\ Write(Finished, NoRows)

-----------------------------------------------------------------------------
(* Steps of the flow *)

ManualDraft == SetField(Start("telegram_manual"), "date", "default", TRUE)
ReceiptDraft == SetField(StartFromReceipt, "date", "default", TRUE)

\* A receipt draft is asked only for what recognition did not fill.
NextQuestion(row, next) ==
    IF row.origin = "telegram_receipt" /\ next = "merchant" /\ Filled(row, "merchant")
    THEN "category" ELSE next

AllAnswered(row, question) ==
    row.origin = "telegram_receipt" /\ question = "category" /\ Filled(row, "category")

\* _advance: ask for the next field, or show the review card.
Advance(c, row, next) ==
    LET question == NextQuestion(row, next)
        after == IF CanMarkReady(row) /\ AllAnswered(row, question)
                 THEN MarkReadyForReview(row) ELSE row
    IN  [row  |-> after,
         conv |-> WaitingFor(c, IF after.state = "collecting" THEN question ELSE "nothing")]

Advances(d, c, row, next) ==
    LET a == Advance(c, row, next) IN Write(a.conv, One(d, a.row))

-----------------------------------------------------------------------------
(* Commands, photos and typed answers.  Input that is refused changes        *)
(* nothing and is not a step.                                                *)

\* /add and the "Add expense" button.
Add(n) ==
    /\ Quiet
    /\ \/ ActiveDraft # NoDraft /\ conv.pending /\ Write(WithPending(conv, FALSE), NoRows)
       \/ /\ ActiveDraft = NoDraft /\ ~Exists(n)
          /\ Write(WithDraft(conv, n, "amount"), One(n, ManualDraft))

Photo(n) ==
    /\ Quiet
    /\ \/ ActiveDraft # NoDraft /\ Write(WithPending(conv, TRUE), NoRows)
       \/ /\ ActiveDraft = NoDraft /\ ~Exists(n)
          /\ Write(WithDraft(conv, n, "nothing"), One(n, ReceiptDraft))

CancelCommand ==
    /\ Quiet
    /\ \/ FindsNothing
       \/ /\ ActiveDraft # NoDraft
          /\ Write(Finished, One(ActiveDraft, Cancel(drafts[ActiveDraft])))

\* A new amount takes the photo that was waiting with it: _advance goes
\* through with_draft to record that the currency is a default.
OnAmount(d) ==
    /\ conv.awaiting = "amount"
    /\ Advances(d, WithPending(conv, FALSE), SetField(drafts[d], "amount", "user", TRUE), "merchant")

\* The amount is re-expressed in the currency, or asked for again when it
\* has too many decimals for it.
OnCurrency(d) ==
    /\ conv.awaiting = "currency"
    /\ Filled(drafts[d], "amount")
    /\ \/ Write(WaitingFor(conv, "amount"), NoRows)
       \/ Advances(d, WithPending(conv, FALSE),
                   SetField(drafts[d], "amount", "user", drafts[d].field["amount"].sound),
                   "merchant")

OnMerchant(d) ==
    /\ conv.awaiting = "merchant"
    /\ Advances(d, conv, SetField(drafts[d], "merchant", "user", TRUE), "category")

\* Typed, or from the buttons "Today" and "Yesterday".
OnDate(d) ==
    /\ conv.awaiting = "date"
    /\ Advances(d, conv, SetField(drafts[d], "date", "user", TRUE), "merchant")

Text ==
    /\ Quiet
    /\ \/ FindsNothing
       \/ LET d == ActiveDraft
          IN  /\ d # NoDraft /\ drafts[d].state # "awaiting_recognition"
              /\ OnAmount(d) \/ OnCurrency(d) \/ OnMerchant(d) \/ OnDate(d)

-----------------------------------------------------------------------------
(* Buttons.  Each carries its draft; one of another draft changes nothing.   *)

Skip(d) ==
    /\ conv.awaiting = "merchant"
    /\ Advances(d, conv, drafts[d], "category")

ChooseCategory(d) ==
    /\ conv.awaiting = "category"
    /\ LET row == SetField(drafts[d], "category", "user", TRUE)
       IN  Write(WaitingFor(conv, "nothing"),
                 One(d, IF CanMarkReady(row) THEN MarkReadyForReview(row) ELSE row))

EditField(d) ==
    /\ drafts[d].state = "ready_for_review"
    /\ \E field \in AwaitingInput \ {"nothing"} : Write(WaitingFor(conv, field), NoRows)

PressConfirm(d) ==
    /\ drafts[d].state = "ready_for_review"
    /\ plan' = [stage |-> "confirm", conv |-> Finished, rows |-> One(d, drafts[d])]
    /\ UNCHANGED <<drafts, conv, unfinished, dormant, history>>

PressCancel(d) == Write(Finished, One(d, Cancel(drafts[d])))

EnterManually(d) ==
    /\ drafts[d].state = "awaiting_recognition"
    /\ Write(WaitingFor(conv, "amount"), One(d, ContinueManually(drafts[d])))

Continue ==
    /\ conv.pending
    /\ Write(WithPending(conv, FALSE), NoRows)

\* Mutants of Discard: the old draft is not cancelled; the amount is asked for
\* while the photo is read.
DiscardKeeps(d, n) ==
    /\ ~Exists(n)
    /\ Write(WithDraft(Finished, n, IF conv.pending THEN "nothing" ELSE "amount"),
             One(n, IF conv.pending THEN ReceiptDraft ELSE ManualDraft))

\* Cancel the draft and start another, from the photo if one is waiting.
Discard(d, n) ==
    /\ ~Exists(n)
    /\ Write(WithDraft(Finished, n, IF conv.pending THEN "nothing" ELSE "amount"),
             Two(d, Cancel(drafts[d]), n, IF conv.pending THEN ReceiptDraft ELSE ManualDraft))

Button(d) ==
    /\ Quiet
    /\ \/ FindsNothing
       \/ /\ ActiveDraft = d
          /\ \/ Skip(d) \/ ChooseCategory(d) \/ OnDate(d) \/ EditField(d)
             \/ PressConfirm(d) \/ PressCancel(d) \/ EnterManually(d) \/ Continue
             \/ \E n \in DraftId : Discard(d, n)

-----------------------------------------------------------------------------
(* The second half of an update *)

NewReceipts == {d \in DOMAIN plan.rows : ~Exists(d) /\ plan.rows[d].state = "awaiting_recognition"}

\* Skipping a question writes the row as it was read, modified_at included.
Touched == {d \in DOMAIN plan.rows : plan.rows[d] # drafts[d]}

Commit ==
    /\ ~Quiet /\ plan.stage = "write"
    /\ drafts' = [d \in DraftId |-> IF d \in DOMAIN plan.rows THEN Row(plan.rows[d]) ELSE drafts[d]]
    /\ conv' = plan.conv
    /\ unfinished' = unfinished \cup NewReceipts
    /\ dormant' = dormant \ Touched
    /\ plan' = NoPlan
    /\ UNCHANGED history

\* ConfirmCaptureDraft reads the row again, under its lock.
Acceptable(row) == IsConfirmable(row) /\ \A f \in {"amount", "date", "category"} : row.field[f].sound

CommitExpense ==
    /\ ~Quiet /\ plan.stage = "confirm"
    /\ \E d \in DOMAIN plan.rows :
          /\ Acceptable(drafts[d])
          /\ drafts' = [drafts EXCEPT ![d] = Confirm(@, d)]
          /\ dormant' = dormant \ {d}
    /\ plan' = [plan EXCEPT !.stage = "save"]
    /\ UNCHANGED <<conv, unfinished, history>>

\* Not confirmable, or the use case fails: nothing is written.
RefuseExpense ==
    /\ ~Quiet /\ plan.stage = "confirm"
    /\ \E d \in DOMAIN plan.rows : ~Acceptable(drafts[d])
    /\ plan' = NoPlan
    /\ UNCHANGED <<drafts, conv, unfinished, dormant, history>>

SaveConversation ==
    /\ ~Quiet /\ plan.stage = "save"
    /\ conv' = plan.conv
    /\ plan' = NoPlan
    /\ UNCHANGED <<drafts, unfinished, dormant, history>>

\* An exception, a deadlock abort or a crash: what is not committed is gone.
Abort ==
    /\ ~Quiet
    /\ plan' = NoPlan
    /\ UNCHANGED <<drafts, conv, unfinished, dormant, history>>

-----------------------------------------------------------------------------
(* The worker: one transaction that locks the conversation, then the draft   *)

Records(d, row, c) ==
    /\ drafts' = [drafts EXCEPT ![d] = Row(row)]
    /\ conv' = c
    /\ dormant' = IF drafts[d].state = "awaiting_recognition" \/ row # drafts[d]
                  THEN dormant \ {d} ELSE dormant
    /\ unfinished' = unfinished \ {d}
    /\ UNCHANGED <<plan, history>>

\* Mutant of EndsWaiting: the conversation is not touched.
EndsWaitingSilently(d, row) ==
    /\ drafts[d].state = "awaiting_recognition"
    /\ Records(d, row, conv)

\* The attempt ended; the draft was waiting for it.
EndsWaiting(d, row) ==
    /\ drafts[d].state = "awaiting_recognition"
    /\ Records(d, row, IF conv.active = d /\ row.state # "ready_for_review"
                       THEN WaitingFor(conv, "amount") ELSE conv)

\* A late result answers the amount question, unless a photo is waiting.
AnswersAmount(d, row) ==
    /\ conv.active = d /\ ~conv.pending /\ row.field # drafts[d].field
    /\ row.state = "collecting" /\ conv.awaiting = "amount" /\ Filled(row, "amount")

LateResult(d, row) ==
    /\ Open(d) /\ drafts[d].state # "awaiting_recognition"
    /\ IF AnswersAmount(d, row)
       THEN LET a == Advance(WithPending(conv, FALSE), row, "merchant") IN Records(d, a.row, a.conv)
       ELSE Records(d, row, conv)

DraftClosed(d) ==
    /\ ~Open(d)
    /\ unfinished' = unfinished \ {d}
    /\ UNCHANGED <<drafts, conv, plan, dormant, history>>

FinishReceipt(d) ==
    /\ d \in unfinished /\ ~ConversationLocked
    /\ \/ DraftClosed(d)
       \/ \E found \in Results : LET row == ApplyRecognition(drafts[d], found)
                                 IN  Open(d) /\ (EndsWaiting(d, row) \/ LateResult(d, row))

\* Mutant of FailReceipt: only the receipt is marked failed.
FailReceiptOnly(d) ==
    /\ d \in unfinished /\ ~ConversationLocked
    /\ unfinished' = unfinished \ {d}
    /\ UNCHANGED <<drafts, conv, plan, dormant, history>>

FailReceipt(d) ==
    /\ d \in unfinished /\ ~ConversationLocked
    /\ Open(d)
    /\ LET row == ContinueManually(drafts[d])
       IN  EndsWaiting(d, row) \/ (row = drafts[d] /\ Records(d, row, conv))

-----------------------------------------------------------------------------
(* The retention job, the Web, unlinking *)

TimePasses(d) ==
    /\ Quiet /\ Open(d)
    /\ dormant' = dormant \cup {d}
    /\ UNCHANGED <<drafts, conv, plan, unfinished, history>>

Abandoned == {d \in DraftId : Open(d) /\ d \in dormant}

\* Expires the drafts and releases the conversation that points to one, for
\* which it needs the row no handler holds.
ExpireAbandoned ==
    /\ Abandoned # {}
    /\ conv.active \in Abandoned => ~ConversationLocked
    /\ drafts' = [d \in DraftId |-> IF d \in Abandoned THEN Expire(drafts[d]) ELSE drafts[d]]
    /\ conv' = IF conv.active \in Abandoned THEN Finished ELSE conv
    /\ dormant' = dormant \ Abandoned
    /\ UNCHANGED <<plan, unfinished, history>>

\* The row is read without a lock and the new one computed from it.  A PATCH
\* that names no field keeps the old modified_at.
WebReads(d, row) ==
    /\ plan' = [stage |-> "web", draft |-> d, read |-> drafts[d], row |-> Row(row),
                aged  |-> d \in dormant /\ row = drafts[d]]
    /\ UNCHANGED <<drafts, conv, unfinished, dormant, history>>

WebRead(d) ==
    /\ Quiet /\ Open(d)
    /\ \/ "edit" \in WebOps /\ \E edit \in Edits : WebReads(d, SetFields(drafts[d], edit))
       \/ "ready" \in WebOps /\ CanMarkReady(drafts[d]) /\ WebReads(d, MarkReadyForReview(drafts[d]))
       \/ "cancel" \in WebOps /\ WebReads(d, Cancel(drafts[d]))

\* repository.update: every column, whatever the row has become.
WebWrite ==
    /\ ~Quiet /\ plan.stage = "web"
    /\ LET d == plan.draft
       IN  /\ drafts' = [drafts EXCEPT ![d] = plan.row]
           /\ dormant' = IF plan.aged THEN dormant \cup {d} ELSE dormant \ {d}
           /\ overwritten' = IF drafts[d] = plan.read THEN overwritten ELSE overwritten \cup {d}
    /\ plan' = NoPlan
    /\ UNCHANGED <<conv, unfinished, orphaned>>

\* The use case locks the row before it reads it.
WebConfirm(d) ==
    /\ Quiet /\ Open(d)
    /\ "confirm" \in WebOps /\ Acceptable(drafts[d])
    /\ drafts' = [drafts EXCEPT ![d] = Row(Confirm(@, d))]
    /\ dormant' = dormant \ {d}
    /\ UNCHANGED <<conv, plan, unfinished, history>>

\* Deletes the conversation row; the next update makes an idle one.
Unlink ==
    /\ Quiet
    /\ conv' = Finished
    /\ orphaned' = orphaned \cup ({conv.active} \ {NoDraft})
    /\ UNCHANGED <<drafts, plan, unfinished, dormant, overwritten>>

-----------------------------------------------------------------------------
Update ==
    \/ CancelCommand \/ Text
    \/ \E d \in DraftId : Add(d) \/ Photo(d) \/ Button(d)

Handler == Commit \/ CommitExpense \/ RefuseExpense \/ SaveConversation \/ WebWrite

Worker(d) == FinishReceipt(d) \/ FailReceipt(d)

Next ==
    \/ Update \/ Handler \/ Abort \/ Unlink
    \/ \E d \in DraftId : Worker(d) \/ TimePasses(d) \/ WebRead(d) \/ WebConfirm(d)
    \/ ExpireAbandoned

Spec == Init /\ [][Next]_vars

\* A handler that has begun ends, and the worker gets to every receipt: it
\* waits in the queue of the conversation's row lock, so updates that keep
\* coming do not keep it out.
FairSpec ==
    /\ Spec
    /\ WF_vars(Handler)
    /\ \A d \in DraftId : SF_vars(Worker(d))

-----------------------------------------------------------------------------
(* Properties *)

\* The active draft is in that state, and no request has put back a row that
\* the conversation had moved on from.
ActiveIs(state) ==
    /\ conv.active # NoDraft /\ conv.active \notin overwritten
    /\ Exists(conv.active) /\ drafts[conv.active].state = state

\* While a receipt is being read the bot asks for nothing: a typed text is
\* answered "still reading" and must not be an answer to anything.
WaitingAsksNothing == ActiveIs("awaiting_recognition") => conv.awaiting = "nothing"

\* A draft that is still collected is always being asked for something.  With
\* nothing asked the bot would show a review card whose buttons do nothing.
CollectingAsks == ActiveIs("collecting") => conv.awaiting \in {"amount", "merchant", "category"}

\* Merchant and category are asked only after the amount is known, whichever
\* of the user, the Web and a late result supplied it.
AskedInOrder ==
    ActiveIs("collecting") /\ conv.awaiting \in {"merchant", "category"}
    => Filled(drafts[conv.active], "amount")

\* A draft under review has an amount and a date, so Confirm is never refused
\* for a missing field, unless the Web marked the draft ready itself or took
\* back the amount while the category was asked.
ReviewIsComplete ==
    "ready" \notin WebOps =>
        \A d \in DraftId \ overwritten :
            Exists(d) /\ drafts[d].state = "ready_for_review" => Complete(drafts[d])

\* The user can reach every open draft: it is the active one, the one that was
\* active when the user unlinked, or one a request reopened after the job had
\* expired it.
OneReachableDraft ==
    \A d \in DraftId : Open(d) => d = conv.active \/ d \in orphaned \/ d \in overwritten

\* The user always has a way on: nothing is asked while a receipt is read, a
\* draft under review can be confirmed, and every open draft can be reached.
UserCanGoOn == WaitingAsksNothing /\ ReviewIsComplete /\ OneReachableDraft

\* While a draft is collected, something is asked, and in the right order,
\* until a request of the Web writes over a result it had not read.
AsksForTheNext == CollectingAsks /\ AskedInOrder

\* An HTTP handler writes over what was committed after it read the row.
Overwrites(d) == WebWrite /\ plan.draft = d /\ drafts[d] # plan.read

\* No update, late result or job touches a draft that is closed: what the
\* handler read before it wrote is still true.  Only a request of the Web that
\* read the draft before the job expired it writes it back.
ClosedStays ==
    [][\A d \in DraftId :
          Exists(d) /\ ~Open(d) /\ drafts'[d] # drafts[d]
          => Overwrites(d) /\ drafts[d].state = "expired"]_vars

Rank(source) ==
    CASE source = "none" -> 0 [] source = "default" -> 1
      [] source = "recognition" -> 2 [] source = "user" -> 3

\* A field is set back by a request of the Web that had read the row before
\* the worker filled it, and by nothing else: no update writes a row it read
\* before a result was applied, and no result takes the place of what the user
\* typed.  Even that request never sets back what the user supplied.
UserSourcesNeverFall ==
    [][\A d \in DraftId, f \in Field :
          Exists(d) =>
              \/ Rank(drafts'[d].field[f].source) >= Rank(drafts[d].field[f].source)
              \/ Overwrites(d) /\ drafts[d].field[f].source # "user"]_vars

\* Whatever happened on the Web or to an earlier confirmation, an update that
\* was handled leaves the conversation at an open draft or at none.
UpdatesHeal ==
    [][Commit \/ SaveConversation => (conv.active = NoDraft \/ Open(conv.active))']_vars

\* The user does not wait for a receipt for ever, unless a request of the Web
\* wrote the draft back to waiting after the worker was done with it.
WaitingEnds ==
    \A d \in DraftId :
        Exists(d) /\ drafts[d].state = "awaiting_recognition" /\ d \notin overwritten ~>
        drafts[d].state # "awaiting_recognition"

-----------------------------------------------------------------------------
(* What the documents say and the code does not keep *)

\* conversation.py: a photo sent while another draft was active is kept until
\* the user chooses to continue that draft or discard it for the photo.  A
\* choice to continue writes no draft; a discarded draft is not open.
PhotoKept ==
    [][\A d \in DraftId :
          conv.active = d /\ conv.pending /\ ~conv'.pending /\ Open(d)' => drafts' = drafts]_vars
=============================================================================
