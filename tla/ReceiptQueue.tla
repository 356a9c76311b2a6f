---------------------------- MODULE ReceiptQueue ----------------------------
(***************************************************************************)
(* The receipts table as a work queue: several workers claim receipts,     *)
(* download and keep the image, have it recognized and finish the attempt  *)
(* in one transaction, while users close or take over their drafts, the    *)
(* retention job removes images and accounts are deleted.                  *)
(*                                                                         *)
(* A lease lapses two minutes after the claim whether or not its worker is *)
(* still at work, so an attempt can be taken over while it runs.  What a   *)
(* worker read stays in its record: the attempt it claimed, the output it  *)
(* got, the notices it claimed and has yet to send.  A transaction that    *)
(* only touches rows nobody holds is one step; finishing is two, because   *)
(* it holds the receipt's row while it waits for the conversation.         *)
(*                                                                         *)
(* Receipts are numbered in the order of created_at, and each belongs to   *)
(* a user of its own.  What a result does to the fields of the draft is in *)
(* CaptureDraft and TelegramCapture; here a draft waits, is open or is     *)
(* closed.  The limit of 20 notices in one sweep is not reached.           *)
(*                                                                         *)
(* An HTTP request that edits a draft reads its row without a lock and     *)
(* writes the whole of it back, whatever a worker or the job committed     *)
(* meanwhile.  The server is one event loop: while it is between the two,  *)
(* no other request and no update of the bot runs.                         *)
(***************************************************************************)
EXTENDS Naturals, FiniteSets

CONSTANTS Worker,
          Receipts,     \* how many receipts arrive
          MaxFaults     \* bound on crashes, failed iterations and slow attempts

ASSUME ReceiptsAssumption == Receipts \in Nat
ASSUME MaxFaultsAssumption == MaxFaults \in Nat

Receipt == 1 .. Receipts

VARIABLES
    receipts,   \* receipts
    images,     \* receipt_images: the receipts with a stored image
    results,    \* recognition_results: the attempts of each receipt with a row
    drafts,     \* the state of each receipt's draft
    active,     \* receipts whose draft is the user's active draft
    worker,     \* what each worker holds in memory
    edit,       \* the draft an HTTP request has read and not yet written
    rewritten,  \* history: receipts whose draft a request wrote back to waiting
    filled,     \* history: how often a result was applied to the draft
    told,       \* history: outcome messages sent
    warned,     \* history: delay notices sent
    faults

editing == <<edit, rewritten>>
vars == <<receipts, images, results, drafts, active, worker, editing, filled, told, warned, faults>>

NotYet == [state |-> "not_yet"]
Deleted == [state |-> "deleted"]

ReceiptState == {"queued", "processing", "recognized", "recognition_failed"}

\* lapsed: lease_expires_at is past.  removed: image_removed_at is set, and
\* with it telegram_file_id is NULL.  noticed: delay_notice_sent_at is set.
ReceiptRow == [state   : ReceiptState,
               attempt : Nat,
               lapsed  : BOOLEAN,
               removed : BOOLEAN,
               noticed : BOOLEAN]

Idle == [stage |-> "idle", notices |-> {}]

Attempting == [stage   : {"claimed", "downloading", "downloaded", "recognizing",
                          "finishing", "committing", "notifying"},
               receipt : Receipt,
               attempt : Nat,
               output  : {"none", "values"},
               notices : SUBSET Receipt]

DraftState == {"none", "awaiting_recognition", "open", "closed", "long_closed", "deleted"}
OpenState == {"awaiting_recognition", "open"}

NoEdit == [stage |-> "none"]
Edit == [stage : {"read"}, receipt : Receipt, draft : OpenState]

TypeOK ==
    /\ receipts \in [Receipt -> ReceiptRow \cup {NotYet, Deleted}]
    /\ images \subseteq Receipt
    /\ results \in [Receipt -> SUBSET Nat]
    /\ drafts \in [Receipt -> DraftState]
    /\ active \subseteq Receipt
    /\ worker \in [Worker -> Attempting \cup [stage : {"idle"}, notices : SUBSET Receipt]]
    /\ edit \in Edit \cup {NoEdit}
    /\ rewritten \subseteq Receipt
    /\ filled \in [Receipt -> Nat]
    /\ told \in [Receipt -> Nat]
    /\ warned \in [Receipt -> Nat]
    /\ faults \in 0 .. MaxFaults

Init ==
    /\ receipts = [r \in Receipt |-> NotYet]
    /\ images = {}
    /\ results = [r \in Receipt |-> {}]
    /\ drafts = [r \in Receipt |-> "none"]
    /\ active = {}
    /\ worker = [w \in Worker |-> Idle]
    /\ edit = NoEdit
    /\ rewritten = {}
    /\ filled = [r \in Receipt |-> 0]
    /\ told = [r \in Receipt |-> 0]
    /\ warned = [r \in Receipt |-> 0]
    /\ faults = 0

Present(r) == receipts[r].state \in ReceiptState

Unfinished(r) == receipts[r].state \in {"queued", "processing"} /\ ~receipts[r].removed

\* A worker with notices in hand sends them before anything else.
At(w, stage) == worker[w].stage = stage /\ worker[w].notices = {}

GoTo(w, stage) == worker' = [worker EXCEPT ![w].stage = stage]
Rest(w) == worker' = [worker EXCEPT ![w] = Idle]

\* save_finished holds the receipt's row until the transaction ends.
Locked(r) == \E w \in Worker : worker[w].stage = "committing" /\ worker[w].receipt = r

\* No HTTP request is between its read and its write.
LoopIsFree == edit = NoEdit

Fault == faults < MaxFaults /\ faults' = faults + 1

-----------------------------------------------------------------------------
(* Intake *)

\* A photo: receipt and draft are committed together (ManualCaptureFlow).
Receive(r) ==
    /\ LoopIsFree
    /\ receipts[r] = NotYet
    /\ \A q \in Receipt : receipts[q] = NotYet => r <= q
    /\ receipts' = [receipts EXCEPT ![r] = [state |-> "queued", attempt |-> 0, lapsed |-> FALSE,
                                            removed |-> FALSE, noticed |-> FALSE]]
    /\ drafts' = [drafts EXCEPT ![r] = "awaiting_recognition"]
    /\ active' = active \cup {r}
    /\ UNCHANGED <<images, results, worker, editing, filled, told, warned, faults>>

-----------------------------------------------------------------------------
(* Claiming *)

\* Mutant of IsClaimable: a receipt that is being processed is never taken.
OnlyQueued(r) == receipts[r].state = "queued" /\ ~receipts[r].removed

IsClaimable(r) ==
    /\ Unfinished(r) /\ ~Locked(r)
    /\ receipts[r].state = "processing" => receipts[r].lapsed

ClaimNext(w) ==
    /\ At(w, "idle")
    /\ \E r \in Receipt :
          /\ IsClaimable(r) /\ \A q \in Receipt : IsClaimable(q) => r <= q
          /\ receipts' = [receipts EXCEPT ![r].state = "processing",
                                          ![r].attempt = @ + 1,
                                          ![r].lapsed = FALSE]
          /\ worker' = [worker EXCEPT ![w] = [stage |-> "claimed", receipt |-> r, notices |-> {},
                                              attempt |-> receipts[r].attempt + 1,
                                              output |-> "none"]]
    /\ UNCHANGED <<images, results, drafts, active, editing, filled, told, warned, faults>>

\* Some worker still holds the current attempt.
AtWork(r) ==
    \E w \in Worker : /\ worker[w].stage # "idle" /\ worker[w].stage # "notifying"
                      /\ worker[w].receipt = r /\ worker[w].attempt = receipts[r].attempt

\* Two minutes pass.  When the attempt is still running it was a slow one.
LeaseExpires(r) ==
    /\ receipts[r].state = "processing" /\ ~receipts[r].lapsed
    /\ receipts' = [receipts EXCEPT ![r].lapsed = TRUE]
    /\ IF AtWork(r) THEN Fault ELSE UNCHANGED faults
    /\ UNCHANGED <<images, results, drafts, active, worker, editing, filled, told, warned>>

-----------------------------------------------------------------------------
(* The image, and reading it *)

\* The stored image first, Telegram's file otherwise.
LookUpImage(w) ==
    /\ At(w, "claimed")
    /\ LET r == worker[w].receipt
       IN  \/ r \in images /\ GoTo(w, "recognizing")
           \/ r \notin images /\ Present(r) /\ ~receipts[r].removed /\ GoTo(w, "downloading")
           \/ r \notin images /\ ~(Present(r) /\ ~receipts[r].removed) /\ GoTo(w, "finishing")
    /\ UNCHANGED <<receipts, images, results, drafts, active, editing, filled, told,
                   warned, faults>>

\* The file is unavailable or no image: the attempt fails.
Download(w) ==
    /\ At(w, "downloading")
    /\ GoTo(w, "downloaded") \/ GoTo(w, "finishing")
    /\ UNCHANGED <<receipts, images, results, drafts, active, editing, filled, told,
                   warned, faults>>

\* put() and its commit.  The receipt may have been deleted; another attempt
\* may have stored the image, which breaks the primary key and the iteration.
KeepImage(w) ==
    /\ At(w, "downloaded")
    /\ LET r == worker[w].receipt
       IN  IF Present(r) /\ r \notin images
           THEN images' = images \cup {r} /\ GoTo(w, "recognizing")
           ELSE Rest(w) /\ UNCHANGED images
    /\ UNCHANGED <<receipts, results, drafts, active, editing, filled, told, warned, faults>>

\* The recognizer answers, or fails, or sixty seconds pass.
Recognize(w) ==
    /\ At(w, "recognizing")
    /\ \E output \in {"none", "values"} :
          worker' = [worker EXCEPT ![w].stage = "finishing", ![w].output = output]
    /\ UNCHANGED <<receipts, images, results, drafts, active, editing, filled, told,
                   warned, faults>>

-----------------------------------------------------------------------------
(* Finishing *)

IsCurrent(r, attempt) == receipts[r].state = "processing" /\ receipts[r].attempt = attempt

\* Mutant of SaveFinished: a stale attempt still tells the user.
SaveFinishedLoudly(w) ==
    /\ At(w, "finishing") /\ ~Locked(worker[w].receipt)
    /\ IF IsCurrent(worker[w].receipt, worker[w].attempt)
       THEN GoTo(w, "committing")
       ELSE GoTo(w, "notifying")
    /\ UNCHANGED <<receipts, images, results, drafts, active, editing, filled, told,
                   warned, faults>>

\* save_finished: a stale attempt changes nothing.
SaveFinished(w) ==
    /\ At(w, "finishing") /\ ~Locked(worker[w].receipt)
    /\ IF IsCurrent(worker[w].receipt, worker[w].attempt)
       THEN GoTo(w, "committing")
       ELSE Rest(w)
    /\ UNCHANGED <<receipts, images, results, drafts, active, editing, filled, told,
                   warned, faults>>

Finished(row, output) ==
    [row EXCEPT !.state  = IF output = "values" THEN "recognized" ELSE "recognition_failed",
                !.lapsed = FALSE]

\* What the user is told, if anything: always when the draft waited, perhaps
\* when a late result changed it.  Only the active draft is spoken of.
ThenNotify(w, r, output) ==
    \/ /\ r \in active
       /\ drafts[r] = "awaiting_recognition" \/ (drafts[r] = "open" /\ output = "values")
       /\ GoTo(w, "notifying")
    \/ ~(r \in active /\ drafts[r] = "awaiting_recognition") /\ Rest(w)

\* Under the locks of conversation and draft: the receipt, the result and
\* the draft, all in one commit.
CommitFinish(w) ==
    /\ At(w, "committing")
    /\ LET r == worker[w].receipt
           output == worker[w].output
       IN  /\ receipts' = [receipts EXCEPT ![r] = Finished(@, output)]
           /\ results' = IF output = "values"
                         THEN [results EXCEPT ![r] = @ \cup {worker[w].attempt}] ELSE results
           /\ drafts' = IF drafts[r] = "awaiting_recognition"
                        THEN [drafts EXCEPT ![r] = "open"] ELSE drafts
           /\ filled' = IF output = "values" /\ drafts[r] \in {"awaiting_recognition", "open"}
                        THEN [filled EXCEPT ![r] = @ + 1] ELSE filled
           /\ ThenNotify(w, r, output)
    /\ UNCHANGED <<images, active, editing, told, warned, faults>>

Notify(w) ==
    /\ At(w, "notifying")
    /\ LET r == worker[w].receipt
       IN  told' = [told EXCEPT ![r] = @ + 1] \/ UNCHANGED told    \* Telegram may refuse it
    /\ Rest(w)
    /\ UNCHANGED <<receipts, images, results, drafts, active, editing, filled, warned, faults>>

\* The process dies, or the iteration fails: a deadlock abort, a lost
\* connection.  What was not committed is rolled back; notices are lost.
Crash(w) ==
    /\ worker[w] # Idle
    /\ Fault
    /\ Rest(w)
    /\ UNCHANGED <<receipts, images, results, drafts, active, editing, filled, told, warned>>

-----------------------------------------------------------------------------
(* Delay notices, before each claim and while a recognizer runs *)

Unnoticed == {r \in Receipt : Unfinished(r) /\ ~receipts[r].noticed /\ ~Locked(r)}

\* Mutant of Marked: the sweep forgets to mark what it claims.
Unmarked(overdue) == receipts

Marked(overdue) ==
    [r \in Receipt |-> IF r \in overdue THEN [receipts[r] EXCEPT !.noticed = TRUE] ELSE receipts[r]]

\* Of receipts that are overdue the older ones are too.
ClaimNotices(w) ==
    /\ At(w, "idle") \/ At(w, "recognizing")
    /\ \E newest \in Unnoticed :
          LET overdue == {r \in Unnoticed : r <= newest}
              due == {r \in overdue : drafts[r] = "awaiting_recognition" /\ r \in active}
          IN  /\ receipts' = Marked(overdue)
              /\ worker' = [worker EXCEPT ![w].notices = due]
    /\ UNCHANGED <<images, results, drafts, active, editing, filled, told, warned, faults>>

SendNotices(w) ==
    /\ worker[w].notices # {}
    /\ warned' = [r \in Receipt |-> IF r \in worker[w].notices THEN warned[r] + 1 ELSE warned[r]]
    /\ worker' = [worker EXCEPT ![w].notices = {}]
    /\ UNCHANGED <<receipts, images, results, drafts, active, editing, filled, told, faults>>

-----------------------------------------------------------------------------
(* The user, the retention job, account deletion *)

\* "Enter manually".
ContinueManually(r) ==
    /\ LoopIsFree
    /\ drafts[r] = "awaiting_recognition" /\ r \in active
    /\ drafts' = [drafts EXCEPT ![r] = "open"]
    /\ UNCHANGED <<receipts, images, results, active, worker, editing, filled, told,
                   warned, faults>>

\* Confirmed or cancelled, or expired by the job, which is no part of the loop.
CloseDraft(r) ==
    /\ drafts[r] \in OpenState
    /\ drafts' = [drafts EXCEPT ![r] = "closed"]
    /\ active' = active \ {r}
    /\ UNCHANGED <<receipts, images, results, worker, editing, filled, told, warned, faults>>

\* The user unlinks, and the conversation with the active draft is gone.
Unlink(r) ==
    /\ LoopIsFree
    /\ r \in active
    /\ active' = active \ {r}
    /\ UNCHANGED <<receipts, images, results, drafts, worker, editing, filled, told,
                   warned, faults>>

\* An edit, or a draft marked ready for review: the row is read ...
ReadDraft(r) ==
    /\ LoopIsFree
    /\ drafts[r] \in OpenState
    /\ edit' = [stage |-> "read", receipt |-> r, draft |-> drafts[r]]
    /\ UNCHANGED <<receipts, images, results, drafts, active, worker, rewritten, filled, told,
                   warned, faults>>

\* ... and every column written, the state with the others.
WriteDraft ==
    /\ ~LoopIsFree
    /\ LET r == edit.receipt
       IN  /\ drafts' = [drafts EXCEPT ![r] = edit.draft]
           /\ rewritten' = IF edit.draft = "awaiting_recognition" /\ drafts[r] # edit.draft
                           THEN rewritten \cup {r} ELSE rewritten
    /\ edit' = NoEdit
    /\ UNCHANGED <<receipts, images, results, active, worker, filled, told, warned, faults>>

\* RECEIPT_DATA_RETENTION passes; no request takes that long.
GrowOld(r) ==
    /\ LoopIsFree
    /\ drafts[r] = "closed"
    /\ drafts' = [drafts EXCEPT ![r] = "long_closed"]
    /\ UNCHANGED <<receipts, images, results, active, worker, editing, filled, told,
                   warned, faults>>

\* Mutants of Removable: a receipt in process too; drafts that are not closed.
RemovableInProcess(r) ==
    Present(r) /\ ~receipts[r].removed /\ ~Locked(r) /\ drafts[r] = "long_closed"
RemovableOpen(r) ==
    Present(r) /\ ~receipts[r].removed /\ ~Locked(r) /\ receipts[r].state # "processing"

Removable(r) ==
    /\ Present(r) /\ ~receipts[r].removed /\ ~Locked(r)
    /\ receipts[r].state # "processing"
    /\ drafts[r] = "long_closed"

DeleteReceiptData(r) ==
    /\ Removable(r)
    /\ receipts' = [receipts EXCEPT ![r].removed = TRUE]
    /\ images' = images \ {r}
    /\ results' = [results EXCEPT ![r] = {}]
    /\ UNCHANGED <<drafts, active, worker, editing, filled, told, warned, faults>>

DeleteAccount(r) ==
    /\ LoopIsFree
    /\ Present(r) /\ ~Locked(r)
    /\ receipts' = [receipts EXCEPT ![r] = Deleted]
    /\ images' = images \ {r}
    /\ results' = [results EXCEPT ![r] = {}]
    /\ drafts' = [drafts EXCEPT ![r] = "deleted"]
    /\ active' = active \ {r}
    /\ UNCHANGED <<worker, editing, filled, told, warned, faults>>

-----------------------------------------------------------------------------
Step(w) ==
    \/ ClaimNext(w) \/ LookUpImage(w) \/ Download(w) \/ KeepImage(w) \/ Recognize(w)
    \/ SaveFinished(w) \/ CommitFinish(w) \/ Notify(w) \/ SendNotices(w)

Next ==
    \/ \E w \in Worker : Step(w) \/ ClaimNotices(w) \/ Crash(w)
    \/ WriteDraft
    \/ \E r \in Receipt :
          \/ Receive(r) \/ LeaseExpires(r)
          \/ ContinueManually(r) \/ CloseDraft(r) \/ Unlink(r) \/ GrowOld(r) \/ ReadDraft(r)
          \/ DeleteReceiptData(r) \/ DeleteAccount(r)

Spec == Init /\ [][Next]_vars

\* Every worker is restarted and goes on with its loop, and time passes.
FairSpec ==
    /\ Spec
    /\ \A w \in Worker : WF_vars(Step(w))
    /\ \A r \in Receipt : WF_vars(LeaseExpires(r))

-----------------------------------------------------------------------------
(* Properties *)

\* A draft that waits is being worked on: its receipt is in the queue
\* and its image has not been removed, so some attempt will end the waiting.
\* Only a request that read the draft while it waited, and wrote it when the
\* waiting was over, makes it wait without that.
WaitingIsWorkedOn ==
    \A r \in Receipt :
        drafts[r] = "awaiting_recognition" => Unfinished(r) \/ r \in rewritten

\* A stored result belongs to the attempt that finished the receipt: an
\* attempt that was taken over leaves nothing behind.
ResultsAreCurrent ==
    \A r \in Receipt : results[r] # {} =>
        receipts[r].state = "recognized" /\ results[r] = {receipts[r].attempt}

\* Once the data of a receipt was removed nobody stores a result of it again.
RemovedHasNoResults ==
    \A r \in Receipt : Present(r) /\ receipts[r].removed => results[r] = {}

\* Nothing of a deleted account comes back through a worker that had claimed
\* its receipt before (docs/account_deletion_design.md, A1).
DeletedLeavesNothing ==
    \A r \in Receipt : receipts[r] = Deleted => r \notin images /\ results[r] = {}

\* However late a worker comes back, what is stored is of the attempt that
\* finished the receipt, and nothing of a removed receipt or a deleted account.
NothingStaleStored == ResultsAreCurrent /\ RemovedHasNoResults /\ DeletedLeavesNothing

\* The "taking longer" message is sent at most once (claim_delay_notices).
WarnedOnce == \A r \in Receipt : warned[r] <= 1

\* The queue implements the contract: settled once, applied once, told once.
Outcome(r) ==
    CASE receipts[r] = NotYet -> "none"
      [] receipts[r] = Deleted -> "gone"
      [] Unfinished(r) \/ receipts[r].state = "processing" -> "pending"
      [] receipts[r].state = "queued" /\ receipts[r].removed -> "gone"
      [] OTHER -> receipts[r].state

Contract == INSTANCE ReceiptContract WITH
    outcome <- [r \in Receipt |-> Outcome(r)]

ImplementsContract == Contract!Spec

\* Every receipt is settled, or its data is removed first, however often a
\* worker crashed over it.
ReceiptsSettle == \A r \in Receipt : Unfinished(r) ~> ~Unfinished(r)

-----------------------------------------------------------------------------
(* What the documents say and the code does not keep *)

\* delete_receipt_data: the receipt records that the image was removed and
\* forgets the file id, so no worker can fetch the image again.
RemovedStaysRemoved ==
    \A r \in Receipt : Present(r) /\ receipts[r].removed => r \notin images
=============================================================================
