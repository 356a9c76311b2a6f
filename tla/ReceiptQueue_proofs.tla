------------------------- MODULE ReceiptQueue_proofs -------------------------
(* Proofs about ReceiptQueue: for every number of workers, receipts and      *)
(* faults, and that it implements ReceiptContract.                           *)
EXTENDS ReceiptQueue, TLAPS

Committing(w) == worker[w].stage = "committing"
Telling(w) == worker[w].stage = "notifying"

\* The receipt is not there yet, or its outcome is still open.
Unsettled(r) == receipts[r].state = "not_yet" \/ Unfinished(r)

Noticed(r) == receipts[r].state # "not_yet" /\ (Present(r) => receipts[r].noticed)

\* The inductive invariant.  Whoever holds the row to finish it holds the
\* current attempt, alone; nothing was applied or told before; a removed
\* receipt is not in process; a notice was claimed by one worker, is marked
\* and is sent after that.
CommittersAreCurrent == \A w \in Worker : Committing(w) => IsCurrent(worker[w].receipt, worker[w].attempt)

OneCommits ==
    \A v, w \in Worker : Committing(v) /\ Committing(w) /\ worker[v].receipt = worker[w].receipt => v = w

RemovedIsIdle == \A r \in Receipt : Present(r) /\ receipts[r].removed => receipts[r].state # "processing"

UnsettledIsClean == \A r \in Receipt : Unsettled(r) => filled[r] = 0 /\ told[r] = 0

TellersAreFirst ==
    \A w \in Worker : Telling(w) => ~Unsettled(worker[w].receipt) /\ told[worker[w].receipt] = 0

OneTells ==
    \A v, w \in Worker : Telling(v) /\ Telling(w) /\ worker[v].receipt = worker[w].receipt => v = w

NoticesAreMarked == \A w \in Worker, r \in Receipt : r \in worker[w].notices => Noticed(r) /\ warned[r] = 0

OneWarns == \A v, w \in Worker, r \in Receipt : r \in worker[v].notices /\ r \in worker[w].notices => v = w

WarnedIsMarked == \A r \in Receipt : warned[r] \in {0, 1} /\ (warned[r] # 0 => Noticed(r))

Inv ==
    /\ TypeOK
    /\ CommittersAreCurrent
    /\ OneCommits
    /\ RemovedIsIdle
    /\ UnsettledIsClean
    /\ TellersAreFirst
    /\ OneTells
    /\ NoticesAreMarked
    /\ OneWarns
    /\ WarnedIsMarked
    /\ ResultsAreCurrent
    /\ RemovedHasNoResults
    /\ DeletedLeavesNothing
    /\ WaitingIsWorkedOn

-----------------------------------------------------------------------------
(* Types *)

LEMMA RowOf ==
    ASSUME TypeOK, NEW r \in Receipt
    PROVE  /\ Present(r) => receipts[r] \in ReceiptRow
           /\ receipts[r].state \in ReceiptState => receipts[r] \in ReceiptRow
           /\ receipts[r].state = "not_yet" <=> receipts[r] = NotYet
           /\ receipts[r].state = "deleted" <=> receipts[r] = Deleted
           /\ receipts[r].state \in ReceiptState \cup {"not_yet", "deleted"}
BY DEF TypeOK, Present, ReceiptRow, ReceiptState, NotYet, Deleted

LEMMA WorkerOf ==
    ASSUME TypeOK, NEW w \in Worker
    PROVE  /\ worker[w].stage # "idle" => worker[w] \in Attempting
           /\ worker[w].stage = "idle" => worker[w] \in [stage : {"idle"}, notices : SUBSET Receipt]
           /\ worker[w].notices \subseteq Receipt
BY DEF TypeOK, Attempting

LEMMA GoToType ==
    ASSUME TypeOK, NEW w \in Worker, worker[w].stage # "idle", NEW stage,
           stage \in {"claimed", "downloading", "downloaded", "recognizing",
                      "finishing", "committing", "notifying"},
           GoTo(w, stage)
    PROVE  worker' \in [Worker -> Attempting \cup [stage : {"idle"}, notices : SUBSET Receipt]]
BY WorkerOf DEF GoTo, TypeOK, Attempting

LEMMA RestType ==
    ASSUME TypeOK, NEW w \in Worker, Rest(w)
    PROVE  worker' \in [Worker -> Attempting \cup [stage : {"idle"}, notices : SUBSET Receipt]]
BY DEF Rest, TypeOK, Idle

LEMMA TypeInit == Init => TypeOK
BY ReceiptsAssumption, MaxFaultsAssumption
DEF Init, TypeOK, Idle, NotYet, DraftState, NoEdit

LEMMA TypeStep == TypeOK /\ CommittersAreCurrent /\ [Next]_vars => TypeOK'
<1> SUFFICES ASSUME TypeOK, CommittersAreCurrent, [Next]_vars PROVE TypeOK'
  OBVIOUS
<1>1. ASSUME NEW w \in Worker, ClaimNext(w) PROVE TypeOK'
  <2>1. PICK r \in Receipt :
           /\ IsClaimable(r)
           /\ receipts' = [receipts EXCEPT ![r].state = "processing", ![r].attempt = @ + 1,
                                           ![r].lapsed = FALSE]
           /\ worker' = [worker EXCEPT ![w] = [stage |-> "claimed", receipt |-> r, notices |-> {},
                                               attempt |-> receipts[r].attempt + 1,
                                               output |-> "none"]]
    BY <1>1 DEF ClaimNext
  <2>2. receipts[r] \in ReceiptRow
    BY <2>1, RowOf DEF IsClaimable, Unfinished, ReceiptState
  <2>3. receipts' \in [Receipt -> ReceiptRow \cup {NotYet, Deleted}]
    BY <2>1, <2>2 DEF TypeOK, ReceiptRow, ReceiptState
  <2>4. worker' \in [Worker -> Attempting \cup [stage : {"idle"}, notices : SUBSET Receipt]]
    BY <2>1, <2>2 DEF TypeOK, ReceiptRow, Attempting
  <2> QED
    BY <1>1, <2>3, <2>4 DEF ClaimNext, TypeOK, editing
<1>2. ASSUME NEW w \in Worker, LookUpImage(w) PROVE TypeOK'
  BY <1>2, GoToType DEF LookUpImage, At, TypeOK, editing
<1>3. ASSUME NEW w \in Worker, Download(w) PROVE TypeOK'
  BY <1>3, GoToType DEF Download, At, TypeOK, editing
<1>4. ASSUME NEW w \in Worker, KeepImage(w) PROVE TypeOK'
  <2>1. worker[w].receipt \in Receipt
    BY <1>4, WorkerOf DEF KeepImage, At, Attempting
  <2> QED
    BY <1>4, <2>1, GoToType, RestType DEF KeepImage, At, TypeOK, editing
<1>5. ASSUME NEW w \in Worker, Recognize(w) PROVE TypeOK'
  <2>1. worker' \in [Worker -> Attempting \cup [stage : {"idle"}, notices : SUBSET Receipt]]
    <3>1. PICK output \in {"none", "values"} :
             worker' = [worker EXCEPT ![w].stage = "finishing", ![w].output = output]
      BY <1>5 DEF Recognize
    <3>2. worker[w] \in Attempting
      BY <1>5, WorkerOf DEF Recognize, At
    <3>3. [worker[w] EXCEPT !.stage = "finishing", !.output = output] \in Attempting
      BY <3>2 DEF Attempting
    <3>4. worker' = [worker EXCEPT ![w] = [worker[w] EXCEPT !.stage = "finishing", !.output = output]]
      BY <3>1 DEF TypeOK
    <3> QED
      BY <3>3, <3>4 DEF TypeOK
  <2> QED
    BY <1>5, <2>1 DEF Recognize, TypeOK, editing
<1>6. ASSUME NEW w \in Worker, SaveFinished(w) PROVE TypeOK'
  BY <1>6, GoToType, RestType DEF SaveFinished, At, TypeOK, editing
<1>7. ASSUME NEW w \in Worker, CommitFinish(w) PROVE TypeOK'
  <2> DEFINE r == worker[w].receipt
             output == worker[w].output
  <2>1. r \in Receipt /\ worker[w].attempt \in Nat /\ output \in {"none", "values"}
    BY <1>7, WorkerOf DEF CommitFinish, At, Attempting
  <2>2. IsCurrent(r, worker[w].attempt)
    BY <1>7 DEF CommitFinish, At, CommittersAreCurrent, Committing
  <2>3. receipts[r] \in ReceiptRow
    BY <2>1, <2>2, RowOf DEF IsCurrent, ReceiptState
  <2>4. receipts' \in [Receipt -> ReceiptRow \cup {NotYet, Deleted}]
    <3>1. Finished(receipts[r], output) \in ReceiptRow
      BY <2>1, <2>3 DEF Finished, ReceiptRow, ReceiptState
    <3>2. receipts' = [receipts EXCEPT ![r] = Finished(receipts[r], output)]
      BY <1>7 DEF CommitFinish
    <3> QED
      BY <2>1, <3>1, <3>2 DEF TypeOK
  <2>5. worker' \in [Worker -> Attempting \cup [stage : {"idle"}, notices : SUBSET Receipt]]
    BY <1>7, GoToType, RestType DEF CommitFinish, ThenNotify, At
  <2>6. results' \in [Receipt -> SUBSET Nat]
    BY <1>7, <2>1 DEF CommitFinish, TypeOK
  <2>7. drafts' \in [Receipt -> DraftState] /\ filled' \in [Receipt -> Nat]
    BY <1>7, <2>1 DEF CommitFinish, TypeOK, DraftState
  <2> QED
    BY <1>7, <2>4, <2>5, <2>6, <2>7 DEF CommitFinish, TypeOK, editing
<1>8. ASSUME NEW w \in Worker, Notify(w) PROVE TypeOK'
  <2>1. worker[w].receipt \in Receipt
    BY <1>8, WorkerOf DEF Notify, At, Attempting
  <2> QED
    BY <1>8, <2>1, RestType DEF Notify, TypeOK, editing
<1>9. ASSUME NEW w \in Worker, SendNotices(w) PROVE TypeOK'
  <2>1. worker' \in [Worker -> Attempting \cup [stage : {"idle"}, notices : SUBSET Receipt]]
    BY <1>9 DEF SendNotices, TypeOK, Attempting
  <2> QED
    BY <1>9, <2>1 DEF SendNotices, TypeOK, editing
<1>10. ASSUME NEW w \in Worker, ClaimNotices(w) PROVE TypeOK'
  <2>1. PICK newest \in Unnoticed :
           /\ receipts' = Marked({r \in Unnoticed : r <= newest})
           /\ worker' = [worker EXCEPT ![w].notices =
                            {r \in {x \in Unnoticed : x <= newest} :
                                drafts[r] = "awaiting_recognition" /\ r \in active}]
    BY <1>10 DEF ClaimNotices
  <2>2. receipts' \in [Receipt -> ReceiptRow \cup {NotYet, Deleted}]
    <3>1. \A r \in Unnoticed : r \in Receipt /\ receipts[r] \in ReceiptRow
      BY RowOf DEF Unnoticed, Unfinished, ReceiptState
    <3> QED
      BY <2>1, <3>1 DEF Marked, TypeOK, ReceiptRow
  <2>3. worker' \in [Worker -> Attempting \cup [stage : {"idle"}, notices : SUBSET Receipt]]
    BY <2>1 DEF TypeOK, Attempting, Unnoticed
  <2> QED
    BY <1>10, <2>2, <2>3 DEF ClaimNotices, TypeOK, editing
<1>11. ASSUME NEW w \in Worker, Crash(w) PROVE TypeOK'
  BY <1>11, RestType, MaxFaultsAssumption DEF Crash, Fault, TypeOK, editing
<1>12. ASSUME NEW r \in Receipt, Receive(r) PROVE TypeOK'
  BY <1>12 DEF Receive, TypeOK, ReceiptRow, ReceiptState, DraftState, editing
<1>13. ASSUME NEW r \in Receipt, LeaseExpires(r) PROVE TypeOK'
  <2>1. receipts[r] \in ReceiptRow
    BY <1>13, RowOf DEF LeaseExpires, ReceiptState
  <2>2. receipts' \in [Receipt -> ReceiptRow \cup {NotYet, Deleted}]
    BY <1>13, <2>1 DEF LeaseExpires, TypeOK, ReceiptRow
  <2>3. faults' \in 0 .. MaxFaults
    BY <1>13, MaxFaultsAssumption DEF LeaseExpires, Fault, TypeOK
  <2> QED
    BY <1>13, <2>2, <2>3 DEF LeaseExpires, TypeOK, editing
<1>14. ASSUME NEW r \in Receipt,
              ContinueManually(r) \/ CloseDraft(r) \/ Unlink(r) \/ GrowOld(r)
       PROVE  TypeOK'
  BY <1>14 DEF ContinueManually, CloseDraft, Unlink, GrowOld, TypeOK, DraftState, editing
<1>15. ASSUME NEW r \in Receipt, DeleteReceiptData(r) PROVE TypeOK'
  <2>1. receipts[r] \in ReceiptRow
    BY <1>15, RowOf DEF DeleteReceiptData, Removable
  <2> QED
    BY <1>15, <2>1 DEF DeleteReceiptData, TypeOK, ReceiptRow, editing
<1>16. ASSUME NEW r \in Receipt, DeleteAccount(r) PROVE TypeOK'
  BY <1>16 DEF DeleteAccount, TypeOK, DraftState, editing
<1>17. ASSUME NEW r \in Receipt, ReadDraft(r) PROVE TypeOK'
  BY <1>17 DEF ReadDraft, Edit, TypeOK
<1>18. CASE WriteDraft
  <2>1. edit.receipt \in Receipt /\ edit.draft \in DraftState
    BY <1>18 DEF WriteDraft, LoopIsFree, TypeOK, Edit, OpenState, DraftState
  <2> QED
    BY <1>18, <2>1 DEF WriteDraft, TypeOK
<1>19. CASE UNCHANGED vars
  BY <1>19 DEF vars, editing, TypeOK
<1> QED
  BY <1>1, <1>2, <1>3, <1>4, <1>5, <1>6, <1>7, <1>8, <1>9, <1>10, <1>11, <1>12, <1>13, <1>14,
     <1>15, <1>16, <1>17, <1>18, <1>19 DEF Next, Step

-----------------------------------------------------------------------------
(* Steps that take something back, or nothing *)

RowsSteady ==
    \A r \in Receipt :
        /\ receipts'[r].state = receipts[r].state
        /\ Present(r) => /\ receipts'[r].attempt = receipts[r].attempt
                         /\ receipts'[r].removed = receipts[r].removed
                         /\ receipts'[r].noticed = receipts[r].noticed

WorkersShrink ==
    \A w \in Worker :
        /\ Committing(w)' => /\ Committing(w)
                             /\ worker'[w].receipt = worker[w].receipt
                             /\ worker'[w].attempt = worker[w].attempt
        /\ Telling(w)' => Telling(w) /\ worker'[w].receipt = worker[w].receipt
        /\ worker'[w].notices \subseteq worker[w].notices

\* What the invariant asks of a worker's receipt is asked of a receipt.
LEMMA Holders ==
    ASSUME TypeOK, NEW w \in Worker
    PROVE  Committing(w) \/ Telling(w) => worker[w].receipt \in Receipt /\ worker[w].attempt \in Nat
BY WorkerOf DEF Committing, Telling, Attempting

LEMMA SteadyRows ==
    ASSUME RowsSteady, NEW r \in Receipt
    PROVE  /\ Present(r)' <=> Present(r)
           /\ Unfinished(r)' <=> Unfinished(r)
           /\ Unsettled(r)' <=> Unsettled(r)
           /\ Noticed(r)' <=> Noticed(r)
           /\ \A attempt : IsCurrent(r, attempt)' <=> IsCurrent(r, attempt)
<1>1. /\ receipts'[r].state = receipts[r].state
      /\ Present(r) => /\ receipts'[r].attempt = receipts[r].attempt
                       /\ receipts'[r].removed = receipts[r].removed
                       /\ receipts'[r].noticed = receipts[r].noticed
  BY DEF RowsSteady
<1>2. Present(r)' <=> Present(r)
  BY <1>1 DEF Present
<1>3. Unfinished(r)' <=> Unfinished(r)
  BY <1>1 DEF Present, Unfinished, ReceiptState
<1>4. Unsettled(r)' <=> Unsettled(r)
  BY <1>1, <1>3 DEF Unsettled
<1>5. Noticed(r)' <=> Noticed(r)
  BY <1>1, <1>2 DEF Noticed
<1>6. \A attempt : IsCurrent(r, attempt)' <=> IsCurrent(r, attempt)
  BY <1>1 DEF IsCurrent, Present, ReceiptState
<1> QED
  BY <1>2, <1>3, <1>4, <1>5, <1>6

LEMMA QuietKeeps ==
    ASSUME Inv, TypeOK', WorkersShrink, RowsSteady, UNCHANGED <<results, filled, told, warned>>,
           rewritten \subseteq rewritten',
           \A r \in Receipt : drafts'[r] = "awaiting_recognition" =>
                                 drafts[r] = "awaiting_recognition" \/ r \in rewritten',
           \A r \in images' : r \in images \/ Present(r)
    PROVE  Inv'
<1>1. CommittersAreCurrent' /\ OneCommits'
  BY Holders, SteadyRows DEF Inv, CommittersAreCurrent, OneCommits, WorkersShrink
<1>2. TellersAreFirst' /\ OneTells'
  BY Holders, SteadyRows DEF Inv, TellersAreFirst, OneTells, WorkersShrink
<1>3. UnsettledIsClean' /\ WarnedIsMarked'
  BY SteadyRows DEF Inv, UnsettledIsClean, WarnedIsMarked
<1>4. NoticesAreMarked' /\ OneWarns'
  BY SteadyRows DEF Inv, NoticesAreMarked, OneWarns, WorkersShrink
<1>5. RemovedIsIdle' /\ RemovedHasNoResults'
  BY SteadyRows DEF Inv, RemovedIsIdle, RemovedHasNoResults, RowsSteady
<1>6. ResultsAreCurrent'
  BY DEF Inv, ResultsAreCurrent, RowsSteady, Present, ReceiptState
<1>7. DeletedLeavesNothing'
  <2> SUFFICES ASSUME NEW r \in Receipt, receipts'[r] = Deleted PROVE r \notin images' /\ results'[r] = {}
    BY DEF DeletedLeavesNothing
  <2>1. receipts[r] = Deleted
    BY RowOf DEF Inv, RowsSteady, Deleted
  <2> QED
    BY <2>1 DEF Inv, DeletedLeavesNothing, Present, Deleted, ReceiptState
<1>8. WaitingIsWorkedOn'
  BY SteadyRows DEF Inv, WaitingIsWorkedOn
<1> QED
  BY <1>1, <1>2, <1>3, <1>4, <1>5, <1>6, <1>7, <1>8 DEF Inv

\* A worker that moves on to a stage in which it holds nothing.
LEMMA MovesOn ==
    ASSUME TypeOK, NEW w \in Worker, worker[w].stage # "idle", NEW stage,
           stage \notin {"committing", "notifying"}, GoTo(w, stage)
    PROVE  WorkersShrink
<1>1. worker' = [worker EXCEPT ![w] = [worker[w] EXCEPT !.stage = stage]]
  BY DEF GoTo, TypeOK
<1>2. worker[w] \in Attempting
  BY WorkerOf
<1>3. worker'[w].stage = stage /\ worker'[w].notices = worker[w].notices
  BY <1>1, <1>2 DEF TypeOK, Attempting
<1>4. \A v \in Worker : v # w => worker'[v] = worker[v]
  BY <1>1 DEF TypeOK
<1> QED
  BY <1>3, <1>4 DEF WorkersShrink, Committing, Telling

LEMMA Rests ==
    ASSUME TypeOK, NEW w \in Worker, Rest(w)
    PROVE  WorkersShrink /\ worker'[w] = Idle
BY DEF Rest, TypeOK, Idle, WorkersShrink, Committing, Telling

LEMMA SameRows == receipts' = receipts => RowsSteady
BY DEF RowsSteady

LEMMA SameWorkers == worker' = worker => WorkersShrink
BY DEF WorkersShrink, Committing, Telling

LEMMA QuietSteps ==
    ASSUME Inv, TypeOK',
           \/ UNCHANGED vars
           \/ \E w \in Worker : \/ LookUpImage(w) \/ Download(w) \/ KeepImage(w) \/ Recognize(w) \/ Crash(w)
           \/ \E r \in Receipt : \/ LeaseExpires(r) \/ ContinueManually(r) \/ CloseDraft(r)
                                 \/ Unlink(r) \/ GrowOld(r) \/ ReadDraft(r)
           \/ WriteDraft
    PROVE  Inv'
<1>1. TypeOK
  BY DEF Inv
<1>2. CASE UNCHANGED vars
  BY <1>2, QuietKeeps, SameRows, SameWorkers DEF vars, editing
<1>3. ASSUME NEW w \in Worker, LookUpImage(w) \/ Download(w) PROVE Inv'
  <2>1. worker[w].stage # "idle"
    BY <1>3 DEF LookUpImage, Download, At
  <2>2. WorkersShrink
    BY <1>1, <1>3, <2>1, MovesOn DEF LookUpImage, Download
  <2> QED
    BY <1>3, <2>2, QuietKeeps, SameRows DEF LookUpImage, Download, editing
<1>4. ASSUME NEW w \in Worker, KeepImage(w) PROVE Inv'
  <2>1. worker[w].stage # "idle"
    BY <1>4 DEF KeepImage, At
  <2>2. WorkersShrink
    BY <1>1, <1>4, <2>1, MovesOn, Rests DEF KeepImage
  <2>3. \A r \in images' : r \in images \/ Present(r)
    BY <1>4 DEF KeepImage
  <2> QED
    BY <1>4, <2>2, <2>3, QuietKeeps, SameRows DEF KeepImage, editing
<1>5. ASSUME NEW w \in Worker, Recognize(w) PROVE Inv'
  <2>1. PICK output \in {"none", "values"} :
           worker' = [worker EXCEPT ![w].stage = "finishing", ![w].output = output]
    BY <1>5 DEF Recognize
  <2>2. worker[w] \in Attempting
    BY <1>1, <1>5, WorkerOf DEF Recognize, At
  <2>3. worker' = [worker EXCEPT ![w] = [worker[w] EXCEPT !.stage = "finishing", !.output = output]]
    BY <1>1, <2>1 DEF TypeOK
  <2>4. worker'[w].stage = "finishing" /\ worker'[w].notices = worker[w].notices
    BY <1>1, <2>2, <2>3 DEF TypeOK, Attempting
  <2>5. \A v \in Worker : v # w => worker'[v] = worker[v]
    BY <1>1, <2>3 DEF TypeOK
  <2>6. WorkersShrink
    BY <2>4, <2>5 DEF WorkersShrink, Committing, Telling
  <2> QED
    BY <1>5, <2>6, QuietKeeps, SameRows DEF Recognize, editing
<1>6. ASSUME NEW w \in Worker, Crash(w) PROVE Inv'
  BY <1>1, <1>6, Rests, QuietKeeps, SameRows DEF Crash, editing
<1>7. ASSUME NEW r \in Receipt, LeaseExpires(r) PROVE Inv'
  <2>1. receipts[r] \in ReceiptRow
    BY <1>1, <1>7, RowOf DEF LeaseExpires, ReceiptState
  <2>2. RowsSteady
    BY <1>1, <1>7, <2>1 DEF LeaseExpires, RowsSteady, TypeOK, ReceiptRow
  <2> QED
    BY <1>7, <2>2, QuietKeeps, SameWorkers DEF LeaseExpires, editing
<1>8. ASSUME NEW r \in Receipt,
             ContinueManually(r) \/ CloseDraft(r) \/ Unlink(r) \/ GrowOld(r)
      PROVE  Inv'
  <2>1. \A q \in Receipt : drafts'[q] = "awaiting_recognition" => drafts[q] = "awaiting_recognition"
    BY <1>1, <1>8 DEF ContinueManually, CloseDraft, Unlink, GrowOld, TypeOK
  <2> QED
    BY <1>8, <2>1, QuietKeeps, SameRows, SameWorkers DEF ContinueManually, CloseDraft, Unlink, GrowOld, editing
<1>9. ASSUME NEW r \in Receipt, ReadDraft(r) PROVE Inv'
  BY <1>9, QuietKeeps, SameRows, SameWorkers DEF ReadDraft
<1>10. CASE WriteDraft
  <2>1. \A q \in Receipt : drafts'[q] = "awaiting_recognition" =>
                              drafts[q] = "awaiting_recognition" \/ q \in rewritten'
    <3>1. PICK r \in Receipt :
             /\ drafts' = [drafts EXCEPT ![r] = edit.draft]
             /\ rewritten' = IF edit.draft = "awaiting_recognition" /\ drafts[r] # edit.draft
                             THEN rewritten \cup {r} ELSE rewritten
      BY <1>1, <1>10 DEF WriteDraft, LoopIsFree, TypeOK, Edit
    <3> QED
      BY <1>1, <3>1 DEF TypeOK
  <2>2. rewritten \subseteq rewritten'
    BY <1>10 DEF WriteDraft
  <2> QED
    BY <1>10, <2>1, <2>2, QuietKeeps, SameRows, SameWorkers DEF WriteDraft
<1> QED
  BY <1>2, <1>3, <1>4, <1>5, <1>6, <1>7, <1>8, <1>9, <1>10

-----------------------------------------------------------------------------
(* The other steps, conjunct by conjunct *)

LEMMA ReceiveKeeps ==
    ASSUME Inv, TypeOK', NEW r \in Receipt, Receive(r)
    PROVE  Inv'
<1>1. TypeOK
  BY DEF Inv
<1>2. receipts[r].state = "not_yet"
  BY DEF Receive, NotYet
<1>3. /\ receipts'[r].state = "queued" /\ receipts'[r].removed = FALSE
      /\ receipts'[r].noticed = FALSE
      /\ \A q \in Receipt : q # r => receipts'[q] = receipts[q] /\ drafts'[q] = drafts[q]
  BY <1>1 DEF Receive, TypeOK
<1>4. filled[r] = 0 /\ told[r] = 0 /\ warned[r] = 0
  <2>1. filled[r] = 0 /\ told[r] = 0
    BY <1>2 DEF Inv, UnsettledIsClean, Unsettled
  <2>2. ~Noticed(r)
    BY <1>2 DEF Noticed
  <2> QED
    BY <2>1, <2>2 DEF Inv, WarnedIsMarked
<1>5. results[r] = {}
  BY <1>2 DEF Inv, ResultsAreCurrent
<1>6. \A q \in Receipt : q # r => /\ Unfinished(q)' <=> Unfinished(q)
                                  /\ Unsettled(q)' <=> Unsettled(q)
                                  /\ Noticed(q)' <=> Noticed(q)
                                  /\ Present(q)' <=> Present(q)
                                  /\ \A attempt : IsCurrent(q, attempt)' <=> IsCurrent(q, attempt)
  BY <1>3 DEF Unfinished, Unsettled, Noticed, Present, IsCurrent
<1>7. CommittersAreCurrent' /\ OneCommits'
  <2>1. \A w \in Worker : Committing(w) => worker[w].receipt # r
    BY <1>2 DEF Inv, CommittersAreCurrent, IsCurrent
  <2> QED
    BY <1>1, <1>6, <2>1, Holders DEF Receive, Inv, CommittersAreCurrent, OneCommits, Committing
<1>8. TellersAreFirst' /\ OneTells'
  <2>1. \A w \in Worker : Telling(w) => worker[w].receipt # r
    BY <1>2 DEF Inv, TellersAreFirst, Unsettled
  <2> QED
    BY <1>1, <1>6, <2>1, Holders DEF Receive, Inv, TellersAreFirst, OneTells, Telling
<1>9. UnsettledIsClean' /\ WarnedIsMarked'
  BY <1>4, <1>6 DEF Receive, Inv, UnsettledIsClean, WarnedIsMarked
<1>10. NoticesAreMarked' /\ OneWarns'
  <2>1. \A w \in Worker : r \notin worker[w].notices
    BY <1>2 DEF Inv, NoticesAreMarked, Noticed
  <2> QED
    BY <1>6, <2>1 DEF Receive, Inv, NoticesAreMarked, OneWarns
<1>11. RemovedIsIdle' /\ RemovedHasNoResults'
  BY <1>3, <1>6 DEF Receive, Inv, RemovedIsIdle, RemovedHasNoResults
<1>12. ResultsAreCurrent' /\ DeletedLeavesNothing'
  BY <1>3, <1>5 DEF Receive, Inv, ResultsAreCurrent, DeletedLeavesNothing, Deleted
<1>13. WaitingIsWorkedOn'
  BY <1>3, <1>6 DEF Receive, Inv, WaitingIsWorkedOn, Unfinished, editing
<1> QED
  BY <1>7, <1>8, <1>9, <1>10, <1>11, <1>12, <1>13 DEF Inv

LEMMA ClaimNextKeeps ==
    ASSUME Inv, TypeOK', NEW w \in Worker, ClaimNext(w)
    PROVE  Inv'
<1>1. TypeOK
  BY DEF Inv
<1>2. PICK r \in Receipt :
         /\ IsClaimable(r)
         /\ receipts' = [receipts EXCEPT ![r].state = "processing", ![r].attempt = @ + 1,
                                         ![r].lapsed = FALSE]
         /\ worker' = [worker EXCEPT ![w] = [stage |-> "claimed", receipt |-> r, notices |-> {},
                                             attempt |-> receipts[r].attempt + 1,
                                             output |-> "none"]]
  BY DEF ClaimNext
<1>3. receipts[r] \in ReceiptRow /\ Unfinished(r) /\ ~receipts[r].removed /\ ~Locked(r)
  BY <1>1, <1>2, RowOf DEF IsClaimable, Unfinished, ReceiptState
<1>4. /\ receipts'[r].state = "processing" /\ receipts'[r].removed = FALSE
      /\ receipts'[r].noticed = receipts[r].noticed
      /\ \A q \in Receipt : q # r => receipts'[q] = receipts[q]
  BY <1>1, <1>2, <1>3 DEF TypeOK, ReceiptRow
<1>5. \A q \in Receipt : /\ Unfinished(q)' <=> Unfinished(q)
                         /\ Unsettled(q)' <=> Unsettled(q)
                         /\ Noticed(q)' <=> Noticed(q)
                         /\ Present(q)' <=> Present(q)
  BY <1>3, <1>4 DEF Unfinished, Unsettled, Noticed, Present, ReceiptState
<1>6. WorkersShrink
  <2>1. worker'[w].stage = "claimed" /\ worker'[w].notices = {}
    BY <1>1, <1>2 DEF TypeOK
  <2>2. \A v \in Worker : v # w => worker'[v] = worker[v]
    BY <1>1, <1>2 DEF TypeOK
  <2> QED
    BY <2>1, <2>2 DEF WorkersShrink, Committing, Telling
<1>7. CommittersAreCurrent' /\ OneCommits'
  <2>1. \A v \in Worker : Committing(v) => worker[v].receipt # r
    BY <1>3 DEF Locked, Committing
  <2>2. CommittersAreCurrent'
    <3> SUFFICES ASSUME NEW v \in Worker, Committing(v)'
                 PROVE  IsCurrent(worker[v].receipt, worker[v].attempt)'
      BY DEF CommittersAreCurrent
    <3>1. /\ Committing(v) /\ worker'[v].receipt = worker[v].receipt
          /\ worker'[v].attempt = worker[v].attempt
      BY <1>6 DEF WorkersShrink
    <3>2. IsCurrent(worker[v].receipt, worker[v].attempt) /\ worker[v].receipt \in Receipt
      BY <1>1, <3>1, Holders DEF Inv, CommittersAreCurrent
    <3>3. receipts'[worker[v].receipt] = receipts[worker[v].receipt]
      BY <1>4, <2>1, <3>1, <3>2
    <3> QED
      BY <3>1, <3>2, <3>3 DEF IsCurrent
  <2>3. OneCommits'
    BY <1>6 DEF Inv, OneCommits, WorkersShrink
  <2> QED
    BY <2>2, <2>3
<1>8. TellersAreFirst' /\ OneTells'
  BY <1>1, <1>5, <1>6, Holders DEF ClaimNext, Inv, TellersAreFirst, OneTells, WorkersShrink
<1>9. UnsettledIsClean' /\ WarnedIsMarked'
  BY <1>5 DEF ClaimNext, Inv, UnsettledIsClean, WarnedIsMarked
<1>10. NoticesAreMarked' /\ OneWarns'
  BY <1>5, <1>6 DEF ClaimNext, Inv, NoticesAreMarked, OneWarns, WorkersShrink
<1>11. RemovedIsIdle' /\ RemovedHasNoResults'
  BY <1>4, <1>5 DEF ClaimNext, Inv, RemovedIsIdle, RemovedHasNoResults
<1>12. results[r] = {}
  BY <1>3 DEF Inv, ResultsAreCurrent, Unfinished
<1>13. ResultsAreCurrent' /\ DeletedLeavesNothing'
  <2>1. ResultsAreCurrent'
    BY <1>4, <1>12 DEF ClaimNext, Inv, ResultsAreCurrent
  <2>2. \A q \in Receipt : receipts'[q] = Deleted => receipts[q] = Deleted
    BY <1>4 DEF Deleted
  <2>3. DeletedLeavesNothing'
    BY <2>2 DEF ClaimNext, Inv, DeletedLeavesNothing
  <2> QED
    BY <2>1, <2>3
<1>14. WaitingIsWorkedOn'
  BY <1>5 DEF ClaimNext, Inv, WaitingIsWorkedOn, editing
<1> QED
  BY <1>7, <1>8, <1>9, <1>10, <1>11, <1>13, <1>14 DEF Inv

LEMMA SaveFinishedKeeps ==
    ASSUME Inv, TypeOK', NEW w \in Worker, SaveFinished(w)
    PROVE  Inv'
<1>1. TypeOK /\ worker[w].stage # "idle" /\ worker[w] \in Attempting
  BY WorkerOf DEF Inv, SaveFinished, At
<1>2. CASE Rest(w)
  BY <1>1, <1>2, Rests, QuietKeeps, SameRows DEF SaveFinished, editing
<1>3. CASE IsCurrent(worker[w].receipt, worker[w].attempt) /\ GoTo(w, "committing")
  <2>1. worker' = [worker EXCEPT ![w] = [worker[w] EXCEPT !.stage = "committing"]]
    BY <1>1, <1>3 DEF GoTo, TypeOK
  <2>2. /\ worker'[w].stage = "committing" /\ worker'[w].notices = worker[w].notices
        /\ worker'[w].receipt = worker[w].receipt /\ worker'[w].attempt = worker[w].attempt
    BY <1>1, <2>1 DEF TypeOK, Attempting
  <2>3. \A v \in Worker : v # w => worker'[v] = worker[v]
    BY <1>1, <2>1 DEF TypeOK
  <2>4. CommittersAreCurrent'
    BY <1>3, <2>2, <2>3 DEF SaveFinished, Inv, CommittersAreCurrent, Committing, IsCurrent
  <2>5. OneCommits'
    BY <2>2, <2>3 DEF SaveFinished, Locked, Inv, OneCommits, Committing
  <2>6. TellersAreFirst' /\ OneTells'
    BY <2>2, <2>3
       DEF SaveFinished, Inv, TellersAreFirst, OneTells, Telling, Unsettled, Unfinished
  <2>7. NoticesAreMarked' /\ OneWarns'
    <3>1. \A v \in Worker : worker'[v].notices = worker[v].notices
      BY <2>2, <2>3
    <3> QED
      BY <3>1 DEF SaveFinished, Inv, NoticesAreMarked, OneWarns, Noticed, Present
  <2>8. /\ RemovedIsIdle' /\ UnsettledIsClean' /\ WarnedIsMarked' /\ ResultsAreCurrent'
        /\ RemovedHasNoResults' /\ DeletedLeavesNothing' /\ WaitingIsWorkedOn'
    BY DEF SaveFinished, Inv, RemovedIsIdle, UnsettledIsClean, WarnedIsMarked, ResultsAreCurrent,
           RemovedHasNoResults, DeletedLeavesNothing, WaitingIsWorkedOn, Present, Unsettled,
           Unfinished, Noticed, editing
  <2> QED
    BY <2>4, <2>5, <2>6, <2>7, <2>8 DEF Inv
<1> QED
  BY <1>2, <1>3 DEF SaveFinished

\* What finishing does to the row it holds, and where the worker goes.
LEMMA CommitEffect ==
    ASSUME Inv, NEW w \in Worker, CommitFinish(w)
    PROVE  LET r == worker[w].receipt
               output == worker[w].output
           IN  /\ r \in Receipt /\ receipts[r] \in ReceiptRow /\ IsCurrent(r, worker[w].attempt)
               /\ ~receipts[r].removed /\ results[r] = {}
               /\ filled[r] = 0 /\ told[r] = 0
               /\ receipts'[r].state = IF output = "values" THEN "recognized" ELSE "recognition_failed"
               /\ receipts'[r].attempt = worker[w].attempt
               /\ receipts'[r].removed = receipts[r].removed
               /\ receipts'[r].noticed = receipts[r].noticed
               /\ \A q \in Receipt : q # r => /\ receipts'[q] = receipts[q]
                                              /\ results'[q] = results[q]
                                              /\ filled'[q] = filled[q]
                                              /\ drafts'[q] = drafts[q]
               /\ results'[r] = IF output = "values" THEN {worker[w].attempt} ELSE {}
               /\ drafts'[r] # "awaiting_recognition"
               /\ worker'[w].stage \in {"idle", "notifying"}
               /\ worker'[w].stage = "notifying" => worker'[w].receipt = r
               /\ worker'[w].notices = {}
               /\ \A v \in Worker : v # w => worker'[v] = worker[v]
<1> DEFINE r == worker[w].receipt
           output == worker[w].output
<1>1. TypeOK
  BY DEF Inv
<1>2. /\ worker[w] \in Attempting /\ worker[w].notices = {} /\ worker[w].stage = "committing"
      /\ worker[w].stage # "idle"
  BY <1>1, WorkerOf DEF CommitFinish, At
<1>3. r \in Receipt /\ IsCurrent(r, worker[w].attempt)
  BY <1>2 DEF Attempting, Inv, CommittersAreCurrent, Committing
<1>4. receipts[r] \in ReceiptRow /\ Present(r) /\ receipts[r].state = "processing"
  BY <1>1, <1>3, RowOf DEF IsCurrent, ReceiptState, Present
<1>5. ~receipts[r].removed /\ results[r] = {}
  BY <1>3, <1>4 DEF Inv, RemovedIsIdle, ResultsAreCurrent
<1>6. filled[r] = 0 /\ told[r] = 0
  BY <1>3, <1>4, <1>5 DEF Inv, UnsettledIsClean, Unsettled, Unfinished
<1>7. /\ receipts' = [receipts EXCEPT ![r] = Finished(receipts[r], output)]
      /\ results' = IF output = "values"
                    THEN [results EXCEPT ![r] = @ \cup {worker[w].attempt}] ELSE results
      /\ drafts' = IF drafts[r] = "awaiting_recognition"
                   THEN [drafts EXCEPT ![r] = "open"] ELSE drafts
      /\ filled' = IF output = "values" /\ drafts[r] \in {"awaiting_recognition", "open"}
                   THEN [filled EXCEPT ![r] = @ + 1] ELSE filled
      /\ Rest(w) \/ GoTo(w, "notifying")
  BY DEF CommitFinish, ThenNotify
<1>8. /\ receipts'[r] = Finished(receipts[r], output)
      /\ \A q \in Receipt : q # r => receipts'[q] = receipts[q]
  BY <1>1, <1>3, <1>7 DEF TypeOK
<1>9. /\ receipts'[r].state = IF output = "values" THEN "recognized" ELSE "recognition_failed"
      /\ receipts'[r].attempt = worker[w].attempt
      /\ receipts'[r].removed = receipts[r].removed
      /\ receipts'[r].noticed = receipts[r].noticed
  BY <1>3, <1>4, <1>8 DEF Finished, ReceiptRow, IsCurrent
<1>10. /\ \A q \in Receipt : q # r => /\ results'[q] = results[q] /\ filled'[q] = filled[q]
                                      /\ drafts'[q] = drafts[q]
       /\ results'[r] = IF output = "values" THEN {worker[w].attempt} ELSE {}
       /\ drafts'[r] # "awaiting_recognition"
  BY <1>1, <1>3, <1>5, <1>7 DEF TypeOK
<1>11. /\ worker'[w].stage \in {"idle", "notifying"}
       /\ worker'[w].stage = "notifying" => worker'[w].receipt = r
       /\ worker'[w].notices = {}
       /\ \A v \in Worker : v # w => worker'[v] = worker[v]
  <2>1. CASE Rest(w)
    BY <1>1, <2>1 DEF Rest, TypeOK, Idle
  <2>2. CASE GoTo(w, "notifying")
    <3>1. worker' = [worker EXCEPT ![w] = [worker[w] EXCEPT !.stage = "notifying"]]
      BY <1>1, <2>2 DEF GoTo, TypeOK
    <3> QED
      BY <1>1, <1>2, <3>1 DEF TypeOK, Attempting
  <2> QED
    BY <1>7, <2>1, <2>2
<1> QED
  BY <1>3, <1>4, <1>5, <1>6, <1>8, <1>9, <1>10, <1>11

LEMMA CommitFinishKeeps ==
    ASSUME Inv, TypeOK', NEW w \in Worker, CommitFinish(w)
    PROVE  Inv'
<1>1. TypeOK /\ worker[w].receipt \in Receipt
  BY CommitEffect DEF Inv
<1>r. PICK r \in Receipt : r = worker[w].receipt
  BY <1>1
<1>o. PICK output : output = worker[w].output
  OBVIOUS
<1>2. /\ r \in Receipt /\ receipts[r] \in ReceiptRow /\ IsCurrent(r, worker[w].attempt)
      /\ ~receipts[r].removed /\ results[r] = {}
      /\ filled[r] = 0 /\ told[r] = 0
  BY CommitEffect, <1>r, <1>o
<1>3. /\ receipts'[r].state = IF output = "values" THEN "recognized" ELSE "recognition_failed"
      /\ receipts'[r].attempt = worker[w].attempt
      /\ receipts'[r].removed = receipts[r].removed
      /\ receipts'[r].noticed = receipts[r].noticed
      /\ results'[r] = IF output = "values" THEN {worker[w].attempt} ELSE {}
      /\ drafts'[r] # "awaiting_recognition"
  BY CommitEffect, <1>r, <1>o
<1>4. \A q \in Receipt : q # r => /\ receipts'[q] = receipts[q]
                                  /\ results'[q] = results[q]
                                  /\ filled'[q] = filled[q]
                                  /\ drafts'[q] = drafts[q]
  BY CommitEffect, <1>r, <1>o
<1>5. /\ worker'[w].stage \in {"idle", "notifying"}
      /\ worker'[w].stage = "notifying" => worker'[w].receipt = r
      /\ worker'[w].notices = {}
      /\ \A v \in Worker : v # w => worker'[v] = worker[v]
  BY CommitEffect, <1>r, <1>o
<1>6. UNCHANGED <<images, told, warned>>
  BY DEF CommitFinish
<1>7. Committing(w)
  BY DEF CommitFinish, At, Committing
<1>8. ~Unsettled(r)' /\ ~Unfinished(r)' /\ Present(r)' /\ Present(r)
  BY <1>2, <1>3 DEF Unsettled, Unfinished, Present, IsCurrent, ReceiptState
<1>9. \A q \in Receipt : q # r => /\ Unfinished(q)' <=> Unfinished(q)
                                  /\ Unsettled(q)' <=> Unsettled(q)
                                  /\ Present(q)' <=> Present(q)
  BY <1>4 DEF Unfinished, Unsettled, Present
<1>10. \A q \in Receipt : Noticed(q)' <=> Noticed(q)
  BY <1>3, <1>4, <1>8, <1>9 DEF Noticed, Present, ReceiptState
<1>11. CommittersAreCurrent' /\ OneCommits'
  <2>1. \A v \in Worker : Committing(v)' => /\ v # w /\ Committing(v) /\ worker'[v] = worker[v]
                                            /\ worker[v].receipt # r
    BY <1>r, <1>5, <1>7 DEF Inv, OneCommits, Committing
  <2>2. \A v \in Worker : Committing(v)' => receipts'[worker'[v].receipt] = receipts[worker[v].receipt]
    BY <1>1, <1>4, <2>1, Holders
  <2> QED
    BY <2>1, <2>2 DEF Inv, CommittersAreCurrent, OneCommits, IsCurrent
<1>12. TellersAreFirst' /\ OneTells'
  <2>1. \A v \in Worker : Telling(v) => worker[v].receipt # r /\ worker[v].receipt \in Receipt
    BY <1>1, <1>2, Holders
       DEF Inv, TellersAreFirst, Unsettled, Unfinished, IsCurrent
  <2>2. \A v \in Worker : Telling(v)' => \/ v = w /\ worker'[v].receipt = r
                                         \/ v # w /\ Telling(v) /\ worker'[v] = worker[v]
    BY <1>5 DEF Telling
  <2>3. TellersAreFirst'
    BY <1>2, <1>6, <1>8, <1>9, <2>1, <2>2 DEF Inv, TellersAreFirst
  <2>4. OneTells'
    BY <2>1, <2>2 DEF Inv, OneTells
  <2> QED
    BY <2>3, <2>4
<1>13. UnsettledIsClean' /\ WarnedIsMarked'
  BY <1>4, <1>6, <1>8, <1>9, <1>10 DEF Inv, UnsettledIsClean, WarnedIsMarked
<1>14. NoticesAreMarked' /\ OneWarns'
  <2>1. \A v \in Worker : worker'[v].notices \subseteq worker[v].notices
    BY <1>5
  <2> QED
    BY <1>6, <1>10, <2>1 DEF Inv, NoticesAreMarked, OneWarns
<1>15. RemovedIsIdle' /\ RemovedHasNoResults'
  BY <1>2, <1>3, <1>4, <1>9 DEF Inv, RemovedIsIdle, RemovedHasNoResults
<1>16. ResultsAreCurrent'
  BY <1>3, <1>4 DEF Inv, ResultsAreCurrent
<1>17. DeletedLeavesNothing'
  <2>1. receipts'[r] # Deleted
    BY <1>3 DEF Deleted
  <2> QED
    BY <1>4, <1>6, <2>1 DEF Inv, DeletedLeavesNothing
<1>18. WaitingIsWorkedOn'
  BY <1>3, <1>4, <1>9 DEF CommitFinish, Inv, WaitingIsWorkedOn, editing
<1> QED
  BY <1>11, <1>12, <1>13, <1>14, <1>15, <1>16, <1>17, <1>18 DEF Inv

LEMMA NotifyKeeps ==
    ASSUME Inv, TypeOK', NEW w \in Worker, Notify(w)
    PROVE  Inv'
<1>1. TypeOK /\ Telling(w) /\ WorkersShrink /\ worker'[w] = Idle
  BY Rests DEF Inv, Notify, At, Telling
<1>2. PICK r \in Receipt : r = worker[w].receipt
  BY <1>1, Holders
<1>3. ~Unsettled(r)
  BY <1>1, <1>2 DEF Inv, TellersAreFirst
<1>4. \A q \in Receipt : q # r => told'[q] = told[q]
  BY <1>1, <1>2 DEF Notify, TypeOK
<1>5. \A v \in Worker : Telling(v)' => Telling(v) /\ worker'[v].receipt = worker[v].receipt
                                       /\ worker[v].receipt # r
  BY <1>1, <1>2 DEF Inv, OneTells, WorkersShrink, Telling, Idle
<1>6. UNCHANGED <<receipts, images, results, drafts, filled, warned>>
  BY DEF Notify
<1>7. \A q \in Receipt : /\ Unsettled(q)' <=> Unsettled(q)
                         /\ Noticed(q)' <=> Noticed(q)
                         /\ Unfinished(q)' <=> Unfinished(q)
                         /\ Present(q)' <=> Present(q)
                         /\ \A attempt : IsCurrent(q, attempt)' <=> IsCurrent(q, attempt)
  BY <1>6 DEF Unsettled, Noticed, Unfinished, Present, IsCurrent
<1>8. CommittersAreCurrent' /\ OneCommits'
  BY <1>1, <1>7, Holders DEF Inv, CommittersAreCurrent, OneCommits, WorkersShrink
<1>9. TellersAreFirst' /\ OneTells'
  BY <1>1, <1>4, <1>5, <1>7, Holders DEF Inv, TellersAreFirst, OneTells
<1>10. UnsettledIsClean' /\ WarnedIsMarked'
  BY <1>3, <1>4, <1>6, <1>7 DEF Inv, UnsettledIsClean, WarnedIsMarked
<1>11. NoticesAreMarked' /\ OneWarns'
  BY <1>1, <1>6, <1>7 DEF Inv, NoticesAreMarked, OneWarns, WorkersShrink
<1>12. RemovedIsIdle' /\ RemovedHasNoResults' /\ ResultsAreCurrent' /\ DeletedLeavesNothing'
  BY <1>6, <1>7 DEF Inv, RemovedIsIdle, RemovedHasNoResults, ResultsAreCurrent, DeletedLeavesNothing
<1>13. WaitingIsWorkedOn'
  BY <1>6, <1>7 DEF Notify, Inv, WaitingIsWorkedOn, editing
<1> QED
  BY <1>8, <1>9, <1>10, <1>11, <1>12, <1>13 DEF Inv

LEMMA SendNoticesKeeps ==
    ASSUME Inv, TypeOK', NEW w \in Worker, SendNotices(w)
    PROVE  Inv'
<1>1. TypeOK
  BY DEF Inv
<1>2. PICK sent \in SUBSET Receipt : sent = worker[w].notices
  BY <1>1, WorkerOf
<1>3. \A q \in Receipt : warned'[q] = IF q \in sent THEN warned[q] + 1 ELSE warned[q]
  BY <1>2 DEF SendNotices
<1>4. worker' = [worker EXCEPT ![w] = [worker[w] EXCEPT !.notices = {}]]
  BY <1>1 DEF SendNotices, TypeOK
<1>5. worker'[w] = [worker[w] EXCEPT !.notices = {}] /\ \A v \in Worker : v # w => worker'[v] = worker[v]
  BY <1>1, <1>4 DEF TypeOK
<1>6. /\ worker'[w].notices = {} /\ worker'[w].stage = worker[w].stage
      /\ worker[w].stage # "idle" => /\ worker'[w].receipt = worker[w].receipt
                                     /\ worker'[w].attempt = worker[w].attempt
  BY <1>1, <1>5, WorkerOf DEF Attempting
<1>7. WorkersShrink
  BY <1>5, <1>6 DEF WorkersShrink, Committing, Telling
<1>8. UNCHANGED <<receipts, images, results, drafts, filled, told>>
  BY DEF SendNotices
<1>9. \A q \in Receipt : /\ Unsettled(q)' <=> Unsettled(q)
                         /\ Noticed(q)' <=> Noticed(q)
                         /\ Unfinished(q)' <=> Unfinished(q)
                         /\ Present(q)' <=> Present(q)
                         /\ \A attempt : IsCurrent(q, attempt)' <=> IsCurrent(q, attempt)
  BY <1>8 DEF Unsettled, Noticed, Unfinished, Present, IsCurrent
<1>10. CommittersAreCurrent' /\ OneCommits'
  BY <1>1, <1>7, <1>9, Holders DEF Inv, CommittersAreCurrent, OneCommits, WorkersShrink
<1>11. TellersAreFirst' /\ OneTells'
  BY <1>1, <1>7, <1>8, <1>9, Holders DEF Inv, TellersAreFirst, OneTells, WorkersShrink
<1>12. WarnedIsMarked'
  <2>1. \A q \in sent : Noticed(q) /\ warned[q] = 0
    BY <1>2 DEF Inv, NoticesAreMarked
  <2> QED
    BY <1>3, <1>9, <2>1 DEF Inv, WarnedIsMarked
<1>13. NoticesAreMarked' /\ OneWarns'
  <2>1. \A v \in Worker, q \in Receipt : q \in worker'[v].notices => /\ v # w /\ q \in worker[v].notices
                                                                     /\ q \notin sent
    BY <1>2, <1>5, <1>6 DEF Inv, OneWarns
  <2> QED
    BY <1>3, <1>9, <2>1 DEF Inv, NoticesAreMarked, OneWarns
<1>14. UnsettledIsClean' /\ WaitingIsWorkedOn'
  BY <1>8, <1>9 DEF SendNotices, Inv, UnsettledIsClean, WaitingIsWorkedOn, editing
<1>15. RemovedIsIdle' /\ RemovedHasNoResults' /\ ResultsAreCurrent' /\ DeletedLeavesNothing'
  BY <1>8, <1>9 DEF Inv, RemovedIsIdle, RemovedHasNoResults, ResultsAreCurrent, DeletedLeavesNothing
<1> QED
  BY <1>10, <1>11, <1>12, <1>13, <1>14, <1>15 DEF Inv

LEMMA ClaimNoticesKeeps ==
    ASSUME Inv, TypeOK', NEW w \in Worker, ClaimNotices(w)
    PROVE  Inv'
<1>1. TypeOK
  BY DEF Inv
<1>2. PICK newest \in Unnoticed :
         /\ receipts' = Marked({r \in Unnoticed : r <= newest})
         /\ worker' = [worker EXCEPT ![w].notices =
                          {r \in {x \in Unnoticed : x <= newest} :
                              drafts[r] = "awaiting_recognition" /\ r \in active}]
  BY DEF ClaimNotices
<1>3. PICK overdue \in SUBSET Receipt : overdue = {r \in Unnoticed : r <= newest}
  BY DEF Unnoticed
<1>4. PICK due \in SUBSET overdue :
         due = {r \in overdue : drafts[r] = "awaiting_recognition" /\ r \in active}
  OBVIOUS
<1>5. \A r \in overdue : /\ receipts[r] \in ReceiptRow /\ Present(r)
                         /\ receipts[r].state # "not_yet" /\ ~Noticed(r)
  BY <1>1, <1>3, RowOf DEF Unnoticed, Unfinished, ReceiptState, Noticed, Present
<1>6. \A r \in Receipt :
         receipts'[r] = IF r \in overdue THEN [receipts[r] EXCEPT !.noticed = TRUE] ELSE receipts[r]
  BY <1>2, <1>3 DEF Marked
<1>7. \A r \in Receipt : /\ receipts'[r].state = receipts[r].state
                         /\ Present(r) => /\ receipts'[r].attempt = receipts[r].attempt
                                          /\ receipts'[r].removed = receipts[r].removed
                         /\ receipts'[r].noticed = TRUE \/ r \notin overdue
                         /\ r \notin overdue => receipts'[r] = receipts[r]
  BY <1>5, <1>6 DEF ReceiptRow
<1>8. \A r \in Receipt : /\ Unsettled(r)' <=> Unsettled(r)
                         /\ Unfinished(r)' <=> Unfinished(r)
                         /\ Present(r)' <=> Present(r)
                         /\ \A attempt : IsCurrent(r, attempt)' <=> IsCurrent(r, attempt)
  <2> SUFFICES ASSUME NEW r \in Receipt
               PROVE  /\ Unsettled(r)' <=> Unsettled(r)
                      /\ Unfinished(r)' <=> Unfinished(r)
                      /\ Present(r)' <=> Present(r)
                      /\ \A attempt : IsCurrent(r, attempt)' <=> IsCurrent(r, attempt)
    OBVIOUS
  <2>1. Present(r)' <=> Present(r)
    BY <1>7 DEF Present
  <2>2. Unfinished(r)' <=> Unfinished(r)
    BY <1>7 DEF Unfinished, Present, ReceiptState
  <2>3. Unsettled(r)' <=> Unsettled(r)
    BY <1>7, <2>2 DEF Unsettled
  <2>4. \A attempt : IsCurrent(r, attempt)' <=> IsCurrent(r, attempt)
    BY <1>7 DEF IsCurrent, Present, ReceiptState
  <2> QED
    BY <2>1, <2>2, <2>3, <2>4
<1>9. \A r \in Receipt : (Noticed(r) => Noticed(r)') /\ (r \in overdue => Noticed(r)')
  BY <1>5, <1>7, <1>8 DEF Noticed
<1>10. /\ worker'[w] = [worker[w] EXCEPT !.notices = due]
       /\ \A v \in Worker : v # w => worker'[v] = worker[v]
  BY <1>1, <1>2, <1>3, <1>4 DEF TypeOK
<1>11. /\ worker'[w].notices = due /\ worker'[w].stage = worker[w].stage
       /\ ~Committing(w) /\ ~Telling(w)
  BY <1>1, <1>10, WorkerOf DEF Attempting, ClaimNotices, At, Committing, Telling
<1>12. UNCHANGED <<images, results, drafts, filled, told, warned>>
  BY DEF ClaimNotices
<1>13. CommittersAreCurrent' /\ OneCommits'
  <2>1. \A v \in Worker : Committing(v)' => Committing(v) /\ worker'[v] = worker[v]
    BY <1>10, <1>11 DEF Committing
  <2> QED
    BY <1>1, <1>8, <2>1, Holders DEF Inv, CommittersAreCurrent, OneCommits
<1>14. TellersAreFirst' /\ OneTells'
  <2>1. \A v \in Worker : Telling(v)' => Telling(v) /\ worker'[v] = worker[v]
    BY <1>10, <1>11 DEF Telling
  <2> QED
    BY <1>1, <1>8, <1>12, <2>1, Holders DEF Inv, TellersAreFirst, OneTells
<1>15. UnsettledIsClean' /\ WarnedIsMarked'
  BY <1>8, <1>9, <1>12 DEF Inv, UnsettledIsClean, WarnedIsMarked
<1>16. NoticesAreMarked' /\ OneWarns'
  <2>1. \A v \in Worker : v # w => \A r \in worker[v].notices : r \in Receipt => r \notin due
    BY <1>5 DEF Inv, NoticesAreMarked
  <2>2. \A r \in due : Noticed(r)' /\ warned[r] = 0
    BY <1>5, <1>9 DEF Inv, WarnedIsMarked
  <2> QED
    BY <1>9, <1>10, <1>11, <1>12, <2>1, <2>2 DEF Inv, NoticesAreMarked, OneWarns
<1>17. RemovedIsIdle' /\ RemovedHasNoResults'
  BY <1>7, <1>8, <1>12 DEF Inv, RemovedIsIdle, RemovedHasNoResults
<1>18. ResultsAreCurrent'
  BY <1>7, <1>12 DEF Inv, ResultsAreCurrent, Present, ReceiptState
<1>19. DeletedLeavesNothing'
  <2>1. \A r \in Receipt : receipts'[r] = Deleted => receipts[r] = Deleted
    BY <1>1, <1>7, RowOf DEF Deleted
  <2> QED
    BY <1>12, <2>1 DEF Inv, DeletedLeavesNothing
<1>20. WaitingIsWorkedOn'
  BY <1>8, <1>12 DEF ClaimNotices, Inv, WaitingIsWorkedOn, editing
<1> QED
  BY <1>13, <1>14, <1>15, <1>16, <1>17, <1>18, <1>19, <1>20 DEF Inv

\* The two steps that take a receipt's data away, its row or only its image.
LEMMA DeletionKeeps ==
    ASSUME Inv, TypeOK', NEW r \in Receipt, DeleteReceiptData(r) \/ DeleteAccount(r)
    PROVE  Inv'
<1>1. TypeOK
  BY DEF Inv
<1>2. /\ Present(r) /\ ~Locked(r) /\ receipts[r] \in ReceiptRow
      /\ images' = images \ {r} /\ results' = [results EXCEPT ![r] = {}]
      /\ UNCHANGED <<worker, filled, told, warned>>
  BY <1>1, RowOf DEF DeleteReceiptData, DeleteAccount, Removable
<1>3. /\ ~Unfinished(r)' /\ receipts'[r].state # "not_yet" /\ receipts'[r].state # "processing"
      /\ Present(r)' => receipts'[r].noticed = receipts[r].noticed
      /\ \A q \in Receipt : q # r => receipts'[q] = receipts[q]
  <2>1. CASE DeleteReceiptData(r)
    BY <1>1, <1>2, <2>1 DEF DeleteReceiptData, Removable, TypeOK, ReceiptRow, ReceiptState, Unfinished
  <2>2. CASE DeleteAccount(r)
    BY <1>1, <2>2 DEF DeleteAccount, TypeOK, Deleted, Unfinished, Present, ReceiptState
  <2> QED
    BY <2>1, <2>2
<1>4. \A q \in Receipt : drafts'[q] = "awaiting_recognition" => drafts[q] = "awaiting_recognition" /\ q # r
  BY <1>1 DEF DeleteReceiptData, DeleteAccount, Removable, TypeOK
<1>5. \A q \in Receipt : q # r => /\ Unfinished(q)' <=> Unfinished(q)
                                  /\ Unsettled(q)' <=> Unsettled(q)
                                  /\ Noticed(q)' <=> Noticed(q)
                                  /\ Present(q)' <=> Present(q)
                                  /\ \A attempt : IsCurrent(q, attempt)' <=> IsCurrent(q, attempt)
  BY <1>3 DEF Unfinished, Unsettled, Noticed, Present, IsCurrent
<1>6. ~Unsettled(r)' /\ (Noticed(r) => Noticed(r)')
  BY <1>2, <1>3 DEF Unsettled, Noticed
<1>7. results'[r] = {} /\ \A q \in Receipt : q # r => results'[q] = results[q]
  BY <1>1, <1>2 DEF TypeOK
<1>8. CommittersAreCurrent' /\ OneCommits'
  <2>1. \A v \in Worker : Committing(v)' => Committing(v) /\ worker[v].receipt # r
    BY <1>2 DEF Locked, Committing
  <2> QED
    BY <1>1, <1>2, <1>5, <2>1, Holders DEF Inv, CommittersAreCurrent, OneCommits
<1>9. TellersAreFirst' /\ OneTells'
  <2>1. \A v \in Worker : Telling(v)' <=> Telling(v)
    BY <1>2 DEF Telling
  <2>2. \A q \in Receipt : Unsettled(q)' => Unsettled(q)
    BY <1>5, <1>6
  <2> QED
    BY <1>1, <1>2, <2>1, <2>2, Holders DEF Inv, TellersAreFirst, OneTells
<1>10. UnsettledIsClean' /\ WarnedIsMarked'
  BY <1>2, <1>5, <1>6 DEF Inv, UnsettledIsClean, WarnedIsMarked
<1>11. NoticesAreMarked' /\ OneWarns'
  BY <1>2, <1>5, <1>6 DEF Inv, NoticesAreMarked, OneWarns
<1>12. RemovedIsIdle' /\ RemovedHasNoResults'
  BY <1>3, <1>5, <1>7 DEF Inv, RemovedIsIdle, RemovedHasNoResults
<1>13. ResultsAreCurrent'
  BY <1>3, <1>7 DEF Inv, ResultsAreCurrent
<1>14. DeletedLeavesNothing'
  BY <1>2, <1>3, <1>7 DEF Inv, DeletedLeavesNothing
<1>15. WaitingIsWorkedOn'
  BY <1>4, <1>5 DEF DeleteReceiptData, DeleteAccount, Inv, WaitingIsWorkedOn, editing
<1> QED
  BY <1>8, <1>9, <1>10, <1>11, <1>12, <1>13, <1>14, <1>15 DEF Inv

-----------------------------------------------------------------------------
LEMMA InvInit == Init => Inv
<1> SUFFICES ASSUME Init PROVE Inv
  OBVIOUS
<1>1. /\ \A r \in Receipt : /\ receipts[r] = NotYet /\ results[r] = {} /\ drafts[r] = "none"
                            /\ filled[r] = 0 /\ told[r] = 0 /\ warned[r] = 0
      /\ \A w \in Worker : worker[w] = Idle
      /\ images = {}
  BY DEF Init
<1>2. CommittersAreCurrent /\ OneCommits /\ TellersAreFirst /\ OneTells /\ NoticesAreMarked /\ OneWarns
  BY <1>1 DEF CommittersAreCurrent, OneCommits, TellersAreFirst, OneTells, NoticesAreMarked, OneWarns,
              Committing, Telling, Idle
<1>3. UnsettledIsClean /\ WarnedIsMarked /\ ResultsAreCurrent /\ WaitingIsWorkedOn
  BY <1>1 DEF UnsettledIsClean, WarnedIsMarked, ResultsAreCurrent, WaitingIsWorkedOn
<1>4. RemovedIsIdle /\ RemovedHasNoResults /\ DeletedLeavesNothing
  BY <1>1 DEF RemovedIsIdle, RemovedHasNoResults, DeletedLeavesNothing, Present, NotYet, ReceiptState
<1> QED
  BY <1>2, <1>3, <1>4, TypeInit DEF Inv

LEMMA InvStep == Inv /\ [Next]_vars => Inv'
<1> SUFFICES ASSUME Inv, [Next]_vars PROVE Inv'
  OBVIOUS
<1>1. TypeOK'
  BY TypeStep DEF Inv
<1> QED
  BY <1>1, QuietSteps, ReceiveKeeps, ClaimNextKeeps, SaveFinishedKeeps, CommitFinishKeeps, NotifyKeeps,
     SendNoticesKeeps, ClaimNoticesKeeps, DeletionKeeps DEF Next, Step

LEMMA InvAlways == Spec => []Inv
BY InvInit, InvStep, PTL DEF Spec

\* Every reachable state is well typed.
THEOREM TypeCorrect == Spec => []TypeOK
BY InvAlways, PTL DEF Inv

\* A draft that waits has a queued or claimed receipt, unless an HTTP request
\* read the row while it waited and wrote it back when the waiting was over
\* (the receipt states of receipts.py, the retention job's conditions and the
\* unlocked read and write of edit_draft in http/capture.py).
THEOREM WaitingReceiptsStayQueued == Spec => []WaitingIsWorkedOn
BY InvAlways, PTL DEF Inv

\* A stored result is that of the attempt that finished the receipt
\* (save_finished).
THEOREM StaleAttemptsLeaveNoResult == Spec => []ResultsAreCurrent
BY InvAlways, PTL DEF Inv

\* No result of a receipt whose data was removed (delete_receipt_data).
THEOREM RemovedReceiptsStayEmpty == Spec => []RemovedHasNoResults
BY InvAlways, PTL DEF Inv

\* Nothing of a deleted account is stored again (put and save_finished).
THEOREM DeletedAccountsStayEmpty == Spec => []DeletedLeavesNothing
BY InvAlways, PTL DEF Inv

\* Whatever workers come back late, nothing stale is stored.
THEOREM NothingStale == Spec => []NothingStaleStored
BY StaleAttemptsLeaveNoResult, RemovedReceiptsStayEmpty, DeletedAccountsStayEmpty, PTL
   DEF NothingStaleStored

\* The delay notice is sent at most once (claim_delay_notices).
THEOREM OneDelayNotice == Spec => []WarnedOnce
<1>1. Inv => WarnedOnce
  <2> SUFFICES ASSUME Inv, NEW r \in Receipt PROVE warned[r] <= 1
    BY DEF WarnedOnce
  <2>1. warned[r] = 0 \/ warned[r] = 1
    BY DEF Inv, WarnedIsMarked
  <2> QED
    BY <2>1
<1> QED
  BY <1>1, InvAlways, PTL

-----------------------------------------------------------------------------
(* The queue implements ReceiptContract *)

\* What the refinement mapping says of a receipt, in the terms of the steps.
Fits(r) ==
    /\ receipts[r].state = "not_yet" => Outcome(r) = "none"
    /\ receipts[r].state = "deleted" => Outcome(r) = "gone"
    /\ Unfinished(r) => Outcome(r) = "pending"
    /\ receipts[r].state = "queued" /\ ~Unfinished(r) => Outcome(r) = "gone"
    /\ receipts[r].state = "processing" => Unfinished(r)
    /\ receipts[r].state = "recognized" => Outcome(r) = "recognized"
    /\ receipts[r].state = "recognition_failed" => Outcome(r) = "recognition_failed"
    /\ receipts[r].state \in ReceiptState \cup {"not_yet", "deleted"}

OutcomesFit == \A r \in Receipt : Fits(r)

LEMMA OutcomeOf == Inv => OutcomesFit
<1> SUFFICES ASSUME Inv, NEW r \in Receipt PROVE Fits(r)
  BY DEF OutcomesFit
<1>1. TypeOK /\ (Present(r) /\ receipts[r].removed => receipts[r].state # "processing")
  BY DEF Inv, RemovedIsIdle
<1>2. receipts[r].state \in ReceiptState \cup {"not_yet", "deleted"}
  BY <1>1, RowOf
<1>3. CASE receipts[r].state = "not_yet"
  BY <1>1, <1>3, RowOf DEF Fits, Outcome, Unfinished, Present, ReceiptState
<1>4. CASE receipts[r].state = "deleted"
  <2>1. receipts[r] = Deleted /\ receipts[r] # NotYet
    BY <1>1, <1>4, RowOf DEF NotYet
  <2> QED
    BY <1>4, <2>1 DEF Fits, Outcome, Unfinished, Present, ReceiptState
<1>5. CASE receipts[r].state \in ReceiptState
  <2>1. receipts[r] # NotYet /\ receipts[r] # Deleted /\ receipts[r] \in ReceiptRow /\ Present(r)
    BY <1>1, <1>5, RowOf DEF NotYet, Deleted, ReceiptState, Present
  <2>2. /\ Unfinished(r) \/ receipts[r].state = "processing" => Outcome(r) = "pending"
        /\ receipts[r].state = "queued" /\ receipts[r].removed => Outcome(r) = "gone"
        /\ receipts[r].state \in {"recognized", "recognition_failed"} => Outcome(r) = receipts[r].state
    BY <2>1 DEF Outcome, Unfinished
  <2>3. receipts[r].removed \in BOOLEAN
    BY <2>1 DEF ReceiptRow
  <2> QED
    BY <1>1, <1>5, <2>1, <2>2, <2>3 DEF Fits, ReceiptState, Unfinished, Present
<1> QED
  BY <1>2, <1>3, <1>4, <1>5

LEMMA OutcomeNext == Inv' => OutcomesFit'
BY OutcomeOf, PTL

LEMMA SameOutcome ==
    ASSUME Inv, Inv', NEW r \in Receipt, receipts'[r].state = receipts[r].state,
           Unfinished(r)' <=> Unfinished(r)
    PROVE  Outcome(r)' = Outcome(r)
<1>1. Fits(r) /\ Fits(r)'
  BY OutcomeOf, OutcomeNext DEF OutcomesFit
<1> QED
  BY <1>1 DEF Fits, ReceiptState

\* The contract's view of a step in which only receipt r changes its outcome.
Others(r) == \A q \in Receipt : q # r => Outcome(q)' = Outcome(q)

LEMMA OutcomeUpdate ==
    ASSUME NEW r \in Receipt, Others(r), NEW o, Outcome(r)' = o
    PROVE  [q \in Receipt |-> Outcome(q)]' = [[q \in Receipt |-> Outcome(q)] EXCEPT ![r] = o]
BY DEF Others

\* A step after which every receipt's outcome is what it was.
LEMMA Stutters ==
    ASSUME \A r \in Receipt : Outcome(r)' = Outcome(r), UNCHANGED <<filled, told>>
    PROVE  UNCHANGED Contract!vars
BY DEF Contract!vars

LEMMA ContractInit == Init => Contract!Init
<1> SUFFICES ASSUME Init PROVE Contract!Init
  OBVIOUS
<1>1. \A r \in Receipt : Outcome(r) = "none"
  BY DEF Init, Outcome, NotYet, Deleted, Unfinished
<1> QED
  BY <1>1 DEF Init, Contract!Init

LEMMA QuietIsStutter ==
    ASSUME Inv, Inv', RowsSteady, UNCHANGED <<filled, told>>
    PROVE  UNCHANGED Contract!vars
<1>1. \A r \in Receipt : Outcome(r)' = Outcome(r)
  BY SteadyRows, SameOutcome DEF RowsSteady
<1> QED
  BY <1>1, Stutters

LEMMA ReceiveAccepts ==
    ASSUME Inv, Inv', NEW r \in Receipt, Receive(r)
    PROVE  Contract!Next
<1>1. TypeOK
  BY DEF Inv
<1>2. receipts[r].state = "not_yet" /\ Unfinished(r)' /\ \A q \in Receipt : q # r => receipts'[q] = receipts[q]
  BY <1>1 DEF Receive, NotYet, TypeOK, Unfinished
<1>3. Outcome(r) = "none" /\ Outcome(r)' = "pending"
  BY <1>2, OutcomeOf, OutcomeNext DEF OutcomesFit, Fits
<1>4. Others(r)
  BY <1>2, SameOutcome DEF Others, Unfinished
<1>5. Contract!Accept(r)
  BY <1>3, <1>4, OutcomeUpdate DEF Contract!Accept, Receive
<1> QED
  BY <1>5 DEF Contract!Next

LEMMA CommitSettles ==
    ASSUME Inv, Inv', NEW w \in Worker, CommitFinish(w)
    PROVE  Contract!Next
<1>1. PICK r \in Receipt : r = worker[w].receipt
  BY CommitEffect
<1>2. PICK output : output = worker[w].output
  OBVIOUS
<1>3. /\ receipts[r].state = "processing" /\ filled[r] = 0
      /\ receipts'[r].state = IF output = "values" THEN "recognized" ELSE "recognition_failed"
      /\ \A q \in Receipt : q # r => receipts'[q] = receipts[q]
  BY CommitEffect, <1>1, <1>2 DEF IsCurrent
<1>4. Outcome(r) = "pending"
  BY <1>3, OutcomeOf DEF OutcomesFit, Fits
<1>5. Outcome(r)' = IF output = "values" THEN "recognized" ELSE "recognition_failed"
  BY <1>3, OutcomeNext DEF OutcomesFit, Fits
<1>6. Others(r)
  BY <1>3, SameOutcome DEF Others, Unfinished
<1>7. UNCHANGED told /\ filled' = IF output = "values" /\ drafts[r] \in {"awaiting_recognition", "open"}
                                  THEN [filled EXCEPT ![r] = 1] ELSE filled
  BY <1>1, <1>2, <1>3 DEF CommitFinish
<1>8. CASE output = "values"
  <2>1. Contract!Recognize(r)
    BY <1>4, <1>5, <1>6, <1>7, <1>8, OutcomeUpdate DEF Contract!Recognize
  <2> QED
    BY <2>1 DEF Contract!Next
<1>9. CASE output # "values"
  <2>1. Contract!Refuse(r)
    BY <1>4, <1>5, <1>6, <1>7, <1>9, OutcomeUpdate DEF Contract!Refuse
  <2> QED
    BY <2>1 DEF Contract!Next
<1> QED
  BY <1>8, <1>9

LEMMA NotifyTells ==
    ASSUME Inv, Inv', NEW w \in Worker, Notify(w)
    PROVE  Contract!Next \/ UNCHANGED Contract!vars
<1>1. TypeOK /\ Telling(w)
  BY DEF Inv, Notify, At, Telling
<1>2. PICK r \in Receipt : r = worker[w].receipt
  BY <1>1, Holders
<1>3. ~Unsettled(r) /\ told[r] = 0
  BY <1>1, <1>2 DEF Inv, TellersAreFirst
<1>4. \A q \in Receipt : Outcome(q)' = Outcome(q)
  BY SameOutcome DEF Notify, Unfinished
<1>5. UNCHANGED filled /\ (told' = [told EXCEPT ![r] = 1] \/ UNCHANGED told)
  BY <1>2, <1>3 DEF Notify
<1>6. CASE UNCHANGED told
  BY <1>4, <1>5, <1>6, Stutters
<1>7. CASE told' = [told EXCEPT ![r] = 1]
  <2>1. Outcome(r) \notin {"none", "pending"}
    BY <1>3, OutcomeOf DEF OutcomesFit, Fits, Unsettled, ReceiptState
  <2>2. Contract!Tell(r)
    BY <1>3, <1>4, <1>5, <1>7, <2>1 DEF Contract!Tell
  <2> QED
    BY <2>2 DEF Contract!Next
<1> QED
  BY <1>5, <1>6, <1>7

LEMMA DeletionRetires ==
    ASSUME Inv, Inv', NEW r \in Receipt, DeleteReceiptData(r) \/ DeleteAccount(r)
    PROVE  Contract!Next \/ UNCHANGED Contract!vars
<1>1. TypeOK
  BY DEF Inv
<1>2. Present(r) /\ receipts[r] \in ReceiptRow /\ UNCHANGED <<filled, told>>
  BY <1>1, RowOf DEF DeleteReceiptData, DeleteAccount, Removable
<1>3. Outcome(r) # "none"
  BY <1>2, OutcomeOf DEF OutcomesFit, Fits, Present, ReceiptState
<1>4. \A q \in Receipt : q # r => receipts'[q] = receipts[q]
  BY <1>1 DEF DeleteReceiptData, DeleteAccount, TypeOK
<1>5. Others(r)
  BY <1>4, SameOutcome DEF Others, Unfinished
<1>6. ASSUME Outcome(r)' = "gone" PROVE Contract!Next
  <2>1. Contract!Retire(r)
    BY <1>2, <1>3, <1>5, <1>6, OutcomeUpdate DEF Contract!Retire
  <2> QED
    BY <2>1 DEF Contract!Next
<1>7. ASSUME Outcome(r)' = Outcome(r) PROVE UNCHANGED Contract!vars
  BY <1>2, <1>5, <1>7, Stutters DEF Others
<1>8. CASE DeleteAccount(r)
  <2>1. receipts'[r].state = "deleted"
    BY <1>1, <1>8 DEF DeleteAccount, TypeOK, Deleted
  <2> QED
    BY <1>6, <2>1, OutcomeNext DEF OutcomesFit, Fits
<1>9. CASE DeleteReceiptData(r)
  <2>1. receipts'[r].state = receipts[r].state /\ ~Unfinished(r)' /\ receipts[r].state # "processing"
    BY <1>1, <1>2, <1>9 DEF DeleteReceiptData, Removable, TypeOK, ReceiptRow, Unfinished
  <2>2. CASE receipts[r].state = "queued"
    BY <1>6, <2>1, <2>2, OutcomeNext DEF OutcomesFit, Fits
  <2>3. CASE receipts[r].state # "queued"
    <3>1. ~Unfinished(r)
      BY <2>1, <2>3 DEF Unfinished
    <3> QED
      BY <1>7, <2>1, <3>1, SameOutcome
  <2> QED
    BY <2>2, <2>3
<1> QED
  BY <1>8, <1>9

LEMMA ContractStep == Inv /\ Inv' /\ [Next]_vars => [Contract!Next]_(Contract!vars)
<1> SUFFICES ASSUME Inv, Inv', [Next]_vars PROVE Contract!Next \/ UNCHANGED Contract!vars
  OBVIOUS
<1>1. TypeOK
  BY DEF Inv
<1>2. ASSUME NEW w \in Worker,
             \/ LookUpImage(w) \/ Download(w) \/ KeepImage(w) \/ Recognize(w) \/ SaveFinished(w)
             \/ SendNotices(w) \/ Crash(w)
      PROVE  UNCHANGED Contract!vars
  <2>1. UNCHANGED <<receipts, filled, told>>
    BY <1>2 DEF LookUpImage, Download, KeepImage, Recognize, SaveFinished, SendNotices, Crash
  <2> QED
    BY <2>1, SameRows, QuietIsStutter
<1>3. ASSUME NEW r \in Receipt,
             \/ ContinueManually(r) \/ CloseDraft(r) \/ Unlink(r) \/ GrowOld(r)
             \/ ReadDraft(r)
      PROVE  UNCHANGED Contract!vars
  <2>1. UNCHANGED <<receipts, filled, told>>
    BY <1>3 DEF ContinueManually, CloseDraft, Unlink, GrowOld, ReadDraft
  <2> QED
    BY <2>1, SameRows, QuietIsStutter
<1>4. ASSUME NEW r \in Receipt, LeaseExpires(r)
      PROVE  UNCHANGED Contract!vars
  <2>1. receipts[r] \in ReceiptRow
    BY <1>1, <1>4, RowOf DEF LeaseExpires, ReceiptState
  <2>2. RowsSteady
    BY <1>1, <1>4, <2>1 DEF LeaseExpires, RowsSteady, TypeOK, ReceiptRow
  <2> QED
    BY <1>4, <2>2, QuietIsStutter DEF LeaseExpires
<1>5. ASSUME NEW w \in Worker, ClaimNext(w)
      PROVE  UNCHANGED Contract!vars
  <2>1. PICK r \in Receipt :
           /\ IsClaimable(r)
           /\ receipts' = [receipts EXCEPT ![r].state = "processing", ![r].attempt = @ + 1,
                                           ![r].lapsed = FALSE]
    BY <1>5 DEF ClaimNext
  <2>2. receipts[r] \in ReceiptRow /\ Unfinished(r)
    BY <1>1, <2>1, RowOf DEF IsClaimable, Unfinished, ReceiptState
  <2>3. Unfinished(r)' /\ \A q \in Receipt : q # r => receipts'[q] = receipts[q]
    BY <1>1, <2>1, <2>2 DEF TypeOK, ReceiptRow, Unfinished
  <2>4. Outcome(r)' = Outcome(r)
    BY <2>2, <2>3, OutcomeOf, OutcomeNext DEF OutcomesFit, Fits
  <2>5. \A q \in Receipt : Outcome(q)' = Outcome(q)
    BY <2>3, <2>4, SameOutcome DEF Unfinished
  <2> QED
    BY <1>5, <2>5, Stutters DEF ClaimNext
<1>6. ASSUME NEW w \in Worker, ClaimNotices(w)
      PROVE  UNCHANGED Contract!vars
  <2>1. PICK overdue \in SUBSET Receipt : receipts' = Marked(overdue) /\ overdue \subseteq Unnoticed
    BY <1>6 DEF ClaimNotices, Unnoticed
  <2>2. \A r \in overdue : receipts[r] \in ReceiptRow
    BY <1>1, <2>1, RowOf DEF Unnoticed, Unfinished, ReceiptState
  <2>3. \A r \in Receipt : /\ receipts'[r].state = receipts[r].state
                           /\ Unfinished(r)' <=> Unfinished(r)
    BY <2>1, <2>2 DEF Marked, ReceiptRow, Unfinished
  <2>4. \A r \in Receipt : Outcome(r)' = Outcome(r)
    BY <2>3, SameOutcome
  <2> QED
    BY <1>6, <2>4, Stutters DEF ClaimNotices
<1>7. CASE UNCHANGED vars
  BY <1>7, SameRows, QuietIsStutter DEF vars
<1>8. CASE WriteDraft
  BY <1>8, SameRows, QuietIsStutter DEF WriteDraft
<1> QED
  BY <1>2, <1>3, <1>4, <1>5, <1>6, <1>7, <1>8, ReceiveAccepts, CommitSettles, NotifyTells,
     DeletionRetires DEF Next, Step

\* Crashes, takeovers, slow attempts, retention and account deletion together
\* implement the contract of a receipt: settled once, applied once, told once.
THEOREM QueueImplementsContract == Spec => ImplementsContract
BY ContractInit, ContractStep, InvAlways, PTL DEF Spec, ImplementsContract, Contract!Spec
=============================================================================
