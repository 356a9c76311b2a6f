--------------------------- MODULE DraftApi_proofs ---------------------------
(***************************************************************************)
(* Proofs about DraftApi, for every set of drafts, requests and PATCH      *)
(* bodies and every bound.                                                 *)
(*                                                                         *)
(* Unique holds however many server processes there are: what a handler    *)
(* holds may be stale, but only a row that named its Expense can name one  *)
(* again.  Serial adds what one event loop gives: the row a handler holds  *)
(* agrees with the table on everything that only requests write.           *)
(***************************************************************************)
EXTENDS DraftApi, TLAPS, FiniteSetTheorems

\* A row that is confirmed exactly when it names an Expense made from d.
NamesItsExpense(row, d) ==
    /\ row.state = "confirmed" <=> row.expense_id # NoExpense
    /\ row.expense_id # NoExpense =>
          Recorded(row.expense_id) /\ expenses[row.expense_id].capture_draft_id = d

Unique ==
    /\ \A d \in DraftId : Exists(d) => NamesItsExpense(drafts[d], d)
    /\ \A r \in Request : op[r] # Idle =>
          /\ Exists(op[r].draft)
          /\ NamesItsExpense(op[r].row, op[r].draft)
          /\ op[r].kind = "confirm" => IsConfirmable(op[r].row)
    /\ AtMostOneExpense
    /\ \A a \in answers : Recorded(a[2]) /\ expenses[a[2]].capture_draft_id = a[1]

Settled(d) == drafts[d].state \in {"confirmed", "cancelled"}

\* A row held for a write is the table's row but for what a request may change.
Agrees(row, d) ==
    /\ Settled(d) => row = drafts[d]
    /\ \A f \in Field : drafts[d].field[f].source = "user" => row.field[f].source = "user"

Serial ==
    /\ \A q, r \in Request : op[q] # Idle /\ op[r] # Idle => q = r
    /\ \A r \in Request : op[r] # Idle =>
          /\ Agrees(op[r].row, op[r].draft)
          /\ op[r].kind = "confirm" => drafts[op[r].draft] = op[r].row
    /\ \A e \in Expense : Recorded(e) =>
          LET d == expenses[e].capture_draft_id
          IN  Exists(d) /\ drafts[d].state = "confirmed" /\ drafts[d].expense_id = e

\* Every field write of a draft made by hand is counted in its revision, and will
\* be when the row a handler holds is written; only photos wait for the worker.
Counted ==
    /\ \A d \in DraftId :
          /\ Exists(d) /\ drafts[d].origin # "telegram_receipt" => drafts[d].revision = accepted[d]
          /\ ~Exists(d) => accepted[d] = 0
          /\ d \in unfinished => drafts[d].origin = "telegram_receipt"
    /\ \A r \in Request : op[r] # Idle =>
          /\ op[r].row.origin = drafts[op[r].draft].origin
          /\ op[r].kind = "write" /\ op[r].row.origin # "telegram_receipt" =>
                op[r].row.revision = accepted[op[r].draft] + op[r].bumps

-----------------------------------------------------------------------------
(* The transitions of a draft: each returns a draft, and what it leaves      *)
(* alone.                                                                    *)

\* A PATCH body names finitely many fields, so its revisions can be counted.
LEMMA EditCounts ==
    ASSUME NEW edit \in Edit
    PROVE  /\ Cardinality(DOMAIN edit) \in Nat
           /\ DOMAIN edit = {} => Cardinality(DOMAIN edit) = 0
<1>1. DOMAIN edit \subseteq Field \cup {"note"}
  BY DEF Edit
<1>2. IsFiniteSet(Field \cup {"note"})
  <2>1. IsFiniteSet({})
    BY FS_EmptySet
  <2>2. IsFiniteSet({"amount"})
    BY <2>1, FS_AddElement, {} \cup {"amount"} = {"amount"}
  <2>3. IsFiniteSet({"amount"} \cup {"date"})
    BY <2>2, FS_AddElement
  <2>4. IsFiniteSet(({"amount"} \cup {"date"}) \cup {"merchant"})
    BY <2>3, FS_AddElement
  <2>5. IsFiniteSet((({"amount"} \cup {"date"}) \cup {"merchant"}) \cup {"category"})
    BY <2>4, FS_AddElement
  <2>6. IsFiniteSet(((({"amount"} \cup {"date"}) \cup {"merchant"}) \cup {"category"}) \cup {"note"})
    BY <2>5, FS_AddElement
  <2> QED
    BY <2>6, Field = (({"amount"} \cup {"date"}) \cup {"merchant"}) \cup {"category"} DEF Field
<1>3. IsFiniteSet(DOMAIN edit)
  BY <1>1, <1>2, FS_Subset
<1> QED
  BY <1>3, FS_CardinalityType, FS_EmptySet

\* New drafts are drafts, manual or waiting for a receipt.
LEMMA StartIsDraft ==
    ASSUME NEW origin \in CaptureSource
    PROVE  Start(origin) \in Draft /\ StartFromReceipt \in Draft
BY DEF Start, StartFromReceipt, Draft, CaptureSource, OpenStates, FinalStates, Slot,
       Provenance, EmptySlot

\* A setter returns a draft that differs in one field and the revision.
LEMMA SetFieldIsDraft ==
    ASSUME NEW d \in Draft, NEW f \in Field, NEW source \in Provenance, NEW sound \in BOOLEAN
    PROVE  SetField(d, f, source, sound) \in Draft
<1> DEFINE values == [d.field EXCEPT ![f] = [source |-> source, sound |-> sound]]
           revision == d.revision + 1
<1>1. values \in [Field -> Slot]
  BY DEF Draft, Slot
<1>2. SetField(d, f, source, sound) =
          [d EXCEPT !.field = values, !.state = d.state, !.revision = revision]
  BY DEF SetField, Draft
<1>3. d.state \in OpenStates \cup FinalStates /\ revision \in Nat
  BY DEF Draft
<1> HIDE DEF values, revision
<1> QED
  BY <1>1, <1>2, <1>3 DEF Draft

\* A PATCH body leaves state, origin and expense alone, counts its fields, and
\* turns no user value into anything else.
LEMMA SetFieldsIsDraft ==
    ASSUME NEW d \in Draft, NEW edit \in Edit
    PROVE  LET n == SetFields(d, edit)
           IN  /\ n \in Draft
               /\ n.state = d.state /\ n.origin = d.origin /\ n.expense_id = d.expense_id
               /\ n.revision = d.revision + Cardinality(DOMAIN edit)
               /\ \A f \in Field : d.field[f].source = "user" => n.field[f].source = "user"
<1> DEFINE named == [f \in Field |-> IF f \in DOMAIN edit
                                     THEN [source |-> "user", sound |-> edit[f]]
                                     ELSE d.field[f]]
           revision == d.revision + Cardinality(DOMAIN edit)
<1>1. revision \in Nat
  BY EditCounts DEF Draft
<1>2. \A f \in DOMAIN edit : edit[f] \in BOOLEAN
  BY DEF Edit
<1>3. named \in [Field -> Slot]
  BY <1>2 DEF Draft, Slot, Provenance
<1>4. \A f \in Field : d.field[f].source = "user" => named[f].source = "user"
  OBVIOUS
<1>5. SetFields(d, edit) = [d EXCEPT !.field = named, !.state = d.state, !.revision = revision]
  BY DEF SetFields, Draft
<1>6. d.state \in OpenStates \cup FinalStates
  BY DEF Draft
<1>7. /\ SetFields(d, edit) \in Draft
      /\ SetFields(d, edit).field = named /\ SetFields(d, edit).state = d.state
      /\ SetFields(d, edit).revision = revision
      /\ SetFields(d, edit).origin = d.origin /\ SetFields(d, edit).expense_id = d.expense_id
  <2> HIDE DEF named, revision
  <2> QED
    BY <1>1, <1>3, <1>5, <1>6 DEF Draft
<1> QED
  BY <1>4, <1>7

\* A PATCH body that sets nothing returns the draft it was given.
LEMMA EmptyEdit ==
    ASSUME NEW d \in Draft, NEW edit \in Edit, DOMAIN edit = {}
    PROVE  SetFields(d, edit) = d
<1>1. Cardinality(DOMAIN edit) = 0
  BY EditCounts
<1>2. [f \in Field |-> IF f \in DOMAIN edit
                       THEN [source |-> "user", sound |-> edit[f]]
                       ELSE d.field[f]] = d.field
  BY DEF Draft
<1>3. d.revision + Cardinality(DOMAIN edit) = d.revision
  BY <1>1 DEF Draft
<1>4. SetFields(d, edit) = [d EXCEPT !.field = d.field, !.revision = d.revision]
  BY <1>2, <1>3 DEF SetFields
<1> QED
  BY <1>4 DEF Draft

\* A recognition result keeps the draft open, keeps its origin, and touches no
\* value of the user.
LEMMA ApplyRecognitionIsDraft ==
    ASSUME NEW d \in Draft, NEW found \in SUBSET Field
    PROVE  LET n == ApplyRecognition(d, found)
           IN  /\ n \in Draft
               /\ n.origin = d.origin /\ n.expense_id = d.expense_id
               /\ n.revision = d.revision + 1
               /\ IsOpen(d) => IsOpen(n)
               /\ \A f \in Field : /\ d.field[f].source = "user" => n.field[f] = d.field[f]
                                   /\ n.field[f].source = "user" => n.field[f] = d.field[f]
<1> DEFINE filled == [f \in Field |->
                      IF f \in found /\ MayFill(d, f)
                      THEN [source |-> "recognition", sound |-> TRUE]
                      ELSE IF f = "category" /\ ~Filled(d, "category")
                      THEN [source |-> "default", sound |-> TRUE]
                      ELSE d.field[f]]
           state == AfterRecognition(d, filled)
           revision == d.revision + 1
<1>1. filled \in [Field -> Slot]
  BY DEF Draft, Slot, Provenance
<1>2. \A f \in Field : /\ d.field[f].source = "user" => filled[f] = d.field[f]
                       /\ filled[f].source = "user" => filled[f] = d.field[f]
  BY DEF Draft, Slot, MayFill, Filled, Field
<1>3. state \in OpenStates \cup FinalStates /\ (IsOpen(d) => state \in OpenStates)
                                             /\ revision \in Nat
  BY DEF AfterRecognition, Draft, OpenStates, IsOpen
<1>4. ApplyRecognition(d, found) = [d EXCEPT !.field      = filled,
                                             !.state      = state,
                                             !.revision   = revision]
  BY DEF ApplyRecognition
<1>5. /\ ApplyRecognition(d, found) \in Draft
      /\ ApplyRecognition(d, found).field = filled /\ ApplyRecognition(d, found).state = state
      /\ ApplyRecognition(d, found).revision = revision
      /\ ApplyRecognition(d, found).origin = d.origin
      /\ ApplyRecognition(d, found).expense_id = d.expense_id
  <2> HIDE DEF filled, state, revision
  <2> QED
    BY <1>1, <1>3, <1>4 DEF Draft
<1> QED
  BY <1>2, <1>3, <1>5 DEF IsOpen

\* The remaining transitions change the state, and Confirm the expense too.
LEMMA StateChangeIsDraft ==
    ASSUME NEW d \in Draft
    PROVE  /\ ContinueManually(d) \in Draft
           /\ ContinueManually(d).field = d.field
           /\ ContinueManually(d).origin = d.origin
           /\ ContinueManually(d).revision = d.revision
           /\ ContinueManually(d).expense_id = d.expense_id
           /\ IsOpen(d) => IsOpen(ContinueManually(d))
           /\ \A n \in {MarkReadyForReview(d), Cancel(d), Expire(d)} :
                 /\ n \in Draft /\ n.state # "confirmed"
                 /\ n.field = d.field /\ n.origin = d.origin
                 /\ n.revision = d.revision /\ n.expense_id = d.expense_id
BY DEF ContinueManually, MarkReadyForReview, Cancel, Expire, IsOpen, Draft, OpenStates, FinalStates

\* Confirming names the Expense.
LEMMA ConfirmIsDraft ==
    ASSUME NEW d \in Draft, NEW e \in Expense
    PROVE  LET n == Confirm(d, e)
           IN  /\ n \in Draft /\ n.state = "confirmed" /\ n.expense_id = e
               /\ n.field = d.field /\ n.origin = d.origin /\ n.revision = d.revision
BY DEF Confirm, Draft, FinalStates

-----------------------------------------------------------------------------
(* Types *)

\* The draft the intake creates for a photo.
LEMMA ReceiptDraftIsDraft ==
    /\ ReceiptDraft \in Draft
    /\ ReceiptDraft.state = "awaiting_recognition" /\ ReceiptDraft.expense_id = NoExpense
    /\ ReceiptDraft.origin = "telegram_receipt"
<1>1. ReceiptDraft \in Draft
  BY StartIsDraft, SetFieldIsDraft
     DEF ReceiptDraft, CaptureSource, Field, Provenance
<1> QED
  BY <1>1 DEF ReceiptDraft, SetField, StartFromReceipt, Start

\* What a running handler holds has a type of its own.
LEMMA HeldType ==
    ASSUME TypeOK, NEW r \in Request, op[r] # Idle
    PROVE  op[r] \in Running /\ op[r].draft \in DraftId /\ op[r].row \in Draft
BY DEF TypeOK, Running

LEMMA ExistsType ==
    ASSUME TypeOK, NEW d \in DraftId, Exists(d)
    PROVE  drafts[d] \in Draft
BY DEF TypeOK, Exists

\* A handler that starts holds a well-typed row.
LEMMA HoldType ==
    ASSUME TypeOK, NEW r \in Request, NEW kind \in {"write", "confirm"}, NEW d \in DraftId,
           NEW row \in Draft, NEW bumps, bumps \in Nat, NEW stale \in BOOLEAN,
           Hold(r, kind, d, row, bumps, stale)
    PROVE  op' \in [Request -> Running \cup {Idle}]
BY DEF TypeOK, Hold, Running

LEMMA TypeInit == Init => TypeOK
BY DEF Init, TypeOK

LEMMA StepParts == [Step]_<<vars, home>> => [Next]_vars /\ UNCHANGED home
BY DEF Step

LEMMA TypeStep == TypeOK /\ [Next]_vars => TypeOK'
<1> SUFFICES ASSUME TypeOK, [Next]_vars PROVE TypeOK'
  OBVIOUS
<1> USE DEF ghosts
<1>1. ASSUME NEW r \in Request, NEW d \in DraftId, StartDraft(r, d) PROVE TypeOK'
  <2>1. Start("web_manual") \in Draft
    BY StartIsDraft DEF CaptureSource
  <2> QED
    BY NoDraftAssumption, <1>1, <2>1 DEF StartDraft, TypeOK
<1>2. ASSUME NEW r \in Request, NEW d \in DraftId, NEW edit \in Edits, ReadForEdit(r, d, edit)
      PROVE  TypeOK'
  <2>1. edit \in Edit
    BY EditsAssumption
  <2>2. drafts[d] \in Draft
    BY <1>2, ExistsType DEF ReadForEdit
  <2> DEFINE row   == SetFields(drafts[d], edit)
             bumps == Cardinality(DOMAIN edit)
             stale == DOMAIN edit = {} /\ d \in dormant
  <2>3. row \in Draft
    BY <2>1, <2>2, SetFieldsIsDraft
  <2>4. bumps \in Nat
    BY <2>1, EditCounts
  <2>5. Hold(r, "write", d, row, bumps, stale)
    BY <1>2 DEF ReadForEdit
  <2>6. stale \in BOOLEAN
    OBVIOUS
  <2> HIDE DEF row, bumps, stale
  <2>7. op' \in [Request -> Running \cup {Idle}]
    BY <2>3, <2>4, <2>5, <2>6, HoldType
  <2> QED
    BY <1>2, <2>7 DEF ReadForEdit, TypeOK
<1>3. ASSUME NEW r \in Request, NEW d \in DraftId, ReadForReady(r, d) PROVE TypeOK'
  <2>1. MarkReadyForReview(drafts[d]) \in Draft
    BY <1>3, ExistsType, StateChangeIsDraft DEF ReadForReady
  <2>2. op' \in [Request -> Running \cup {Idle}]
    BY <1>3, <2>1, HoldType DEF ReadForReady
  <2> QED
    BY <1>3, <2>2 DEF ReadForReady, TypeOK
<1>4. ASSUME NEW r \in Request, NEW d \in DraftId, ReadForCancel(r, d) PROVE TypeOK'
  <2>1. Cancel(drafts[d]) \in Draft
    BY <1>4, ExistsType, StateChangeIsDraft DEF ReadForCancel
  <2>2. op' \in [Request -> Running \cup {Idle}]
    BY <1>4, <2>1, HoldType DEF ReadForCancel
  <2> QED
    BY <1>4, <2>2 DEF ReadForCancel, TypeOK
<1>5. ASSUME NEW r \in Request, NEW d \in DraftId, LockForConfirm(r, d) PROVE TypeOK'
  <2>1. drafts[d] \in Draft
    BY <1>5, ExistsType DEF LockForConfirm
  <2>2. op' \in [Request -> Running \cup {Idle}]
    BY <1>5, <2>1, HoldType DEF LockForConfirm
  <2> QED
    BY <1>5, <2>2 DEF LockForConfirm, TypeOK
<1>6. ASSUME NEW r \in Request, NEW d \in DraftId, ConfirmAgain(r, d) PROVE TypeOK'
  <2>1. drafts[d].expense_id \in Expense
    BY <1>6, ExistsType DEF ConfirmAgain, Draft
  <2> QED
    BY <1>6, <2>1 DEF ConfirmAgain, TypeOK
<1>7. ASSUME NEW r \in Request, WriteRow(r) PROVE TypeOK'
  <2>1. op[r].draft \in DraftId /\ op[r].row \in Draft /\ op[r].bumps \in Nat
    BY <1>7, HeldType DEF WriteRow, Running
  <2> QED
    BY NoDraftAssumption, <1>7, <2>1 DEF WriteRow, TypeOK
<1>8. ASSUME NEW r \in Request, NEW e \in Expense, CommitConfirm(r, e) PROVE TypeOK'
  <2>1. op[r].draft \in DraftId /\ op[r].row \in Draft
    BY <1>8, HeldType DEF CommitConfirm
  <2>2. Confirm(op[r].row, e) \in Draft
    BY <2>1, ConfirmIsDraft
  <2>3. [capture_draft_id |-> op[r].draft, field |-> op[r].row.field, deleted |-> FALSE] \in ExpenseRow
    BY <2>1 DEF ExpenseRow, Draft
  <2> QED
    BY NoDraftAssumption, <1>8, <2>1, <2>2, <2>3 DEF CommitConfirm, TypeOK
<1>9. ASSUME NEW r \in Request, FaultConfirm(r) PROVE TypeOK'
  BY <1>9, HeldType DEF FaultConfirm, TypeOK
<1>10. ASSUME NEW r \in Request, Crash(r) PROVE TypeOK'
  BY <1>10 DEF Crash, TypeOK
<1>11. ASSUME NEW r \in Request, NEW e \in Expense, NEW b \in BOOLEAN, SetDeleted(r, e, b)
       PROVE  TypeOK'
  <2>1. expenses[e] \in ExpenseRow
    BY <1>11 DEF SetDeleted, Recorded, TypeOK
  <2>2. [expenses[e] EXCEPT !.deleted = b] \in ExpenseRow
    BY <2>1 DEF ExpenseRow
  <2>3. expenses' = [expenses EXCEPT ![e] = [expenses[e] EXCEPT !.deleted = b]]
    BY <1>11 DEF SetDeleted
  <2> QED
    BY <1>11, <2>2, <2>3 DEF SetDeleted, TypeOK
<1>12. ASSUME NEW d \in DraftId, ReceiptArrives(d) PROVE TypeOK'
  BY NoDraftAssumption, <1>12, ReceiptDraftIsDraft DEF ReceiptArrives, TypeOK
<1>13. ASSUME NEW d \in DraftId, TimePasses(d) PROVE TypeOK'
  BY <1>13 DEF TimePasses, TypeOK
<1>14. ASSUME NEW d \in DraftId, NEW found \in SUBSET {"amount", "date", "merchant"},
              FinishReceipt(d, found)
       PROVE  TypeOK'
  <2>1. drafts[d] \in Draft /\ found \in SUBSET Field
    BY <1>14 DEF FinishReceipt, TypeOK, Field
  <2>2. WithResult(drafts[d], found) \in Draft
    BY <2>1, ApplyRecognitionIsDraft DEF WithResult
  <2> QED
    BY <1>14, <2>2, NoDraftAssumption DEF FinishReceipt, TypeOK
<1>15. ASSUME NEW d \in DraftId, FailReceipt(d) PROVE TypeOK'
  <2>1. drafts[d] \in Draft
    BY <1>15 DEF FailReceipt, TypeOK
  <2>2. WithoutResult(drafts[d]) \in Draft
    BY <2>1, StateChangeIsDraft DEF WithoutResult
  <2> QED
    BY <1>15, <2>2, NoDraftAssumption DEF FailReceipt, TypeOK
<1>16. CASE ExpireAbandoned
  <2>1. \A d \in Abandoned : d \in DraftId /\ Expire(drafts[d]) \in Draft
    BY ExistsType, StateChangeIsDraft DEF Abandoned
  <2> QED
    BY <1>16, <2>1, NoDraftAssumption DEF ExpireAbandoned, TypeOK
<1>17. CASE UNCHANGED vars
  BY <1>17 DEF vars, TypeOK
<1> QED
  BY <1>1, <1>2, <1>3, <1>4, <1>5, <1>6, <1>7, <1>8, <1>9, <1>10, <1>11, <1>12, <1>13,
     <1>14, <1>15, <1>16, <1>17
     DEF Next, Handler, Worker

\* Every variable keeps its type, whatever the deployment and the bounds.
THEOREM TypeCorrect == Spec => []TypeOK
BY TypeInit, TypeStep, StepParts, PTL DEF Spec

-----------------------------------------------------------------------------
(* One Expense, whatever the deployment *)

LEMMA UniqueInit == Init => Unique
BY NoDraftAssumption
   DEF Init, Unique, Exists, Recorded, AtMostOneExpense

\* A step that leaves the Expenses alone, or keeps the drafts they were made
\* from, keeps Unique when the rows it writes were in order before.
LEMMA UniqueKept ==
    ASSUME TypeOK, TypeOK', Unique,
           \A e \in Expense : /\ Recorded(e)' <=> Recorded(e)
                              /\ Recorded(e) => expenses'[e].capture_draft_id
                                                    = expenses[e].capture_draft_id,
           \A d \in DraftId : Exists(d)' =>
              \/ Exists(d) /\ drafts'[d] = drafts[d]
              \/ drafts'[d].state # "confirmed" /\ drafts'[d].expense_id = NoExpense
              \/ NamesItsExpense(drafts'[d], d),
           \A d \in DraftId : Exists(d) => Exists(d)',
           \A r \in Request : op'[r] # Idle =>
              \/ op'[r] = op[r]
              \/ /\ op'[r].draft \in DraftId /\ Exists(op'[r].draft)
                 /\ NamesItsExpense(op'[r].row, op'[r].draft)
                 /\ op'[r].kind = "confirm" => IsConfirmable(op'[r].row),
           \A a \in answers' : \/ a \in answers
                               \/ Recorded(a[2]) /\ expenses[a[2]].capture_draft_id = a[1]
    PROVE  Unique'
<1> DEFINE Names(row, d) ==
              /\ row.state = "confirmed" <=> row.expense_id # NoExpense
              /\ row.expense_id # NoExpense =>
                    /\ expenses'[row.expense_id] # NoExpense
                    /\ expenses'[row.expense_id].capture_draft_id = d
<1>1. ASSUME NEW row \in Draft, NEW d \in DraftId, NamesItsExpense(row, d)
      PROVE  Names(row, d)
  BY <1>1 DEF NamesItsExpense, Recorded, Draft
<1>2. ASSUME NEW d \in DraftId, Exists(d)'
      PROVE  NamesItsExpense(drafts[d], d)'
  <2>1. drafts'[d] \in Draft
    BY <1>2, ExistsType DEF TypeOK, Exists
  <2>2. Names(drafts'[d], d)
    BY <1>1, <1>2, <2>1 DEF Unique
  <2> QED
    BY <2>2 DEF NamesItsExpense, Recorded
<1>3. ASSUME NEW r \in Request, op'[r] # Idle
      PROVE  /\ Exists(op[r].draft)'
             /\ NamesItsExpense(op[r].row, op[r].draft)'
             /\ op'[r].kind = "confirm" => IsConfirmable(op'[r].row)
  <2>1. op'[r].row \in Draft /\ op'[r].draft \in DraftId
    BY <1>3 DEF TypeOK, Running
  <2>2. /\ Exists(op'[r].draft)
        /\ NamesItsExpense(op'[r].row, op'[r].draft)
        /\ op'[r].kind = "confirm" => IsConfirmable(op'[r].row)
    BY <1>3 DEF Unique
  <2>3. Names(op'[r].row, op'[r].draft)
    BY <1>1, <2>1, <2>2
  <2>4. Exists(op[r].draft)'
    BY <2>1, <2>2 DEF Exists
  <2> QED
    BY <2>2, <2>3, <2>4 DEF NamesItsExpense, Recorded
<1>4. AtMostOneExpense'
  BY DEF Unique, AtMostOneExpense
<1>5. ASSUME NEW a \in answers'
      PROVE  Recorded(a[2])' /\ expenses'[a[2]].capture_draft_id = a[1]
  <2>1. a[2] \in Expense
    BY <1>5 DEF TypeOK
  <2> QED
    BY <1>5, <2>1 DEF Unique
<1> QED
  BY <1>2, <1>3, <1>4, <1>5 DEF Unique, IsConfirmable

LEMMA UniqueStep == TypeOK /\ TypeOK' /\ Unique /\ [Next]_vars => Unique'
<1> SUFFICES ASSUME TypeOK, TypeOK', Unique, [Next]_vars PROVE Unique'
  OBVIOUS
<1> USE DEF ghosts
<1>1. ASSUME NEW r \in Request, NEW d \in DraftId, StartDraft(r, d) PROVE Unique'
  <2>1. drafts'[d].state # "confirmed" /\ drafts'[d].expense_id = NoExpense
    BY <1>1 DEF StartDraft, Start, TypeOK
  <2> QED
    BY <1>1, <2>1, UniqueKept DEF StartDraft, TypeOK, Exists, Recorded
<1>2. ASSUME NEW r \in Request, NEW d \in DraftId, NEW edit \in Edits, ReadForEdit(r, d, edit)
      PROVE  Unique'
  <2> DEFINE row == SetFields(drafts[d], edit)
  <2>1. row.state = drafts[d].state /\ row.expense_id = drafts[d].expense_id
    BY <1>2, ExistsType, SetFieldsIsDraft, EditsAssumption DEF ReadForEdit
  <2>2. NamesItsExpense(row, d)
    BY <1>2, <2>1 DEF ReadForEdit, Unique, NamesItsExpense
  <2>3. \A q \in Request : op'[q] = op[q] \/ (op'[q].row = row /\ op'[q].draft = d /\ op'[q].kind = "write")
    BY <1>2 DEF ReadForEdit, Hold, TypeOK
  <2> HIDE DEF row
  <2> QED
    BY <1>2, <2>2, <2>3, UniqueKept DEF ReadForEdit, Exists, Recorded
<1>3. ASSUME NEW r \in Request, NEW d \in DraftId, ReadForReady(r, d) PROVE Unique'
  <2> DEFINE row == MarkReadyForReview(drafts[d])
  <2>1. drafts[d].state # "confirmed" /\ row.state # "confirmed" /\ row.expense_id = drafts[d].expense_id
    BY <1>3, ExistsType, StateChangeIsDraft DEF ReadForReady, CanMarkReady
  <2>2. NamesItsExpense(row, d)
    BY <1>3, <2>1 DEF ReadForReady, Unique, NamesItsExpense
  <2>3. \A q \in Request : op'[q] = op[q] \/ (op'[q].row = row /\ op'[q].draft = d /\ op'[q].kind = "write")
    BY <1>3 DEF ReadForReady, Hold, TypeOK
  <2> HIDE DEF row
  <2> QED
    BY <1>3, <2>2, <2>3, UniqueKept DEF ReadForReady, Exists, Recorded
<1>4. ASSUME NEW r \in Request, NEW d \in DraftId, ReadForCancel(r, d) PROVE Unique'
  <2> DEFINE row == Cancel(drafts[d])
  <2>1. drafts[d].state # "confirmed" /\ row.state # "confirmed" /\ row.expense_id = drafts[d].expense_id
    BY <1>4, ExistsType, StateChangeIsDraft DEF ReadForCancel, IsOpen, OpenStates
  <2>2. NamesItsExpense(row, d)
    BY <1>4, <2>1 DEF ReadForCancel, Unique, NamesItsExpense
  <2>3. \A q \in Request : op'[q] = op[q] \/ (op'[q].row = row /\ op'[q].draft = d /\ op'[q].kind = "write")
    BY <1>4 DEF ReadForCancel, Hold, TypeOK
  <2> HIDE DEF row
  <2> QED
    BY <1>4, <2>2, <2>3, UniqueKept DEF ReadForCancel, Exists, Recorded
<1>5. ASSUME NEW r \in Request, NEW d \in DraftId, LockForConfirm(r, d) PROVE Unique'
  <2>1. NamesItsExpense(drafts[d], d)
    BY <1>5 DEF LockForConfirm, Unique
  <2>2. \A q \in Request : op'[q] = op[q] \/ (op'[q].row = drafts[d] /\ op'[q].draft = d)
    BY <1>5 DEF LockForConfirm, Hold, TypeOK
  <2> QED
    BY <1>5, <2>1, <2>2, UniqueKept DEF LockForConfirm, Exists, Recorded
<1>6. ASSUME NEW r \in Request, NEW d \in DraftId, ConfirmAgain(r, d) PROVE Unique'
  <2>1. LET e == drafts[d].expense_id
        IN  Recorded(e) /\ expenses[e].capture_draft_id = d
    BY <1>6 DEF ConfirmAgain, Unique, NamesItsExpense
  <2> QED
    BY <1>6, <2>1, UniqueKept DEF ConfirmAgain, Exists, Recorded
<1>7. ASSUME NEW r \in Request, WriteRow(r) PROVE Unique'
  <2>1. NamesItsExpense(op[r].row, op[r].draft)
    BY <1>7 DEF WriteRow, Unique
  <2>2. op[r].draft \in DraftId /\ op[r].row \in Draft
    BY <1>7, HeldType DEF WriteRow
  <2>3. \A x \in DraftId : \/ drafts'[x] = drafts[x]
                           \/ x = op[r].draft /\ drafts'[x] = op[r].row
    BY <1>7 DEF WriteRow, TypeOK
  <2>4. \A q \in Request : op'[q] # Idle => op'[q] = op[q]
    BY <1>7 DEF WriteRow, TypeOK
  <2>5. \A x \in DraftId : Exists(x) => Exists(x)'
    BY <2>2, <2>3, NoDraftAssumption DEF Exists
  <2> QED
    BY <1>7, <2>1, <2>3, <2>4, <2>5, UniqueKept DEF WriteRow, Exists, Recorded
<1>9. ASSUME NEW r \in Request, FaultConfirm(r) PROVE Unique'
  <2>1. \A q \in Request : op'[q] # Idle => op'[q] = op[q]
    BY <1>9 DEF FaultConfirm, TypeOK
  <2> QED
    BY <1>9, <2>1, UniqueKept DEF FaultConfirm, Exists, Recorded
<1>10. ASSUME NEW r \in Request, Crash(r) PROVE Unique'
  <2>1. \A q \in Request : op'[q] # Idle => op'[q] = op[q]
    BY <1>10 DEF Crash, TypeOK
  <2> QED
    BY <1>10, <2>1, UniqueKept DEF Crash, Exists, Recorded
<1>11. ASSUME NEW r \in Request, NEW e \in Expense, NEW b \in BOOLEAN, SetDeleted(r, e, b)
       PROVE  Unique'
  <2>1. expenses[e] \in ExpenseRow
    BY <1>11 DEF SetDeleted, Recorded, TypeOK
  <2>2. expenses' = [expenses EXCEPT ![e] = [expenses[e] EXCEPT !.deleted = b]]
    BY <1>11 DEF SetDeleted
  <2>3. expenses'[e] # NoExpense
        /\ expenses'[e].capture_draft_id = expenses[e].capture_draft_id
    BY <2>1, <2>2, NoExpenseRowAssumption DEF TypeOK, ExpenseRow
  <2>4. \A x \in Expense : x # e => expenses'[x] = expenses[x]
    BY <2>2 DEF TypeOK
  <2> QED
    BY <1>11, <2>3, <2>4, UniqueKept DEF SetDeleted, Exists, Recorded
<1>12. ASSUME NEW d \in DraftId, ReceiptArrives(d) PROVE Unique'
  <2>1. drafts'[d].state # "confirmed" /\ drafts'[d].expense_id = NoExpense
    BY <1>12, ReceiptDraftIsDraft DEF ReceiptArrives, TypeOK
  <2> QED
    BY <1>12, <2>1, UniqueKept DEF ReceiptArrives, TypeOK, Exists, Recorded
<1>13. ASSUME NEW d \in DraftId, TimePasses(d) PROVE Unique'
  BY <1>13, UniqueKept DEF TimePasses, Exists, Recorded
<1>14. ASSUME NEW d \in DraftId, NEW found \in SUBSET {"amount", "date", "merchant"},
              FinishReceipt(d, found)
       PROVE  Unique'
  <2>1. drafts[d] \in Draft /\ Exists(d) /\ found \in SUBSET Field
    BY <1>14 DEF FinishReceipt, TypeOK, Field, Exists
  <2>2. \/ drafts'[d] = drafts[d]
        \/ NamesItsExpense(drafts'[d], d)
    <3>1. CASE IsOpen(drafts[d])
      <4>1. drafts'[d] = ApplyRecognition(drafts[d], found)
        BY <1>14, <3>1 DEF FinishReceipt, WithResult, TypeOK
      <4>2. IsOpen(drafts'[d]) /\ drafts'[d].expense_id = drafts[d].expense_id
        <5> DEFINE n == ApplyRecognition(drafts[d], found)
        <5>1. IsOpen(n) /\ n.expense_id = drafts[d].expense_id
          BY <2>1, <3>1, ApplyRecognitionIsDraft
        <5> HIDE DEF n
        <5>2. drafts'[d] = n
          BY <4>1 DEF n
        <5> QED
          BY <5>1, <5>2 DEF IsOpen
      <4>3. drafts'[d].state # "confirmed" /\ drafts[d].state # "confirmed"
        BY <3>1, <4>2 DEF IsOpen, OpenStates
      <4>4. NamesItsExpense(drafts[d], d)
        BY <2>1 DEF Unique
      <4> QED
        BY <4>2, <4>3, <4>4 DEF NamesItsExpense
    <3>2. CASE ~IsOpen(drafts[d])
      BY <1>14, <3>2 DEF FinishReceipt, WithResult, TypeOK
    <3> QED
      BY <3>1, <3>2
  <2>3. \A x \in DraftId : x # d => drafts'[x] = drafts[x]
    BY <1>14 DEF FinishReceipt, TypeOK
  <2>4. drafts'[d] \in Draft
    <3>1. drafts'[d] = WithResult(drafts[d], found)
      BY <1>14 DEF FinishReceipt, TypeOK
    <3> QED
      BY <2>1, <3>1, ApplyRecognitionIsDraft DEF WithResult
  <2>5. \A x \in DraftId : Exists(x) => Exists(x)'
    BY <2>3, <2>4, NoDraftAssumption DEF Exists
  <2> QED
    BY <1>14, <2>1, <2>2, <2>3, <2>5, UniqueKept DEF FinishReceipt, Exists, Recorded
<1>15. ASSUME NEW d \in DraftId, FailReceipt(d) PROVE Unique'
  <2>1. drafts[d] \in Draft /\ Exists(d)
    BY <1>15 DEF FailReceipt, TypeOK, Exists
  <2>2. \/ drafts'[d] = drafts[d]
        \/ NamesItsExpense(drafts'[d], d)
    <3>1. CASE IsOpen(drafts[d])
      <4>1. drafts'[d] = ContinueManually(drafts[d])
        BY <1>15, <3>1 DEF FailReceipt, WithoutResult, TypeOK
      <4>2. IsOpen(drafts'[d]) /\ drafts'[d].expense_id = drafts[d].expense_id
        BY <2>1, <3>1, <4>1, StateChangeIsDraft
      <4>3. drafts'[d].state # "confirmed" /\ drafts[d].state # "confirmed"
        BY <3>1, <4>2 DEF IsOpen, OpenStates
      <4>4. NamesItsExpense(drafts[d], d)
        BY <2>1 DEF Unique
      <4> QED
        BY <4>2, <4>3, <4>4 DEF NamesItsExpense
    <3>2. CASE ~IsOpen(drafts[d])
      BY <1>15, <3>2 DEF FailReceipt, WithoutResult, TypeOK
    <3> QED
      BY <3>1, <3>2
  <2>3. \A x \in DraftId : x # d => drafts'[x] = drafts[x]
    BY <1>15 DEF FailReceipt, TypeOK
  <2>4. drafts'[d] \in Draft
    <3>1. drafts'[d] = WithoutResult(drafts[d])
      BY <1>15 DEF FailReceipt, TypeOK
    <3> QED
      BY <2>1, <3>1, StateChangeIsDraft DEF WithoutResult
  <2>5. \A x \in DraftId : Exists(x) => Exists(x)'
    BY <2>3, <2>4, NoDraftAssumption DEF Exists
  <2> QED
    BY <1>15, <2>1, <2>2, <2>3, <2>5, UniqueKept DEF FailReceipt, Exists, Recorded
<1>16. CASE ExpireAbandoned
  <2>1. ASSUME NEW x \in Abandoned
        PROVE  drafts'[x] \in Draft /\ NamesItsExpense(drafts'[x], x) /\ Exists(x)
    <3>1. x \in DraftId /\ Exists(x) /\ IsOpen(drafts[x]) /\ drafts[x] \in Draft
      BY <2>1, ExistsType DEF Abandoned
    <3>2. drafts'[x] = Expire(drafts[x])
      BY <1>16, <3>1 DEF ExpireAbandoned
    <3>3. drafts'[x] \in Draft /\ drafts'[x].state # "confirmed"
          /\ drafts'[x].expense_id = drafts[x].expense_id
      BY <3>1, <3>2, StateChangeIsDraft
    <3> QED
      BY <3>1, <3>3 DEF Unique, NamesItsExpense, IsOpen, OpenStates
  <2>2. \A x \in DraftId : x \notin Abandoned => drafts'[x] = drafts[x]
    BY <1>16 DEF ExpireAbandoned
  <2>3. \A x \in DraftId : Exists(x) => Exists(x)'
    BY <2>1, <2>2, NoDraftAssumption DEF Exists
  <2> QED
    BY <1>16, <2>1, <2>2, <2>3, UniqueKept DEF ExpireAbandoned, Exists, Recorded
<1>17. CASE UNCHANGED vars
  BY <1>17, UniqueKept DEF vars, Exists, Recorded
<1>8. ASSUME NEW r \in Request, NEW e \in Expense, CommitConfirm(r, e) PROVE Unique'
  <2> DEFINE d == op[r].draft
             row == op[r].row
  <2>1. d \in DraftId /\ row \in Draft /\ Exists(d)
    BY <1>8, HeldType DEF CommitConfirm, Unique
  <2>2. /\ drafts' = [drafts EXCEPT ![d] = Confirm(row, e)]
        /\ ~Recorded(e) /\ ~CaptureDraftTaken(d)
        /\ answers' = answers \cup {<<d, e>>}
        /\ op' = [op EXCEPT ![r] = Idle]
    BY <1>8 DEF CommitConfirm
  <2>3. drafts'[d].state = "confirmed" /\ drafts'[d].expense_id = e
    BY <2>1, <2>2, ConfirmIsDraft DEF TypeOK
  <2>4. expenses'[e] # NoExpense /\ expenses'[e].capture_draft_id = d
    <3> DEFINE new == [capture_draft_id |-> d, field |-> row.field, deleted |-> FALSE]
    <3>1. expenses'[e] = new
      BY <1>8 DEF CommitConfirm, TypeOK
    <3>2. new \in ExpenseRow /\ new.capture_draft_id = d
      BY <2>1 DEF ExpenseRow, Draft
    <3> HIDE DEF new
    <3> QED
      BY <3>1, <3>2, NoExpenseRowAssumption
  <2>5. \A x \in Expense : x # e => expenses'[x] = expenses[x]
    BY <1>8 DEF CommitConfirm, TypeOK
  <2>6. \A x \in DraftId : x # d => drafts'[x] = drafts[x]
    BY <2>2 DEF TypeOK
  <2>7. \A q \in Request : op'[q] # Idle => op'[q] = op[q]
    BY <2>2 DEF TypeOK
  <2>8. Confirm(row, e) # NoDraft
    BY <2>1, ConfirmIsDraft, NoDraftAssumption
  <2> HIDE DEF d, row
  <2>9. ASSUME NEW x \in DraftId, NEW y, y \in Draft, NamesItsExpense(y, x)
        PROVE  /\ y.state = "confirmed" <=> y.expense_id # NoExpense
               /\ y.expense_id # NoExpense => /\ expenses'[y.expense_id] # NoExpense
                                              /\ expenses'[y.expense_id].capture_draft_id = x
    BY <2>2, <2>5, <2>9 DEF NamesItsExpense, Recorded, Draft
  <2>10. ASSUME NEW x \in DraftId, Exists(x)' PROVE NamesItsExpense(drafts[x], x)'
    <3>1. CASE x = d
      BY <2>3, <2>4, <3>1, NoExpenseAssumption DEF NamesItsExpense, Recorded
    <3>2. CASE x # d
      BY <2>6, <2>9, <2>10, <3>2, ExistsType DEF NamesItsExpense, Recorded, Exists, Unique
    <3> QED
      BY <3>1, <3>2
  <2>11. ASSUME NEW q \in Request, op'[q] # Idle
         PROVE  /\ Exists(op[q].draft)'
                /\ NamesItsExpense(op[q].row, op[q].draft)'
                /\ op'[q].kind = "confirm" => IsConfirmable(op'[q].row)
    <3>1. op'[q] = op[q] /\ op[q].draft \in DraftId /\ op[q].row \in Draft /\ Exists(op[q].draft)
          /\ NamesItsExpense(op[q].row, op[q].draft)
          /\ (op[q].kind = "confirm" => IsConfirmable(op[q].row))
      BY <2>7, <2>11, HeldType DEF Unique
    <3>2. NamesItsExpense(op[q].row, op[q].draft)'
      BY <2>9, <3>1 DEF NamesItsExpense, Recorded
    <3>3. Exists(op[q].draft)'
      BY <2>1, <2>2, <2>6, <2>8, <3>1 DEF Exists, TypeOK
    <3> QED
      BY <3>1, <3>2, <3>3
  <2>12. AtMostOneExpense'
    BY <2>2, <2>4, <2>5 DEF AtMostOneExpense, Unique, Recorded, CaptureDraftTaken
  <2>13. ASSUME NEW a \in answers'
         PROVE  Recorded(a[2])' /\ expenses'[a[2]].capture_draft_id = a[1]
    <3>1. CASE a = <<d, e>>
      BY <2>4, <3>1 DEF Recorded
    <3>2. CASE a \in answers
      BY <2>2, <2>5, <3>2 DEF Unique, Recorded, TypeOK
    <3> QED
      BY <2>2, <2>13, <3>1, <3>2
  <2> QED
    BY <2>10, <2>11, <2>12, <2>13 DEF Unique, IsConfirmable
<1> QED
  BY <1>1, <1>2, <1>3, <1>4, <1>5, <1>6, <1>7, <1>8, <1>9, <1>10, <1>11, <1>12, <1>13,
     <1>14, <1>15, <1>16, <1>17
     DEF Next, Handler, Worker

LEMMA UniqueAlways == Spec => []Unique
<1>1. Init => TypeOK /\ Unique
  BY TypeInit, UniqueInit
<1>2. TypeOK /\ Unique /\ [Next]_vars => (TypeOK /\ Unique)'
  BY TypeStep, UniqueStep
<1> QED
  BY <1>1, <1>2, StepParts, PTL DEF Spec

\* A draft produces at most one Expense, with any number of server processes
\* and however stale the rows that unlocked handlers write back.
THEOREM DraftsProduceOneExpense == Spec => []AtMostOneExpense
<1>1. Unique => AtMostOneExpense
  BY DEF Unique
<1> QED
  BY <1>1, UniqueAlways, PTL

\* A draft is confirmed exactly when it names the Expense made from it.
THEOREM ConfirmedDraftsNameTheirExpense == Spec => []ConfirmedNamesItsExpense
<1>1. Unique => ConfirmedNamesItsExpense
  BY DEF Unique, ConfirmedNamesItsExpense, NamesItsExpense
<1> QED
  BY <1>1, UniqueAlways, PTL

\* Every confirmation of a draft returns the same Expense.
THEOREM ConfirmationsAgree == Spec => []OneAnswer
<1>1. TypeOK /\ Unique => OneAnswer
  <2> SUFFICES ASSUME TypeOK, Unique, NEW a \in answers, NEW b \in answers, a[1] = b[1]
               PROVE  a[2] = b[2]
    BY DEF OneAnswer
  <2>1. a[2] \in Expense /\ b[2] \in Expense
    BY DEF TypeOK
  <2>2. /\ Recorded(a[2]) /\ expenses[a[2]].capture_draft_id = a[1]
        /\ Recorded(b[2]) /\ expenses[b[2]].capture_draft_id = b[1]
    BY DEF Unique
  <2> QED
    BY <2>1, <2>2 DEF Unique, AtMostOneExpense
<1> QED
  BY <1>1, TypeCorrect, UniqueAlways, PTL

\* One Expense and one answer per draft, with any number of server processes.
THEOREM ConfirmationIsIdempotent == Spec => []ConfirmedOnce
BY DraftsProduceOneExpense, ConfirmationsAgree, PTL DEF ConfirmedOnce

-----------------------------------------------------------------------------
(* One event loop *)

LEMMA SerialInit == Init => Serial
BY DEF Init, Serial, Recorded

\* While a handler runs, no other request of the only process starts one.
LEMMA LoopFreeMeansIdle ==
    ASSUME OneLoop, NEW r \in Request, LoopFree(r)
    PROVE  \A q \in Request : op[q] = Idle
BY DEF OneLoop, LoopFree

\* A step that writes no row some handler holds, except by extending it with
\* values that are not the user's, keeps Serial.
LEMMA SerialKept ==
    ASSUME TypeOK, TypeOK', Unique, Unique', Serial,
           \A r \in Request : op'[r] # Idle => op'[r] = op[r],
           \A d \in DraftId : Exists(d) =>
              \/ drafts'[d] = drafts[d]
              \/ /\ ~Settled(d) /\ ~Settled(d)'
                 /\ \A f \in Field : drafts'[d].field[f].source = "user"
                                     => drafts[d].field[f].source = "user"
                 /\ \A r \in Request : op[r] # Idle /\ op[r].kind = "confirm" => op[r].draft # d,
           \A e \in Expense : Recorded(e)' => Recorded(e) /\ expenses'[e].capture_draft_id
                                                             = expenses[e].capture_draft_id
    PROVE  Serial'
<1>1. ASSUME NEW r \in Request, op'[r] # Idle
      PROVE  /\ Agrees(op[r].row, op[r].draft)'
             /\ op'[r].kind = "confirm" => drafts'[op'[r].draft] = op'[r].row
  <2> DEFINE d == op[r].draft
             row == op[r].row
  <2>1. op'[r] = op[r] /\ op[r] # Idle
    BY <1>1
  <2>2. d \in DraftId /\ Exists(d) /\ Agrees(row, d)
        /\ (op[r].kind = "confirm" => drafts[d] = row)
    BY <2>1, HeldType DEF Serial, Unique
  <2>3. CASE drafts'[d] = drafts[d]
    BY <2>1, <2>2, <2>3 DEF Agrees, Settled
  <2>4. CASE drafts'[d] # drafts[d]
    <3>1. ~Settled(d)' /\ op[r].kind # "confirm"
          /\ \A f \in Field : drafts'[d].field[f].source = "user" => drafts[d].field[f].source = "user"
      BY <2>1, <2>2, <2>4
    <3> QED
      BY <2>1, <2>2, <3>1 DEF Agrees, Settled
  <2> QED
    BY <2>3, <2>4
<1>2. ASSUME NEW e \in Expense, Recorded(e)'
      PROVE  LET d == expenses'[e].capture_draft_id
             IN  drafts'[d] # NoDraft /\ drafts'[d].state = "confirmed" /\ drafts'[d].expense_id = e
  <2> DEFINE d == expenses[e].capture_draft_id
  <2>1. Recorded(e) /\ expenses'[e].capture_draft_id = d
    BY <1>2
  <2>2. d \in DraftId
    BY <2>1 DEF TypeOK, Recorded, ExpenseRow
  <2>3. Exists(d) /\ drafts[d].state = "confirmed" /\ drafts[d].expense_id = e
    BY <2>1 DEF Serial
  <2>4. drafts'[d] = drafts[d]
    BY <2>2, <2>3 DEF Settled
  <2> QED
    BY <2>1, <2>3, <2>4 DEF Exists
<1>3. \A q, r \in Request : op'[q] # Idle /\ op'[r] # Idle => q = r
  BY DEF Serial
<1> QED
  BY <1>1, <1>2, <1>3 DEF Serial, Recorded, Exists

\* The first statement of a handler keeps Serial when the row it holds agrees.
LEMMA SerialHold ==
    ASSUME TypeOK, Serial, NEW r \in Request, \A q \in Request : op[q] = Idle,
           NEW kind \in {"write", "confirm"}, NEW d \in DraftId, NEW row, NEW bumps, NEW stale,
           Hold(r, kind, d, row, bumps, stale), UNCHANGED <<drafts, expenses>>,
           Agrees(row, d), kind = "confirm" => drafts[d] = row
    PROVE  Serial'
<1> DEFINE new == [kind |-> kind, draft |-> d, row |-> row, bumps |-> bumps, stale |-> stale]
<1>1. op' = [op EXCEPT ![r] = new]
  BY DEF Hold
<1>2. new.draft = d /\ new.row = row /\ new.kind = kind
  OBVIOUS
<1> HIDE DEF new
<1>3. op'[r] = new /\ \A q \in Request : q # r => op'[q] = Idle
  BY <1>1 DEF TypeOK
<1> QED
  BY <1>2, <1>3 DEF Serial, Agrees, Settled, Recorded, Exists

LEMMA SerialStep ==
    OneLoop /\ TypeOK /\ TypeOK' /\ Unique /\ Unique' /\ Serial /\ [Next]_vars => Serial'
<1> SUFFICES ASSUME OneLoop, TypeOK, TypeOK', Unique, Unique', Serial, [Next]_vars
             PROVE  Serial'
  OBVIOUS
<1> USE DEF ghosts
<1>1. ASSUME NEW r \in Request, NEW d \in DraftId, StartDraft(r, d) PROVE Serial'
  <2>1. \A x \in DraftId : Exists(x) => drafts'[x] = drafts[x]
    BY <1>1 DEF StartDraft, TypeOK
  <2> QED
    BY <1>1, <2>1, SerialKept DEF StartDraft, Recorded
<1>2. ASSUME NEW r \in Request, NEW d \in DraftId, NEW edit \in Edits, ReadForEdit(r, d, edit)
      PROVE  Serial'
  <2> DEFINE row == SetFields(drafts[d], edit)
             bumps == Cardinality(DOMAIN edit)
             stale == DOMAIN edit = {} /\ d \in dormant
  <2>1. \A q \in Request : op[q] = Idle
    BY <1>2, LoopFreeMeansIdle DEF ReadForEdit
  <2>2. drafts[d] \in Draft /\ edit \in Edit
    BY <1>2, ExistsType, EditsAssumption DEF ReadForEdit
  <2>3. Settled(d) => row = drafts[d]
    BY <1>2, <2>2, EmptyEdit DEF ReadForEdit, Settled, IsOpen, OpenStates
  <2>4. \A f \in Field : drafts[d].field[f].source = "user" => row.field[f].source = "user"
    BY <2>2, SetFieldsIsDraft
  <2>5. Hold(r, "write", d, row, bumps, stale)
    BY <1>2 DEF ReadForEdit
  <2> HIDE DEF row, bumps, stale
  <2>6. Agrees(row, d)
    BY <2>3, <2>4 DEF Agrees
  <2> QED
    BY <1>2, <2>1, <2>5, <2>6, SerialHold DEF ReadForEdit
<1>3. ASSUME NEW r \in Request, NEW d \in DraftId, ReadForReady(r, d) PROVE Serial'
  <2>1. \A q \in Request : op[q] = Idle
    BY <1>3, LoopFreeMeansIdle DEF ReadForReady
  <2>2. drafts[d] \in Draft
    BY <1>3, ExistsType DEF ReadForReady
  <2>3. Agrees(MarkReadyForReview(drafts[d]), d)
    BY <1>3, <2>2, StateChangeIsDraft DEF Agrees, ReadForReady, CanMarkReady, Settled
  <2> QED
    BY <1>3, <2>1, <2>3, SerialHold DEF ReadForReady
<1>4. ASSUME NEW r \in Request, NEW d \in DraftId, ReadForCancel(r, d) PROVE Serial'
  <2>1. \A q \in Request : op[q] = Idle
    BY <1>4, LoopFreeMeansIdle DEF ReadForCancel
  <2>2. drafts[d] \in Draft
    BY <1>4, ExistsType DEF ReadForCancel
  <2>3. Agrees(Cancel(drafts[d]), d)
    BY <1>4, <2>2, StateChangeIsDraft DEF Agrees, ReadForCancel, IsOpen, OpenStates, Settled
  <2> QED
    BY <1>4, <2>1, <2>3, SerialHold DEF ReadForCancel
<1>5. ASSUME NEW r \in Request, NEW d \in DraftId, LockForConfirm(r, d) PROVE Serial'
  <2>1. \A q \in Request : op[q] = Idle
    BY <1>5, LoopFreeMeansIdle DEF LockForConfirm
  <2>2. Agrees(drafts[d], d)
    BY DEF Agrees
  <2> QED
    BY <1>5, <2>1, <2>2, SerialHold DEF LockForConfirm
<1>6. ASSUME NEW r \in Request, NEW d \in DraftId, ConfirmAgain(r, d) PROVE Serial'
  BY <1>6, SerialKept DEF ConfirmAgain, Recorded
<1>7. ASSUME NEW r \in Request, WriteRow(r) PROVE Serial'
  <2> DEFINE d == op[r].draft
             row == op[r].row
  <2>1. d \in DraftId /\ row \in Draft /\ Agrees(row, d)
    BY <1>7, HeldType DEF WriteRow, Serial
  <2>2. op' = [op EXCEPT ![r] = Idle] /\ drafts' = [drafts EXCEPT ![d] = row] /\ expenses' = expenses
    BY <1>7 DEF WriteRow
  <2>3. \A q \in Request : op'[q] = Idle
    BY <1>7, <2>2 DEF WriteRow, Serial, TypeOK
  <2> HIDE DEF d, row
  <2>4. \A x \in DraftId : x # d => drafts'[x] = drafts[x]
    BY <2>2 DEF TypeOK
  <2>5. Settled(d) => drafts'[d] = drafts[d]
    BY <2>1, <2>2 DEF Agrees, TypeOK
  <2>6. ASSUME NEW e \in Expense, Recorded(e)'
        PROVE  LET x == expenses[e].capture_draft_id
               IN  drafts'[x] = drafts[x] /\ Exists(x) /\ drafts[x].state = "confirmed"
                   /\ drafts[x].expense_id = e
    <3>1. Recorded(e) /\ expenses[e].capture_draft_id \in DraftId
      BY <2>2, <2>6 DEF Recorded, TypeOK, ExpenseRow
    <3> QED
      BY <2>4, <2>5, <3>1 DEF Serial, Settled
  <2> QED
    BY <2>2, <2>3, <2>6 DEF Serial, Exists
<1>8. ASSUME NEW r \in Request, NEW e \in Expense, CommitConfirm(r, e) PROVE Serial'
  <2> DEFINE d == op[r].draft
             row == op[r].row
  <2>1. d \in DraftId /\ row \in Draft
    BY <1>8, HeldType DEF CommitConfirm
  <2>2. /\ drafts' = [drafts EXCEPT ![d] = Confirm(row, e)]
        /\ ~CaptureDraftTaken(d)
        /\ op' = [op EXCEPT ![r] = Idle]
    BY <1>8 DEF CommitConfirm
  <2>3. \A q \in Request : op'[q] = Idle
    BY <1>8, <2>2 DEF CommitConfirm, Serial, TypeOK
  <2>4. drafts'[d] \in Draft /\ drafts'[d].state = "confirmed" /\ drafts'[d].expense_id = e
    BY <2>1, <2>2, ConfirmIsDraft DEF TypeOK
  <2>5. expenses'[e].capture_draft_id = d
    <3> DEFINE new == [capture_draft_id |-> d, field |-> row.field, deleted |-> FALSE]
    <3>1. expenses'[e] = new
      BY <1>8 DEF CommitConfirm, TypeOK
    <3> QED
      BY <3>1
  <2>6. \A x \in Expense : x # e => expenses'[x] = expenses[x]
    BY <1>8 DEF CommitConfirm, TypeOK
  <2> HIDE DEF d, row
  <2>7. ASSUME NEW x \in Expense, Recorded(x)'
        PROVE  LET y == expenses'[x].capture_draft_id
               IN  drafts'[y] # NoDraft /\ drafts'[y].state = "confirmed" /\ drafts'[y].expense_id = x
    <3>1. CASE x = e
      BY <2>4, <2>5, <3>1, NoDraftAssumption
    <3>2. CASE x # e
      <4>1. Recorded(x) /\ expenses'[x] = expenses[x]
        BY <2>6, <2>7, <3>2 DEF Recorded
      <4>2. expenses[x].capture_draft_id \in DraftId /\ expenses[x].capture_draft_id # d
        BY <2>2, <4>1 DEF TypeOK, Recorded, ExpenseRow, CaptureDraftTaken
      <4>3. drafts'[expenses[x].capture_draft_id] = drafts[expenses[x].capture_draft_id]
        BY <2>2, <4>2 DEF TypeOK
      <4> QED
        BY <4>1, <4>2, <4>3 DEF Serial, Exists
    <3> QED
      BY <3>1, <3>2
  <2> QED
    BY <2>3, <2>7 DEF Serial, Exists
<1>9. ASSUME NEW r \in Request, FaultConfirm(r) PROVE Serial'
  <2>1. \A q \in Request : op'[q] # Idle => op'[q] = op[q]
    BY <1>9 DEF FaultConfirm, TypeOK
  <2> QED
    BY <1>9, <2>1, SerialKept DEF FaultConfirm, Recorded
<1>10. ASSUME NEW r \in Request, Crash(r) PROVE Serial'
  <2>1. \A q \in Request : op'[q] # Idle => op'[q] = op[q]
    BY <1>10 DEF Crash, TypeOK
  <2> QED
    BY <1>10, <2>1, SerialKept DEF Crash, Recorded
<1>11. ASSUME NEW r \in Request, NEW e \in Expense, NEW b \in BOOLEAN, SetDeleted(r, e, b)
       PROVE  Serial'
  <2>1. expenses[e] \in ExpenseRow
    BY <1>11 DEF SetDeleted, Recorded, TypeOK
  <2>2. expenses' = [expenses EXCEPT ![e] = [expenses[e] EXCEPT !.deleted = b]]
    BY <1>11 DEF SetDeleted
  <2>3. expenses'[e].capture_draft_id = expenses[e].capture_draft_id
    BY <2>1, <2>2 DEF TypeOK, ExpenseRow
  <2>4. \A x \in Expense : x # e => expenses'[x] = expenses[x]
    BY <2>2 DEF TypeOK
  <2> QED
    BY <1>11, <2>3, <2>4, SerialKept DEF SetDeleted, Recorded
<1>12. ASSUME NEW d \in DraftId, ReceiptArrives(d) PROVE Serial'
  <2>1. \A x \in DraftId : Exists(x) => drafts'[x] = drafts[x]
    BY <1>12 DEF ReceiptArrives, TypeOK
  <2> QED
    BY <1>12, <2>1, SerialKept DEF ReceiptArrives, Recorded
<1>13. ASSUME NEW d \in DraftId, TimePasses(d) PROVE Serial'
  BY <1>13, SerialKept DEF TimePasses, Recorded
<1>14. ASSUME NEW d \in DraftId, NEW found \in SUBSET {"amount", "date", "merchant"},
              FinishReceipt(d, found)
       PROVE  Serial'
  <2>1. drafts[d] \in Draft /\ found \in SUBSET Field
    BY <1>14 DEF FinishReceipt, TypeOK, Field
  <2>2. \/ drafts'[d] = drafts[d]
        \/ /\ ~Settled(d) /\ ~Settled(d)'
           /\ \A f \in Field : drafts'[d].field[f].source = "user"
                               => drafts[d].field[f].source = "user"
    <3>1. CASE IsOpen(drafts[d])
      <4> DEFINE n == ApplyRecognition(drafts[d], found)
      <4>1. /\ IsOpen(n)
            /\ \A f \in Field : n.field[f].source = "user" => n.field[f] = drafts[d].field[f]
        BY <2>1, <3>1, ApplyRecognitionIsDraft
      <4>2. drafts'[d] = n
        BY <1>14, <3>1 DEF FinishReceipt, WithResult, TypeOK
      <4> HIDE DEF n
      <4> QED
        BY <3>1, <4>1, <4>2 DEF Settled, IsOpen, OpenStates
    <3>2. CASE ~IsOpen(drafts[d])
      BY <1>14, <3>2 DEF FinishReceipt, WithResult, TypeOK
    <3> QED
      BY <3>1, <3>2
  <2>3. \A x \in DraftId : x # d => drafts'[x] = drafts[x]
    BY <1>14 DEF FinishReceipt, TypeOK
  <2>4. \A r \in Request : op[r] # Idle /\ op[r].kind = "confirm" => op[r].draft # d
    BY <1>14 DEF FinishReceipt, RowLocked
  <2> QED
    BY <1>14, <2>2, <2>3, <2>4, SerialKept DEF FinishReceipt, Recorded
<1>15. ASSUME NEW d \in DraftId, FailReceipt(d) PROVE Serial'
  <2>1. drafts[d] \in Draft
    BY <1>15 DEF FailReceipt, TypeOK
  <2>2. \/ drafts'[d] = drafts[d]
        \/ ~Settled(d) /\ ~Settled(d)' /\ drafts'[d].field = drafts[d].field
    <3>1. CASE IsOpen(drafts[d])
      <4> DEFINE n == ContinueManually(drafts[d])
      <4>1. IsOpen(n) /\ n.field = drafts[d].field
        BY <2>1, <3>1, StateChangeIsDraft
      <4>2. drafts'[d] = n
        BY <1>15, <3>1 DEF FailReceipt, WithoutResult, TypeOK
      <4> HIDE DEF n
      <4> QED
        BY <3>1, <4>1, <4>2 DEF Settled, IsOpen, OpenStates
    <3>2. CASE ~IsOpen(drafts[d])
      BY <1>15, <3>2 DEF FailReceipt, WithoutResult, TypeOK
    <3> QED
      BY <3>1, <3>2
  <2>3. \A x \in DraftId : x # d => drafts'[x] = drafts[x]
    BY <1>15 DEF FailReceipt, TypeOK
  <2>4. \A r \in Request : op[r] # Idle /\ op[r].kind = "confirm" => op[r].draft # d
    BY <1>15 DEF FailReceipt, RowLocked
  <2> QED
    BY <1>15, <2>2, <2>3, <2>4, SerialKept DEF FailReceipt, Recorded
<1>16. CASE ExpireAbandoned
  <2>1. ASSUME NEW x \in Abandoned
        PROVE  /\ ~Settled(x) /\ ~Settled(x)' /\ drafts'[x].field = drafts[x].field
               /\ \A r \in Request : op[r] # Idle /\ op[r].kind = "confirm" => op[r].draft # x
    <3>1. x \in DraftId /\ IsOpen(drafts[x]) /\ drafts[x] \in Draft /\ ~RowLocked(x)
      BY <2>1, ExistsType DEF Abandoned
    <3>2. drafts'[x] = Expire(drafts[x])
      BY <1>16, <3>1 DEF ExpireAbandoned
    <3>3. drafts'[x].state = "expired" /\ drafts'[x].field = drafts[x].field
      BY <3>1, <3>2 DEF Expire, Draft
    <3> QED
      BY <3>1, <3>3 DEF Settled, IsOpen, OpenStates, RowLocked
  <2>2. \A x \in DraftId : x \notin Abandoned => drafts'[x] = drafts[x]
    BY <1>16 DEF ExpireAbandoned
  <2> QED
    BY <1>16, <2>1, <2>2, SerialKept DEF ExpireAbandoned, Recorded
<1>17. CASE UNCHANGED vars
  BY <1>17, SerialKept DEF vars, Recorded
<1> QED
  BY <1>1, <1>2, <1>3, <1>4, <1>5, <1>6, <1>7, <1>8, <1>9, <1>10, <1>11, <1>12, <1>13,
     <1>14, <1>15, <1>16, <1>17
     DEF Next, Handler, Worker

LEMMA SerialAlways == Spec => [](OneLoop => Serial)
<1>1. Init => TypeOK /\ Unique /\ (OneLoop => Serial)
  BY TypeInit, UniqueInit, SerialInit
<1>2. TypeOK /\ Unique /\ (OneLoop => Serial) /\ [Step]_<<vars, home>>
      => (TypeOK /\ Unique /\ (OneLoop => Serial))'
  <2> SUFFICES ASSUME TypeOK, Unique, OneLoop => Serial, [Next]_vars, UNCHANGED home
               PROVE  TypeOK' /\ Unique' /\ (OneLoop' => Serial')
    BY StepParts
  <2>1. TypeOK' /\ Unique'
    BY TypeStep, UniqueStep
  <2>2. OneLoop' <=> OneLoop
    BY DEF OneLoop
  <2> QED
    BY <2>1, <2>2, SerialStep
<1> QED
  BY <1>1, <1>2, PTL DEF Spec

\* With one server process, a draft an Expense was made from stays confirmed
\* and names it.
THEOREM ExpensesKeepTheirDraft == Spec => []ExpenseMeansConfirmed
<1>1. (OneLoop => Serial) => ExpenseMeansConfirmed
  BY DEF Serial, ExpenseMeansConfirmed
<1> QED
  BY <1>1, SerialAlways, PTL

\* What one step does to a row that exists.
LEMMA StepRespectsRows ==
    ASSUME OneLoop, TypeOK, Unique, Serial, [Next]_vars, NEW x \in DraftId, Exists(x)
    PROVE  /\ drafts'[x] # NoDraft
           /\ Settled(x) => drafts'[x] = drafts[x]
           /\ \A f \in Field : drafts[x].field[f].source = "user"
                               => drafts'[x].field[f].source = "user"
<1> DEFINE Respects == /\ drafts'[x] # NoDraft
                       /\ Settled(x) => drafts'[x] = drafts[x]
                       /\ \A f \in Field : drafts[x].field[f].source = "user"
                                           => drafts'[x].field[f].source = "user"
<1> SUFFICES Respects
  OBVIOUS
<1>1. drafts[x] \in Draft /\ drafts[x] # NoDraft
  BY ExistsType DEF Exists
<1>2. CASE drafts'[x] = drafts[x]
  BY <1>1, <1>2
<1>3. ASSUME NEW r \in Request, WriteRow(r) PROVE Respects
  <2> DEFINE d == op[r].draft
             row == op[r].row
  <2>1. d \in DraftId /\ row \in Draft /\ Agrees(row, d) /\ drafts' = [drafts EXCEPT ![d] = row]
    BY <1>3, HeldType DEF WriteRow, Serial
  <2> HIDE DEF d, row
  <2>2. CASE x = d
    BY <2>1, <2>2, NoDraftAssumption DEF Agrees, TypeOK
  <2>3. CASE x # d
    BY <1>2, <2>1, <2>3 DEF TypeOK
  <2> QED
    BY <2>2, <2>3
<1>4. ASSUME NEW r \in Request, NEW e \in Expense, CommitConfirm(r, e) PROVE Respects
  <2> DEFINE d == op[r].draft
             row == op[r].row
  <2>1. /\ d \in DraftId /\ row \in Draft /\ drafts[d] = row /\ IsConfirmable(row)
        /\ drafts' = [drafts EXCEPT ![d] = Confirm(row, e)]
    BY <1>4, HeldType DEF CommitConfirm, Serial, Unique
  <2> HIDE DEF d, row
  <2>2. Confirm(row, e) \in Draft /\ Confirm(row, e).field = row.field
    BY <2>1, ConfirmIsDraft
  <2>3. CASE x = d
    BY <2>1, <2>2, <2>3, NoDraftAssumption DEF IsConfirmable, Settled, TypeOK
  <2>4. CASE x # d
    BY <1>2, <2>1, <2>4 DEF TypeOK
  <2> QED
    BY <2>3, <2>4
<1>5. ASSUME NEW d \in DraftId, NEW found \in SUBSET {"amount", "date", "merchant"},
             FinishReceipt(d, found)
      PROVE  Respects
  <2> DEFINE n == ApplyRecognition(drafts[d], found)
  <2>1. drafts' = [drafts EXCEPT ![d] = IF IsOpen(drafts[d]) THEN n ELSE drafts[d]]
    BY <1>5 DEF FinishReceipt, WithResult
  <2>2. CASE x = d /\ IsOpen(drafts[d])
    <3>1. found \in SUBSET Field
      BY DEF Field
    <3>2. /\ n \in Draft
          /\ \A f \in Field : drafts[d].field[f].source = "user" => n.field[f] = drafts[d].field[f]
      BY <1>1, <2>2, <3>1, ApplyRecognitionIsDraft
    <3>3. drafts'[x] = n
      BY <2>1, <2>2 DEF TypeOK
    <3> HIDE DEF n
    <3> QED
      BY <2>2, <3>2, <3>3, NoDraftAssumption DEF Settled, IsOpen, OpenStates
  <2>3. CASE ~(x = d /\ IsOpen(drafts[d]))
    BY <1>2, <2>1, <2>3 DEF TypeOK
  <2> QED
    BY <2>2, <2>3
<1>6. ASSUME NEW d \in DraftId, FailReceipt(d) PROVE Respects
  <2> DEFINE n == ContinueManually(drafts[d])
  <2>1. drafts' = [drafts EXCEPT ![d] = IF IsOpen(drafts[d]) THEN n ELSE drafts[d]]
    BY <1>6 DEF FailReceipt, WithoutResult
  <2>2. CASE x = d /\ IsOpen(drafts[d])
    <3>1. n \in Draft /\ n.field = drafts[d].field
      BY <1>1, <2>2, StateChangeIsDraft
    <3>2. drafts'[x] = n
      BY <2>1, <2>2 DEF TypeOK
    <3> HIDE DEF n
    <3> QED
      BY <2>2, <3>1, <3>2, NoDraftAssumption DEF Settled, IsOpen, OpenStates
  <2>3. CASE ~(x = d /\ IsOpen(drafts[d]))
    BY <1>2, <2>1, <2>3 DEF TypeOK
  <2> QED
    BY <2>2, <2>3
<1>7. CASE ExpireAbandoned
  <2>1. CASE x \in Abandoned
    <3>1. drafts'[x] = Expire(drafts[x]) /\ IsOpen(drafts[x])
      BY <1>7, <2>1 DEF ExpireAbandoned, Abandoned
    <3>2. Expire(drafts[x]) \in Draft /\ Expire(drafts[x]).field = drafts[x].field
      BY <1>1, StateChangeIsDraft
    <3> QED
      BY <3>1, <3>2, NoDraftAssumption DEF Settled, IsOpen, OpenStates
  <2>2. CASE x \notin Abandoned
    BY <1>2, <1>7, <2>2 DEF ExpireAbandoned
  <2> QED
    BY <2>1, <2>2
<1>8. ASSUME NEW r \in Request, NEW d \in DraftId, StartDraft(r, d) PROVE Respects
  BY <1>2, <1>8 DEF StartDraft, TypeOK
<1>9. ASSUME NEW d \in DraftId, ReceiptArrives(d) PROVE Respects
  BY <1>2, <1>9 DEF ReceiptArrives, TypeOK
<1>10. CASE UNCHANGED drafts
  BY <1>2, <1>10
<1> HIDE DEF Respects
<1> QED
  BY <1>3, <1>4, <1>5, <1>6, <1>7, <1>8, <1>9, <1>10
     DEF Next, Handler, Worker, vars, ReadForEdit, ReadForReady, ReadForCancel, LockForConfirm,
         ConfirmAgain, FaultConfirm, Crash, SetDeleted, TimePasses

\* With one server process, a confirmed or cancelled row never changes again.
THEOREM FinalDraftsStay == Spec => FinalStays
<1> DEFINE Stay == OneLoop => \A d \in DraftId :
                      Exists(d) /\ drafts[d].state \in {"confirmed", "cancelled"}
                      => drafts'[d] = drafts[d]
<1>1. TypeOK /\ Unique /\ (OneLoop => Serial) /\ [Step]_<<vars, home>> => [Stay]_vars
  BY StepParts, StepRespectsRows DEF Settled
<1> QED
  BY <1>1, TypeCorrect, UniqueAlways, SerialAlways, PTL DEF Spec, FinalStays

\* With one server process, no step replaces a value of the user by another.
THEOREM UserValuesStay == Spec => UserValuesWin
<1> DEFINE Win == OneLoop => \A d \in DraftId, f \in Field :
                     Exists(d) /\ drafts[d].field[f].source = "user"
                     => Exists(d)' /\ drafts'[d].field[f].source = "user"
<1>1. TypeOK /\ Unique /\ (OneLoop => Serial) /\ [Step]_<<vars, home>> => [Win]_vars
  BY StepParts, StepRespectsRows DEF Exists
<1> QED
  BY <1>1, TypeCorrect, UniqueAlways, SerialAlways, PTL DEF Spec, UserValuesWin

-----------------------------------------------------------------------------
(* Counting the edits *)

LEMMA CountedInit == Init => Counted
BY DEF Init, Counted, Exists

\* A step that changes neither the revision nor the count of a draft made by
\* hand, and lets no handler hold anything new, keeps Counted.
LEMMA CountedKept ==
    ASSUME TypeOK, Unique, Counted,
           \A r \in Request : op'[r] # Idle => op'[r] = op[r],
           \A d \in DraftId : Exists(d) =>
              /\ drafts'[d] # NoDraft /\ drafts'[d].origin = drafts[d].origin
              /\ drafts[d].origin # "telegram_receipt" =>
                    drafts'[d].revision = drafts[d].revision /\ accepted'[d] = accepted[d],
           \A d \in DraftId : ~Exists(d) =>
              \/ drafts'[d] = NoDraft /\ accepted'[d] = accepted[d]
              \/ /\ drafts'[d] # NoDraft
                 /\ drafts'[d].origin # "telegram_receipt" => drafts'[d].revision = accepted'[d],
           \A d \in unfinished' : d \in unfinished \/ drafts'[d].origin = "telegram_receipt"
    PROVE  Counted'
<1>1. ASSUME NEW d \in DraftId
      PROVE  /\ drafts'[d] # NoDraft /\ drafts'[d].origin # "telegram_receipt" =>
                   drafts'[d].revision = accepted'[d]
             /\ drafts'[d] = NoDraft => accepted'[d] = 0
             /\ d \in unfinished' => drafts'[d].origin = "telegram_receipt"
  <2>1. CASE Exists(d)
    BY <2>1 DEF Counted
  <2>2. CASE ~Exists(d)
    <3>1. d \notin unfinished
      BY <2>2 DEF TypeOK, Exists
    <3> QED
      BY <2>2, <3>1 DEF Counted
  <2> QED
    BY <2>1, <2>2
<1>2. ASSUME NEW r \in Request, op'[r] # Idle
      PROVE  /\ op'[r].row.origin = drafts'[op'[r].draft].origin
             /\ op'[r].kind = "write" /\ op'[r].row.origin # "telegram_receipt" =>
                   op'[r].row.revision = accepted'[op'[r].draft] + op'[r].bumps
  <2>1. op'[r] = op[r] /\ op[r].draft \in DraftId /\ Exists(op[r].draft)
    BY <1>2, HeldType DEF Unique
  <2> QED
    BY <1>2, <2>1 DEF Counted
<1> QED
  BY <1>1, <1>2 DEF Counted, Exists

\* The first statement of a handler: the row it holds counts what it adds.
LEMMA CountedHold ==
    ASSUME TypeOK, Counted, NEW r \in Request, \A q \in Request : op[q] = Idle,
           NEW kind \in {"write", "confirm"}, NEW d \in DraftId, NEW row, NEW bumps, NEW stale,
           Hold(r, kind, d, row, bumps, stale), UNCHANGED <<drafts, accepted, unfinished>>,
           Exists(d), row.origin = drafts[d].origin,
           kind = "write" => row.revision = drafts[d].revision + bumps
    PROVE  Counted'
<1> DEFINE new == [kind |-> kind, draft |-> d, row |-> row, bumps |-> bumps, stale |-> stale]
<1>1. op' = [op EXCEPT ![r] = new]
  BY DEF Hold
<1>2. new.draft = d /\ new.row = row /\ new.kind = kind /\ new.bumps = bumps
  OBVIOUS
<1> HIDE DEF new
<1>3. op'[r] = new /\ \A q \in Request : q # r => op'[q] = Idle
  BY <1>1 DEF TypeOK
<1> QED
  BY <1>2, <1>3 DEF Counted, Exists

LEMMA CountedStep ==
    OneLoop /\ TypeOK /\ TypeOK' /\ Unique /\ Serial /\ Counted /\ [Next]_vars => Counted'
<1> SUFFICES ASSUME OneLoop, TypeOK, TypeOK', Unique, Serial, Counted, [Next]_vars
             PROVE  Counted'
  OBVIOUS
<1> USE DEF ghosts
<1>1. ASSUME NEW r \in Request, NEW d \in DraftId, StartDraft(r, d) PROVE Counted'
  <2>1. /\ drafts'[d] = Start("web_manual") /\ ~Exists(d)
        /\ \A x \in DraftId : x # d => drafts'[x] = drafts[x]
        /\ UNCHANGED <<op, unfinished, accepted>>
    BY <1>1 DEF StartDraft, TypeOK
  <2>2. Start("web_manual") \in Draft /\ Start("web_manual").revision = 0
    BY StartIsDraft DEF CaptureSource, Start
  <2>3. accepted[d] = 0
    BY <2>1 DEF Counted
  <2> QED
    BY <2>1, <2>2, <2>3, NoDraftAssumption, CountedKept DEF Exists
<1>2. ASSUME NEW r \in Request, NEW d \in DraftId, NEW edit \in Edits, ReadForEdit(r, d, edit)
      PROVE  Counted'
  <2> DEFINE row == SetFields(drafts[d], edit)
             bumps == Cardinality(DOMAIN edit)
             stale == DOMAIN edit = {} /\ d \in dormant
  <2>1. \A q \in Request : op[q] = Idle
    BY <1>2, LoopFreeMeansIdle DEF ReadForEdit
  <2>2. drafts[d] \in Draft /\ edit \in Edit /\ Exists(d)
    BY <1>2, ExistsType, EditsAssumption DEF ReadForEdit
  <2>3. row.origin = drafts[d].origin /\ row.revision = drafts[d].revision + bumps
    BY <2>2, SetFieldsIsDraft
  <2>4. Hold(r, "write", d, row, bumps, stale)
    BY <1>2 DEF ReadForEdit
  <2> HIDE DEF row, bumps, stale
  <2> QED
    BY <1>2, <2>1, <2>2, <2>3, <2>4, CountedHold DEF ReadForEdit
<1>3. ASSUME NEW r \in Request, NEW d \in DraftId, ReadForReady(r, d) PROVE Counted'
  <2> DEFINE row == MarkReadyForReview(drafts[d])
  <2>1. (\A q \in Request : op[q] = Idle) /\ drafts[d] \in Draft /\ Exists(d)
    BY <1>3, LoopFreeMeansIdle, ExistsType DEF ReadForReady
  <2>2. row.origin = drafts[d].origin /\ row.revision = drafts[d].revision + 0
    BY <2>1, StateChangeIsDraft DEF Draft
  <2>3. Hold(r, "write", d, row, 0, FALSE)
    BY <1>3 DEF ReadForReady
  <2> HIDE DEF row
  <2> QED
    BY <1>3, <2>1, <2>2, <2>3, CountedHold DEF ReadForReady
<1>4. ASSUME NEW r \in Request, NEW d \in DraftId, ReadForCancel(r, d) PROVE Counted'
  <2> DEFINE row == Cancel(drafts[d])
  <2>1. (\A q \in Request : op[q] = Idle) /\ drafts[d] \in Draft /\ Exists(d)
    BY <1>4, LoopFreeMeansIdle, ExistsType DEF ReadForCancel
  <2>2. row.origin = drafts[d].origin /\ row.revision = drafts[d].revision + 0
    BY <2>1, StateChangeIsDraft DEF Draft
  <2>3. Hold(r, "write", d, row, 0, FALSE)
    BY <1>4 DEF ReadForCancel
  <2> HIDE DEF row
  <2> QED
    BY <1>4, <2>1, <2>2, <2>3, CountedHold DEF ReadForCancel
<1>5. ASSUME NEW r \in Request, NEW d \in DraftId, LockForConfirm(r, d) PROVE Counted'
  <2>1. \A q \in Request : op[q] = Idle
    BY <1>5, LoopFreeMeansIdle DEF LockForConfirm
  <2> QED
    BY <1>5, <2>1, CountedHold DEF LockForConfirm
<1>6. ASSUME NEW r \in Request, WriteRow(r) PROVE Counted'
  <2> DEFINE d == op[r].draft
             row == op[r].row
             bumps == op[r].bumps
  <2>1. /\ d \in DraftId /\ row \in Draft /\ Exists(d) /\ row.origin = drafts[d].origin
        /\ row.origin # "telegram_receipt" => row.revision = accepted[d] + bumps
    BY <1>6, HeldType DEF WriteRow, Unique, Counted
  <2>2. /\ op' = [op EXCEPT ![r] = Idle] /\ drafts' = [drafts EXCEPT ![d] = row]
        /\ accepted' = [accepted EXCEPT ![d] = accepted[d] + bumps] /\ unfinished' = unfinished
    BY <1>6 DEF WriteRow
  <2>3. \A q \in Request : op'[q] = Idle
    BY <1>6, <2>2 DEF WriteRow, Serial, TypeOK
  <2> HIDE DEF d, row, bumps
  <2>4. /\ drafts'[d] = row /\ accepted'[d] = accepted[d] + bumps
        /\ \A x \in DraftId : x # d => drafts'[x] = drafts[x] /\ accepted'[x] = accepted[x]
    BY <2>1, <2>2 DEF TypeOK
  <2> QED
    BY <2>1, <2>2, <2>3, <2>4, NoDraftAssumption DEF Counted, Exists
<1>7. ASSUME NEW r \in Request, NEW e \in Expense, CommitConfirm(r, e) PROVE Counted'
  <2> DEFINE d == op[r].draft
             row == op[r].row
  <2>1. d \in DraftId /\ row \in Draft /\ Exists(d) /\ drafts[d] = row
    BY <1>7, HeldType DEF CommitConfirm, Unique, Serial
  <2>2. /\ drafts' = [drafts EXCEPT ![d] = Confirm(row, e)]
        /\ op' = [op EXCEPT ![r] = Idle] /\ UNCHANGED <<unfinished, accepted>>
    BY <1>7 DEF CommitConfirm
  <2> HIDE DEF d, row
  <2>3. /\ Confirm(row, e) \in Draft /\ Confirm(row, e).origin = row.origin
        /\ Confirm(row, e).revision = row.revision
    BY <2>1, ConfirmIsDraft
  <2>4. /\ drafts'[d] = Confirm(row, e) /\ \A x \in DraftId : x # d => drafts'[x] = drafts[x]
        /\ \A q \in Request : op'[q] # Idle => op'[q] = op[q]
    BY <2>1, <2>2 DEF TypeOK
  <2> QED
    BY <2>1, <2>2, <2>3, <2>4, NoDraftAssumption, CountedKept DEF Exists
<1>8. ASSUME NEW r \in Request, FaultConfirm(r) \/ Crash(r) PROVE Counted'
  <2>1. \A q \in Request : op'[q] # Idle => op'[q] = op[q]
    BY <1>8 DEF FaultConfirm, Crash, TypeOK
  <2> QED
    BY <1>8, <2>1, CountedKept DEF FaultConfirm, Crash, Exists
<1>9. ASSUME NEW d \in DraftId, ReceiptArrives(d) PROVE Counted'
  <2>1. /\ drafts'[d] = ReceiptDraft /\ ~Exists(d)
        /\ \A x \in DraftId : x # d => drafts'[x] = drafts[x] /\ accepted'[x] = accepted[x]
        /\ op' = op /\ unfinished' = unfinished \cup {d}
    BY <1>9 DEF ReceiptArrives, TypeOK
  <2> QED
    BY <2>1, ReceiptDraftIsDraft, NoDraftAssumption, CountedKept DEF Exists
<1>10. ASSUME NEW d \in DraftId, NEW found \in SUBSET {"amount", "date", "merchant"},
              FinishReceipt(d, found)
       PROVE  Counted'
  <2> DEFINE new == WithResult(drafts[d], found)
  <2>1. /\ d \in unfinished /\ drafts[d] \in Draft /\ found \in SUBSET Field
        /\ drafts[d].origin = "telegram_receipt" /\ drafts \in [DraftId -> Draft \cup {NoDraft}]
    BY <1>10 DEF FinishReceipt, TypeOK, Field, Counted
  <2>2. new \in Draft /\ new.origin = drafts[d].origin
    BY <2>1, ApplyRecognitionIsDraft DEF WithResult
  <2>3. /\ drafts' = [drafts EXCEPT ![d] = new] /\ op' = op /\ unfinished' = unfinished \ {d}
        /\ \A x \in DraftId : x # d => accepted'[x] = accepted[x]
    BY <1>10 DEF FinishReceipt, TypeOK
  <2> HIDE DEF new
  <2>4. drafts'[d] = new /\ \A x \in DraftId : x # d => drafts'[x] = drafts[x]
    BY <2>1, <2>3
  <2> QED
    BY <2>1, <2>2, <2>3, <2>4, NoDraftAssumption, CountedKept DEF Exists
<1>11. ASSUME NEW d \in DraftId, FailReceipt(d) PROVE Counted'
  <2> DEFINE new == WithoutResult(drafts[d])
  <2>1. drafts[d] \in Draft /\ drafts \in [DraftId -> Draft \cup {NoDraft}]
    BY <1>11 DEF FailReceipt, TypeOK
  <2>2. new \in Draft /\ new.origin = drafts[d].origin /\ new.revision = drafts[d].revision
    BY <2>1, StateChangeIsDraft DEF WithoutResult
  <2>3. /\ drafts' = [drafts EXCEPT ![d] = new]
        /\ op' = op /\ unfinished' = unfinished \ {d} /\ accepted' = accepted
    BY <1>11 DEF FailReceipt
  <2> HIDE DEF new
  <2>4. drafts'[d] = new /\ \A x \in DraftId : x # d => drafts'[x] = drafts[x]
    BY <2>1, <2>3
  <2>5. \A x \in DraftId : Exists(x) =>
            /\ drafts'[x] # NoDraft /\ drafts'[x].origin = drafts[x].origin
            /\ drafts'[x].revision = drafts[x].revision
    BY <2>2, <2>4, NoDraftAssumption DEF Exists
  <2>6. \A x \in DraftId : ~Exists(x) => drafts'[x] = NoDraft
    BY <2>1, <2>4, NoDraftAssumption DEF Exists
  <2> QED
    BY <2>3, <2>5, <2>6, CountedKept
<1>12. CASE ExpireAbandoned
  <2>1. ASSUME NEW x \in Abandoned
        PROVE  drafts'[x] \in Draft /\ drafts'[x].origin = drafts[x].origin
               /\ drafts'[x].revision = drafts[x].revision /\ Exists(x)
    <3>1. x \in DraftId /\ drafts[x] \in Draft /\ Exists(x)
      BY <2>1, ExistsType DEF Abandoned
    <3>2. drafts'[x] = Expire(drafts[x])
      BY <1>12, <2>1, <3>1 DEF ExpireAbandoned
    <3> QED
      BY <3>1, <3>2, StateChangeIsDraft
  <2>2. \A x \in DraftId : x \notin Abandoned => drafts'[x] = drafts[x]
    BY <1>12 DEF ExpireAbandoned
  <2>3. UNCHANGED <<op, unfinished, accepted>>
    BY <1>12 DEF ExpireAbandoned
  <2> QED
    BY <2>1, <2>2, <2>3, NoDraftAssumption, CountedKept DEF Exists
<1>13. CASE UNCHANGED <<drafts, op, unfinished, accepted>>
  BY <1>13, CountedKept DEF Exists
<1> QED
  BY <1>1, <1>2, <1>3, <1>4, <1>5, <1>6, <1>7, <1>8, <1>9, <1>10, <1>11, <1>12, <1>13
     DEF Next, Handler, Worker, vars, ConfirmAgain, SetDeleted, TimePasses

\* With one server process, no acknowledged field write of a draft made by hand is
\* lost: its revision counts them all, though edits read and write without a
\* lock and the worker and the job write in between.
THEOREM NoEditIsLost == Spec => []NoLostEdit
<1>1. Init => (OneLoop => Counted)
  BY CountedInit
<1>2. TypeOK /\ TypeOK' /\ Unique /\ (OneLoop => Serial) /\ (OneLoop => Counted)
      /\ [Step]_<<vars, home>> => (OneLoop => Counted)'
  <2> SUFFICES ASSUME TypeOK, TypeOK', Unique, OneLoop => Serial, OneLoop => Counted,
                      [Next]_vars, UNCHANGED home
               PROVE  OneLoop' => Counted'
    BY StepParts
  <2>1. OneLoop' <=> OneLoop
    BY DEF OneLoop
  <2> QED
    BY <2>1, CountedStep
<1>3. (OneLoop => Counted) => NoLostEdit
  BY DEF Counted, NoLostEdit
<1> QED
  BY <1>1, <1>2, <1>3, TypeCorrect, UniqueAlways, SerialAlways, PTL DEF Spec
=============================================================================
