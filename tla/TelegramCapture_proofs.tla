----------------------- MODULE TelegramCapture_proofs -----------------------
(***************************************************************************)
(* Proofs about TelegramCapture, for every set of drafts, recognitions,    *)
(* PATCH bodies and things a user may do on the Web.                       *)
(*                                                                         *)
(* An update computes what it writes from rows it read before, so the      *)
(* invariant says of a plan what it says of the tables: that it will leave *)
(* rows and a conversation that fit each other.  It stays so because the   *)
(* conversation's lock keeps the worker and the job from the active draft, *)
(* and the event loop everybody else.                                      *)
(***************************************************************************)
EXTENDS TelegramCapture, Recognition, TLAPS

-----------------------------------------------------------------------------
(* What a row and a conversation must be.                                  *)

\* A draft of the bot has a date from the beginning, and an amount when it is
\* under review, unless a request wrote the draft i over a result.
RowOk(i, row) ==
    /\ row \in Draft
    /\ Filled(row, "date")
    /\ "ready" \notin WebOps /\ i \notin overwritten /\ row.state = "ready_for_review" =>
           Filled(row, "amount")

\* What is asked fits the row, unless a request wrote the draft i over a result:
\* nothing while a receipt is read, and merchant or category only after the amount.
Fits(i, c, row) ==
    i \notin overwritten =>
        /\ row.state = "awaiting_recognition" => c.awaiting = "nothing"
        /\ row.state = "collecting" =>
               /\ c.awaiting \in {"amount", "merchant", "category"}
               /\ c.awaiting # "amount" => Filled(row, "amount")

NeverLower(old, new) ==
    \A f \in Field : Rank(new.field[f].source) >= Rank(old.field[f].source)

SameValues(old, new) == new.field = old.field

\* The values of the user stay the user's.
UserKeeps(old, new) ==
    \A f \in Field : old.field[f].source = "user" => new.field[f].source = "user"

RowsOk == \A d \in DraftId : Exists(d) => RowOk(d, drafts[d])

ConversationFits ==
    conv.active # NoDraft /\ Exists(conv.active) => Fits(conv.active, conv, drafts[conv.active])

\* An update that writes the conversation c and the rows R.
Writable(c, R) ==
    /\ c \in Conversation
    /\ DOMAIN R \subseteq DraftId
    /\ \A d \in DOMAIN R :
           /\ RowOk(d, R[d])
           /\ Exists(d) => d = conv.active /\ Open(d) /\ NeverLower(drafts[d], R[d])
           /\ IsOpen(R[d]) => d = c.active /\ Fits(d, c, R[d])
    /\ c.active \in DOMAIN R => IsOpen(R[c.active])
    /\ c.active # NoDraft /\ c.active \notin DOMAIN R =>
           c.active = conv.active /\ Open(c.active) /\ Fits(c.active, c, drafts[c.active])
    /\ conv.active # NoDraft /\ Open(conv.active) /\ conv.active \notin DOMAIN R =>
           c.active = conv.active

\* What a request may do to the row it read: close it, put it under review, or
\* fill fields.
Follows(read, row) ==
    \/ ~IsOpen(row)
    \/ row.state = "ready_for_review"
    \/ row.state = read.state /\ \A f \in Field : Filled(read, f) => Filled(row, f)

\* A request that read the row `read' of the draft d and holds `row'.  Meanwhile
\* the worker may have filled fields and the job closed the draft.
Held(d, read, row) ==
    /\ Exists(d) /\ (Open(d) \/ drafts[d].state = "expired")
    /\ IsOpen(read) /\ RowOk(d, row)
    /\ NeverLower(read, row) /\ Follows(read, row)
    /\ UserKeeps(drafts[d], row)

PlanOk ==
    plan # NoPlan =>
        /\ plan.stage = "write" => Writable(plan.conv, plan.rows)
        /\ plan.stage = "confirm" =>
               /\ plan = [stage |-> "confirm", conv |-> Finished, rows |-> plan.rows]
               /\ conv.active # NoDraft /\ DOMAIN plan.rows = {conv.active} /\ Open(conv.active)
        /\ plan.stage = "save" =>
               plan.conv = Finished /\ \A d \in DraftId : Open(d) => d \in orphaned \cup overwritten
        /\ plan.stage = "web" => Held(plan.draft, plan.read, plan.row)

IInv == TypeOK /\ RowsOk /\ ConversationFits /\ OneReachableDraft /\ PlanOk

-----------------------------------------------------------------------------
(* The transitions of a draft.                                             *)

LEMMA SetFieldRow ==
    ASSUME NEW d \in Draft, NEW f \in Field, NEW source \in Provenance, NEW sound \in BOOLEAN
    PROVE  LET n == SetField(d, f, source, sound)
           IN  /\ n \in Draft /\ n.state = d.state /\ n.origin = d.origin
               /\ n.field[f].source = source
               /\ \A g \in Field : g # f => n.field[g] = d.field[g]
<1> DEFINE values == [d.field EXCEPT ![f] = [source |-> source, sound |-> sound]]
           revision == d.revision + 1
<1>1. values \in [Field -> Slot] /\ values[f].source = source
      /\ \A g \in Field : g # f => values[g] = d.field[g]
  BY DEF Draft, Slot
<1>2. SetField(d, f, source, sound) = [d EXCEPT !.field = values, !.revision = revision]
  BY DEF SetField
<1>3. revision \in Nat
  BY DEF Draft
<1> HIDE DEF values, revision
<1> QED
  BY <1>1, <1>2, <1>3 DEF Draft

\* A new draft of the bot, by hand or from a photo, is collected or waits.
LEMMA NewRows ==
    /\ ManualDraft.state = "collecting" /\ ReceiptDraft.state = "awaiting_recognition"
    /\ \A i : RowOk(i, ManualDraft) /\ RowOk(i, ReceiptDraft)
<1>1. Start("telegram_manual") \in Draft /\ StartFromReceipt \in Draft
  BY DEF Start, StartFromReceipt, Draft, CaptureSource, OpenStates, FinalStates, Slot,
         Provenance, EmptySlot
<1>2. Start("telegram_manual").state = "collecting" /\ StartFromReceipt.state = "awaiting_recognition"
  BY DEF Start, StartFromReceipt
<1>3. "date" \in Field /\ "default" \in Provenance /\ TRUE \in BOOLEAN
  BY DEF Field, Provenance
<1>4. \A d \in Draft : LET n == SetField(d, "date", "default", TRUE)
                       IN  n \in Draft /\ n.state = d.state /\ n.field["date"].source = "default"
  BY <1>3, SetFieldRow
<1>5. /\ ManualDraft \in Draft /\ ManualDraft.state = "collecting"
      /\ ManualDraft.field["date"].source = "default"
  BY <1>1, <1>2, <1>4 DEF ManualDraft
<1>6. /\ ReceiptDraft \in Draft /\ ReceiptDraft.state = "awaiting_recognition"
      /\ ReceiptDraft.field["date"].source = "default"
  BY <1>1, <1>2, <1>4 DEF ReceiptDraft
<1> QED
  BY <1>5, <1>6 DEF RowOk, Filled

\* The rank of a source is a number, and the user's is the highest.
LEMMA Ranks ==
    /\ \A s \in Provenance : Rank(s) \in Nat /\ Rank(s) <= 3
    /\ Rank("user") = 3 /\ Rank("none") = 0 /\ Rank("default") = 1 /\ Rank("recognition") = 2
BY DEF Rank, Provenance

LEMMA SameFieldsNeverLower ==
    ASSUME NEW d \in Draft, NEW n, n.field = d.field
    PROVE  NeverLower(d, n)
BY Ranks DEF NeverLower, Draft, Slot

\* What the user sets is never lower, and what was filled stays filled.
LEMMA UserSets ==
    ASSUME NEW d \in Draft, NEW f \in Field, NEW sound \in BOOLEAN
    PROVE  LET n == SetField(d, f, "user", sound)
           IN  /\ n \in Draft /\ n.state = d.state /\ n.origin = d.origin
               /\ Filled(n, f) /\ NeverLower(d, n)
               /\ \A g \in Field : Filled(d, g) => Filled(n, g)
<1> DEFINE n == SetField(d, f, "user", sound)
<1>1. /\ n \in Draft /\ n.state = d.state /\ n.origin = d.origin
      /\ n.field[f].source = "user" /\ \A g \in Field : g # f => n.field[g] = d.field[g]
  BY SetFieldRow DEF Provenance
<1> HIDE DEF n
<1>2. NeverLower(d, n)
  BY <1>1, Ranks DEF NeverLower, Draft, Slot
<1>3. Filled(n, f) /\ \A g \in Field : Filled(d, g) => Filled(n, g)
  BY <1>1 DEF Filled
<1> QED
  BY <1>1, <1>2, <1>3 DEF n

\* A recognition fills what was empty or a default, and a draft that waited for
\* it is collected, or under review with its amount.
LEMMA Recognised ==
    ASSUME NEW i, NEW d, RowOk(i, d), NEW found \in SUBSET {"amount", "date", "merchant"}
    PROVE  LET n == ApplyRecognition(d, found)
           IN  /\ RowOk(i, n) /\ NeverLower(d, n) /\ UserKeeps(n, d)
               /\ \A g \in Field : Filled(d, g) => Filled(n, g)
               /\ d.state # "awaiting_recognition" => n.state = d.state
               /\ d.state = "awaiting_recognition" =>
                      \/ n.state = "collecting"
                      \/ n.state = "ready_for_review" /\ Filled(n, "amount")
<1> DEFINE filled == [f \in Field |->
                      IF f \in found /\ MayFill(d, f)
                      THEN [source |-> "recognition", sound |-> TRUE]
                      ELSE IF f = "category" /\ ~Filled(d, "category")
                      THEN [source |-> "default", sound |-> TRUE]
                      ELSE d.field[f]]
           state == AfterRecognition(d, filled)
           revision == d.revision + 1
           n == ApplyRecognition(d, found)
<1>1. /\ d \in Draft /\ d.field \in [Field -> Slot] /\ d.revision \in Nat
      /\ d.state \in OpenStates \cup FinalStates
  BY DEF RowOk, Draft
<1>2. filled \in [Field -> Slot]
  BY <1>1 DEF Slot, Provenance
<1>3. \A g \in Field : /\ Filled(d, g) => filled[g].source # "none"
                       /\ Rank(filled[g].source) >= Rank(d.field[g].source)
                       /\ filled[g].source = "user" => d.field[g].source = "user"
  <2> SUFFICES ASSUME NEW g \in Field
               PROVE  /\ Filled(d, g) => filled[g].source # "none"
                      /\ Rank(filled[g].source) >= Rank(d.field[g].source)
                      /\ filled[g].source = "user" => d.field[g].source = "user"
    OBVIOUS
  <2>1. \/ filled[g].source = "recognition" /\ d.field[g].source \in {"none", "default"}
        \/ filled[g].source = "default" /\ d.field[g].source = "none"
        \/ filled[g] = d.field[g]
    BY DEF MayFill, Filled
  <2>2. filled[g].source \in Provenance /\ d.field[g].source \in Provenance
    BY <1>1, <1>2 DEF Slot
  <2> HIDE DEF filled
  <2> QED
    BY <2>1, <2>2, Ranks DEF Filled
<1>4. "amount" \in Field /\ "date" \in Field
  BY DEF Field
<1>5. /\ d.state # "awaiting_recognition" => state = d.state
      /\ d.state = "awaiting_recognition" =>
             state = "collecting" \/ (state = "ready_for_review" /\ filled["amount"].source # "none")
      /\ state \in OpenStates \cup FinalStates
  <2> HIDE DEF filled
  <2> QED
    BY <1>1 DEF AfterRecognition, OpenStates
<1>6. n = [d EXCEPT !.field = filled, !.state = state, !.revision = revision]
  BY DEF ApplyRecognition
<1>7. revision \in Nat
  BY <1>1
<1> HIDE DEF filled, state, revision, n
<1>8. n \in Draft /\ n.field = filled /\ n.state = state
  BY <1>1, <1>2, <1>5, <1>6, <1>7 DEF Draft
<1>9. \A g \in Field : Filled(d, g) => Filled(n, g)
  BY <1>3, <1>8 DEF Filled
<1>10. NeverLower(d, n) /\ UserKeeps(n, d)
  BY <1>3, <1>8 DEF NeverLower, UserKeeps
<1>11. RowOk(i, n)
  BY <1>4, <1>5, <1>8, <1>9 DEF RowOk, Filled
<1> QED
  BY <1>5, <1>8, <1>9, <1>10, <1>11 DEF n, Filled

\* A PATCH body only puts the user's values in.
LEMMA Edited ==
    ASSUME NEW i, NEW d, RowOk(i, d), NEW edit \in Edits
    PROVE  LET n == Row(SetFields(d, edit))
           IN  /\ RowOk(i, n) /\ NeverLower(d, n) /\ UserKeeps(d, n) /\ n.state = d.state
               /\ \A g \in Field : Filled(d, g) => Filled(n, g)
<1> DEFINE named == [f \in Field |-> IF f \in DOMAIN edit
                                     THEN [source |-> "user", sound |-> edit[f]]
                                     ELSE d.field[f]]
           n == Row(SetFields(d, edit))
<1>1. d \in Draft /\ d.field \in [Field -> Slot] /\ d.state \in OpenStates \cup FinalStates
  BY DEF RowOk, Draft
<1>2. \A f \in DOMAIN edit : edit[f] \in BOOLEAN
  BY EditsAssumption DEF Edit
<1>3. named \in [Field -> Slot]
  BY <1>1, <1>2 DEF Slot, Provenance
<1>4. \A g \in Field : /\ Filled(d, g) => named[g].source # "none"
                       /\ Rank(named[g].source) >= Rank(d.field[g].source)
                       /\ d.field[g].source = "user" => named[g].source = "user"
  BY <1>1, Ranks DEF Filled, Slot
<1>5. SetFields(d, edit) =
          [d EXCEPT !.field = named, !.revision = d.revision + Cardinality(DOMAIN edit)]
  BY DEF SetFields
<1> HIDE DEF named
<1>6. n = [d EXCEPT !.field = named, !.state = d.state, !.revision = 0]
  BY <1>1, <1>5 DEF Row, Draft
<1> HIDE DEF n
<1>7. n \in Draft /\ n.field = named /\ n.state = d.state
  BY <1>1, <1>3, <1>6 DEF Draft
<1>8. /\ \A g \in Field : Filled(d, g) => Filled(n, g)
      /\ NeverLower(d, n) /\ UserKeeps(d, n)
  BY <1>4, <1>7 DEF Filled, NeverLower, UserKeeps
<1>9. RowOk(i, n)
  BY <1>7, <1>8 DEF RowOk, Field
<1> QED
  BY <1>7, <1>8, <1>9 DEF n

\* The transitions that change the state leave the fields alone.
LEMMA StateChanges ==
    ASSUME NEW i, NEW d, RowOk(i, d)
    PROVE  /\ Cancel(d).state = "cancelled" /\ Expire(d).state = "expired"
           /\ MarkReadyForReview(d).state = "ready_for_review"
           /\ d.state = "awaiting_recognition" => ContinueManually(d).state = "collecting"
           /\ d.state # "awaiting_recognition" => ContinueManually(d) = d
           /\ RowOk(i, Cancel(d)) /\ RowOk(i, Expire(d)) /\ RowOk(i, ContinueManually(d))
           /\ Filled(d, "amount") \/ "ready" \in WebOps \/ i \in overwritten =>
                  RowOk(i, MarkReadyForReview(d))
           /\ Cancel(d).field = d.field /\ NeverLower(d, Cancel(d))
           /\ Expire(d).field = d.field /\ NeverLower(d, Expire(d))
           /\ ContinueManually(d).field = d.field /\ NeverLower(d, ContinueManually(d))
           /\ MarkReadyForReview(d).field = d.field /\ NeverLower(d, MarkReadyForReview(d))
           /\ \A e \in DraftId : /\ RowOk(i, Confirm(d, e)) /\ NeverLower(d, Confirm(d, e))
                                 /\ Confirm(d, e).state = "confirmed"
<1>1. d \in Draft
  BY DEF RowOk
<1>2. \A n \in {Cancel(d), Expire(d), ContinueManually(d), MarkReadyForReview(d)} :
          n \in Draft /\ n.field = d.field
  BY <1>1 DEF Cancel, Expire, ContinueManually, MarkReadyForReview, Draft, OpenStates, FinalStates
<1>3. \A e \in DraftId : /\ Confirm(d, e) \in Draft /\ Confirm(d, e).field = d.field
                         /\ Confirm(d, e).state = "confirmed"
  BY <1>1 DEF Confirm, Draft, OpenStates, FinalStates
<1>4. /\ Cancel(d).state = "cancelled" /\ Expire(d).state = "expired"
      /\ MarkReadyForReview(d).state = "ready_for_review"
      /\ d.state = "awaiting_recognition" => ContinueManually(d).state = "collecting"
      /\ d.state # "awaiting_recognition" => ContinueManually(d) = d
  BY <1>1 DEF Cancel, Expire, ContinueManually, MarkReadyForReview, Draft
<1>5. \A n \in {Cancel(d), Expire(d), ContinueManually(d), MarkReadyForReview(d)} :
          /\ NeverLower(d, n)
          /\ \A f \in Field : Filled(n, f) <=> Filled(d, f)
  BY <1>1, <1>2, SameFieldsNeverLower DEF Filled
<1>6. RowOk(i, Cancel(d)) /\ RowOk(i, Expire(d)) /\ RowOk(i, ContinueManually(d))
  BY <1>2, <1>4, <1>5 DEF RowOk, Field
<1>7. Filled(d, "amount") \/ "ready" \in WebOps \/ i \in overwritten =>
          RowOk(i, MarkReadyForReview(d))
  BY <1>2, <1>4, <1>5 DEF RowOk, Field
<1>8. \A e \in DraftId : RowOk(i, Confirm(d, e)) /\ NeverLower(d, Confirm(d, e))
  BY <1>1, <1>3, SameFieldsNeverLower DEF RowOk, Filled
<1> QED
  BY <1>2, <1>3, <1>4, <1>5, <1>6, <1>7, <1>8

\* The revision, which Row resets, matters to nothing here.
LEMMA RowKeeps ==
    ASSUME NEW i, NEW d, RowOk(i, d)
    PROVE  RowOk(i, Row(d)) /\ Row(d).field = d.field /\ Row(d).state = d.state
<1>1. Row(d) \in Draft /\ Row(d).field = d.field /\ Row(d).state = d.state
  BY DEF Row, RowOk, Draft
<1> QED
  BY <1>1 DEF RowOk, Filled

\* What is left of the row, and asked of it, fits.
Advanced(i, c, row, a) ==
    /\ RowOk(i, a.row) /\ IsOpen(a.row) /\ SameValues(row, a.row)
    /\ a.conv \in Conversation /\ a.conv.active = c.active
    /\ Fits(i, a.conv, a.row)

\* _advance of an open draft whose amount is known asks for merchant or category,
\* or for nothing when the draft is under review.
LEMMA Advancing ==
    ASSUME NEW i, NEW c \in Conversation, NEW row, RowOk(i, row),
           NEW next \in {"merchant", "category"}, row.state \in OpenStates,
           i \notin overwritten => /\ row.state # "awaiting_recognition"
                                   /\ row.state = "collecting" => Filled(row, "amount")
    PROVE  Advanced(i, c, row, Advance(c, row, next))
<1> DEFINE question == NextQuestion(row, next)
           after == IF CanMarkReady(row) /\ AllAnswered(row, question)
                    THEN MarkReadyForReview(row) ELSE row
           asked == IF after.state = "collecting" THEN question ELSE "nothing"
<1>1. question \in {"merchant", "category"}
  BY DEF NextQuestion
<1>2. /\ RowOk(i, after) /\ after.field = row.field
      /\ after.state \in OpenStates
      /\ i \notin overwritten => /\ after.state # "awaiting_recognition"
                                 /\ after.state = "collecting" => Filled(after, "amount")
  BY StateChanges DEF CanMarkReady, OpenStates
<1>3. asked \in AwaitingInput /\ (after.state = "collecting" => asked \in {"merchant", "category"})
  BY <1>1 DEF AwaitingInput
<1>4. Advance(c, row, next) = [row |-> after, conv |-> WaitingFor(c, asked)]
  BY DEF Advance
<1> HIDE DEF question, after, asked
<1>5. /\ WaitingFor(c, asked) \in Conversation /\ WaitingFor(c, asked).active = c.active
      /\ WaitingFor(c, asked).awaiting = asked
  BY <1>3 DEF WaitingFor, Conversation
<1>6. IsOpen(after)
  BY <1>2 DEF IsOpen
<1>7. Fits(i, WaitingFor(c, asked), after)
  BY <1>2, <1>3, <1>5 DEF Fits
<1> QED
  BY <1>2, <1>4, <1>5, <1>6, <1>7 DEF SameValues, Advanced

-----------------------------------------------------------------------------
(* What a step may do to the drafts: it adds rows, leaves closed drafts      *)
(* alone and sets no field back.                                             *)

Kept ==
    \A d \in DraftId :
        Exists(d) => /\ ~Open(d) => drafts'[d] = drafts[d]
                     /\ NeverLower(drafts[d], drafts'[d])

\* The same, but for a request that writes over what was committed meanwhile.
KeptOrOverwritten ==
    \A d \in DraftId :
        Exists(d) =>
            /\ ~Open(d) /\ drafts'[d] # drafts[d] => Overwrites(d) /\ drafts[d].state = "expired"
            /\ \A f \in Field :
                  \/ Rank(drafts'[d].field[f].source) >= Rank(drafts[d].field[f].source)
                  \/ Overwrites(d) /\ drafts[d].field[f].source # "user"

LEMMA RowsAreDrafts ==
    ASSUME IInv, NEW d \in DraftId, Exists(d)
    PROVE  RowOk(d, drafts[d]) /\ drafts[d] \in Draft
BY DEF IInv, RowsOk, RowOk

\* A row that is not there is not a draft, so every draft that is read is one.
LEMMA NoRowIsNoDraft == NoRow \notin Draft /\ ~IsOpen(NoRow)
BY DEF NoRow, Draft, IsOpen, OpenStates, FinalStates

\* What the invariant and Kept read does not change.
LEMMA SameDrafts ==
    ASSUME IInv, drafts' = drafts
    PROVE  Kept
BY RowsAreDrafts, SameFieldsNeverLower DEF Kept

\* The draft a handler works on is open and is the conversation's.
LEMMA Active ==
    /\ ActiveDraft # NoDraft =>
           ActiveDraft = conv.active /\ conv.active # NoDraft /\ Open(conv.active)
    /\ ActiveDraft = NoDraft => conv.active = NoDraft \/ ~Open(conv.active)
BY DEF ActiveDraft

\* An update that computes something Writable keeps the invariant.
LEMMA WriteKeeps ==
    ASSUME IInv, Quiet, NEW c, NEW R, Write(c, R), Writable(c, R)
    PROVE  IInv' /\ Kept
<1>1. /\ plan' = [stage |-> "write", conv |-> c, rows |-> R]
      /\ UNCHANGED <<drafts, conv, unfinished, dormant, orphaned, overwritten>>
  BY DEF Write, history
<1>2. plan'.stage = "write" /\ plan'.conv = c /\ plan'.rows = R
  BY <1>1
<1>3. TypeOK'
  BY <1>1, <1>2 DEF IInv, TypeOK, Writable, RowOk
<1>4. PlanOk'
  BY <1>1, <1>2 DEF PlanOk, Writable, Exists, Open, Fits, NeverLower, RowOk
<1>5. (RowsOk /\ ConversationFits /\ OneReachableDraft)'
  BY <1>1 DEF IInv, RowsOk, ConversationFits, OneReachableDraft, Exists, Open, Fits, RowOk
<1> QED
  BY <1>1, <1>3, <1>4, <1>5, SameDrafts DEF IInv

\* An update that writes no draft may change what is asked, within what fits.
LEMMA WritableNoRows ==
    ASSUME IInv, NEW c \in Conversation,
           c.active = conv.active, conv.active # NoDraft, Open(conv.active),
           Fits(conv.active, c, drafts[conv.active])
    PROVE  Writable(c, NoRows)
BY DEF Writable, NoRows

\* An update of the active draft.
LEMMA WritableActive ==
    ASSUME IInv, NEW c \in Conversation, NEW row, RowOk(conv.active, row),
           conv.active # NoDraft, Open(conv.active), NeverLower(drafts[conv.active], row),
           \/ IsOpen(row) /\ c.active = conv.active /\ Fits(conv.active, c, row)
           \/ ~IsOpen(row) /\ c.active = NoDraft
    PROVE  Writable(c, One(conv.active, row))
<1> DEFINE d == conv.active
           R == One(d, row)
<1>1. d \in DraftId
  BY DEF IInv, TypeOK, Conversation
<1>2. DOMAIN R = {d} /\ R[d] = row
  BY DEF One
<1> HIDE DEF R
<1> QED
  BY <1>1, <1>2, NoDraftAssumption DEF Writable, R

\* An update that starts a draft when none is active.
LEMMA WritableNew ==
    ASSUME IInv, NEW c \in Conversation, NEW n \in DraftId, NEW row, RowOk(n, row), IsOpen(row),
           ~Exists(n), c.active = n, Fits(n, c, row),
           ActiveDraft = NoDraft
    PROVE  Writable(c, One(n, row))
<1> DEFINE R == One(n, row)
<1>1. DOMAIN R = {n} /\ R[n] = row
  BY DEF One
<1> HIDE DEF R
<1> QED
  BY <1>1, Active, NoDraftAssumption DEF Writable, R

-----------------------------------------------------------------------------
(* The updates.                                                              *)

\* What the code knows of the draft it works on.
LEMMA ActiveRow ==
    ASSUME IInv, conv.active # NoDraft, Open(conv.active)
    PROVE  /\ conv.active \in DraftId /\ conv \in Conversation
           /\ RowOk(conv.active, drafts[conv.active]) /\ drafts[conv.active] \in Draft
           /\ Fits(conv.active, conv, drafts[conv.active])
           /\ drafts[conv.active].state \in OpenStates
<1>1. conv.active \in DraftId /\ conv \in Conversation /\ Exists(conv.active)
  BY DEF IInv, TypeOK, Conversation, Open
<1>2. Fits(conv.active, conv, drafts[conv.active])
  BY <1>1 DEF IInv, ConversationFits
<1> QED
  BY <1>1, <1>2, RowsAreDrafts DEF Open, IsOpen

\* The changes of a conversation.
LEMMA Conversations ==
    ASSUME NEW c \in Conversation
    PROVE  /\ \A p \in BOOLEAN : /\ WithPending(c, p) \in Conversation
                                 /\ WithPending(c, p).active = c.active
                                 /\ WithPending(c, p).awaiting = c.awaiting
           /\ \A a \in AwaitingInput : /\ WaitingFor(c, a) \in Conversation
                                       /\ WaitingFor(c, a).active = c.active
                                       /\ WaitingFor(c, a).awaiting = a
           /\ \A d \in DraftId : \A a \in AwaitingInput :
                 /\ WithDraft(c, d, a) \in Conversation
                 /\ WithDraft(c, d, a).active = d /\ WithDraft(c, d, a).awaiting = a
           /\ Finished \in Conversation /\ Finished.active = NoDraft
BY DEF WithPending, WaitingFor, WithDraft, Finished, Conversation, AwaitingInput

\* The photo that waits is no part of what fits.
LEMMA PendingFits ==
    ASSUME NEW i, NEW c \in Conversation, NEW row, Fits(i, c, row), NEW p \in BOOLEAN
    PROVE  Fits(i, WithPending(c, p), row)
BY Conversations DEF Fits

LEMMA FindsNothingKeeps ==
    ASSUME IInv, Quiet, FindsNothing
    PROVE  IInv' /\ Kept
<1>1. Write(Finished, NoRows)
  BY DEF FindsNothing
<1>2. Writable(Finished, NoRows)
  BY Active, Conversations, NoDraftAssumption
     DEF FindsNothing, Writable, NoRows, Finished, Conversation, AwaitingInput
<1> QED
  BY <1>1, <1>2, WriteKeeps

\* The user sends nothing but a change of what is asked, or of the photo.
LEMMA AskingKeeps ==
    ASSUME IInv, Quiet, conv.active # NoDraft, Open(conv.active),
           NEW c \in Conversation, c.active = conv.active, Fits(conv.active, c, drafts[conv.active]),
           Write(c, NoRows)
    PROVE  IInv' /\ Kept
BY WritableNoRows, WriteKeeps

LEMMA AddKeeps ==
    ASSUME IInv, NEW n \in DraftId, Add(n)
    PROVE  IInv' /\ Kept
<1>1. Quiet
  BY DEF Add
<1>2. CASE ActiveDraft # NoDraft /\ conv.pending /\ Write(WithPending(conv, FALSE), NoRows)
  BY <1>1, <1>2, Active, ActiveRow, Conversations, PendingFits, AskingKeeps
<1>3. CASE ActiveDraft = NoDraft /\ ~Exists(n)
           /\ Write(WithDraft(conv, n, "amount"), One(n, ManualDraft))
  <2>1. conv \in Conversation /\ "amount" \in AwaitingInput
    BY DEF IInv, TypeOK, AwaitingInput
  <2>2. /\ WithDraft(conv, n, "amount") \in Conversation
        /\ WithDraft(conv, n, "amount").active = n
        /\ WithDraft(conv, n, "amount").awaiting = "amount"
    BY <2>1, Conversations
  <2>3. RowOk(n, ManualDraft) /\ IsOpen(ManualDraft) /\ Fits(n, WithDraft(conv, n, "amount"), ManualDraft)
    BY <2>2, NewRows DEF Fits, IsOpen, OpenStates
  <2> QED
    BY <1>1, <1>3, <2>2, <2>3, WritableNew, WriteKeeps
<1> QED
  BY <1>2, <1>3 DEF Add

LEMMA PhotoKeeps ==
    ASSUME IInv, NEW n \in DraftId, Photo(n)
    PROVE  IInv' /\ Kept
<1>1. Quiet
  BY DEF Photo
<1>2. CASE ActiveDraft # NoDraft /\ Write(WithPending(conv, TRUE), NoRows)
  BY <1>1, <1>2, Active, ActiveRow, Conversations, PendingFits, AskingKeeps
<1>3. CASE ActiveDraft = NoDraft /\ ~Exists(n)
           /\ Write(WithDraft(conv, n, "nothing"), One(n, ReceiptDraft))
  <2>1. conv \in Conversation /\ "nothing" \in AwaitingInput
    BY DEF IInv, TypeOK, AwaitingInput
  <2>2. /\ WithDraft(conv, n, "nothing") \in Conversation
        /\ WithDraft(conv, n, "nothing").active = n
        /\ WithDraft(conv, n, "nothing").awaiting = "nothing"
    BY <2>1, Conversations
  <2>3. RowOk(n, ReceiptDraft) /\ IsOpen(ReceiptDraft) /\ Fits(n, WithDraft(conv, n, "nothing"), ReceiptDraft)
    BY <2>2, NewRows DEF Fits, IsOpen, OpenStates
  <2> QED
    BY <1>1, <1>3, <2>2, <2>3, WritableNew, WriteKeeps
<1> QED
  BY <1>2, <1>3 DEF Photo

\* /cancel and the button Cancel.
LEMMA CancelKeeps ==
    ASSUME IInv, Quiet, conv.active # NoDraft, Open(conv.active),
           Write(Finished, One(conv.active, Cancel(drafts[conv.active])))
    PROVE  IInv' /\ Kept
<1> DEFINE row == Cancel(drafts[conv.active])
<1>0. RowOk(conv.active, drafts[conv.active])
  BY ActiveRow
<1>1. RowOk(conv.active, row) /\ NeverLower(drafts[conv.active], row) /\ row.state = "cancelled"
  BY <1>0, StateChanges
<1>2. ~IsOpen(row)
  BY <1>1 DEF IsOpen, OpenStates
<1>3. Finished \in Conversation /\ Finished.active = NoDraft
  BY ActiveRow, Conversations
<1>4. Writable(Finished, One(conv.active, row))
  <2> HIDE DEF row
  <2> QED
    BY <1>1, <1>2, <1>3, WritableActive
<1> QED
  BY <1>4, WriteKeeps

\* _advance after the active draft was given `row'.
LEMMA AdvancesKeeps ==
    ASSUME IInv, Quiet, conv.active # NoDraft, Open(conv.active),
           NEW c \in Conversation, c.active = conv.active,
           NEW next \in {"merchant", "category"},
           NEW row, RowOk(conv.active, row), NeverLower(drafts[conv.active], row),
           row.state \in OpenStates,
           conv.active \notin overwritten => /\ row.state # "awaiting_recognition"
                                             /\ row.state = "collecting" => Filled(row, "amount"),
           Advances(conv.active, c, row, next)
    PROVE  IInv' /\ Kept
<1> DEFINE a == Advance(c, row, next)
<1>0. PICK d : d = conv.active
  OBVIOUS
<1>1. Advanced(d, c, row, a)
  <2>1. RowOk(d, row)
    BY <1>0
  <2>2. d \notin overwritten => /\ row.state # "awaiting_recognition"
                                /\ row.state = "collecting" => Filled(row, "amount")
    BY <1>0
  <2>3. c \in Conversation /\ next \in {"merchant", "category"} /\ row.state \in OpenStates
    OBVIOUS
  <2> QED
    BY <2>1, <2>2, <2>3, Advancing
<1>2. Write(a.conv, One(conv.active, a.row))
  BY DEF Advances
<1> HIDE DEF a
<1>3. NeverLower(drafts[conv.active], a.row)
  BY <1>1 DEF NeverLower, SameValues, Advanced
<1>4. Writable(a.conv, One(conv.active, a.row))
  BY <1>0, <1>1, <1>3, WritableActive DEF Advanced
<1> QED
  BY <1>2, <1>4, WriteKeeps

\* An answer, typed or from the buttons of the date.
LEMMA TypedKeeps ==
    ASSUME IInv, Quiet, conv.active # NoDraft, Open(conv.active),
           conv.active \notin overwritten => drafts[conv.active].state # "awaiting_recognition",
           \/ OnAmount(conv.active) \/ OnCurrency(conv.active)
           \/ OnMerchant(conv.active) \/ OnDate(conv.active)
    PROVE  IInv' /\ Kept
<1> DEFINE d == conv.active
           old == drafts[d]
           Set(f, sound) == SetField(old, f, "user", sound)
<1>1. /\ d \in DraftId /\ conv \in Conversation /\ RowOk(d, old) /\ old \in Draft
      /\ Fits(d, conv, old) /\ old.state \in OpenStates
      /\ d \notin overwritten => old.state # "awaiting_recognition"
  BY ActiveRow
<1>2. /\ WithPending(conv, FALSE) \in Conversation
      /\ WithPending(conv, FALSE).active = conv.active
      /\ WaitingFor(conv, "amount") \in Conversation
      /\ WaitingFor(conv, "amount").active = conv.active
      /\ WaitingFor(conv, "amount").awaiting = "amount"
  <2>1. conv \in Conversation /\ "amount" \in AwaitingInput /\ FALSE \in BOOLEAN
    BY <1>1 DEF AwaitingInput
  <2> QED
    BY ONLY <2>1, Conversations
<1>3. ASSUME NEW f \in Field, NEW sound \in BOOLEAN
      PROVE  /\ RowOk(d, Set(f, sound)) /\ NeverLower(old, Set(f, sound))
             /\ Set(f, sound).state = old.state
             /\ Filled(Set(f, sound), f)
             /\ Filled(old, "amount") => Filled(Set(f, sound), "amount")
  <2>1. /\ Set(f, sound) \in Draft /\ Set(f, sound).state = old.state
        /\ Filled(Set(f, sound), f) /\ NeverLower(old, Set(f, sound))
        /\ \A g \in Field : Filled(old, g) => Filled(Set(f, sound), g)
    BY <1>1, UserSets
  <2> HIDE DEF Set
  <2> QED
    BY <1>1, <2>1 DEF RowOk, Field
<1>4. {"amount", "date", "merchant", "category"} = Field /\ TRUE \in BOOLEAN
      /\ \A f \in Field : old.field[f].sound \in BOOLEAN
  BY <1>1 DEF Field, Draft, Slot
<1> HIDE DEF Set
<1>5. CASE OnAmount(d)
  <2>1. Advances(d, WithPending(conv, FALSE), Set("amount", TRUE), "merchant")
    BY <1>5 DEF OnAmount, Set
  <2> QED
    BY <1>1, <1>2, <1>3, <1>4, <2>1, AdvancesKeeps
<1>6. CASE OnCurrency(d)
  <2>1. CASE Write(WaitingFor(conv, "amount"), NoRows)
    <3>1. conv.awaiting = "currency"
      BY <1>6 DEF OnCurrency
    <3>2. Fits(d, WaitingFor(conv, "amount"), old)
      BY <1>1, <1>2, <3>1 DEF Fits
    <3> QED
      BY <1>2, <2>1, <3>2, AskingKeeps
  <2>2. CASE Advances(d, WithPending(conv, FALSE), Set("amount", old.field["amount"].sound), "merchant")
    BY <1>1, <1>2, <1>3, <1>4, <2>2, AdvancesKeeps
  <2> QED
    BY <1>6, <2>1, <2>2 DEF OnCurrency, Set
<1>7. CASE OnMerchant(d)
  <2>1. Advances(d, conv, Set("merchant", TRUE), "category") /\ conv.awaiting = "merchant"
    BY <1>7 DEF OnMerchant, Set
  <2>2. d \notin overwritten => (old.state = "collecting" => Filled(old, "amount"))
    BY <1>1, <2>1 DEF Fits
  <2> QED
    BY <1>1, <1>3, <1>4, <2>1, <2>2, AdvancesKeeps
<1>8. CASE OnDate(d)
  <2>1. Advances(d, conv, Set("date", TRUE), "merchant") /\ conv.awaiting = "date"
    BY <1>8 DEF OnDate, Set
  <2>2. d \notin overwritten => old.state # "collecting"
    BY <1>1, <2>1 DEF Fits
  <2> QED
    BY <1>1, <1>3, <1>4, <2>1, <2>2, AdvancesKeeps
<1> QED
  BY <1>5, <1>6, <1>7, <1>8

LEMMA TextKeeps ==
    ASSUME IInv, Text
    PROVE  IInv' /\ Kept
BY Active, FindsNothingKeeps, TypedKeeps DEF Text

LEMMA SkipKeeps ==
    ASSUME IInv, Quiet, conv.active # NoDraft, Open(conv.active), Skip(conv.active)
    PROVE  IInv' /\ Kept
<1>1. /\ conv \in Conversation /\ RowOk(conv.active, drafts[conv.active]) /\ drafts[conv.active] \in Draft
      /\ Fits(conv.active, conv, drafts[conv.active]) /\ drafts[conv.active].state \in OpenStates
  BY ActiveRow
<1>2. conv.awaiting = "merchant" /\ Advances(conv.active, conv, drafts[conv.active], "category")
  BY DEF Skip
<1>3. conv.active \notin overwritten =>
          /\ drafts[conv.active].state # "awaiting_recognition"
          /\ drafts[conv.active].state = "collecting" => Filled(drafts[conv.active], "amount")
  BY <1>1, <1>2 DEF Fits
<1>4. NeverLower(drafts[conv.active], drafts[conv.active])
  BY <1>1, SameFieldsNeverLower
<1> QED
  BY <1>1, <1>2, <1>3, <1>4, AdvancesKeeps

LEMMA ChooseCategoryKeeps ==
    ASSUME IInv, Quiet, conv.active # NoDraft, Open(conv.active), ChooseCategory(conv.active)
    PROVE  IInv' /\ Kept
<1> DEFINE old == drafts[conv.active]
           row == SetField(old, "category", "user", TRUE)
           after == IF CanMarkReady(row) THEN MarkReadyForReview(row) ELSE row
           c == WaitingFor(conv, "nothing")
<1>1. /\ conv \in Conversation /\ RowOk(conv.active, old) /\ old \in Draft
      /\ Fits(conv.active, conv, old) /\ old.state \in OpenStates
  BY ActiveRow
<1>2. conv.awaiting = "category" /\ Write(c, One(conv.active, after))
  BY DEF ChooseCategory
<1>3. conv.active \notin overwritten =>
          /\ old.state # "awaiting_recognition"
          /\ old.state = "collecting" => Filled(old, "amount")
  BY <1>1, <1>2 DEF Fits
<1>4. c \in Conversation /\ c.active = conv.active
  BY <1>1, Conversations DEF AwaitingInput
<1>5. row \in Draft /\ row.state = old.state /\ NeverLower(old, row)
      /\ \A g \in Field : Filled(old, g) => Filled(row, g)
  BY <1>1, UserSets DEF Field
<1> HIDE DEF row, c
<1>6. /\ RowOk(conv.active, row)
      /\ conv.active \notin overwritten => (row.state = "collecting" => Filled(row, "amount"))
  BY <1>1, <1>3, <1>5 DEF RowOk, Field
<1>7. /\ RowOk(conv.active, after) /\ after.field = row.field /\ after.state \in OpenStates
      /\ conv.active \notin overwritten => after.state = "ready_for_review"
  BY <1>1, <1>3, <1>5, <1>6, StateChanges DEF CanMarkReady, OpenStates
<1> HIDE DEF after
<1>8. NeverLower(old, after) /\ IsOpen(after) /\ Fits(conv.active, c, after)
  BY <1>5, <1>7 DEF NeverLower, IsOpen, OpenStates, Fits
<1> QED
  BY <1>2, <1>4, <1>7, <1>8, WritableActive, WriteKeeps

LEMMA EditFieldKeeps ==
    ASSUME IInv, Quiet, conv.active # NoDraft, Open(conv.active), EditField(conv.active)
    PROVE  IInv' /\ Kept
<1>1. conv \in Conversation /\ drafts[conv.active].state = "ready_for_review"
  BY ActiveRow DEF EditField
<1>2. PICK a \in AwaitingInput : Write(WaitingFor(conv, a), NoRows)
  BY DEF EditField
<1>3. /\ WaitingFor(conv, a) \in Conversation /\ WaitingFor(conv, a).active = conv.active
      /\ Fits(conv.active, WaitingFor(conv, a), drafts[conv.active])
  BY <1>1, Conversations DEF Fits
<1> QED
  BY <1>2, <1>3, AskingKeeps

\* A confirmation only remembers which draft it is of.
LEMMA PressConfirmKeeps ==
    ASSUME IInv, Quiet, conv.active # NoDraft, Open(conv.active), PressConfirm(conv.active)
    PROVE  IInv' /\ Kept
<1> DEFINE row == drafts[conv.active]
<1>1. conv.active \in DraftId /\ row \in Draft /\ Finished \in Conversation
  BY ActiveRow, Conversations
<1>2. /\ plan' = [stage |-> "confirm", conv |-> Finished, rows |-> One(conv.active, row)]
      /\ UNCHANGED <<drafts, conv, unfinished, dormant, orphaned, overwritten>>
  BY DEF PressConfirm, history
<1>3. DOMAIN One(conv.active, row) = {conv.active} /\ One(conv.active, row)[conv.active] = row
  BY DEF One
<1> HIDE DEF row
<1>4. /\ plan'.stage = "confirm" /\ plan'.conv = Finished
      /\ DOMAIN plan'.rows = {conv.active} /\ plan'.rows[conv.active] = row
  BY <1>2, <1>3
<1>5. TypeOK'
  BY <1>1, <1>2, <1>4 DEF IInv, TypeOK
<1>6. PlanOk'
  <2>1. plan' = [stage |-> "confirm", conv |-> Finished, rows |-> plan'.rows]
    BY <1>2, <1>4
  <2> QED
    BY <1>2, <1>4, <2>1 DEF PlanOk, Open, Exists
<1>7. (RowsOk /\ ConversationFits /\ OneReachableDraft)'
  BY <1>2 DEF IInv, RowsOk, ConversationFits, OneReachableDraft, Exists, Open, Fits, RowOk
<1> QED
  BY <1>2, <1>5, <1>6, <1>7, SameDrafts DEF IInv

LEMMA EnterManuallyKeeps ==
    ASSUME IInv, Quiet, conv.active # NoDraft, Open(conv.active), EnterManually(conv.active)
    PROVE  IInv' /\ Kept
<1> DEFINE row == ContinueManually(drafts[conv.active])
           c == WaitingFor(conv, "amount")
<1>1. conv \in Conversation /\ RowOk(conv.active, drafts[conv.active])
  BY ActiveRow
<1>2. c \in Conversation /\ c.active = conv.active /\ c.awaiting = "amount"
  BY <1>1, Conversations DEF AwaitingInput
<1>3. drafts[conv.active].state = "awaiting_recognition" /\ Write(c, One(conv.active, row))
  BY DEF EnterManually
<1>4. RowOk(conv.active, row) /\ row.state = "collecting" /\ NeverLower(drafts[conv.active], row)
  BY <1>1, <1>3, StateChanges
<1> HIDE DEF row, c
<1>5. IsOpen(row) /\ Fits(conv.active, c, row)
  BY <1>2, <1>4 DEF IsOpen, OpenStates, Fits
<1> QED
  BY <1>2, <1>3, <1>4, <1>5, WritableActive, WriteKeeps

LEMMA ContinueKeeps ==
    ASSUME IInv, Quiet, conv.active # NoDraft, Open(conv.active), Continue
    PROVE  IInv' /\ Kept
BY ActiveRow, Conversations, PendingFits, AskingKeeps DEF Continue

\* The draft is cancelled and another one takes its place.
LEMMA DiscardedKeeps ==
    ASSUME IInv, Quiet, conv.active # NoDraft, Open(conv.active),
           NEW n \in DraftId, Discard(conv.active, n)
    PROVE  IInv' /\ Kept
<1> DEFINE d == conv.active
           asked == IF conv.pending THEN "nothing" ELSE "amount"
           new == IF conv.pending THEN ReceiptDraft ELSE ManualDraft
           old == Cancel(drafts[d])
           c == WithDraft(Finished, n, asked)
           R == Two(d, old, n, new)
<1>1. conv \in Conversation /\ RowOk(d, drafts[d]) /\ d \in DraftId
  BY ActiveRow
<1>2. ~Exists(n) /\ n # d /\ Write(c, R)
  BY DEF Discard, Open
<1>3. /\ asked \in AwaitingInput /\ RowOk(n, new) /\ new.state \in {"awaiting_recognition", "collecting"}
      /\ new.state = "awaiting_recognition" => asked = "nothing"
      /\ new.state = "collecting" => asked = "amount"
  BY NewRows DEF AwaitingInput
<1>4. c \in Conversation /\ c.active = n /\ c.awaiting = asked
  BY <1>1, <1>3, Conversations
<1>5. RowOk(d, old) /\ old.state = "cancelled" /\ NeverLower(drafts[d], old)
  BY <1>1, StateChanges
<1>6. DOMAIN R = {d, n} /\ R[d] = old /\ R[n] = new
  BY <1>2 DEF Two
<1> HIDE DEF asked, new, old, c, R
<1>7. ~IsOpen(old) /\ IsOpen(new) /\ Fits(n, c, new)
  BY <1>3, <1>4, <1>5 DEF IsOpen, OpenStates, Fits
<1>8. Writable(c, R)
  BY <1>1, <1>2, <1>3, <1>4, <1>5, <1>6, <1>7 DEF Writable
<1> QED
  BY <1>2, <1>8, WriteKeeps

LEMMA ButtonKeeps ==
    ASSUME IInv, NEW d \in DraftId, Button(d)
    PROVE  IInv' /\ Kept
<1>1. Quiet
  BY DEF Button
<1>2. CASE FindsNothing
  BY <1>1, <1>2, FindsNothingKeeps
<1>3. CASE ActiveDraft = d /\ ~FindsNothing
  <2>1. d = conv.active /\ conv.active # NoDraft /\ Open(conv.active)
    BY <1>3, Active, NoDraftAssumption
  <2>2. OnDate(d) => (d \notin overwritten => drafts[d].state # "awaiting_recognition")
    BY <2>1, ActiveRow DEF OnDate, Fits
  <2>3. PressCancel(d) => IInv' /\ Kept
    BY <1>1, <2>1, CancelKeeps DEF PressCancel
  <2> QED
    BY <1>1, <1>3, <2>1, <2>2, <2>3, SkipKeeps, ChooseCategoryKeeps, TypedKeeps, EditFieldKeeps,
       PressConfirmKeeps, EnterManuallyKeeps, ContinueKeeps, DiscardedKeeps DEF Button
<1> QED
  BY <1>2, <1>3 DEF Button

LEMMA UpdateKeeps ==
    ASSUME IInv, Update
    PROVE  IInv' /\ Kept
<1>1. CancelCommand => IInv' /\ Kept
  BY Active, FindsNothingKeeps, CancelKeeps DEF CancelCommand
<1> QED
  BY <1>1, TextKeeps, AddKeeps, PhotoKeeps, ButtonKeeps DEF Update

-----------------------------------------------------------------------------
(* The second half of an update.                                             *)

\* What was writable when it was computed leaves rows and a conversation that
\* fit, and the conversation at an open draft or at none.
LEMMA CommitKeeps ==
    ASSUME IInv, Commit
    PROVE  /\ IInv' /\ Kept
           /\ (conv.active = NoDraft \/ Open(conv.active))'
<1> DEFINE c == plan.conv
           R == plan.rows
<1>1. /\ c \in Conversation /\ DOMAIN R \subseteq DraftId
      /\ \A d \in DOMAIN R :
             /\ RowOk(d, R[d])
             /\ Exists(d) => d = conv.active /\ Open(d) /\ NeverLower(drafts[d], R[d])
             /\ IsOpen(R[d]) => d = c.active /\ Fits(d, c, R[d])
      /\ c.active \in DOMAIN R => IsOpen(R[c.active])
      /\ c.active # NoDraft /\ c.active \notin DOMAIN R =>
             c.active = conv.active /\ Open(c.active) /\ Fits(c.active, c, drafts[c.active])
      /\ conv.active # NoDraft /\ Open(conv.active) /\ conv.active \notin DOMAIN R =>
             c.active = conv.active
  BY DEF IInv, PlanOk, Commit, Quiet, Writable
<1>2. /\ conv' = c /\ plan' = NoPlan /\ orphaned' = orphaned /\ overwritten' = overwritten
      /\ unfinished' \subseteq DraftId /\ dormant' \subseteq DraftId
  BY <1>1 DEF Commit, NewReceipts, Touched, IInv, TypeOK, history
<1>3. /\ drafts' \in [DraftId -> Draft \cup {NoRow}]
      /\ \A d \in DraftId : /\ d \in DOMAIN R => drafts'[d] = Row(R[d])
                            /\ d \notin DOMAIN R => drafts'[d] = drafts[d]
  <2>1. drafts' = [d \in DraftId |-> IF d \in DOMAIN R THEN Row(R[d]) ELSE drafts[d]]
    BY DEF Commit
  <2>2. \A d \in DOMAIN R : Row(R[d]) \in Draft
    BY <1>1, RowKeeps DEF RowOk
  <2>3. drafts \in [DraftId -> Draft \cup {NoRow}]
    BY DEF IInv, TypeOK
  <2> HIDE DEF R
  <2> QED
    BY <2>1, <2>2, <2>3
<1>4. \A d \in DOMAIN R : /\ RowOk(d, Row(R[d])) /\ Row(R[d]).field = R[d].field
                          /\ Row(R[d]).state = R[d].state
                          /\ Row(R[d]) # NoRow
  BY <1>1, RowKeeps, NoRowIsNoDraft DEF RowOk
<1> HIDE DEF c, R
<1>5. TypeOK'
  BY <1>1, <1>2, <1>3 DEF IInv, TypeOK
<1>6. RowsOk'
  BY <1>1, <1>2, <1>3, <1>4 DEF IInv, RowsOk, Exists, RowOk
<1>7. ConversationFits'
  <2>1. SUFFICES ASSUME c.active # NoDraft, drafts'[c.active] # NoRow
                 PROVE  Fits(c.active, c, drafts'[c.active])
    BY <1>2 DEF ConversationFits, Exists, Fits
  <2>2. c.active \in DraftId
    BY <1>1, <2>1 DEF Conversation
  <2>3. CASE c.active \in DOMAIN R
    BY <1>1, <1>3, <1>4, <2>2, <2>3 DEF Fits, Filled
  <2>4. CASE c.active \notin DOMAIN R
    BY <1>1, <1>3, <2>1, <2>2, <2>4
  <2> QED
    BY <2>3, <2>4
<1>8. OneReachableDraft'
  <2>1. SUFFICES ASSUME NEW d \in DraftId, drafts'[d] # NoRow, IsOpen(drafts'[d])
                 PROVE  d = c.active \/ d \in orphaned \/ d \in overwritten
    BY <1>2 DEF OneReachableDraft, Open, Exists, IsOpen
  <2>2. CASE d \in DOMAIN R
    BY <1>1, <1>3, <1>4, <2>1, <2>2 DEF IsOpen
  <2>3. CASE d \notin DOMAIN R
    <3>1. Open(d)
      BY <1>3, <2>1, <2>3 DEF Open, Exists
    <3>2. d = conv.active \/ d \in orphaned \/ d \in overwritten
      BY <3>1 DEF IInv, OneReachableDraft
    <3> QED
      BY <1>1, <2>3, <3>1, <3>2, NoDraftAssumption
  <2> QED
    BY <2>2, <2>3
<1>9. PlanOk'
  BY <1>2 DEF PlanOk
<1>10. Kept
  <2>1. SUFFICES ASSUME NEW d \in DraftId, Exists(d)
                 PROVE  /\ ~Open(d) => drafts'[d] = drafts[d]
                        /\ NeverLower(drafts[d], drafts'[d])
    BY DEF Kept
  <2>2. CASE d \in DOMAIN R
    BY <1>1, <1>3, <1>4, <2>1, <2>2 DEF NeverLower
  <2>3. CASE d \notin DOMAIN R
    BY <1>3, <2>1, <2>3, RowsAreDrafts, SameFieldsNeverLower
  <2> QED
    BY <2>2, <2>3
<1>11. (conv.active = NoDraft \/ Open(conv.active))'
  <2>1. SUFFICES ASSUME c.active # NoDraft
                 PROVE  drafts'[c.active] # NoRow /\ IsOpen(drafts'[c.active])
    BY <1>2 DEF Open, Exists, IsOpen
  <2>2. c.active \in DraftId
    BY <1>1, <2>1 DEF Conversation
  <2> QED
    BY <1>1, <1>3, <1>4, <2>1, <2>2 DEF IsOpen, Open, Exists
<1> QED
  BY <1>5, <1>6, <1>7, <1>8, <1>9, <1>10, <1>11 DEF IInv

\* What the other steps do: one draft gets another row, which is open only if it
\* was, and the conversation is told when it is the active one's.
LEMMA RowChangeKeeps ==
    ASSUME IInv, NEW d \in DraftId, Exists(d), NEW row, RowOk(d, row),
           IsOpen(row) => Open(d),
           drafts' = [drafts EXCEPT ![d] = row],
           NeverLower(drafts[d], row), ~Open(d) => row = drafts[d],
           conv' \in Conversation, conv'.active = conv.active,
           conv.active = d => Fits(d, conv', row), conv.active # d => conv' = conv,
           \/ Quiet \/ plan.stage = "save"
           \/ plan.stage = "web" /\ IsOpen(row) /\ UserKeeps(row, drafts[d]),
           unfinished' \subseteq DraftId, dormant' \subseteq DraftId,
           UNCHANGED <<plan, orphaned, overwritten>>
    PROVE  IInv' /\ Kept
<1>1. /\ row \in Draft /\ row # NoRow
      /\ drafts \in [DraftId -> Draft \cup {NoRow}]
  BY NoRowIsNoDraft DEF RowOk, IInv, TypeOK
<1>2. /\ drafts' \in [DraftId -> Draft \cup {NoRow}]
      /\ drafts'[d] = row /\ \A e \in DraftId : e # d => drafts'[e] = drafts[e]
  BY <1>1
<1>3. TypeOK'
  BY <1>2 DEF IInv, TypeOK
<1>4. RowsOk'
  BY <1>2 DEF IInv, RowsOk, Exists, RowOk
<1>5. ConversationFits'
  <2>1. SUFFICES ASSUME conv'.active # NoDraft, drafts'[conv'.active] # NoRow
                 PROVE  Fits(conv'.active, conv', drafts'[conv'.active])
    BY DEF ConversationFits, Exists, Fits
  <2>2. conv.active \in DraftId
    BY <2>1 DEF IInv, TypeOK, Conversation
  <2> QED
    BY <1>2, <2>1, <2>2 DEF IInv, ConversationFits, Exists
<1>6. \A e \in DraftId : drafts'[e] # NoRow /\ IsOpen(drafts'[e]) => Open(e)
  BY <1>2 DEF Open, Exists
<1>7. OneReachableDraft'
  BY <1>6 DEF IInv, OneReachableDraft, Open, Exists, IsOpen
<1>8. PlanOk'
  <2>1. CASE Quiet
    BY <2>1 DEF PlanOk, Quiet
  <2>2. CASE ~Quiet /\ plan.stage = "save"
    BY <1>6, <2>2 DEF IInv, PlanOk, Quiet, Open, Exists, IsOpen
  <2>3. CASE ~Quiet /\ plan.stage = "web" /\ IsOpen(row) /\ UserKeeps(row, drafts[d])
    <3>1. Held(plan.draft, plan.read, plan.row) /\ plan.draft \in DraftId
      BY <2>3 DEF IInv, PlanOk, TypeOK, Quiet
    <3>2. Held(plan.draft, plan.read, plan.row)'
      BY <1>1, <1>2, <2>3, <3>1
         DEF Held, Exists, Open, IsOpen, RowOk, NeverLower, Follows, UserKeeps
    <3> QED
      BY <2>3, <3>2 DEF PlanOk
  <2> QED
    BY <2>1, <2>2, <2>3 DEF Quiet
<1>9. Kept
  BY <1>2, RowsAreDrafts, SameFieldsNeverLower DEF Kept
<1> QED
  BY <1>3, <1>4, <1>5, <1>7, <1>8, <1>9 DEF IInv

LEMMA CommitExpenseKeeps ==
    ASSUME IInv, CommitExpense
    PROVE  IInv' /\ Kept
<1> DEFINE d == conv.active
           row == Confirm(drafts[d], d)
<1>1. /\ plan = [stage |-> "confirm", conv |-> Finished, rows |-> plan.rows]
      /\ d # NoDraft /\ DOMAIN plan.rows = {d} /\ Open(d)
  BY DEF IInv, PlanOk, CommitExpense, Quiet
<1>2. /\ drafts' = [drafts EXCEPT ![d] = row] /\ dormant' = dormant \ {d}
      /\ plan' = [plan EXCEPT !.stage = "save"]
      /\ UNCHANGED <<conv, unfinished, orphaned, overwritten>>
  BY <1>1 DEF CommitExpense, history
<1>3. /\ d \in DraftId /\ RowOk(d, drafts[d])
      /\ drafts \in [DraftId -> Draft \cup {NoRow}]
  BY <1>1, ActiveRow DEF IInv, TypeOK
<1>4. RowOk(d, row) /\ NeverLower(drafts[d], row) /\ row.state = "confirmed"
  BY <1>3, StateChanges
<1> HIDE DEF row
<1>5. plan' = [stage |-> "save", conv |-> Finished, rows |-> plan.rows]
  BY <1>1, <1>2
<1>6. row \in Draft /\ row # NoRow /\ ~IsOpen(row)
  BY <1>4, NoRowIsNoDraft DEF RowOk, IsOpen, OpenStates
<1>7. /\ drafts' \in [DraftId -> Draft \cup {NoRow}]
      /\ drafts'[d] = row /\ \A e \in DraftId : e # d => drafts'[e] = drafts[e]
  BY <1>2, <1>3, <1>6
<1>8. TypeOK'
  <2>1. /\ plan'.stage = "save" /\ plan'.conv = Finished /\ plan'.rows = plan.rows
        /\ Finished \in Conversation
    BY <1>3, <1>5, Conversations DEF Finished, Conversation, AwaitingInput
  <2>2. plan # NoPlan /\ plan.stage = "confirm"
    BY DEF CommitExpense, Quiet
  <2>3. DOMAIN plan.rows \subseteq DraftId /\ \A e \in DOMAIN plan.rows : plan.rows[e] \in Draft
    BY <2>2 DEF IInv, TypeOK
  <2> QED
    BY <1>2, <1>7, <2>1, <2>3 DEF IInv, TypeOK
<1>9. RowsOk'
  BY <1>2, <1>4, <1>7 DEF IInv, RowsOk, Exists, RowOk
<1>10. ConversationFits'
  BY <1>2, <1>4, <1>7 DEF ConversationFits, Fits, Exists
<1>11. \A e \in DraftId : drafts'[e] # NoRow /\ IsOpen(drafts'[e]) => e # d /\ Open(e)
  BY <1>6, <1>7 DEF Open, Exists
<1>12. \A e \in DraftId : drafts'[e] # NoRow /\ IsOpen(drafts'[e]) => e \in orphaned \cup overwritten
  BY <1>11 DEF IInv, OneReachableDraft
<1>13. OneReachableDraft' /\ PlanOk'
  BY <1>2, <1>5, <1>12 DEF OneReachableDraft, PlanOk, Open, Exists, IsOpen
<1>14. Kept
  BY <1>1, <1>4, <1>7, RowsAreDrafts, SameFieldsNeverLower DEF Kept
<1> QED
  BY <1>8, <1>9, <1>10, <1>13, <1>14 DEF IInv

LEMMA RefuseOrAbortKeeps ==
    ASSUME IInv, RefuseExpense \/ Abort
    PROVE  IInv' /\ Kept
<1>1. plan' = NoPlan /\ UNCHANGED <<drafts, conv, unfinished, dormant, orphaned, overwritten>>
  BY DEF RefuseExpense, Abort, history
<1>2. (TypeOK /\ RowsOk /\ ConversationFits /\ OneReachableDraft /\ PlanOk)'
  BY <1>1 DEF IInv, TypeOK, RowsOk, ConversationFits, OneReachableDraft, PlanOk,
              Exists, Open, Fits, RowOk
<1> QED
  BY <1>1, <1>2, SameDrafts DEF IInv

LEMMA SaveConversationKeeps ==
    ASSUME IInv, SaveConversation
    PROVE  IInv' /\ Kept /\ conv'.active = NoDraft
<1>1. /\ plan.conv = Finished /\ \A d \in DraftId : Open(d) => d \in orphaned \cup overwritten
  BY DEF IInv, PlanOk, SaveConversation, Quiet
<1>2. /\ conv' = Finished /\ plan' = NoPlan
      /\ UNCHANGED <<drafts, unfinished, dormant, orphaned, overwritten>>
  BY <1>1 DEF SaveConversation, history
<1>3. Finished \in Conversation /\ Finished.active = NoDraft
  BY DEF Finished, Conversation, AwaitingInput
<1>4. TypeOK' /\ RowsOk'
  BY <1>2, <1>3 DEF IInv, TypeOK, RowsOk, Exists, RowOk
<1>5. ConversationFits' /\ OneReachableDraft' /\ PlanOk'
  BY <1>1, <1>2, <1>3 DEF ConversationFits, OneReachableDraft, PlanOk, Open, Exists
<1> QED
  BY <1>2, <1>3, <1>4, <1>5, SameDrafts DEF IInv

-----------------------------------------------------------------------------
(* The worker, the job, the Web and unlinking.                               *)

LEMMA Unlocked ==
    ASSUME ~ConversationLocked
    PROVE  Quiet \/ plan.stage \in {"save", "web"}
BY DEF ConversationLocked

\* A change of the row of an open draft, with the conversation told or not.
LEMMA RecordsKeeps ==
    ASSUME IInv, NEW d \in DraftId, Exists(d), Open(d), Quiet \/ plan.stage \in {"save", "web"},
           NEW row, RowOk(d, row), IsOpen(row), NeverLower(drafts[d], row), UserKeeps(row, drafts[d]),
           NEW c \in Conversation, c.active = conv.active,
           conv.active = d => Fits(d, c, row), conv.active # d => c = conv,
           Records(d, row, c)
    PROVE  IInv' /\ Kept
<1>1. /\ drafts' = [drafts EXCEPT ![d] = Row(row)] /\ conv' = c
      /\ UNCHANGED <<plan, orphaned, overwritten>>
      /\ unfinished' \subseteq DraftId /\ dormant' \subseteq DraftId
  BY DEF Records, IInv, TypeOK, history
<1>2. RowOk(d, Row(row)) /\ Row(row).field = row.field /\ Row(row).state = row.state
  BY RowKeeps
<1> DEFINE new == Row(row)
<1> HIDE DEF new
<1>3. /\ RowOk(d, new) /\ IsOpen(new) /\ NeverLower(drafts[d], new) /\ UserKeeps(new, drafts[d])
      /\ conv.active = d => Fits(d, c, new)
  BY <1>2 DEF new, NeverLower, UserKeeps, Fits, Filled, IsOpen
<1> QED
  BY <1>1, <1>3, RowChangeKeeps DEF new

LEMMA EndsWaitingKeeps ==
    ASSUME IInv, NEW d \in DraftId, Quiet \/ plan.stage \in {"save", "web"},
           NEW row, RowOk(d, row), NeverLower(drafts[d], row), UserKeeps(row, drafts[d]),
           row.state \in {"collecting", "ready_for_review"}, EndsWaiting(d, row)
    PROVE  IInv' /\ Kept
<1> DEFINE c == IF conv.active = d /\ row.state # "ready_for_review"
                THEN WaitingFor(conv, "amount") ELSE conv
<1>1. Open(d) /\ Exists(d)
  BY DEF EndsWaiting, Open, Exists, NoRow, IsOpen, OpenStates
<1>2. conv \in Conversation
  BY DEF IInv, TypeOK
<1>3. /\ c \in Conversation /\ c.active = conv.active /\ (conv.active # d => c = conv)
      /\ conv.active = d /\ row.state # "ready_for_review" => c.awaiting = "amount"
  BY <1>2, Conversations DEF AwaitingInput
<1>4. Records(d, row, c)
  BY DEF EndsWaiting
<1> HIDE DEF c
<1>5. IsOpen(row) /\ (conv.active = d => Fits(d, c, row))
  BY <1>3 DEF Fits, IsOpen, OpenStates
<1> QED
  BY <1>1, <1>3, <1>4, <1>5, RecordsKeeps

LEMMA FinishReceiptKeeps ==
    ASSUME IInv, NEW d \in DraftId, FinishReceipt(d)
    PROVE  IInv' /\ Kept
<1>1. Quiet \/ plan.stage \in {"save", "web"}
  BY Unlocked DEF FinishReceipt
<1>2. CASE DraftClosed(d)
  <2>1. /\ UNCHANGED <<drafts, conv, plan, dormant, orphaned, overwritten>>
        /\ unfinished' \subseteq DraftId
    BY <1>2 DEF DraftClosed, IInv, TypeOK, history
  <2>2. (TypeOK /\ RowsOk /\ ConversationFits /\ OneReachableDraft)'
    BY <2>1 DEF IInv, TypeOK, RowsOk, ConversationFits, OneReachableDraft,
                Exists, Open, Fits, RowOk
  <2>3. PlanOk'
    BY <1>1, <2>1 DEF IInv, PlanOk, Quiet, NoPlan, Open, Exists,
                      Held, RowOk, NeverLower, Follows, UserKeeps
  <2> QED
    BY <2>1, <2>2, <2>3, SameDrafts DEF IInv
<1>3. ASSUME NEW found \in Results, Open(d), EndsWaiting(d, ApplyRecognition(drafts[d], found))
      PROVE  IInv' /\ Kept
  <2>1. RowOk(d, drafts[d]) /\ found \in SUBSET {"amount", "date", "merchant"}
        /\ drafts[d].state = "awaiting_recognition"
    BY <1>3, RowsAreDrafts, ResultsAssumption DEF Open, EndsWaiting
  <2> DEFINE row == ApplyRecognition(drafts[d], found)
  <2>2. /\ RowOk(d, row) /\ NeverLower(drafts[d], row) /\ UserKeeps(row, drafts[d])
        /\ row.state \in {"collecting", "ready_for_review"}
    BY <2>1, Recognised
  <2> HIDE DEF row
  <2> QED
    BY <1>1, <1>3, <2>2, EndsWaitingKeeps DEF row
<1>4. ASSUME NEW found \in Results, Open(d), LateResult(d, ApplyRecognition(drafts[d], found))
      PROVE  IInv' /\ Kept
  <2> DEFINE row == ApplyRecognition(drafts[d], found)
  <2>1. /\ RowOk(d, drafts[d]) /\ found \in SUBSET {"amount", "date", "merchant"}
        /\ drafts[d].state # "awaiting_recognition" /\ Exists(d) /\ conv \in Conversation
    BY <1>4, RowsAreDrafts, ResultsAssumption DEF Open, LateResult, IInv, TypeOK
  <2>2. /\ RowOk(d, row) /\ NeverLower(drafts[d], row) /\ UserKeeps(row, drafts[d])
        /\ row.state = drafts[d].state /\ IsOpen(row)
        /\ \A g \in Field : Filled(drafts[d], g) => Filled(row, g)
    BY <1>4, <2>1, Recognised DEF Open, IsOpen
  <2>3. LateResult(d, row)
    BY <1>4
  <2> HIDE DEF row
  <2>4. CASE AnswersAmount(d, row)
    <3> DEFINE a == Advance(WithPending(conv, FALSE), row, "merchant")
    <3>1. /\ WithPending(conv, FALSE) \in Conversation
          /\ WithPending(conv, FALSE).active = conv.active
      BY <2>1, Conversations
    <3>2. conv.active = d /\ row.state = "collecting" /\ Filled(row, "amount")
      BY <2>4 DEF AnswersAmount
    <3>3. /\ RowOk(d, a.row) /\ IsOpen(a.row) /\ SameValues(row, a.row)
          /\ a.conv \in Conversation /\ a.conv.active = conv.active /\ Fits(d, a.conv, a.row)
      <4>1. /\ RowOk(d, row) /\ row.state \in OpenStates
            /\ row.state # "awaiting_recognition"
        BY <2>2, <3>2 DEF OpenStates
      <4>2. Advanced(d, WithPending(conv, FALSE), row, a)
        BY <3>1, <3>2, <4>1, Advancing
      <4> QED
        BY <3>1, <4>2 DEF Advanced
    <3>4. Records(d, a.row, a.conv)
      BY <2>3, <2>4 DEF LateResult
    <3> HIDE DEF a
    <3>5. NeverLower(drafts[d], a.row) /\ UserKeeps(a.row, drafts[d])
      BY <2>2, <3>3 DEF NeverLower, UserKeeps, SameValues
    <3> QED
      BY <1>1, <1>4, <2>1, <3>2, <3>3, <3>4, <3>5, RecordsKeeps
  <2>5. CASE ~AnswersAmount(d, row)
    <3>1. conv.active = d => Fits(d, conv, drafts[d])
      BY <2>1, NoDraftAssumption DEF IInv, ConversationFits
    <3>2. conv.active = d => Fits(d, conv, row)
      BY <2>2, <3>1 DEF Fits, Field
    <3>3. Records(d, row, conv)
      BY <2>3, <2>5 DEF LateResult
    <3> QED
      BY <1>1, <1>4, <2>1, <2>2, <3>2, <3>3, RecordsKeeps
  <2> QED
    BY <2>4, <2>5
<1> QED
  BY <1>2, <1>3, <1>4 DEF FinishReceipt

LEMMA FailReceiptKeeps ==
    ASSUME IInv, NEW d \in DraftId, FailReceipt(d)
    PROVE  IInv' /\ Kept
<1> DEFINE row == ContinueManually(drafts[d])
<1>1. Quiet \/ plan.stage \in {"save", "web"}
  BY Unlocked DEF FailReceipt
<1>2. Open(d) /\ Exists(d) /\ RowOk(d, drafts[d]) /\ conv \in Conversation
  BY RowsAreDrafts DEF FailReceipt, Open, IInv, TypeOK
<1>3. /\ RowOk(d, row) /\ NeverLower(drafts[d], row) /\ UserKeeps(row, drafts[d])
      /\ drafts[d].state = "awaiting_recognition" => row.state = "collecting"
  <2>1. /\ RowOk(d, row) /\ NeverLower(drafts[d], row) /\ row.field = drafts[d].field
        /\ drafts[d].state = "awaiting_recognition" => row.state = "collecting"
    <3>1. PICK old : old = drafts[d]
      OBVIOUS
    <3>2. RowOk(d, old)
      BY <1>2, <3>1
    <3>3. /\ RowOk(d, ContinueManually(old)) /\ NeverLower(old, ContinueManually(old))
          /\ ContinueManually(old).field = old.field
          /\ old.state = "awaiting_recognition" => ContinueManually(old).state = "collecting"
      BY <3>2, StateChanges
    <3> QED
      BY <3>1, <3>3
  <2> HIDE DEF row
  <2> QED
    BY <2>1 DEF UserKeeps
<1>4. \/ EndsWaiting(d, row)
      \/ row = drafts[d] /\ Records(d, row, conv)
  BY DEF FailReceipt
<1> HIDE DEF row
<1>5. CASE EndsWaiting(d, row)
  <2>1. row.state \in {"collecting", "ready_for_review"}
    BY <1>3, <1>5 DEF EndsWaiting
  <2> QED
    BY <1>1, <1>3, <1>5, <2>1, EndsWaitingKeeps
<1>6. CASE row = drafts[d] /\ Records(d, row, conv)
  <2>1. IsOpen(row) /\ (conv.active = d => Fits(d, conv, row))
    BY <1>2, <1>6, NoDraftAssumption DEF IInv, ConversationFits, Open
  <2> QED
    BY <1>1, <1>2, <1>3, <1>6, <2>1, RecordsKeeps
<1> QED
  BY <1>4, <1>5, <1>6

LEMMA TimePassesKeeps ==
    ASSUME IInv, NEW d \in DraftId, TimePasses(d)
    PROVE  IInv' /\ Kept
<1>1. /\ dormant' \subseteq DraftId /\ plan = NoPlan
      /\ UNCHANGED <<drafts, conv, plan, unfinished, orphaned, overwritten>>
  BY DEF TimePasses, Quiet, IInv, TypeOK, history
<1>2. (TypeOK /\ RowsOk /\ ConversationFits /\ OneReachableDraft /\ PlanOk)'
  BY <1>1 DEF IInv, TypeOK, RowsOk, ConversationFits, OneReachableDraft, PlanOk,
              Exists, Open, Fits, RowOk
<1> QED
  BY <1>1, <1>2, SameDrafts DEF IInv

\* A request that read the row of an open draft holds a row that follows from it.
LEMMA WebReadsKeeps ==
    ASSUME IInv, Quiet, NEW d \in DraftId, Open(d), NEW row, RowOk(d, Row(row)),
           NeverLower(drafts[d], Row(row)), UserKeeps(drafts[d], Row(row)),
           Follows(drafts[d], Row(row)), WebReads(d, row)
    PROVE  IInv' /\ Kept
<1> DEFINE new == Row(row)
           aged == d \in dormant /\ row = drafts[d]
<1>1. /\ plan' = [stage |-> "web", draft |-> d, read |-> drafts[d], row |-> new, aged |-> aged]
      /\ UNCHANGED <<drafts, conv, unfinished, dormant, orphaned, overwritten>>
  BY DEF WebReads, history
<1>2. /\ RowOk(d, new) /\ NeverLower(drafts[d], new) /\ UserKeeps(drafts[d], new)
      /\ Follows(drafts[d], new)
  OBVIOUS
<1>3. aged \in BOOLEAN /\ Exists(d) /\ drafts[d] \in Draft
  BY RowsAreDrafts DEF Open
<1> HIDE DEF new, aged
<1>4. /\ plan'.stage = "web" /\ plan'.draft = d /\ plan'.read = drafts[d] /\ plan'.row = new
      /\ plan' \in [stage : {"web"}, draft : DraftId, read : Draft, row : Draft, aged : BOOLEAN]
  BY <1>1, <1>2, <1>3 DEF RowOk
<1>5. Held(d, drafts[d], new)
  BY <1>2, <1>3 DEF Held, Open
<1>6. TypeOK'
  BY <1>1, <1>4 DEF IInv, TypeOK
<1>7. PlanOk'
  <2>1. Held(plan'.draft, plan'.read, plan'.row)
    BY <1>4, <1>5
  <2>2. Held(plan.draft, plan.read, plan.row)'
    BY <1>1, <2>1 DEF Held, Exists, Open, IsOpen, RowOk, NeverLower, Follows, UserKeeps
  <2> QED
    BY <1>4, <2>2 DEF PlanOk
<1>8. (RowsOk /\ ConversationFits /\ OneReachableDraft)'
  BY <1>1 DEF IInv, RowsOk, ConversationFits, OneReachableDraft, Exists, Open, Fits, RowOk
<1> QED
  BY <1>1, <1>6, <1>7, <1>8, SameDrafts DEF IInv

LEMMA WebReadKeeps ==
    ASSUME IInv, NEW d \in DraftId, WebRead(d)
    PROVE  IInv' /\ Kept
<1>1. Quiet /\ Open(d) /\ RowOk(d, drafts[d])
  BY RowsAreDrafts DEF WebRead, Open
<1>2. ASSUME NEW edit \in Edits, WebReads(d, SetFields(drafts[d], edit))
      PROVE  IInv' /\ Kept
  <2> DEFINE row == SetFields(drafts[d], edit)
  <2>1. /\ RowOk(d, Row(row)) /\ NeverLower(drafts[d], Row(row)) /\ UserKeeps(drafts[d], Row(row))
        /\ Follows(drafts[d], Row(row))
    BY <1>1, Edited DEF Follows
  <2>2. WebReads(d, row)
    BY <1>2
  <2> HIDE DEF row
  <2> QED
    BY <1>1, <2>1, <2>2, WebReadsKeeps
<1>3. ASSUME "ready" \in WebOps, WebReads(d, MarkReadyForReview(drafts[d]))
      PROVE  IInv' /\ Kept
  <2> DEFINE row == MarkReadyForReview(drafts[d])
  <2>1. /\ RowOk(d, row) /\ NeverLower(drafts[d], row) /\ row.field = drafts[d].field
        /\ row.state = "ready_for_review"
    <3>1. PICK old : old = drafts[d]
      OBVIOUS
    <3>2. RowOk(d, old) /\ "ready" \in WebOps
      BY <1>1, <1>3, <3>1
    <3>3. /\ RowOk(d, MarkReadyForReview(old)) /\ NeverLower(old, MarkReadyForReview(old))
          /\ MarkReadyForReview(old).field = old.field
          /\ MarkReadyForReview(old).state = "ready_for_review"
      BY <3>2, StateChanges
    <3> QED
      BY <3>1, <3>3
  <2>2. WebReads(d, row)
    BY <1>3
  <2> HIDE DEF row
  <2>3. RowOk(d, Row(row)) /\ Row(row).field = drafts[d].field /\ Row(row).state = "ready_for_review"
    BY <2>1, RowKeeps
  <2>4. /\ NeverLower(drafts[d], Row(row)) /\ UserKeeps(drafts[d], Row(row))
        /\ Follows(drafts[d], Row(row))
    BY <2>1, <2>3 DEF NeverLower, UserKeeps, Follows
  <2> QED
    BY <1>1, <2>2, <2>3, <2>4, WebReadsKeeps
<1>4. ASSUME WebReads(d, Cancel(drafts[d]))
      PROVE  IInv' /\ Kept
  <2> DEFINE row == Cancel(drafts[d])
  <2>1. /\ RowOk(d, row) /\ NeverLower(drafts[d], row) /\ row.field = drafts[d].field
        /\ row.state = "cancelled"
    <3>1. PICK old : old = drafts[d]
      OBVIOUS
    <3>2. RowOk(d, old)
      BY <1>1, <3>1
    <3>3. /\ RowOk(d, Cancel(old)) /\ NeverLower(old, Cancel(old)) /\ Cancel(old).field = old.field
          /\ Cancel(old).state = "cancelled"
      BY <3>2, StateChanges
    <3> QED
      BY <3>1, <3>3
  <2>2. WebReads(d, row)
    BY <1>4
  <2> HIDE DEF row
  <2>3. RowOk(d, Row(row)) /\ Row(row).field = drafts[d].field /\ Row(row).state = "cancelled"
    BY <2>1, RowKeeps
  <2>4. /\ NeverLower(drafts[d], Row(row)) /\ UserKeeps(drafts[d], Row(row))
        /\ Follows(drafts[d], Row(row))
    BY <2>1, <2>3 DEF NeverLower, UserKeeps, Follows, IsOpen, OpenStates
  <2> QED
    BY <1>1, <2>2, <2>3, <2>4, WebReadsKeeps
<1> QED
  BY <1>2, <1>3, <1>4 DEF WebRead

\* The row is written over whatever the worker and the job made of it; when they
\* made something of it, the draft counts as overwritten from then on.
LEMMA WebWriteKeeps ==
    ASSUME IInv, WebWrite
    PROVE  IInv' /\ KeptOrOverwritten
<1> DEFINE d == plan.draft
           row == plan.row
           over == IF drafts[d] = plan.read THEN overwritten ELSE overwritten \cup {d}
<1>1. /\ plan.stage = "web" /\ plan # NoPlan /\ plan' = NoPlan
      /\ drafts' = [drafts EXCEPT ![d] = row] /\ dormant' \subseteq dormant \cup {d}
      /\ overwritten' = over /\ UNCHANGED <<conv, unfinished, orphaned>>
  BY DEF WebWrite, Quiet
<1>2. /\ d \in DraftId /\ row \in Draft /\ drafts \in [DraftId -> Draft \cup {NoRow}]
      /\ Held(d, plan.read, row)
  BY <1>1 DEF IInv, TypeOK, PlanOk
<1>3. /\ Exists(d) /\ (Open(d) \/ drafts[d].state = "expired") /\ RowOk(d, row)
      /\ IsOpen(plan.read) /\ NeverLower(plan.read, row) /\ Follows(plan.read, row)
      /\ UserKeeps(drafts[d], row)
  BY <1>2 DEF Held
<1>4. drafts[d] # plan.read => Overwrites(d)
  BY DEF Overwrites
<1>5. /\ overwritten \subseteq over /\ over \subseteq DraftId
      /\ d \notin over => drafts[d] = plan.read
      /\ \A e : e # d => (e \in over <=> e \in overwritten)
  BY <1>2 DEF IInv, TypeOK
<1> HIDE DEF d, row, over
<1>6. /\ drafts' \in [DraftId -> Draft \cup {NoRow}]
      /\ drafts'[d] = row /\ \A e \in DraftId : e # d => drafts'[e] = drafts[e]
  BY <1>1, <1>2
<1>7. TypeOK' /\ PlanOk'
  BY <1>1, <1>2, <1>5, <1>6 DEF IInv, TypeOK, PlanOk
<1>8. RowsOk'
  BY <1>1, <1>3, <1>5, <1>6 DEF IInv, RowsOk, Exists, RowOk
<1>9. ConversationFits'
  <2>1. SUFFICES ASSUME conv.active # NoDraft, drafts'[conv.active] # NoRow,
                        conv.active \notin over
                 PROVE  /\ drafts'[conv.active].state = "awaiting_recognition" => conv.awaiting = "nothing"
                        /\ drafts'[conv.active].state = "collecting" =>
                               /\ conv.awaiting \in {"amount", "merchant", "category"}
                               /\ conv.awaiting # "amount" => Filled(drafts'[conv.active], "amount")
    BY <1>1 DEF ConversationFits, Exists, Fits, Filled
  <2>2. conv.active \in DraftId
    BY <2>1 DEF IInv, TypeOK, Conversation
  <2>3. CASE conv.active # d
    BY <1>5, <1>6, <2>1, <2>2, <2>3 DEF IInv, ConversationFits, Exists, Fits
  <2>4. CASE conv.active = d
    <3>1. drafts[d] = plan.read /\ d \notin overwritten /\ Fits(d, conv, drafts[d])
      BY <1>3, <1>5, <2>1, <2>4 DEF IInv, ConversationFits
    <3> QED
      BY <1>3, <1>6, <2>4, <3>1 DEF Follows, Fits, IsOpen, OpenStates, Field
  <2> QED
    BY <2>3, <2>4
<1>10. OneReachableDraft'
  <2>1. SUFFICES ASSUME NEW e \in DraftId, drafts'[e] # NoRow, IsOpen(drafts'[e]), e \notin over
                 PROVE  e = conv.active \/ e \in orphaned
    BY <1>1 DEF OneReachableDraft, Open, Exists, IsOpen
  <2>2. Open(e) /\ e \notin overwritten
    BY <1>3, <1>5, <1>6, <2>1 DEF Open, Exists
  <2> QED
    BY <2>2 DEF IInv, OneReachableDraft
<1>11. KeptOrOverwritten
  <2>1. SUFFICES ASSUME NEW e \in DraftId, Exists(e)
                 PROVE  /\ ~Open(e) /\ drafts'[e] # drafts[e] => Overwrites(e) /\ drafts[e].state = "expired"
                        /\ \A f \in Field :
                              \/ Rank(drafts'[e].field[f].source) >= Rank(drafts[e].field[f].source)
                              \/ Overwrites(e) /\ drafts[e].field[f].source # "user"
    BY DEF KeptOrOverwritten
  <2>2. drafts[e] \in Draft /\ drafts[d] \in Draft
    BY <1>2, <1>3, <2>1, RowsAreDrafts
  <2>3. CASE e # d
    <3>1. drafts'[e] = drafts[e]
      BY <1>6, <2>3
    <3> QED
      BY <2>2, <3>1, SameFieldsNeverLower, Ranks DEF Draft, Slot
  <2>4. CASE e = d /\ drafts[d] = plan.read
    <3>1. Open(d) /\ NeverLower(drafts[d], row)
      BY <1>3, <2>4 DEF Open
    <3> QED
      BY <1>2, <1>6, <2>2, <2>4, <3>1, Ranks DEF NeverLower, Draft, Slot
  <2>5. CASE e = d /\ drafts[d] # plan.read
    <3>1. Overwrites(e)
      BY <1>4, <2>5 DEF d
    <3>2. \A f \in Field : drafts[d].field[f].source = "user" => row.field[f].source = "user"
      BY <1>3 DEF UserKeeps
    <3> QED
      BY <1>3, <1>6, <2>5, <3>1, <3>2, Ranks
  <2> QED
    BY <2>3, <2>4, <2>5
<1> QED
  BY <1>7, <1>8, <1>9, <1>10, <1>11 DEF IInv

LEMMA WebConfirmKeeps ==
    ASSUME IInv, NEW d \in DraftId, WebConfirm(d)
    PROVE  IInv' /\ Kept
<1> DEFINE row == Confirm(drafts[d], d)
           new == Row(row)
<1>1. Quiet /\ Open(d) /\ Exists(d) /\ RowOk(d, drafts[d]) /\ conv \in Conversation
  BY RowsAreDrafts DEF WebConfirm, Open, IInv, TypeOK
<1>2. /\ drafts' = [drafts EXCEPT ![d] = new] /\ dormant' \subseteq DraftId
      /\ UNCHANGED <<conv, plan, unfinished, orphaned, overwritten>>
  BY DEF WebConfirm, IInv, TypeOK, history
<1>3. RowOk(d, row) /\ NeverLower(drafts[d], row) /\ row.state = "confirmed"
  BY <1>1, StateChanges
<1> HIDE DEF row
<1>4. RowOk(d, new) /\ new.field = row.field /\ new.state = row.state
  BY <1>3, RowKeeps
<1> HIDE DEF new
<1>5. NeverLower(drafts[d], new) /\ ~IsOpen(new) /\ Fits(d, conv, new)
  BY <1>3, <1>4 DEF NeverLower, IsOpen, OpenStates, Fits
<1> QED
  BY <1>1, <1>2, <1>4, <1>5, RowChangeKeeps DEF IInv, TypeOK

\* The job closes drafts, and no draft a handler is about to write.
LEMMA ExpireAbandonedKeeps ==
    ASSUME IInv, ExpireAbandoned
    PROVE  IInv' /\ Kept
<1>1. /\ drafts' = [d \in DraftId |-> IF d \in Abandoned THEN Expire(drafts[d]) ELSE drafts[d]]
      /\ conv' = IF conv.active \in Abandoned THEN Finished ELSE conv
      /\ dormant' \subseteq DraftId /\ UNCHANGED <<plan, unfinished, orphaned, overwritten>>
      /\ conv.active \in Abandoned => Quiet \/ plan.stage \in {"save", "web"}
  BY Unlocked DEF ExpireAbandoned, IInv, TypeOK, history
<1>2. \A d \in Abandoned : /\ d \in DraftId /\ Open(d) /\ RowOk(d, drafts[d])
                           /\ RowOk(d, Expire(drafts[d])) /\ ~IsOpen(Expire(drafts[d]))
                           /\ NeverLower(drafts[d], Expire(drafts[d]))
                           /\ Expire(drafts[d]).state = "expired"
                           /\ Expire(drafts[d]).field = drafts[d].field
                           /\ Expire(drafts[d]) \in Draft /\ Expire(drafts[d]) # NoRow
  BY RowsAreDrafts, StateChanges, NoRowIsNoDraft
     DEF Abandoned, Open, IsOpen, OpenStates, RowOk
<1>3. drafts \in [DraftId -> Draft \cup {NoRow}] /\ conv \in Conversation
      /\ Finished \in Conversation /\ Finished.active = NoDraft
  BY Conversations DEF IInv, TypeOK
<1>4. /\ drafts' \in [DraftId -> Draft \cup {NoRow}]
      /\ \A d \in Abandoned : drafts'[d] = Expire(drafts[d])
      /\ \A d \in DraftId \ Abandoned : drafts'[d] = drafts[d]
  BY <1>1, <1>2, <1>3
<1>5. TypeOK'
  BY <1>1, <1>3, <1>4 DEF IInv, TypeOK
<1>6. RowsOk'
  BY <1>1, <1>2, <1>4 DEF IInv, RowsOk, Exists, RowOk
<1>7. \A d \in DraftId : drafts'[d] # NoRow /\ IsOpen(drafts'[d]) => d \notin Abandoned /\ Open(d)
  BY <1>2, <1>4 DEF Open, Exists
<1>8. ConversationFits'
  BY <1>1, <1>2, <1>3, <1>4 DEF IInv, ConversationFits, Exists, Fits, Conversation
<1>9. OneReachableDraft'
  BY <1>1, <1>7 DEF IInv, OneReachableDraft, Open, Exists, IsOpen
<1>10. PlanOk'
  <2>1. CASE Quiet
    BY <1>1, <2>1 DEF PlanOk, Quiet
  <2>2. CASE ~Quiet /\ plan.stage = "save"
    BY <1>1, <1>7, <2>2 DEF IInv, PlanOk, Quiet, Open, Exists, IsOpen
  <2>3. CASE ~Quiet /\ plan.stage = "web"
    <3>1. Held(plan.draft, plan.read, plan.row) /\ plan.draft \in DraftId
      BY <2>3 DEF IInv, PlanOk, TypeOK, Quiet
    <3>2. Held(plan.draft, plan.read, plan.row)'
      <4>1. CASE plan.draft \in Abandoned
        BY <1>1, <1>2, <1>4, <3>1, <4>1
           DEF Held, Exists, RowOk, NeverLower, Follows, UserKeeps, IsOpen, Filled
      <4>2. CASE plan.draft \notin Abandoned
        BY <1>1, <1>4, <3>1, <4>2
           DEF Held, Exists, Open, RowOk, NeverLower, Follows, UserKeeps, IsOpen, Filled
      <4> QED
        BY <4>1, <4>2
    <3> QED
      BY <1>1, <2>3, <3>2 DEF PlanOk
  <2>4. CASE ~Quiet /\ plan.stage \notin {"save", "web"}
    <3>1. conv.active \notin Abandoned /\ conv' = conv /\ plan' = plan
      BY <1>1, <2>4
    <3>2. conv.active # NoDraft => conv.active \in DraftId
      BY <1>3 DEF Conversation
    <3>3. \A d \in DraftId : ~Exists(d) <=> ~(drafts'[d] # NoRow)
      BY <1>2, <1>4 DEF Open, Exists
    <3>4. conv.active # NoDraft => drafts'[conv.active] = drafts[conv.active]
      BY <1>4, <3>1, <3>2
    <3>5. CASE plan.stage = "confirm"
      BY <2>4, <3>1, <3>4, <3>5 DEF IInv, PlanOk, Quiet, Open, Exists
    <3>6. CASE plan.stage = "write"
      <4>1. Writable(plan.conv, plan.rows)
        BY <2>4, <3>6 DEF IInv, PlanOk, Quiet
      <4>2. Writable(plan.conv, plan.rows)'
        <5>1. /\ plan'.conv \in Conversation /\ DOMAIN plan'.rows \subseteq DraftId
              /\ plan'.conv.active \in DOMAIN plan'.rows => IsOpen(plan'.rows[plan'.conv.active])
          BY <3>1, <4>1 DEF Writable
        <5>2. ASSUME NEW d \in DOMAIN plan'.rows
              PROVE  /\ RowOk(d, plan'.rows[d])
                     /\ drafts'[d] # NoRow =>
                            /\ d = conv'.active /\ drafts'[d] # NoRow /\ IsOpen(drafts'[d])
                            /\ NeverLower(drafts'[d], plan'.rows[d])
                     /\ IsOpen(plan'.rows[d]) => d = plan'.conv.active /\ Fits(d, plan'.conv, plan'.rows[d])
          <6>1. d \in DraftId /\ d \in DOMAIN plan.rows
            BY <3>1, <4>1, <5>2 DEF Writable
          <6>2. drafts'[d] # NoRow => Exists(d) /\ d = conv.active /\ Open(d)
            BY <3>3, <4>1, <6>1 DEF Writable
          <6>3. drafts'[d] # NoRow => drafts'[d] = drafts[d]
            BY <1>4, <3>1, <6>1, <6>2
          <6> QED
            BY <3>1, <4>1, <6>1, <6>2, <6>3 DEF Writable, Open
        <5>3. plan'.conv.active # NoDraft /\ plan'.conv.active \notin DOMAIN plan'.rows =>
                  /\ plan'.conv.active = conv'.active /\ drafts'[plan'.conv.active] # NoRow
                  /\ IsOpen(drafts'[plan'.conv.active])
                  /\ Fits(plan'.conv.active, plan'.conv, drafts'[plan'.conv.active])
          BY <3>1, <3>4, <4>1 DEF Writable, Open, Exists
        <5>4. conv'.active # NoDraft /\ drafts'[conv'.active] # NoRow
              /\ IsOpen(drafts'[conv'.active]) /\ conv'.active \notin DOMAIN plan'.rows =>
                  plan'.conv.active = conv'.active
          BY <3>1, <3>4, <4>1 DEF Writable, Open, Exists
        <5> QED
          BY <1>1, <5>1, <5>2, <5>3, <5>4 DEF Writable, Open, Exists, IsOpen, Fits, NeverLower, RowOk
      <4> QED
        BY <3>1, <3>6, <4>2 DEF PlanOk
    <3> QED
      BY <2>4, <3>5, <3>6 DEF IInv, TypeOK, Quiet
  <2> QED
    BY <2>1, <2>2, <2>3, <2>4
<1>11. Kept
  BY <1>2, <1>4, RowsAreDrafts, SameFieldsNeverLower DEF Kept
<1> QED
  BY <1>5, <1>6, <1>8, <1>9, <1>10, <1>11 DEF IInv

LEMMA UnlinkKeeps ==
    ASSUME IInv, Unlink
    PROVE  IInv' /\ Kept
<1>1. /\ conv' = Finished /\ orphaned' = orphaned \cup ({conv.active} \ {NoDraft})
      /\ UNCHANGED <<drafts, plan, unfinished, dormant, overwritten>> /\ plan = NoPlan
  BY DEF Unlink, Quiet
<1>2. Finished \in Conversation /\ Finished.active = NoDraft
  BY DEF Finished, Conversation, AwaitingInput
<1>3. orphaned' \subseteq DraftId
  BY <1>1 DEF IInv, TypeOK, Conversation
<1>4. TypeOK' /\ RowsOk' /\ ConversationFits' /\ PlanOk'
  BY <1>1, <1>2, <1>3 DEF IInv, TypeOK, RowsOk, ConversationFits, PlanOk, Exists, RowOk
<1>5. OneReachableDraft'
  BY <1>1, NoDraftAssumption DEF IInv, OneReachableDraft, Open, Exists
<1> QED
  BY <1>1, <1>4, <1>5, SameDrafts DEF IInv

-----------------------------------------------------------------------------
(* The theorems.                                                             *)

LEMMA Initially ==
    ASSUME Init
    PROVE  IInv
<1>1. Finished \in Conversation /\ Finished.active = NoDraft
  BY DEF Finished, Conversation, AwaitingInput
<1>2. \A d \in DraftId : ~Exists(d)
  BY DEF Init, Exists
<1> QED
  BY <1>1, <1>2 DEF Init, IInv, TypeOK, RowsOk, ConversationFits, OneReachableDraft, PlanOk, Open

LEMMA KeptIsEnough ==
    ASSUME Kept
    PROVE  KeptOrOverwritten
BY DEF Kept, KeptOrOverwritten, NeverLower

\* Every step keeps the invariant and does to the drafts only what it may.
LEMMA StepKeeps ==
    ASSUME IInv, [Next]_vars
    PROVE  IInv' /\ KeptOrOverwritten
<1>1. CASE UNCHANGED vars
  <2>1. (TypeOK /\ RowsOk /\ ConversationFits /\ OneReachableDraft /\ PlanOk)'
    BY <1>1 DEF vars, history, IInv, TypeOK, RowsOk, ConversationFits, OneReachableDraft, PlanOk,
                Writable, Held, Exists, Open, Fits, RowOk, NeverLower, Follows, UserKeeps
  <2> QED
    BY <1>1, <2>1, SameDrafts, KeptIsEnough DEF IInv, vars
<1>2. CASE \E d \in DraftId : Worker(d) \/ TimePasses(d) \/ WebRead(d) \/ WebConfirm(d)
  BY <1>2, FinishReceiptKeeps, FailReceiptKeeps, TimePassesKeeps, WebReadKeeps, WebConfirmKeeps,
     KeptIsEnough DEF Worker
<1>3. CASE Handler \/ Abort
  BY <1>3, CommitKeeps, CommitExpenseKeeps, RefuseOrAbortKeeps, SaveConversationKeeps,
     WebWriteKeeps, KeptIsEnough DEF Handler
<1> QED
  BY <1>1, <1>2, <1>3, UpdateKeeps, ExpireAbandonedKeeps, UnlinkKeeps, KeptIsEnough DEF Next

\* At every moment the tables, the conversation and what the running update is
\* about to write fit each other (ManualCaptureFlow, the receipt worker, the
\* retention job, the Web and unlinking together).
THEOREM Invariance == Spec => []IInv
<1>1. Init => IInv
  BY Initially
<1>2. IInv /\ [Next]_vars => IInv'
  BY StepKeeps
<1> QED
  BY <1>1, <1>2, PTL DEF Spec

\* The tables hold drafts and a conversation, and a plan is made of them.
THEOREM TypeCorrect == Spec => []TypeOK
<1>1. IInv => TypeOK
  BY DEF IInv
<1> QED
  BY <1>1, Invariance, PTL

\* The user always has a way on: nothing is asked while a receipt is read, a
\* draft under review can be confirmed unless the Web marked it ready itself, and
\* every open draft is the active one or was when the user unlinked; but for the
\* drafts a request of the Web wrote over what it had not read.
THEOREM TheUserCanGoOn == Spec => []UserCanGoOn
<1>1. IInv => UserCanGoOn
  <2> SUFFICES ASSUME IInv
               PROVE  UserCanGoOn
    OBVIOUS
  <2>1. WaitingAsksNothing
    BY DEF IInv, ConversationFits, WaitingAsksNothing, ActiveIs, Fits
  <2>2. ReviewIsComplete
    BY RowsAreDrafts DEF ReviewIsComplete, RowOk, Complete
  <2> QED
    BY <2>1, <2>2 DEF IInv, UserCanGoOn
<1> QED
  BY <1>1, Invariance, PTL

\* While a draft is collected something is asked: the amount, and the merchant
\* or the category only once the amount is known, unless a request of the Web
\* wrote the draft over a result it had not read.
THEOREM TheNextIsAsked == Spec => []AsksForTheNext
<1>1. IInv => AsksForTheNext
  BY DEF IInv, ConversationFits, AsksForTheNext, CollectingAsks, AskedInOrder, ActiveIs, Fits
<1> QED
  BY <1>1, Invariance, PTL

\* No update, late result or job writes a draft that is closed, though an update
\* writes rows it read before and without a lock; a request of the Web does only
\* when the job expired the draft after the request had read it.
THEOREM ClosedDraftsStay == Spec => ClosedStays
<1>1. IInv /\ [Next]_vars =>
          [\A d \in DraftId :
              Exists(d) /\ ~Open(d) /\ drafts'[d] # drafts[d]
              => Overwrites(d) /\ drafts[d].state = "expired"]_vars
  BY StepKeeps DEF KeptOrOverwritten
<1> QED
  BY <1>1, Invariance, PTL DEF Spec, ClosedStays

\* A field is set back only by a request of the Web that writes over a result it
\* had not read, and never when the user supplied its value: an update does not
\* write a row it read before a result was applied, and no result takes the place
\* of what the user typed.
THEOREM NoUserSourceFalls == Spec => UserSourcesNeverFall
<1>1. IInv /\ [Next]_vars =>
          [\A d \in DraftId, f \in Field :
              Exists(d) =>
                  \/ Rank(drafts'[d].field[f].source) >= Rank(drafts[d].field[f].source)
                  \/ Overwrites(d) /\ drafts[d].field[f].source # "user"]_vars
  BY StepKeeps DEF KeptOrOverwritten
<1> QED
  BY <1>1, Invariance, PTL DEF Spec, UserSourcesNeverFall

\* An update that was handled leaves the conversation at an open draft or at
\* none, whatever the Web, the job or an earlier confirmation did to it.
THEOREM EveryUpdateHeals == Spec => UpdatesHeal
<1>1. IInv /\ [Next]_vars =>
          [Commit \/ SaveConversation => (conv.active = NoDraft \/ Open(conv.active))']_vars
  BY CommitKeeps, SaveConversationKeeps
<1> QED
  BY <1>1, Invariance, PTL DEF Spec, UpdatesHeal

-----------------------------------------------------------------------------
(* What a recognizer's answer may fill in (Recognition).                    *)

\* One value is selected or none: two candidates that differ never both lead.
THEOREM AtMostOneLeader ==
    ASSUME NEW scored, \A s \in scored : s.confidence \in Int, NEW minimum,
           NEW v \in Leader(scored, minimum), NEW u \in Leader(scored, minimum)
    PROVE  u = v
<1>1. PICK s \in scored : s.value = v
          /\ \A r \in scored : r.value # s.value =>
                 s.confidence - r.confidence >= MIN_LEAD_OVER_ALTERNATIVE
    BY DEF Leader
<1>2. PICK t \in scored : t.value = u
          /\ \A r \in scored : r.value # t.value =>
                 t.confidence - r.confidence >= MIN_LEAD_OVER_ALTERNATIVE
    BY DEF Leader
<1>3. s.confidence \in Int /\ t.confidence \in Int
    OBVIOUS
<1>4. MIN_LEAD_OVER_ALTERNATIVE \in Nat /\ MIN_LEAD_OVER_ALTERNATIVE > 0
    BY ThresholdsAssumption
<1>5. ASSUME u # v PROVE FALSE
  <2>1. s.confidence - t.confidence >= MIN_LEAD_OVER_ALTERNATIVE
    BY <1>1, <1>2, <1>5
  <2>2. t.confidence - s.confidence >= MIN_LEAD_OVER_ALTERNATIVE
    BY <1>1, <1>2, <1>5
  <2> QED BY <1>3, <1>4, <2>1, <2>2
<1> QED BY <1>5

\* More candidates that contradict never make the selection bolder: what
\* still leads among more candidates, and was among the fewer, led there too.
THEOREM ContradictionOnlyRemoves ==
    ASSUME NEW scored, NEW more, NEW minimum,
           NEW v \in Leader(scored \union more, minimum)
    PROVE  v \in Leader(scored, minimum) \/ \E s \in more : s.value = v
BY DEF Leader

\* A selected total is never a guess: the receipt has a positive figure
\* labelled as its total and a currency in words or in a symbol of one
\* currency, each recognized with at least its minimum.
THEOREM TotalIsNeverGuessed ==
    ASSUME NEW output, NEW today, NEW m \in SelectValues(output, today).total
    PROVE  /\ \E c \in output.totals :
                  /\ c.label = "total" /\ c.value > 0 /\ c.confidence >= TOTAL_MIN_CONFIDENCE
                  /\ m.minor_units = (c.value * CurrencyScale[m.currency]) \div Precision
                  /\ (c.value * CurrencyScale[m.currency]) % Precision = 0
           /\ \E c \in output.currencies :
                  /\ c.evidence \in TrustedEvidence /\ c.code = m.currency
                  /\ c.confidence >= CURRENCY_MIN_CONFIDENCE
<1> DEFINE labelled == {c \in output.totals : c.label = "total" /\ c.value > 0}
           leaders == Leader({Scored(c.value, c.confidence) : c \in labelled}, TOTAL_MIN_CONFIDENCE)
           currencies == SelectCurrency(output.currencies)
<1>1. m \in SelectTotal(output.totals, currencies)
    BY DEF SelectValues
<1>2. PICK value \in leaders, currency \in currencies :
          /\ m = [minor_units |-> (value * CurrencyScale[currency]) \div Precision,
                  currency |-> currency]
          /\ (value * CurrencyScale[currency]) % Precision = 0
    BY <1>1, Zenon DEF SelectTotal
<1>3. PICK c \in labelled : c.value = value /\ c.confidence >= TOTAL_MIN_CONFIDENCE
    BY DEF Leader, Scored
<1>4. PICK k \in output.currencies :
          /\ k.evidence \in TrustedEvidence /\ k.code = currency
          /\ k.confidence >= CURRENCY_MIN_CONFIDENCE
    BY DEF SelectCurrency, Leader, Scored
<1>5. m.currency = currency /\ m.minor_units = (value * CurrencyScale[currency]) \div Precision
    BY <1>2
<1> QED BY <1>2, <1>3, <1>4, <1>5
=============================================================================
