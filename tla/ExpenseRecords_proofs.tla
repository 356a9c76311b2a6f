------------------------ MODULE ExpenseRecords_proofs ------------------------
(***************************************************************************)
(* For every number of Expenses, tabs, forms and requests: the change      *)
(* records lead from what was confirmed to the row, and a form overwrites  *)
(* only what its user changed.  The argument is about the row's lock: what *)
(* a transaction read under it is still the row when it writes, so the     *)
(* record it appends continues the story.                                  *)
(*                                                                         *)
(* For every filter and every sequence of page sizes the clients may use:  *)
(* a walk through the history shows what stayed as it was exactly once.    *)
(* The argument is about the cursor: what was shown and kept its date is   *)
(* not below it, and what stayed and was not shown yet is.                 *)
(***************************************************************************)
EXTENDS ExpenseHistory, FiniteSetTheorems, SequenceTheorems, TLAPS

-----------------------------------------------------------------------------
(* What a sequence of change records says.                                 *)

Mentions(s, f, n) == {i \in 1..n : f \in DOMAIN s[i].new}
Moves(s, n) == {i \in 1..n : s[i].type # "edited"}

Says(c, s, f, n) ==
    IF Mentions(s, f, n) = {} THEN c[f] ELSE s[MaxOf(Mentions(s, f, n))].new[f]
SaysActive(s, n) == Moves(s, n) = {} \/ s[MaxOf(Moves(s, n))].type = "restored"

Fits(c, s, n) ==
    LET r == s[n + 1]
    IN  /\ \A f \in DOMAIN r.new : r.old[f] = Says(c, s, f, n) /\ r.new[f] # r.old[f]
        /\ r.type = "edited" => DOMAIN r.new # {}
        /\ SaysActive(s, n) <=> r.type \in {"edited", "deleted"}

\* The records s lead from the values c to the row.
Story(c, row, s) ==
    /\ \A f \in Field : row.values[f] = Says(c, s, f, Len(s))
    /\ row.active = SaysActive(s, Len(s))
    /\ \A n \in 0..(Len(s) - 1) : Fits(c, s, n)

\* Every set of records that the story asks for the last of has a last.
HasMax(S) == S # {} => \E m \in S : \A n \in S : n =< m
HasLast(s) == \A n \in 0..Len(s) : HasMax(Moves(s, n)) /\ \A f \in Field : HasMax(Mentions(s, f, n))

LEMMA MaxOfIs ==
    ASSUME NEW S \in SUBSET Nat, NEW m \in S, \A n \in S : n =< m
    PROVE  MaxOf(S) = m
<1>1. \E k \in S : \A n \in S : n =< k
    OBVIOUS
<1> DEFINE max == MaxOf(S)
<1>2. max \in S /\ \A n \in S : n =< max
    BY <1>1 DEF MaxOf
<1> HIDE DEF max
<1>3. m =< max /\ max =< m /\ m \in Nat /\ max \in Nat
    BY <1>2
<1>4. max = m
    BY <1>3
<1> QED BY <1>4 DEF max

LEMMA MaxOfIn ==
    ASSUME NEW S, HasMax(S), S # {}
    PROVE  MaxOf(S) \in S
BY DEF HasMax, MaxOf

\* One record more changes nothing of what the records before it say.
LEMMA EarlierRecordsStand ==
    ASSUME NEW s \in Seq(ChangeRecord), NEW r \in ChangeRecord, HasLast(s),
           NEW n \in 0..Len(s)
    PROVE  /\ Moves(Append(s, r), n) = Moves(s, n)
           /\ \A f : Mentions(Append(s, r), f, n) = Mentions(s, f, n)
           /\ \A c : \A f \in Field : Says(c, Append(s, r), f, n) = Says(c, s, f, n)
           /\ SaysActive(Append(s, r), n) = SaysActive(s, n)
<1>1. Len(s) \in Nat /\ \A i \in 1..n : Append(s, r)[i] = s[i]
    OBVIOUS
<1>2. Moves(Append(s, r), n) = Moves(s, n) /\ \A f : Mentions(Append(s, r), f, n) = Mentions(s, f, n)
    BY <1>1 DEF Moves, Mentions
<1>3. ASSUME NEW c, NEW f \in Field
      PROVE  Says(c, Append(s, r), f, n) = Says(c, s, f, n)
  <2>1. CASE Mentions(s, f, n) = {}
    BY <1>2, <2>1 DEF Says
  <2>2. CASE Mentions(s, f, n) # {}
    <3>1. MaxOf(Mentions(s, f, n)) \in Mentions(s, f, n)
      BY <2>2, MaxOfIn DEF HasLast
    <3>2. MaxOf(Mentions(s, f, n)) \in 1..n
      BY <3>1 DEF Mentions
    <3> QED BY <1>1, <1>2, <2>2, <3>2 DEF Says
  <2> QED BY <2>1, <2>2
<1>4. SaysActive(Append(s, r), n) = SaysActive(s, n)
  <2>1. CASE Moves(s, n) = {}
    BY <1>2, <2>1 DEF SaysActive
  <2>2. CASE Moves(s, n) # {}
    <3>1. MaxOf(Moves(s, n)) \in Moves(s, n)
      BY <2>2, MaxOfIn DEF HasLast
    <3>2. MaxOf(Moves(s, n)) \in 1..n
      BY <3>1 DEF Moves
    <3> QED BY <1>1, <1>2, <2>2, <3>2 DEF SaysActive
  <2> QED BY <2>1, <2>2
<1> QED BY <1>2, <1>3, <1>4

\* And what they say with it is what it says, or else what they said.
LEMMA LastRecordSpeaks ==
    ASSUME NEW s \in Seq(ChangeRecord), NEW r \in ChangeRecord, HasLast(s)
    PROVE  LET k == Len(s)
               t == Append(s, r)
           IN  /\ \A c : \A f \in Field :
                     Says(c, t, f, k + 1) = IF f \in DOMAIN r.new THEN r.new[f] ELSE Says(c, s, f, k)
               /\ SaysActive(t, k + 1) = IF r.type # "edited" THEN r.type = "restored"
                                         ELSE SaysActive(s, k)
               /\ HasLast(t)
<1> DEFINE k == Len(s)
           t == Append(s, r)
<1>1. k \in Nat /\ Len(t) = k + 1 /\ t[k + 1] = r /\ k \in 0..Len(s)
    OBVIOUS
<1> HIDE DEF k, t
<1>2. \A i \in 1..(k + 1) : i \in 1..k \/ i = k + 1
    BY <1>1
<1>3. ASSUME NEW f
      PROVE  Mentions(t, f, k + 1) = IF f \in DOMAIN r.new THEN Mentions(t, f, k) \cup {k + 1}
                                     ELSE Mentions(t, f, k)
    BY <1>1, <1>2 DEF Mentions
<1>4. Moves(t, k + 1) = IF r.type # "edited" THEN Moves(t, k) \cup {k + 1} ELSE Moves(t, k)
    BY <1>1, <1>2 DEF Moves
<1>5. \A f : MaxOf(Mentions(t, f, k) \cup {k + 1}) = k + 1
    BY <1>1, MaxOfIs DEF Mentions
<1>6. MaxOf(Moves(t, k) \cup {k + 1}) = k + 1
    BY <1>1, MaxOfIs DEF Moves
<1>7. ASSUME NEW c, NEW f \in Field
      PROVE  Says(c, t, f, k + 1) = IF f \in DOMAIN r.new THEN r.new[f] ELSE Says(c, s, f, k)
  <2>1. CASE f \in DOMAIN r.new
    BY <1>1, <1>3, <1>5, <2>1 DEF Says
  <2>2. CASE f \notin DOMAIN r.new
    <3>1. Says(c, t, f, k) = Says(c, s, f, k)
      BY <1>1, EarlierRecordsStand DEF k, t
    <3> QED BY <1>3, <2>2, <3>1 DEF Says
  <2> QED BY <2>1, <2>2
<1>8. SaysActive(t, k + 1) = IF r.type # "edited" THEN r.type = "restored" ELSE SaysActive(s, k)
  <2>1. CASE r.type # "edited"
    BY <1>1, <1>4, <1>6, <2>1 DEF SaysActive
  <2>2. CASE r.type = "edited"
    <3>1. SaysActive(t, k) = SaysActive(s, k)
      BY <1>1, EarlierRecordsStand DEF k, t
    <3> QED BY <1>4, <2>2, <3>1 DEF SaysActive
  <2> QED BY <2>1, <2>2
<1>9. HasLast(t)
  <2>1. ASSUME NEW n \in 0..(k + 1)
        PROVE  HasMax(Moves(t, n)) /\ \A f \in Field : HasMax(Mentions(t, f, n))
    <3>1. CASE n \in 0..k
      BY <3>1, EarlierRecordsStand DEF HasLast, k, t
    <3>2. CASE n = k + 1
      <4>1. HasMax(Moves(t, k)) /\ \A f \in Field : HasMax(Mentions(t, f, k))
        BY <1>1, EarlierRecordsStand DEF HasLast, k, t
      <4>2. HasMax(Moves(t, k) \cup {k + 1})
        BY <1>1 DEF HasMax, Moves
      <4>3. \A f : HasMax(Mentions(t, f, k) \cup {k + 1})
        BY <1>1 DEF HasMax, Mentions
      <4> QED BY <1>3, <1>4, <3>2, <4>1, <4>2, <4>3
    <3> QED BY <1>1, <3>1, <3>2
  <2> QED BY <1>1, <2>1 DEF HasLast
<1> QED BY <1>7, <1>8, <1>9 DEF k, t

LEMMA NoRecords ==
    ASSUME NEW c
    PROVE  /\ \A f : Says(c, <<>>, f, 0) = c[f]
           /\ SaysActive(<<>>, 0) = TRUE
           /\ HasLast(<<>>) /\ Len(<<>>) = 0
<1>1. Moves(<<>>, 0) = {} /\ \A f : Mentions(<<>>, f, 0) = {}
    BY DEF Moves, Mentions
<1>2. \A n \in 0..Len(<<>>) : n = 0
    OBVIOUS
<1> QED BY <1>1, <1>2 DEF Says, SaysActive, HasLast, HasMax

-----------------------------------------------------------------------------
(* What a use case does to a row it may change.                            *)

\* The use case has something to do with the row it locked.
Changeable(kind, before, edit) ==
    /\ kind \in {"form", "patch"} => /\ before.active /\ ~Refused(before.values, edit)
                                     /\ Applied(before.values, edit) # before.values
    /\ kind = "delete" => before.active
    /\ kind = "restore" => ~before.active

\* The values and the state of the new row, case by case.
RowOf(kind, before, edit, after) ==
    /\ kind \in {"form", "patch"} => /\ after.values = Applied(before.values, edit)
                                     /\ after.active = before.active
    /\ kind \in {"delete", "restore"} => after.values = before.values
    /\ kind = "delete" => after.active = FALSE
    /\ kind = "restore" => after.active = TRUE

LEMMA NewRowTyped ==
    ASSUME NEW kind \in Kind, NEW before \in Row, NEW edit \in Part,
           Changeable(kind, before, edit)
    PROVE  /\ NewRow(kind, before, edit) \in Row
           /\ RowOf(kind, before, edit, NewRow(kind, before, edit))
<1>1. before.values \in Values /\ before.active \in BOOLEAN /\ before.created_at \in 1..MaxClock
    BY DEF Row
<1>2. CASE kind \in {"form", "patch"}
  <2>1. \A f \in Field : Applied(before.values, edit)[f] \in Value[f]
    BY <1>1, <1>2, AcceptableAssumption DEF Applied, Changeable, Refused, Values
  <2>2. Applied(before.values, edit) \in Values
    BY <2>1 DEF Values, Applied, AnyValue
  <2>3. NewRow(kind, before, edit) = [before EXCEPT !.values = Applied(before.values, edit)]
    BY <1>2 DEF NewRow
  <2> QED BY <1>1, <1>2, <2>2, <2>3 DEF Row, RowOf
<1>3. CASE kind = "delete"
  <2>1. NewRow(kind, before, edit) = [before EXCEPT !.active = FALSE]
    BY <1>3 DEF NewRow
  <2> QED BY <1>1, <1>3, <2>1 DEF Row, RowOf
<1>4. CASE kind = "restore"
  <2>1. NewRow(kind, before, edit) = [before EXCEPT !.active = TRUE]
    BY <1>4 DEF NewRow
  <2> QED BY <1>1, <1>4, <2>1 DEF Row, RowOf
<1> QED BY <1>2, <1>3, <1>4 DEF Kind

LEMMA PartsOfFields ==
    ASSUME NEW part \in Part
    PROVE  DOMAIN part \in SUBSET Field
<1>1. PICK F \in SUBSET Field : part \in [F -> AnyValue]
    BY DEF Part
<1> QED BY <1>1

LEMMA RestrictedIsPart ==
    ASSUME NEW v \in Values, NEW F \in SUBSET Field
    PROVE  Restricted(v, F) \in Part
<1>1. Restricted(v, F) \in [F -> AnyValue]
    BY DEF Restricted, Values
<1> QED BY <1>1 DEF Part

LEMMA RecordTyped ==
    ASSUME NEW kind \in Kind, NEW before \in Row, NEW after \in Row
    PROVE  LET r == RecordOf(kind, before, after)
               F == Touched(after.values, before.values)
           IN  /\ r \in ChangeRecord
               /\ r.type = IF kind = "delete" THEN "deleted"
                           ELSE IF kind = "restore" THEN "restored" ELSE "edited"
               /\ DOMAIN r.new = F
               /\ \A f \in F : r.new[f] = after.values[f] /\ r.old[f] = before.values[f]
<1> DEFINE F == Touched(after.values, before.values)
           type == IF kind = "delete" THEN "deleted" ELSE IF kind = "restore" THEN "restored" ELSE "edited"
<1>1. RecordOf(kind, before, after) =
          [type |-> type, old |-> Restricted(before.values, F), new |-> Restricted(after.values, F)]
    BY DEF RecordOf
<1>2. F \in SUBSET Field /\ before.values \in Values /\ after.values \in Values
    BY DEF Touched, Row
<1>3. Restricted(before.values, F) \in Part /\ Restricted(after.values, F) \in Part
    BY <1>2, RestrictedIsPart
<1>4. type \in {"edited", "deleted", "restored"}
    OBVIOUS
<1> HIDE DEF F, type
<1>5. RecordOf(kind, before, after) \in ChangeRecord
    BY <1>1, <1>3, <1>4 DEF ChangeRecord
<1>6. \A f \in F : Restricted(after.values, F)[f] = after.values[f]
                   /\ Restricted(before.values, F)[f] = before.values[f]
    BY DEF Restricted
<1>7. DOMAIN Restricted(after.values, F) = F
    BY DEF Restricted
<1> QED BY <1>1, <1>5, <1>6, <1>7 DEF F, type

\* The record a use case appends continues the story of the row it locked.
LEMMA StoryContinues ==
    ASSUME NEW c, NEW before \in Row, NEW s \in Seq(ChangeRecord), HasLast(s),
           Story(c, before, s), NEW kind \in Kind, NEW edit \in Part,
           Changeable(kind, before, edit),
           NEW after, after = NewRow(kind, before, edit),
           NEW r, r = RecordOf(kind, before, after)
    PROVE  Story(c, after, Append(s, r)) /\ HasLast(Append(s, r))
           /\ Append(s, r) \in Seq(ChangeRecord)
<1> DEFINE k == Len(s)
           t == Append(s, r)
           F == Touched(after.values, before.values)
<1>1. after \in Row
    BY NewRowTyped
<1>2. /\ r \in ChangeRecord /\ DOMAIN r.new = F
      /\ r.type = IF kind = "delete" THEN "deleted" ELSE IF kind = "restore" THEN "restored" ELSE "edited"
      /\ \A f \in F : r.new[f] = after.values[f] /\ r.old[f] = before.values[f]
    BY <1>1, RecordTyped
<1>3. k \in Nat /\ Len(t) = k + 1 /\ t[k + 1] = r /\ t \in Seq(ChangeRecord) /\ k \in 0..Len(s)
    BY <1>2
<1>4. /\ \A f \in Field : Says(c, t, f, k + 1) = IF f \in DOMAIN r.new THEN r.new[f] ELSE Says(c, s, f, k)
      /\ SaysActive(t, k + 1) = IF r.type # "edited" THEN r.type = "restored" ELSE SaysActive(s, k)
      /\ HasLast(t)
  <2>1. r \in ChangeRecord
    BY <1>2
  <2> QED BY <2>1, LastRecordSpeaks
<1>5. /\ \A f \in Field : before.values[f] = Says(c, s, f, k)
      /\ before.active = SaysActive(s, k)
      /\ \A n \in 0..(k - 1) : Fits(c, s, n)
    BY DEF Story
<1>6. \A n \in 0..k : /\ \A f \in Field : Says(c, t, f, n) = Says(c, s, f, n)
                      /\ SaysActive(t, n) = SaysActive(s, n)
    BY <1>2, EarlierRecordsStand
<1>7. \A n \in 1..k : t[n] = s[n]
    BY <1>2
<1>8. RowOf(kind, before, edit, after)
    BY NewRowTyped
<1>9. \A n \in 1..k : DOMAIN s[n].new \in SUBSET Field
  <2>1. \A n \in 1..k : s[n] \in ChangeRecord
    OBVIOUS
  <2>2. \A n \in 1..k : s[n].new \in Part
    BY <2>1 DEF ChangeRecord
  <2> QED BY <2>2, PartsOfFields
<1> HIDE DEF k, t
<1>10. \A f \in Field : after.values[f] = Says(c, t, f, k + 1)
  <2>1. ASSUME NEW f \in Field
        PROVE  after.values[f] = Says(c, t, f, k + 1)
    <3>1. CASE f \in F
      BY <1>2, <1>4, <3>1
    <3>2. CASE f \notin F
      <4>1. after.values[f] = before.values[f]
        BY <3>2 DEF Touched
      <4> QED BY <1>2, <1>4, <1>5, <3>2, <4>1
    <3> QED BY <3>1, <3>2
  <2> QED BY <2>1
<1>11. after.active = SaysActive(t, k + 1)
  <2>1. CASE kind \in {"form", "patch"}
    BY <1>2, <1>4, <1>5, <1>8, <2>1 DEF RowOf
  <2>2. CASE kind = "delete"
    BY <1>2, <1>4, <1>8, <2>2 DEF RowOf
  <2>3. CASE kind = "restore"
    BY <1>2, <1>4, <1>8, <2>3 DEF RowOf
  <2> QED BY <2>1, <2>2, <2>3 DEF Kind
<1>12. ASSUME NEW n \in 0..(k - 1)
       PROVE  Fits(c, t, n)
  <2>1. n + 1 \in 1..k /\ n \in 0..k
    BY <1>3
  <2>2. t[n + 1] = s[n + 1] /\ DOMAIN s[n + 1].new \in SUBSET Field
    BY <1>7, <1>9, <2>1
  <2>3. Fits(c, s, n)
    BY <1>5
  <2> QED BY <1>6, <2>1, <2>2, <2>3 DEF Fits
<1>13. Fits(c, t, k)
  <2>1. \A f \in DOMAIN r.new : r.old[f] = Says(c, t, f, k) /\ r.new[f] # r.old[f]
    <3>1. ASSUME NEW f \in F
          PROVE  r.old[f] = Says(c, t, f, k) /\ r.new[f] # r.old[f]
      <4>1. f \in Field /\ after.values[f] # before.values[f]
        BY DEF Touched
      <4>2. k \in 0..k
        BY <1>3
      <4> QED BY <1>2, <1>5, <1>6, <4>1, <4>2
    <3> QED BY <1>2, <3>1
  <2>2. r.type = "edited" => DOMAIN r.new # {}
    <3>1. SUFFICES ASSUME r.type = "edited", F = {} PROVE FALSE
      BY <1>2
    <3>2. kind \in {"form", "patch"}
      BY <1>2, <3>1 DEF Kind
    <3>3. after.values # before.values
      BY <1>8, <3>2 DEF Changeable, RowOf
    <3>4. after.values \in [Field -> AnyValue] /\ before.values \in [Field -> AnyValue]
      BY <1>1 DEF Row, Values
    <3>5. \A f \in Field : after.values[f] = before.values[f]
      BY <3>1 DEF Touched
    <3> QED BY <3>3, <3>4, <3>5
  <2>3. SaysActive(t, k) <=> r.type \in {"edited", "deleted"}
    <3>1. SaysActive(t, k) = before.active
      BY <1>3, <1>5, <1>6 DEF k
    <3>2. CASE kind \in {"form", "patch"}
      <4>1. before.active /\ r.type = "edited"
        BY <1>2, <3>2 DEF Changeable
      <4> QED BY <3>1, <4>1
    <3>3. CASE kind = "delete"
      <4>1. before.active /\ r.type = "deleted"
        BY <1>2, <3>3 DEF Changeable
      <4> QED BY <3>1, <4>1
    <3>4. CASE kind = "restore"
      <4>1. ~before.active /\ r.type = "restored"
        BY <1>2, <3>4 DEF Changeable
      <4> QED BY <3>1, <4>1
    <3> QED BY <3>2, <3>3, <3>4 DEF Kind
  <2> QED BY <1>3, <2>1, <2>2, <2>3 DEF Fits
<1>14. \A n \in 0..((k + 1) - 1) : Fits(c, t, n)
    BY <1>3, <1>12, <1>13
<1> QED BY <1>3, <1>4, <1>10, <1>11, <1>14 DEF Story, t

-----------------------------------------------------------------------------
(* The transactions.                                                       *)

TransactionStages == {"locked", "appended"}

\* What a request computed its edit from, and what its transaction locked.
TabTrue(w) ==
    /\ w.stage \in {"asked", "locked", "appended"} /\ w.kind = "form" =>
           DOMAIN w.edit = WithMoney(w.touched)
    /\ w.stage \in TransactionStages => /\ rows[w.expense] = w.before
                                        /\ Changeable(w.kind, w.before, w.edit)

TabsTrue == \A t \in Tab : TabTrue(work[t])

\* One transaction at a time has the row of an Expense.
OneWriter ==
    \A t, u \in Tab : work[t].stage \in TransactionStages /\ work[u].stage \in TransactionStages
                         /\ work[t].expense = work[u].expense => t = u

StoryOf(e) ==
    /\ rows[e] = NoRow => changes[e] = <<>>
    /\ rows[e] # NoRow => Story(created[e], rows[e], changes[e])
    /\ HasLast(changes[e])

Stories == \A e \in Expense : StoryOf(e)

IInv == TypeOK /\ TabsTrue /\ OneWriter /\ Stories

WorkType == {Idle} \cup Form \cup Asked \cup InTransaction

LEMMA WorkTypes ==
    ASSUME NEW w \in WorkType
    PROVE  /\ w.stage = "form" => w \in Form
           /\ w.stage = "asked" => w \in Asked
           /\ w.stage \in TransactionStages => w \in InTransaction
           /\ w.stage \notin {"form", "asked", "locked", "appended"} => w = Idle
BY DEF WorkType, Idle, Form, Asked, InTransaction, TransactionStages

\* A step of one tab that writes no row.
LEMMA TabMoves ==
    ASSUME IInv, NEW t \in Tab, NEW new \in WorkType,
           work' = [work EXCEPT ![t] = new], UNCHANGED <<rows, changes, clock, created>>,
           TabTrue(new),
           new.stage \in TransactionStages =>
               \A u \in Tab \ {t} : work[u].stage \in TransactionStages => work[u].expense # new.expense
    PROVE  IInv'
<1>1. work'[t] = new /\ \A u \in Tab \ {t} : work'[u] = work[u]
    BY DEF IInv, TypeOK
<1>2. TypeOK'
    BY DEF IInv, TypeOK, WorkType
<1>3. TabsTrue'
  <2>1. ASSUME NEW u \in Tab PROVE TabTrue(work[u])'
    BY <1>1 DEF IInv, TabsTrue, TabTrue
  <2> QED BY <2>1 DEF TabsTrue
<1>4. OneWriter'
    BY <1>1 DEF IInv, OneWriter
<1>5. Stories'
    BY DEF IInv, Stories, StoryOf
<1> QED BY <1>2, <1>3, <1>4, <1>5 DEF IInv

LEMMA TabTypes ==
    ASSUME IInv, NEW t \in Tab
    PROVE  work[t] \in WorkType
BY DEF IInv, TypeOK, WorkType

LEMMA BecomesIdle ==
    ASSUME IInv, NEW t \in Tab, work' = [work EXCEPT ![t] = Idle],
           UNCHANGED <<rows, changes, clock, created>>
    PROVE  IInv'
<1>1. Idle \in WorkType /\ Idle.stage = "idle"
    BY DEF WorkType, Idle
<1>2. TabTrue(Idle)
    BY <1>1 DEF TabTrue, TransactionStages
<1> QED BY <1>1, <1>2, TabMoves DEF TransactionStages

LEMMA CreateKeeps ==
    ASSUME IInv, NEW e \in Expense, NEW values \in Confirmed, Create(e, values)
    PROVE  IInv'
<1> DEFINE row == [values |-> values, active |-> TRUE, created_at |-> clock]
<1>1. /\ rows[e] = NoRow /\ rows' = [rows EXCEPT ![e] = row]
      /\ created' = [created EXCEPT ![e] = values] /\ UNCHANGED <<changes, work, clock>>
    BY DEF Create, Exists
<1>2. row \in Row /\ row.values = values /\ row.active = TRUE /\ row # NoRow
  <2>1. values \in Values /\ clock \in 1..MaxClock /\ TRUE \in BOOLEAN
    BY InputsAssumption DEF IInv, TypeOK
  <2>2. row \in Row
    BY <2>1 DEF Row
  <2>3. row # NoRow
    BY <2>2, NoRowAssumption
  <2>4. row.values = values /\ row.active = TRUE
    OBVIOUS
  <2> QED BY <2>2, <2>3, <2>4
<1>3. TypeOK'
    BY <1>1, <1>2, InputsAssumption DEF IInv, TypeOK
<1>4. rows'[e] = row /\ created'[e] = values /\ changes'[e] = <<>>
    BY <1>1 DEF IInv, TypeOK, Stories, StoryOf
<1> HIDE DEF row
<1>5. TabsTrue'
  <2>1. ASSUME NEW t \in Tab PROVE TabTrue(work[t])'
    <3>1. TabTrue(work[t]) /\ work'[t] = work[t]
      BY <1>1 DEF IInv, TabsTrue
    <3>2. CASE work[t].stage \in TransactionStages
      <4>1. work[t].before \in Row /\ work[t].expense \in Expense
        BY <3>2, TabTypes, WorkTypes DEF InTransaction
      <4>2. work[t].expense # e
        BY <1>1, <3>1, <3>2, <4>1, NoRowAssumption DEF TabTrue
      <4>3. rows'[work[t].expense] = rows[work[t].expense]
        BY <1>1, <4>1, <4>2 DEF IInv, TypeOK
      <4> QED BY <3>1, <4>3 DEF TabTrue
    <3>3. CASE work[t].stage \notin TransactionStages
      BY <3>1, <3>3 DEF TabTrue
    <3> QED BY <3>2, <3>3
  <2> QED BY <2>1 DEF TabsTrue
<1>6. OneWriter'
    BY <1>1 DEF IInv, OneWriter
<1>7. Stories'
  <2>1. StoryOf(e)'
    <3>1. Story(values, row, <<>>)
      <4>1. \A n \in 0..(Len(<<>>) - 1) : Fits(values, <<>>, n)
        OBVIOUS
      <4> QED BY <1>2, <4>1, NoRecords DEF Story
    <3> QED BY <1>2, <1>4, <3>1, NoRecords DEF StoryOf
  <2>2. ASSUME NEW d \in Expense \ {e} PROVE StoryOf(d)'
    <3>1. rows'[d] = rows[d] /\ created'[d] = created[d] /\ changes'[d] = changes[d]
      BY <1>1 DEF IInv, TypeOK
    <3> QED BY <3>1 DEF IInv, Stories, StoryOf
  <2> QED BY <2>1, <2>2 DEF Stories
<1> QED BY <1>3, <1>5, <1>6, <1>7 DEF IInv

LEMMA TickKeeps ==
    ASSUME IInv, Tick
    PROVE  IInv'
<1>1. UNCHANGED <<rows, changes, work, created>>
    BY DEF Tick
<1>2. TypeOK'
    BY BoundsAssumption DEF IInv, TypeOK, Tick
<1>3. TabsTrue' /\ OneWriter' /\ Stories'
    BY <1>1 DEF IInv, TabsTrue, TabTrue, OneWriter, Stories, StoryOf
<1> QED BY <1>2, <1>3 DEF IInv

LEMMA AskKeeps ==
    ASSUME IInv, NEW t \in Tab, NEW kind \in Kind, NEW e \in Expense, NEW edit \in Part,
           NEW touched \in SUBSET Field, kind = "form" => DOMAIN edit = WithMoney(touched),
           Ask(t, kind, e, edit, touched)
    PROVE  IInv'
<1> DEFINE new == [stage |-> "asked", kind |-> kind, expense |-> e, edit |-> edit,
                   touched |-> touched]
<1>1. new \in Asked
    BY DEF Asked
<1>2. new \in WorkType
    BY <1>1 DEF WorkType
<1>3. TabTrue(new) /\ new.stage \notin TransactionStages
    BY DEF TabTrue, TransactionStages
<1> QED BY <1>2, <1>3, TabMoves DEF Ask

LEMMA EmptyEdit == <<>> \in Part
<1>1. <<>> \in [{} -> AnyValue]
    OBVIOUS
<1> QED BY <1>1 DEF Part

LEMMA UseFormKeeps ==
    ASSUME IInv, NEW t \in Tab, UseForm(t)
    PROVE  IInv'
<1>1. CASE CloseForm(t)
    BY <1>1, BecomesIdle DEF CloseForm
<1>2. ASSUME NEW v \in Values, SubmitForm(t, v) PROVE IInv'
  <2> DEFINE touched == Touched(v, work[t].values)
             edit == FormEdit(v, work[t].values)
  <2>1. work[t] \in Form /\ work[t].expense \in Expense
    BY <1>2, TabTypes, WorkTypes DEF SubmitForm, Form
  <2>2. touched \in SUBSET Field /\ WithMoney(touched) \in SUBSET Field
    BY DEF Touched, WithMoney, Money, Field
  <2>3. edit = [f \in WithMoney(touched) |-> v[f]]
    BY DEF FormEdit
  <2>4. \A f \in WithMoney(touched) : v[f] \in AnyValue
    BY <2>2 DEF Values
  <2>5. edit \in [WithMoney(touched) -> AnyValue] /\ DOMAIN edit = WithMoney(touched)
    BY <2>3, <2>4
  <2>6. edit \in Part
    BY <2>2, <2>5 DEF Part
  <2>7. Ask(t, "form", work[t].expense, edit, touched)
    BY <1>2 DEF SubmitForm
  <2> HIDE DEF touched, edit
  <2>8. "form" \in Kind
    BY DEF Kind
  <2> QED BY <2>1, <2>2, <2>5, <2>6, <2>7, <2>8, AskKeeps
<1>3. ASSUME NEW e \in Expense, OpenForm(t, e) PROVE IInv'
  <2> DEFINE new == [stage |-> "form", expense |-> e, values |-> rows[e].values]
  <2>1. rows[e] \in Row
    BY <1>3 DEF OpenForm, Active, Exists, IInv, TypeOK
  <2>2. new \in Form
    BY <2>1 DEF Form, Row
  <2>3. new \in WorkType
    BY <2>2 DEF WorkType
  <2>4. TabTrue(new) /\ new.stage \notin TransactionStages
    BY DEF TabTrue, TransactionStages
  <2> QED BY <1>3, <2>3, <2>4, TabMoves DEF OpenForm
<1> QED BY <1>1, <1>2, <1>3 DEF UseForm

LEMMA CallApiKeeps ==
    ASSUME IInv, NEW t \in Tab, CallApi(t)
    PROVE  IInv'
<1>1. PICK e \in Expense : \/ \E edit \in Patches : Patch(t, e, edit)
                          \/ AskDelete(t, e)
                          \/ AskRestore(t, e)
    BY DEF CallApi
<1>2. ASSUME NEW edit \in Patches, Patch(t, e, edit) PROVE IInv'
  <2>1. edit \in Part /\ DOMAIN edit \in SUBSET Field /\ "patch" \in Kind
    BY InputsAssumption, PartsOfFields DEF Kind
  <2> QED BY <1>2, <2>1, AskKeeps DEF Patch
<1>3. CASE AskDelete(t, e)
    BY <1>3, AskKeeps, EmptyEdit DEF AskDelete, Kind
<1>4. CASE AskRestore(t, e)
    BY <1>4, AskKeeps, EmptyEdit DEF AskRestore, Kind
<1> QED BY <1>1, <1>2, <1>3, <1>4

LEMMA SomethingToDo ==
    ASSUME IInv, NEW kind \in Kind, NEW e \in Expense, NEW edit, ~NothingToDo(kind, e, edit)
    PROVE  rows[e] \in Row /\ Changeable(kind, rows[e], edit)
<1>1. rows[e] # NoRow => rows[e] \in Row
    BY DEF IInv, TypeOK
<1>2. CASE kind \in {"form", "patch"}
  <2>1. Active(e) /\ ~Refused(rows[e].values, edit) /\ Applied(rows[e].values, edit) # rows[e].values
    BY <1>2 DEF NothingToDo
  <2> QED BY <1>1, <1>2, <2>1 DEF Changeable, Active, Exists
<1>3. CASE kind = "delete"
  <2>1. Active(e)
    BY <1>3 DEF NothingToDo
  <2> QED BY <1>1, <1>3, <2>1 DEF Changeable, Active, Exists
<1>4. CASE kind = "restore"
  <2>1. Exists(e) /\ ~rows[e].active
    BY <1>4 DEF NothingToDo
  <2> QED BY <1>1, <1>4, <2>1 DEF Changeable, Exists
<1> QED BY <1>2, <1>3, <1>4 DEF Kind

LEMMA LockKeeps ==
    ASSUME IInv, NEW t \in Tab, Lock(t)
    PROVE  IInv'
<1> DEFINE w == work[t]
           new == [stage |-> "locked", kind |-> w.kind, expense |-> w.expense, edit |-> w.edit,
                   touched |-> w.touched, before |-> rows[w.expense]]
<1>1. /\ w.stage = "asked" /\ ~RowLocked(w.expense) /\ ~NothingToDo(w.kind, w.expense, w.edit)
      /\ work' = [work EXCEPT ![t] = new] /\ UNCHANGED <<rows, changes, clock, created>>
    BY DEF Lock
<1>2. w.kind \in Kind /\ w.expense \in Expense /\ w.edit \in Part /\ w.touched \in SUBSET Field
    BY <1>1, TabTypes, WorkTypes DEF Asked
<1>3. rows[w.expense] \in Row /\ Changeable(w.kind, rows[w.expense], w.edit)
    BY <1>1, <1>2, SomethingToDo
<1>4. new \in InTransaction
    BY <1>2, <1>3 DEF InTransaction
<1>5. new \in WorkType
    BY <1>4 DEF WorkType
<1>6. w.kind = "form" => DOMAIN w.edit = WithMoney(w.touched)
    BY <1>1 DEF IInv, TabsTrue, TabTrue
<1>7. TabTrue(new)
    BY <1>3, <1>6 DEF TabTrue
<1>8. \A u \in Tab : work[u].stage \in TransactionStages => work[u].expense # new.expense
    BY <1>1 DEF RowLocked, TransactionStages
<1> HIDE DEF new
<1> QED BY <1>1, <1>5, <1>7, <1>8, TabMoves

LEMMA AppendKeeps ==
    ASSUME IInv, NEW t \in Tab, AppendRecord(t)
    PROVE  IInv'
<1> DEFINE new == [work[t] EXCEPT !.stage = "appended"]
<1>1. work[t].stage = "locked" /\ work' = [work EXCEPT ![t] = new]
      /\ UNCHANGED <<rows, changes, clock, created>>
    BY DEF AppendRecord
<1>2. work[t] \in InTransaction
    BY <1>1, TabTypes, WorkTypes DEF TransactionStages
<1>3. /\ new \in InTransaction /\ new.kind = work[t].kind /\ new.expense = work[t].expense
      /\ new.edit = work[t].edit /\ new.touched = work[t].touched /\ new.before = work[t].before
    BY <1>2 DEF InTransaction
<1>4. new \in WorkType
    BY <1>3 DEF WorkType
<1>5. TabTrue(work[t])
    BY DEF IInv, TabsTrue
<1> HIDE DEF new
<1>6. TabTrue(new)
    BY <1>1, <1>3, <1>5 DEF TabTrue, TransactionStages
<1>7. \A u \in Tab \ {t} : work[u].stage \in TransactionStages => work[u].expense # new.expense
    BY <1>1, <1>3 DEF IInv, OneWriter, TransactionStages
<1> QED BY <1>1, <1>4, <1>6, <1>7, TabMoves

LEMMA CommitKeeps ==
    ASSUME IInv, NEW t \in Tab, UpdateAndCommit(t)
    PROVE  IInv'
<1>0. PICK e : e = work[t].expense
    OBVIOUS
<1> DEFINE w == work[t]
           after == NewRow(w.kind, w.before, w.edit)
           r == RecordOf(w.kind, w.before, after)
<1>1. /\ w.stage = "appended" /\ rows' = [rows EXCEPT ![e] = after]
      /\ changes' = [changes EXCEPT ![e] = Append(changes[e], r)]
      /\ work' = [work EXCEPT ![t] = Idle] /\ UNCHANGED <<clock, created>>
    BY <1>0 DEF UpdateAndCommit, Record
<1>2. w \in InTransaction
    BY <1>1, TabTypes, WorkTypes DEF TransactionStages
<1>3. w.kind \in Kind /\ e \in Expense /\ w.edit \in Part /\ w.before \in Row
    BY <1>0, <1>2 DEF InTransaction
<1>4. rows[e] = w.before /\ Changeable(w.kind, w.before, w.edit)
    BY <1>0, <1>1 DEF IInv, TabsTrue, TabTrue, TransactionStages
<1>5. after \in Row
    BY <1>3, <1>4, NewRowTyped
<1>6. changes[e] \in Seq(ChangeRecord) /\ HasLast(changes[e]) /\ Story(created[e], w.before, changes[e])
    BY <1>3, <1>4, NoRowAssumption DEF IInv, TypeOK, Stories, StoryOf
<1>7. /\ Story(created[e], after, Append(changes[e], r)) /\ HasLast(Append(changes[e], r))
      /\ Append(changes[e], r) \in Seq(ChangeRecord)
    BY <1>3, <1>4, <1>6, StoryContinues
<1>8. work'[t] = Idle /\ Idle.stage = "idle" /\ \A u \in Tab \ {t} : work'[u] = work[u]
    BY <1>1 DEF IInv, TypeOK, Idle
<1> HIDE DEF after, r
<1>9. TypeOK'
  <2>1. rows' \in [Expense -> Row \cup {NoRow}]
    BY <1>1, <1>5 DEF IInv, TypeOK
  <2>2. changes' \in [Expense -> Seq(ChangeRecord)]
    BY <1>1, <1>7 DEF IInv, TypeOK
  <2>3. work' \in [Tab -> {Idle} \cup Form \cup Asked \cup InTransaction]
    BY <1>1 DEF IInv, TypeOK
  <2> QED BY <1>1, <2>1, <2>2, <2>3 DEF IInv, TypeOK
<1>10. TabsTrue'
  <2>1. ASSUME NEW u \in Tab PROVE TabTrue(work[u])'
    <3>1. CASE u = t
      BY <1>8, <3>1 DEF TabTrue, TransactionStages
    <3>2. CASE u # t /\ work[u].stage \in TransactionStages
      <4>1. work[u].expense # e
        BY <1>0, <1>1, <3>2 DEF IInv, OneWriter, TransactionStages
      <4>2. work[u].expense \in Expense
        BY <3>2, TabTypes, WorkTypes DEF InTransaction
      <4>3. rows'[work[u].expense] = rows[work[u].expense] /\ work'[u] = work[u]
        BY <1>1, <1>8, <3>2, <4>1, <4>2 DEF IInv, TypeOK
      <4> QED BY <4>3 DEF IInv, TabsTrue, TabTrue
    <3>3. CASE u # t /\ work[u].stage \notin TransactionStages
      <4>1. work'[u] = work[u]
        BY <1>8, <3>3
      <4> QED BY <3>3, <4>1 DEF IInv, TabsTrue, TabTrue
    <3> QED BY <3>1, <3>2, <3>3
  <2> QED BY <2>1 DEF TabsTrue
<1>11. OneWriter'
    BY <1>8 DEF IInv, OneWriter, TransactionStages
<1>12. Stories'
  <2>1. rows'[e] = after /\ changes'[e] = Append(changes[e], r) /\ created'[e] = created[e]
    BY <1>1, <1>3 DEF IInv, TypeOK
  <2>2. after # NoRow
    BY <1>5, NoRowAssumption
  <2>3. StoryOf(e)'
    BY <1>7, <2>1, <2>2 DEF StoryOf
  <2>4. ASSUME NEW d \in Expense \ {e} PROVE StoryOf(d)'
    <3>1. rows'[d] = rows[d] /\ created'[d] = created[d] /\ changes'[d] = changes[d]
      BY <1>1 DEF IInv, TypeOK
    <3> QED BY <3>1 DEF IInv, Stories, StoryOf
  <2> QED BY <2>3, <2>4 DEF Stories
<1> QED BY <1>9, <1>10, <1>11, <1>12 DEF IInv

LEMMA InitEstablishes ==
    ASSUME Init
    PROVE  IInv
<1>1. TypeOK
    BY BoundsAssumption DEF Init, TypeOK
<1>2. \A t \in Tab : work[t].stage = "idle"
    BY DEF Init, Idle
<1>3. TabsTrue /\ OneWriter
    BY <1>2 DEF TabsTrue, TabTrue, OneWriter, TransactionStages
<1>4. Stories
    BY NoRecords DEF Init, Stories, StoryOf
<1> QED BY <1>1, <1>3, <1>4 DEF IInv

LEMMA NextKeeps ==
    ASSUME IInv, [Next]_vars
    PROVE  IInv'
<1>1. CASE UNCHANGED vars
    BY <1>1 DEF vars, IInv, TypeOK, TabsTrue, TabTrue, OneWriter, Stories, StoryOf
<1>2. ASSUME NEW t \in Tab, Transaction(t) PROVE IInv'
  <2>1. CASE Answer(t) \/ Abort(t)
    BY <2>1, BecomesIdle DEF Answer, Abort
  <2> QED BY <1>2, <2>1, LockKeeps, AppendKeeps, CommitKeeps DEF Transaction
<1> QED BY <1>1, <1>2, CreateKeeps, TickKeeps, UseFormKeeps, CallApiKeeps DEF Next

LEMMA Invariance == Spec => []IInv
BY InitEstablishes, NextKeeps, PTL DEF Spec

\* Every reachable state is well typed.
THEOREM TypeCorrect == Spec => []TypeOK
BY Invariance, PTL DEF IInv

LEMMA StoriesAreTold ==
    ASSUME IInv
    PROVE  ChangesTellTheStory
<1>1. \A e, f, n : ValueAfter(e, f, n) = Says(created[e], changes[e], f, n)
    BY DEF ValueAfter, Says, Mentions
<1>2. \A e, n : ActiveAfter(e, n) = SaysActive(changes[e], n)
    BY DEF ActiveAfter, SaysActive, Moves
<1>3. ASSUME NEW e, NEW n, Fits(created[e], changes[e], n) PROVE RecordFits(e, n)
    BY <1>1, <1>2, <1>3 DEF Fits, RecordFits
<1>4. ASSUME NEW e \in Expense, Exists(e)
      PROVE  Story(created[e], rows[e], changes[e])
    BY <1>4 DEF IInv, Stories, StoryOf, Exists
<1> QED BY <1>1, <1>2, <1>3, <1>4 DEF ChangesTellTheStory, Story

\* However requests overlap and wherever they fail, the change records of an
\* Expense lead from what was confirmed to its row.
THEOREM RecordsTellTheStory == Spec => []ChangesTellTheStory
BY Invariance, StoriesAreTold, PTL

LEMMA StepOverwritesNothing ==
    ASSUME IInv, [Next]_vars, NEW t \in Tab, work[t].stage = "appended", work[t].kind = "form",
           work'[t] = Idle, NEW f \in Field,
           rows'[work[t].expense].values[f] # rows[work[t].expense].values[f]
    PROVE  f \in WithMoney(work[t].touched)
<1> DEFINE w == work[t]
<1>1. w \in InTransaction /\ w # Idle
    BY TabTypes, WorkTypes DEF TransactionStages, Idle
<1>2. UpdateAndCommit(t)
  <2>1. work' # work
    BY <1>1
  <2>2. PICK u \in Tab : UseForm(u) \/ CallApi(u) \/ Transaction(u)
    BY <2>1 DEF Next, vars, Create, Tick
  <2>3. \E new : work' = [work EXCEPT ![u] = new]
    BY <2>2 DEF UseForm, CloseForm, SubmitForm, OpenForm, CallApi, Patch, AskDelete, AskRestore, Ask, Transaction,
                Answer, Lock, AppendRecord, UpdateAndCommit, Abort
  <2>4. u = t
    BY <1>1, <2>3 DEF IInv, TypeOK
  <2>5. rows' # rows
    OBVIOUS
  <2> QED BY <2>2, <2>4, <2>5 DEF UseForm, CloseForm, SubmitForm, OpenForm, CallApi, Patch, AskDelete, AskRestore,
             Ask, Transaction, Answer, Lock, AppendRecord, Abort
<1>3. w.kind \in Kind /\ w.expense \in Expense /\ w.edit \in Part /\ w.before \in Row
    BY <1>1 DEF InTransaction
<1>4. rows[w.expense] = w.before /\ Changeable(w.kind, w.before, w.edit)
      /\ DOMAIN w.edit = WithMoney(w.touched)
    BY DEF IInv, TabsTrue, TabTrue, TransactionStages
<1>5. rows'[w.expense] = NewRow(w.kind, w.before, w.edit)
    BY <1>2, <1>3 DEF UpdateAndCommit, IInv, TypeOK
<1>6. rows'[w.expense].values = Applied(w.before.values, w.edit)
  <2>1. RowOf(w.kind, w.before, w.edit, NewRow(w.kind, w.before, w.edit))
    BY <1>3, <1>4, NewRowTyped
  <2> QED BY <1>5, <2>1 DEF RowOf
<1>7. f \in DOMAIN w.edit
    BY <1>4, <1>6 DEF Applied
<1> QED BY <1>4, <1>7

\* A form changes what its user changed, whatever happened since it was opened.
THEOREM FormsOverwriteNothing == Spec => NoForeignOverwrite
<1>1. ASSUME IInv, [Next]_vars
      PROVE  [\A t \in Tab : work[t].stage = "appended" /\ work[t].kind = "form" /\ work'[t] = Idle =>
                LET e == work[t].expense
                IN  \A f \in Field : rows'[e].values[f] # rows[e].values[f]
                                       => f \in WithMoney(work[t].touched)]_vars
    BY <1>1, StepOverwritesNothing
<1> QED BY <1>1, Invariance, PTL DEF Spec, NoForeignOverwrite

-----------------------------------------------------------------------------
(* The order of the history, and what one page has of it (ExpenseHistory).   *)

Place == Nat \X Nat \X Nat

LEMMA BelowIsAnOrder ==
    ASSUME NEW p \in Place, NEW q \in Place
    PROVE  /\ ~Below(p, p)
           /\ Below(p, q) => ~Below(q, p)
           /\ p[3] # q[3] => Below(p, q) \/ Below(q, p)
           /\ \A r \in Place : Below(p, q) /\ Below(q, r) => Below(p, r)
           /\ \A r \in Place : ~Below(p, q) /\ Below(r, q) => Below(r, p)
<1>1. p[1] \in Nat /\ p[2] \in Nat /\ p[3] \in Nat
    BY DEF Place
<1>2. q[1] \in Nat /\ q[2] \in Nat /\ q[3] \in Nat
    BY DEF Place
<1>3. \A r \in Place : r[1] \in Nat /\ r[2] \in Nat /\ r[3] \in Nat
    BY DEF Place
<1>4. ~Below(p, p) /\ (Below(p, q) => ~Below(q, p)) /\ (p[3] # q[3] => Below(p, q) \/ Below(q, p))
    BY <1>1, <1>2 DEF Below
<1>5. ASSUME NEW r \in Place, Below(p, q), Below(q, r) PROVE Below(p, r)
    BY <1>1, <1>2, <1>3, <1>5 DEF Below
<1>6. ASSUME NEW r \in Place, ~Below(p, q), Below(r, q) PROVE Below(r, p)
    BY <1>1, <1>2, <1>3, <1>6 DEF Below
<1> QED BY <1>4, <1>5, <1>6

LEMMA PositionTyped ==
    ASSUME TypeOK, NEW e \in Expense, Exists(e)
    PROVE  Position(e) \in Place /\ Position(e)[3] = e /\ Position(e) # NoPosition
<1>1. rows[e] \in Row
    BY DEF TypeOK, Exists
<1>2. rows[e].values \in Values /\ rows[e].created_at \in Nat
    BY <1>1, BoundsAssumption DEF Row
<1>3. rows[e].values["transaction_date"] \in Nat
    BY <1>2, DatesAssumption DEF Values, Field
<1>4. e \in Nat
    BY DatesAssumption
<1> QED BY <1>2, <1>3, <1>4 DEF Position, Place, NoPosition

Above(e, S) == {d \in S : Below(Position(e), Position(d))}

\* Whoever is below another has a later place in the order.
LEMMA RankFollowsTheOrder ==
    ASSUME TypeOK, NEW S \in SUBSET Expense, \A e \in S : Exists(e),
           NEW d \in S, NEW e \in S, Below(Position(e), Position(d))
    PROVE  Rank(d, S) \in Nat /\ Rank(e, S) \in Nat /\ Rank(d, S) < Rank(e, S)
<1>1. IsFiniteSet(S)
    BY ExpensesAssumption, FS_Subset
<1>2. IsFiniteSet(Above(d, S)) /\ IsFiniteSet(Above(e, S))
    BY <1>1, FS_Subset DEF Above
<1>3. Above(d, S) \union {d} \subseteq Above(e, S)
    BY PositionTyped, BelowIsAnOrder DEF Above
<1>4. d \notin Above(d, S)
    BY PositionTyped, BelowIsAnOrder DEF Above
<1>5. /\ Cardinality(Above(d, S) \union {d}) = Cardinality(Above(d, S)) + 1
      /\ Cardinality(Above(d, S) \union {d}) =< Cardinality(Above(e, S))
  <2>1. Cardinality(Above(d, S) \union {d}) = Cardinality(Above(d, S)) + 1
    BY <1>2, <1>4, FS_AddElement
  <2>2. Cardinality(Above(d, S) \union {d}) =< Cardinality(Above(e, S))
    BY <1>2, <1>3, FS_Subset
  <2> QED BY <2>1, <2>2
<1>6. Cardinality(Above(d, S)) \in Nat /\ Cardinality(Above(e, S)) \in Nat
    BY <1>2, FS_CardinalityType
<1>7. Rank(d, S) = 1 + Cardinality(Above(d, S)) /\ Rank(e, S) = 1 + Cardinality(Above(e, S))
    BY DEF Rank, Above
<1> QED BY <1>5, <1>6, <1>7

LEMMA RankBounds ==
    ASSUME TypeOK, NEW S \in SUBSET Expense, \A e \in S : Exists(e), NEW e \in S
    PROVE  Rank(e, S) \in 1 .. Cardinality(S)
<1>1. IsFiniteSet(S)
    BY ExpensesAssumption, FS_Subset
<1>2. Above(e, S) \subseteq S \ {e}
    BY PositionTyped, BelowIsAnOrder DEF Above
<1>3. IsFiniteSet(S \ {e}) /\ Cardinality(S \ {e}) = Cardinality(S) - 1
    BY <1>1, FS_RemoveElement
<1>4. IsFiniteSet(Above(e, S)) /\ Cardinality(Above(e, S)) =< Cardinality(S \ {e})
    BY <1>2, <1>3, FS_Subset
<1>5. Cardinality(Above(e, S)) \in Nat /\ Cardinality(S) \in Nat
    BY <1>1, <1>4, FS_CardinalityType
<1>6. Rank(e, S) = 1 + Cardinality(Above(e, S))
    BY DEF Rank, Above
<1> QED BY <1>3, <1>4, <1>5, <1>6

\* Two Expenses have different places, and every place is somebody's.
LEMMA EveryRankIsTaken ==
    ASSUME TypeOK, NEW S \in SUBSET Expense, \A e \in S : Exists(e)
    PROVE  /\ \A d, e \in S : Rank(d, S) = Rank(e, S) => d = e
           /\ \A n \in 1 .. Cardinality(S) : \E e \in S : Rank(e, S) = n
<1> DEFINE N == Cardinality(S)
           f == [e \in S |-> Rank(e, S)]
<1>1. IsFiniteSet(S) /\ N \in Nat
    BY ExpensesAssumption, FS_Subset, FS_CardinalityType
<1>2. \A d, e \in S : Rank(d, S) = Rank(e, S) => d = e
  <2>1. SUFFICES ASSUME NEW d \in S, NEW e \in S, d # e
                 PROVE  Rank(d, S) # Rank(e, S)
    OBVIOUS
  <2>2. Below(Position(d), Position(e)) \/ Below(Position(e), Position(d))
    BY <2>1, PositionTyped, BelowIsAnOrder
  <2> QED BY <2>2, RankFollowsTheOrder
<1>3. IsFiniteSet(1 .. N) /\ Cardinality(1 .. N) = N
    BY <1>1, FS_Interval
<1>4. f \in [S -> 1 .. N]
    BY RankBounds
<1>5. f \in Injection(S, 1 .. N)
    BY <1>2, <1>4 DEF Injection, IsInjective
<1>6. f \in Surjection(S, 1 .. N)
    BY <1>1, <1>3, <1>5, FS_Injection
<1>7. \A n \in 1 .. N : \E e \in S : Rank(e, S) = n
    BY <1>6 DEF Surjection
<1> QED BY <1>2, <1>7

\* A page has the first of what was found, in order; the last page has all of it,
\* and what an earlier one leaves out is below its last Expense.
LEMMA PageHasTheFirst ==
    ASSUME TypeOK, NEW S \in SUBSET Expense, \A e \in S : Exists(e), NEW limit \in Nat \ {0},
           NEW page, page = PageOf(S, limit),
           NEW k, Cardinality(S) > limit => k = limit,
           ~(Cardinality(S) > limit) => k = Cardinality(S)
    PROVE  /\ Cardinality(S) \in Nat /\ k \in Nat /\ page \in [1 .. k -> S]
           /\ \A m, n \in 1 .. k : m < n => Below(Position(page[n]), Position(page[m]))
           /\ Cardinality(S) > limit =>
                  \A e \in S : \/ \E n \in 1 .. k : page[n] = e
                               \/ Below(Position(e), Position(page[limit]))
           /\ ~(Cardinality(S) > limit) => \A e \in S : \E n \in 1 .. k : page[n] = e
<1>1. Cardinality(S) \in Nat
    BY ExpensesAssumption, FS_Subset, FS_CardinalityType
<1>2. k \in Nat /\ k =< Cardinality(S) /\ (Cardinality(S) > limit => k = limit)
      /\ (~(Cardinality(S) > limit) => k = Cardinality(S))
    BY <1>1
<1>3. page = [n \in 1 .. k |-> CHOOSE e \in S : Rank(e, S) = n]
    BY DEF PageOf
<1>4. ASSUME NEW n \in 1 .. k
      PROVE  page[n] \in S /\ Rank(page[n], S) = n
  <2>1. n \in 1 .. Cardinality(S)
    BY <1>1, <1>2
  <2>2. \E e \in S : Rank(e, S) = n
    BY <2>1, EveryRankIsTaken
  <2> QED BY <1>3, <2>2
<1>5. page \in [1 .. k -> S]
    BY <1>3, <1>4
<1>6. ASSUME NEW d \in S, NEW e \in S, Rank(d, S) < Rank(e, S)
      PROVE  Below(Position(e), Position(d))
  <2>1. Rank(d, S) \in Nat /\ Rank(e, S) \in Nat
    BY <1>1, RankBounds
  <2>2. d # e
    BY <1>6, <2>1
  <2>3. Below(Position(d), Position(e)) \/ Below(Position(e), Position(d))
    BY <2>2, PositionTyped, BelowIsAnOrder
  <2>4. CASE Below(Position(d), Position(e))
    <3>1. Rank(e, S) < Rank(d, S)
      BY <2>4, RankFollowsTheOrder
    <3> QED BY <1>6, <2>1, <3>1
  <2> QED BY <2>3, <2>4
<1>7. \A m, n \in 1 .. k : m < n => Below(Position(page[n]), Position(page[m]))
    BY <1>4, <1>6
<1>8. ASSUME NEW e \in S, Rank(e, S) =< k PROVE \E n \in 1 .. k : page[n] = e
  <2>1. Rank(e, S) \in 1 .. k
    BY <1>1, <1>2, <1>8, RankBounds
  <2> QED BY <1>4, <2>1, EveryRankIsTaken
<1>9. ASSUME Cardinality(S) > limit, NEW e \in S, ~(Rank(e, S) =< k)
      PROVE  Below(Position(e), Position(page[limit]))
  <2>1. k = limit /\ limit \in 1 .. k
    BY <1>2, <1>9
  <2>2. Rank(page[limit], S) < Rank(e, S)
    BY <1>1, <1>4, <1>9, <2>1, RankBounds
  <2> QED BY <1>4, <1>6, <2>1, <2>2
<1>10. ASSUME ~(Cardinality(S) > limit), NEW e \in S PROVE Rank(e, S) =< k
    BY <1>1, <1>2, <1>10, RankBounds
<1> QED BY <1>1, <1>2, <1>5, <1>7, <1>8, <1>9, <1>10

-----------------------------------------------------------------------------
(* The walk through the history.                                            *)

WalkShape ==
    /\ walk = [stage |-> walk.stage, filter |-> walk.filter, limit |-> walk.limit,
               after |-> walk.after, shown |-> walk.shown]
    /\ walk.stage \in {"reading", "done"} /\ walk.limit \in Nat \ {0}
    /\ walk.after \in Place \cup {NoPosition} /\ walk.shown \in Seq(Expense)

ShownExist == \A n \in DOMAIN walk.shown : Exists(walk.shown[n])

SteadyIsThere ==
    /\ steady \subseteq placed /\ placed \subseteq Expense
    /\ \A e \in steady : Active(e) /\ Matches(e, walk.filter)

NoneTwice ==
    \A m, n \in DOMAIN walk.shown :
        walk.shown[m] = walk.shown[n] /\ walk.shown[m] \in placed => m = n

\* What was shown and stands where it stood is not met again.
NoneAhead ==
    walk.stage = "reading" =>
        \A n \in DOMAIN walk.shown : walk.shown[n] \in placed =>
            walk.after # NoPosition /\ ~Below(Position(walk.shown[n]), walk.after)

\* What was not written since the start is shown or still to come.
NoneMissed ==
    \A e \in steady : \/ \E n \in DOMAIN walk.shown : walk.shown[n] = e
                      \/ walk.stage = "reading" /\ Past(Position(e), walk.after)

NewestFirst ==
    \A m, n \in DOMAIN walk.shown :
        m < n /\ {walk.shown[m], walk.shown[n]} \subseteq steady
            => Below(Position(walk.shown[n]), Position(walk.shown[m]))

WalkSound ==
    walk = Away \/ ( /\ WalkShape /\ ShownExist /\ SteadyIsThere
                     /\ NoneTwice /\ NoneAhead /\ NoneMissed /\ NewestFirst )

\* An Expense never disappears, and keeps the instant of its creation.
LEMMA RowsAreKept ==
    ASSUME IInv, [Next]_vars, NEW e \in Expense, Exists(e)
    PROVE  Exists(e)' /\ rows'[e].created_at = rows[e].created_at
<1>1. CASE rows' = rows
    BY <1>1 DEF Exists
<1>2. ASSUME NEW d \in Expense, NEW v \in Confirmed, Create(d, v)
      PROVE  Exists(e)' /\ rows'[e].created_at = rows[e].created_at
  <2>1. d # e
    BY <1>2 DEF Create
  <2> QED BY <1>2, <2>1 DEF Create, Exists, IInv, TypeOK
<1>3. ASSUME NEW t \in Tab, UpdateAndCommit(t)
      PROVE  Exists(e)' /\ rows'[e].created_at = rows[e].created_at
  <2> DEFINE w == work[t]
             after == NewRow(w.kind, w.before, w.edit)
  <2>1. w.stage = "appended" /\ rows' = [rows EXCEPT ![w.expense] = after]
    BY <1>3 DEF UpdateAndCommit
  <2>2. w \in InTransaction
    BY <2>1, TabTypes, WorkTypes DEF TransactionStages
  <2>3. w.kind \in Kind /\ w.expense \in Expense /\ w.edit \in Part /\ w.before \in Row
    BY <2>2 DEF InTransaction
  <2>4. rows[w.expense] = w.before /\ Changeable(w.kind, w.before, w.edit)
    BY <2>1 DEF IInv, TabsTrue, TabTrue, TransactionStages
  <2>5. after \in Row /\ after # NoRow
    BY <2>3, <2>4, NewRowTyped, NoRowAssumption
  <2>6. after.created_at = w.before.created_at
    BY <2>3 DEF NewRow, Row, Kind
  <2> HIDE DEF after, w
  <2> QED BY <2>1, <2>3, <2>4, <2>5, <2>6 DEF Exists, IInv, TypeOK
<1>4. \/ rows' = rows
      \/ \E d \in Expense, v \in Confirmed : Create(d, v)
      \/ \E t \in Tab : UpdateAndCommit(t)
    BY DEF Next, vars, Tick, UseForm, CallApi, Transaction, CloseForm, SubmitForm, OpenForm,
           Patch, AskDelete, AskRestore, Ask, Answer, Lock, AppendRecord, Abort
<1> QED BY <1>1, <1>2, <1>3, <1>4

LEMMA MeanwhileKeeps ==
    ASSUME IInv, WalkSound, Meanwhile
    PROVE  WalkSound'
<1>1. walk' = walk /\ steady' = {e \in steady : rows'[e] = rows[e]}
      /\ placed' = {e \in placed : Exists(e) =>
             rows'[e].values["transaction_date"] = rows[e].values["transaction_date"]}
      /\ [Next]_vars
    BY DEF Meanwhile
<1>2. CASE walk = Away
    BY <1>1, <1>2 DEF WalkSound
<1>3. CASE /\ WalkShape /\ ShownExist /\ SteadyIsThere
           /\ NoneTwice /\ NoneAhead /\ NoneMissed /\ NewestFirst
  <2>1. \A n \in DOMAIN walk.shown : walk.shown[n] \in Expense
    BY <1>3 DEF WalkShape
  <2>2. \A e \in Expense : Exists(e) =>
            Exists(e)' /\ rows'[e].created_at = rows[e].created_at
    BY <1>1, RowsAreKept
  <2>3. placed' \subseteq placed /\ steady' \subseteq steady
    BY <1>1
  <2>4. \A e \in Expense : e \in placed' /\ Exists(e) => Position(e)' = Position(e)
    BY <1>1, <2>2 DEF Position
  <2>5. \A e \in steady' : rows'[e] = rows[e] /\ e \in placed' /\ e \in Expense /\ Exists(e)
    BY <1>1, <1>3 DEF SteadyIsThere, Active
  <2>6. WalkShape' /\ ShownExist'
    BY <1>1, <1>3, <2>1, <2>2 DEF WalkShape, ShownExist
  <2>7. SteadyIsThere'
    BY <1>1, <1>3, <2>3, <2>5 DEF SteadyIsThere, Active, Exists, Matches
  <2>8. NoneTwice'
    BY <1>1, <1>3, <2>3 DEF NoneTwice
  <2>9. NoneAhead'
    <3>1. ASSUME walk.stage = "reading", NEW n \in DOMAIN walk.shown, walk.shown[n] \in placed'
          PROVE  walk.after # NoPosition /\ ~Below(Position(walk.shown[n])', walk.after)
      <4>1. Exists(walk.shown[n]) /\ walk.shown[n] \in placed /\ walk.shown[n] \in Expense
        BY <1>3, <2>1, <2>3, <3>1 DEF ShownExist
      <4>2. Position(walk.shown[n])' = Position(walk.shown[n])
        BY <1>1, <2>4, <3>1, <4>1
      <4> QED BY <1>3, <3>1, <4>1, <4>2 DEF NoneAhead
    <3> QED BY <1>1, <3>1 DEF NoneAhead
  <2>10. NoneMissed'
    <3>1. ASSUME NEW e \in steady'
          PROVE  \/ \E n \in DOMAIN walk.shown : walk.shown[n] = e
                 \/ walk.stage = "reading" /\ Past(Position(e)', walk.after)
      <4>1. Position(e)' = Position(e) /\ e \in steady
        BY <2>3, <2>4, <2>5, <3>1
      <4> QED BY <1>3, <4>1 DEF NoneMissed
    <3> QED BY <1>1, <3>1 DEF NoneMissed, Past
  <2>11. NewestFirst'
    <3>1. ASSUME NEW m \in DOMAIN walk.shown, NEW n \in DOMAIN walk.shown, m < n,
                 walk.shown[m] \in steady', walk.shown[n] \in steady'
          PROVE  Below(Position(walk.shown[n]), Position(walk.shown[m]))'
      <4>1. PICK d, e : d = walk.shown[m] /\ e = walk.shown[n]
        OBVIOUS
      <4>2. Position(d)' = Position(d) /\ Position(e)' = Position(e)
        BY <2>4, <2>5, <3>1, <4>1
      <4>3. Below(Position(e), Position(d))
        BY <1>3, <2>3, <3>1, <4>1 DEF NewestFirst
      <4> QED BY <1>1, <4>1, <4>2, <4>3 DEF Below
    <3> QED BY <1>1, <3>1 DEF NewestFirst
  <2> QED BY <2>6, <2>7, <2>8, <2>9, <2>10, <2>11 DEF WalkSound
<1> QED BY <1>2, <1>3 DEF WalkSound

LEMMA StartKeeps ==
    ASSUME IInv, NEW filter \in Filters, NEW limit \in PageSizes, StartWalk(filter, limit)
    PROVE  WalkSound'
<1>1. walk' = [stage |-> "reading", filter |-> filter, limit |-> limit,
               after |-> NoPosition, shown |-> <<>>]
      /\ steady' = Selected(filter, NoPosition) /\ placed' = Expense /\ rows' = rows
    BY DEF StartWalk, vars
<1>2. /\ walk'.stage = "reading" /\ walk'.filter = filter /\ walk'.limit = limit
      /\ walk'.after = NoPosition /\ walk'.shown = <<>> /\ DOMAIN walk'.shown = {}
    BY <1>1
<1>3. WalkShape'
    BY <1>1, <1>2, PageSizesAssumption DEF WalkShape
<1>4. SteadyIsThere'
    BY <1>1, <1>2 DEF SteadyIsThere, Selected, Active, Exists, Matches
<1>5. NoneMissed'
    BY <1>2 DEF NoneMissed, Past
<1>6. ShownExist' /\ NoneTwice' /\ NoneAhead' /\ NewestFirst'
    BY <1>2 DEF ShownExist, NoneTwice, NoneAhead, NewestFirst
<1> QED BY <1>3, <1>4, <1>5, <1>6 DEF WalkSound

LEMMA PageKeeps ==
    ASSUME IInv, WalkSound, NextPage
    PROVE  WalkSound'
<1>1. /\ WalkShape /\ ShownExist /\ SteadyIsThere
      /\ NoneTwice /\ NoneAhead /\ NoneMissed /\ NewestFirst
    BY DEF WalkSound, NextPage, Away
<1>S. PICK S : S = Selected(walk.filter, walk.after)
    OBVIOUS
<1>limit. PICK limit : limit = walk.limit
    OBVIOUS
<1>page. PICK page : page = PageOf(S, limit)
    OBVIOUS
<1>k. PICK k : /\ Cardinality(S) > limit => k = limit
               /\ ~(Cardinality(S) > limit) => k = Cardinality(S)
  <2>1. CASE Cardinality(S) > limit
    BY <2>1
  <2>2. CASE ~(Cardinality(S) > limit)
    BY <2>2
  <2> QED BY <2>1, <2>2
<1>old. PICK old : old = walk.shown
    OBVIOUS
<1>new. PICK new : new = old \o page
    OBVIOUS
<1>L. PICK L : L = Len(old)
    OBVIOUS
<1> DEFINE More == Cardinality(S) > limit
           stage == IF More THEN walk.stage ELSE "done"
           after == IF More THEN Position(page[limit]) ELSE walk.after
<1>2. /\ walk.stage = "reading" /\ limit \in Nat \ {0} /\ old \in Seq(Expense)
      /\ walk.after \in Place \cup {NoPosition}
    BY <1>1, <1>limit, <1>old DEF NextPage, WalkShape
<1>3. S \in SUBSET Expense /\ \A e \in S : /\ Exists(e) /\ Active(e)
                                           /\ Matches(e, walk.filter)
                                           /\ Past(Position(e), walk.after)
    BY <1>S DEF Selected, Active
<1>4. TypeOK
    BY DEF IInv
<1>5. /\ Cardinality(S) \in Nat /\ k \in Nat /\ page \in [1 .. k -> S]
      /\ \A m, n \in 1 .. k : m < n => Below(Position(page[n]), Position(page[m]))
      /\ More => \A e \in S : \/ \E n \in 1 .. k : page[n] = e
                              \/ Below(Position(e), Position(page[limit]))
      /\ ~More => \A e \in S : \E n \in 1 .. k : page[n] = e
  <2>1. \A e \in S : Exists(e)
    BY <1>3
  <2>2. (Cardinality(S) > limit => k = limit) /\ (~(Cardinality(S) > limit) => k = Cardinality(S))
    BY <1>k
  <2>3. S \in SUBSET Expense /\ limit \in Nat \ {0} /\ page = PageOf(S, limit)
    BY <1>2, <1>3, <1>page
  <2> HIDE DEF More
  <2>4. /\ Cardinality(S) \in Nat /\ k \in Nat /\ page \in [1 .. k -> S]
        /\ \A m, n \in 1 .. k : m < n => Below(Position(page[n]), Position(page[m]))
        /\ Cardinality(S) > limit =>
                  \A e \in S : \/ \E n \in 1 .. k : page[n] = e
                               \/ Below(Position(e), Position(page[limit]))
        /\ ~(Cardinality(S) > limit) => \A e \in S : \E n \in 1 .. k : page[n] = e
    BY <1>4, <2>1, <2>2, <2>3, PageHasTheFirst
  <2> QED BY <2>4 DEF More
<1>6. page \in Seq(Expense) /\ Len(page) = k
    BY <1>3, <1>5
<1>7. /\ L \in Nat /\ DOMAIN old = 1 .. L /\ new \in Seq(Expense) /\ DOMAIN new = 1 .. (L + k)
      /\ \A i \in 1 .. L : new[i] = old[i]
      /\ \A i \in 1 .. k : new[L + i] = page[i]
  <2>1. L \in Nat /\ DOMAIN old = 1 .. L /\ Len(old) = L
    BY <1>2, <1>L
  <2>2. /\ old \o page \in Seq(Expense) /\ Len(old \o page) = Len(old) + Len(page)
        /\ \A i \in 1 .. Len(old) + Len(page) :
               (old \o page)[i] = IF i =< Len(old) THEN old[i] ELSE page[i - Len(old)]
    BY <1>2, <1>6, ConcatProperties
  <2>3. /\ new \in Seq(Expense) /\ Len(new) = L + k
        /\ \A i \in 1 .. L + k : i =< L => new[i] = old[i]
        /\ \A i \in 1 .. L + k : ~(i =< L) => new[i] = page[i - L]
    BY <1>6, <1>new, <2>1, <2>2
  <2>4. DOMAIN new = 1 .. L + k
    BY <2>3
  <2>5. ASSUME NEW i \in 1 .. k PROVE new[L + i] = page[i]
    <3>1. L + i \in 1 .. L + k /\ ~(L + i =< L) /\ (L + i) - L = i
      BY <1>5, <2>1
    <3> QED BY <2>3, <3>1
  <2>6. ASSUME NEW i \in 1 .. L PROVE new[i] = old[i]
    <3>1. i \in 1 .. L + k /\ i =< L
      BY <1>5, <2>1
    <3> QED BY <2>3, <3>1
  <2> QED BY <2>1, <2>3, <2>4, <2>5, <2>6
<1>8. /\ \A i \in 1 .. (L + k) : i \notin 1 .. L => \E j \in 1 .. k : i = L + j
      /\ \A i \in 1 .. L : i \in 1 .. (L + k)
      /\ \A i \in 1 .. k : L + i \in 1 .. (L + k)
  <2>1. ASSUME NEW i \in 1 .. (L + k), i \notin 1 .. L PROVE \E j \in 1 .. k : i = L + j
    <3>1. i - L \in 1 .. k /\ i = L + (i - L)
      BY <1>5, <1>7, <2>1
    <3> QED BY <3>1
  <2> QED BY <1>5, <1>7, <2>1
<1>9. /\ walk' = [stage |-> stage, filter |-> walk.filter, limit |-> limit, after |-> after,
                  shown |-> new]
      /\ rows' = rows /\ steady' = steady /\ placed' = placed
  <2>1. PICK filter, before : filter = walk.filter /\ before = walk.after
    OBVIOUS
  <2>2. walk = [stage |-> "reading", filter |-> filter, limit |-> limit, after |-> before,
                shown |-> old]
    BY <1>1, <1>2, <1>limit, <1>old, <2>1 DEF WalkShape
  <2>3. rows' = rows /\ steady' = steady /\ placed' = placed
    BY DEF NextPage, vars
  <2>4. CASE More
    <3>1. stage = "reading" /\ after = Position(page[limit])
      BY <1>2, <2>4
    <3>2. walk' = [walk EXCEPT !.shown = new, !.after = after]
      BY <1>S, <1>limit, <1>page, <1>old, <1>new, <2>4, <3>1 DEF NextPage
    <3> HIDE DEF stage, after, More
    <3>3. walk' = [stage |-> "reading", filter |-> filter, limit |-> limit, after |-> after,
                   shown |-> new]
      BY <2>2, <3>2
    <3> QED BY <2>1, <2>3, <3>1, <3>3
  <2>5. CASE ~More
    <3>1. stage = "done" /\ after = before
      BY <2>1, <2>5
    <3>2. walk' = [walk EXCEPT !.shown = new, !.stage = "done"]
      BY <1>S, <1>limit, <1>page, <1>old, <1>new, <2>5 DEF NextPage
    <3> HIDE DEF stage, after, More
    <3>3. walk' = [stage |-> "done", filter |-> filter, limit |-> limit, after |-> before,
                   shown |-> new]
      BY <2>2, <3>2
    <3> QED BY <2>1, <2>3, <3>1, <3>3
  <2> HIDE DEF stage, after
  <2> QED BY <2>4, <2>5
<1>10. /\ walk'.stage = stage /\ walk'.filter = walk.filter /\ walk'.limit = limit
       /\ walk'.after = after /\ walk'.shown = new
    BY <1>9
<1>11. ASSUME More PROVE k = limit /\ limit \in 1 .. k /\ page[limit] \in S
  <2>1. k = limit
    BY <1>k, <1>11
  <2>2. limit \in 1 .. k
    BY <1>2, <2>1
  <2> QED BY <1>5, <2>1, <2>2
<1>12. \A e \in Expense : Position(e)' = Position(e) /\ (Exists(e)' <=> Exists(e))
    BY <1>9 DEF Position, Exists
\* What was shown before and stands where it stood is not below what is shown now.
<1>13. ASSUME NEW i \in 1 .. L, old[i] \in placed, NEW j \in 1 .. k
       PROVE  /\ old[i] # page[j]
              /\ Below(Position(page[j]), Position(old[i]))
  <2>1. walk.after # NoPosition /\ ~Below(Position(old[i]), walk.after)
    BY <1>1, <1>2, <1>7, <1>13, <1>old DEF NoneAhead
  <2>2. page[j] \in S /\ Below(Position(page[j]), walk.after)
    BY <1>3, <1>5, <2>1 DEF Past
  <2>3. old[i] \in Expense /\ Exists(old[i])
    BY <1>1, <1>2, <1>7, <1>old DEF ShownExist
  <2>4. walk.after \in Place /\ Position(old[i]) \in Place /\ Position(page[j]) \in Place
    BY <1>2, <1>3, <1>4, <2>1, <2>2, <2>3, PositionTyped
  <2> QED BY <2>1, <2>2, <2>4, BelowIsAnOrder
<1>14. WalkShape'
  <2>1. More => Position(page[limit]) \in Place
    BY <1>3, <1>4, <1>11, PositionTyped
  <2>2. after \in Place \cup {NoPosition}
    BY <1>2, <2>1
  <2>3. stage \in {"reading", "done"}
    BY <1>2
  <2> HIDE DEF after, stage
  <2> QED BY <1>2, <1>7, <1>9, <1>10, <2>2, <2>3 DEF WalkShape
<1>15. ShownExist'
  <2>1. ASSUME NEW i \in 1 .. (L + k) PROVE Exists(new[i]) /\ new[i] \in Expense
    <3>1. CASE i \in 1 .. L
      BY <1>1, <1>2, <1>7, <1>old, <3>1 DEF ShownExist
    <3>2. CASE i \notin 1 .. L
      <4>1. PICK j \in 1 .. k : i = L + j
        BY <1>8, <3>2
      <4> QED BY <1>3, <1>5, <1>7, <4>1
    <3> QED BY <3>1, <3>2
  <2> QED BY <1>7, <1>10, <1>12, <2>1 DEF ShownExist
<1>16. SteadyIsThere'
    BY <1>1, <1>9, <1>10 DEF SteadyIsThere, Active, Exists, Matches
<1>17. NoneTwice'
  <2>1. ASSUME NEW i \in 1 .. k, NEW j \in 1 .. k, page[i] = page[j] PROVE i = j
    <3>1. page[i] \in S /\ page[i] \in Expense /\ Exists(page[i])
      BY <1>3, <1>5
    <3>2. ~Below(Position(page[i]), Position(page[i]))
      BY <1>4, <3>1, PositionTyped, BelowIsAnOrder
    <3>3. ~(i < j) /\ ~(j < i)
      BY <1>5, <2>1, <3>2
    <3> QED BY <3>3
  <2>2. ASSUME NEW m \in 1 .. (L + k), NEW n \in 1 .. (L + k), new[m] = new[n], new[m] \in placed
        PROVE  m = n
    <3>1. CASE m \in 1 .. L /\ n \in 1 .. L
      BY <1>1, <1>7, <1>old, <2>2, <3>1 DEF NoneTwice
    <3>2. CASE m \in 1 .. L /\ n \notin 1 .. L
      BY <1>7, <1>8, <1>13, <2>2, <3>2
    <3>3. CASE m \notin 1 .. L /\ n \in 1 .. L
      BY <1>7, <1>8, <1>13, <2>2, <3>3
    <3>4. CASE m \notin 1 .. L /\ n \notin 1 .. L
      <4>1. PICK i \in 1 .. k : m = L + i
        BY <1>8, <3>4
      <4>2. PICK j \in 1 .. k : n = L + j
        BY <1>8, <3>4
      <4>3. page[i] = page[j]
        BY <1>7, <2>2, <4>1, <4>2
      <4> QED BY <2>1, <4>1, <4>2, <4>3
    <3> QED BY <3>1, <3>2, <3>3, <3>4
  <2> QED BY <1>7, <1>9, <1>10, <2>2 DEF NoneTwice
<1>18. NoneAhead'
  <2>1. ASSUME More, NEW i \in 1 .. (L + k), new[i] \in placed
        PROVE  /\ Position(page[limit]) # NoPosition
               /\ ~Below(Position(new[i]), Position(page[limit]))
    <3>1. page[limit] \in S /\ page[limit] \in Expense /\ Exists(page[limit]) /\ limit \in 1 .. k
      BY <1>3, <1>11, <2>1
    <3>2. Position(page[limit]) \in Place /\ Position(page[limit]) # NoPosition
      BY <1>4, <3>1, PositionTyped
    <3>3. CASE i \in 1 .. L
      <4>1. old[i] \in placed /\ old[i] = new[i] /\ old[i] \in Expense /\ Exists(old[i])
        BY <1>1, <1>2, <1>7, <1>old, <2>1, <3>3 DEF ShownExist
      <4>2. Below(Position(page[limit]), Position(old[i]))
        BY <1>13, <3>1, <3>3, <4>1
      <4>3. Position(old[i]) \in Place
        BY <1>4, <4>1, PositionTyped
      <4> QED BY <3>2, <4>1, <4>2, <4>3, BelowIsAnOrder
    <3>4. CASE i \notin 1 .. L
      <4>1. PICK j \in 1 .. k : i = L + j
        BY <1>8, <3>4
      <4>2. new[i] = page[j] /\ page[j] \in S /\ page[j] \in Expense /\ Exists(page[j])
        BY <1>3, <1>5, <1>7, <4>1
      <4>3. Position(page[j]) \in Place
        BY <1>4, <4>2, PositionTyped
      <4>4. CASE j = limit
        BY <3>2, <4>2, <4>4, BelowIsAnOrder
      <4>5. CASE j # limit
        <5>1. j < limit
          BY <1>2, <1>11, <2>1, <4>5
        <5>2. Below(Position(page[limit]), Position(page[j]))
          BY <1>5, <3>1, <5>1
        <5> QED BY <3>2, <4>2, <4>3, <5>2, BelowIsAnOrder
      <4> QED BY <4>4, <4>5
    <3> QED BY <3>2, <3>3, <3>4
  <2>2. CASE More
    <3>1. \A i \in 1 .. (L + k) : Position(new[i])' = Position(new[i])
      BY <1>9 DEF Position
    <3>2. walk'.after = Position(page[limit])
      BY <1>10, <2>2
    <3> QED BY <1>7, <1>9, <1>10, <2>1, <2>2, <3>1, <3>2 DEF NoneAhead
  <2>3. CASE ~More
    BY <1>10, <2>3 DEF NoneAhead
  <2> QED BY <2>2, <2>3
<1>19. NoneMissed'
  <2>1. ASSUME NEW e \in steady
        PROVE  \/ \E n \in 1 .. (L + k) : new[n] = e
               \/ More /\ Below(Position(e), Position(page[limit]))
    <3>1. CASE \E n \in 1 .. L : old[n] = e
      BY <1>7, <1>8, <3>1
    <3>2. CASE ~\E n \in 1 .. L : old[n] = e
      <4>1. Past(Position(e), walk.after) /\ Active(e) /\ Matches(e, walk.filter) /\ e \in Expense
        BY <1>1, <1>7, <1>old, <3>2 DEF NoneMissed, SteadyIsThere
      <4>2. e \in S
        BY <1>S, <4>1 DEF Selected
      <4>3. CASE \E n \in 1 .. k : page[n] = e
        BY <1>7, <1>8, <4>3
      <4>4. CASE ~\E n \in 1 .. k : page[n] = e
        BY <1>5, <4>2, <4>4
      <4> QED BY <4>3, <4>4
    <3> QED BY <3>1, <3>2
  <2>2. \A e \in steady : Position(e)' = Position(e)
    BY <1>1, <1>12 DEF SteadyIsThere
  <2>3. More => walk'.stage = "reading" /\ walk'.after = Position(page[limit])
    BY <1>2, <1>10
  <2> QED BY <1>7, <1>9, <1>10, <2>1, <2>2, <2>3 DEF NoneMissed, Past
<1>20. NewestFirst'
  <2>1. ASSUME NEW m \in 1 .. (L + k), NEW n \in 1 .. (L + k), m < n,
               new[m] \in steady, new[n] \in steady
        PROVE  Below(Position(new[n]), Position(new[m]))
    <3>1. CASE n \in 1 .. L
      <4>1. m \in 1 .. L
        BY <1>7, <2>1, <3>1
      <4> QED BY <1>1, <1>7, <1>old, <2>1, <3>1, <4>1 DEF NewestFirst
    <3>2. CASE n \notin 1 .. L /\ m \in 1 .. L
      <4>1. new[m] \in placed
        BY <1>1, <2>1 DEF SteadyIsThere
      <4> QED BY <1>7, <1>8, <1>13, <3>2, <4>1
    <3>3. CASE n \notin 1 .. L /\ m \notin 1 .. L
      <4>1. PICK i \in 1 .. k : m = L + i
        BY <1>8, <3>3
      <4>2. PICK j \in 1 .. k : n = L + j
        BY <1>8, <3>3
      <4>3. i < j
        BY <1>7, <2>1, <4>1, <4>2
      <4> QED BY <1>5, <1>7, <4>1, <4>2, <4>3
    <3> QED BY <3>1, <3>2, <3>3
  <2>2. \A i \in 1 .. (L + k) : Position(new[i])' = Position(new[i])
    BY <1>9 DEF Position
  <2> QED BY <1>7, <1>9, <1>10, <2>1, <2>2 DEF NewestFirst
<1> QED BY <1>14, <1>15, <1>16, <1>17, <1>18, <1>19, <1>20 DEF WalkSound

LEMMA HistoryInvariance == HistorySpec => [](IInv /\ WalkSound)
<1>1. HistoryInit => IInv /\ WalkSound
    BY InitEstablishes DEF HistoryInit, WalkSound
<1>2. ASSUME IInv, WalkSound, [HistoryNext]_historyVars PROVE IInv' /\ WalkSound'
  <2>1. [Next]_vars
    BY <1>2 DEF HistoryNext, historyVars, Meanwhile, StartWalk, NextPage
  <2>2. IInv'
    BY <1>2, <2>1, NextKeeps
  <2>3. CASE Meanwhile
    BY <1>2, <2>2, <2>3, MeanwhileKeeps
  <2>4. CASE \E f \in Filters, n \in PageSizes : StartWalk(f, n)
    BY <1>2, <2>2, <2>4, StartKeeps
  <2>5. CASE NextPage
    BY <1>2, <2>2, <2>5, PageKeeps
  <2>6. CASE UNCHANGED historyVars
    <3>1. rows' = rows /\ walk' = walk /\ steady' = steady /\ placed' = placed
      BY <2>6 DEF historyVars, vars
    <3>2. /\ WalkShape => WalkShape'
          /\ ShownExist => ShownExist'
          /\ SteadyIsThere => SteadyIsThere'
          /\ NoneTwice => NoneTwice'
      BY <3>1 DEF WalkShape, ShownExist, SteadyIsThere, NoneTwice, Exists, Active, Matches
    <3>3. /\ NoneAhead => NoneAhead'
          /\ NoneMissed => NoneMissed'
          /\ NewestFirst => NewestFirst'
      BY <3>1 DEF NoneAhead, NoneMissed, NewestFirst, Position, Past
    <3> QED BY <1>2, <2>2, <3>1, <3>2, <3>3 DEF WalkSound
  <2> QED BY <1>2, <2>2, <2>3, <2>4, <2>5, <2>6 DEF HistoryNext
<1> QED BY <1>1, <1>2, PTL DEF HistorySpec

\* However the pages of a history and the writes of others fall: what was there from
\* the start and was not written is shown once, the newest first, and nothing that
\* keeps its date is shown twice.
THEOREM HistoryShowsOnce == HistorySpec => []ShownOnce
<1>1. ASSUME WalkSound, walk.stage = "done" PROVE ShownOnce
  <2>1. WalkShape /\ NoneTwice /\ NoneMissed /\ NewestFirst /\ SteadyIsThere
    BY <1>1 DEF WalkSound, Away
  <2> DEFINE Where(e) == {n \in DOMAIN walk.shown : walk.shown[n] = e}
  <2>2. ASSUME NEW e \in placed, Where(e) # {} PROVE Cardinality(Where(e)) = 1
    <3>1. PICK n : n \in Where(e)
      BY <2>2
    <3>2. Where(e) = {n}
      BY <2>1, <2>2, <3>1 DEF NoneTwice
    <3> QED BY <3>2, FS_Singleton
  <2>3. \A e \in placed : Where(e) = {} => Cardinality(Where(e)) = 0
    BY FS_EmptySet
  <2>4. \A e \in steady : e \in placed /\ Where(e) # {}
    BY <1>1, <2>1 DEF NoneMissed, SteadyIsThere
  <2>5. \A e : Times(e) = Cardinality(Where(e))
    BY DEF Times
  <2> HIDE DEF Where
  <2>6. \A e \in steady : Times(e) = 1
    BY <2>2, <2>4, <2>5
  <2>7. \A e \in placed : Times(e) =< 1
    BY <2>2, <2>3, <2>5
  <2> QED BY <2>1, <2>6, <2>7 DEF ShownOnce, NewestFirst
<1>2. WalkSound => ShownOnce
    BY <1>1 DEF ShownOnce
<1> QED BY <1>2, HistoryInvariance, PTL
=============================================================================
