--------------------------- MODULE ExpenseRecords ---------------------------
(***************************************************************************)
(* The Expenses of one user after they were confirmed: the forms open in   *)
(* the user's tabs, the edits, deletions and restorations they and the     *)
(* JSON API ask for, and the change records that are appended in the same  *)
(* transaction.                                                            *)
(*                                                                         *)
(* A form carries the values it was rendered with; what it sends is        *)
(* computed from the difference.  The use cases lock the row, compute the  *)
(* new Expense from what they read under the lock, append the record,      *)
(* write the row and commit once.  A transaction that fails, or whose      *)
(* process dies, leaves neither.  Several server processes are allowed, so *)
(* the steps of two requests interleave wherever the row lock lets them.   *)
(*                                                                         *)
(* `note' stands for the two optional texts, note and merchant.  Which      *)
(* dates are acceptable and which categories are active is fixed.  A form  *)
(* that is refused changes nothing, so it is no step.                      *)
(***************************************************************************)
EXTENDS Naturals, Sequences

CONSTANTS
    Expense,     \* ids of Expenses, ordered like the UUIDs the history sorts by
    Tab,         \* requests and open forms a user may have at a time
    Value,       \* Value[f]: what the field f can be set to
    Acceptable,  \* Acceptable[f]: the values an edit may set it to
    Confirmed,   \* values of the drafts the user confirms
    Patches,     \* PATCH bodies clients send
    NoRow,
    MaxClock,    \* bound on the instants at which Expenses are created
    MaxChanges   \* bound on the change records of one Expense

Field == {"amount", "currency", "transaction_date", "category_key", "note"}
Money == {"amount", "currency"}

ASSUME BoundsAssumption == MaxClock \in Nat \ {0} /\ MaxChanges \in Nat
ASSUME AcceptableAssumption ==
    \A f \in Field : Acceptable[f] \subseteq Value[f]

AnyValue == UNION {Value[f] : f \in Field}

\* expense_field_values: every editable field.
Values == {v \in [Field -> AnyValue] : \A f \in Field : v[f] \in Value[f]}

\* Values for some of the fields: what an ExpenseEdit sets, the others being
\* UNCHANGED; and the old or the new side of a change record.
Part == UNION {[F -> AnyValue] : F \in SUBSET Field}

ASSUME InputsAssumption == Confirmed \subseteq Values /\ Patches \subseteq Part

Row == [values : Values, active : BOOLEAN, created_at : 1..MaxClock]

ASSUME NoRowAssumption == NoRow \notin Row

\* A deleted or restored record carries no changes.
ChangeRecord == [type : {"edited", "deleted", "restored"}, old : Part, new : Part]

VARIABLES
    rows,     \* expenses
    changes,  \* expense_change_records, in the order they were committed
    work,     \* per tab: an open form, or a request and its transaction
    clock,
    created   \* history: the values an Expense was confirmed with

vars == <<rows, changes, work, clock, created>>

Idle == [stage |-> "idle"]
Form == [stage : {"form"}, expense : Expense, values : Values]
Kind == {"form", "patch", "delete", "restore"}
Asked == [stage : {"asked"}, kind : Kind, expense : Expense, edit : Part, touched : SUBSET Field]
InTransaction == [stage : {"locked", "appended"}, kind : Kind, expense : Expense,
                  edit : Part, touched : SUBSET Field, before : Row]

TypeOK ==
    /\ rows \in [Expense -> Row \cup {NoRow}]
    /\ changes \in [Expense -> Seq(ChangeRecord)]
    /\ work \in [Tab -> {Idle} \cup Form \cup Asked \cup InTransaction]
    /\ clock \in 1..MaxClock
    /\ created \in [Expense -> Values \cup {NoRow}]

Exists(e) == rows[e] # NoRow
Active(e) == Exists(e) /\ rows[e].active

\* Mutant of RowLocked: the row is read without FOR UPDATE.
NeverLocked(e) == FALSE

RowLocked(e) == \E t \in Tab : work[t].stage \in {"locked", "appended"} /\ work[t].expense = e

Init ==
    /\ rows = [e \in Expense |-> NoRow]
    /\ changes = [e \in Expense |-> <<>>]
    /\ work = [t \in Tab |-> Idle]
    /\ clock = 1
    /\ created = [e \in Expense |-> NoRow]

-----------------------------------------------------------------------------
(* Computing an edit *)

\* An amount and its currency are one Money and are set together.
WithMoney(F) == IF F \cap Money = {} THEN F ELSE F \cup Money

Touched(submitted, original) == {f \in Field : submitted[f] # original[f]}

\* Mutant of FormEdit: the form sends every field it shows.
WholeForm(submitted, original) == submitted

\* validate_edit: only what the user changed becomes part of the edit.
FormEdit(submitted, original) ==
    [f \in WithMoney(Touched(submitted, original)) |-> submitted[f]]

\* EditExpense._apply
Applied(values, edit) == [f \in Field |-> IF f \in DOMAIN edit THEN edit[f] ELSE values[f]]

\* Zero is no amount of an Expense; a date or a category is only checked when
\* it changes.
Refused(values, edit) ==
    \E f \in DOMAIN edit : edit[f] # values[f] /\ edit[f] \notin Acceptable[f]

NewRow(kind, before, edit) ==
    CASE kind \in {"form", "patch"} -> [before EXCEPT !.values = Applied(@, edit)]
      [] kind = "delete"  -> [before EXCEPT !.active = FALSE]
      [] kind = "restore" -> [before EXCEPT !.active = TRUE]

Restricted(values, F) == [f \in F |-> values[f]]

RecordOf(kind, before, after) ==
    LET F == Touched(after.values, before.values)
    IN  [type |-> CASE kind = "delete" -> "deleted"
                    [] kind = "restore" -> "restored"
                    [] OTHER -> "edited",
         old  |-> Restricted(before.values, F),
         new  |-> Restricted(after.values, F)]

-----------------------------------------------------------------------------
(* Confirmed Expenses and open forms *)

\* The confirmation's insert.  Clocks do not go back, but instants repeat.
Create(e, values) ==
    /\ ~Exists(e)
    /\ rows' = [rows EXCEPT ![e] = [values |-> values, active |-> TRUE, created_at |-> clock]]
    /\ created' = [created EXCEPT ![e] = values]
    /\ UNCHANGED <<changes, work, clock>>

Tick == clock < MaxClock /\ clock' = clock + 1 /\ UNCHANGED <<rows, changes, work, created>>

OpenForm(t, e) ==
    /\ work[t] = Idle
    /\ Active(e)
    /\ work' = [work EXCEPT ![t] = [stage |-> "form", expense |-> e, values |-> rows[e].values]]
    /\ UNCHANGED <<rows, changes, clock, created>>

CloseForm(t) ==
    /\ work[t].stage = "form"
    /\ work' = [work EXCEPT ![t] = Idle]
    /\ UNCHANGED <<rows, changes, clock, created>>

Ask(t, kind, e, edit, touched) ==
    /\ work' = [work EXCEPT ![t] = [stage |-> "asked", kind |-> kind, expense |-> e,
                                    edit |-> edit, touched |-> touched]]
    /\ UNCHANGED <<rows, changes, clock, created>>

\* POST .../edit, up to the use case: the Expense is still active, and the
\* user changed something and only to values the form accepts.
SubmitForm(t, submitted) ==
    /\ work[t].stage = "form"
    /\ Active(work[t].expense)
    /\ LET touched == Touched(submitted, work[t].values)
           edit    == FormEdit(submitted, work[t].values)
       IN  /\ touched # {}
           /\ \A f \in touched : submitted[f] \in Acceptable[f]
           /\ Ask(t, "form", work[t].expense, edit, touched)

\* PATCH: amount and currency come together or not at all.
Patch(t, e, edit) ==
    /\ work[t] = Idle
    /\ WithMoney(DOMAIN edit) = DOMAIN edit
    /\ Ask(t, "patch", e, edit, DOMAIN edit)

AskDelete(t, e) == work[t] = Idle /\ Ask(t, "delete", e, <<>>, {})

AskRestore(t, e) == work[t] = Idle /\ Ask(t, "restore", e, <<>>, {})

-----------------------------------------------------------------------------
(* The transaction of a use case *)

\* Not found, refused, or nothing to change: nothing is written.
NothingToDo(kind, e, edit) ==
    CASE kind \in {"form", "patch"} ->
            Active(e) => \/ Refused(rows[e].values, edit)
                         \/ Applied(rows[e].values, edit) = rows[e].values
      [] kind = "delete"  -> ~Active(e)
      [] kind = "restore" -> Exists(e) => rows[e].active

Answer(t) ==
    /\ work[t].stage = "asked"
    /\ ~RowLocked(work[t].expense)
    /\ NothingToDo(work[t].kind, work[t].expense, work[t].edit)
    /\ work' = [work EXCEPT ![t] = Idle]
    /\ UNCHANGED <<rows, changes, clock, created>>

\* get_active_for_update or get_owned_for_update.
Lock(t) ==
    LET w == work[t]
    IN  /\ w.stage = "asked"
        /\ ~RowLocked(w.expense)
        /\ ~NothingToDo(w.kind, w.expense, w.edit)
        /\ work' = [work EXCEPT ![t] =
                       [stage |-> "locked", kind |-> w.kind, expense |-> w.expense,
                        edit |-> w.edit, touched |-> w.touched, before |-> rows[w.expense]]]
        /\ UNCHANGED <<rows, changes, clock, created>>

Record(w) == RecordOf(w.kind, w.before, NewRow(w.kind, w.before, w.edit))

\* The record is flushed in the transaction; nobody else sees it yet.
AppendRecord(t) ==
    /\ work[t].stage = "locked"
    /\ Len(changes[work[t].expense]) < MaxChanges
    /\ work' = [work EXCEPT ![t].stage = "appended"]
    /\ UNCHANGED <<rows, changes, clock, created>>

\* update(..., commit=True): row and record appear together.
UpdateAndCommit(t) ==
    LET w == work[t]
    IN  /\ w.stage = "appended"
        /\ rows' = [rows EXCEPT ![w.expense] = NewRow(w.kind, w.before, w.edit)]
        /\ changes' = [changes EXCEPT ![w.expense] = Append(@, Record(w))]
        /\ work' = [work EXCEPT ![t] = Idle]
        /\ UNCHANGED <<clock, created>>

\* The statement fails, the connection is lost or the process dies.
Abort(t) ==
    /\ work[t].stage \in {"asked", "locked", "appended"}
    /\ work' = [work EXCEPT ![t] = Idle]
    /\ UNCHANGED <<rows, changes, clock, created>>

-----------------------------------------------------------------------------

UseForm(t) ==
    \/ CloseForm(t)
    \/ \E v \in Values : SubmitForm(t, v)
    \/ \E e \in Expense : OpenForm(t, e)

\* An id that no Expense of the user has is answered 404.
CallApi(t) ==
    \E e \in {d \in Expense : Exists(d)} :
        \/ \E edit \in Patches : Patch(t, e, edit)
        \/ AskDelete(t, e)
        \/ AskRestore(t, e)

Transaction(t) == Answer(t) \/ Lock(t) \/ AppendRecord(t) \/ UpdateAndCommit(t) \/ Abort(t)

Next ==
    \/ \E e \in Expense, v \in Confirmed : Create(e, v)
    \/ Tick
    \/ \E t \in Tab : UseForm(t) \/ CallApi(t) \/ Transaction(t)

Spec == Init /\ [][Next]_vars

-----------------------------------------------------------------------------
(* Properties *)

MaxOf(S) == CHOOSE m \in S : \A n \in S : n <= m

\* What the creation and the first n records of e say of the field f, and of
\* whether e is active.
ValueAfter(e, f, n) ==
    LET mentions == {i \in 1..n : f \in DOMAIN changes[e][i].new}
    IN  IF mentions = {} THEN created[e][f] ELSE changes[e][MaxOf(mentions)].new[f]

ActiveAfter(e, n) ==
    LET moves == {i \in 1..n : changes[e][i].type # "edited"}
    IN  moves = {} \/ changes[e][MaxOf(moves)].type = "restored"

\* The record after the first n fits what they say.
RecordFits(e, n) ==
    LET r == changes[e][n + 1]
    IN  /\ \A f \in DOMAIN r.new : r.old[f] = ValueAfter(e, f, n) /\ r.new[f] # r.old[f]
        /\ r.type = "edited" => DOMAIN r.new # {}
        /\ ActiveAfter(e, n) <=> r.type \in {"edited", "deleted"}

\* The change records of an Expense lead from what was confirmed to its row:
\* each old value is the one that was replaced, no record is empty or
\* restates a value, and deletions and restorations alternate, whichever
\* requests overlapped and whichever of them failed half way.
ChangesTellTheStory ==
    \A e \in Expense : Exists(e) =>
        /\ \A f \in Field : rows[e].values[f] = ValueAfter(e, f, Len(changes[e]))
        /\ rows[e].active = ActiveAfter(e, Len(changes[e]))
        /\ \A n \in 0..(Len(changes[e]) - 1) : RecordFits(e, n)

\* Saving a form changes nothing but what its user changed in it (an amount
\* and its currency together), however long it was open and whatever other
\* forms and clients saved meanwhile.
NoForeignOverwrite ==
    [][\A t \in Tab : work[t].stage = "appended" /\ work[t].kind = "form" /\ work'[t] = Idle =>
          LET e == work[t].expense
          IN  \A f \in Field : rows'[e].values[f] # rows[e].values[f]
                                 => f \in WithMoney(work[t].touched)]_vars
=============================================================================
