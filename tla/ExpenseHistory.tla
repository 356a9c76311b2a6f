--------------------------- MODULE ExpenseHistory ---------------------------
(***************************************************************************)
(* Reading the history page by page while Expenses are confirmed, edited,  *)
(* deleted and restored: list_history of                                   *)
(* infrastructure/persistence/expenses.py, as GET /capture/expenses and    *)
(* the "Load more" link of the history page use it.  Each page is one      *)
(* statement; nothing is held between two of them but the cursor, which is *)
(* the sort key of the last Expense shown, and the filter.                 *)
(***************************************************************************)
EXTENDS ExpenseRecords, FiniteSets

CONSTANTS Filters,    \* filters the user chooses
          PageSizes   \* limits the clients ask for

\* Date bounds are inclusive, an empty set of currencies means any.  Categories
\* filter like currencies.
Filter == [date_from : Nat, date_to : Nat, currencies : SUBSET Value["currency"]]

ASSUME FiltersAssumption == Filters \subseteq Filter
ASSUME DatesAssumption == Value["transaction_date"] \subseteq Nat /\ Expense \subseteq Nat
ASSUME PageSizesAssumption == PageSizes \subseteq Nat \ {0}
ASSUME ExpensesAssumption == IsFiniteSet(Expense)

VARIABLES
    walk,   \* the client reading the history
    steady, \* history: shown to be there from the first page on, and not written since
    placed  \* history: Expenses whose transaction date has not changed since then

historyVars == <<vars, walk, steady, placed>>

Away == [stage |-> "away"]
NoPosition == <<>>

\* ExpenseHistoryPosition: the sort key.
Position(e) == <<rows[e].values["transaction_date"], rows[e].created_at, e>>

\* The comparison of tuples in SQL.
Below(p, q) ==
    \/ p[1] < q[1]
    \/ p[1] = q[1] /\ p[2] < q[2]
    \/ p[1] = q[1] /\ p[2] = q[2] /\ p[3] < q[3]

\* Mutant of Past: the page starts at the position, not after it.
NotBefore(p, after) == after = NoPosition \/ p = after \/ Below(p, after)

Past(p, after) == after = NoPosition \/ Below(p, after)

Matches(e, filter) ==
    LET v == rows[e].values
    IN  /\ v["transaction_date"] \in filter.date_from..filter.date_to
        /\ filter.currencies # {} => v["currency"] \in filter.currencies

\* select_active_expenses with the filters and the position.
Selected(filter, after) ==
    {e \in Expense : Active(e) /\ Matches(e, filter)
                     /\ Past(Position(e), after)}

\* ORDER BY ... DESC: e comes n-th when n - 1 of the selected are above it.
Rank(e, S) == 1 + Cardinality({d \in S : Below(Position(e), Position(d))})

\* The first `limit' of them, and whether the limit + 1 asked for came back.
PageOf(S, limit) ==
    [n \in 1..(IF Cardinality(S) > limit THEN limit ELSE Cardinality(S)) |->
        CHOOSE e \in S : Rank(e, S) = n]

HistoryInit ==
    /\ Init
    /\ walk = Away
    /\ steady = {}
    /\ placed = {}

\* The user opens the history, or applies a filter.
StartWalk(filter, limit) ==
    /\ walk.stage # "reading"
    /\ walk' = [stage |-> "reading", filter |-> filter, limit |-> limit,
                after |-> NoPosition, shown |-> <<>>]
    /\ steady' = Selected(filter, NoPosition)
    /\ placed' = Expense
    /\ UNCHANGED vars

\* list_history: the next position is the last item's, when there is more.
NextPage ==
    LET found == Selected(walk.filter, walk.after)
        page  == PageOf(found, walk.limit)
        shown == walk.shown \o page
    IN  /\ walk.stage = "reading"
        /\ walk' = IF Cardinality(found) > walk.limit
                   THEN [walk EXCEPT !.shown = shown, !.after = Position(page[walk.limit])]
                   ELSE [walk EXCEPT !.shown = shown, !.stage = "done"]
        /\ UNCHANGED <<vars, steady, placed>>

\* Anything that happens to the Expenses meanwhile.
Meanwhile ==
    /\ Next
    /\ steady' = {e \in steady : rows'[e] = rows[e]}
    /\ placed' = {e \in placed : Exists(e) =>
                     rows'[e].values["transaction_date"] = rows[e].values["transaction_date"]}
    /\ UNCHANGED walk

HistoryNext ==
    \/ Meanwhile
    \/ \E f \in Filters, n \in PageSizes : StartWalk(f, n)
    \/ NextPage

HistorySpec == HistoryInit /\ [][HistoryNext]_historyVars

-----------------------------------------------------------------------------

Times(e) == Cardinality({n \in DOMAIN walk.shown : walk.shown[n] = e})

\* When the last page has been read, every Expense that matched the filter at
\* the start and was not written since has been shown exactly once, such
\* Expenses newest first, and none was shown twice unless its transaction
\* date was edited between the pages; whatever was confirmed, deleted,
\* restored or edited meanwhile.
ShownOnce ==
    walk.stage = "done" =>
        /\ \A e \in steady : Times(e) = 1
        /\ \A e \in placed : Times(e) <= 1
        /\ \A m, n \in DOMAIN walk.shown :
              m < n /\ {walk.shown[m], walk.shown[n]} \subseteq steady
                => Below(Position(walk.shown[n]), Position(walk.shown[m]))
=============================================================================
