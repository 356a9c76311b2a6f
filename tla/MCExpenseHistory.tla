-------------------------- MODULE MCExpenseHistory --------------------------
(* Instances of ExpenseHistory for TLC.                                      *)
EXTENDS ExpenseHistory, TLC

eur == 1
usd == 2
tooFar == 3    \* a date too far ahead

SomeValues == [f \in Field |->
    CASE f = "amount" -> {1, 2}
      [] f = "currency" -> {eur, usd}
      [] f = "transaction_date" -> {1, 2, tooFar}
      [] f = "category_key" -> {0}
      [] f = "note" -> {0}]

SomeAccepted == [SomeValues EXCEPT !["transaction_date"] = @ \ {tooFar}]

Draft(date) == [f \in Field |-> CASE f = "amount" -> 1 [] f = "currency" -> eur
                    [] f = "transaction_date" -> date [] f = "category_key" -> 0
                    [] f = "note" -> 0]
SomeConfirmed == {Draft(2)}

SomePatches == {[f \in {"transaction_date"} |-> d] : d \in {1, 2, tooFar}}

AllAndSome == {[date_from |-> 0, date_to |-> 9, currencies |-> {}],
               [date_from |-> 0, date_to |-> 1, currencies |-> {eur}]}

Existing == {e \in Expense : Exists(e)}
Busy == {t \in Tab : work[t] # Idle}
Editing == {t \in Busy : work[t].stage = "form" \/ work[t].kind = "form"}
Written == UNION {{<<e, n>> : n \in DOMAIN changes[e]} : e \in Expense}

\* Bound: two requests overlap, and forms are used, on one Expense that nobody
\* lists; between the first and the last page of a history two requests, one
\* after the other, change some of its Expenses.
Apart ==
    \/ clock = 1 /\ Existing \subseteq {1} /\ walk = Away
    \/ /\ Editing = {}
       /\ Cardinality(Busy) <= 1
       /\ Cardinality(Busy) + Cardinality(Written) <= 2
       /\ walk.stage # "reading" => Busy = {}
       /\ walk.stage = "away" => Written = {}

Symmetry == Permutations(Tab)
=============================================================================
