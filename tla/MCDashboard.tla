---------------------------- MODULE MCDashboard ----------------------------
(* Instances of Dashboard for TLC: a calendar of months of three, four and   *)
(* five days, one euro to four hryvnias or two dollars, and no rate for the  *)
(* dinar.                                                                    *)
EXTENDS Dashboard, TLC

MonthStarts == {-6, -3, 1, 4, 9, 12, 15}
SomeDays == -6 .. 18
FirstDays == [d \in SomeDays |-> CHOOSE s \in MonthStarts :
             s =< d /\ \A r \in MonthStarts : r =< d => r =< s]
LastDays == [d \in SomeDays |-> CHOOSE e \in SomeDays :
                /\ FirstDays[e] = FirstDays[d]
                /\ \A f \in SomeDays : FirstDays[f] = FirstDays[d] => f =< e]

Names == {"EUR", "UAH", "USD", "BHD"}
Codes == Names \union {"XAU"}
Scales == ("EUR" :> 10) @@ ("UAH" :> 10) @@ ("USD" :> 10) @@ ("BHD" :> 100)

SomeBodies ==
    [source \in {ECB, NBU} |->
        IF source = ECB THEN {NoBody, "USD" :> 4, "USD" :> 0}
        ELSE {NoBody, ("EUR" :> 4) @@ ("USD" :> 2) @@ ("XAU" :> 1),
              ("EUR" :> 4) @@ ("XAU" :> 0)}]

Row(amount, currency, date, category, merchant) ==
    [amount |-> amount, currency |-> currency, date |-> date,
     category |-> category, merchant |-> merchant]

Rows == <<{Row(2, "EUR", 9, 1, 1), Row(2, "EUR", 5, 1, 1)},
          {Row(5, "UAH", 10, 0, 2), Row(1, "UAH", 10, 0, 2)},
          {Row(6, "UAH", 9, 1, 0), Row(3, "BHD", 4, 2, 3)}>>

SomeTables == {t \in [Expense -> UNION {Rows[e] \union {NoRow} : e \in Expense}] :
                  \A e \in Expense : t[e] \in Rows[e] \union {NoRow}}

Nothing == [e \in Expense |-> NoRow]
AllRates == Cardinality(DOMAIN Latest) = 2

\* Bound: one commit while a page is built, when every rate is known.  A refresh
\* runs before there are Expenses, or while this month's page in the default
\* currency is built and nothing else changes.  A page is built with one rate
\* missing only for the default period.
Apart ==
    /\ Cardinality(seen) =< 2
    /\ refresh # Resting =>
           \/ page = NoPage /\ expenses = Nothing
           \/ /\ page.stage = "reading" /\ Cardinality(seen) = 1 /\ expenses[1] # NoRow
              /\ page.period = DefaultPeriod(page.today) /\ Converted(page)
    /\ Cardinality(seen) = 2 => AllRates
    /\ page.stage = "reading" => AllRates \/ DOMAIN Latest = {}
                                    \/ page.period = DefaultPeriod(page.today)

\* Bound: nothing is committed while a page is built.
Undisturbed == Cardinality(seen) = 1 /\ (refresh # Resting => page = NoPage)
=============================================================================
