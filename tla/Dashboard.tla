----------------------------- MODULE Dashboard -----------------------------
(***************************************************************************)
(* The dashboard of one user (application/analytics/dashboard.py), as the  *)
(* page (web/dashboard.py) and the JSON API (http/analytics.py) build it:  *)
(* several statements under READ COMMITTED, each of which sees the         *)
(* Expenses committed so far, while Expenses are confirmed, edited and     *)
(* deleted and the rates are refreshed; then the parts are put together.   *)
(***************************************************************************)
EXTENDS Periods, Rates, FiniteSets, FiniteSetsExt, SequencesExt

CONSTANTS Expense,       \* in the order of their creation
          Tables,        \* what the user's active Expenses may be
          NoRow,         \* not confirmed yet, or deleted
          Asked,         \* date ranges the user asks for besides the presets
          Chosen,        \* currencies the user asks for, or has as the default
          Todays,        \* local dates of the user
          NoPeriod, NoCurrency, NoConversion,
          UNCATEGORIZED_KEY, NoMerchant,
          TOP_MERCHANT_COUNT, BASIS_POINTS

ASSUME DashboardAssumption ==
    /\ Expense \subseteq Nat /\ TOP_MERCHANT_COUNT \in Nat \ {0}
    /\ Asked \subseteq DashboardPeriod /\ Todays \subseteq Day /\ Chosen \subseteq Currency
    /\ NoCurrency \notin Currency
ASSUME ExpensesAssumption == IsFiniteSet(Expense)
\* The columns of an Expense that a statement of the dashboard reads.
Entry == [amount : Nat \ {0}, currency : Currency, date : Day, category : Nat, merchant : Nat]
ASSUME TablesAssumption == Tables \subseteq [Expense -> Entry \union {NoRow}]
ASSUME NoConversionAssumption ==
    \A S \in SUBSET Currency : NoConversion \notin [S -> Rate]

VARIABLES
    expenses, \* the row of each Expense
    page,     \* the request being served, or the last one
    seen      \* history: what `expenses' has been during that request

dashboardVars == <<expenses, page, seen, exchange_rates, refresh>>

NoPage == [stage |-> "none"]
Web == "web"
Api == "api"

(***************************************************************************)
(* The statements                                                          *)
(***************************************************************************)
ActiveIn(table, period, c) ==
    {e \in Expense : /\ table[e] # NoRow
                     /\ Covers(period, table[e].date)
                     /\ c # NoCurrency => table[e].currency = c}

AmountOf(table, S) == MapThenSumSet(LAMBDA e : table[e].amount, S)

\* GROUP BY currency and key, over the Expenses key is defined for.
Groups(key) ==
    {LET G == {e \in DOMAIN key : expenses[e].currency = k[1] /\ key[e] = k[2]}
     IN  [currency |-> k[1], key |-> k[2], total |-> AmountOf(expenses, G),
          count |-> Cardinality(G)] :
        k \in {<<expenses[e].currency, key[e]>> : e \in DOMAIN key}}

\* The order of largest_expense: amount, date, creation.
Exceeds(a, b) ==
    \/ a.row.amount > b.row.amount
    \/ a.row.amount = b.row.amount /\ a.row.date > b.row.date
    \/ a.row.amount = b.row.amount /\ a.row.date = b.row.date /\ a.id > b.id

First(candidates) == {a \in candidates : \A b \in candidates \ {a} : Exceeds(a, b)}
Candidate(e) == [id |-> e, row |-> expenses[e]]

\* What a statement of the repository returns.
Answer(read) ==
    LET S == ActiveIn(expenses,
                 CASE read.what = "previous" -> page.windows.previous
                   [] read.what = "current" -> page.windows.current
                   [] OTHER -> page.period,
                 read.currency)
    IN  CASE read.what \in {"currencies", "previous", "current"} -> Groups([e \in S |-> 0])
          [] read.what = "daily" -> Groups([e \in S |-> expenses[e].date])
          [] read.what = "categories" -> Groups([e \in S |-> expenses[e].category])
          [] read.what = "merchants" -> Groups([e \in S |-> expenses[e].merchant])
          [] read.what = "largest" -> First({Candidate(e) : e \in S})

(***************************************************************************)
(* One request                                                             *)
(***************************************************************************)
Statement(what, c) == [what |-> what, currency |-> c]

\* The request, the user's row, and "today".  The page reads the rates before
\* the dashboard; the API never converts, and neither does a chosen currency.
Open(client, asked, currency, default, today) ==
    /\ page = NoPage
    /\ LET period == IF asked = NoPeriod THEN DefaultPeriod(today) ELSE asked
           available == client = Web /\ default # NoCurrency /\ DOMAIN Latest # {}
                            /\ HasRate(Latest, default)
       IN  /\ period \in DashboardPeriod
           /\ page' = [stage |-> "reading", client |-> client, requested |-> currency,
                       default |-> default, today |-> today, period |-> period,
                       windows |-> ComparisonWindows(period, today),
                       main |-> available,
                       rates |-> IF available /\ currency = NoCurrency THEN Latest
                                 ELSE NoConversion,
                       selected |-> NoCurrency,
                       todo |-> <<Statement("currencies", NoCurrency)>>,
                       read |-> {}]
    /\ seen' = {expenses}
    /\ UNCHANGED <<expenses, rateVars>>

Converted(p) == p.rates # NoConversion

\* resolve_currency.  NoCurrency, with several to choose from: a choice is needed.
Resolved(p, present) ==
    CASE Converted(p) -> p.default
      [] ~Converted(p) /\ p.requested # NoCurrency -> p.requested
      [] ~Converted(p) /\ p.requested = NoCurrency ->
            IF Cardinality(present) = 1 THEN CHOOSE c \in present : TRUE
            ELSE IF present = {} \/ p.default \in present THEN p.default
            ELSE NoCurrency

Convertible(p, c) == Converted(p) => CanConvert(p.rates, c, p.default)
InTarget(p, minor, c) == IF Converted(p) THEN Convert(p.rates, minor, c, p.default) ELSE minor

Comparing(p) ==
    IF p.windows = NoWindows THEN <<>>
    ELSE <<Statement("previous", NoCurrency), Statement("current", NoCurrency)>>

\* The statements after the totals per currency, in the order the arguments
\* are evaluated in.
Plan(p, selected, totals) ==
    LET sections(c) == Comparing(p) \o <<Statement("daily", c), Statement("categories", c),
                                         Statement("merchants", c)>>
        present == SetToSeq({g.currency : g \in {h \in totals : Convertible(p, h.currency)}})
    IN  IF Converted(p)
        THEN sections(NoCurrency)
                 \o [i \in DOMAIN present |-> Statement("largest", present[i])]
        ELSE IF selected = NoCurrency THEN <<>>
        ELSE <<Statement("largest", selected)>> \o sections(selected)

\* The rows of a read that count: those of the selected currency, or those
\* that can be converted.
Counted(p, rows) ==
    {g \in rows : IF Converted(p) THEN Convertible(p, g.currency) ELSE g.currency = p.selected}

RowsOf(p, what) == UNION {r.rows : r \in {s \in p.read : s.what = what}}

CountOf(rows) == MapThenSumSet(LAMBDA g : g.count, rows)
\* Each group converts and rounds once; the converted groups add up.
TotalOf(p, rows) == MapThenSumSet(LAMBDA g : InTarget(p, g.total, g.currency), rows)

\* Without an Expense in the previous window the current one is not read.
AfterPrevious(todo, p, rows) ==
    IF CountOf(Counted(p, rows)) = 0 THEN Tail(Tail(todo)) ELSE Tail(todo)

Read ==
    /\ page.stage = "reading" /\ page.todo # <<>>
    /\ LET next == Head(page.todo)
           rows == Answer(next)
           selected == IF next.what = "currencies"
                       THEN Resolved(page, {g.currency : g \in rows}) ELSE page.selected
       IN  page' = [page EXCEPT
                !.read = @ \union {[what |-> next.what, currency |-> next.currency,
                                    rows |-> rows]},
                !.selected = selected,
                !.todo = CASE next.what = "currencies" -> Plan(page, selected, rows)
                           [] next.what = "previous" -> AfterPrevious(@, page, rows)
                           [] OTHER -> Tail(@)]
    /\ UNCHANGED <<expenses, seen, rateVars>>

(***************************************************************************)
(* Putting the parts together                                              *)
(***************************************************************************)
Share(part, whole) == IF whole =< 0 THEN 0 ELSE RoundHalfEven(part * BASIS_POINTS, whole)

\* The groups of several currencies with one key, as one.
Combined(p, rows) ==
    {LET G == {g \in rows : g.key = k}
     IN  [key |-> k, total |-> TotalOf(p, G), count |-> CountOf(G)] :
        k \in {g.key : g \in rows}}

\* Sorted by total, the largest first, then by key.
Precedes(a, b) == a.total > b.total \/ (a.total = b.total /\ a.key < b.key)
Ranked(groups) ==
    [i \in 1 .. Cardinality(groups) |->
        CHOOSE g \in groups : Cardinality({h \in groups : Precedes(h, g)}) = i - 1]

Inside(bucket, rows) == {g \in rows : Covers(bucket, g.key)}

\* A currency's total in the bucket converts once.
Bucket(p, bucket, rows) ==
    LET inside == Inside(bucket, rows)
        ofCurrency(c) == {g \in inside : g.currency = c}
    IN  [period |-> bucket,
         total |-> MapThenSumSet(
             LAMBDA c : InTarget(p, MapThenSumSet(LAMBDA g : g.total, ofCurrency(c)), c),
             {g.currency : g \in inside}),
         count |-> CountOf(inside)]

Top(named) == SubSeq(named, 1, Earlier(TOP_MERCHANT_COUNT, Len(named)))

\* Mutant of Rest: what has no merchant is in no group.
NamedRest(groups) ==
    LET named == Ranked({g \in groups : g.key # NoMerchant})
    IN  ToSet(SubSeq(named, TOP_MERCHANT_COUNT + 1, Len(named)))

\* "Other": the merchants after the top ones and what has no merchant.
Rest(groups) ==
    LET named == Ranked({g \in groups : g.key # NoMerchant})
    IN  ToSet(SubSeq(named, TOP_MERCHANT_COUNT + 1, Len(named)))
            \union {g \in groups : g.key = NoMerchant}

\* Mutant of LargestOf: the amounts are compared before they are converted.
LargestUnconverted(p) == First(RowsOf(p, "largest"))

InDashboardCurrency(p, a) == [a EXCEPT !.row.amount = InTarget(p, a.row.amount, a.row.currency)]

\* Each currency's largest is converted, and the largest of those is taken.
LargestOf(p) ==
    LET converted == First({InDashboardCurrency(p, a) : a \in RowsOf(p, "largest")})
    IN  {a \in RowsOf(p, "largest") : InDashboardCurrency(p, a) \in converted}

\* The first category that is one, if there is any.
LargestCategory(categories) ==
    {categories[i] : i \in {j \in DOMAIN categories :
        /\ categories[j].key # UNCATEGORIZED_KEY
        /\ \A k \in 1 .. (j - 1) : categories[k].key = UNCATEGORIZED_KEY}}

NoComparison == [none |-> TRUE]
NoShare == "none"
Comparison(p) ==
    LET before == Counted(p, RowsOf(p, "previous"))
        change == TotalOf(p, Counted(p, RowsOf(p, "current"))) - TotalOf(p, before)
    IN  IF CountOf(before) = 0 THEN NoComparison
        ELSE [previous |-> TotalOf(p, before), change |-> change,
              share |-> IF TotalOf(p, before) > 0 THEN Share(change, TotalOf(p, before))
                        ELSE NoShare]

Detail(p) ==
    LET rows(what) == Counted(p, RowsOf(p, what))
        total == TotalOf(p, rows("currencies"))
        merchants == Combined(p, rows("merchants"))
        shared(g) == [key |-> g.key, total |-> g.total, count |-> g.count,
                      share |-> Share(g.total, total)]
        categories == Ranked({shared(g) : g \in Combined(p, rows("categories"))})
    IN  [total |-> total,
         count |-> CountOf(rows("currencies")),
         comparison |-> Comparison(p),
         buckets |-> {Bucket(p, b, rows("daily")) : b \in ChartBuckets(p.period)},
         categories |-> categories,
         merchants |-> Top(Ranked({g \in merchants : g.key # NoMerchant})),
         other |-> Rest(merchants),
         largest_category |-> LargestCategory(categories),
         largest_expense |-> LargestOf(p)]

\* Mutant of Used: only the currencies of the period's totals are named.
UsedInTotals(p) ==
    {g.currency : g \in {h \in RowsOf(p, "currencies") : Convertible(p, h.currency)}} \ {p.default}

\* The currencies some figure was converted from.
Used(p) ==
    {g.currency : g \in UNION {Counted(p, RowsOf(p, what)) :
        what \in {"currencies", "previous", "current", "daily", "categories", "merchants"}}}
    \ {p.default}

UsedRates(p) == IF Used(p) = {} THEN {} ELSE (Used(p) \union {p.default}) \ {EUR}

\* donut: one slice per share, or none when the shares are nothing.
Slices(shares) == IF FoldLeft(+, 0, shares) =< 0 THEN <<>> ELSE shares

\* The page pairs the categories with the slices, zip(strict=True).
Drawn(p) ==
    LET shares == [i \in DOMAIN Detail(p).categories |-> Detail(p).categories[i].share]
    IN  p.client = Web => Len(Slices(shares)) = Len(shares)

Present(p) == {g.currency : g \in RowsOf(p, "currencies")}

Respond ==
    /\ page.stage = "reading" /\ page.todo = <<>>
    /\ page' = IF page.selected # NoCurrency /\ ~Drawn(page)
               THEN [page EXCEPT !.stage = "failed"]
               ELSE [stage |-> "done", request |-> page,
                     detail |-> IF page.selected = NoCurrency THEN NoConversion ELSE Detail(page),
                     rates |-> IF Converted(page) THEN UsedRates(page) ELSE {},
                     unconverted |-> {g \in RowsOf(page, "currencies") :
                                         ~Convertible(page, g.currency)}]
    /\ UNCHANGED <<expenses, seen, rateVars>>

Delivered ==
    /\ page.stage \in {"done", "failed"}
    /\ page' = NoPage
    /\ seen' = {expenses}
    /\ UNCHANGED <<expenses, rateVars>>

\* Another request of the user commits.
Commit(table) ==
    /\ page.stage = "reading"
    /\ Cardinality({e \in Expense : table[e] # expenses[e]}) = 1
    /\ expenses' = table
    /\ seen' = seen \union {table}
    /\ UNCHANGED <<page, rateVars>>

\* The history a bucket or a category links to.  A converted page links to every
\* currency.
NoCategory == -1
Link(p, period, category) ==
    [period |-> period, category |-> category,
     currency |-> IF Converted(p) THEN NoCurrency ELSE p.selected]

History(table, link) ==
    {e \in ActiveIn(table, link.period, link.currency) :
        link.category = NoCategory \/ table[e].category = link.category}

\* The loop of nice_ceiling: the largest power of ten that is not above the value.
Magnitude(value) ==
    LET up[m \in 1 .. value] == IF m * 10 =< value THEN up[m * 10] ELSE m
    IN  up[1]

\* The top of the axis: the least of 1, 2, 2.5, 5 and 10 times a power of ten
\* that is not below the value.
NiceCeiling(value) ==
    LET m == Magnitude(value)
    IN  IF value =< 0 THEN 0
        ELSE Min({t \in {m, 2 * m, (5 * m) \div 2, 5 * m, 10 * m} : t >= value})

TimeChart(p, buckets) ==
    [axis |-> NiceCeiling(Max({b.total : b \in buckets})),
     columns |-> {[total |-> b.total, count |-> b.count, link |-> Link(p, b.period, NoCategory)] :
                     b \in buckets}]

CategoryRows(p, categories) ==
    {[count |-> g.count, link |-> Link(p, p.period, g.key)] : g \in ToSet(categories)}

\* What the page says of a period with several currencies.
Several(p) == Cardinality(Present(p)) > 1
NeedsDefaultCurrency(p) == Several(p) /\ p.default = NoCurrency
RatesMissing(p) == Several(p) /\ p.default # NoCurrency /\ ~p.main

DashboardInit ==
    /\ expenses \in Tables
    /\ page = NoPage
    /\ seen = {expenses}
    /\ RatesInit

DashboardNext ==
    \/ \E client \in {Web, Api}, currency, default \in Chosen \union {NoCurrency},
          today \in Todays :
           \E asked \in {NoPeriod} \union Asked \union Presets(today) :
               Open(client, asked, currency, default, today)
    \/ Read
    \/ Respond
    \/ Delivered
    \/ \E table \in Tables : Commit(table)
    \/ RatesNext /\ UNCHANGED <<expenses, page, seen>>

DashboardSpec == DashboardInit /\ [][DashboardNext]_dashboardVars

(***************************************************************************)
(* What must hold.  A part of a dashboard is true when it is what the      *)
(* Expenses, added up directly, gave at some moment of the request: with   *)
(* no commit in between there is one such moment, and the parts agree.     *)
(***************************************************************************)
Shown == page.stage = "done" /\ page.detail # NoConversion
Asks == page.request

Countable(table, period) ==
    {e \in ActiveIn(table, period, NoCurrency) :
        IF Converted(Asks) THEN Convertible(Asks, table[e].currency)
        ELSE table[e].currency = Asks.selected}

CurrenciesOf(table, S) == {table[e].currency : e \in S}

TrueTotal(table, S) ==
    MapThenSumSet(
        LAMBDA c : InTarget(Asks, AmountOf(table, {e \in S : table[e].currency = c}), c),
        CurrenciesOf(table, S))

Difference(a, b) == IF a < b THEN b - a ELSE a - b

\* Each group in another currency may be half a minor unit off.
Roundings(currencies) == IF Converted(Asks) THEN Cardinality(currencies \ {Asks.default}) ELSE 0

Groupings(what) ==
    {<<g.currency, g.key>> : g \in {h \in Counted(Asks, RowsOf(Asks, what)) :
        Roundings({h.currency}) = 1}}

TrueSum(parts, what) ==
    \E table \in seen :
        LET S == Countable(table, Asks.period)
        IN  /\ CountOf(parts) = Cardinality(S)
            /\ 2 * Difference(MapThenSumSet(LAMBDA g : g.total, parts), TrueTotal(table, S))
                   =< Cardinality(Groupings(what)) + Roundings(CurrenciesOf(table, S))

\* The number of Expenses a link leads to, apart from those without a rate.
Leads(rows) ==
    \E table \in seen : \A r \in rows :
        r.count = Cardinality(History(table, r.link) \cap Countable(table, Asks.period))

\* The summary is exact, and the categories, the merchants with "Other", and
\* the buckets of the chart each add up to it but for the rounding of each
\* currency group; nothing is counted twice or left out; the top merchants are
\* the top ones; a column fits its axis; and the history that a column or a
\* category opens has the Expenses that were counted.
PartsAddUp ==
    Shown =>
        LET merchants == ToSet(page.detail.merchants)
            chart == TimeChart(Asks, page.detail.buckets)
        IN  /\ \E table \in seen :
                  LET S == Countable(table, Asks.period)
                  IN  page.detail.count = Cardinality(S) /\ page.detail.total = TrueTotal(table, S)
            /\ TrueSum(ToSet(page.detail.categories), "categories")
            /\ TrueSum(merchants \union page.detail.other, "merchants")
            /\ TrueSum(page.detail.buckets, "daily")
            /\ Len(page.detail.merchants) =< TOP_MERCHANT_COUNT
            /\ \A g \in merchants, h \in page.detail.other :
                  h.key # NoMerchant => h.total =< g.total
            /\ \A column \in chart.columns : column.total =< chart.axis
            /\ Leads(chart.columns)
            /\ Leads(CategoryRows(Asks, page.detail.categories))

\* The largest expense was one of the Expenses, and, when nothing was committed
\* meanwhile, none is worth more in the dashboard's currency; the largest
\* category is the largest that is one.
InsightsAreTrue ==
    Shown =>
        /\ \A e \in page.detail.largest_expense :
              \E table \in seen :
                  e.id \in Countable(table, Asks.period) /\ table[e.id] = e.row
        /\ \A table \in seen :
              seen = {table} =>
                  \A e \in Countable(table, Asks.period) :
                      /\ \E f \in page.detail.largest_expense :
                            InTarget(Asks, table[e].amount, table[e].currency)
                                =< InTarget(Asks, f.row.amount, f.row.currency)
                      /\ table[e].category # UNCATEGORIZED_KEY =>
                            \E largest \in page.detail.largest_category :
                                /\ largest.key # UNCATEGORIZED_KEY
                                /\ \A g \in ToSet(page.detail.categories) :
                                      g.key # UNCATEGORIZED_KEY => g.total =< largest.total

TrueIn(total, period) ==
    \E table \in seen :
        LET S == Countable(table, period)
        IN  S # {} /\ total = TrueTotal(table, S)

\* A change is shown between the part of the period up to today and a window
\* before it that is as long, or is a whole month shorter than it; both totals
\* were true, and without a comparison there was nothing to compare with.
ComparisonIsFair ==
    Shown =>
        LET w == Asks.windows
            shown == page.detail.comparison
        IN  IF shown = NoComparison
            THEN w = NoWindows \/ \E table \in seen : Countable(table, w.previous) = {}
            ELSE /\ w.current.date_from = Asks.period.date_from
                 /\ w.current.date_to =< Asks.period.date_to /\ w.current.date_to =< Asks.today
                 /\ FirstDay =< w.previous.date_from
                 /\ w.previous.date_to < w.current.date_from
                 /\ \/ DaysOf(w.previous) = DaysOf(w.current)
                    \/ DaysOf(w.previous) < DaysOf(w.current) /\ w.previous = DefaultPeriod(w.previous.date_to)
                 /\ TrueIn(shown.previous, w.previous)
                 /\ \/ TrueIn(shown.previous + shown.change, w.current)
                    \/ shown.change = -shown.previous
                       /\ \E table \in seen : Countable(table, w.current) = {}

\* A figure never hides how it came about: an amount that could not be
\* converted is listed, every rate that went into a figure is named, and when
\* only one of several currencies is shown the user asked for it or is told why.
NothingIsSilent ==
    page.stage = "done" =>
        /\ Converted(Asks) =>
              \E table \in seen : \A e \in ActiveIn(table, Asks.period, NoCurrency) :
                  \/ Convertible(Asks, table[e].currency)
                  \/ \E g \in page.unconverted : g.currency = table[e].currency
        /\ Converted(Asks) =>
              \A c \in Currency \ {Asks.default} :
                  (/\ Convertible(Asks, c)
                   /\ \/ \A table \in seen : ActiveIn(table, Asks.period, c) # {}
                      \/ /\ Asks.windows # NoWindows
                         /\ \A table \in seen : ActiveIn(table, Asks.windows.previous, c) # {})
                  => {c, Asks.default} \ {EUR} \subseteq page.rates
        /\ Asks.client = Web /\ Several(Asks) /\ ~Converted(Asks) =>
              Asks.requested # NoCurrency \/ NeedsDefaultCurrency(Asks) \/ RatesMissing(Asks)

\* The page pairs each category with its slice of the chart, zip(strict=True):
\* the program asserts that there are as many.
PageNeverFails == page.stage # "failed"

=============================================================================
