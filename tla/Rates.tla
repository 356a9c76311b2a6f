------------------------------- MODULE Rates -------------------------------
(***************************************************************************)
(* Exchange rates: the daily refresh from two sources                      *)
(* (application/rates/rates.py, infrastructure/rates/sources.py), the      *)
(* table of the latest rate per currency                                   *)
(* (infrastructure/persistence/exchange_rates.py), and the arithmetic of a *)
(* conversion.  A Decimal rate is an integer over RateUnit; an amount is   *)
(* in minor units, Scale[c] of them to a unit.                             *)
(***************************************************************************)
EXTENDS Integers, Sequences

CONSTANTS Currency,  \* the catalogue
          EUR, UAH,
          Code,      \* what a source or an old row may name: more than the catalogue
          Scale,
          RateUnit,
          Bodies,    \* what each source may answer with
          NoBody,    \* a request that fails, or a body that cannot be read
          NoRate

ASSUME CatalogueAssumption ==
    /\ EUR \in Currency /\ UAH \in Currency /\ EUR # UAH /\ Currency \subseteq Code
    /\ Scale \in [Currency -> Nat \ {0}] /\ RateUnit \in Nat \ {0}

VARIABLES
    exchange_rates,  \* the table: the latest rate per currency, or NoRate
    refresh          \* the refresh command, or Resting

rateVars == <<exchange_rates, refresh>>

ECB == "ECB"
NBU == "NBU"
Rate == [units_per_eur : Nat \ {0}, source : {ECB, NBU}]
ASSUME NoRateAssumption == NoRate \notin Rate
ASSUME BodiesAssumption ==
    \A source \in {ECB, NBU} : \A body \in Bodies[source] \ {NoBody} :
        DOMAIN body \subseteq Code /\ body \in [DOMAIN body -> Nat]
\* The code's rates are decimals, so RateUnit is fine enough for none to become 0.
ASSUME RateUnitAssumption ==
    \A body \in Bodies[NBU] \ {NoBody} : EUR \in DOMAIN body =>
        \A c \in DOMAIN body : body[c] =< body[EUR] * RateUnit

Resting == [left |-> <<>>]
Failed == [failed |-> TRUE]

\* A body is a function from codes to numbers; what is not a positive number is
\* 0.  One bad rate of a catalogue currency makes the whole answer a failure.
ParseEcb(body) ==
    LET known == (DOMAIN body) \cap Currency
    IN  IF known = {} \/ \E c \in known : body[c] = 0
        THEN Failed
        ELSE [c \in known |-> [units_per_eur |-> body[c], source |-> ECB]]

\* The NBU gives hryvnias per unit.  Here any bad entry is a failure, and so is
\* an answer without the euro.
ParseNbu(body) ==
    IF EUR \notin DOMAIN body \/ \E c \in DOMAIN body : body[c] = 0
    THEN Failed
    ELSE [c \in {UAH} \union (((DOMAIN body) \cap Currency) \ {EUR}) |->
            [units_per_eur |-> IF c = UAH THEN body[EUR] * RateUnit
                               ELSE (body[EUR] * RateUnit) \div body[c],
             source |-> NBU]]

Fetched(source, body) ==
    IF body = NoBody THEN Failed
    ELSE IF source = ECB THEN ParseEcb(body) ELSE ParseNbu(body)

\* Mutant of Added: a later source replaces what an earlier one published.
Replaced(chosen, rates) ==
    [c \in (DOMAIN chosen) \union ((DOMAIN rates) \ {EUR}) |->
        IF c \in DOMAIN rates THEN rates[c] ELSE chosen[c]]

\* An earlier source wins; the euro needs no rate.
Added(chosen, rates) ==
    [c \in (DOMAIN chosen) \union ((DOMAIN rates) \ {EUR}) |->
        IF c \in DOMAIN chosen THEN chosen[c] ELSE rates[c]]

StartRefresh ==
    /\ refresh = Resting
    /\ refresh' = [left |-> <<ECB, NBU>>, chosen |-> <<>>, answers |-> <<>>]
    /\ UNCHANGED exchange_rates

\* One source after the other.  `answers' is what each said, for the properties.
Fetch(body) ==
    /\ refresh.left # <<>>
    /\ LET rates == Fetched(Head(refresh.left), body)
       IN  refresh' = [left |-> Tail(refresh.left),
                       chosen |-> IF rates = Failed THEN refresh.chosen
                                  ELSE Added(refresh.chosen, rates),
                       answers |-> Append(refresh.answers, rates)]
    /\ UNCHANGED exchange_rates

\* One statement for all the rates that were chosen, and its commit.
Save ==
    /\ refresh # Resting /\ refresh.left = <<>>
    /\ exchange_rates' = [c \in Code |->
           IF c \in DOMAIN refresh.chosen THEN refresh.chosen[c] ELSE exchange_rates[c]]
    /\ refresh' = Resting

\* The command is killed, or the database fails: nothing was written yet.
Die ==
    /\ refresh # Resting
    /\ refresh' = Resting
    /\ UNCHANGED exchange_rates

RatesInit ==
    /\ exchange_rates = [c \in Code |-> NoRate]
    /\ refresh = Resting

RatesNext ==
    \/ StartRefresh
    \/ refresh.left # <<>> /\ \E body \in Bodies[Head(refresh.left)] : Fetch(body)
    \/ Save
    \/ Die

(***************************************************************************)
(* Conversion                                                              *)
(***************************************************************************)
\* ExchangeRates as latest() returns it: rows of the catalogue only.
Latest == [c \in {d \in Currency : exchange_rates[d] # NoRate} |-> exchange_rates[c]]

HasRate(rates, c) == c = EUR \/ c \in DOMAIN rates
UnitsPerEur(rates, c) == IF c = EUR THEN RateUnit ELSE rates[c].units_per_eur

CanConvert(rates, c, target) == c = target \/ (HasRate(rates, c) /\ HasRate(rates, target))

RoundHalfEven(n, d) ==
    LET q == n \div d
        r == 2 * (n % d)
    IN  IF r < d \/ (r = d /\ q % 2 = 0) THEN q ELSE q + 1

Convert(rates, minor, c, target) ==
    IF c = target THEN minor
    ELSE RoundHalfEven(minor * Scale[target] * UnitsPerEur(rates, target),
                       Scale[c] * UnitsPerEur(rates, c))

(***************************************************************************)
(* What must hold                                                          *)
(***************************************************************************)
Said(i, c) == i \in DOMAIN refresh.answers /\ refresh.answers[i] # Failed
                  /\ c \in DOMAIN refresh.answers[i]

\* A stored rate is replaced only by the rate of the first source that answered
\* this time and named the currency, so a later source does not win over an
\* earlier one that published it.  A currency nobody named, an answer that
\* fails its parsing and a refresh that dies replace nothing.  It does not say
\* that a source which failed keeps the rates it stored: see the end.
FirstAnswerWins == [][
    \A c \in Code : exchange_rates'[c] # exchange_rates[c] =>
        /\ c \in Currency \ {EUR}
        /\ \E i \in DOMAIN refresh.answers :
               /\ Said(i, c)
               /\ exchange_rates'[c] = refresh.answers[i][c]
               /\ \A j \in 1 .. (i - 1) : ~Said(j, c)]_rateVars

(***************************************************************************)
(* What the documents say and the code does not keep                       *)
(***************************************************************************)
\* exchange_rates_design.md, X2: a failed source keeps the previous rates.  The
\* next source that names the currency replaces them.
FailedSourceKeepsItsRates == [][
    \A c \in Code : exchange_rates[c] # NoRate /\ exchange_rates'[c] # exchange_rates[c] =>
        \A i \in DOMAIN refresh.answers :
            <<ECB, NBU>>[i] = exchange_rates[c].source => refresh.answers[i] # Failed]_rateVars
=============================================================================
