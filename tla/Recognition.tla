----------------------------- MODULE Recognition -----------------------------
(***************************************************************************)
(* Which of a recognizer's candidates prefill a draft:                     *)
(* application/receipts/recognition.py.  A confidence is in hundredths, a  *)
(* date a number of days, a printed total an integer over Precision.  What *)
(* is selected is a set of at most one value, empty for None.              *)
(***************************************************************************)
EXTENDS Integers

CONSTANTS MERCHANT_MIN_CONFIDENCE, DATE_MIN_CONFIDENCE, TOTAL_MIN_CONFIDENCE,
          CURRENCY_MIN_CONFIDENCE, MIN_LEAD_OVER_ALTERNATIVE,
          MAX_RECEIPT_AGE, FUTURE_TRANSACTION_DATE_TOLERANCE,
          FirstDate, LastDate,   \* of the years TransactionDate takes
          NameOf,                \* texts to normalized names, those that are one
          CurrencyScale,         \* minor units per unit, for the catalogue
          Precision, MAX_MAJOR_UNITS

ASSUME ThresholdsAssumption ==
    /\ MERCHANT_MIN_CONFIDENCE \in Nat /\ DATE_MIN_CONFIDENCE \in Nat
    /\ TOTAL_MIN_CONFIDENCE \in Nat /\ CURRENCY_MIN_CONFIDENCE \in Nat
    /\ MIN_LEAD_OVER_ALTERNATIVE \in Nat \ {0}

Confidence == 0 .. 100
AmountLabel == {"total", "subtotal", "unlabeled"}
CurrencyEvidence == {"explicit_code", "unambiguous_symbol", "ambiguous_symbol"}
TrustedEvidence == {"explicit_code", "unambiguous_symbol"}

\* A RecognitionOutput: what the adapter of a recognizer may answer with.
IsOutput(output) ==
    /\ \A c \in output.merchants \union output.dates \union output.totals \union output.currencies :
           c.confidence \in Confidence
    /\ \A c \in output.totals : c.label \in AmountLabel /\ c.value \in Int
    /\ \A c \in output.currencies : c.evidence \in CurrencyEvidence
    /\ \A c \in output.dates : c.readings \subseteq Int

Scored(value, confidence) == [value |-> value, confidence |-> confidence]

\* The best value, if it reaches the minimum and leads every different one.
Leader(scored, minimum) ==
    {s.value : s \in {t \in scored :
        /\ t.confidence >= minimum
        /\ \A r \in scored : r.value # t.value =>
               t.confidence - r.confidence >= MIN_LEAD_OVER_ALTERNATIVE}}

SelectMerchant(candidates) ==
    Leader({Scored(NameOf[c.text], c.confidence) : c \in {k \in candidates : k.text \in DOMAIN NameOf}},
           MERCHANT_MIN_CONFIDENCE)

Plausible(candidate, today) ==
    {d \in candidate.readings :
        /\ today - MAX_RECEIPT_AGE =< d /\ FirstDate =< d /\ d =< LastDate
        /\ d =< today + FUTURE_TRANSACTION_DATE_TOLERANCE}

\* Of 03/04 both readings, or one, or none may be plausible; only one is trusted.
SelectDate(candidates, today) ==
    LET single == {c \in candidates : \E d \in c.readings : Plausible(c, today) = {d}}
    IN  Leader({Scored(CHOOSE d \in Plausible(c, today) : TRUE, c.confidence) : c \in single},
               DATE_MIN_CONFIDENCE)

SelectCurrency(candidates) ==
    LET trusted == {c \in candidates : c.evidence \in TrustedEvidence
                                           /\ c.code \in DOMAIN CurrencyScale}
    IN  Leader({Scored(c.code, c.confidence) : c \in trusted}, CURRENCY_MIN_CONFIDENCE)

\* A total without its currency, one finer than a minor unit, or one too large
\* for Money, is dropped.
SelectTotal(candidates, currencies) ==
    LET labelled == {c \in candidates : c.label = "total" /\ c.value > 0}
        leaders == Leader({Scored(c.value, c.confidence) : c \in labelled}, TOTAL_MIN_CONFIDENCE)
    IN  {[minor_units |-> (m[1] * CurrencyScale[m[2]]) \div Precision, currency |-> m[2]] :
            m \in {k \in leaders \X currencies :
                      /\ (k[1] * CurrencyScale[k[2]]) % Precision = 0
                      /\ k[1] =< MAX_MAJOR_UNITS * Precision}}

SelectValues(output, today) ==
    [merchant |-> SelectMerchant(output.merchants),
     transaction_date |-> SelectDate(output.dates, today),
     total |-> SelectTotal(output.totals, SelectCurrency(output.currencies))]

\* The fields of the draft that the RecognitionResult has a value for.
FoundFields(values) ==
    (IF values.total # {} THEN {"amount"} ELSE {})
        \union (IF values.transaction_date # {} THEN {"date"} ELSE {})
        \union (IF values.merchant # {} THEN {"merchant"} ELSE {})
=============================================================================
