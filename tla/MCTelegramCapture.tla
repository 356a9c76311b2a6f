-------------------------- MODULE MCTelegramCapture --------------------------
(* Instances of TelegramCapture for TLC: one user, a few drafts, and the      *)
(* recognitions and Web edits that make the interesting cases happen.        *)
EXTENDS TelegramCapture, Recognition, TLC

\* An amount and a merchant, an amount Expense will not take, and nothing.
SomeEdits ==
    {[f \in {"amount", "merchant"} |-> TRUE], [f \in {"amount"} |-> FALSE], [f \in {} |-> TRUE]}
NoEdits == {}

\* What a recognizer reads off a receipt: one clear candidate per field, two
\* that compete, a date with two readings, an ambiguous currency, or nothing.
MerchantRead(text, confidence) == [text |-> text, confidence |-> confidence]
TotalRead(value, label, confidence) == [value |-> value, label |-> label, confidence |-> confidence]
CurrencyRead(code, evidence, confidence) ==
    [code |-> code, evidence |-> evidence, confidence |-> confidence]

ShopNames == ("Shop" :> "Shop") @@ (" Shop" :> "Shop") @@ ("Stop" :> "Stop")
Scales == ("EUR" :> 100) @@ ("JPY" :> 1)
Today == 500

Outputs ==
    [merchants : {{}, {MerchantRead("Shop", 90), MerchantRead(" Shop", 85)},
                  {MerchantRead("Shop", 90), MerchantRead("Stop", 80)}},
     dates : {{[readings |-> {Today - 30, Today + 30}, confidence |-> 90]},
              {[readings |-> {Today - 30, Today - 60}, confidence |-> 90]}},
     totals : {{TotalRead(1250, "total", 95), TotalRead(1000, "subtotal", 95)},
               {TotalRead(1250, "total", 95), TotalRead(1350, "total", 85)}},
     currencies : {{CurrencyRead("EUR", "explicit_code", 90), CurrencyRead("USD", "explicit_code", 90)},
                   {CurrencyRead("JPY", "ambiguous_symbol", 99)},
                   {CurrencyRead("JPY", "explicit_code", 99)}}]

ASSUME OutputsAssumption == \A output \in Outputs : IsOutput(output)

SomeResults == {FoundFields(SelectValues(output, Today)) : output \in Outputs}

NoWeb == {}
WebWithoutReady == {"edit", "cancel", "confirm"}
WholeWeb == WebWithoutReady \cup {"ready"}

Symmetry == Permutations(DraftId)
=============================================================================
