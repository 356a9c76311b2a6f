--------------------------- MODULE ReceiptContract ---------------------------
(***************************************************************************)
(* What the receipt queue promises of every receipt, however many workers  *)
(* attempt it, crash over it or come back to it late: it is settled at     *)
(* most once, its values reach the draft at most once and only when it was *)
(* recognized, and the user hears of the outcome at most once, afterwards. *)
(***************************************************************************)
EXTENDS Naturals

CONSTANT Receipt

VARIABLES
    outcome,    \* what became of the receipt
    filled,     \* how often recognized values were applied to its draft
    told        \* how often the user was told

vars == <<outcome, filled, told>>

Init ==
    /\ outcome = [r \in Receipt |-> "none"]
    /\ filled = [r \in Receipt |-> 0]
    /\ told = [r \in Receipt |-> 0]

Accept(r) ==
    /\ outcome[r] = "none"
    /\ outcome' = [outcome EXCEPT ![r] = "pending"]
    /\ UNCHANGED <<filled, told>>

Recognize(r) ==
    /\ outcome[r] = "pending"
    /\ outcome' = [outcome EXCEPT ![r] = "recognized"]
    /\ \/ filled' = [filled EXCEPT ![r] = 1]
       \/ UNCHANGED filled          \* the user closed the draft meanwhile
    /\ UNCHANGED told

Refuse(r) ==
    /\ outcome[r] = "pending"
    /\ outcome' = [outcome EXCEPT ![r] = "recognition_failed"]
    /\ UNCHANGED <<filled, told>>

\* The account was deleted, or the receipt of a long closed draft is retired.
Retire(r) ==
    /\ outcome[r] # "none"
    /\ outcome' = [outcome EXCEPT ![r] = "gone"]
    /\ UNCHANGED <<filled, told>>

Tell(r) ==
    /\ outcome[r] \notin {"none", "pending"} /\ told[r] = 0
    /\ told' = [told EXCEPT ![r] = 1]
    /\ UNCHANGED <<outcome, filled>>

Next == \E r \in Receipt : Accept(r) \/ Recognize(r) \/ Refuse(r) \/ Retire(r) \/ Tell(r)

Spec == Init /\ [][Next]_vars
=============================================================================
