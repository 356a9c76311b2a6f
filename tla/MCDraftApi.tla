----------------------------- MODULE MCDraftApi -----------------------------
(* Instances of DraftApi for TLC: a draft of a user, two requests in flight  *)
(* on one server process or on two, and the PATCH bodies that make the       *)
(* interesting cases happen.                                                 *)
EXTENDS DraftApi, TLC

CONSTANTS s1, s2      \* server processes

OneServer == [r \in Request |-> s1]
TwoServers == CHOOSE h \in [Request -> {s1, s2}] : \E q, r \in Request : h[q] # h[r]
OneOrTwoServers == {OneServer, TwoServers}

\* Amount and date in one body, an amount or a category that Expense will not
\* take, and a body that sets nothing.
SomeEdits == {[f \in {"amount", "date"} |-> TRUE],
              [f \in {"amount"} |-> FALSE],
              [f \in {"category"} |-> FALSE],
              [f \in {} |-> TRUE]}
=============================================================================
