---------------------------- MODULE LinkContract ----------------------------
(***************************************************************************)
(* What linking promises: an account and a Telegram user are linked to at  *)
(* most one of the other kind, and a link never passes from one to another *)
(* in a step.  It ends before another can begin.                           *)
(***************************************************************************)
CONSTANTS Account, Person

VARIABLE links      \* the pairs <<account, person>> that are linked

Init == links = {}

Connect(a, p) ==
    /\ \A l \in links : l[1] # a /\ l[2] # p
    /\ links' = links \cup {<<a, p>>}

Disconnect(a, p) == links' = links \ {<<a, p>>}

Next == \E a \in Account, p \in Person : Connect(a, p) \/ Disconnect(a, p)

Spec == Init /\ [][Next]_links
=============================================================================
