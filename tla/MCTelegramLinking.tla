-------------------------- MODULE MCTelegramLinking --------------------------
(* Instances of TelegramLinking for TLC: two accounts with a session each.   *)
EXTENDS TelegramLinking, TLC

CONSTANTS a1, a2, s1, s2

OneEach == [s \in Session |-> IF s = s1 THEN a1 ELSE a2]

Symmetry == Permutations(Person) \cup Permutations(Challenge) \cup Permutations(Request)
=============================================================================
