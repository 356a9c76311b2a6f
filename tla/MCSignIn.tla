------------------------------ MODULE MCSignIn ------------------------------
(* An instance of SignIn for TLC.                                            *)
EXTENDS SignIn, TLC

Symmetry == Permutations(User) \cup Permutations(Link) \cup Permutations(Ask)
                \cup Permutations(Visit)
=============================================================================
