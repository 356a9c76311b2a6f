--------------------------- MODULE MCUpdateLedger ---------------------------
(* Instances of UpdateLedger for TLC: a text message, a confirmation and an  *)
(* update from a group.                                                      *)
EXTENDS UpdateLedger

CONSTANTS text, confirm, group

SomeUpdates == {text, confirm, group}
GroupUpdates == {group}
Confirmations == {confirm}

=============================================================================
