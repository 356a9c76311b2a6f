--------------------------- MODULE UpdateContract ---------------------------
(***************************************************************************)
(* What the bot promises of every Telegram update, however often it is     *)
(* delivered: its work is committed at most once, the user hears of it at  *)
(* most once and only after the commit, and Telegram is told to forget the *)
(* update only when the work is committed or there is none to do.          *)
(***************************************************************************)
EXTENDS Naturals

CONSTANTS Update,
          Ignorable   \* updates that cause no work

VARIABLES
    applied,    \* how often an update's work was committed
    replied,    \* how often the user was answered
    acked       \* updates Telegram was told to forget

vars == <<applied, replied, acked>>

Init ==
    /\ applied = [u \in Update |-> 0]
    /\ replied = [u \in Update |-> 0]
    /\ acked = {}

Apply(u) ==
    /\ applied[u] = 0
    /\ applied' = [applied EXCEPT ![u] = 1]
    /\ UNCHANGED <<replied, acked>>

Answer(u) ==
    /\ applied[u] = 1 /\ replied[u] = 0
    /\ replied' = [replied EXCEPT ![u] = 1]
    /\ UNCHANGED <<applied, acked>>

Acknowledge(u) ==
    /\ u \in Ignorable \/ applied[u] = 1
    /\ acked' = acked \cup {u}
    /\ UNCHANGED <<applied, replied>>

Next == \E u \in Update : Apply(u) \/ Answer(u) \/ Acknowledge(u)

Spec == Init /\ [][Next]_vars
=============================================================================
