---------------------------- MODULE UpdateLedger ----------------------------
(***************************************************************************)
(* Delivery of Telegram updates: Telegram's redelivery, the webhook, the   *)
(* handler (TelegramUpdateHandler.handle) and the ledger of processed      *)
(* updates that makes redelivery harmless.                                 *)
(*                                                                         *)
(* One update may be in the hands of several handlers at once: Telegram    *)
(* repeats a request whose answer it did not get, whether or not the first *)
(* one is still being handled.  A handler runs in one database transaction *)
(* that inserts the update's id first; a second insert of the same id      *)
(* waits for that transaction to end.  Most updates commit once, at the    *)
(* end.  Those of EarlyCommit may run a use case that commits the same     *)
(* session in the middle: ConfirmCaptureDraft, and the claim of a link     *)
(* challenge.  Dispatch itself is abstract here: TelegramCapture says what *)
(* the work is, this module how often it happens.                          *)
(***************************************************************************)
EXTENDS Naturals

CONSTANTS Update,
          Ignorable,    \* group, bot and unsupported updates
          EarlyCommit,  \* updates whose use case commits before the handler does
          Copy,         \* requests handled at the same time
          MaxMishaps    \* bound on failures, crashes and lost answers

ASSUME IgnorableAssumption == Ignorable \subseteq Update
ASSUME MaxMishapsAssumption == MaxMishaps \in Nat

VARIABLES
    telegram,   \* Telegram's side of each update
    ledger,     \* telegram_processed_updates, committed rows
    handler,    \* the request each copy is handling
    applied,    \* history: commits of an update's id with its work
    replied,    \* history: updates the user was answered for
    mishaps

vars == <<telegram, ledger, handler, applied, replied, mishaps>>

Free == [stage |-> "free"]

\* received: the body is read; begun: the id is inserted; early: a use case
\* committed; replying: the handler committed; answering: 200 is next;
\* failing, failing_late: rolled back and 500 is next, the latter after a use
\* case had committed.
Stage == {"received", "begun", "early", "replying", "answering", "failing", "failing_late"}

TypeOK ==
    /\ telegram \in [Update -> {"pending", "acked", "dropped"}]
    /\ ledger \subseteq Update
    /\ handler \in [Copy -> [update : Update, stage : Stage] \cup {Free}]
    /\ applied \in [Update -> Nat]
    /\ replied \in [Update -> Nat]
    /\ mishaps \in 0..MaxMishaps

At(c, stage) == handler[c] # Free /\ handler[c].stage = stage

Handles(c, u) == handler[c] # Free /\ handler[c].update = u

GoTo(c, stage) == handler' = [handler EXCEPT ![c].stage = stage]

Mishap == mishaps < MaxMishaps /\ mishaps' = mishaps + 1

\* Some transaction has inserted u and has not ended.
Held(u) == \E c \in Copy : Handles(c, u) /\ At(c, "begun")

Init ==
    /\ telegram = [u \in Update |-> "pending"]
    /\ ledger = {}
    /\ handler = [c \in Copy |-> Free]
    /\ applied = [u \in Update |-> 0]
    /\ replied = [u \in Update |-> 0]
    /\ mishaps = 0

-----------------------------------------------------------------------------
(* Telegram *)

Deliver(u, c) ==
    /\ telegram[u] = "pending"
    /\ handler[c] = Free
    /\ handler' = [handler EXCEPT ![c] = [update |-> u, stage |-> "received"]]
    /\ UNCHANGED <<telegram, ledger, applied, replied, mishaps>>

\* Telegram keeps an undelivered update for a day.
GiveUp(u) ==
    /\ telegram[u] = "pending"
    /\ telegram' = [telegram EXCEPT ![u] = "dropped"]
    /\ UNCHANGED <<ledger, handler, applied, replied, mishaps>>

-----------------------------------------------------------------------------
(* TelegramUpdateHandler.handle *)

Ignore(c) ==
    /\ At(c, "received")
    /\ handler[c].update \in Ignorable
    /\ GoTo(c, "answering")
    /\ UNCHANGED <<telegram, ledger, applied, replied, mishaps>>

\* Mutant of AfterDuplicate: the conflict is an error.
DuplicateFails == "failing"

\* A known id: roll back and return, with nothing to send.
AfterDuplicate == "answering"

\* INSERT ... ON CONFLICT DO NOTHING, and what the handler makes of the answer.
Begin(c) ==
    /\ At(c, "received")
    /\ handler[c].update \notin Ignorable
    /\ ~Held(handler[c].update)
    /\ GoTo(c, IF handler[c].update \in ledger THEN AfterDuplicate ELSE "begun")
    /\ UNCHANGED <<telegram, ledger, applied, replied, mishaps>>

\* The first commit of the transaction that holds the id makes the id and all
\* work done so far durable.
Record(u) ==
    /\ ledger' = ledger \cup {u}
    /\ applied' = [applied EXCEPT ![u] = @ + 1]

CommitEarly(c) ==
    /\ At(c, "begun")
    /\ handler[c].update \in EarlyCommit
    /\ Record(handler[c].update)
    /\ GoTo(c, "early")
    /\ UNCHANGED <<telegram, replied, mishaps>>

Commit(c) ==
    /\ \/ At(c, "begun") /\ Record(handler[c].update)
       \/ At(c, "early") /\ UNCHANGED <<ledger, applied>>
    /\ GoTo(c, "replying")
    /\ UNCHANGED <<telegram, replied, mishaps>>

\* An exception before the last commit: roll back, propagate.
Fail(c) ==
    /\ At(c, "received") \/ At(c, "begun") \/ At(c, "early")
    /\ GoTo(c, IF At(c, "early") THEN "failing_late" ELSE "failing")
    /\ Mishap
    /\ UNCHANGED <<telegram, ledger, applied, replied>>

\* The replies go out after the commit; one that fails is logged and forgotten.
Reply(c) ==
    /\ At(c, "replying")
    /\ replied' = [replied EXCEPT ![handler[c].update] = @ + 1]
    /\ GoTo(c, "answering")
    /\ UNCHANGED <<telegram, ledger, applied, mishaps>>

ReplyFails(c) ==
    /\ At(c, "replying")
    /\ GoTo(c, "answering")
    /\ Mishap
    /\ UNCHANGED <<telegram, ledger, applied, replied>>

-----------------------------------------------------------------------------
(* The HTTP answer *)

Succeeded(stage) == stage = "answering"

\* Mutant of Respond: a late 500 reopens an update that another copy settled.
RespondReopens(c) ==
    /\ \E stage \in {"answering", "failing", "failing_late"} : At(c, stage)
    /\ telegram' = [telegram EXCEPT ![handler[c].update] =
                        IF Succeeded(handler[c].stage) THEN "acked" ELSE "pending"]
    /\ handler' = [handler EXCEPT ![c] = Free]
    /\ UNCHANGED <<ledger, applied, replied, mishaps>>

Respond(c) ==
    /\ \E stage \in {"answering", "failing", "failing_late"} : At(c, stage)
    /\ telegram' = IF Succeeded(handler[c].stage) /\ telegram[handler[c].update] = "pending"
                   THEN [telegram EXCEPT ![handler[c].update] = "acked"]
                   ELSE telegram
    /\ handler' = [handler EXCEPT ![c] = Free]
    /\ UNCHANGED <<ledger, applied, replied, mishaps>>

\* The process dies, or its answer does not arrive.  PostgreSQL rolls back
\* what was not committed.
Crash(c) ==
    /\ handler[c] # Free
    /\ handler' = [handler EXCEPT ![c] = Free]
    /\ Mishap
    /\ UNCHANGED <<telegram, ledger, applied, replied>>

-----------------------------------------------------------------------------
(* Retention *)

\* PROCESSED_UPDATE_RETENTION is seven days; Telegram stops redelivering after
\* one, and no request lasts for hours.
Outlived(u) == telegram[u] # "pending" /\ \A c \in Copy : ~Handles(c, u)

Forget(u) ==
    /\ u \in ledger /\ Outlived(u)
    /\ ledger' = ledger \ {u}
    /\ UNCHANGED <<telegram, handler, applied, replied, mishaps>>

-----------------------------------------------------------------------------
Step(c) == Ignore(c) \/ Begin(c) \/ CommitEarly(c) \/ Commit(c) \/ Reply(c) \/ Respond(c)

Next ==
    \/ \E u \in Update, c \in Copy : Deliver(u, c)
    \/ \E u \in Update : GiveUp(u) \/ Forget(u)
    \/ \E c \in Copy : Step(c) \/ Fail(c) \/ ReplyFails(c) \/ Crash(c)

Spec == Init /\ [][Next]_vars

\* A request that was received is handled to its end, and Telegram repeats
\* what it has no answer for.  Nothing is owed by GiveUp and Forget.
FairSpec ==
    /\ Spec
    /\ \A c \in Copy : WF_vars(Step(c))
    /\ \A u \in Update : WF_vars(\E c \in Copy : Deliver(u, c))

-----------------------------------------------------------------------------
(* Properties *)

\* The work of an update is committed at most once, for every pattern of
\* redelivery, concurrent copies, failures, crashes and retention
\* (telegram_client_design.md, T4).
AppliedOnce == \A u \in Update : applied[u] <= 1

\* An update Telegram was told to forget has had its work committed: no
\* answer of 200 ever covers a failure (webhook).
AckedMeansApplied ==
    \A u \in Update \ Ignorable : telegram[u] = "acked" => applied[u] = 1

\* The user is answered at most once and only for committed work (module
\* docstring of handler.py: replies are sent only after the commit).
RepliesFollowCommit == \A u \in Update : replied[u] <= 1 /\ replied[u] <= applied[u]

\* The handler, its ledger and the retention job implement the contract.
Contract == INSTANCE UpdateContract WITH
    acked <- {u \in Update : telegram[u] = "acked"}

ImplementsContract == Contract!Spec

\* When mishaps end, Telegram's redelivery ends too: every update is
\* acknowledged, unless Telegram gives it up before.
EveryUpdateSettles == \A u \in Update : telegram[u] = "pending" ~> telegram[u] # "pending"

-----------------------------------------------------------------------------
(* What the documents say and the code does not keep *)

\* The webhook's docstring: an unexpected failure while handling propagates
\* as 500 with nothing committed, so Telegram's redelivery retries it.
FailureCommitsNothing == \A c \in Copy : ~At(c, "failing_late")
=============================================================================
