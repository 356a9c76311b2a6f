-------------------------- MODULE TelegramLinking --------------------------
(***************************************************************************)
(* Linking an account to a Telegram user.  A Web session issues a          *)
(* challenge, whoever opens its link in Telegram claims it, the same       *)
(* session confirms it; unlinking and deleting the account end the         *)
(* connection.                                                             *)
(*                                                                         *)
(* A Web request is two steps: authenticate() reads the session and locks  *)
(* its row and the user's FOR SHARE, and the endpoint does its work in the *)
(* same transaction, later, when other requests, the bot or the retention  *)
(* job may have come between.  The bot handles an update without awaiting  *)
(* on the one event loop, so an update is one step; the receipt worker is  *)
(* another process and locks the conversation in two statements.           *)
(*                                                                         *)
(* The claim and the confirmation are single statements or hold the        *)
(* challenge's row, so each is one step, at its commit.                    *)
(***************************************************************************)
EXTENDS FiniteSets

CONSTANTS Account,
          Person,       \* verified Telegram user ids
          NoPerson,
          Session, NoSession,
          Owner,        \* the account a Web session signs in
          Challenge,
          Request       \* Web requests in progress at a time

ASSUME OwnerAssumption == Owner \in [Session -> Account]
ASSUME NoPersonAssumption == NoPerson \notin Person
ASSUME NoSessionAssumption == NoSession \notin Session

VARIABLES
    deleted,        \* accounts that were deleted
    sessions,       \* web_sessions
    challenges,     \* telegram_link_challenges
    connections,    \* telegram_connections
    conversations,  \* telegram_conversations: see ConversationRow
    requests,       \* the session each Web request authenticated with
    worker          \* the receipt worker of each account and its conversation: see WorkerStage

vars == <<deleted, sessions, challenges, connections, conversations, requests, worker>>

SessionState == {"unused", "open", "expired", "revoked", "gone"}

Unissued == [stage |-> "unissued"]

\* lapsed: expires_at is past.  kept: the row is still in the table; what it
\* said stays here as history.
ChallengeRow == [stage   : {"waiting", "claimed", "confirmed"},
                 session : Session,
                 person  : Person \cup {NoPerson},
                 lapsed  : BOOLEAN,
                 kept    : BOOLEAN]

Connection == [account : Account, person : Person, challenge : Challenge, active : BOOLEAN]

\* No row; a row without a draft; one with an active draft of which nothing is
\* asked, or something is.
ConversationRow == {"none", "idle", "active", "asking"}

\* found: the row was there when it was to be inserted.  The others hold a row
\* and remember what it said: one just inserted, one without a draft, one with.
WorkerStage == {"idle", "found", "inserted", "blank", "drafting"}

TypeOK ==
    /\ deleted \subseteq Account
    /\ sessions \in [Session -> SessionState]
    /\ challenges \in [Challenge -> ChallengeRow \cup {Unissued}]
    /\ connections \subseteq Connection
    /\ conversations \in [Account -> ConversationRow]
    /\ requests \in [Request -> Session \cup {NoSession}]
    /\ worker \in [Account -> WorkerStage]

Init ==
    /\ deleted = {}
    /\ sessions = [s \in Session |-> "unused"]
    /\ challenges = [c \in Challenge |-> Unissued]
    /\ connections = {}
    /\ conversations = [a \in Account |-> "none"]
    /\ requests = [r \in Request |-> NoSession]
    /\ worker = [a \in Account |-> "idle"]

-----------------------------------------------------------------------------
Connected(a) == \E k \in connections : k.active /\ k.account = a
Reachable(p) == \E k \in connections : k.active /\ k.person = p

\* Mutant of IndexesAllow: no index on telegram_user_id.
AccountIndexAllows(a, p) == ~Connected(a)

\* The two partial unique indexes.
IndexesAllow(a, p) == ~Connected(a) /\ ~Reachable(p)

\* Mutant of SharesSession: authenticate() reads without a lock.
NeverShares(s) == FALSE

\* FOR SHARE of a request in progress: the rows it locks cannot be changed.
SharesSession(s) == \E r \in Request : requests[r] = s
Sharers(a) == {r \in Request : requests[r] # NoSession /\ Owner[requests[r]] = a}

\* A worker that found the row or inserted it holds it until it commits; a row
\* it inserted nobody else sees, but nobody else inserts one either.
Holding(a) == worker[a] \in {"inserted", "blank", "drafting"}

\* Mutant of ConversationLocked: lock() only selects.
NeverLocked(a) == FALSE

ConversationLocked(a) == worker[a] \in {"blank", "drafting"}

-----------------------------------------------------------------------------
\* Sessions.

\* Consuming a magic link locks the user's row for update.
SignIn(s) ==
    /\ sessions[s] = "unused"
    /\ Owner[s] \notin deleted
    /\ Sharers(Owner[s]) = {}
    /\ sessions' = [sessions EXCEPT ![s] = "open"]
    /\ UNCHANGED <<deleted, challenges, connections, conversations, requests, worker>>

IsValid(s) == sessions[s] = "open" /\ Owner[s] \notin deleted

Authenticate(r, s) ==
    /\ requests[r] = NoSession
    /\ IsValid(s)
    /\ requests' = [requests EXCEPT ![r] = s]
    /\ UNCHANGED <<deleted, sessions, challenges, connections, conversations, worker>>

\* A refusal, another endpoint or a failure: the transaction and its locks end.
EndRequest(r) ==
    /\ requests[r] # NoSession
    /\ requests' = [requests EXCEPT ![r] = NoSession]
    /\ UNCHANGED <<deleted, sessions, challenges, connections, conversations, worker>>

\* Logout does not authenticate; its update waits for the session's row.
SignOut(s) ==
    /\ sessions[s] \in {"open", "expired"}
    /\ ~SharesSession(s)
    /\ sessions' = [sessions EXCEPT ![s] = "revoked"]
    /\ UNCHANGED <<deleted, challenges, connections, conversations, requests, worker>>

ExpireSession(s) ==
    /\ sessions[s] = "open"
    /\ sessions' = [sessions EXCEPT ![s] = "expired"]
    /\ UNCHANGED <<deleted, challenges, connections, conversations, requests, worker>>

-----------------------------------------------------------------------------
\* The ceremony.

Issue(r, c) ==
    /\ requests[r] # NoSession
    /\ challenges[c] = Unissued
    /\ sessions[requests[r]] # "gone"
    /\ challenges' = [challenges EXCEPT ![c] =
           [stage |-> "waiting", session |-> requests[r], person |-> NoPerson,
            lapsed |-> FALSE, kept |-> TRUE]]
    /\ requests' = [requests EXCEPT ![r] = NoSession]
    /\ UNCHANGED <<deleted, sessions, connections, conversations, worker>>

\* Mutant of IsClaimable: a claimed or confirmed challenge is claimed again.
IsClaimableAgain(c) ==
    /\ challenges[c] # Unissued
    /\ challenges[c].kept /\ ~challenges[c].lapsed
    /\ Owner[challenges[c].session] \notin deleted

\* A challenge that may be claimed: one conditional update.
IsClaimable(c) ==
    /\ challenges[c] # Unissued
    /\ challenges[c].stage = "waiting"
    /\ challenges[c].kept /\ ~challenges[c].lapsed
    /\ Owner[challenges[c].session] \notin deleted

Claim(c, p) ==
    /\ IsClaimable(c)
    /\ ~Reachable(p)
    /\ challenges' = [challenges EXCEPT ![c].stage = "claimed", ![c].person = p]
    /\ UNCHANGED <<deleted, sessions, connections, conversations, requests, worker>>

\* A challenge the session may confirm.
IsConfirmable(c, s) ==
    /\ challenges[c] # Unissued
    /\ challenges[c].session = s
    /\ challenges[c].stage = "claimed"
    /\ challenges[c].kept /\ ~challenges[c].lapsed
    /\ IsValid(s)

Confirm(r, c) ==
    LET a == Owner[requests[r]]
        p == challenges[c].person
    IN  /\ requests[r] # NoSession
        /\ IsConfirmable(c, requests[r])
        /\ IndexesAllow(a, p)
        /\ connections' = connections \cup
               {[account |-> a, person |-> p, challenge |-> c, active |-> TRUE]}
        /\ challenges' = [challenges EXCEPT ![c].stage = "confirmed"]
        /\ requests' = [requests EXCEPT ![r] = NoSession]
        /\ UNCHANGED <<deleted, sessions, conversations, worker>>

\* expires_at passes, five minutes after the challenge was issued.
Lapse(c) ==
    /\ challenges[c] # Unissued
    /\ challenges[c].kept /\ ~challenges[c].lapsed
    /\ challenges' = [challenges EXCEPT ![c].lapsed = TRUE]
    /\ UNCHANGED <<deleted, sessions, connections, conversations, requests, worker>>

\* The account's active connection ends, and its conversation is deleted.
Unlinked(k, a) == [k EXCEPT !.active = k.active /\ k.account # a]

Unlink(r) ==
    LET a == Owner[requests[r]]
    IN  /\ requests[r] # NoSession
        /\ Connected(a)
        /\ ~ConversationLocked(a)
        /\ connections' = {Unlinked(k, a) : k \in connections}
        /\ conversations' = [conversations EXCEPT ![a] = "none"]
        /\ requests' = [requests EXCEPT ![r] = NoSession]
        /\ UNCHANGED <<deleted, sessions, challenges, worker>>

-----------------------------------------------------------------------------
\* Account deletion.  It locks the user's row, so it waits for every other
\* request of the account, and deletes the receipts, so it waits for the worker.

WithoutAccount(a) ==
    [c \in Challenge |->
        IF challenges[c] # Unissued /\ Owner[challenges[c].session] = a
        THEN [challenges[c] EXCEPT !.kept = FALSE] ELSE challenges[c]]

DeleteAccount(r) ==
    LET a == Owner[requests[r]]
    IN  /\ requests[r] # NoSession
        /\ a \notin deleted
        /\ Sharers(a) = {r}
        /\ worker[a] = "idle"
        /\ deleted' = deleted \cup {a}
        /\ sessions' = [s \in Session |-> IF Owner[s] = a THEN "gone" ELSE sessions[s]]
        /\ challenges' = WithoutAccount(a)
        /\ connections' = {k \in connections : k.account # a}
        /\ conversations' = [conversations EXCEPT ![a] = "none"]
        /\ requests' = [requests EXCEPT ![r] = NoSession]
        /\ UNCHANGED worker

-----------------------------------------------------------------------------
\* The bot and the receipt worker.

\* An update of a linked Telegram user, after which there is an active draft or
\* none, and a question about it or none.
BotActs(p) ==
    \E k \in connections, after \in ConversationRow \ {"none"} :
        /\ k.active /\ k.person = p
        /\ k.account \notin deleted
        /\ ~Holding(k.account)
        /\ conversations' = [conversations EXCEPT ![k.account] = after]
        /\ UNCHANGED <<deleted, sessions, challenges, connections, requests, worker>>

\* lock(), first statement: insert the row unless there is one.
WorkerInserts(a) ==
    /\ worker[a] = "idle" /\ a \notin deleted
    /\ worker' = [worker EXCEPT ![a] = IF conversations[a] = "none" THEN "inserted" ELSE "found"]
    /\ UNCHANGED <<deleted, sessions, challenges, connections, conversations, requests>>

HasDraft(row) == row \in {"active", "asking"}

\* lock(), second statement: select it for update.  Without a row it raises.
WorkerSelects(a) ==
    /\ worker[a] = "found"
    /\ worker' = [worker EXCEPT ![a] = IF conversations[a] = "none" THEN "idle"
                                       ELSE IF HasDraft(conversations[a]) THEN "drafting"
                                       ELSE "blank"]
    /\ UNCHANGED <<deleted, sessions, challenges, connections, conversations, requests>>

\* The attempt did not end the active draft's waiting or answer its question:
\* the row stays as it is, or begins without a draft.
WorkerCommits(a) ==
    /\ Holding(a)
    /\ conversations' = [conversations EXCEPT ![a] = IF @ = "none" /\ worker[a] = "inserted"
                                                     THEN "idle" ELSE @]
    /\ worker' = [worker EXCEPT ![a] = "idle"]
    /\ UNCHANGED <<deleted, sessions, challenges, connections, requests>>

\* The receipt was the active draft's: the row is saved, inserted if need be,
\* with the question for the amount, with the next one, or with none.
WorkerAsks(a) ==
    /\ worker[a] = "drafting"
    /\ \E after \in {"active", "asking"} : conversations' = [conversations EXCEPT ![a] = after]
    /\ worker' = [worker EXCEPT ![a] = "idle"]
    /\ UNCHANGED <<deleted, sessions, challenges, connections, requests>>

WorkerFails(a) ==
    /\ worker[a] # "idle"
    /\ worker' = [worker EXCEPT ![a] = "idle"]
    /\ UNCHANGED <<deleted, sessions, challenges, connections, conversations, requests>>

-----------------------------------------------------------------------------
\* The retention jobs, 30 days later.

IsFinished(c) == challenges[c] = Unissued \/ challenges[c].stage = "confirmed" \/ challenges[c].lapsed

ForgetChallenge(c) ==
    /\ challenges[c] # Unissued
    /\ IsFinished(c)
    /\ challenges[c].kept
    /\ challenges' = [challenges EXCEPT ![c].kept = FALSE]
    /\ UNCHANGED <<deleted, sessions, connections, conversations, requests, worker>>

ForgetConnection(k) ==
    /\ ~k.active
    /\ connections' = connections \ {k}
    /\ UNCHANGED <<deleted, sessions, challenges, conversations, requests, worker>>

\* A session that is over takes its challenges along; they lapsed long ago.
OfSession(c, s) == challenges[c] # Unissued /\ challenges[c].session = s

ForgetSession(s) ==
    /\ sessions[s] \in {"revoked", "expired"}
    /\ ~SharesSession(s)
    /\ \A c \in Challenge : OfSession(c, s) => IsFinished(c)
    /\ sessions' = [sessions EXCEPT ![s] = "gone"]
    /\ challenges' = [c \in Challenge |->
           IF OfSession(c, s) THEN [challenges[c] EXCEPT !.kept = FALSE] ELSE challenges[c]]
    /\ UNCHANGED <<deleted, connections, conversations, requests, worker>>

-----------------------------------------------------------------------------
WebStep ==
    \E r \in Request :
        \/ \E s \in Session : Authenticate(r, s)
        \/ \E c \in Challenge : Issue(r, c) \/ Confirm(r, c)
        \/ Unlink(r) \/ DeleteAccount(r) \/ EndRequest(r)

SessionStep == \E s \in Session : SignIn(s) \/ SignOut(s) \/ ExpireSession(s) \/ ForgetSession(s)

ChallengeStep ==
    \E c \in Challenge : Lapse(c) \/ ForgetChallenge(c) \/ \E p \in Person : Claim(c, p)

WorkerStep ==
    \E a \in Account :
        \/ WorkerInserts(a) \/ WorkerSelects(a)
        \/ WorkerCommits(a) \/ WorkerAsks(a) \/ WorkerFails(a)

Next ==
    \/ WebStep
    \/ SessionStep
    \/ ChallengeStep
    \/ WorkerStep
    \/ \E p \in Person : BotActs(p)
    \/ \E k \in connections : ForgetConnection(k)

Spec == Init /\ [][Next]_vars

-----------------------------------------------------------------------------
(* Every connection came from a challenge of its own that this Telegram user *)
(* claimed and a session of this account confirmed, and stays true to it:    *)
(* claim and confirm are conditional updates of one row.                     *)
ConnectionsAreConsented ==
    /\ \A k \in connections :
           /\ challenges[k.challenge] # Unissued
           /\ challenges[k.challenge].stage = "confirmed"
           /\ challenges[k.challenge].person = k.person
           /\ Owner[challenges[k.challenge].session] = k.account
    /\ \A k, l \in connections : k.challenge = l.challenge => k = l

(* The draft the bot works on and the question it left open go with the      *)
(* connection: when the account is linked again, perhaps to another Telegram *)
(* user, it is not answered.  Unlinking deletes the conversation, and the    *)
(* worker, which saves the row with a question of its own, holds its lock    *)
(* from before it reads the row until it commits.                            *)
UnlinkedAsksNothing == \A a \in Account : HasDraft(conversations[a]) => Connected(a)

NotSignedOut(s) == sessions[s] \in {"open", "expired"}

(* Once a session is signed out nothing is done in its name, although        *)
(* neither issuing nor unlinking looks at the session again: authenticate()  *)
(* keeps its row locked until the request's one commit.  A confirmation also *)
(* needs a session that has not expired meanwhile.                           *)
SignedOutDoesNothing ==
    [][/\ \A c \in Challenge :
              challenges[c] = Unissued /\ challenges'[c] # Unissued
                  => NotSignedOut(challenges'[c].session)
       /\ \A k \in connections' \ connections :
              k.active => sessions[challenges[k.challenge].session] = "open"
       /\ \A k \in connections \ connections' :
              k.active => \E s \in Session : Owner[s] = k.account /\ NotSignedOut(s)]_vars

Links == {<<k.account, k.person>> : k \in {j \in connections : j.active}}

Contract == INSTANCE LinkContract WITH links <- Links

(* Linking keeps the promise of LinkContract: one to one and no transfer.    *)
ImplementsContract == Contract!Spec
=============================================================================
