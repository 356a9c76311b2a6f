---------------------------- MODULE WebRequests ----------------------------
(***************************************************************************)
(* The row locks that Web requests hold while they wait for the network.   *)
(*                                                                         *)
(* authenticate() reads the session and the user FOR SHARE, and the        *)
(* transaction stays open until the handler commits or the request ends:   *)
(* while the body of a form arrives, and for a page until its response is  *)
(* sent.  A change of preferences, a deletion of the account and a new     *)
(* sign-in need the user's row for themselves, and signing out needs the   *)
(* session's row.                                                          *)
(*                                                                         *)
(* Handlers are coroutines of one event loop per server process, and their *)
(* database calls are synchronous: a call that waits for a row keeps its   *)
(* loop, and nothing else on that loop goes on.  No lock_timeout is set.   *)
(* PostgreSQL ends a wait only when transactions wait for one another.     *)
(*                                                                         *)
(* A row is written and committed without an await in between, so writing  *)
(* is one step.  What handlers do to other rows is in other modules.       *)
(***************************************************************************)
EXTENDS Naturals, FiniteSets

CONSTANTS Account, Session, Request, Process,
          Owner,     \* Owner[s]: the account of session s
          Value,     \* values of a preference
          Default,   \* the preferences of a new account
          NoRequest, NoAccount

ASSUME OwnerAssumption == Owner \in [Session -> Account]
ASSUME NoRequestAssumption == NoRequest \notin Request

VARIABLES
    accounts,  \* accounts[a]: the preferences of a, NoAccount once it is deleted
    sessions,  \* web_sessions
    requests,
    loop,      \* loop[p]: the request whose database call p runs
    stored     \* stored[a]: per preference, what the last request to submit it stored

vars == <<accounts, sessions, requests, loop, stored>>

\* `timezone' stands for everything that only the form of the settings page changes.
Field == {"language", "timezone"}
Preferences == [Field -> Value]

ASSUME DefaultAssumption == Default \in Preferences
ASSUME NoAccountAssumption == NoAccount \notin Preferences

\* What a request asks for.  An edit awaits its body and then writes other rows than
\* these; a page holds its rows in the same way while its response is sent.
Kinds == {"edit", "save_preferences", "change_language", "delete_account", "sign_in", "logout"}

\* The preferences a request of this kind submits.
Submits(kind) == CASE kind = "save_preferences" -> Field
                   [] kind = "change_language"  -> {"language"}
                   [] OTHER                     -> {}

Wish == [{} -> Value] \cup [{"language"} -> Value] \cup [Field -> Value]

Stage == {"new", "authenticates", "awaits", "reads", "writes", "ended"}

\* A request, the process that serves it, and the user as its handler read it.
RequestType == [kind : Kinds, session : Session, process : Process, wish : Wish,
                stage : Stage \ {"new", "ended"}, read : Preferences \cup {NoAccount}]
New == [stage |-> "new"]
Ended == [stage |-> "ended"]

TypeOK ==
    /\ accounts \in [Account -> Preferences \cup {NoAccount}]
    /\ sessions \in [Session -> {"unissued", "open", "ended"}]
    /\ requests \in [Request -> RequestType \cup {New, Ended}]
    /\ loop \in [Process -> Request \cup {NoRequest}]
    /\ stored \in [Account -> Preferences \cup {NoAccount}]

AccountOf(r) == Owner[requests[r].session]

\* Signing in needs no session, and signing out reads none: it resolves the
\* secret whatever became of the session.
Authenticates(kind) == kind \notin {"sign_in", "logout"}

IsValid(s) == sessions[s] = "open" /\ accounts[Owner[s]] # NoAccount

\* Mutant of Sharing: the session is read without a lock.
NeverSharing(r) == FALSE

\* The transactions that hold the rows of the session and of its user FOR SHARE.
Sharing(r) == /\ requests[r].stage \in {"awaits", "reads", "writes"}
              /\ Authenticates(requests[r].kind)

\* Mutant of SessionFree: FOR SHARE OF users only.
SessionAlwaysFree(s, me) == TRUE

\* Mutant of UserFree: the row is written on a connection of its own.
UserFreeOfAll(a, me) == \A r \in Request : Sharing(r) => AccountOf(r) # a

SessionFree(s, me) == \A r \in Request \ {me} : Sharing(r) => requests[r].session # s
UserFree(a, me) == \A r \in Request \ {me} : Sharing(r) => AccountOf(r) # a

Init ==
    /\ accounts = [a \in Account |-> Default]
    /\ sessions \in [Session -> {"unissued", "open"}]
    /\ requests = [r \in Request |-> New]
    /\ loop = [p \in Process |-> NoRequest]
    /\ stored = accounts

-----------------------------------------------------------------------------
(* The steps of a request.                                                 *)

LoopFree(r) == loop[requests[r].process] = NoRequest

\* r goes on to `stage' and its loop runs whatever is ready.
Yields(r, stage) ==
    /\ requests' = [requests EXCEPT ![r].stage = stage]
    /\ loop' = [loop EXCEPT ![requests[r].process] = NoRequest]

\* r goes on to `stage' in a database call.
Calls(r, stage) ==
    /\ requests' = [requests EXCEPT ![r].stage = stage]
    /\ loop' = [loop EXCEPT ![requests[r].process] = r]

Ends(r) ==
    /\ requests' = [requests EXCEPT ![r] = Ended]
    /\ loop' = [loop EXCEPT ![requests[r].process] = NoRequest]

\* A sign-in awaits its form first, and signing out has no body to await.
FirstStage(kind) == CASE kind = "sign_in" -> "awaits"
                      [] kind = "logout"  -> "writes"
                      [] OTHER            -> "authenticates"

Arrive(r, p, kind, s, wish) ==
    /\ requests[r] = New
    /\ loop[p] = NoRequest
    /\ DOMAIN wish = Submits(kind)
    /\ requests' = [requests EXCEPT ![r] = [kind |-> kind, session |-> s, process |-> p,
                                            wish |-> wish, stage |-> FirstStage(kind),
                                            read |-> NoAccount]]
    /\ loop' = IF kind = "sign_in" THEN loop ELSE [loop EXCEPT ![p] = r]
    /\ UNCHANGED <<accounts, sessions, stored>>

\* SELECT ... FOR SHARE; no one else's lock on the rows outlasts a step.
Authenticate(r) ==
    /\ requests[r].stage = "authenticates"
    /\ IF IsValid(requests[r].session) THEN Yields(r, "awaits") ELSE Ends(r)
    /\ UNCHANGED <<accounts, sessions, stored>>

\* The rest of the body is here, or the page's response is out.
NetworkDone(r) ==
    LET kind == requests[r].kind IN
    /\ requests[r].stage = "awaits"
    /\ LoopFree(r)
    /\ \/ kind = "edit" /\ Ends(r)
       \/ kind \in {"save_preferences", "change_language"} /\ Calls(r, "reads")
       \/ kind \in {"delete_account", "sign_in"} /\ Calls(r, "writes")
    /\ UNCHANGED <<accounts, sessions, stored>>

\* The client disconnects, or its form or the address it typed is refused.
Refuse(r) ==
    /\ requests[r].stage = "awaits"
    /\ LoopFree(r)
    /\ Ends(r)
    /\ UNCHANGED <<accounts, sessions, stored>>

\* User.update_preferences: what is not submitted keeps its value.
Merged(prefs, wish) == [f \in Field |-> IF f \in DOMAIN wish THEN wish[f] ELSE prefs[f]]

\* The user is read, and written only when something changes.
ReadPreferences(r) ==
    LET a == AccountOf(r)
        wish == requests[r].wish IN
    /\ requests[r].stage = "reads"
    /\ \/ /\ accounts[a] # NoAccount
          /\ Merged(accounts[a], wish) # accounts[a]
          /\ requests' = [requests EXCEPT ![r] = [@ EXCEPT !.stage = "writes",
                                                           !.read = accounts[a]]]
          /\ UNCHANGED <<loop, stored>>
       \/ /\ accounts[a] # NoAccount
          /\ Merged(accounts[a], wish) = accounts[a]
          /\ stored' = [stored EXCEPT ![a] = Merged(@, wish)]
          /\ Ends(r)
       \/ /\ accounts[a] = NoAccount
          /\ Ends(r)
          /\ UNCHANGED stored
    /\ UNCHANGED <<accounts, sessions>>

\* All columns are written, the ones that were only read included.
WritePreferences(r) ==
    LET a == AccountOf(r)
        wish == requests[r].wish IN
    /\ requests[r].stage = "writes"
    /\ requests[r].kind \in {"save_preferences", "change_language"}
    /\ UserFree(a, r)
    /\ IF accounts[a] = NoAccount
       THEN UNCHANGED <<accounts, stored>>
       ELSE /\ accounts' = [accounts EXCEPT ![a] = Merged(requests[r].read, wish)]
            /\ stored' = [stored EXCEPT ![a] = Merged(@, wish)]
    /\ Ends(r)
    /\ UNCHANGED <<sessions>>

\* A second deletion waits for the first and then finds no user.
DeleteAccount(r) ==
    LET a == AccountOf(r) IN
    /\ requests[r].stage = "writes"
    /\ requests[r].kind = "delete_account"
    /\ UserFree(a, r)
    /\ accounts' = [accounts EXCEPT ![a] = NoAccount]
    /\ stored' = [stored EXCEPT ![a] = NoAccount]
    /\ sessions' = [s \in Session |-> IF Owner[s] = a THEN "ended" ELSE sessions[s]]
    /\ Ends(r)

\* The user is read for update.  If there is none the address gets a new
\* account, which is none of these.
SignIn(r) ==
    LET s == requests[r].session IN
    /\ requests[r].stage = "writes"
    /\ requests[r].kind = "sign_in"
    /\ UserFree(Owner[s], r)
    /\ sessions' = IF sessions[s] = "unissued" /\ accounts[Owner[s]] # NoAccount
                   THEN [sessions EXCEPT ![s] = "open"] ELSE sessions
    /\ Ends(r)
    /\ UNCHANGED <<accounts, stored>>

Logout(r) ==
    LET s == requests[r].session IN
    /\ requests[r].stage = "writes"
    /\ requests[r].kind = "logout"
    /\ SessionFree(s, r)
    /\ sessions' = IF sessions[s] = "open" THEN [sessions EXCEPT ![s] = "ended"] ELSE sessions
    /\ Ends(r)
    /\ UNCHANGED <<accounts, stored>>

\* r and another writer both share the user's row and wait for each other;
\* PostgreSQL aborts one, whose handler fails.
Deadlocked(r) ==
    /\ Sharing(r) /\ requests[r].stage = "writes"
    /\ \E q \in Request \ {r} : Sharing(q) /\ requests[q].stage = "writes"
                                           /\ AccountOf(q) = AccountOf(r)

BreakDeadlock(r) ==
    /\ Deadlocked(r)
    /\ Ends(r)
    /\ UNCHANGED <<accounts, sessions, stored>>

Begun(r) == requests[r] \notin {New, Ended}
ServedBy(r, p) == Begun(r) /\ requests[r].process = p

\* A process ends and is started again: its connections are closed.
Crash(p) ==
    /\ \E r \in Request : ServedBy(r, p)
    /\ requests' = [r \in Request |-> IF ServedBy(r, p) THEN Ended ELSE requests[r]]
    /\ loop' = [loop EXCEPT ![p] = NoRequest]
    /\ UNCHANGED <<accounts, sessions, stored>>

Step(r) == \/ Authenticate(r) \/ NetworkDone(r) \/ ReadPreferences(r) \/ WritePreferences(r)
           \/ DeleteAccount(r) \/ SignIn(r) \/ Logout(r) \/ BreakDeadlock(r)

Next == \/ \E r \in Request :
            \/ \E p \in Process, kind \in Kinds, s \in Session, wish \in Wish :
                  Arrive(r, p, kind, s, wish)
            \/ Step(r) \/ Refuse(r)
        \/ \E p \in Process : Crash(p)

Spec == Init /\ [][Next]_vars

\* Bodies arrive and responses leave, or the connection breaks; database calls
\* return when their rows are free.
FairSpec == Spec /\ \A r \in Request : WF_vars(Step(r) \/ Refuse(r))

-----------------------------------------------------------------------------
(* Properties.                                                             *)

\* However saves, language switches and deletions interleave, each preference is what the
\* last request that submitted it stored: none is put back by a request that read the
\* user before and submitted something else (update_preferences writes every column).
NoPreferenceLost == accounts = stored

\* What a request writes in an account's name, it writes while its session is open: a
\* sign-out or a deletion that was answered is not followed by a write of a request that
\* authenticated before it (authenticate() ... FOR SHARE).
WritesInOpenSession ==
    [][\A a \in Account : accounts'[a] # accounts[a] =>
        \E r \in Request : /\ Begun(r) /\ AccountOf(r) = a
                           /\ sessions[requests[r].session] = "open"
                           /\ requests'[r] = Ended]_vars

\* Whatever rows a request waits for, it ends, as long as no two requests share a loop:
\* waits across processes end or are seen by PostgreSQL.
Apart == \A q, r \in Request : Begun(q) /\ Begun(r) /\ q # r
                               => requests[q].process # requests[r].process
RequestsEndApart == \A r \in Request : []Apart => (Begun(r) ~> requests[r] = Ended)

\* docs/account_deletion_design.md: "Concurrent requests from the same account, such as a
\* receipt being processed or an edit on another device, either finish before it or find
\* the user gone."
RequestsEnd == \A r \in Request : Begun(r) ~> requests[r] = Ended
=============================================================================
