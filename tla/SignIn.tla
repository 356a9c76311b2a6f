------------------------------- MODULE SignIn -------------------------------
(***************************************************************************)
(* Signing in with a link sent by e-mail, and what ends an account:        *)
(* deletion, its tombstone, and a restored backup.                         *)
(*                                                                         *)
(* A request for a link reserves a place in two fixed windows, one after   *)
(* the other and each in a commit of its own, stores the link and sends    *)
(* the mail.  Using a link is one transaction: the conditional update of   *)
(* the link's row, an advisory lock on the address, the read of the user   *)
(* for update, and the new user, if there was none, with the session.      *)
(* Deleting an account locks the user first and the links of its address   *)
(* later, the other way round, and PostgreSQL ends the deadlock.           *)
(*                                                                         *)
(* All requests come from one network address.  Audit records, cookies and *)
(* the texts of the answers are left out, and so are submissions that are  *)
(* refused before they reach a row.                                        *)
(***************************************************************************)
EXTENDS Naturals, FiniteSets

CONSTANTS Email,        \* canonical addresses
          User,         \* user ids; each is used once
          Link,         \* login challenges; one that a restore lost may stand for a new one
          Ask,          \* requests for a link that may run at the same time
          Visit,        \* uses of a link that may run at the same time
          AddressLimit, \* EMAIL_DELIVERY_LIMIT
          NetworkLimit, \* NETWORK_REQUEST_LIMIT
          MaxWindow,    \* bounds the time
          NoEmail, NoUser, NoLink

ASSUME NoEmailAssumption == NoEmail \notin Email
ASSUME NoUserAssumption == NoUser \notin User
ASSUME NoLinkAssumption == NoLink \notin Link
ASSUME AskAssumption == IsFiniteSet(Ask)
ASSUME LimitAssumption ==
    AddressLimit \in Nat /\ NetworkLimit \in Nat /\ MaxWindow \in Nat \ {0}

VARIABLES
    address,     \* address[u]: the e-mail identity of u, NoEmail if there is no such user
    links,       \* login_challenges
    sessions,    \* sessions[l]: the session that link l opened
    tombstones,  \* deleted_accounts
    fate,        \* what became of each user id, which no table keeps; uuid4 does not repeat
    window,      \* the current window of fifteen minutes
    network,     \* network[w]: the count of the network's bucket
    delivery,    \* delivery[e][w]: the count of the address's bucket
    mails,       \* history: mails[e][w], links sent to e on a reservation in window w
    sent,        \* history: sent[w], links sent to anybody on one in window w
    asks, visits,
    deletion,    \* the account deletion that runs, if one does
    backup,      \* the last backup: the tables as one snapshot
    serving      \* FALSE from a restore until traffic returns

tables == <<address, links, sessions, tombstones>>
buckets == <<network, delivery, mails, sent>>
vars == <<address, links, sessions, tombstones, fate, window, network, delivery, mails, sent,
          asks, visits, deletion, backup, serving>>

Window == 1 .. MaxWindow

NoAsk == [stage |-> "none", email |-> NoEmail, window |-> 1, link |-> NoLink]
NoVisit == [stage |-> "none", link |-> NoLink, user |-> NoUser]
NoSession == [user |-> NoUser, open |-> FALSE]
UnusedLink == [state |-> "unused", email |-> NoEmail, lapsed |-> FALSE, signIns |-> 0]
RemovedLink == [UnusedLink EXCEPT !.state = "removed"]

\* A consistent snapshot of the tables: pg_dump, as restored into a new database.
Tables == [address |-> address, links |-> links, sessions |-> sessions,
           tombstones |-> tombstones]
NoBackup == [address |-> [u \in User |-> NoEmail], links |-> [l \in Link |-> UnusedLink],
             sessions |-> [l \in Link |-> NoSession], tombstones |-> [u \in User |-> "none"]]

AskType == [stage : {"none", "network", "address", "store", "send"},
            email : Email \cup {NoEmail}, window : Window, link : Link \cup {NoLink}]
VisitType == [stage : {"none", "taken", "locked", "found"},
              link : Link \cup {NoLink}, user : User \cup {NoUser}]
LinkType == [state : {"unused", "open", "used", "removed"}, email : Email \cup {NoEmail},
             lapsed : BOOLEAN, signIns : Nat]
TablesType == [address : [User -> Email \cup {NoEmail}], links : [Link -> LinkType],
               sessions : [Link -> [user : User \cup {NoUser}, open : BOOLEAN]],
               tombstones : [User -> {"none", "fresh", "old"}]]

TypeOK ==
    /\ Tables \in TablesType
    /\ backup \in TablesType
    /\ fate \in [User -> {"unissued", "issued", "deleted"}]
    /\ window \in Window
    /\ network \in [Window -> Nat]
    /\ delivery \in [Email -> [Window -> Nat]]
    /\ mails \in [Email -> [Window -> Nat]]
    /\ sent \in [Window -> Nat]
    /\ asks \in [Ask -> AskType]
    /\ visits \in [Visit -> VisitType]
    /\ deletion \in User \cup {NoUser}
    /\ serving \in BOOLEAN

Init ==
    /\ address = NoBackup.address
    /\ links = NoBackup.links
    /\ sessions = NoBackup.sessions
    /\ tombstones = NoBackup.tombstones
    /\ fate = [u \in User |-> "unissued"]
    /\ window = 1
    /\ network = [w \in Window |-> 0]
    /\ delivery = [e \in Email |-> [w \in Window |-> 0]]
    /\ mails = [e \in Email |-> [w \in Window |-> 0]]
    /\ sent = [w \in Window |-> 0]
    /\ asks = [a \in Ask |-> NoAsk]
    /\ visits = [v \in Visit |-> NoVisit]
    /\ deletion = NoUser
    /\ backup = NoBackup
    /\ serving = TRUE

-----------------------------------------------------------------------------
(* Asking for a link: RequestMagicLink.execute.                            *)

\* The clock is read once, and both windows are those of that moment.
RequestLink(a, e) ==
    /\ serving
    /\ asks[a] = NoAsk
    /\ asks' = [asks EXCEPT ![a] = [stage |-> "network", email |-> e, window |-> window,
                                    link |-> NoLink]]
    /\ UNCHANGED <<tables, fate, window, buckets, visits, deletion, backup, serving>>

\* reserve(): insert the bucket or add one while it is below the limit, in one statement
\* and one commit.
Below(count, limit) == count < limit

ReserveNetwork(a) ==
    LET w == asks[a].window IN
    /\ asks[a].stage = "network"
    /\ \/ /\ Below(network[w], NetworkLimit)
          /\ network' = [network EXCEPT ![w] = @ + 1]
          /\ asks' = [asks EXCEPT ![a].stage = "address"]
       \/ /\ ~Below(network[w], NetworkLimit)
          /\ asks' = [asks EXCEPT ![a] = NoAsk]
          /\ UNCHANGED network
    /\ UNCHANGED <<tables, fate, window, delivery, mails, sent, visits, deletion, backup, serving>>

ReserveAddress(a) ==
    LET w == asks[a].window
        e == asks[a].email IN
    /\ asks[a].stage = "address"
    /\ \/ /\ Below(delivery[e][w], AddressLimit)
          /\ delivery' = [delivery EXCEPT ![e][w] = @ + 1]
          /\ asks' = [asks EXCEPT ![a].stage = "store"]
       \/ /\ ~Below(delivery[e][w], AddressLimit)
          /\ asks' = [asks EXCEPT ![a] = NoAsk]
          /\ UNCHANGED delivery
    /\ UNCHANGED <<tables, fate, window, network, mails, sent, visits, deletion, backup, serving>>

StoreChallenge(a, l) ==
    /\ asks[a].stage = "store"
    /\ links[l].state = "unused"
    /\ links' = [links EXCEPT ![l] = [state |-> "open", email |-> asks[a].email,
                                      lapsed |-> FALSE, signIns |-> 0]]
    /\ asks' = [asks EXCEPT ![a] = [@ EXCEPT !.stage = "send", !.link = l]]
    /\ UNCHANGED <<address, sessions, tombstones, fate, window, buckets, visits, deletion,
                   backup, serving>>

\* The mail goes out, or the provider refuses it and the answer is the same.
SendMagicLink(a) ==
    LET e == asks[a].email
        w == asks[a].window IN
    /\ asks[a].stage = "send"
    /\ mails' = [mails EXCEPT ![e][w] = @ + 1]
    /\ sent' = [sent EXCEPT ![w] = @ + 1]
    /\ asks' = [asks EXCEPT ![a] = NoAsk]
    /\ UNCHANGED <<tables, fate, window, network, delivery, visits, deletion, backup, serving>>

\* A failure or a crash between two of the steps; what was committed stays.
AbandonRequest(a) ==
    /\ asks[a] # NoAsk
    /\ asks' = [asks EXCEPT ![a] = NoAsk]
    /\ UNCHANGED <<tables, fate, window, buckets, visits, deletion, backup, serving>>

-----------------------------------------------------------------------------
(* Using a link: SqlAlchemyLoginChallengeConsumer.consume.                 *)

\* Mutant of Taken: the row is read first and written later.
NeverTaken(l) == FALSE

\* The row of l is updated by a transaction that has not committed.
Taken(l) == \E v \in Visit : visits[v].link = l

\* The update waits for whoever holds the row and then looks at it again; it finds
\* nothing when the link was used, has lapsed or is gone.
Consumable(l) == links[l].state = "open" /\ ~links[l].lapsed

TakeLink(v, l) ==
    /\ serving
    /\ visits[v] = NoVisit
    /\ ~Taken(l)
    /\ Consumable(l)
    /\ visits' = [visits EXCEPT ![v] = [stage |-> "taken", link |-> l, user |-> NoUser]]
    /\ UNCHANGED <<tables, fate, window, buckets, asks, deletion, backup, serving>>

\* The address of the link that v took.
AddressOf(v) == links[visits[v].link].email

\* Mutant of AddressLocked: no advisory lock.
NeverLocked(e) == FALSE

\* Mutant of AddressLocked: a lock of the connection, which the commit does not release.
LockedForGood(e) == \E l \in Link : links[l].email = e /\ links[l].state = "used"

\* pg_advisory_xact_lock, held until the transaction ends.
AddressLocked(e) ==
    \E v \in Visit : visits[v].stage \in {"locked", "found"} /\ AddressOf(v) = e

LockAddress(v) ==
    /\ visits[v].stage = "taken"
    /\ ~AddressLocked(AddressOf(v))
    /\ visits' = [visits EXCEPT ![v].stage = "locked"]
    /\ UNCHANGED <<tables, fate, window, buckets, asks, deletion, backup, serving>>

Users(e) == {u \in User : address[u] = e}

\* Somebody holds the row of u for update.
UserLocked(u) == deletion = u \/ \E v \in Visit : visits[v].stage = "found" /\ visits[v].user = u

\* The user of the address is read for update.  The select waits for a deletion that
\* holds the row; if that commits the row is gone and none is found.
ReadIdentity(v) ==
    /\ visits[v].stage = "locked"
    /\ \/ \E u \in Users(AddressOf(v)) :
            /\ ~UserLocked(u)
            /\ visits' = [visits EXCEPT ![v] = [@ EXCEPT !.stage = "found", !.user = u]]
       \/ /\ Users(AddressOf(v)) = {}
          /\ visits' = [visits EXCEPT ![v].stage = "found"]
    /\ UNCHANGED <<tables, fate, window, buckets, asks, deletion, backup, serving>>

\* A link's row once a sign-in has used it.
Used(row) == [row EXCEPT !.state = "used", !.signIns = @ + 1]

\* The commit: the link is used, the user exists, the session is open.
Complete(v, u) ==
    /\ links' = [links EXCEPT ![visits[v].link] = Used(@)]
    /\ sessions' = [sessions EXCEPT ![visits[v].link] = [user |-> u, open |-> TRUE]]
    /\ visits' = [visits EXCEPT ![v] = NoVisit]

\* An address without a user gets one; the unique index lets one insert of it pass.
SignUp(v, u) ==
    /\ visits[v].stage = "found"
    /\ visits[v].user = NoUser
    /\ fate[u] = "unissued"
    /\ Users(AddressOf(v)) = {}
    /\ address' = [address EXCEPT ![u] = AddressOf(v)]
    /\ fate' = [fate EXCEPT ![u] = "issued"]
    /\ Complete(v, u)
    /\ UNCHANGED <<tombstones, window, buckets, asks, deletion, backup, serving>>

\* No code makes a user inactive, so the refusal of one is not a step.
SignInAgain(v) ==
    /\ visits[v].stage = "found"
    /\ visits[v].user # NoUser
    /\ address[visits[v].user] # NoEmail
    /\ Complete(v, visits[v].user)
    /\ UNCHANGED <<address, tombstones, fate, window, buckets, asks, deletion, backup, serving>>

\* A crash, a failed statement or a deadlock that PostgreSQL ends: all is rolled back.
AbortVisit(v) ==
    /\ visits[v] # NoVisit
    /\ visits' = [visits EXCEPT ![v] = NoVisit]
    /\ UNCHANGED <<tables, fate, window, buckets, asks, deletion, backup, serving>>

-----------------------------------------------------------------------------
(* Ending sessions and accounts.                                           *)

\* Signing out revokes the session the browser's secret names, if there is one, as often
\* as it is asked to.
SignOut(l) ==
    /\ serving
    /\ sessions[l].open
    /\ sessions' = [sessions EXCEPT ![l].open = FALSE]
    /\ UNCHANGED <<address, links, tombstones, fate, window, buckets, asks, visits, deletion,
                   backup, serving>>

\* A deletion takes the user's row: on the Web of a user who is signed in, in the cleanup
\* of a user who has a tombstone.  A second one waits and then finds no user.
LockUser(u) ==
    /\ deletion = NoUser
    /\ \/ serving /\ \E l \in Link : sessions[l] = [user |-> u, open |-> TRUE]
       \/ tombstones[u] # "none"
    /\ address[u] # NoEmail
    /\ ~UserLocked(u)
    /\ deletion' = u
    /\ UNCHANGED <<tables, fate, window, buckets, asks, visits, backup, serving>>

\* Mutant of DeleteAccount: the tombstone is written and committed before the deletes.
DeleteAccountTombstoneFirst ==
    /\ deletion # NoUser
    /\ tombstones[deletion] = "none"
    /\ tombstones' = [tombstones EXCEPT ![deletion] = "fresh"]
    /\ UNCHANGED <<address, links, sessions, fate, window, buckets, asks, visits, deletion,
                   backup, serving>>

\* The deletes, the tombstone and the commit.  The links of the address are deleted as
\* well, which waits for the rows that sign-ins hold.
DeleteAccount ==
    LET u == deletion IN
    /\ deletion # NoUser
    /\ \A l \in Link : links[l].email = address[u] => ~Taken(l)
    /\ address' = [address EXCEPT ![u] = NoEmail]
    /\ links' = [l \in Link |-> IF links[l].email = address[u]
                                THEN RemovedLink ELSE links[l]]
    /\ sessions' = [l \in Link |-> IF sessions[l].user = u THEN NoSession ELSE sessions[l]]
    /\ tombstones' = [tombstones EXCEPT ![u] = "fresh"]
    /\ fate' = [fate EXCEPT ![u] = "deleted"]
    /\ deletion' = NoUser
    /\ UNCHANGED <<window, buckets, asks, visits, backup, serving>>

AbortDeletion ==
    /\ deletion # NoUser
    /\ deletion' = NoUser
    /\ UNCHANGED <<tables, fate, window, buckets, asks, visits, backup, serving>>

\* The deletion waits for a link that a sign-in holds, and that sign-in, or the one it
\* waits for, waits for the user.
Deadlocked ==
    /\ deletion # NoUser
    /\ \E v \in Visit : visits[v].stage = "locked" /\ AddressOf(v) = address[deletion]

\* PostgreSQL notices and aborts one of them.
BreakDeadlock ==
    /\ Deadlocked
    /\ \/ AbortDeletion
       \/ \E v \in Visit : visits[v].stage = "locked" /\ AbortVisit(v)

-----------------------------------------------------------------------------
(* Time, the retention job, and backups.                                   *)

NextWindow ==
    /\ window < MaxWindow
    /\ window' = window + 1
    /\ UNCHANGED <<tables, fate, buckets, asks, visits, deletion, backup, serving>>

LinkLapses(l) ==
    /\ Consumable(l)
    /\ links' = [links EXCEPT ![l].lapsed = TRUE]
    /\ UNCHANGED <<address, sessions, tombstones, fate, window, buckets, asks, visits,
                   deletion, backup, serving>>

\* Thirty days after it was used or lapsed; a row that is locked is skipped.
RemoveLink(l) ==
    /\ links[l].state = "used" \/ (links[l].state = "open" /\ links[l].lapsed)
    /\ ~Taken(l)
    /\ links' = [links EXCEPT ![l] = RemovedLink]
    /\ UNCHANGED <<address, sessions, tombstones, fate, window, buckets, asks, visits,
                   deletion, backup, serving>>

\* Thirty days after it was revoked or expired.
RemoveSession(l) ==
    /\ sessions[l] # NoSession
    /\ ~sessions[l].open
    /\ sessions' = [sessions EXCEPT ![l] = NoSession]
    /\ UNCHANGED <<address, links, tombstones, fate, window, buckets, asks, visits, deletion,
                   backup, serving>>

\* Mutant of Forgettable: buckets are removed by age although their window is open.
ForgettableEarly(w) == w <= window

\* Buckets are kept for a day, and no request lasts as long.
Forgettable(w) == w < window /\ \A a \in Ask : asks[a] # NoAsk => asks[a].window # w

ForgetBuckets(w) ==
    /\ Forgettable(w)
    /\ network' = [network EXCEPT ![w] = 0]
    /\ delivery' = [e \in Email |-> [delivery[e] EXCEPT ![w] = 0]]
    /\ UNCHANGED <<tables, fate, window, mails, sent, asks, visits, deletion, backup, serving>>

\* Thirty-five days, five more than a backup is kept.
TombstoneAges(u) ==
    /\ tombstones[u] = "fresh"
    /\ backup.address[u] = NoEmail
    /\ tombstones' = [tombstones EXCEPT ![u] = "old"]
    /\ UNCHANGED <<address, links, sessions, fate, window, buckets, asks, visits, deletion,
                   backup, serving>>

\* Never one whose user exists.
PruneTombstone(u) ==
    /\ tombstones[u] = "old"
    /\ address[u] = NoEmail
    /\ tombstones' = [tombstones EXCEPT ![u] = "none"]
    /\ UNCHANGED <<address, links, sessions, fate, window, buckets, asks, visits, deletion,
                   backup, serving>>

\* One backup is enough, since a restore takes the last, and one in the last window could
\* not be restored.
BackUp ==
    /\ serving
    /\ window < MaxWindow
    /\ backup = NoBackup
    /\ backup' = Tables
    /\ UNCHANGED <<tables, fate, window, buckets, asks, visits, deletion, serving>>

\* The last backup goes into a new database and nothing runs until traffic returns.  It is
\* a later window by then, whose buckets are not in the backup.
Restore ==
    /\ window < MaxWindow
    /\ window' = window + 1
    /\ address' = backup.address
    /\ links' = backup.links
    /\ sessions' = backup.sessions
    /\ tombstones' = backup.tombstones
    /\ asks' = [a \in Ask |-> NoAsk]
    /\ visits' = [v \in Visit |-> NoVisit]
    /\ deletion' = NoUser
    /\ serving' = FALSE
    /\ UNCHANGED <<fate, buckets, backup>>

\* restore.sh asks for the cleanup first, which deletes again who has a tombstone.
ReturnTraffic ==
    /\ ~serving
    /\ deletion = NoUser
    /\ \A u \in User : tombstones[u] # "none" => address[u] = NoEmail
    /\ serving' = TRUE
    /\ UNCHANGED <<tables, fate, window, buckets, asks, visits, deletion, backup>>

Next ==
    \/ \E a \in Ask :
        \/ \E e \in Email : RequestLink(a, e)
        \/ ReserveNetwork(a) \/ ReserveAddress(a)
        \/ \E l \in Link : StoreChallenge(a, l)
        \/ SendMagicLink(a) \/ AbandonRequest(a)
    \/ \E v \in Visit :
        \/ \E l \in Link : TakeLink(v, l)
        \/ LockAddress(v) \/ ReadIdentity(v) \/ SignInAgain(v) \/ AbortVisit(v)
        \/ \E u \in User : SignUp(v, u)
    \/ \E l \in Link : SignOut(l) \/ LinkLapses(l) \/ RemoveLink(l) \/ RemoveSession(l)
    \/ \E u \in User : LockUser(u) \/ TombstoneAges(u) \/ PruneTombstone(u)
    \/ DeleteAccount \/ AbortDeletion \/ BreakDeadlock
    \/ NextWindow \/ (\E w \in Window : ForgetBuckets(w))
    \/ BackUp \/ Restore \/ ReturnTraffic

Spec == Init /\ [][Next]_vars

-----------------------------------------------------------------------------
(* Properties.                                                             *)

\* A link opens one session when it is used and none before: neither two visits at once
\* nor a failure in between use it twice, or use it up for nothing (consume()).
LinkSignsInOnce ==
    \A l \in Link : links[l].state \in {"open", "used"} =>
        links[l].signIns = IF links[l].state = "used" THEN 1 ELSE 0

\* What a sign-in read is still so when it writes: nobody else creates the user it found
\* missing or deletes the one it found, so no insert of it fails (the advisory lock and
\* the row lock of consume(), the lock of account_deletion.py).
WhatWasReadHolds ==
    \A v \in Visit : visits[v].stage = "found" =>
        IF visits[v].user = NoUser THEN Users(AddressOf(v)) = {}
                                   ELSE address[visits[v].user] = AddressOf(v)

\* However requests interleave, fail and are retried, no more links are mailed on one
\* window than its limits allow, per address and per network (reserve()).
MailsWithinLimits ==
    \A w \in Window :
        /\ \A e \in Email : mails[e][w] <= AddressLimit
        /\ sent[w] <= NetworkLimit

\* No user ever has a tombstone, restored or not: a deletion and its tombstone are one
\* commit and a backup is one snapshot (account_deletion.py, deploy/tools/backup).
NoUserHasTombstone ==
    \A u \in User : tombstones[u] # "none" => address[u] = NoEmail

\* As long as a sign-in or a deletion has begun and not ended, one of them can take its
\* next step, or PostgreSQL sees the deadlock they are in: no order of the address's lock,
\* the links' rows and the user's row leaves all of them waiting for one another unseen.
WaitsEnd ==
    (deletion # NoUser \/ \E v \in Visit : visits[v] # NoVisit)
    => \/ Deadlocked
       \/ deletion # NoUser /\ \A l \in Link : links[l].email = address[deletion] => ~Taken(l)
       \/ \E v \in Visit :
            CASE visits[v].stage = "none"   -> FALSE
              [] visits[v].stage = "taken"  -> ~AddressLocked(AddressOf(v))
              [] visits[v].stage = "locked" -> \A u \in Users(AddressOf(v)) : ~UserLocked(u)
              [] visits[v].stage = "found"  -> TRUE

\* deploy/restore.sh: "run both retention cleanups before traffic returns, so data deleted
\* since the backup is deleted again".
DeletedIsDeletedAgain ==
    serving => \A u \in User : fate[u] = "deleted" => address[u] = NoEmail
=============================================================================
