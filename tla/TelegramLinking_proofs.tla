----------------------- MODULE TelegramLinking_proofs -----------------------
(* Proofs about TelegramLinking: for every number of accounts, Telegram      *)
(* users, sessions, challenges and concurrent requests, and that it          *)
(* implements LinkContract.                                                  *)
EXTENDS TelegramLinking, TLAPS

-----------------------------------------------------------------------------
\* The inductive invariant.  A challenge past waiting names who claimed it; the
\* active connections pair accounts and Telegram users; a request in progress
\* has a session that nobody signed out and an account that exists.
ClaimsNamePerson ==
    \A c \in Challenge :
        challenges[c] # Unissued /\ challenges[c].stage # "waiting"
            => challenges[c].person \in Person

OneToOne ==
    \A k, l \in connections :
        k.active /\ l.active /\ (k.account = l.account \/ k.person = l.person) => k = l

RequestsStand ==
    \A r \in Request :
        requests[r] # NoSession =>
            NotSignedOut(requests[r]) /\ Owner[requests[r]] \notin deleted

\* A worker that holds a row with an active draft keeps it from going.
HeldRowStays == \A a \in Account : worker[a] = "drafting" => HasDraft(conversations[a])

Inv ==
    /\ TypeOK
    /\ ClaimsNamePerson
    /\ ConnectionsAreConsented
    /\ OneToOne
    /\ RequestsStand
    /\ UnlinkedAsksNothing
    /\ HeldRowStays

USE OwnerAssumption, NoPersonAssumption, NoSessionAssumption

\* Every action, spelled out once.
Acts ==
    \/ \E r \in Request, s \in Session : Authenticate(r, s)
    \/ \E r \in Request, c \in Challenge : Issue(r, c)
    \/ \E r \in Request, c \in Challenge : Confirm(r, c)
    \/ \E r \in Request : Unlink(r)
    \/ \E r \in Request : DeleteAccount(r)
    \/ \E r \in Request : EndRequest(r)
    \/ \E s \in Session : SignIn(s)
    \/ \E s \in Session : SignOut(s)
    \/ \E s \in Session : ExpireSession(s)
    \/ \E s \in Session : ForgetSession(s)
    \/ \E c \in Challenge : Lapse(c)
    \/ \E c \in Challenge : ForgetChallenge(c)
    \/ \E c \in Challenge, p \in Person : Claim(c, p)
    \/ \E a \in Account : WorkerInserts(a)
    \/ \E a \in Account : WorkerSelects(a)
    \/ \E a \in Account : WorkerCommits(a)
    \/ \E a \in Account : WorkerAsks(a)
    \/ \E a \in Account : WorkerFails(a)
    \/ \E p \in Person : BotActs(p)
    \/ \E k \in connections : ForgetConnection(k)

LEMMA NextActs == [Next]_vars => Acts \/ UNCHANGED vars
BY DEF Next, WebStep, SessionStep, ChallengeStep, WorkerStep, Acts

-----------------------------------------------------------------------------
LEMMA InvInit == Init => Inv
BY DEF Init, Inv, TypeOK, SessionState, ClaimsNamePerson, ConnectionsAreConsented, OneToOne,
       RequestsStand, UnlinkedAsksNothing, HeldRowStays, ConversationRow, WorkerStage, HasDraft

(* What an issued challenge holds, and the connection a confirmation makes.  *)
LEMMA IssuedRows ==
    ASSUME TypeOK, NEW c \in Challenge, challenges[c] # Unissued
    PROVE  challenges[c] \in ChallengeRow
BY DEF TypeOK

LEMMA TypeStep == TypeOK /\ ClaimsNamePerson /\ [Next]_vars => TypeOK'
<1> SUFFICES ASSUME TypeOK, ClaimsNamePerson, [Next]_vars PROVE TypeOK'
  OBVIOUS
<1> USE DEF TypeOK, SessionState
<1>1. CASE UNCHANGED vars
  BY <1>1 DEF vars
<1>2. ASSUME NEW r \in Request, NEW s \in Session, Authenticate(r, s) PROVE TypeOK'
  BY <1>2 DEF Authenticate
<1>3. ASSUME NEW r \in Request, NEW c \in Challenge, Issue(r, c) PROVE TypeOK'
  BY <1>3 DEF Issue, ChallengeRow
<1>4. ASSUME NEW r \in Request, NEW c \in Challenge, Confirm(r, c) PROVE TypeOK'
  <2>1. challenges[c] \in ChallengeRow /\ challenges[c].person \in Person
    BY <1>4 DEF Confirm, IsConfirmable, ClaimsNamePerson
  <2>2. [challenges[c] EXCEPT !.stage = "confirmed"] \in ChallengeRow
    BY <2>1 DEF ChallengeRow
  <2>3. challenges' = [challenges EXCEPT ![c] = [challenges[c] EXCEPT !.stage = "confirmed"]]
    BY <1>4 DEF Confirm
  <2>4. challenges' \in [Challenge -> ChallengeRow \cup {Unissued}]
    BY <2>2, <2>3
  <2>5. Owner[requests[r]] \in Account
    BY <1>4 DEF Confirm
  <2>6. connections' \subseteq Connection
    <3>1. connections' = connections \cup {[account |-> Owner[requests[r]],
              person |-> challenges[c].person, challenge |-> c, active |-> TRUE]}
      BY <1>4 DEF Confirm
    <3>2. [account |-> Owner[requests[r]], person |-> challenges[c].person, challenge |-> c,
           active |-> TRUE] \in Connection
      BY <2>1, <2>5 DEF Connection
    <3> QED BY <3>1, <3>2
  <2> QED BY <1>4, <2>4, <2>6 DEF Confirm
<1>5. ASSUME NEW r \in Request, Unlink(r) PROVE TypeOK'
  <2>1. \A k \in Connection : \A b \in BOOLEAN : [k EXCEPT !.active = b] \in Connection
    BY DEF Connection
  <2>2. \A k \in Connection : Unlinked(k, Owner[requests[r]]) \in Connection
    <3> SUFFICES ASSUME NEW k \in Connection PROVE Unlinked(k, Owner[requests[r]]) \in Connection
      OBVIOUS
    <3>1. (k.active /\ k.account # Owner[requests[r]]) \in BOOLEAN
      BY DEF Connection
    <3> QED BY <2>1, <3>1 DEF Unlinked
  <2> QED BY <1>5, <2>2 DEF Unlink, ConversationRow
<1>6. ASSUME NEW r \in Request, DeleteAccount(r) PROVE TypeOK'
  <2> DEFINE a == Owner[requests[r]]
  <2>1. ASSUME NEW c \in Challenge
        PROVE  WithoutAccount(a)[c] \in ChallengeRow \cup {Unissued}
    <3>1. PICK k \in ChallengeRow \cup {Unissued} : k = challenges[c]
      OBVIOUS
    <3>2. WithoutAccount(a)[c] = IF k # Unissued /\ Owner[k.session] = a
                                 THEN [k EXCEPT !.kept = FALSE] ELSE k
      BY <3>1 DEF WithoutAccount
    <3>3. k \in ChallengeRow => [k EXCEPT !.kept = FALSE] \in ChallengeRow
      BY DEF ChallengeRow
    <3> QED BY <3>2, <3>3
  <2>2. WithoutAccount(Owner[requests[r]]) \in [Challenge -> ChallengeRow \cup {Unissued}]
    BY <2>1 DEF WithoutAccount
  <2> QED BY <1>6, <2>2 DEF DeleteAccount, ConversationRow
<1>7. ASSUME NEW r \in Request, EndRequest(r) PROVE TypeOK'
  BY <1>7 DEF EndRequest
<1>8. ASSUME NEW s \in Session, SignIn(s) \/ SignOut(s) \/ ExpireSession(s) PROVE TypeOK'
  BY <1>8 DEF SignIn, SignOut, ExpireSession
<1>9. ASSUME NEW s \in Session, ForgetSession(s) PROVE TypeOK'
  <2>1. \A c \in Challenge : OfSession(c, s) => [challenges[c] EXCEPT !.kept = FALSE] \in ChallengeRow
    <3>1. \A c \in Challenge : OfSession(c, s) => challenges[c] \in ChallengeRow
      BY DEF OfSession
    <3> QED BY <3>1 DEF ChallengeRow
  <2> QED BY <1>9, <2>1 DEF ForgetSession
<1>10. ASSUME NEW c \in Challenge, Lapse(c) \/ ForgetChallenge(c) PROVE TypeOK'
  <2>1. challenges[c] \in ChallengeRow
    BY <1>10 DEF Lapse, ForgetChallenge
  <2>2. /\ [challenges[c] EXCEPT !.lapsed = TRUE] \in ChallengeRow
        /\ [challenges[c] EXCEPT !.kept = FALSE] \in ChallengeRow
    BY <2>1 DEF ChallengeRow
  <2>3. \/ challenges' = [challenges EXCEPT ![c] = [challenges[c] EXCEPT !.lapsed = TRUE]]
        \/ challenges' = [challenges EXCEPT ![c] = [challenges[c] EXCEPT !.kept = FALSE]]
    BY <1>10 DEF Lapse, ForgetChallenge
  <2>4. challenges' \in [Challenge -> ChallengeRow \cup {Unissued}]
    BY <2>2, <2>3
  <2> QED BY <1>10, <2>4 DEF Lapse, ForgetChallenge
<1>11. ASSUME NEW c \in Challenge, NEW p \in Person, Claim(c, p) PROVE TypeOK'
  <2>1. challenges[c] \in ChallengeRow
    BY <1>11 DEF Claim, IsClaimable
  <2>2. [challenges[c] EXCEPT !.stage = "claimed", !.person = p] \in ChallengeRow
    BY <2>1 DEF ChallengeRow
  <2>3. challenges' =
            [challenges EXCEPT ![c] = [challenges[c] EXCEPT !.stage = "claimed", !.person = p]]
    BY <1>11, <2>1 DEF Claim
  <2>4. challenges' \in [Challenge -> ChallengeRow \cup {Unissued}]
    BY <2>2, <2>3
  <2> QED BY <1>11, <2>4 DEF Claim
<1>12. ASSUME NEW a \in Account,
              WorkerInserts(a) \/ WorkerSelects(a) \/ WorkerCommits(a) \/ WorkerAsks(a)
              \/ WorkerFails(a)
       PROVE TypeOK'
  BY <1>12 DEF WorkerInserts, WorkerSelects, WorkerCommits, WorkerAsks, WorkerFails,
               ConversationRow, WorkerStage
<1>13. ASSUME NEW p \in Person, BotActs(p) PROVE TypeOK'
  BY <1>13 DEF BotActs, Connection
<1>14. ASSUME NEW k \in connections, ForgetConnection(k) PROVE TypeOK'
  BY <1>14 DEF ForgetConnection
<1> HIDE DEF TypeOK, SessionState
<1> QED
  BY NextActs, <1>1, <1>2, <1>3, <1>4, <1>5, <1>6, <1>7, <1>8, <1>9, <1>10, <1>11, <1>12, <1>13,
     <1>14 DEF Acts
-----------------------------------------------------------------------------
\* An issued challenge stays issued by its session, and what is confirmed stays
\* confirmed for whom it was.
ChallengesGoOn ==
    \A c \in Challenge :
        challenges[c] # Unissued =>
            /\ challenges'[c] # Unissued
            /\ challenges'[c].session = challenges[c].session
            /\ challenges[c].stage = "confirmed" =>
                   /\ challenges'[c].stage = "confirmed"
                   /\ challenges'[c].person = challenges[c].person

(* Steps that only note that a row lapsed or left the table, or change none. *)
SameButMarks ==
    \A c \in Challenge :
        \/ challenges'[c] = challenges[c]
        \/ /\ challenges[c] # Unissued /\ challenges'[c] # Unissued
           /\ challenges'[c].stage = challenges[c].stage
           /\ challenges'[c].session = challenges[c].session
           /\ challenges'[c].person = challenges[c].person

LEMMA MarksKeep ==
    SameButMarks => ChallengesGoOn /\ (ClaimsNamePerson => ClaimsNamePerson')
BY DEF SameButMarks, ChallengesGoOn, ClaimsNamePerson

LEMMA Marks ==
    ASSUME TypeOK,
           \/ UNCHANGED challenges
           \/ \E c \in Challenge : Lapse(c) \/ ForgetChallenge(c)
           \/ \E s \in Session : ForgetSession(s)
           \/ \E r \in Request : DeleteAccount(r)
    PROVE  SameButMarks
<1>1. CASE UNCHANGED challenges
  BY <1>1 DEF SameButMarks
<1>2. ASSUME NEW c \in Challenge, Lapse(c) \/ ForgetChallenge(c) PROVE SameButMarks
  <2>1. challenges[c] # Unissued /\ challenges[c] \in ChallengeRow
    BY <1>2, IssuedRows DEF Lapse, ForgetChallenge
  <2>2. PICK x \in {[challenges[c] EXCEPT !.lapsed = TRUE], [challenges[c] EXCEPT !.kept = FALSE]} :
            challenges' = [challenges EXCEPT ![c] = x]
    BY <1>2 DEF Lapse, ForgetChallenge
  <2>3. /\ x.stage = challenges[c].stage /\ x.session = challenges[c].session
        /\ x.person = challenges[c].person /\ x # Unissued
    BY <2>1, <2>2 DEF ChallengeRow, Unissued
  <2> QED BY <2>1, <2>2, <2>3 DEF SameButMarks, TypeOK
<1>3. ASSUME NEW s \in Session, ForgetSession(s) PROVE SameButMarks
  <2> SUFFICES ASSUME NEW c \in Challenge, challenges'[c] # challenges[c]
               PROVE  /\ challenges[c] # Unissued /\ challenges'[c] # Unissued
                      /\ challenges'[c].stage = challenges[c].stage
                      /\ challenges'[c].session = challenges[c].session
                      /\ challenges'[c].person = challenges[c].person
    BY DEF SameButMarks
  <2>1. challenges[c] # Unissued /\ challenges'[c] = [challenges[c] EXCEPT !.kept = FALSE]
    BY <1>3 DEF ForgetSession, OfSession
  <2> QED BY <2>1, IssuedRows DEF ChallengeRow, Unissued
<1>4. ASSUME NEW r \in Request, DeleteAccount(r) PROVE SameButMarks
  <2> SUFFICES ASSUME NEW c \in Challenge, challenges'[c] # challenges[c]
               PROVE  /\ challenges[c] # Unissued /\ challenges'[c] # Unissued
                      /\ challenges'[c].stage = challenges[c].stage
                      /\ challenges'[c].session = challenges[c].session
                      /\ challenges'[c].person = challenges[c].person
    BY DEF SameButMarks
  <2>1. challenges[c] # Unissued /\ challenges'[c] = [challenges[c] EXCEPT !.kept = FALSE]
    BY <1>4 DEF DeleteAccount, WithoutAccount
  <2> QED BY <2>1, IssuedRows DEF ChallengeRow, Unissued
<1> QED BY <1>1, <1>2, <1>3, <1>4

LEMMA ChallengesStep ==
    ASSUME TypeOK, ClaimsNamePerson, [Next]_vars
    PROVE  ChallengesGoOn /\ ClaimsNamePerson'
<1>1. CASE \/ UNCHANGED challenges
           \/ \E c \in Challenge : Lapse(c) \/ ForgetChallenge(c)
           \/ \E s \in Session : ForgetSession(s)
           \/ \E r \in Request : DeleteAccount(r)
  BY <1>1, Marks, MarksKeep
<1>2. ASSUME NEW r \in Request, NEW c \in Challenge, Issue(r, c)
      PROVE  ChallengesGoOn /\ ClaimsNamePerson'
  <2>1. PICK x : x.stage = "waiting" /\ challenges' = [challenges EXCEPT ![c] = x]
    BY <1>2 DEF Issue
  <2>2. challenges[c] = Unissued
    BY <1>2 DEF Issue
  <2> QED BY <2>1, <2>2 DEF TypeOK, ChallengesGoOn, ClaimsNamePerson
<1>3. ASSUME NEW c \in Challenge, NEW p \in Person, Claim(c, p)
      PROVE  ChallengesGoOn /\ ClaimsNamePerson'
  <2>1. challenges[c] \in ChallengeRow /\ challenges[c].stage = "waiting"
    BY <1>3, IssuedRows DEF Claim, IsClaimable
  <2>2. PICK x : /\ x = [challenges[c] EXCEPT !.stage = "claimed", !.person = p]
                 /\ challenges' = [challenges EXCEPT ![c] = x]
    BY <1>3 DEF Claim, TypeOK
  <2>3. x.person = p /\ x.session = challenges[c].session /\ x.stage = "claimed" /\ x # Unissued
    BY <2>1, <2>2 DEF ChallengeRow, Unissued
  <2> QED BY <2>1, <2>2, <2>3 DEF TypeOK, ChallengesGoOn, ClaimsNamePerson
<1>4. ASSUME NEW r \in Request, NEW c \in Challenge, Confirm(r, c)
      PROVE  ChallengesGoOn /\ ClaimsNamePerson'
  <2>1. /\ challenges[c] # Unissued
        /\ challenges[c] \in ChallengeRow /\ challenges[c].stage = "claimed"
    BY <1>4, IssuedRows DEF Confirm, IsConfirmable
  <2>2. PICK x : /\ x = [challenges[c] EXCEPT !.stage = "confirmed"]
                 /\ challenges' = [challenges EXCEPT ![c] = x]
    BY <1>4 DEF Confirm, TypeOK
  <2>3. /\ x.person = challenges[c].person /\ x.session = challenges[c].session
        /\ x.stage = "confirmed" /\ x # Unissued
    BY <2>1, <2>2 DEF ChallengeRow, Unissued
  <2> QED BY <2>1, <2>2, <2>3 DEF TypeOK, ChallengesGoOn, ClaimsNamePerson
<1>5. Acts \/ UNCHANGED vars
  BY NextActs
<1> QED
  BY <1>1, <1>2, <1>3, <1>4, <1>5
  DEF Acts, vars, Authenticate, Unlink, EndRequest, SignIn, SignOut, ExpireSession, WorkerInserts,
      WorkerSelects, WorkerCommits, WorkerAsks, WorkerFails, BotActs, ForgetConnection
-----------------------------------------------------------------------------
\* The four things that happen to the table of connections.
Shrinks == connections' \subseteq connections

LEMMA ConnectionsStep ==
    ASSUME [Next]_vars
    PROVE  \/ Shrinks
           \/ \E r \in Request : Unlink(r)
           \/ \E r \in Request, c \in Challenge : Confirm(r, c)
<1>1. Acts \/ UNCHANGED vars
  BY NextActs
<1> QED
  BY <1>1
  DEF Shrinks, Acts, vars, Authenticate, Issue, DeleteAccount, EndRequest, SignIn, SignOut,
      ExpireSession, ForgetSession, Lapse, ForgetChallenge, Claim, WorkerInserts, WorkerSelects,
      WorkerCommits, WorkerAsks, WorkerFails, BotActs, ForgetConnection

(* An unlinked row differs from the row it was in nothing but being active. *)
LEMMA UnlinkedRows ==
    ASSUME TypeOK, NEW k \in connections, NEW a
    PROVE  /\ Unlinked(k, a).account = k.account
           /\ Unlinked(k, a).person = k.person
           /\ Unlinked(k, a).challenge = k.challenge
           /\ Unlinked(k, a).active <=> k.active /\ k.account # a
           /\ Unlinked(k, a).active => Unlinked(k, a) = k
<1>1. k \in Connection
  BY DEF TypeOK
<1>2. PICK acc \in Account, p \in Person, c \in Challenge, b \in BOOLEAN :
          k = [account |-> acc, person |-> p, challenge |-> c, active |-> b]
  BY <1>1 DEF Connection
<1>3. Unlinked(k, a) = [account |-> acc, person |-> p, challenge |-> c, active |-> b /\ acc # a]
  BY <1>2 DEF Unlinked
<1>4. CASE b /\ acc # a
  <2>1. b = TRUE /\ (b /\ acc # a) = TRUE
    BY <1>4
  <2> QED BY <1>2, <1>3, <1>4, <2>1
<1>5. CASE ~(b /\ acc # a)
  <2>1. (b /\ acc # a) = FALSE
    BY <1>5
  <2>2. Unlinked(k, a) = [account |-> acc, person |-> p, challenge |-> c, active |-> FALSE]
    BY <1>3, <2>1
  <2>3. k.active = b /\ k.account = acc /\ k.person = p /\ k.challenge = c
    BY <1>2
  <2>4. ~(k.active /\ k.account # a)
    BY <1>5, <2>3
  <2>5. /\ Unlinked(k, a).active = FALSE /\ Unlinked(k, a).account = acc
        /\ Unlinked(k, a).person = p /\ Unlinked(k, a).challenge = c
    BY <2>2
  <2> QED BY <2>3, <2>4, <2>5
<1> QED BY <1>4, <1>5

(* The row a confirmation inserts, and what it was confirmed from.           *)
LEMMA ConfirmedRow ==
    ASSUME TypeOK, ClaimsNamePerson, NEW r \in Request, NEW c \in Challenge, Confirm(r, c)
    PROVE  \E n \in Connection :
               /\ connections' = connections \cup {n}
               /\ n.active /\ n.challenge = c
               /\ n.account = Owner[requests[r]] /\ n.person = challenges[c].person
               /\ challenges[c] # Unissued /\ challenges[c].stage = "claimed"
               /\ challenges[c].session = requests[r]
               /\ sessions[requests[r]] = "open"
               /\ challenges'[c] # Unissued /\ challenges'[c].stage = "confirmed"
               /\ challenges'[c].person = challenges[c].person
               /\ challenges'[c].session = requests[r]
               /\ n.account \in Account /\ n.person \in Person
               /\ \A k \in connections :
                      k.active => k.account # n.account /\ k.person # n.person
<1> DEFINE n == [account |-> Owner[requests[r]], person |-> challenges[c].person,
                 challenge |-> c, active |-> TRUE]
<1>1. /\ requests[r] \in Session
      /\ IsConfirmable(c, requests[r])
      /\ IndexesAllow(Owner[requests[r]], challenges[c].person)
      /\ connections' = connections \cup {n}
      /\ challenges' = [challenges EXCEPT ![c].stage = "confirmed"]
  BY DEF Confirm, TypeOK
<1>2. /\ challenges[c] # Unissued /\ challenges[c].stage = "claimed"
      /\ challenges[c].session = requests[r] /\ sessions[requests[r]] = "open"
  BY <1>1 DEF IsConfirmable, IsValid
<1>3. challenges[c] \in ChallengeRow /\ challenges[c].person \in Person
  BY <1>2, IssuedRows DEF ClaimsNamePerson
<1>4. challenges'[c] = [challenges[c] EXCEPT !.stage = "confirmed"]
  BY <1>1 DEF TypeOK
<1>5. /\ challenges'[c] # Unissued /\ challenges'[c].stage = "confirmed"
      /\ challenges'[c].person = challenges[c].person
      /\ challenges'[c].session = challenges[c].session
  BY <1>3, <1>4 DEF ChallengeRow, Unissued
<1>6. n \in Connection
  BY <1>1, <1>3 DEF Connection
<1>7. \A k \in connections : k.active => k.account # n.account /\ k.person # n.person
  BY <1>1 DEF IndexesAllow, Connected, Reachable
<1>8. n.account \in Account /\ n.person \in Person
  BY <1>1, <1>3
<1> QED BY <1>1, <1>2, <1>5, <1>6, <1>7, <1>8

LEMMA ConsentStep ==
    ASSUME TypeOK, ClaimsNamePerson, ConnectionsAreConsented, ChallengesGoOn, [Next]_vars
    PROVE  ConnectionsAreConsented'
<1> DEFINE Fits(k) ==
        /\ challenges'[k.challenge] # Unissued
        /\ challenges'[k.challenge].stage = "confirmed"
        /\ challenges'[k.challenge].person = k.person
        /\ Owner[challenges'[k.challenge].session] = k.account
<1>1. \A k \in connections : k.challenge \in Challenge /\ Fits(k)
  BY DEF TypeOK, Connection, ConnectionsAreConsented, ChallengesGoOn
<1>2. CASE Shrinks
  BY <1>1, <1>2 DEF Shrinks, ConnectionsAreConsented
<1>3. ASSUME NEW r \in Request, Unlink(r) PROVE ConnectionsAreConsented'
  <2> DEFINE a == Owner[requests[r]]
  <2>1. connections' = {Unlinked(k, a) : k \in connections}
    BY <1>3 DEF Unlink
  <2>2. \A k \in connections : Fits(Unlinked(k, a)) /\ Unlinked(k, a).challenge = k.challenge
    BY <1>1, UnlinkedRows
  <2>3. \A k \in connections' : Fits(k)
    BY <2>1, <2>2
  <2>4. \A k, l \in connections' : k.challenge = l.challenge => k = l
    <3> SUFFICES ASSUME NEW k \in connections, NEW l \in connections,
                        Unlinked(k, a).challenge = Unlinked(l, a).challenge
                 PROVE  Unlinked(k, a) = Unlinked(l, a)
      BY <2>1
    <3>1. k = l
      BY <2>2 DEF ConnectionsAreConsented
    <3> QED BY <3>1
  <2> QED BY <2>3, <2>4 DEF ConnectionsAreConsented
<1>4. ASSUME NEW r \in Request, NEW c \in Challenge, Confirm(r, c) PROVE ConnectionsAreConsented'
  <2>1. PICK n \in Connection :
            /\ connections' = connections \cup {n}
            /\ n.challenge = c /\ n.account = Owner[requests[r]] /\ n.person = challenges[c].person
            /\ challenges[c].stage = "claimed"
            /\ challenges'[c] # Unissued /\ challenges'[c].stage = "confirmed"
            /\ challenges'[c].person = challenges[c].person
            /\ challenges'[c].session = requests[r]
    BY <1>4, ConfirmedRow
  <2>2. Fits(n)
    BY <2>1
  <2>3. \A k \in connections : k.challenge # n.challenge
    BY <2>1 DEF ConnectionsAreConsented
  <2>4. \A k \in connections' : Fits(k)
    BY <1>1, <2>1, <2>2
  <2>5. \A k, l \in connections' : k.challenge = l.challenge => k = l
    BY <2>1, <2>3 DEF ConnectionsAreConsented
  <2> QED BY <2>4, <2>5 DEF ConnectionsAreConsented
<1> QED BY ConnectionsStep, <1>2, <1>3, <1>4

LEMMA OneToOneStep ==
    ASSUME TypeOK, ClaimsNamePerson, OneToOne, [Next]_vars
    PROVE  OneToOne'
<1>1. CASE Shrinks
  BY <1>1 DEF Shrinks, OneToOne
<1>2. ASSUME NEW r \in Request, Unlink(r) PROVE OneToOne'
  <2>1. \A k \in connections' : k.active => k \in connections
    BY <1>2, UnlinkedRows DEF Unlink
  <2> QED BY <2>1 DEF OneToOne
<1>3. ASSUME NEW r \in Request, NEW c \in Challenge, Confirm(r, c) PROVE OneToOne'
  <2>1. PICK n \in Connection :
            /\ connections' = connections \cup {n}
            /\ \A k \in connections : k.active => k.account # n.account /\ k.person # n.person
    BY <1>3, ConfirmedRow
  <2> QED BY <2>1 DEF OneToOne
<1> QED BY ConnectionsStep, <1>1, <1>2, <1>3
-----------------------------------------------------------------------------
(* Requests and sessions: whoever would end a session or an account waits.   *)
LEMMA RequestsStep ==
    ASSUME TypeOK, RequestsStand, [Next]_vars
    PROVE  RequestsStand'
<1> USE DEF RequestsStand, NotSignedOut, TypeOK
<1>1. CASE UNCHANGED <<requests, sessions, deleted>>
  BY <1>1
<1>2. ASSUME NEW r \in Request, NEW s \in Session, Authenticate(r, s) PROVE RequestsStand'
  BY <1>2 DEF Authenticate, IsValid
<1>3. ASSUME NEW r \in Request, requests' = [requests EXCEPT ![r] = NoSession],
             UNCHANGED <<sessions, deleted>>
      PROVE  RequestsStand'
  BY <1>3
<1>4. ASSUME NEW r \in Request, DeleteAccount(r) PROVE RequestsStand'
  <2> DEFINE a == Owner[requests[r]]
  <2>1. /\ Sharers(a) = {r}
        /\ deleted' = deleted \cup {a}
        /\ sessions' = [s \in Session |-> IF Owner[s] = a THEN "gone" ELSE sessions[s]]
        /\ requests' = [requests EXCEPT ![r] = NoSession]
    BY <1>4 DEF DeleteAccount
  <2>2. \A q \in Request \ {r} : requests[q] # NoSession => Owner[requests[q]] # a
    BY <2>1 DEF Sharers
  <2> QED BY <2>1, <2>2
<1>5. ASSUME NEW s \in Session, SignIn(s) \/ ExpireSession(s) PROVE RequestsStand'
  BY <1>5 DEF SignIn, ExpireSession
<1>6. ASSUME NEW s \in Session, SignOut(s) \/ ForgetSession(s) PROVE RequestsStand'
  BY <1>6 DEF SignOut, ForgetSession, SharesSession
<1>7. Acts \/ UNCHANGED vars
  BY NextActs
<1> HIDE DEF RequestsStand, NotSignedOut, TypeOK
<1> QED
  BY <1>1, <1>2, <1>3, <1>4, <1>5, <1>6, <1>7
  DEF Acts, vars, Issue, Confirm, Unlink, EndRequest, Lapse, ForgetChallenge, Claim,
      WorkerInserts, WorkerSelects, WorkerCommits, WorkerAsks, WorkerFails, BotActs, ForgetConnection

(* An account that stays connected, or whose conversation is deleted, keeps  *)
(* the promise about open questions.                                         *)
LEMMA AsksStep ==
    ASSUME TypeOK, ClaimsNamePerson, UnlinkedAsksNothing, HeldRowStays, [Next]_vars
    PROVE  UnlinkedAsksNothing'
<1>1. CASE UNCHANGED <<connections, conversations>>
  BY <1>1 DEF UnlinkedAsksNothing, Connected
<1>2. ASSUME NEW r \in Request, NEW c \in Challenge, Confirm(r, c) PROVE UnlinkedAsksNothing'
  <2>1. connections \subseteq connections' /\ UNCHANGED conversations
    BY <1>2 DEF Confirm
  <2> QED BY <2>1 DEF UnlinkedAsksNothing, Connected
<1>3. ASSUME NEW r \in Request, Unlink(r) PROVE UnlinkedAsksNothing'
  <2> DEFINE a == Owner[requests[r]]
  <2>1. /\ connections' = {Unlinked(k, a) : k \in connections}
        /\ conversations' = [conversations EXCEPT ![a] = "none"]
    BY <1>3 DEF Unlink
  <2> SUFFICES ASSUME NEW b \in Account, HasDraft(conversations'[b])
               PROVE  Connected(b)'
    BY DEF UnlinkedAsksNothing, HasDraft
  <2>2. b # a /\ HasDraft(conversations[b])
    BY <2>1 DEF TypeOK, HasDraft
  <2>3. PICK k \in connections : k.active /\ k.account = b
    BY <2>2 DEF UnlinkedAsksNothing, Connected
  <2>4. Unlinked(k, a).active /\ Unlinked(k, a).account = b
    BY <2>2, <2>3, UnlinkedRows
  <2> QED BY <2>1, <2>4 DEF Connected
<1>4. ASSUME NEW r \in Request, DeleteAccount(r) PROVE UnlinkedAsksNothing'
  <2> DEFINE a == Owner[requests[r]]
  <2>1. /\ connections' = {k \in connections : k.account # a}
        /\ conversations' = [conversations EXCEPT ![a] = "none"]
    BY <1>4 DEF DeleteAccount
  <2> QED BY <2>1 DEF UnlinkedAsksNothing, Connected, TypeOK, HasDraft
<1>5. ASSUME NEW k \in connections, ForgetConnection(k) PROVE UnlinkedAsksNothing'
  BY <1>5 DEF ForgetConnection, UnlinkedAsksNothing, Connected
<1>6. ASSUME NEW p \in Person, BotActs(p) PROVE UnlinkedAsksNothing'
  <2>1. PICK k \in connections, after \in ConversationRow \ {"none"} :
            /\ k.active
            /\ conversations' = [conversations EXCEPT ![k.account] = after]
            /\ UNCHANGED connections
    BY <1>6 DEF BotActs
  <2> QED BY <2>1 DEF UnlinkedAsksNothing, Connected, TypeOK
<1>7. ASSUME NEW a \in Account, WorkerCommits(a) PROVE UnlinkedAsksNothing'
  BY <1>7 DEF WorkerCommits, UnlinkedAsksNothing, Connected, TypeOK, HasDraft
<1>9. ASSUME NEW a \in Account, WorkerAsks(a) PROVE UnlinkedAsksNothing'
  BY <1>9 DEF WorkerAsks, UnlinkedAsksNothing, HeldRowStays, Connected, TypeOK
<1>8. Acts \/ UNCHANGED vars
  BY NextActs
<1> QED
  BY <1>1, <1>2, <1>3, <1>4, <1>5, <1>6, <1>7, <1>8, <1>9
  DEF Acts, vars, Authenticate, Issue, EndRequest, SignIn, SignOut, ExpireSession, ForgetSession,
      Lapse, ForgetChallenge, Claim, WorkerInserts, WorkerSelects, WorkerFails

(* The lock keeps unlinking and the bot, which may take the draft away, from *)
(* a row that a worker holds.                                                *)
LEMMA HeldStep ==
    ASSUME TypeOK, HeldRowStays, [Next]_vars
    PROVE  HeldRowStays'
<1>1. CASE UNCHANGED <<conversations, worker>>
  BY <1>1 DEF HeldRowStays
<1>2. ASSUME NEW r \in Request, Unlink(r) PROVE HeldRowStays'
  BY <1>2 DEF Unlink, ConversationLocked, HeldRowStays, TypeOK
<1>3. ASSUME NEW r \in Request, DeleteAccount(r) PROVE HeldRowStays'
  BY <1>3 DEF DeleteAccount, HeldRowStays, TypeOK
<1>4. ASSUME NEW p \in Person, BotActs(p) PROVE HeldRowStays'
  BY <1>4 DEF BotActs, Holding, HeldRowStays, TypeOK, Connection
<1>5. ASSUME NEW a \in Account,
             WorkerInserts(a) \/ WorkerSelects(a) \/ WorkerCommits(a) \/ WorkerAsks(a)
             \/ WorkerFails(a)
      PROVE  HeldRowStays'
  BY <1>5 DEF WorkerInserts, WorkerSelects, WorkerCommits, WorkerAsks, WorkerFails,
              HeldRowStays, HasDraft, TypeOK
<1>6. Acts \/ UNCHANGED vars
  BY NextActs
<1> QED
  BY <1>1, <1>2, <1>3, <1>4, <1>5, <1>6
  DEF Acts, vars, Authenticate, Issue, Confirm, EndRequest, SignIn, SignOut, ExpireSession,
      ForgetSession, Lapse, ForgetChallenge, Claim, ForgetConnection

LEMMA InvNext == Inv /\ [Next]_vars => Inv'
BY TypeStep, ChallengesStep, ConsentStep, OneToOneStep, RequestsStep, AsksStep, HeldStep DEF Inv

THEOREM InvAlways == Spec => []Inv
BY InvInit, InvNext, PTL DEF Spec

-----------------------------------------------------------------------------
(* Every reachable state of linking is well typed.                           *)
THEOREM TypeCorrect == Spec => []TypeOK
<1>1. Inv => TypeOK
  BY DEF Inv
<1> QED BY InvAlways, <1>1, PTL

(* Every connection rests on a challenge of its own, claimed by its Telegram *)
(* user and confirmed from its account: claim and confirm of telegram_links. *)
THEOREM ConnectionsConsented == Spec => []ConnectionsAreConsented
<1>1. Inv => ConnectionsAreConsented
  BY DEF Inv
<1> QED BY InvAlways, <1>1, PTL

(* No account has two active connections and no Telegram user has: the two   *)
(* partial unique indexes are all that confirm() relies on.                  *)
THEOREM LinksOneToOne == Spec => []OneToOne
<1>1. Inv => OneToOne
  BY DEF Inv
<1> QED BY InvAlways, <1>1, PTL

(* An account without a connection has no active draft and no open question  *)
(* of the bot, however unlinking interleaves with lock() and with a worker   *)
(* that is about to save a question.                                         *)
THEOREM NoQuestionOutlivesLink == Spec => []UnlinkedAsksNothing
<1>1. Inv => UnlinkedAsksNothing
  BY DEF Inv
<1> QED BY InvAlways, <1>1, PTL

(* No step acts for a signed-out session: authenticate() locks the row.      *)
THEOREM SignedOutIsInert == Spec => SignedOutDoesNothing
<1> DEFINE
        NoIssue == \A c \in Challenge :
            challenges[c] = Unissued /\ challenges'[c] # Unissued
                => NotSignedOut(challenges'[c].session)
        NoLink == \A k \in connections' \ connections :
            k.active => sessions[challenges[k.challenge].session] = "open"
        NoUnlink == \A k \in connections \ connections' :
            k.active => \E s \in Session : Owner[s] = k.account /\ NotSignedOut(s)
<1>1. ASSUME Inv, [Next]_vars PROVE NoIssue
  <2> USE DEF NoIssue
  <2>1. ASSUME NEW r \in Request, NEW c \in Challenge, Issue(r, c) PROVE NoIssue
    <3>1. NotSignedOut(requests[r])
      BY <1>1, <2>1 DEF Issue, Inv, RequestsStand
    <3>2. PICK x : x.session = requests[r] /\ challenges' = [challenges EXCEPT ![c] = x]
      BY <2>1 DEF Issue
    <3> QED BY <1>1, <3>1, <3>2 DEF Inv, TypeOK
  <2>2. CASE SameButMarks
    BY <2>2 DEF SameButMarks
  <2>3. ASSUME NEW r \in Request, NEW c \in Challenge, Confirm(r, c) PROVE NoIssue
    BY <1>1, <2>3 DEF Confirm, IsConfirmable, Inv, TypeOK
  <2>4. ASSUME NEW c \in Challenge, NEW p \in Person, Claim(c, p) PROVE NoIssue
    BY <1>1, <2>4 DEF Claim, IsClaimable, Inv, TypeOK
  <2>5. Acts \/ UNCHANGED vars
    BY <1>1, NextActs
  <2>6. \/ SameButMarks
        \/ \E r \in Request, c \in Challenge : Issue(r, c) \/ Confirm(r, c)
        \/ \E c \in Challenge, p \in Person : Claim(c, p)
    BY <1>1, <2>5, Marks
    DEF Inv, Acts, vars, Authenticate, Unlink, EndRequest, SignIn, SignOut, ExpireSession,
        WorkerInserts, WorkerSelects, WorkerCommits, WorkerAsks, WorkerFails, BotActs, ForgetConnection
  <2> QED BY <2>1, <2>2, <2>3, <2>4, <2>6
<1>2. ASSUME Inv, [Next]_vars PROVE NoLink
  <2>1. CASE Shrinks
    BY <2>1 DEF Shrinks
  <2>2. ASSUME NEW r \in Request, Unlink(r) PROVE NoLink
    BY <1>2, <2>2, UnlinkedRows DEF Unlink, Inv
  <2>3. ASSUME NEW r \in Request, NEW c \in Challenge, Confirm(r, c) PROVE NoLink
    BY <1>2, <2>3, ConfirmedRow DEF Inv
  <2> QED BY <1>2, ConnectionsStep, <2>1, <2>2, <2>3
<1>3. ASSUME Inv, [Next]_vars PROVE NoUnlink
  <2>1. CASE connections \subseteq connections'
    BY <2>1
  <2>2. ASSUME NEW k \in connections, ForgetConnection(k) PROVE NoUnlink
    BY <2>2 DEF ForgetConnection
  <2>3. ASSUME NEW r \in Request, Unlink(r) \/ DeleteAccount(r) PROVE NoUnlink
    <3> DEFINE s == requests[r]
    <3>1. s \in Session /\ NotSignedOut(s)
      BY <1>3, <2>3 DEF Inv, TypeOK, RequestsStand, Unlink, DeleteAccount
    <3>2. \A k \in connections \ connections' : k.active => k.account = Owner[s]
      <4> SUFFICES ASSUME NEW k \in connections, k \notin connections', k.active,
                          k.account # Owner[s]
                   PROVE  FALSE
        OBVIOUS
      <4>1. Unlinked(k, Owner[s]) = k
        BY <1>3, UnlinkedRows DEF Inv
      <4> QED BY <2>3, <4>1 DEF Unlink, DeleteAccount
    <3> QED BY <3>1, <3>2
  <2>4. Acts \/ UNCHANGED vars
    BY <1>3, NextActs
  <2> QED
    BY <2>1, <2>2, <2>3, <2>4
    DEF Acts, vars, Authenticate, Issue, Confirm, EndRequest, SignIn, SignOut, ExpireSession,
        ForgetSession, Lapse, ForgetChallenge, Claim, WorkerInserts, WorkerSelects, WorkerCommits,
        WorkerAsks, WorkerFails, BotActs
<1>4. Inv /\ [Next]_vars => [NoIssue /\ NoLink /\ NoUnlink]_vars
  BY <1>1, <1>2, <1>3
<1> QED BY InvAlways, <1>4, PTL DEF Spec, SignedOutDoesNothing
-----------------------------------------------------------------------------
\* The refinement: only confirming, unlinking and deleting the account change
\* the links.
LEMMA ConfirmConnects ==
    ASSUME Inv, NEW r \in Request, NEW c \in Challenge, Confirm(r, c)
    PROVE  Contract!Next
<1>1. PICK n \in Connection :
          /\ connections' = connections \cup {n}
          /\ n.active /\ n.account \in Account /\ n.person \in Person
          /\ \A k \in connections : k.active => k.account # n.account /\ k.person # n.person
  BY ConfirmedRow DEF Inv
<1>2. Links' = Links \cup {<<n.account, n.person>>}
  BY <1>1 DEF Links
<1>3. \A l \in Links : l[1] # n.account /\ l[2] # n.person
  BY <1>1 DEF Links
<1>4. Contract!Connect(n.account, n.person)
  BY <1>2, <1>3 DEF Contract!Connect
<1> QED BY <1>1, <1>4 DEF Contract!Next

(* When exactly the links of one account go, at most one of them goes.       *)
LEMMA OneLinkGoes ==
    ASSUME Inv, NEW a \in Account, Links' = {l \in Links : l[1] # a}
    PROVE  Contract!Next \/ Links' = Links
<1>1. CASE Connected(a)
  <2>1. PICK k \in connections : k.active /\ k.account = a
    BY <1>1 DEF Connected
  <2>2. k.person \in Person
    BY <2>1 DEF Inv, TypeOK, Connection
  <2>3. \A l \in Links : l[1] = a => l = <<a, k.person>>
    BY <2>1 DEF Links, Inv, OneToOne
  <2>4. <<a, k.person>>[1] = a
    OBVIOUS
  <2>5. Links' = Links \ {<<a, k.person>>}
    BY <2>3, <2>4
  <2> QED BY <2>2, <2>5 DEF Contract!Next, Contract!Disconnect
<1>2. CASE ~Connected(a)
  <2>1. \A l \in Links : l[1] # a
    BY <1>2 DEF Links, Connected
  <2> QED BY <2>1
<1> QED BY <1>1, <1>2

LEMMA UnlinkDisconnects ==
    ASSUME Inv, NEW r \in Request, Unlink(r)
    PROVE  Contract!Next \/ Links' = Links
<1> DEFINE a == Owner[requests[r]]
<1>1. a \in Account
  BY DEF Unlink, Inv, TypeOK
<1>2. connections' = {Unlinked(k, a) : k \in connections}
  BY DEF Unlink
<1>3. \A k \in connections :
          /\ Unlinked(k, a).active <=> k.active /\ k.account # a
          /\ Unlinked(k, a).active => Unlinked(k, a) = k
  BY UnlinkedRows DEF Inv
<1>4. {k \in connections' : k.active} = {k \in connections : k.active /\ k.account # a}
  BY <1>2, <1>3
<1>5. Links' = {l \in Links : l[1] # a}
  BY <1>4 DEF Links
<1> QED BY <1>1, <1>5, OneLinkGoes

LEMMA DeletionDisconnects ==
    ASSUME Inv, NEW r \in Request, DeleteAccount(r)
    PROVE  Contract!Next \/ Links' = Links
<1> DEFINE a == Owner[requests[r]]
<1>1. a \in Account /\ connections' = {k \in connections : k.account # a}
  BY DEF DeleteAccount, Inv, TypeOK
<1>2. Links' = {l \in Links : l[1] # a}
  BY <1>1 DEF Links
<1> QED BY <1>1, <1>2, OneLinkGoes

(* Linking implements LinkContract: one to one, and no link passes on.       *)
THEOREM LinkingImplementsContract == Spec => ImplementsContract
<1>1. Init => Contract!Init
  BY DEF Init, Contract!Init, Links
<1>2. Inv /\ [Next]_vars => [Contract!Next]_Links
  <2> SUFFICES ASSUME Inv, [Next]_vars PROVE Contract!Next \/ Links' = Links
    OBVIOUS
  <2>1. CASE UNCHANGED connections
    BY <2>1 DEF Links
  <2>2. ASSUME NEW k \in connections, ForgetConnection(k) PROVE Links' = Links
    BY <2>2 DEF ForgetConnection, Links
  <2>3. Acts \/ UNCHANGED vars
    BY NextActs
  <2> QED
    BY <2>1, <2>2, <2>3, ConfirmConnects, UnlinkDisconnects, DeletionDisconnects
    DEF Acts, vars, Authenticate, Issue, EndRequest, SignIn, SignOut, ExpireSession,
        ForgetSession, Lapse, ForgetChallenge, Claim, WorkerInserts, WorkerSelects, WorkerCommits,
        WorkerAsks, WorkerFails, BotActs
<1> QED BY InvAlways, <1>1, <1>2, PTL DEF Spec, ImplementsContract, Contract!Spec
=============================================================================
