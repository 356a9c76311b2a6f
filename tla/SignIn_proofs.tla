---------------------------- MODULE SignIn_proofs ----------------------------
(***************************************************************************)
(* Proofs about SignIn, for every number of users, addresses, links,       *)
(* requests and sign-ins at once, and for all limits.                      *)
(*                                                                         *)
(* Accounts says what the link's row, the lock on the address and the      *)
(* user's row together give a sign-in: what it read is so until it ends.   *)
(* It is said of the last backup as well, which a restore makes the        *)
(* tables.  Counts says that a mail is paid for by a reservation, before   *)
(* and after it is sent.                                                   *)
(***************************************************************************)
EXTENDS SignIn, TLAPS, FiniteSetTheorems

USE NoEmailAssumption, NoUserAssumption, NoLinkAssumption, LimitAssumption

-----------------------------------------------------------------------------
(* Types.                                                                  *)

LEMMA EmptyRows ==
    /\ UnusedLink \in LinkType /\ RemovedLink \in LinkType /\ NoAsk \in AskType
    /\ NoVisit \in VisitType /\ NoSession \in [user : User \cup {NoUser}, open : BOOLEAN]
    /\ NoBackup \in TablesType
<1>1. UnusedLink \in LinkType
  BY DEF UnusedLink, LinkType
<1>2. RemovedLink \in LinkType
  BY DEF UnusedLink, RemovedLink, LinkType
<1>3. NoAsk \in AskType /\ NoVisit \in VisitType
  BY DEF NoAsk, AskType, NoVisit, VisitType, Window
<1>4. NoSession \in [user : User \cup {NoUser}, open : BOOLEAN]
  BY DEF NoSession
<1> QED
  BY <1>1, <1>2, <1>3, <1>4 DEF NoBackup, TablesType

\* The tables, one by one.
LEMMA TablesAre ==
    Tables \in TablesType <=>
        /\ address \in [User -> Email \cup {NoEmail}] /\ links \in [Link -> LinkType]
        /\ sessions \in [Link -> [user : User \cup {NoUser}, open : BOOLEAN]]
        /\ tombstones \in [User -> {"none", "fresh", "old"}]
BY DEF Tables, TablesType

\* A step of a request for a link that changes no table.
LEMMA AskTypes ==
    ASSUME TypeOK, UNCHANGED <<tables, fate, visits, deletion, backup, serving, window>>,
           asks' \in [Ask -> AskType], network' \in [Window -> Nat], sent' \in [Window -> Nat],
           delivery' \in [Email -> [Window -> Nat]], mails' \in [Email -> [Window -> Nat]]
    PROVE  TypeOK'
BY DEF TypeOK, tables, Tables

\* A step of a sign-in or a deletion that writes no table.
LEMMA VisitTypes ==
    ASSUME TypeOK, UNCHANGED <<tables, fate, window, buckets, asks, backup>>,
           visits' \in [Visit -> VisitType], deletion' \in User \cup {NoUser}, serving' \in BOOLEAN
    PROVE  TypeOK'
BY DEF TypeOK, tables, buckets, Tables

\* A step that writes tables.
LEMMA TableTypes ==
    ASSUME TypeOK, UNCHANGED <<buckets, asks, backup, serving>>, window' = window,
           address' \in [User -> Email \cup {NoEmail}], links' \in [Link -> LinkType],
           sessions' \in [Link -> [user : User \cup {NoUser}, open : BOOLEAN]],
           tombstones' \in [User -> {"none", "fresh", "old"}],
           fate' \in [User -> {"unissued", "issued", "deleted"}],
           visits' \in [Visit -> VisitType], deletion' \in User \cup {NoUser}
    PROVE  TypeOK'
<1>1. Tables' \in TablesType
  BY DEF Tables, TablesType
<1> QED
  BY <1>1 DEF TypeOK, buckets

LEMMA TypeInit == Init => TypeOK
<1>1. Window # {} /\ 1 \in Window
  BY DEF Window
<1>2. Init => Tables = NoBackup
  BY DEF Init, Tables, NoBackup
<1> QED
  BY <1>1, <1>2, EmptyRows DEF Init, TypeOK

LEMMA CurrentTypes ==
    ASSUME TypeOK
    PROVE  /\ address \in [User -> Email \cup {NoEmail}] /\ links \in [Link -> LinkType]
           /\ sessions \in [Link -> [user : User \cup {NoUser}, open : BOOLEAN]]
           /\ tombstones \in [User -> {"none", "fresh", "old"}]
           /\ \A a \in Ask : /\ asks[a].stage \in {"none", "network", "address", "store", "send"}
                             /\ asks[a].email \in Email \cup {NoEmail} /\ asks[a].window \in Window
           /\ \A v \in Visit : /\ visits[v].stage \in {"none", "taken", "locked", "found"}
                               /\ visits[v].link \in Link \cup {NoLink}
                               /\ visits[v].user \in User \cup {NoUser}
BY TablesAre DEF TypeOK, AskType, VisitType

\* One more, of an address and a window, in a table of counts.
LEMMA CountOneMore ==
    ASSUME NEW counts \in [Email -> [Window -> Nat]], NEW e, NEW w \in Window
    PROVE  [counts EXCEPT ![e] = [counts[e] EXCEPT ![w] = counts[e][w] + 1]]
               \in [Email -> [Window -> Nat]]
<1>1. CASE e \in Email
  <2>1. counts[e] \in [Window -> Nat]
    BY <1>1
  <2>2. [counts[e] EXCEPT ![w] = counts[e][w] + 1] \in [Window -> Nat]
    BY <2>1
  <2> QED
    BY <2>2
<1>2. CASE e \notin Email
  BY <1>2
<1> QED
  BY <1>1, <1>2

LEMMA AskStepTypes ==
    ASSUME TypeOK, NEW a \in Ask,
           \/ \E e \in Email : RequestLink(a, e)
           \/ ReserveNetwork(a) \/ ReserveAddress(a)
           \/ \E l \in Link : StoreChallenge(a, l)
           \/ SendMagicLink(a) \/ AbandonRequest(a)
    PROVE  TypeOK'
<1> DEFINE ask == asks[a]
           e == ask.email
           w == ask.window
<1>1. /\ asks \in [Ask -> AskType] /\ ask \in AskType
      /\ e \in Email \cup {NoEmail} /\ w \in Window /\ window \in Window
      /\ network \in [Window -> Nat] /\ sent \in [Window -> Nat]
      /\ delivery \in [Email -> [Window -> Nat]] /\ mails \in [Email -> [Window -> Nat]]
  BY DEF TypeOK, AskType
<1>2. ASSUME NEW new \in AskType PROVE [asks EXCEPT ![a] = new] \in [Ask -> AskType]
  BY <1>1
<1>3. ASSUME NEW stage \in {"address", "store", "send"}
      PROVE  [ask EXCEPT !.stage = stage] \in AskType
  BY <1>1 DEF AskType
<1>4. CASE \E x \in Email : RequestLink(a, x)
  <2>1. PICK x \in Email : RequestLink(a, x)
    BY <1>4
  <2> DEFINE new == [stage |-> "network", email |-> x, window |-> window, link |-> NoLink]
  <2>2. new \in AskType
    BY <1>1 DEF AskType
  <2>3. asks' = [asks EXCEPT ![a] = new]
    BY <2>1 DEF RequestLink
  <2> HIDE DEF new
  <2> QED
    BY <1>1, <1>2, <2>1, <2>2, <2>3, AskTypes DEF RequestLink, buckets
<1>5. CASE ReserveNetwork(a)
  <2>1. network' \in [Window -> Nat]
    BY <1>1, <1>5 DEF ReserveNetwork
  <2>2. asks' = [asks EXCEPT ![a] = [ask EXCEPT !.stage = "address"]] \/ asks' = [asks EXCEPT ![a] = NoAsk]
    BY <1>5 DEF ReserveNetwork
  <2>3. asks' \in [Ask -> AskType]
    BY <1>2, <1>3, <2>2, EmptyRows
  <2> QED
    BY <1>1, <1>5, <2>1, <2>3, AskTypes DEF ReserveNetwork
<1>6. CASE ReserveAddress(a)
  <2>1. delivery' \in [Email -> [Window -> Nat]]
    <3>1. \/ delivery' = delivery
          \/ delivery' = [delivery EXCEPT ![e] = [delivery[e] EXCEPT ![w] = delivery[e][w] + 1]]
      BY <1>6 DEF ReserveAddress
    <3>2. [delivery EXCEPT ![e] = [delivery[e] EXCEPT ![w] = delivery[e][w] + 1]]
              \in [Email -> [Window -> Nat]]
      BY <1>1, CountOneMore
    <3> QED
      BY <1>1, <3>1, <3>2
  <2>2. asks' = [asks EXCEPT ![a] = [ask EXCEPT !.stage = "store"]] \/ asks' = [asks EXCEPT ![a] = NoAsk]
    BY <1>6 DEF ReserveAddress
  <2>3. asks' \in [Ask -> AskType]
    BY <1>2, <1>3, <2>2, EmptyRows
  <2> QED
    BY <1>1, <1>6, <2>1, <2>3, AskTypes DEF ReserveAddress
<1>7. CASE \E l \in Link : StoreChallenge(a, l)
  <2>1. PICK l \in Link : StoreChallenge(a, l)
    BY <1>7
  <2> DEFINE new == [state |-> "open", email |-> e, lapsed |-> FALSE, signIns |-> 0]
             held == [ask EXCEPT !.stage = "send", !.link = l]
  <2>2. new \in LinkType /\ held \in AskType
    BY <1>1 DEF LinkType, AskType
  <2>3. links' = [links EXCEPT ![l] = new] /\ asks' = [asks EXCEPT ![a] = held]
    BY <2>1 DEF StoreChallenge
  <2> HIDE DEF new, held
  <2>4. links' \in [Link -> LinkType] /\ asks' \in [Ask -> AskType]
    BY <1>2, <2>2, <2>3, CurrentTypes
  <2>5. Tables' \in TablesType
    BY <2>1, <2>4, CurrentTypes DEF StoreChallenge, Tables, TablesType
  <2> QED
    BY <2>1, <2>4, <2>5 DEF StoreChallenge, TypeOK, buckets
<1>8. CASE SendMagicLink(a)
  <2>1. asks' \in [Ask -> AskType]
    BY <1>2, <1>8, EmptyRows DEF SendMagicLink
  <2>2. /\ mails' = [mails EXCEPT ![e] = [mails[e] EXCEPT ![w] = mails[e][w] + 1]]
        /\ sent' = [sent EXCEPT ![w] = sent[w] + 1]
    BY <1>8 DEF SendMagicLink
  <2>3. mails' \in [Email -> [Window -> Nat]] /\ sent' \in [Window -> Nat]
    BY <1>1, <2>2, CountOneMore
  <2> QED
    BY <1>1, <1>8, <2>1, <2>3, AskTypes DEF SendMagicLink
<1>9. CASE AbandonRequest(a)
  BY <1>1, <1>2, <1>9, EmptyRows, AskTypes DEF AbandonRequest, buckets
<1> QED
  BY <1>4, <1>5, <1>6, <1>7, <1>8, <1>9

LEMMA UsedRow ==
    ASSUME NEW row \in LinkType
    PROVE  /\ Used(row) \in LinkType /\ Used(row).state = "used"
           /\ Used(row).email = row.email /\ Used(row).signIns = row.signIns + 1
<1>1. ASSUME NEW n \in Nat
      PROVE  LET used == [row EXCEPT !.state = "used", !.signIns = n]
             IN  /\ used \in LinkType /\ used.state = "used"
                 /\ used.email = row.email /\ used.signIns = n
  BY DEF LinkType
<1> DEFINE more == row.signIns + 1
<1>2. more \in Nat /\ Used(row) = [row EXCEPT !.state = "used", !.signIns = more]
  BY DEF LinkType, Used
<1> HIDE DEF more
<1>3. Used(row) \in LinkType /\ Used(row).state = "used"
      /\ Used(row).email = row.email /\ Used(row).signIns = more
  BY <1>1, <1>2
<1> QED
  BY <1>3 DEF more

LEMMA LapsedRow ==
    ASSUME NEW row \in LinkType
    PROVE  LET lapsed == [row EXCEPT !.lapsed = TRUE]
           IN  /\ lapsed \in LinkType /\ lapsed.state = row.state
               /\ lapsed.email = row.email /\ lapsed.signIns = row.signIns
<1>1. ASSUME NEW b \in BOOLEAN
      PROVE  LET lapsed == [row EXCEPT !.lapsed = b]
             IN  /\ lapsed \in LinkType /\ lapsed.state = row.state
                 /\ lapsed.email = row.email /\ lapsed.signIns = row.signIns
  BY DEF LinkType
<1> QED
  BY <1>1

\* What the commit of a sign-in writes.
LEMMA CompleteIs ==
    ASSUME NEW v, NEW u, Complete(v, u)
    PROVE  /\ links' = [links EXCEPT ![visits[v].link] = Used(links[visits[v].link])]
           /\ sessions' = [sessions EXCEPT ![visits[v].link] = [user |-> u, open |-> TRUE]]
           /\ visits' = [visits EXCEPT ![v] = NoVisit]
BY DEF Complete

\* A sign-in that has begun has a link.
Linked == \A v \in Visit : visits[v].stage # "none" => visits[v].link \in Link

LEMMA VisitStepTypes ==
    ASSUME TypeOK, Linked, NEW v \in Visit,
           \/ \E l \in Link : TakeLink(v, l)
           \/ LockAddress(v) \/ ReadIdentity(v) \/ SignInAgain(v) \/ AbortVisit(v)
           \/ \E u \in User : SignUp(v, u)
    PROVE  TypeOK' /\ Linked'
<1> DEFINE visit == visits[v]
<1>1. visits \in [Visit -> VisitType] /\ visit \in VisitType /\ deletion \in User \cup {NoUser}
      /\ serving \in BOOLEAN /\ fate \in [User -> {"unissued", "issued", "deleted"}]
  BY DEF TypeOK
<1>2. ASSUME NEW new \in VisitType, new.stage # "none" => new.link \in Link,
             visits' = [visits EXCEPT ![v] = new]
      PROVE  visits' \in [Visit -> VisitType] /\ Linked'
  BY <1>1, <1>2 DEF Linked
<1>3. ASSUME NEW stage \in {"locked", "found"}
      PROVE  /\ [visit EXCEPT !.stage = stage] \in VisitType
             /\ [visit EXCEPT !.stage = stage].link = visit.link
             /\ \A u \in User : /\ [visit EXCEPT !.stage = stage, !.user = u] \in VisitType
                               /\ [visit EXCEPT !.stage = stage, !.user = u].link = visit.link
  BY <1>1 DEF VisitType
<1> visit.stage # "none" => visit.link \in Link
  BY DEF Linked
<1> NoVisit \in VisitType /\ NoVisit.stage = "none"
  BY EmptyRows DEF NoVisit
<1>4. CASE \E l \in Link : TakeLink(v, l)
  <2>1. PICK l \in Link : TakeLink(v, l)
    BY <1>4
  <2> DEFINE new == [stage |-> "taken", link |-> l, user |-> NoUser]
  <2>2. new \in VisitType /\ new.link \in Link /\ visits' = [visits EXCEPT ![v] = new]
    BY <2>1 DEF VisitType, TakeLink
  <2> HIDE DEF new
  <2> QED
    BY <1>1, <1>2, <2>1, <2>2, VisitTypes DEF TakeLink
<1>5. CASE LockAddress(v)
  <2>1. visits' = [visits EXCEPT ![v] = [visit EXCEPT !.stage = "locked"]] /\ visit.stage = "taken"
    BY <1>5 DEF LockAddress
  <2> QED
    BY <1>1, <1>2, <1>3, <1>5, <2>1, VisitTypes DEF LockAddress
<1>6. CASE ReadIdentity(v)
  <2>1. \/ visits' = [visits EXCEPT ![v] = [visit EXCEPT !.stage = "found"]]
        \/ \E u \in User : visits' = [visits EXCEPT ![v] = [visit EXCEPT !.stage = "found", !.user = u]]
    BY <1>6 DEF ReadIdentity, Users
  <2>2. visits' \in [Visit -> VisitType] /\ Linked'
    <3>1. visit.stage = "locked"
      BY <1>6 DEF ReadIdentity
    <3> QED
      BY <1>2, <1>3, <2>1, <3>1
  <2> QED
    BY <1>1, <1>6, <2>2, VisitTypes DEF ReadIdentity
<1>7. CASE AbortVisit(v)
  BY <1>1, <1>2, <1>7, VisitTypes DEF AbortVisit
<1>8. ASSUME NEW u \in User, Complete(v, u)
      PROVE  /\ links' \in [Link -> LinkType] /\ visits' \in [Visit -> VisitType] /\ Linked'
             /\ sessions' \in [Link -> [user : User \cup {NoUser}, open : BOOLEAN]]
  <2> DEFINE l == visit.link
             used == Used(links[l])
             new == [user |-> u, open |-> TRUE]
  <2>1. /\ links' = [links EXCEPT ![l] = used] /\ sessions' = [sessions EXCEPT ![l] = new]
        /\ visits' = [visits EXCEPT ![v] = NoVisit]
    BY <1>8, CompleteIs
  <2>2. l \in Link => used \in LinkType
    BY UsedRow, CurrentTypes
  <2>3. new \in [user : User \cup {NoUser}, open : BOOLEAN]
    OBVIOUS
  <2>4. visits' \in [Visit -> VisitType] /\ Linked'
    BY <1>2, <2>1
  <2> HIDE DEF used, new, l
  <2> QED
    BY <2>1, <2>2, <2>3, <2>4, CurrentTypes
<1>9. CASE \E u \in User : SignUp(v, u)
  <2>1. PICK u \in User : SignUp(v, u)
    BY <1>9
  <2>2. Complete(v, u) /\ UNCHANGED <<tombstones, window, buckets, asks, deletion, backup, serving>>
        /\ address' = [address EXCEPT ![u] = AddressOf(v)] /\ fate' = [fate EXCEPT ![u] = "issued"]
    BY <2>1 DEF SignUp
  <2>3. AddressOf(v) \in Email \cup {NoEmail}
    <3>1. visit.link \in Link
      BY <2>1 DEF SignUp
    <3> QED
      BY <3>1, CurrentTypes DEF AddressOf, LinkType
  <2>4. address' \in [User -> Email \cup {NoEmail}]
    BY <2>2, <2>3, CurrentTypes
  <2> QED
    BY <1>1, <1>8, <2>2, <2>4, CurrentTypes, TableTypes
<1>10. CASE SignInAgain(v)
  <2>1. visit.user \in User
    BY <1>1, <1>10, CurrentTypes DEF SignInAgain
  <2>2. Complete(v, visit.user)
        /\ UNCHANGED <<address, tombstones, fate, window, buckets, asks, deletion, backup, serving>>
    BY <1>10 DEF SignInAgain
  <2> QED
    BY <1>1, <1>8, <2>1, <2>2, CurrentTypes, TableTypes
<1> QED
  BY <1>4, <1>5, <1>6, <1>7, <1>9, <1>10

LEMMA EndingStepTypes ==
    ASSUME TypeOK, Linked,
           \/ \E l \in Link : SignOut(l) \/ LinkLapses(l) \/ RemoveLink(l) \/ RemoveSession(l)
           \/ \E u \in User : LockUser(u) \/ TombstoneAges(u) \/ PruneTombstone(u)
           \/ DeleteAccount \/ AbortDeletion
    PROVE  TypeOK' /\ Linked'
<1> DEFINE SessionType == [user : User \cup {NoUser}, open : BOOLEAN]
<1>1. /\ visits \in [Visit -> VisitType] /\ deletion \in User \cup {NoUser} /\ serving \in BOOLEAN
      /\ fate \in [User -> {"unissued", "issued", "deleted"}]
      /\ address \in [User -> Email \cup {NoEmail}] /\ links \in [Link -> LinkType]
      /\ sessions \in [Link -> SessionType] /\ tombstones \in [User -> {"none", "fresh", "old"}]
  BY CurrentTypes DEF TypeOK
<1>2. visits' = visits => Linked'
  BY DEF Linked
<1>3. CASE \E l \in Link : SignOut(l)
  <2>1. PICK l \in Link : SignOut(l)
    BY <1>3
  <2>2. sessions' = [sessions EXCEPT ![l] = [sessions[l] EXCEPT !.open = FALSE]]
    BY <2>1 DEF SignOut
  <2>3. \A s \in SessionType : [s EXCEPT !.open = FALSE] \in SessionType
    OBVIOUS
  <2>4. sessions \in [Link -> SessionType]
    BY <1>1
  <2>5. sessions' \in [Link -> SessionType]
    <3> HIDE DEF SessionType
    <3> QED BY <2>2, <2>3, <2>4
  <2> QED
    BY <1>1, <1>2, <2>1, <2>5, TableTypes DEF SignOut
<1>4. CASE \E l \in Link : LinkLapses(l)
  <2>1. PICK l \in Link : LinkLapses(l)
    BY <1>4
  <2>2. links' = [links EXCEPT ![l] = [links[l] EXCEPT !.lapsed = TRUE]]
    BY <2>1 DEF LinkLapses
  <2>3. [links[l] EXCEPT !.lapsed = TRUE] \in LinkType
    BY <1>1, LapsedRow
  <2>4. links' \in [Link -> LinkType]
    BY <1>1, <2>2, <2>3
  <2> QED
    BY <1>1, <1>2, <2>1, <2>4, TableTypes DEF LinkLapses
<1>5. CASE \E l \in Link : RemoveLink(l) \/ RemoveSession(l)
  <2>1. PICK l \in Link : RemoveLink(l) \/ RemoveSession(l)
    BY <1>5
  <2>2. links' \in [Link -> LinkType] /\ sessions' \in [Link -> SessionType]
    BY <1>1, <2>1, EmptyRows DEF RemoveLink, RemoveSession
  <2> QED
    BY <1>1, <1>2, <2>1, <2>2, TableTypes DEF RemoveLink, RemoveSession
<1>6. CASE (\E u \in User : LockUser(u)) \/ AbortDeletion
  BY <1>1, <1>2, <1>6, VisitTypes DEF LockUser, AbortDeletion
<1>7. CASE \E u \in User : TombstoneAges(u) \/ PruneTombstone(u)
  <2>1. PICK u \in User : TombstoneAges(u) \/ PruneTombstone(u)
    BY <1>7
  <2>2. tombstones' \in [User -> {"none", "fresh", "old"}]
    BY <1>1, <2>1 DEF TombstoneAges, PruneTombstone
  <2> QED
    BY <1>1, <1>2, <2>1, <2>2, TableTypes DEF TombstoneAges, PruneTombstone
<1>8. CASE DeleteAccount
  <2>1. links' \in [Link -> LinkType]
    BY <1>1, <1>8, EmptyRows DEF DeleteAccount
  <2>2. sessions' \in [Link -> SessionType]
    BY <1>1, <1>8, EmptyRows DEF DeleteAccount
  <2>3. /\ address' \in [User -> Email \cup {NoEmail}]
        /\ tombstones' \in [User -> {"none", "fresh", "old"}]
        /\ fate' \in [User -> {"unissued", "issued", "deleted"}]
        /\ deletion' \in User \cup {NoUser}
        /\ UNCHANGED <<window, buckets, asks, visits, backup, serving>>
    BY <1>1, <1>8 DEF DeleteAccount
  <2> QED
    BY <1>1, <1>2, <2>1, <2>2, <2>3, TableTypes
<1> QED
  BY <1>3, <1>4, <1>5, <1>6, <1>7, <1>8

LEMMA TimeStepTypes ==
    ASSUME TypeOK, Linked,
           NextWindow \/ (\E w \in Window : ForgetBuckets(w)) \/ BackUp \/ Restore \/ ReturnTraffic
    PROVE  TypeOK' /\ Linked'
<1>1. CASE NextWindow
  <2>1. window' \in Window
    BY <1>1 DEF NextWindow, TypeOK, Window
  <2> QED
    BY <1>1, <2>1 DEF NextWindow, TypeOK, Linked, Tables, tables, buckets
<1>2. CASE \E w \in Window : ForgetBuckets(w)
  <2>1. network' \in [Window -> Nat] /\ delivery' \in [Email -> [Window -> Nat]]
    BY <1>2 DEF ForgetBuckets, TypeOK
  <2> QED
    BY <1>2, <2>1 DEF ForgetBuckets, TypeOK, Linked, Tables, tables
<1>3. CASE BackUp
  <2>1. backup' \in TablesType /\ Tables' = Tables
    BY <1>3 DEF BackUp, TypeOK, Tables, tables
  <2> QED
    BY <1>3, <2>1 DEF BackUp, TypeOK, Linked, buckets
<1>4. CASE Restore
  <2>1. window' \in Window
    BY <1>4 DEF Restore, TypeOK, Window
  <2>2. /\ backup.address \in [User -> Email \cup {NoEmail}] /\ backup.links \in [Link -> LinkType]
        /\ backup.sessions \in [Link -> [user : User \cup {NoUser}, open : BOOLEAN]]
        /\ backup.tombstones \in [User -> {"none", "fresh", "old"}]
    BY DEF TypeOK, TablesType
  <2>3. Tables' \in TablesType
    BY <1>4, <2>2 DEF Restore, Tables, TablesType
  <2>4. asks' \in [Ask -> AskType] /\ visits' \in [Visit -> VisitType]
    BY <1>4, EmptyRows DEF Restore
  <2>5. Linked'
    BY <1>4 DEF Restore, Linked, NoVisit
  <2> QED
    BY <1>4, <2>1, <2>3, <2>4, <2>5 DEF Restore, TypeOK, buckets
<1>5. CASE ReturnTraffic
  BY <1>5 DEF ReturnTraffic, TypeOK, Linked, Tables, tables, buckets
<1> QED
  BY <1>1, <1>2, <1>3, <1>4, <1>5

LEMMA TypeStep == TypeOK /\ Linked /\ [Next]_vars => TypeOK' /\ Linked'
<1> SUFFICES ASSUME TypeOK, Linked, [Next]_vars PROVE TypeOK' /\ Linked'
  OBVIOUS
<1>1. CASE BreakDeadlock
  BY <1>1, VisitStepTypes, EndingStepTypes DEF BreakDeadlock
<1>2. ASSUME NEW a \in Ask,
             \/ \E e \in Email : RequestLink(a, e)
             \/ ReserveNetwork(a) \/ ReserveAddress(a)
             \/ \E l \in Link : StoreChallenge(a, l)
             \/ SendMagicLink(a) \/ AbandonRequest(a)
      PROVE  Linked'
  BY <1>2 DEF Linked, RequestLink, ReserveNetwork, ReserveAddress, StoreChallenge, SendMagicLink,
              AbandonRequest
<1>3. CASE UNCHANGED vars
  BY <1>3 DEF vars, TypeOK, Linked, Tables
<1>4. CASE Next
  BY <1>1, <1>2, <1>4, AskStepTypes, VisitStepTypes, EndingStepTypes, TimeStepTypes DEF Next
<1> QED
  BY <1>3, <1>4

-----------------------------------------------------------------------------
(* Links, users, sign-ins and deletions.                                   *)

\* An open link has opened no session and a used one has opened one.
RowKept(row) ==
    /\ row.state = "open" => row.signIns = 0 /\ row.email \in Email
    /\ row.state = "used" => row.signIns = 1

RowsKept(rows) == \A l \in Link : RowKept(rows[l])

\* A user has no tombstone, and an id in either table has been issued.
UsersKept(users, stones) ==
    \A u \in User : /\ users[u] # NoEmail => stones[u] = "none" /\ fate[u] # "unissued"
                    /\ stones[u] # "none" => fate[u] # "unissued"

\* v holds the lock of its address.
Locks(v) == visits[v].stage \in {"locked", "found"}

\* A sign-in holds an open link, and what it read is so.
VisitHeld(v) ==
    /\ visits[v].stage = "none" => visits[v] = NoVisit
    /\ visits[v].stage # "none" => /\ visits[v].link \in Link
                                   /\ links[visits[v].link].state = "open"
    /\ visits[v].stage # "found" => visits[v].user = NoUser
    /\ visits[v].stage = "found" =>
            /\ visits[v].user = NoUser => Users(AddressOf(v)) = {}
            /\ visits[v].user # NoUser => /\ address[visits[v].user] = AddressOf(v)
                                          /\ deletion # visits[v].user

\* No two sign-ins hold one link or one address.
Apart(v, o) ==
    /\ visits[v].stage # "none" /\ visits[o].stage # "none" => visits[v].link # visits[o].link
    /\ Locks(v) /\ Locks(o) => AddressOf(v) # AddressOf(o)

VisitsHeld ==
    /\ \A v \in Visit : VisitHeld(v)
    /\ \A v, o \in Visit : v # o => Apart(v, o)

DeletionHeld == deletion # NoUser => address[deletion] # NoEmail

\* A request that runs is one for an address, and no window of it is to come.
Asked ==
    \A a \in Ask : /\ asks[a].stage = "none" => asks[a] = NoAsk
                   /\ asks[a].stage # "none" => asks[a].email \in Email
                   /\ asks[a].window <= window

\* The inductive invariant of the accounts.
Accounts ==
    /\ RowsKept(links) /\ RowsKept(backup.links)
    /\ UsersKept(address, tombstones) /\ UsersKept(backup.address, backup.tombstones)
    /\ VisitsHeld
    /\ DeletionHeld

LEMMA AccountsInit == Init => Accounts
<1> SUFFICES ASSUME Init PROVE Accounts
  OBVIOUS
<1>1. RowsKept(links) /\ RowsKept(backup.links)
  BY DEF Init, NoBackup, UnusedLink, RowsKept, RowKept
<1>2. UsersKept(address, tombstones) /\ UsersKept(backup.address, backup.tombstones)
  BY DEF Init, NoBackup, UsersKept
<1>3. VisitsHeld
  BY DEF Init, NoVisit, VisitsHeld, VisitHeld, Apart, Locks
<1> QED
  BY <1>1, <1>2, <1>3 DEF Accounts, DeletionHeld, Init

\* A step that writes neither links, users nor sign-ins.
LEMMA AccountsFrame ==
    ASSUME Accounts, UNCHANGED <<address, links, tombstones, fate, visits, deletion, backup>>
    PROVE  Accounts'
<1>1. RowsKept(links)' /\ RowsKept(backup.links)'
  BY DEF Accounts, RowsKept
<1>2. UsersKept(address, tombstones)' /\ UsersKept(backup.address, backup.tombstones)'
  BY DEF Accounts, UsersKept
<1>3. VisitsHeld'
  BY DEF Accounts, VisitsHeld, VisitHeld, Apart, Locks, AddressOf, Users
<1> QED
  BY <1>1, <1>2, <1>3 DEF Accounts, DeletionHeld

\* One link's row changes, and if a sign-in holds it neither its state nor its address does.
LEMMA AccountsLink ==
    ASSUME TypeOK, Accounts, NEW l \in Link, NEW row,
           UNCHANGED <<address, tombstones, fate, visits, deletion, backup>>,
           links' = [links EXCEPT ![l] = row], RowKept(row),
           Taken(l) => row.state = links[l].state /\ row.email = links[l].email
    PROVE  Accounts'
<1>1. RowsKept(links)' /\ RowsKept(backup.links)'
  BY CurrentTypes DEF Accounts, RowsKept
<1>2. UsersKept(address, tombstones)' /\ UsersKept(backup.address, backup.tombstones)'
  BY DEF Accounts, UsersKept
<1>3. ASSUME NEW v \in Visit, visits[v].stage # "none"
      PROVE  /\ visits[v].link \in Link /\ links'[visits[v].link].state = links[visits[v].link].state
             /\ AddressOf(v)' = AddressOf(v)
  BY <1>3, CurrentTypes DEF Accounts, VisitsHeld, VisitHeld, Taken, AddressOf
<1>4. \A v \in Visit : VisitHeld(v)'
  BY <1>3 DEF Accounts, VisitsHeld, VisitHeld, Users
<1>5. \A v, o \in Visit : v # o => Apart(v, o)'
  BY <1>3 DEF Accounts, VisitsHeld, Apart, Locks
<1> QED
  BY <1>1, <1>2, <1>4, <1>5 DEF Accounts, DeletionHeld, VisitsHeld

\* One sign-in takes a step and the tables stay.
LEMMA AccountsVisit ==
    ASSUME TypeOK, Accounts, NEW v \in Visit, NEW new,
           UNCHANGED <<address, links, tombstones, fate, deletion, backup>>,
           visits' = [visits EXCEPT ![v] = new],
           VisitHeld(v)', \A o \in Visit : o # v => Apart(v, o)' /\ Apart(o, v)'
    PROVE  Accounts'
<1>1. RowsKept(links)' /\ RowsKept(backup.links)'
  BY DEF Accounts, RowsKept
<1>2. UsersKept(address, tombstones)' /\ UsersKept(backup.address, backup.tombstones)'
  BY DEF Accounts, UsersKept
<1>3. \A o \in Visit : o # v => visits'[o] = visits[o] /\ AddressOf(o)' = AddressOf(o)
  BY DEF AddressOf, TypeOK
<1>4. \A o \in Visit : o # v => VisitHeld(o)'
  BY <1>3 DEF Accounts, VisitsHeld, VisitHeld, Users
<1>5. \A o, p \in Visit : o # v /\ p # v /\ o # p => Apart(o, p)'
  BY <1>3 DEF Accounts, VisitsHeld, Apart, Locks
<1> QED
  BY <1>1, <1>2, <1>4, <1>5 DEF Accounts, DeletionHeld, VisitsHeld

LEMMA AccountsTake ==
    ASSUME TypeOK, Accounts, NEW v \in Visit, NEW l \in Link, TakeLink(v, l)
    PROVE  Accounts'
<1>1. visits' = [visits EXCEPT ![v] = [stage |-> "taken", link |-> l, user |-> NoUser]]
  BY DEF TakeLink
<1>2. visits'[v] = [stage |-> "taken", link |-> l, user |-> NoUser]
  BY <1>1 DEF TypeOK
<1>3. VisitHeld(v)'
  BY <1>2 DEF TakeLink, Consumable, VisitHeld, tables
<1>4. ASSUME NEW o \in Visit, o # v
      PROVE  Apart(v, o)' /\ Apart(o, v)'
  <2>1. visits'[o] = visits[o] /\ visits[o].link # l
    BY <1>1, <1>4 DEF TakeLink, Taken, TypeOK
  <2> QED
    BY <1>2, <2>1 DEF Apart, Locks
<1> QED
  BY <1>1, <1>3, <1>4, AccountsVisit DEF TakeLink, tables

LEMMA AccountsLock ==
    ASSUME TypeOK, Accounts, NEW v \in Visit, LockAddress(v)
    PROVE  Accounts'
<1> DEFINE new == [visits[v] EXCEPT !.stage = "locked"]
<1>1. /\ visits' = [visits EXCEPT ![v] = new] /\ new.stage = "locked" /\ new.link = visits[v].link
      /\ new.user = visits[v].user /\ visits[v].stage = "taken"
  BY DEF LockAddress, TypeOK, VisitType
<1> HIDE DEF new
<1>2. visits'[v] = new /\ links' = links /\ AddressOf(v)' = AddressOf(v)
  BY <1>1 DEF TypeOK, AddressOf, LockAddress, tables
<1>3. VisitHeld(v)'
  BY <1>1, <1>2 DEF Accounts, VisitsHeld, VisitHeld
<1>4. ASSUME NEW o \in Visit, o # v
      PROVE  Apart(v, o)' /\ Apart(o, v)'
  <2>1. visits'[o] = visits[o] /\ AddressOf(o)' = AddressOf(o)
    BY <1>1, <1>2, <1>4 DEF TypeOK, AddressOf
  <2>2. Locks(o) => AddressOf(o) # AddressOf(v)
    BY DEF LockAddress, AddressLocked, Locks
  <2>3. Apart(v, o) /\ Apart(o, v)
    BY <1>4 DEF Accounts, VisitsHeld
  <2> QED
    BY <1>1, <1>2, <2>1, <2>2, <2>3 DEF Apart, Locks
<1> QED
  BY <1>1, <1>3, <1>4, AccountsVisit DEF LockAddress, tables

LEMMA AccountsRead ==
    ASSUME TypeOK, Accounts, NEW v \in Visit, ReadIdentity(v)
    PROVE  Accounts'
<1>1. PICK new \in VisitType :
          /\ visits' = [visits EXCEPT ![v] = new]
          /\ new.stage = "found" /\ new.link = visits[v].link
          /\ \/ new.user \in Users(AddressOf(v)) /\ deletion # new.user
             \/ Users(AddressOf(v)) = {} /\ new.user = NoUser
  <2>1. visits[v] \in VisitType /\ visits[v].stage = "locked" /\ visits[v].user = NoUser
    BY DEF TypeOK, ReadIdentity, Accounts, VisitsHeld, VisitHeld
  <2>2. CASE \E u \in Users(AddressOf(v)) :
                 /\ ~UserLocked(u)
                 /\ visits' = [visits EXCEPT ![v] = [visits[v] EXCEPT !.stage = "found", !.user = u]]
    <3>1. PICK u \in Users(AddressOf(v)) :
                 /\ ~UserLocked(u)
                 /\ visits' = [visits EXCEPT ![v] = [visits[v] EXCEPT !.stage = "found", !.user = u]]
      BY <2>2
    <3> DEFINE new == [visits[v] EXCEPT !.stage = "found", !.user = u]
    <3>2. u \in User
      BY DEF Users
    <3>3. new \in VisitType /\ new.stage = "found" /\ new.link = visits[v].link /\ new.user = u
      BY <2>1, <3>2 DEF VisitType
    <3> HIDE DEF new
    <3>4. deletion # u
      BY <3>1 DEF UserLocked
    <3>5. visits' = [visits EXCEPT ![v] = new]
      BY <3>1 DEF new
    <3> QED
      BY <3>3, <3>4, <3>5
  <2>3. CASE /\ Users(AddressOf(v)) = {}
             /\ visits' = [visits EXCEPT ![v] = [visits[v] EXCEPT !.stage = "found"]]
    <3> DEFINE new == [visits[v] EXCEPT !.stage = "found"]
    <3>1. new \in VisitType /\ new.stage = "found" /\ new.link = visits[v].link /\ new.user = NoUser
      BY <2>1 DEF VisitType
    <3>2. visits' = [visits EXCEPT ![v] = new]
      BY <2>3
    <3> HIDE DEF new
    <3> QED
      BY <2>3, <3>1, <3>2
  <2> QED
    BY <2>2, <2>3 DEF ReadIdentity
<1>2. /\ visits'[v] = new /\ links' = links /\ address' = address /\ deletion' = deletion
      /\ AddressOf(v)' = AddressOf(v)
  BY <1>1 DEF TypeOK, AddressOf, ReadIdentity, tables
<1>3. VisitHeld(v)'
  <2>1. visits[v].link \in Link /\ links[visits[v].link].state = "open"
    BY DEF ReadIdentity, Accounts, VisitsHeld, VisitHeld
  <2> QED
    BY <1>1, <1>2, <2>1 DEF VisitHeld, Users
<1>4. ASSUME NEW o \in Visit, o # v
      PROVE  Apart(v, o)' /\ Apart(o, v)'
  <2>1. visits'[o] = visits[o] /\ AddressOf(o)' = AddressOf(o)
    BY <1>1, <1>2, <1>4 DEF TypeOK, AddressOf
  <2>2. Apart(v, o) /\ Apart(o, v) /\ visits[v].stage = "locked"
    BY <1>4 DEF Accounts, VisitsHeld, ReadIdentity
  <2> QED
    BY <1>1, <1>2, <2>1, <2>2 DEF Apart, Locks
<1> QED
  BY <1>1, <1>3, <1>4, AccountsVisit DEF ReadIdentity, tables

LEMMA AccountsAbort ==
    ASSUME TypeOK, Accounts, NEW v \in Visit, AbortVisit(v)
    PROVE  Accounts'
<1>1. visits' = [visits EXCEPT ![v] = NoVisit] /\ visits'[v] = NoVisit
  BY DEF AbortVisit, TypeOK
<1>2. VisitHeld(v)' /\ \A o \in Visit : o # v => Apart(v, o)' /\ Apart(o, v)'
  BY <1>1 DEF VisitHeld, Apart, Locks, NoVisit
<1> QED
  BY <1>1, <1>2, AccountsVisit DEF AbortVisit, tables

\* The commit of a sign-in: nobody else has its address or its link.
LEMMA AccountsComplete ==
    ASSUME TypeOK, Accounts, NEW v \in Visit, NEW u, visits[v].stage = "found", Complete(v, u),
           UNCHANGED <<tombstones, deletion, backup>>,
           UsersKept(address, tombstones)', UsersKept(backup.address, backup.tombstones)',
           DeletionHeld',
           \A o \in User : address'[o] # address[o] => /\ address[o] = NoEmail
                                                      /\ address'[o] = AddressOf(v)
    PROVE  Accounts'
<1> DEFINE l == visits[v].link
<1>1. /\ links' = [links EXCEPT ![l] = Used(links[l])] /\ visits' = [visits EXCEPT ![v] = NoVisit]
      /\ visits'[v] = NoVisit
  <2>1. /\ links' = [links EXCEPT ![visits[v].link] = Used(links[visits[v].link])]
        /\ visits' = [visits EXCEPT ![v] = NoVisit]
    BY CompleteIs
  <2> QED
    BY <2>1 DEF TypeOK
<1>2. l \in Link /\ links[l].state = "open" /\ links[l] \in LinkType /\ AddressOf(v) \in Email
  BY CurrentTypes DEF Accounts, VisitsHeld, VisitHeld, RowsKept, RowKept, AddressOf
<1>3. /\ Used(links[l]).state = "used" /\ Used(links[l]).email = links[l].email
      /\ Used(links[l]).signIns = 1
  BY <1>2, UsedRow DEF Accounts, RowsKept, RowKept
<1>4. RowsKept(links)' /\ RowsKept(backup.links)'
  BY <1>1, <1>3, CurrentTypes DEF Accounts, RowsKept, RowKept
<1>5. ASSUME NEW o \in Visit, o # v, visits[o].stage # "none"
      PROVE  /\ visits'[o] = visits[o] /\ visits[o].link \in Link
             /\ links'[visits[o].link] = links[visits[o].link]
             /\ AddressOf(o)' = AddressOf(o) /\ AddressOf(o) \in Email
  <2>1. visits[o].link \in Link /\ visits[o].link # l
    BY <1>5 DEF Accounts, VisitsHeld, VisitHeld, Apart
  <2>2. visits'[o] = visits[o] /\ links'[visits[o].link] = links[visits[o].link]
    BY <1>1, <1>5, <2>1, CurrentTypes DEF TypeOK
  <2> QED
    BY <1>5, <2>1, <2>2 DEF AddressOf, Accounts, VisitsHeld, VisitHeld, RowsKept, RowKept
<1>6. ASSUME NEW o \in Visit, o # v
      PROVE  VisitHeld(o)'
  <2>1. visits'[o] = visits[o]
    BY <1>1, <1>6 DEF TypeOK
  <2>2. CASE visits[o].stage = "found"
    <3>1. AddressOf(o) # AddressOf(v)
      BY <1>6, <2>2 DEF Accounts, VisitsHeld, Apart, Locks
    <3>2. Users(AddressOf(o))' \subseteq Users(AddressOf(o))
      BY <1>5, <1>6, <2>2, <3>1 DEF Users
    <3>3. visits[o].user # NoUser => /\ address[visits[o].user] = AddressOf(o)
                                     /\ visits[o].user \in User
      BY <2>2, CurrentTypes DEF Accounts, VisitsHeld, VisitHeld
    <3>4. visits[o].user # NoUser => address'[visits[o].user] = address[visits[o].user]
      BY <1>5, <1>6, <2>2, <3>3
    <3> QED
      BY <1>5, <1>6, <2>1, <2>2, <3>2, <3>3, <3>4 DEF Accounts, VisitsHeld, VisitHeld
  <2>3. CASE visits[o].stage # "found"
    BY <1>5, <1>6, <2>1, <2>3 DEF Accounts, VisitsHeld, VisitHeld
  <2> QED
    BY <2>2, <2>3
<1>7. VisitHeld(v)' /\ \A o \in Visit : o # v => Apart(v, o)' /\ Apart(o, v)'
  BY <1>1 DEF VisitHeld, Apart, Locks, NoVisit
<1>8. ASSUME NEW o \in Visit, NEW p \in Visit, o # v, p # v, o # p
      PROVE  Apart(o, p)'
  <2>1. visits'[o] = visits[o] /\ visits'[p] = visits[p]
    BY <1>1, <1>8 DEF TypeOK
  <2>2. Apart(o, p)
    BY <1>8 DEF Accounts, VisitsHeld
  <2> QED
    BY <1>5, <1>8, <2>1, <2>2 DEF Apart, Locks
<1>9. VisitsHeld'
  BY <1>6, <1>7, <1>8 DEF VisitsHeld
<1> QED
  BY <1>4, <1>9 DEF Accounts

LEMMA AccountsSignIn ==
    ASSUME TypeOK, Accounts, NEW v \in Visit, SignInAgain(v) \/ (\E u \in User : SignUp(v, u))
    PROVE  Accounts'
<1>1. CASE SignInAgain(v)
  <2>1. UsersKept(address, tombstones)' /\ UsersKept(backup.address, backup.tombstones)'
    BY <1>1 DEF SignInAgain, Accounts, UsersKept
  <2>2. DeletionHeld'
    BY <1>1 DEF SignInAgain, Accounts, DeletionHeld
  <2> QED
    BY <1>1, <2>1, <2>2, AccountsComplete DEF SignInAgain
<1>2. CASE \E u \in User : SignUp(v, u)
  <2>1. PICK u \in User : SignUp(v, u)
    BY <1>2
  <2>2. /\ address' = [address EXCEPT ![u] = AddressOf(v)] /\ fate' = [fate EXCEPT ![u] = "issued"]
        /\ Complete(v, u) /\ UNCHANGED <<tombstones, deletion, backup>>
        /\ fate[u] = "unissued" /\ visits[v].stage = "found"
    BY <2>1 DEF SignUp
  <2>3. address[u] = NoEmail /\ tombstones[u] = "none"
    BY <2>2 DEF Accounts, UsersKept
  <2>4. UsersKept(address, tombstones)'
    BY <2>2, <2>3, CurrentTypes DEF TypeOK, Accounts, UsersKept
  <2>5. UsersKept(backup.address, backup.tombstones)'
    BY <2>2 DEF TypeOK, Accounts, UsersKept
  <2>6. DeletionHeld'
    BY <2>2, <2>3, CurrentTypes DEF TypeOK, Accounts, DeletionHeld
  <2>7. \A o \in User : address'[o] # address[o] => /\ address[o] = NoEmail
                                                   /\ address'[o] = AddressOf(v)
    BY <2>2, <2>3, CurrentTypes
  <2> QED
    BY <2>2, <2>4, <2>5, <2>6, <2>7, AccountsComplete
<1> QED
  BY <1>1, <1>2

\* The deletion removes no link and no user that a sign-in holds.
LEMMA AccountsDelete ==
    ASSUME TypeOK, Accounts, DeleteAccount
    PROVE  Accounts'
<1> DEFINE u == deletion
<1>1. /\ u \in User /\ u # NoUser /\ address[u] # NoEmail /\ deletion' = NoUser
      /\ address' = [address EXCEPT ![u] = NoEmail]
      /\ tombstones' = [tombstones EXCEPT ![u] = "fresh"]
      /\ fate' = [fate EXCEPT ![u] = "deleted"] /\ UNCHANGED <<visits, backup>>
  BY DEF DeleteAccount, TypeOK, Accounts, DeletionHeld
<1>2. \A l \in Link : links'[l] = IF links[l].email = address[u] THEN RemovedLink ELSE links[l]
  BY DEF DeleteAccount
<1>3. RowsKept(links)' /\ RowsKept(backup.links)'
  BY <1>1, <1>2 DEF RemovedLink, UnusedLink, Accounts, RowsKept, RowKept
<1>4. UsersKept(address, tombstones)'
  BY <1>1, CurrentTypes DEF TypeOK, Accounts, UsersKept
<1>5. UsersKept(backup.address, backup.tombstones)'
  BY <1>1 DEF TypeOK, Accounts, UsersKept
<1>6. ASSUME NEW v \in Visit, visits[v].stage # "none"
      PROVE  /\ visits[v].link \in Link /\ links'[visits[v].link] = links[visits[v].link]
             /\ AddressOf(v)' = AddressOf(v) /\ AddressOf(v) # address[u]
  <2>1. visits[v].link \in Link /\ Taken(visits[v].link)
    BY <1>6 DEF Accounts, VisitsHeld, VisitHeld, Taken
  <2>2. links[visits[v].link].email # address[u]
    BY <2>1 DEF DeleteAccount
  <2> QED
    BY <1>1, <1>2, <2>1, <2>2 DEF AddressOf
<1>7. ASSUME NEW v \in Visit
      PROVE  VisitHeld(v)'
  <2>1. CASE visits[v].stage = "found"
    <3>1. visits[v].user # NoUser => /\ visits[v].user \in User /\ visits[v].user # u
                                     /\ address[visits[v].user] = AddressOf(v)
      BY <2>1, CurrentTypes DEF Accounts, VisitsHeld, VisitHeld
    <3>2. visits[v].user # NoUser => address'[visits[v].user] = address[visits[v].user]
      BY <1>1, <3>1, CurrentTypes
    <3>3. Users(AddressOf(v)) = {} => Users(AddressOf(v))' = {}
      <4>1. AddressOf(v) # NoEmail
        BY <2>1 DEF Accounts, VisitsHeld, VisitHeld, RowsKept, RowKept, AddressOf
      <4> QED
        BY <1>1, <1>6, <2>1, <4>1, CurrentTypes DEF Users
    <3> QED
      BY <1>1, <1>6, <2>1, <3>1, <3>2, <3>3 DEF Accounts, VisitsHeld, VisitHeld
  <2>2. CASE visits[v].stage # "found"
    BY <1>1, <1>6, <2>2 DEF Accounts, VisitsHeld, VisitHeld
  <2> QED
    BY <2>1, <2>2
<1>8. \A v, o \in Visit : v # o => Apart(v, o)'
  BY <1>1, <1>6 DEF Accounts, VisitsHeld, Apart, Locks
<1> QED
  BY <1>1, <1>3, <1>4, <1>5, <1>7, <1>8 DEF Accounts, VisitsHeld, DeletionHeld

LEMMA AccountsLockUser ==
    ASSUME TypeOK, Accounts, NEW u \in User, LockUser(u)
    PROVE  Accounts'
<1>1. deletion' = u /\ address[u] # NoEmail /\ ~UserLocked(u)
      /\ UNCHANGED <<address, links, tombstones, fate, visits, backup>>
  BY DEF LockUser, tables
<1>2. RowsKept(links)' /\ RowsKept(backup.links)'
  BY <1>1 DEF Accounts, RowsKept
<1>3. UsersKept(address, tombstones)' /\ UsersKept(backup.address, backup.tombstones)'
  BY <1>1 DEF Accounts, UsersKept
<1>4. \A v \in Visit : visits[v].stage = "found" => visits[v].user # u
  BY <1>1 DEF UserLocked
<1>5. \A v \in Visit : VisitHeld(v)'
  BY <1>1, <1>4 DEF Accounts, VisitsHeld, VisitHeld, AddressOf, Users
<1>6. \A v, o \in Visit : v # o => Apart(v, o)'
  BY <1>1 DEF Accounts, VisitsHeld, Apart, Locks, AddressOf
<1> QED
  BY <1>1, <1>2, <1>3, <1>5, <1>6 DEF Accounts, VisitsHeld, DeletionHeld

LEMMA AccountsAbortDeletion ==
    ASSUME TypeOK, Accounts, AbortDeletion
    PROVE  Accounts'
<1>1. deletion' = NoUser /\ UNCHANGED <<address, links, tombstones, fate, visits, backup>>
  BY DEF AbortDeletion, tables
<1>2. RowsKept(links)' /\ RowsKept(backup.links)'
  BY <1>1 DEF Accounts, RowsKept
<1>3. UsersKept(address, tombstones)' /\ UsersKept(backup.address, backup.tombstones)'
  BY <1>1 DEF Accounts, UsersKept
<1>4. \A v \in Visit : VisitHeld(v)'
  BY <1>1 DEF Accounts, VisitsHeld, VisitHeld, AddressOf, Users
<1>5. \A v, o \in Visit : v # o => Apart(v, o)'
  BY <1>1 DEF Accounts, VisitsHeld, Apart, Locks, AddressOf
<1> QED
  BY <1>1, <1>2, <1>3, <1>4, <1>5 DEF Accounts, VisitsHeld, DeletionHeld

LEMMA AccountsTombstone ==
    ASSUME TypeOK, Accounts, NEW u \in User, TombstoneAges(u) \/ PruneTombstone(u)
    PROVE  Accounts'
<1>1. UNCHANGED <<address, links, fate, visits, deletion, backup>>
  BY DEF TombstoneAges, PruneTombstone
<1>2. /\ tombstones[u] # "none"
      /\ \/ tombstones' = [tombstones EXCEPT ![u] = "old"]
         \/ tombstones' = [tombstones EXCEPT ![u] = "none"]
  BY DEF TombstoneAges, PruneTombstone
<1>3. RowsKept(links)' /\ RowsKept(backup.links)'
  BY <1>1 DEF Accounts, RowsKept
<1>4. UsersKept(address, tombstones)'
  BY <1>1, <1>2, CurrentTypes DEF Accounts, UsersKept
<1>5. UsersKept(backup.address, backup.tombstones)'
  BY <1>1 DEF Accounts, UsersKept
<1>6. \A v \in Visit : VisitHeld(v)'
  BY <1>1 DEF Accounts, VisitsHeld, VisitHeld, AddressOf, Users
<1>7. \A v, o \in Visit : v # o => Apart(v, o)'
  BY <1>1 DEF Accounts, VisitsHeld, Apart, Locks, AddressOf
<1> QED
  BY <1>1, <1>3, <1>4, <1>5, <1>6, <1>7 DEF Accounts, VisitsHeld, DeletionHeld

\* The backup takes the tables, and a restore the backup: both are kept alike.
LEMMA AccountsBackup ==
    ASSUME TypeOK, Accounts, BackUp \/ Restore
    PROVE  Accounts'
<1>1. CASE BackUp
  <2>1. /\ backup' = Tables /\ UNCHANGED <<address, links, tombstones, fate, visits, deletion>>
        /\ Tables.address = address /\ Tables.links = links /\ Tables.tombstones = tombstones
    BY <1>1 DEF BackUp, Tables, tables
  <2>2. RowsKept(links)' /\ RowsKept(backup.links)'
    BY <2>1 DEF Accounts, RowsKept
  <2>3. UsersKept(address, tombstones)' /\ UsersKept(backup.address, backup.tombstones)'
    BY <2>1 DEF Accounts, UsersKept
  <2>4. \A v \in Visit : VisitHeld(v)'
    BY <2>1 DEF Accounts, VisitsHeld, VisitHeld, AddressOf, Users
  <2>5. \A v, o \in Visit : v # o => Apart(v, o)'
    BY <2>1 DEF Accounts, VisitsHeld, Apart, Locks, AddressOf
  <2> QED
    BY <2>1, <2>2, <2>3, <2>4, <2>5 DEF Accounts, VisitsHeld, DeletionHeld
<1>2. CASE Restore
  <2>1. /\ address' = backup.address /\ links' = backup.links /\ tombstones' = backup.tombstones
        /\ UNCHANGED <<fate, backup>> /\ deletion' = NoUser
        /\ \A v \in Visit : visits'[v] = NoVisit
    BY <1>2 DEF Restore
  <2>2. RowsKept(links)' /\ RowsKept(backup.links)'
    BY <2>1 DEF Accounts, RowsKept
  <2>3. UsersKept(address, tombstones)' /\ UsersKept(backup.address, backup.tombstones)'
    BY <2>1 DEF Accounts, UsersKept
  <2>4. VisitsHeld'
    BY <2>1 DEF VisitsHeld, VisitHeld, Apart, Locks, NoVisit
  <2> QED
    BY <2>1, <2>2, <2>3, <2>4 DEF Accounts, DeletionHeld
<1> QED
  BY <1>1, <1>2

\* A row of a link is written that no sign-in holds, or keeps its state.
LEMMA AccountsRow ==
    ASSUME TypeOK, Asked, Accounts,
           \/ \E a \in Ask, l \in Link : StoreChallenge(a, l)
           \/ \E l \in Link : LinkLapses(l) \/ RemoveLink(l)
    PROVE  Accounts'
<1>1. CASE \E l \in Link : LinkLapses(l) \/ RemoveLink(l)
  <2>1. PICK l \in Link : LinkLapses(l) \/ RemoveLink(l)
    BY <1>1
  <2>2. CASE LinkLapses(l)
    <3> DEFINE lapsed == [links[l] EXCEPT !.lapsed = TRUE]
    <3>1. links[l] \in LinkType
      BY CurrentTypes
    <3>2. /\ lapsed.state = links[l].state /\ lapsed.email = links[l].email
          /\ lapsed.signIns = links[l].signIns
      BY <3>1, LapsedRow
    <3>3. links' = [links EXCEPT ![l] = lapsed]
      BY <2>2 DEF LinkLapses
    <3> HIDE DEF lapsed
    <3>4. RowKept(lapsed)
      BY <3>2 DEF Accounts, RowsKept, RowKept
    <3> QED
      BY <2>2, <3>2, <3>3, <3>4, AccountsLink DEF LinkLapses
  <2>3. CASE RemoveLink(l)
    <3>1. RowKept(RemovedLink)
      BY DEF RowKept, RemovedLink, UnusedLink
    <3>2. links' = [links EXCEPT ![l] = RemovedLink] /\ ~Taken(l)
          /\ UNCHANGED <<address, tombstones, fate, visits, deletion, backup>>
      BY <2>3 DEF RemoveLink
    <3> QED
      BY <3>1, <3>2, AccountsLink
  <2> QED
    BY <2>1, <2>2, <2>3
<1>2. CASE \E a \in Ask, l \in Link : StoreChallenge(a, l)
  <2>1. PICK a \in Ask, l \in Link : StoreChallenge(a, l)
    BY <1>2
  <2> DEFINE row == [state |-> "open", email |-> asks[a].email, lapsed |-> FALSE, signIns |-> 0]
  <2>2. RowKept(row)
    <3>1. asks[a].email \in Email
      BY <2>1 DEF StoreChallenge, Asked
    <3> QED
      BY <3>1 DEF RowKept
  <2>3. links[l].state = "unused"
    BY <2>1 DEF StoreChallenge
  <2>4. ASSUME NEW v \in Visit PROVE visits[v].link # l
    <3>1. VisitHeld(v)
      BY DEF Accounts, VisitsHeld
    <3> QED
      BY <2>3, <3>1 DEF VisitHeld, NoVisit
  <2>5. links' = [links EXCEPT ![l] = row]
        /\ UNCHANGED <<address, tombstones, fate, visits, deletion, backup>>
    BY <2>1 DEF StoreChallenge
  <2> HIDE DEF row
  <2> QED
    BY <2>2, <2>4, <2>5, AccountsLink DEF Taken
<1> QED
  BY <1>1, <1>2

LEMMA AskedInit == Init => Asked
BY DEF Init, Asked, NoAsk

\* One request takes a step.
LEMMA AskedStep ==
    ASSUME TypeOK, Asked, NEW a \in Ask, NEW new, asks' = [asks EXCEPT ![a] = new],
           window' = window, new.stage = "none" => new = NoAsk,
           new.stage # "none" => new.email \in Email, new.window <= window
    PROVE  Asked'
BY DEF Asked, TypeOK

LEMMA AskedNext == TypeOK /\ Asked /\ [Next]_vars => Asked'
<1> SUFFICES ASSUME TypeOK, Asked, [Next]_vars PROVE Asked'
  OBVIOUS
<1>1. window \in Nat /\ window \in Window /\ 1 <= window /\ asks \in [Ask -> AskType]
  BY DEF TypeOK, Window
<1>2. CASE UNCHANGED asks /\ window' = window
  BY <1>2 DEF Asked
<1>3. ASSUME NEW a \in Ask,
             \/ \E e \in Email : RequestLink(a, e)
             \/ ReserveNetwork(a) \/ ReserveAddress(a)
             \/ \E l \in Link : StoreChallenge(a, l)
             \/ SendMagicLink(a) \/ AbandonRequest(a)
      PROVE  Asked'
  <2>1. window' = window
    BY <1>3 DEF RequestLink, ReserveNetwork, ReserveAddress, StoreChallenge, SendMagicLink,
                AbandonRequest
  <2>2. CASE asks' = [asks EXCEPT ![a] = NoAsk]
    <3>1. NoAsk.stage = "none" /\ NoAsk.window <= window
      BY <1>1 DEF NoAsk
    <3> QED
      BY <2>1, <2>2, <3>1, AskedStep
  <2>3. ASSUME NEW new \in AskType, asks' = [asks EXCEPT ![a] = new], asks[a].stage # "none",
               new.stage # "none", new.email = asks[a].email, new.window = asks[a].window
        PROVE  Asked'
    BY <2>1, <2>3, AskedStep DEF Asked
  <2>4. ASSUME NEW stage \in {"address", "store"},
               asks' = [asks EXCEPT ![a] = [asks[a] EXCEPT !.stage = stage]], asks[a].stage # "none"
        PROVE  Asked'
    <3> DEFINE new == [asks[a] EXCEPT !.stage = stage]
    <3>1. new \in AskType /\ new.stage = stage /\ new.email = asks[a].email
          /\ new.window = asks[a].window
      BY <1>1 DEF AskType
    <3> HIDE DEF new
    <3> QED
      BY <2>3, <2>4, <3>1 DEF new
  <2>5. CASE \E e \in Email : RequestLink(a, e)
    <3>1. PICK e \in Email : RequestLink(a, e)
      BY <2>5
    <3> DEFINE new == [stage |-> "network", email |-> e, window |-> window, link |-> NoLink]
    <3>2. asks' = [asks EXCEPT ![a] = new]
      BY <3>1 DEF RequestLink
    <3>3. new.stage # "none" /\ new.email \in Email /\ new.window <= window
      BY <1>1
    <3> HIDE DEF new
    <3> QED
      BY <2>1, <3>2, <3>3, AskedStep
  <2>6. CASE ReserveNetwork(a)
    BY <2>2, <2>4, <2>6 DEF ReserveNetwork
  <2>7. CASE ReserveAddress(a)
    BY <2>2, <2>4, <2>7 DEF ReserveAddress
  <2>8. CASE \E l \in Link : StoreChallenge(a, l)
    <3>1. PICK l \in Link : StoreChallenge(a, l)
      BY <2>8
    <3> DEFINE new == [asks[a] EXCEPT !.stage = "send", !.link = l]
    <3>2. asks' = [asks EXCEPT ![a] = new] /\ asks[a].stage = "store"
      BY <3>1 DEF StoreChallenge
    <3>3. new \in AskType /\ new.stage = "send" /\ new.email = asks[a].email
          /\ new.window = asks[a].window
      BY <1>1 DEF AskType
    <3> HIDE DEF new
    <3> QED
      BY <2>3, <3>2, <3>3
  <2>9. CASE SendMagicLink(a) \/ AbandonRequest(a)
    BY <2>2, <2>9 DEF SendMagicLink, AbandonRequest
  <2> QED
    BY <1>3, <2>5, <2>6, <2>7, <2>8, <2>9
<1>4. CASE NextWindow
  <2>1. \A a \in Ask : asks[a].window \in Nat
    BY CurrentTypes DEF Window
  <2> QED
    BY <1>1, <1>4, <2>1 DEF NextWindow, Asked
<1>5. CASE Restore
  BY <1>1, <1>5 DEF Restore, Asked, NoAsk
<1>6. CASE Next
  <2>1. ASSUME NEW v \in Visit,
               \/ \E l \in Link : TakeLink(v, l)
               \/ LockAddress(v) \/ ReadIdentity(v) \/ SignInAgain(v) \/ AbortVisit(v)
               \/ \E u \in User : SignUp(v, u)
        PROVE  Asked'
    BY <1>2, <2>1 DEF TakeLink, LockAddress, ReadIdentity, SignInAgain, AbortVisit, SignUp
  <2>2. CASE \E l \in Link : SignOut(l) \/ LinkLapses(l) \/ RemoveLink(l) \/ RemoveSession(l)
    BY <1>2, <2>2 DEF SignOut, LinkLapses, RemoveLink, RemoveSession
  <2>3. CASE \E u \in User : LockUser(u) \/ TombstoneAges(u) \/ PruneTombstone(u)
    BY <1>2, <2>3 DEF LockUser, TombstoneAges, PruneTombstone
  <2>4. CASE DeleteAccount \/ AbortDeletion \/ BreakDeadlock
    BY <1>2, <2>4 DEF DeleteAccount, AbortDeletion, BreakDeadlock, AbortVisit
  <2>5. CASE (\E w \in Window : ForgetBuckets(w)) \/ BackUp \/ ReturnTraffic
    BY <1>2, <2>5 DEF ForgetBuckets, BackUp, ReturnTraffic
  <2> QED
    BY <1>3, <1>4, <1>5, <1>6, <2>1, <2>2, <2>3, <2>4, <2>5 DEF Next
<1> QED
  BY <1>2, <1>6 DEF vars

LEMMA AccountsNext == TypeOK /\ Asked /\ Accounts /\ [Next]_vars => Accounts'
<1> SUFFICES ASSUME TypeOK, Asked, Accounts, [Next]_vars PROVE Accounts'
  OBVIOUS
<1>1. ASSUME NEW a \in Ask,
             \/ \E e \in Email : RequestLink(a, e)
             \/ ReserveNetwork(a) \/ ReserveAddress(a) \/ SendMagicLink(a) \/ AbandonRequest(a)
      PROVE  Accounts'
  BY <1>1, AccountsFrame DEF RequestLink, ReserveNetwork, ReserveAddress, SendMagicLink,
                             AbandonRequest, tables
<1>2. ASSUME NEW v \in Visit,
             \/ \E l \in Link : TakeLink(v, l)
             \/ LockAddress(v) \/ ReadIdentity(v) \/ SignInAgain(v) \/ AbortVisit(v)
             \/ \E u \in User : SignUp(v, u)
      PROVE  Accounts'
  BY <1>2, AccountsTake, AccountsLock, AccountsRead, AccountsSignIn, AccountsAbort
<1>3. CASE \E l \in Link : SignOut(l) \/ RemoveSession(l)
  BY <1>3, AccountsFrame DEF SignOut, RemoveSession
<1>4. CASE \E u \in User : LockUser(u) \/ TombstoneAges(u) \/ PruneTombstone(u)
  BY <1>4, AccountsLockUser, AccountsTombstone
<1>5. CASE DeleteAccount \/ AbortDeletion \/ BreakDeadlock
  BY <1>5, AccountsDelete, AccountsAbortDeletion, AccountsAbort DEF BreakDeadlock
<1>6. CASE NextWindow \/ (\E w \in Window : ForgetBuckets(w)) \/ ReturnTraffic
  BY <1>6, AccountsFrame DEF NextWindow, ForgetBuckets, ReturnTraffic, tables
<1>7. CASE BackUp \/ Restore
  BY <1>7, AccountsBackup
<1>8. CASE UNCHANGED vars
  BY <1>8, AccountsFrame DEF vars
<1> QED
  BY <1>1, <1>2, <1>3, <1>4, <1>5, <1>6, <1>7, <1>8, AccountsRow DEF Next

-----------------------------------------------------------------------------
(* Reservations and mails.                                                 *)

\* The requests that have reserved a place for e in w and have not sent their mail.
Pending(e, w) == {a \in Ask : /\ asks[a].stage \in {"store", "send"}
                              /\ asks[a].email = e /\ asks[a].window = w}

\* Those that have reserved one of the network's places in w.
PendingAll(w) == {a \in Ask : /\ asks[a].stage \in {"address", "store", "send"}
                              /\ asks[a].window = w}

\* What was sent and what may still be sent has been reserved.
Paid(e, w) == mails[e][w] + Cardinality(Pending(e, w)) <= delivery[e][w]
PaidAll(w) == sent[w] + Cardinality(PendingAll(w)) <= network[w]

\* Buckets may be forgotten when nothing can be sent on them any more.
Counts ==
    \A w \in Window :
        /\ network[w] <= NetworkLimit /\ sent[w] <= NetworkLimit
        /\ \A e \in Email : delivery[e][w] <= AddressLimit /\ mails[e][w] <= AddressLimit
        /\ ~Forgettable(w) => PaidAll(w) /\ \A e \in Email : Paid(e, w)

LEMMA PendingFinite ==
    ASSUME NEW w
    PROVE  /\ IsFiniteSet(PendingAll(w)) /\ Cardinality(PendingAll(w)) \in Nat
           /\ \A e : IsFiniteSet(Pending(e, w)) /\ Cardinality(Pending(e, w)) \in Nat
<1>1. PendingAll(w) \subseteq Ask /\ \A e : Pending(e, w) \subseteq Ask
  BY DEF Pending, PendingAll
<1> QED
  BY <1>1, AskAssumption, FS_Subset, FS_CardinalityType

\* The same a step later.
LEMMA PendingFiniteNext ==
    ASSUME NEW w
    PROVE  /\ IsFiniteSet(PendingAll(w)') /\ Cardinality(PendingAll(w))' \in Nat
           /\ \A e : IsFiniteSet(Pending(e, w)') /\ Cardinality(Pending(e, w))' \in Nat
<1>1. PendingAll(w)' \subseteq Ask /\ \A e : Pending(e, w)' \subseteq Ask
  BY DEF Pending, PendingAll
<1> QED
  BY <1>1, AskAssumption, FS_Subset, FS_CardinalityType

LEMMA CountTypes ==
    ASSUME TypeOK, NEW e \in Email, NEW w \in Window
    PROVE  /\ network[w] \in Nat /\ sent[w] \in Nat /\ delivery[e][w] \in Nat /\ mails[e][w] \in Nat
           /\ w \in Nat /\ window \in Nat
BY DEF TypeOK, Window

LEMMA CountsInit == Init => Counts
<1> SUFFICES ASSUME Init PROVE Counts
  OBVIOUS
<1>1. ASSUME NEW w \in Window
      PROVE  PendingAll(w) = {} /\ \A e \in Email : Pending(e, w) = {}
  BY DEF Init, NoAsk, Pending, PendingAll
<1>2. Cardinality({}) = 0
  BY FS_EmptySet
<1> QED
  BY <1>1, <1>2 DEF Init, Counts, Paid, PaidAll

\* No request is added to those that wait to be sent, and no bucket is written.
LEMMA CountsShrink ==
    ASSUME TypeOK, Counts, UNCHANGED buckets,
           \A w \in Window : /\ Forgettable(w) => Forgettable(w)'
                             /\ PendingAll(w)' \subseteq PendingAll(w)
                             /\ \A e \in Email : Pending(e, w)' \subseteq Pending(e, w)
    PROVE  Counts'
<1>1. UNCHANGED <<network, delivery, mails, sent>>
  BY DEF buckets
<1>2. ASSUME NEW w \in Window, ~Forgettable(w)'
      PROVE  PaidAll(w)'
  <2>1. PaidAll(w)
    BY <1>2 DEF Counts
  <2>2. Cardinality(PendingAll(w))' <= Cardinality(PendingAll(w))
    BY PendingFinite, FS_Subset
  <2>3. network[w] \in Nat /\ sent[w] \in Nat
    BY DEF TypeOK
  <2> QED
    BY <1>1, <2>1, <2>2, <2>3, PendingFinite, PendingFiniteNext DEF PaidAll
<1>3. ASSUME NEW w \in Window, NEW e \in Email, ~Forgettable(w)'
      PROVE  Paid(e, w)'
  <2>1. Paid(e, w)
    BY <1>3 DEF Counts
  <2>2. Cardinality(Pending(e, w))' <= Cardinality(Pending(e, w))
    BY PendingFinite, FS_Subset
  <2> QED
    BY <1>1, <2>1, <2>2, CountTypes, PendingFinite, PendingFiniteNext DEF Paid
<1> QED
  BY <1>1, <1>2, <1>3 DEF Counts

\* A window that no request can send on any more stays one.
LEMMA ForgettableStays ==
    ASSUME TypeOK, Asked, NEW a \in Ask, NEW new, asks' = [asks EXCEPT ![a] = new], window' = window,
           \/ new = NoAsk
           \/ new.window = window
           \/ asks[a] # NoAsk /\ new.window = asks[a].window
    PROVE  \A w \in Window : Forgettable(w) => Forgettable(w)'
<1>1. ASSUME NEW w \in Window, Forgettable(w), NEW o \in Ask, asks'[o] # NoAsk
      PROVE  asks'[o].window # w
  <2>1. w < window /\ w \in Nat /\ window \in Nat /\ asks \in [Ask -> AskType]
    BY <1>1 DEF Forgettable, TypeOK, Window
  <2>2. CASE o = a
    BY <1>1, <2>1, <2>2 DEF Forgettable
  <2>3. CASE o # a
    BY <1>1, <2>1, <2>3 DEF Forgettable
  <2> QED
    BY <2>2, <2>3
<1> QED
  BY <1>1 DEF Forgettable

\* A request of a closed window does not run, so what it may send is paid for.
LEMMA RunningPaid ==
    ASSUME TypeOK, Asked, Counts, NEW a \in Ask, asks[a].stage # "none"
    PROVE  /\ asks[a] # NoAsk /\ asks[a].email \in Email /\ asks[a].window \in Window
           /\ PaidAll(asks[a].window) /\ \A e \in Email : Paid(e, asks[a].window)
<1>1. asks[a] # NoAsk /\ asks[a].email \in Email /\ asks[a].window \in Window
  BY CurrentTypes DEF Asked, NoAsk
<1>2. ~Forgettable(asks[a].window)
  BY <1>1 DEF Forgettable
<1> QED
  BY <1>1, <1>2 DEF Counts


LEMMA CountsReserveNetwork ==
    ASSUME TypeOK, Asked, Counts, NEW a \in Ask, ReserveNetwork(a),
           NEW w0 \in Window, w0 = asks[a].window
    PROVE  Counts'
<1> DEFINE new == [asks[a] EXCEPT !.stage = "address"]
<1>1. /\ asks \in [Ask -> AskType] /\ asks[a].stage = "network" /\ w0 \in Window /\ asks[a] # NoAsk
      /\ UNCHANGED <<window, delivery, mails, sent>> /\ PaidAll(w0)
  BY RunningPaid DEF ReserveNetwork, TypeOK
<1>2. CASE asks' = [asks EXCEPT ![a] = NoAsk] /\ UNCHANGED network
  <2>1. \A w \in Window : /\ PendingAll(w)' \subseteq PendingAll(w)
                          /\ \A e \in Email : Pending(e, w)' \subseteq Pending(e, w)
    BY <1>1, <1>2 DEF Pending, PendingAll, NoAsk
  <2> QED
    BY <1>1, <1>2, <2>1, ForgettableStays, CountsShrink DEF buckets
<1>3. CASE /\ network[w0] < NetworkLimit /\ network' = [network EXCEPT ![w0] = network[w0] + 1]
           /\ asks' = [asks EXCEPT ![a] = new]
  <2>1. new.stage = "address" /\ new.email = asks[a].email /\ new.window = w0
    BY <1>1 DEF AskType
  <2> HIDE DEF new
  <2>2. \A w \in Window : Forgettable(w) => Forgettable(w)'
    BY <1>1, <1>3, <2>1, ForgettableStays
  <2>3. \A w \in Window : \A e \in Email : Pending(e, w)' = Pending(e, w)
    BY <1>1, <1>3, <2>1 DEF Pending
  <2>4. \A w \in Window : w # w0 => PendingAll(w)' = PendingAll(w)
    BY <1>1, <1>3, <2>1 DEF PendingAll
  <2>5. PendingAll(w0)' = PendingAll(w0) \cup {a} /\ a \notin PendingAll(w0)
    BY <1>1, <1>3, <2>1 DEF PendingAll
  <2>6. Cardinality(PendingAll(w0))' = Cardinality(PendingAll(w0)) + 1
    BY <2>5, PendingFinite, FS_AddElement
  <2>7. network[w0] \in Nat /\ sent[w0] \in Nat /\ network \in [Window -> Nat]
    BY <1>1 DEF TypeOK
  <2>8. PaidAll(w0)' /\ network'[w0] <= NetworkLimit
    BY <1>1, <1>3, <2>6, <2>7, PendingFinite DEF PaidAll
  <2>9. ASSUME NEW w \in Window, w # w0
        PROVE  network'[w] = network[w] /\ (PaidAll(w) => PaidAll(w)')
    BY <1>1, <1>3, <2>4, <2>7, <2>9 DEF PaidAll
  <2>10. \A w \in Window : \A e \in Email : Paid(e, w) => Paid(e, w)'
    BY <1>1, <2>3 DEF Paid
  <2> QED
    BY <1>1, <2>2, <2>8, <2>9, <2>10 DEF Counts
<1> QED
  BY <1>2, <1>3 DEF ReserveNetwork, Below

LEMMA CountsReserveAddress ==
    ASSUME TypeOK, Asked, Counts, NEW a \in Ask, ReserveAddress(a),
           NEW w0 \in Window, w0 = asks[a].window, NEW e0 \in Email, e0 = asks[a].email
    PROVE  Counts'
<1> DEFINE new == [asks[a] EXCEPT !.stage = "store"]
<1>1. /\ asks \in [Ask -> AskType] /\ asks[a].stage = "address" /\ w0 \in Window /\ e0 \in Email
      /\ asks[a] # NoAsk /\ UNCHANGED <<window, network, mails, sent>> /\ Paid(e0, w0)
  BY RunningPaid DEF ReserveAddress, TypeOK
<1>2. CASE asks' = [asks EXCEPT ![a] = NoAsk] /\ UNCHANGED delivery
  <2>1. \A w \in Window : /\ PendingAll(w)' \subseteq PendingAll(w)
                          /\ \A e \in Email : Pending(e, w)' \subseteq Pending(e, w)
    BY <1>1, <1>2 DEF Pending, PendingAll, NoAsk
  <2> QED
    BY <1>1, <1>2, <2>1, ForgettableStays, CountsShrink DEF buckets
<1>3. CASE /\ delivery[e0][w0] < AddressLimit
           /\ delivery' = [delivery EXCEPT ![e0] = [delivery[e0] EXCEPT ![w0] = delivery[e0][w0] + 1]]
           /\ asks' = [asks EXCEPT ![a] = new]
  <2>1. new.stage = "store" /\ new.email = e0 /\ new.window = w0
    BY <1>1 DEF AskType
  <2> HIDE DEF new
  <2>2. \A w \in Window : Forgettable(w) => Forgettable(w)'
    BY <1>1, <1>3, <2>1, ForgettableStays
  <2>3. \A w \in Window : PendingAll(w)' = PendingAll(w)
    BY <1>1, <1>3, <2>1 DEF PendingAll
  <2>4. \A w \in Window : \A e \in Email : w # w0 \/ e # e0 => Pending(e, w)' = Pending(e, w)
    BY <1>1, <1>3, <2>1 DEF Pending
  <2>5. Pending(e0, w0)' = Pending(e0, w0) \cup {a} /\ a \notin Pending(e0, w0)
    BY <1>1, <1>3, <2>1 DEF Pending
  <2>6. Cardinality(Pending(e0, w0))' = Cardinality(Pending(e0, w0)) + 1
    <3> DEFINE waiting == Pending(e0, w0)
    <3>1. IsFiniteSet(waiting) /\ a \notin waiting
      BY <2>5, PendingFinite
    <3>2. Cardinality(waiting \cup {a}) = Cardinality(waiting) + 1
      <4> HIDE DEF waiting
      <4> QED
        BY <3>1, FS_AddElement
    <3> QED
      BY <2>5, <3>2
  <2>7. delivery[e0][w0] \in Nat /\ mails[e0][w0] \in Nat /\ delivery \in [Email -> [Window -> Nat]]
    BY <1>1 DEF TypeOK
  <2>8. delivery'[e0][w0] = delivery[e0][w0] + 1
    BY <1>1, <1>3, <2>7
  <2>9. Paid(e0, w0)' /\ delivery'[e0][w0] <= AddressLimit
    <3>1. Cardinality(Pending(e0, w0)) \in Nat
      BY PendingFinite
    <3>2. delivery'[e0][w0] <= AddressLimit
      BY <1>3, <2>7, <2>8
    <3>3. mails[e0][w0] + Cardinality(Pending(e0, w0)) <= delivery[e0][w0]
      BY <1>1 DEF Paid
    <3>4. mails'[e0][w0] + Cardinality(Pending(e0, w0))' <= delivery'[e0][w0]
      BY <1>1, <2>6, <2>7, <2>8, <3>1, <3>3
    <3> QED
      BY <3>2, <3>4 DEF Paid
  <2>10. ASSUME NEW w \in Window, NEW e \in Email, w # w0 \/ e # e0
        PROVE  delivery'[e][w] = delivery[e][w] /\ (Paid(e, w) => Paid(e, w)')
    <3>1. delivery'[e][w] = delivery[e][w]
      BY <1>1, <1>3, <2>7, <2>10
    <3> QED
      BY <1>1, <2>4, <2>10, <3>1 DEF Paid
  <2>11. \A w \in Window : PaidAll(w) => PaidAll(w)'
    BY <1>1, <2>3 DEF PaidAll
  <2> QED
    BY <1>1, <2>2, <2>9, <2>10, <2>11 DEF Counts
<1> QED
  BY <1>2, <1>3 DEF ReserveAddress, Below

\* The mail goes out on the reservation the request made.
LEMMA CountsSend ==
    ASSUME TypeOK, Asked, Counts, NEW a \in Ask, SendMagicLink(a),
           NEW w0 \in Window, w0 = asks[a].window, NEW e0 \in Email, e0 = asks[a].email
    PROVE  Counts'
<1>1. /\ asks \in [Ask -> AskType] /\ asks[a].stage = "send" /\ w0 \in Window /\ e0 \in Email
      /\ asks[a] # NoAsk /\ UNCHANGED <<window, network, delivery>> /\ PaidAll(w0) /\ Paid(e0, w0)
      /\ asks' = [asks EXCEPT ![a] = NoAsk] /\ sent' = [sent EXCEPT ![w0] = sent[w0] + 1]
      /\ mails' = [mails EXCEPT ![e0] = [mails[e0] EXCEPT ![w0] = mails[e0][w0] + 1]]
  <2>1. asks[a].stage = "send" /\ UNCHANGED <<window, network, delivery>>
        /\ asks' = [asks EXCEPT ![a] = NoAsk] /\ sent' = [sent EXCEPT ![w0] = sent[w0] + 1]
        /\ mails' = [mails EXCEPT ![e0] = [mails[e0] EXCEPT ![w0] = mails[e0][w0] + 1]]
    BY DEF SendMagicLink
  <2> QED
    BY <2>1, RunningPaid DEF TypeOK
<1>2. \A w \in Window : Forgettable(w) => Forgettable(w)'
  BY <1>1, ForgettableStays
<1>3. /\ \A w \in Window : w # w0 => PendingAll(w)' = PendingAll(w)
      /\ PendingAll(w0)' = PendingAll(w0) \ {a} /\ a \in PendingAll(w0)
  BY <1>1 DEF PendingAll, NoAsk
<1>4. \A w \in Window : \A e \in Email : w # w0 \/ e # e0 => Pending(e, w)' = Pending(e, w)
  BY <1>1 DEF Pending, NoAsk
<1>5. Pending(e0, w0)' = Pending(e0, w0) \ {a} /\ a \in Pending(e0, w0)
  BY <1>1 DEF Pending, NoAsk
<1>6. Cardinality(PendingAll(w0))' = Cardinality(PendingAll(w0)) - 1
  <2> DEFINE waiting == PendingAll(w0)
  <2>1. IsFiniteSet(waiting) /\ a \in waiting
    BY <1>3, PendingFinite
  <2>2. Cardinality(waiting \ {a}) = Cardinality(waiting) - 1
    <3> HIDE DEF waiting
    <3> QED BY <2>1, FS_RemoveElement
  <2> QED BY <1>3, <2>2
<1>7. Cardinality(Pending(e0, w0))' = Cardinality(Pending(e0, w0)) - 1
  <2> DEFINE waiting == Pending(e0, w0)
  <2>1. IsFiniteSet(waiting) /\ a \in waiting
    BY <1>5, PendingFinite
  <2>2. Cardinality(waiting \ {a}) = Cardinality(waiting) - 1
    <3> HIDE DEF waiting
    <3> QED
      BY <2>1, FS_RemoveElement
  <2> QED
    BY <1>5, <2>2
<1>8. /\ network[w0] \in Nat /\ sent[w0] \in Nat /\ sent \in [Window -> Nat]
      /\ delivery[e0][w0] \in Nat /\ mails[e0][w0] \in Nat /\ mails \in [Email -> [Window -> Nat]]
  BY <1>1 DEF TypeOK
<1>9. Cardinality(PendingAll(w0))' \in Nat /\ Cardinality(PendingAll(w0)) \in Nat
  BY PendingFinite, PendingFiniteNext
<1>10. PaidAll(w0)' /\ sent'[w0] <= NetworkLimit
  <2>1. sent'[w0] = sent[w0] + 1 /\ network[w0] <= NetworkLimit
    BY <1>1, <1>8 DEF Counts
  <2> QED
    BY <1>1, <1>6, <1>8, <1>9, <2>1 DEF PaidAll
<1>11. Cardinality(Pending(e0, w0))' \in Nat /\ Cardinality(Pending(e0, w0)) \in Nat
  BY PendingFinite, PendingFiniteNext
<1>12. Paid(e0, w0)' /\ mails'[e0][w0] <= AddressLimit
  <2>1. mails'[e0][w0] = mails[e0][w0] + 1 /\ delivery[e0][w0] <= AddressLimit
    BY <1>1, <1>8 DEF Counts
  <2> QED
    BY <1>1, <1>7, <1>8, <1>11, <2>1 DEF Paid
<1>13. ASSUME NEW w \in Window, w # w0
       PROVE  sent'[w] = sent[w] /\ (PaidAll(w) => PaidAll(w)')
  BY <1>1, <1>3, <1>8, <1>13 DEF PaidAll
<1>14. ASSUME NEW w \in Window, NEW e \in Email, w # w0 \/ e # e0
       PROVE  mails'[e][w] = mails[e][w] /\ (Paid(e, w) => Paid(e, w)')
  <2>1. mails'[e][w] = mails[e][w]
    BY <1>1, <1>8, <1>14
  <2> QED
    BY <1>1, <1>4, <1>14, <2>1 DEF Paid
<1> QED
  BY <1>1, <1>2, <1>10, <1>12, <1>13, <1>14 DEF Counts


LEMMA CountsForget ==
    ASSUME TypeOK, Counts, NEW w0 \in Window, ForgetBuckets(w0)
    PROVE  Counts'
<1>1. /\ UNCHANGED <<window, asks, mails, sent>> /\ network' = [network EXCEPT ![w0] = 0]
      /\ delivery' = [e \in Email |-> [delivery[e] EXCEPT ![w0] = 0]] /\ Forgettable(w0)
      /\ network \in [Window -> Nat] /\ delivery \in [Email -> [Window -> Nat]]
  BY DEF ForgetBuckets, TypeOK
<1>2. \A w \in Window : /\ Forgettable(w)' = Forgettable(w) /\ PendingAll(w)' = PendingAll(w)
                        /\ \A e \in Email : Pending(e, w)' = Pending(e, w)
  BY <1>1 DEF Forgettable, PendingAll, Pending
<1>3. ASSUME NEW w \in Window, w # w0
      PROVE  network'[w] = network[w] /\ \A e \in Email : delivery'[e][w] = delivery[e][w]
  BY <1>1, <1>3
<1>4. network'[w0] = 0 /\ \A e \in Email : delivery'[e][w0] = 0
  BY <1>1
<1>5. ASSUME NEW w \in Window, ~Forgettable(w)'
      PROVE  PaidAll(w)' /\ \A e \in Email : Paid(e, w)'
  <2>1. w # w0 /\ PaidAll(w) /\ \A e \in Email : Paid(e, w)
    BY <1>1, <1>2, <1>5 DEF Counts
  <2> QED
    BY <1>1, <1>2, <1>3, <2>1 DEF PaidAll, Paid
<1>6. ASSUME NEW w \in Window
      PROVE  /\ network'[w] <= NetworkLimit /\ sent'[w] <= NetworkLimit
             /\ \A e \in Email : delivery'[e][w] <= AddressLimit /\ mails'[e][w] <= AddressLimit
  <2>1. CASE w = w0
    BY <1>1, <1>4, <2>1 DEF Counts
  <2>2. CASE w # w0
    BY <1>1, <1>3, <2>2 DEF Counts
  <2> QED
    BY <2>1, <2>2
<1> QED
  BY <1>5, <1>6 DEF Counts

\* A step of a request that writes no bucket and adds none to those that wait to be sent.
LEMMA CountsAsk ==
    ASSUME TypeOK, Asked, Counts, NEW a \in Ask,
           \/ \E e \in Email : RequestLink(a, e)
           \/ \E l \in Link : StoreChallenge(a, l)
           \/ AbandonRequest(a)
    PROVE  Counts'
<1>1. asks \in [Ask -> AskType] /\ window' = window /\ UNCHANGED buckets
  BY DEF TypeOK, RequestLink, StoreChallenge, AbandonRequest
<1>2. CASE \E e \in Email : RequestLink(a, e)
  <2>1. PICK e \in Email : RequestLink(a, e)
    BY <1>2
  <2> DEFINE new == [stage |-> "network", email |-> e, window |-> window, link |-> NoLink]
  <2>2. asks' = [asks EXCEPT ![a] = new] /\ new.stage = "network" /\ new.window = window
    BY <2>1 DEF RequestLink
  <2> HIDE DEF new
  <2>3. \A w \in Window : /\ PendingAll(w)' \subseteq PendingAll(w)
                          /\ \A o \in Email : Pending(o, w)' \subseteq Pending(o, w)
    BY <1>1, <2>2 DEF Pending, PendingAll
  <2>4. \A w \in Window : Forgettable(w) => Forgettable(w)'
    BY <1>1, <2>2, ForgettableStays
  <2> QED
    BY <1>1, <2>3, <2>4, CountsShrink
<1>3. CASE \E l \in Link : StoreChallenge(a, l)
  <2>1. PICK l \in Link : StoreChallenge(a, l)
    BY <1>3
  <2> DEFINE new == [asks[a] EXCEPT !.stage = "send", !.link = l]
  <2>2. asks' = [asks EXCEPT ![a] = new] /\ asks[a].stage = "store"
    BY <2>1 DEF StoreChallenge
  <2>3. new.stage = "send" /\ new.email = asks[a].email /\ new.window = asks[a].window
    BY <1>1 DEF AskType
  <2>4. asks[a] # NoAsk
    BY <2>2 DEF NoAsk
  <2> HIDE DEF new
  <2>5. \A w \in Window : /\ PendingAll(w)' \subseteq PendingAll(w)
                          /\ \A o \in Email : Pending(o, w)' \subseteq Pending(o, w)
    BY <1>1, <2>2, <2>3 DEF Pending, PendingAll
  <2>6. \A w \in Window : Forgettable(w) => Forgettable(w)'
    BY <1>1, <2>2, <2>3, <2>4, ForgettableStays
  <2> QED
    BY <1>1, <2>5, <2>6, CountsShrink
<1>4. CASE AbandonRequest(a)
  <2>1. asks' = [asks EXCEPT ![a] = NoAsk]
    BY <1>4 DEF AbandonRequest
  <2>2. \A w \in Window : /\ PendingAll(w)' \subseteq PendingAll(w)
                          /\ \A o \in Email : Pending(o, w)' \subseteq Pending(o, w)
    BY <1>1, <2>1 DEF Pending, PendingAll, NoAsk
  <2>3. \A w \in Window : Forgettable(w) => Forgettable(w)'
    BY <1>1, <2>1, ForgettableStays
  <2> QED
    BY <1>1, <2>2, <2>3, CountsShrink
<1> QED
  BY <1>2, <1>3, <1>4

LEMMA CountsNext == TypeOK /\ Asked /\ Counts /\ [Next]_vars => Counts'
<1> SUFFICES ASSUME TypeOK, Asked, Counts, [Next]_vars PROVE Counts'
  OBVIOUS
<1>1. ASSUME NEW a \in Ask, ReserveNetwork(a) \/ ReserveAddress(a) \/ SendMagicLink(a)
      PROVE  Counts'
  <2>1. asks[a].stage # "none"
    BY <1>1 DEF ReserveNetwork, ReserveAddress, SendMagicLink
  <2>2. PICK e0 \in Email, w0 \in Window : e0 = asks[a].email /\ w0 = asks[a].window
    BY <2>1, RunningPaid
  <2> QED
    BY <1>1, <2>2, CountsReserveNetwork, CountsReserveAddress, CountsSend
<1>2. CASE UNCHANGED <<asks, buckets, window>>
  <2>1. \A w \in Window : /\ Forgettable(w) => Forgettable(w)'
                          /\ PendingAll(w)' \subseteq PendingAll(w)
                          /\ \A e \in Email : Pending(e, w)' \subseteq Pending(e, w)
    BY <1>2 DEF Forgettable, PendingAll, Pending
  <2> QED
    BY <1>2, <2>1, CountsShrink
<1>3. CASE NextWindow
  <2>1. window' = window + 1 /\ window \in Nat /\ UNCHANGED <<asks, buckets>>
    BY <1>3 DEF NextWindow, TypeOK, Window
  <2>2. \A w \in Window : /\ Forgettable(w) => Forgettable(w)'
                          /\ PendingAll(w)' \subseteq PendingAll(w)
                          /\ \A e \in Email : Pending(e, w)' \subseteq Pending(e, w)
    BY <2>1 DEF Forgettable, PendingAll, Pending, Window
  <2> QED
    BY <2>1, <2>2, CountsShrink
<1>4. CASE Restore
  <2>1. window' = window + 1 /\ window \in Nat /\ UNCHANGED buckets /\ \A a \in Ask : asks'[a] = NoAsk
    BY <1>4 DEF Restore, TypeOK, Window
  <2>2. \A w \in Window : /\ Forgettable(w) => Forgettable(w)'
                          /\ PendingAll(w)' \subseteq PendingAll(w)
                          /\ \A e \in Email : Pending(e, w)' \subseteq Pending(e, w)
    BY <2>1 DEF Forgettable, PendingAll, Pending, Window, NoAsk
  <2> QED
    BY <2>1, <2>2, CountsShrink
<1>5. ASSUME NEW v \in Visit,
             \/ \E l \in Link : TakeLink(v, l)
             \/ LockAddress(v) \/ ReadIdentity(v) \/ SignInAgain(v) \/ AbortVisit(v)
             \/ \E u \in User : SignUp(v, u)
      PROVE  Counts'
  BY <1>2, <1>5 DEF TakeLink, LockAddress, ReadIdentity, SignInAgain, AbortVisit, SignUp
<1>6. CASE \E l \in Link : SignOut(l) \/ LinkLapses(l) \/ RemoveLink(l) \/ RemoveSession(l)
  BY <1>2, <1>6 DEF SignOut, LinkLapses, RemoveLink, RemoveSession
<1>7. CASE \E u \in User : LockUser(u) \/ TombstoneAges(u) \/ PruneTombstone(u)
  BY <1>2, <1>7 DEF LockUser, TombstoneAges, PruneTombstone
<1>8. CASE DeleteAccount \/ AbortDeletion \/ BreakDeadlock \/ BackUp \/ ReturnTraffic
  BY <1>2, <1>8 DEF DeleteAccount, AbortDeletion, BreakDeadlock, AbortVisit, BackUp, ReturnTraffic
<1>9. CASE \E w \in Window : ForgetBuckets(w)
  BY <1>9, CountsForget
<1>10. CASE UNCHANGED vars
  BY <1>2, <1>10 DEF vars, buckets
<1> QED
  BY <1>1, <1>3, <1>4, <1>5, <1>6, <1>7, <1>8, <1>9, <1>10, CountsAsk DEF Next

-----------------------------------------------------------------------------
(* The theorems.                                                           *)

\* The state that every step keeps.
IInv == TypeOK /\ Linked /\ Asked /\ Accounts /\ Counts

\* The reachable states of Spec all satisfy IInv.
THEOREM Invariance == Spec => []IInv
<1>1. Init => IInv
  <2>1. Init => Linked
    BY DEF Init, Linked, NoVisit
  <2> QED
    BY <2>1, TypeInit, AskedInit, AccountsInit, CountsInit DEF IInv
<1>2. IInv /\ [Next]_vars => IInv'
  BY TypeStep, AskedNext, AccountsNext, CountsNext DEF IInv
<1> QED
  BY <1>1, <1>2, PTL DEF Spec

\* Every table, bucket, request, sign-in and backup holds only what its column or field may
\* hold (TypeOK), under every interleaving, restore and deletion.
THEOREM TypeCorrect == Spec => []TypeOK
<1>1. IInv => TypeOK
  BY DEF IInv
<1> QED
  BY <1>1, Invariance, PTL

\* A link signs in once, whatever visits use it at the same time and whichever of them fail:
\* the update that takes it and the session are one transaction (consume()).
THEOREM OneSessionPerLink == Spec => []LinkSignsInOnce
<1>1. IInv => LinkSignsInOnce
  BY DEF IInv, Accounts, RowsKept, RowKept, LinkSignsInOnce
<1> QED
  BY <1>1, Invariance, PTL

\* What a sign-in reads of its address stays so until it ends: the lock on the address keeps
\* other sign-ins away and the lock on the user's row the deletion (WhatWasReadHolds).
THEOREM ReadsHold == Spec => []WhatWasReadHolds
<1>1. IInv => WhatWasReadHolds
  BY DEF IInv, Accounts, VisitsHeld, VisitHeld, WhatWasReadHolds
<1> QED
  BY <1>1, Invariance, PTL

\* No user has a tombstone, before a restore or after one, since a backup has none either
\* (NoUserHasTombstone).
THEOREM UserOrTombstone == Spec => []NoUserHasTombstone
<1>1. IInv => NoUserHasTombstone
  BY DEF IInv, Accounts, UsersKept, NoUserHasTombstone
<1> QED
  BY <1>1, Invariance, PTL

\* Sign-ins and a deletion never all wait for one another without a deadlock that PostgreSQL
\* sees, however many run at once (WaitsEnd).
THEOREM SomebodyGoesOn == Spec => []WaitsEnd
<1>1. IInv => WaitsEnd
  <2> SUFFICES ASSUME IInv, deletion # NoUser \/ \E v \in Visit : visits[v] # NoVisit
               PROVE  WaitsEnd
    BY DEF WaitsEnd
  <2>1. CASE \E v \in Visit : visits[v].stage = "found"
    BY <2>1 DEF WaitsEnd
  <2>2. CASE /\ ~\E v \in Visit : visits[v].stage = "found"
             /\ \E v \in Visit : visits[v].stage = "locked"
    <3>1. PICK v \in Visit : visits[v].stage = "locked"
      BY <2>2
    <3>2. CASE \A u \in Users(AddressOf(v)) : ~UserLocked(u)
      BY <3>1, <3>2 DEF WaitsEnd
    <3>3. CASE \E u \in Users(AddressOf(v)) : UserLocked(u)
      <4>1. PICK u \in User : address[u] = AddressOf(v) /\ deletion = u
        BY <2>2, <3>3 DEF Users, UserLocked
      <4>2. Deadlocked
        BY <3>1, <4>1 DEF Deadlocked
      <4> QED
        BY <4>2 DEF WaitsEnd
    <3> QED
      BY <3>2, <3>3
  <2>3. CASE /\ ~\E v \in Visit : visits[v].stage \in {"found", "locked"}
             /\ \E v \in Visit : visits[v].stage = "taken"
    <3>1. PICK v \in Visit : visits[v].stage = "taken"
      BY <2>3
    <3>2. ~AddressLocked(AddressOf(v))
      BY <2>3 DEF AddressLocked
    <3> QED
      BY <3>1, <3>2 DEF WaitsEnd
  <2>4. CASE ~\E v \in Visit : visits[v].stage \in {"found", "locked", "taken"}
    <3>1. \A v \in Visit : visits[v] = NoVisit
      BY <2>4, CurrentTypes DEF IInv, Accounts, VisitsHeld, VisitHeld
    <3>2. deletion # NoUser /\ \A l \in Link : ~Taken(l)
      BY <3>1 DEF Taken, NoVisit
    <3> QED
      BY <3>2 DEF WaitsEnd
  <2> QED
    BY <2>1, <2>2, <2>3, <2>4
<1> QED
  BY <1>1, Invariance, PTL

\* However many requests run at once, and wherever they stop, no more mails go out in a window
\* than the limits of the address and of the network allow (MailsWithinLimits).
THEOREM LimitsHold == Spec => []MailsWithinLimits
<1>1. IInv => MailsWithinLimits
  BY DEF IInv, Counts, MailsWithinLimits
<1> QED
  BY <1>1, Invariance, PTL
=============================================================================
