----------------------------- MODULE Web_proofs -----------------------------
(***************************************************************************)
(* Proofs about what the Web serves: the requests, the periods and the     *)
(* dashboard, and the rates it is converted with.                          *)
(*                                                                         *)
(* For every number of accounts, sessions, requests and server processes:  *)
(* no preference is lost, and nothing is written in the name of a session  *)
(* that was ended.  The argument is that a request which shares its rows   *)
(* has an open session and has read what is still there: whoever changes   *)
(* the one or the other needs the row for itself.                          *)
(*                                                                         *)
(* For every calendar and every period: what the columns of the chart and  *)
(* the two windows of a comparison cover.  For every set of Expenses,      *)
(* rates and bodies of the sources: what a page that was read statement by *)
(* statement tells its reader and compares, what its parts add up to, and  *)
(* what a refresh may do to the rates.                                     *)
(***************************************************************************)
EXTENDS WebRequests, Dashboard, FiniteSetTheorems, SequenceTheorems, WellFoundedInduction, TLAPS

-----------------------------------------------------------------------------
(* Requests of the Web (WebRequests).                                       *)

PreferenceKinds == {"save_preferences", "change_language"}

\* A request that holds its rows has an open session of an account that exists.
SharesValid == \A r \in Request : Sharing(r) => IsValid(requests[r].session)

\* What a change of preferences is computed from is what is stored.
ReadIsCurrent ==
    \A r \in Request : requests[r].stage = "writes" /\ requests[r].kind \in PreferenceKinds
                           => requests[r].read = accounts[AccountOf(r)]

IInv == TypeOK /\ SharesValid /\ ReadIsCurrent /\ NoPreferenceLost

LEMMA RequestTypes ==
    ASSUME TypeOK, NEW r \in Request
    PROVE  /\ requests[r] = New \/ requests[r] = Ended \/ requests[r] \in RequestType
           /\ New.stage = "new" /\ Ended.stage = "ended"
BY DEF TypeOK, New, Ended

\* A request that is under way is a record of one.
LEMMA UnderWay ==
    ASSUME TypeOK, NEW r \in Request, requests[r].stage \in Stage \ {"new", "ended"}
    PROVE  /\ requests[r] \in RequestType
           /\ requests[r].session \in Session /\ requests[r].process \in Process
           /\ requests[r].wish \in Wish /\ requests[r].kind \in Kinds
           /\ AccountOf(r) \in Account
           /\ requests[r] # New /\ requests[r] # Ended
<1>1. requests[r] \in RequestType /\ requests[r] # New /\ requests[r] # Ended
    BY RequestTypes DEF New, Ended
<1>2. requests[r].session \in Session /\ requests[r].process \in Process
      /\ requests[r].wish \in Wish /\ requests[r].kind \in Kinds
    BY <1>1 DEF RequestType
<1> QED BY <1>1, <1>2, OwnerAssumption DEF AccountOf

\* A step of one request that leaves the rows as they are: the others share and read
\* what they did.
LEMMA OthersUndisturbed ==
    ASSUME IInv, NEW r \in Request, NEW new,
           requests' = [requests EXCEPT ![r] = new],
           UNCHANGED <<accounts, sessions>>
    PROVE  /\ \A q \in Request \ {r} :
                 /\ Sharing(q)' => IsValid(requests[q].session)'
                 /\ (requests[q].stage = "writes" /\ requests[q].kind \in PreferenceKinds)'
                        => (requests[q].read = accounts[AccountOf(q)])'
           /\ requests'[r] = new
<1>1. \A q \in Request \ {r} : requests'[q] = requests[q]
    BY DEF IInv, TypeOK
<1>2. requests'[r] = new
    BY DEF IInv, TypeOK
<1>3. ASSUME NEW q \in Request \ {r}
      PROVE  /\ Sharing(q)' => IsValid(requests[q].session)'
             /\ (requests[q].stage = "writes" /\ requests[q].kind \in PreferenceKinds)'
                    => (requests[q].read = accounts[AccountOf(q)])'
  <2>1. requests'[q] = requests[q]
    BY <1>1
  <2> QED BY <2>1 DEF IInv, SharesValid, ReadIsCurrent, Sharing, IsValid, AccountOf, Authenticates
<1> QED BY <1>2, <1>3

\* A request that ends holds nothing.
LEMMA EndsKeeps ==
    ASSUME IInv, NEW r \in Request, requests[r].stage \in Stage \ {"new", "ended"},
           Ends(r), UNCHANGED <<accounts, sessions, stored>>
    PROVE  IInv'
<1>1. requests' = [requests EXCEPT ![r] = Ended]
    BY DEF Ends
<1>2. TypeOK'
    BY UnderWay DEF IInv, TypeOK, Ends, RequestType
<1>3. requests'[r] = Ended
    BY <1>1, OthersUndisturbed
<1>4. requests'[r].stage = "ended"
    BY <1>3 DEF Ended
<1>5. ~Sharing(r)' /\ ~(requests[r].stage = "writes" /\ requests[r].kind \in PreferenceKinds)'
    BY <1>4 DEF Sharing
<1>6. SharesValid' /\ ReadIsCurrent'
    BY <1>1, <1>5, OthersUndisturbed DEF SharesValid, ReadIsCurrent
<1> QED BY <1>2, <1>6 DEF IInv, NoPreferenceLost

\* Nor does it when it ends with the rows' new values, which it needed for itself.
LEMMA WriterEnds ==
    ASSUME IInv, NEW r \in Request, requests[r].stage \in Stage \ {"new", "ended"}, Ends(r),
           accounts' = stored',
           accounts' \in [Account -> Preferences \cup {NoAccount}],
           sessions' \in [Session -> {"unissued", "open", "ended"}],
           \A q \in Request \ {r} : Sharing(q) =>
               /\ accounts'[AccountOf(q)] = accounts[AccountOf(q)]
               /\ sessions'[requests[q].session] = sessions[requests[q].session]
    PROVE  IInv'
<1>1. \A q \in Request \ {r} : requests'[q] = requests[q]
    BY DEF IInv, TypeOK, Ends
<1>2. requests'[r] = Ended /\ Ended.stage = "ended"
    BY DEF IInv, TypeOK, Ends, Ended
<1>3. TypeOK'
  <2>1. stored' \in [Account -> Preferences \cup {NoAccount}]
    OBVIOUS
  <2>2. loop' \in [Process -> Request \cup {NoRequest}]
    BY UnderWay DEF IInv, TypeOK, Ends
  <2>3. requests' \in [Request -> RequestType \cup {New, Ended}]
    BY DEF IInv, TypeOK, Ends
  <2> QED BY <2>1, <2>2, <2>3 DEF TypeOK
<1>4. ASSUME NEW q \in Request, Sharing(q)'
      PROVE  IsValid(requests[q].session)'
  <2>1. q # r
    BY <1>2, <1>4 DEF Sharing
  <2>2. requests'[q] = requests[q] /\ Sharing(q)
    BY <1>1, <1>4, <2>1 DEF Sharing, Authenticates
  <2>3. IsValid(requests[q].session)
    BY <2>2 DEF IInv, SharesValid
  <2> QED BY <2>1, <2>2, <2>3 DEF IsValid, AccountOf
<1>5. ASSUME NEW q \in Request, (requests[q].stage = "writes" /\ requests[q].kind \in PreferenceKinds)'
      PROVE  (requests[q].read = accounts[AccountOf(q)])'
  <2>1. q # r
    BY <1>2, <1>5
  <2>2. requests'[q] = requests[q]
    BY <1>1, <2>1
  <2>3. Sharing(q) /\ requests[q].read = accounts[AccountOf(q)]
    BY <1>5, <2>2 DEF IInv, ReadIsCurrent, Sharing, Authenticates, PreferenceKinds
  <2> QED BY <2>1, <2>2, <2>3 DEF AccountOf
<1> QED BY <1>3, <1>4, <1>5 DEF IInv, SharesValid, ReadIsCurrent, NoPreferenceLost

LEMMA ArriveKeeps ==
    ASSUME IInv, NEW r \in Request, NEW p \in Process, NEW kind \in Kinds, NEW s \in Session,
           NEW wish \in Wish, Arrive(r, p, kind, s, wish)
    PROVE  IInv'
<1> DEFINE new == [kind |-> kind, session |-> s, process |-> p, wish |-> wish,
                   stage |-> FirstStage(kind), read |-> NoAccount]
<1>1. requests' = [requests EXCEPT ![r] = new] /\ UNCHANGED <<accounts, sessions, stored>>
    BY DEF Arrive
<1>2. FirstStage(kind) \in Stage \ {"new", "ended"}
      /\ (Authenticates(kind) => FirstStage(kind) = "authenticates")
      /\ (kind \in PreferenceKinds => FirstStage(kind) = "authenticates")
    BY DEF FirstStage, Stage, Authenticates, PreferenceKinds, Kinds
<1>3. new \in RequestType
    BY <1>2 DEF RequestType
<1>4. TypeOK'
  <2>1. loop' \in [Process -> Request \cup {NoRequest}]
    BY DEF Arrive, IInv, TypeOK
  <2>2. requests' \in [Request -> RequestType \cup {New, Ended}]
    BY <1>1, <1>3 DEF IInv, TypeOK
  <2> QED BY <1>1, <2>1, <2>2 DEF IInv, TypeOK
<1>5. requests'[r] = new
    BY <1>1, OthersUndisturbed
<1>6. ~Sharing(r)' /\ ~(requests[r].stage = "writes" /\ requests[r].kind \in PreferenceKinds)'
    BY <1>2, <1>5 DEF Sharing, Authenticates, PreferenceKinds
<1>7. \A q \in Request \ {r} :
          /\ Sharing(q)' => IsValid(requests[q].session)'
          /\ (requests[q].stage = "writes" /\ requests[q].kind \in PreferenceKinds)'
                 => (requests[q].read = accounts[AccountOf(q)])'
    BY <1>1, OthersUndisturbed
<1>8. SharesValid' /\ ReadIsCurrent'
    BY <1>6, <1>7 DEF SharesValid, ReadIsCurrent
<1> QED BY <1>1, <1>4, <1>8 DEF IInv, NoPreferenceLost

\* A request that goes on, on a free loop or in a call.
LEMMA GoesOn ==
    ASSUME IInv, NEW r \in Request, requests[r].stage \in Stage \ {"new", "ended"},
           NEW stage \in Stage \ {"new", "ended"}, Yields(r, stage) \/ Calls(r, stage),
           UNCHANGED <<accounts, sessions, stored>>,
           Authenticates(requests[r].kind) => IsValid(requests[r].session),
           requests[r].kind \in PreferenceKinds => stage # "writes"
    PROVE  IInv'
<1> DEFINE new == [requests[r] EXCEPT !.stage = stage]
<1>1. requests[r] \in RequestType
    BY UnderWay DEF IInv
<1>2. requests' = [requests EXCEPT ![r] = new]
    BY DEF Yields, Calls
<1>3. new \in RequestType /\ new.stage = stage /\ new.kind = requests[r].kind
      /\ new.session = requests[r].session
    BY <1>1 DEF RequestType
<1>4. TypeOK'
  <2>1. loop' \in [Process -> Request \cup {NoRequest}]
    BY DEF Yields, Calls, IInv, TypeOK
  <2>2. requests' \in [Request -> RequestType \cup {New, Ended}]
    BY <1>2, <1>3 DEF IInv, TypeOK
  <2> QED BY <2>1, <2>2 DEF IInv, TypeOK
<1>5. requests'[r] = new
    BY <1>2, OthersUndisturbed
<1>6. /\ Sharing(r)' => IsValid(requests[r].session)'
      /\ ~(requests[r].stage = "writes" /\ requests[r].kind \in PreferenceKinds)'
    BY <1>3, <1>5 DEF Sharing, IsValid, Authenticates
<1>7. SharesValid' /\ ReadIsCurrent'
    BY <1>2, <1>6, OthersUndisturbed DEF SharesValid, ReadIsCurrent
<1> QED BY <1>4, <1>7 DEF IInv, NoPreferenceLost

LEMMA MergedIsPreferences ==
    ASSUME NEW prefs \in Preferences, NEW wish \in Wish
    PROVE  Merged(prefs, wish) \in Preferences
<1>1. \A f \in DOMAIN wish : wish[f] \in Value
    BY DEF Wish
<1> QED BY <1>1 DEF Merged, Preferences

LEMMA ReadKeeps ==
    ASSUME IInv, NEW r \in Request, ReadPreferences(r)
    PROVE  IInv'
<1> DEFINE a == AccountOf(r)
           wish == requests[r].wish
<1>1. requests[r].stage = "reads" /\ requests[r].stage \in Stage \ {"new", "ended"}
    BY DEF ReadPreferences, Stage
<1>2. requests[r] \in RequestType /\ a \in Account
    BY <1>1, UnderWay DEF IInv
<1>3. CASE /\ accounts[a] # NoAccount
           /\ requests' = [requests EXCEPT ![r] = [@ EXCEPT !.stage = "writes", !.read = accounts[a]]]
           /\ UNCHANGED <<accounts, sessions, loop, stored>>
  <2> DEFINE new == [requests[r] EXCEPT !.stage = "writes", !.read = accounts[a]]
  <2>1. requests' = [requests EXCEPT ![r] = new]
    BY <1>3
  <2>2. accounts[a] \in Preferences \cup {NoAccount}
    BY <1>2 DEF IInv, TypeOK
  <2>3. new \in RequestType /\ new.kind = requests[r].kind /\ new.session = requests[r].session
        /\ new.read = accounts[a]
    BY <1>2, <2>2 DEF RequestType, Stage
  <2>4. TypeOK'
    BY <1>3, <2>1, <2>3 DEF IInv, TypeOK
  <2>5. requests'[r] = new
    BY <1>3, <2>1, OthersUndisturbed
  <2>6. Sharing(r)' => Sharing(r)
    BY <1>1, <2>3, <2>5 DEF Sharing, Authenticates
  <2>7. Sharing(r)' => IsValid(requests[r].session)'
    BY <1>3, <2>3, <2>5, <2>6 DEF IInv, SharesValid, IsValid
  <2>8. (requests[r].read = accounts[AccountOf(r)])'
    BY <1>3, <2>3, <2>5 DEF AccountOf
  <2>9. \A q \in Request \ {r} :
            /\ Sharing(q)' => IsValid(requests[q].session)'
            /\ (requests[q].stage = "writes" /\ requests[q].kind \in PreferenceKinds)'
                   => (requests[q].read = accounts[AccountOf(q)])'
    BY <1>3, <2>1, OthersUndisturbed
  <2>10. SharesValid' /\ ReadIsCurrent'
    BY <2>7, <2>8, <2>9 DEF SharesValid, ReadIsCurrent
  <2> QED BY <1>3, <2>4, <2>10 DEF IInv, NoPreferenceLost
<1>4. CASE /\ accounts[a] # NoAccount /\ Merged(accounts[a], wish) = accounts[a]
           /\ stored' = [stored EXCEPT ![a] = Merged(@, wish)]
           /\ Ends(r) /\ UNCHANGED <<accounts, sessions>>
  <2>1. stored' = stored
    BY <1>2, <1>4 DEF IInv, NoPreferenceLost, TypeOK
  <2> QED BY <1>1, <1>4, <2>1, EndsKeeps
<1>5. CASE Ends(r) /\ UNCHANGED <<accounts, sessions, stored>>
    BY <1>1, <1>5, EndsKeeps
<1> QED BY <1>3, <1>4, <1>5 DEF ReadPreferences

LEMMA WriteKeeps ==
    ASSUME IInv, NEW r \in Request, WritePreferences(r)
    PROVE  IInv'
<1> DEFINE a == AccountOf(r)
           wish == requests[r].wish
<1>1. requests[r].stage = "writes" /\ requests[r].stage \in Stage \ {"new", "ended"}
      /\ requests[r].kind \in PreferenceKinds
    BY DEF WritePreferences, Stage, PreferenceKinds
<1>2. requests[r] \in RequestType /\ a \in Account /\ wish \in Wish
    BY <1>1, UnderWay DEF IInv
<1>3. CASE accounts[a] = NoAccount
    BY <1>1, <1>3, EndsKeeps DEF WritePreferences
<1>4. CASE accounts[a] # NoAccount
  <2>1. /\ accounts' = [accounts EXCEPT ![a] = Merged(requests[r].read, wish)]
        /\ stored' = [stored EXCEPT ![a] = Merged(stored[a], wish)]
        /\ Ends(r) /\ UNCHANGED sessions /\ UserFree(a, r)
    BY <1>4 DEF WritePreferences
  <2>2. requests[r].read = accounts[a] /\ accounts[a] \in Preferences
    BY <1>1, <1>2, <1>4 DEF IInv, ReadIsCurrent, TypeOK
  <2>3. accounts' = stored'
    BY <2>1, <2>2 DEF IInv, NoPreferenceLost
  <2>4. accounts' \in [Account -> Preferences \cup {NoAccount}]
    BY <1>2, <2>1, <2>2, MergedIsPreferences DEF IInv, TypeOK
  <2>5. \A q \in Request \ {r} : Sharing(q) => accounts'[AccountOf(q)] = accounts[AccountOf(q)]
    BY <2>1 DEF UserFree, IInv, TypeOK
  <2> QED BY <1>1, <2>1, <2>3, <2>4, <2>5, WriterEnds DEF IInv, TypeOK
<1> QED BY <1>3, <1>4

LEMMA DeleteKeeps ==
    ASSUME IInv, NEW r \in Request, DeleteAccount(r)
    PROVE  IInv'
<1> DEFINE a == AccountOf(r)
<1>1. requests[r].stage \in Stage \ {"new", "ended"}
    BY DEF DeleteAccount, Stage
<1>2. a \in Account
    BY <1>1, UnderWay DEF IInv
<1>3. /\ accounts' = [accounts EXCEPT ![a] = NoAccount]
      /\ stored' = [stored EXCEPT ![a] = NoAccount]
      /\ sessions' = [s \in Session |-> IF Owner[s] = a THEN "ended" ELSE sessions[s]]
      /\ Ends(r) /\ UserFree(a, r)
    BY DEF DeleteAccount
<1>4. accounts' = stored' /\ accounts' \in [Account -> Preferences \cup {NoAccount}]
      /\ sessions' \in [Session -> {"unissued", "open", "ended"}]
    BY <1>3 DEF IInv, NoPreferenceLost, TypeOK
<1>5. ASSUME NEW q \in Request \ {r}, Sharing(q)
      PROVE  /\ accounts'[AccountOf(q)] = accounts[AccountOf(q)]
             /\ sessions'[requests[q].session] = sessions[requests[q].session]
  <2>1. AccountOf(q) # a
    BY <1>3, <1>5 DEF UserFree
  <2>2. requests[q].session \in Session /\ Owner[requests[q].session] # a
    BY <1>5, <2>1, UnderWay DEF IInv, Sharing, Stage, AccountOf
  <2> QED BY <1>3, <2>1, <2>2 DEF IInv, TypeOK
<1> QED BY <1>1, <1>3, <1>4, <1>5, WriterEnds

LEMMA SignInKeeps ==
    ASSUME IInv, NEW r \in Request, SignIn(r)
    PROVE  IInv'
<1>1. requests[r].stage \in Stage \ {"new", "ended"} /\ Ends(r) /\ UNCHANGED <<accounts, stored>>
    BY DEF SignIn, Stage
<1>2. requests[r].session \in Session
    BY <1>1, UnderWay DEF IInv
<1>3. sessions' \in [Session -> {"unissued", "open", "ended"}]
    BY <1>2 DEF SignIn, IInv, TypeOK
<1>4. ASSUME NEW q \in Request \ {r}, Sharing(q)
      PROVE  sessions'[requests[q].session] = sessions[requests[q].session]
  <2>1. requests[q].session \in Session /\ sessions[requests[q].session] = "open"
    BY <1>4, UnderWay DEF IInv, SharesValid, IsValid, Sharing, Stage
  <2> QED BY <1>2, <2>1 DEF SignIn, IInv, TypeOK
<1>5. accounts' = stored' /\ accounts' \in [Account -> Preferences \cup {NoAccount}]
    BY <1>1 DEF IInv, NoPreferenceLost, TypeOK
<1> QED BY <1>1, <1>3, <1>4, <1>5, WriterEnds

LEMMA LogoutKeeps ==
    ASSUME IInv, NEW r \in Request, Logout(r)
    PROVE  IInv'
<1>1. requests[r].stage \in Stage \ {"new", "ended"} /\ Ends(r) /\ UNCHANGED <<accounts, stored>>
      /\ SessionFree(requests[r].session, r)
    BY DEF Logout, Stage
<1>2. requests[r].session \in Session
    BY <1>1, UnderWay DEF IInv
<1>3. sessions' \in [Session -> {"unissued", "open", "ended"}]
    BY <1>2 DEF Logout, IInv, TypeOK
<1>4. ASSUME NEW q \in Request \ {r}, Sharing(q)
      PROVE  sessions'[requests[q].session] = sessions[requests[q].session]
  <2>1. requests[q].session \in Session /\ requests[q].session # requests[r].session
    BY <1>1, <1>4, UnderWay DEF IInv, SessionFree, Sharing, Stage
  <2> QED BY <1>2, <2>1 DEF Logout, IInv, TypeOK
<1>5. accounts' = stored' /\ accounts' \in [Account -> Preferences \cup {NoAccount}]
    BY <1>1 DEF IInv, NoPreferenceLost, TypeOK
<1> QED BY <1>1, <1>3, <1>4, <1>5, WriterEnds

LEMMA CrashKeeps ==
    ASSUME IInv, NEW p \in Process, Crash(p)
    PROVE  IInv'
<1>1. \A q \in Request : requests'[q] = requests[q] \/ requests'[q] = Ended
    BY DEF Crash
<1>2. UNCHANGED <<accounts, sessions, stored>>
    BY DEF Crash
<1>3. TypeOK'
    BY <1>2 DEF Crash, IInv, TypeOK
<1>4. ASSUME NEW q \in Request
      PROVE  /\ Sharing(q)' => IsValid(requests[q].session)'
             /\ (requests[q].stage = "writes" /\ requests[q].kind \in PreferenceKinds)'
                    => (requests[q].read = accounts[AccountOf(q)])'
  <2>1. CASE requests'[q] = requests[q]
    BY <1>2, <2>1 DEF IInv, SharesValid, ReadIsCurrent, Sharing, IsValid, AccountOf, Authenticates
  <2>2. CASE requests'[q] = Ended
    BY <2>2 DEF Sharing, Ended
  <2> QED BY <1>1, <2>1, <2>2
<1> QED BY <1>2, <1>3, <1>4 DEF IInv, SharesValid, ReadIsCurrent, NoPreferenceLost

LEMMA StepKeeps ==
    ASSUME IInv, NEW r \in Request, Step(r) \/ Refuse(r)
    PROVE  IInv'
<1>1. CASE Authenticate(r)
  <2>1. requests[r].stage \in Stage \ {"new", "ended"} /\ "awaits" \in Stage \ {"new", "ended"}
    BY <1>1 DEF Authenticate, Stage
  <2>2. CASE IsValid(requests[r].session)
    BY <1>1, <2>1, <2>2, GoesOn DEF Authenticate
  <2>3. CASE ~IsValid(requests[r].session)
    BY <1>1, <2>1, <2>3, EndsKeeps DEF Authenticate
  <2> QED BY <2>2, <2>3
<1>2. CASE NetworkDone(r)
  <2>1. requests[r].stage = "awaits" /\ requests[r].stage \in Stage \ {"new", "ended"}
    BY <1>2 DEF NetworkDone, Stage
  <2>2. Authenticates(requests[r].kind) => IsValid(requests[r].session)
    BY <2>1 DEF IInv, SharesValid, Sharing
  <2>3. UNCHANGED <<accounts, sessions, stored>>
    BY <1>2 DEF NetworkDone
  <2>4. CASE Ends(r)
    BY <2>1, <2>3, <2>4, EndsKeeps
  <2>5. CASE Calls(r, "reads")
    BY <2>1, <2>2, <2>3, <2>5, GoesOn DEF Stage
  <2>6. CASE requests[r].kind \in {"delete_account", "sign_in"} /\ Calls(r, "writes")
    BY <2>1, <2>2, <2>3, <2>6, GoesOn DEF Stage, PreferenceKinds
  <2> QED BY <1>2, <2>4, <2>5, <2>6 DEF NetworkDone
<1>3. CASE Refuse(r)
    BY <1>3, EndsKeeps DEF Refuse, Stage
<1>4. CASE BreakDeadlock(r)
    BY <1>4, EndsKeeps DEF BreakDeadlock, Deadlocked, Stage
<1> QED BY <1>1, <1>2, <1>3, <1>4, ReadKeeps, WriteKeeps, DeleteKeeps, SignInKeeps, LogoutKeeps
       DEF Step

LEMMA InitEstablishes ==
    ASSUME Init
    PROVE  IInv
<1>1. TypeOK
    BY DefaultAssumption DEF Init, TypeOK
<1>2. \A r \in Request : requests[r].stage = "new"
    BY DEF Init, New
<1> QED BY <1>1, <1>2 DEF IInv, SharesValid, ReadIsCurrent, NoPreferenceLost, Sharing, Init

LEMMA NextKeeps ==
    ASSUME IInv, [Next]_vars
    PROVE  IInv'
<1>1. CASE UNCHANGED vars
    BY <1>1 DEF vars, IInv, TypeOK, SharesValid, ReadIsCurrent, NoPreferenceLost, Sharing, IsValid,
               AccountOf, Authenticates
<1>2. CASE Next
    BY <1>2, ArriveKeeps, StepKeeps, CrashKeeps DEF Next
<1> QED BY <1>1, <1>2

LEMMA Invariance == Spec => []IInv
BY InitEstablishes, NextKeeps, PTL DEF Spec

\* Every reachable state is well typed.
THEOREM TypeCorrect == Spec => []TypeOK
BY Invariance, PTL DEF IInv

\* However many saves and language switches overlap, on however many processes,
\* the preferences are what the last request that submitted each one stored.
THEOREM PreferencesSurvive == Spec => []NoPreferenceLost
BY Invariance, PTL DEF IInv

LEMMA StepWritesInOpenSession ==
    ASSUME IInv, [Next]_vars, NEW a \in Account, accounts'[a] # accounts[a]
    PROVE  \E r \in Request : /\ Begun(r) /\ AccountOf(r) = a
                              /\ sessions[requests[r].session] = "open"
                              /\ requests'[r] = Ended
<1>1. PICK r \in Request : WritePreferences(r) \/ DeleteAccount(r)
    BY DEF Next, vars, Step, Arrive, Refuse, Crash, Authenticate, NetworkDone, ReadPreferences, SignIn, Logout,
           BreakDeadlock
<1>2. requests[r].stage = "writes" /\ requests[r].stage \in Stage \ {"new", "ended"}
      /\ requests[r].kind \in {"save_preferences", "change_language", "delete_account"} /\ Ends(r)
    BY <1>1 DEF WritePreferences, DeleteAccount, Stage
<1>3. Sharing(r)
    BY <1>2 DEF Sharing, Authenticates
<1>4. sessions[requests[r].session] = "open"
    BY <1>3 DEF IInv, SharesValid, IsValid
<1>5. AccountOf(r) = a
    BY <1>1 DEF WritePreferences, DeleteAccount, IInv, TypeOK
<1>6. Begun(r)
    BY <1>2, UnderWay DEF Begun, IInv
<1>7. requests'[r] = Ended
    BY <1>2 DEF Ends, IInv, TypeOK
<1> QED BY <1>4, <1>5, <1>6, <1>7

\* After a sign-out or a deletion was answered, nothing is written in its name.
THEOREM NothingWrittenAfterSignOut == Spec => WritesInOpenSession
<1>1. ASSUME IInv, [Next]_vars
      PROVE  [\A a \in Account : accounts'[a] # accounts[a] =>
                \E r \in Request : /\ Begun(r) /\ AccountOf(r) = a
                                   /\ sessions[requests[r].session] = "open"
                                   /\ requests'[r] = Ended]_vars
    BY <1>1, StepWritesInOpenSession
<1> QED BY <1>1, Invariance, PTL DEF Spec, WritesInOpenSession

-----------------------------------------------------------------------------
(* The calendar of the dashboard (Periods).                                 *)

LEMMA DaysAreIntegers ==
    /\ \A d \in Day : d \in Int /\ FirstOfMonth[d] \in Day /\ LastOfMonth[d] \in Day
                      /\ FirstOfMonth[d] =< d /\ d =< LastOfMonth[d]
    /\ \A d, e \in Day, f \in Int : d =< f /\ f =< e => f \in Day
BY CalendarAssumption

\* A day at or before the end of a later day's month, and not before its first,
\* is in that month.
LEMMA SameMonthTogether ==
    ASSUME NEW d \in Day, NEW e \in Day, FirstOfMonth[d] =< e, e =< LastOfMonth[d]
    PROVE  FirstOfMonth[e] = FirstOfMonth[d] /\ LastOfMonth[e] = LastOfMonth[d]
BY DaysAreIntegers, CalendarAssumption

LEMMA PeriodFacts ==
    ASSUME NEW p \in DashboardPeriod
    PROVE  /\ p.date_from \in Day /\ p.date_to \in Day
           /\ p.date_from \in Int /\ p.date_to \in Int
           /\ p.date_from =< p.date_to /\ FirstDay =< p.date_from
BY DaysAreIntegers DEF DashboardPeriod

LEMMA EarlierOfTwo ==
    ASSUME NEW a \in Int, NEW b \in Int
    PROVE  Earlier(a, b) \in Int /\ Earlier(a, b) =< a /\ Earlier(a, b) =< b
           /\ (Earlier(a, b) = a \/ Earlier(a, b) = b)
BY DEF Earlier

\* The end of the bucket that starts on a day.
BucketEnd(p, d) == IF IsDaily(p) THEN d ELSE Earlier(LastOfMonth[d], p.date_to)

LEMMA BucketFacts ==
    ASSUME NEW p \in DashboardPeriod, NEW d \in BucketStarts(p)
    PROVE  /\ d \in Day /\ d \in Int /\ BucketEnd(p, d) \in Int
           /\ p.date_from =< d /\ d =< BucketEnd(p, d) /\ BucketEnd(p, d) =< p.date_to
           /\ ~IsDaily(p) => BucketEnd(p, d) =< LastOfMonth[d]
<1>1. d \in Int /\ p.date_from =< d /\ d =< p.date_to
    BY PeriodFacts DEF BucketStarts
<1>2. d \in Day
    BY <1>1, PeriodFacts, DaysAreIntegers
<1>3. LastOfMonth[d] \in Int /\ d =< LastOfMonth[d]
    BY <1>2, DaysAreIntegers
<1>4. CASE IsDaily(p)
    BY <1>1, <1>2, <1>4 DEF BucketEnd
<1>5. CASE ~IsDaily(p)
  <2>1. BucketEnd(p, d) = Earlier(LastOfMonth[d], p.date_to)
    BY <1>5 DEF BucketEnd
  <2> QED BY <2>1, <1>1, <1>2, <1>3, <1>5, PeriodFacts, EarlierOfTwo
<1> QED BY <1>4, <1>5

LEMMA BucketsAre ==
    ASSUME NEW p \in DashboardPeriod
    PROVE  ChartBuckets(p) = {Period(d, BucketEnd(p, d)) : d \in BucketStarts(p)}
BY DEF ChartBuckets, BucketEnd

\* A column is one day, or a month clipped to the period: no column reaches
\* outside the period (D5).
THEOREM BucketsStayInside ==
    ASSUME NEW p \in DashboardPeriod, NEW b \in ChartBuckets(p)
    PROVE  p.date_from =< b.date_from /\ b.date_from =< b.date_to /\ b.date_to =< p.date_to
<1>1. PICK d \in BucketStarts(p) : b = Period(d, BucketEnd(p, d))
    BY BucketsAre
<1> QED BY <1>1, BucketFacts DEF Period

\* The first day of the bucket a day belongs to.
StartOf(p, day) ==
    IF IsDaily(p) THEN day
    ELSE IF FirstOfMonth[day] < p.date_from THEN p.date_from ELSE FirstOfMonth[day]

\* Every day of the period is in exactly one column: no Expense is drawn twice
\* and none is left out of the chart.
THEOREM EveryDayInOneBucket ==
    ASSUME NEW p \in DashboardPeriod, NEW day \in p.date_from .. p.date_to
    PROVE  \E b \in ChartBuckets(p) :
               Covers(b, day) /\ \A c \in ChartBuckets(p) : Covers(c, day) => c = b
<1> DEFINE start == StartOf(p, day)
<1>1. day \in Int /\ day \in Day /\ p.date_from =< day /\ day =< p.date_to
    BY PeriodFacts, DaysAreIntegers
<1>2. FirstOfMonth[day] \in Int /\ FirstOfMonth[day] =< day
      /\ LastOfMonth[day] \in Int /\ day =< LastOfMonth[day]
    BY <1>1, DaysAreIntegers
<1>3. start \in BucketStarts(p) /\ start =< day /\ (~IsDaily(p) => FirstOfMonth[day] =< start)
  <2>1. CASE IsDaily(p)
    BY <1>1, <2>1, PeriodFacts DEF StartOf, BucketStarts
  <2>2. CASE ~IsDaily(p) /\ FirstOfMonth[day] < p.date_from
    BY <1>1, <1>2, <2>2, PeriodFacts DEF StartOf, BucketStarts
  <2>3. CASE ~IsDaily(p) /\ ~(FirstOfMonth[day] < p.date_from)
    <3>1. start = FirstOfMonth[day] /\ FirstOfMonth[day] \in Day
      BY <1>1, <2>3, DaysAreIntegers DEF StartOf
    <3>2. FirstOfMonth[day] = FirstOfMonth[FirstOfMonth[day]]
      BY <1>1, <1>2, <3>1, SameMonthTogether
    <3> QED BY <1>1, <1>2, <2>3, <3>1, <3>2, PeriodFacts DEF BucketStarts
  <2> QED BY <2>1, <2>2, <2>3
<1>4. start \in Int /\ start \in Day
    BY <1>3, BucketFacts
<1>5. day =< BucketEnd(p, start)
  <2>1. CASE IsDaily(p)
    BY <1>1, <2>1 DEF StartOf, BucketEnd
  <2>2. CASE ~IsDaily(p)
    <3>1. FirstOfMonth[day] =< start /\ start =< LastOfMonth[day]
      BY <1>1, <1>2, <1>3, <1>4, <2>2
    <3>2. LastOfMonth[start] = LastOfMonth[day]
      BY <1>1, <1>4, <3>1, SameMonthTogether
    <3>3. BucketEnd(p, start) = Earlier(LastOfMonth[day], p.date_to)
      BY <2>2, <3>2 DEF BucketEnd
    <3> QED BY <1>1, <1>2, <3>3, PeriodFacts, EarlierOfTwo
  <2> QED BY <2>1, <2>2
<1>6. ASSUME NEW d \in BucketStarts(p), d =< day, day =< BucketEnd(p, d)
      PROVE  d = start
  <2>1. d \in Int /\ d \in Day /\ p.date_from =< d /\ BucketEnd(p, d) \in Int
        /\ (~IsDaily(p) => BucketEnd(p, d) =< LastOfMonth[d])
    BY BucketFacts
  <2>2. CASE IsDaily(p)
    BY <1>1, <1>6, <2>1, <2>2 DEF StartOf, BucketEnd
  <2>3. CASE ~IsDaily(p)
    <3>1. FirstOfMonth[d] =< day /\ day =< LastOfMonth[d]
      <4>1. /\ FirstOfMonth[d] \in Int /\ FirstOfMonth[d] =< d
            /\ LastOfMonth[d] \in Int /\ d \in Int
        BY <2>1, DaysAreIntegers
      <4>2. BucketEnd(p, d) \in Int /\ BucketEnd(p, d) =< LastOfMonth[d]
        BY <2>1, <2>3
      <4> QED BY <1>1, <1>6, <4>1, <4>2
    <3>2. FirstOfMonth[d] = FirstOfMonth[day]
      BY <1>1, <2>1, <3>1, SameMonthTogether
    <3>3. d = p.date_from \/ d = FirstOfMonth[d]
      BY <2>3 DEF BucketStarts
    <3>4. FirstOfMonth[d] =< d
      BY <2>1, DaysAreIntegers
    <3> QED BY <1>2, <2>1, <2>3, <3>2, <3>3, <3>4, PeriodFacts DEF StartOf
  <2> QED BY <2>2, <2>3
<1> DEFINE bucket == Period(start, BucketEnd(p, start))
<1>7. bucket \in ChartBuckets(p)
    BY <1>3, BucketsAre
<1>8. Covers(bucket, day)
    BY <1>3, <1>5 DEF Covers, Period
<1>9. ASSUME NEW c \in ChartBuckets(p), Covers(c, day)
      PROVE  c = bucket
  <2>1. PICK d \in BucketStarts(p) : c = Period(d, BucketEnd(p, d))
    BY BucketsAre
  <2>2. d =< day /\ day =< BucketEnd(p, d)
    BY <1>9, <2>1 DEF Covers, Period
  <2> QED BY <1>6, <2>1, <2>2
<1> QED BY <1>7, <1>8, <1>9

\* The days compared: never more of them before than now, all of them before
\* the current ones and none before the first day there are Expenses of; and
\* fewer only when the month before is shorter and is compared as a whole.
THEOREM PreviousIsComparable ==
    ASSUME NEW p \in DashboardPeriod, NEW today \in Day,
           NEW w, w = ComparisonWindows(p, today), w # NoWindows
    PROVE  /\ w.current.date_from = p.date_from
           /\ w.current.date_to =< p.date_to /\ w.current.date_to =< today
           /\ FirstDay =< w.previous.date_from /\ w.previous.date_from =< w.previous.date_to
           /\ w.previous.date_to < w.current.date_from
           /\ DaysOf(w.previous) =< DaysOf(w.current)
           /\ \/ DaysOf(w.previous) = DaysOf(w.current)
              \/ /\ DaysOf(w.previous) < DaysOf(w.current)
                 /\ w.previous = DefaultPeriod(w.previous.date_to)
<1> DEFINE from == p.date_from
           to == Earlier(p.date_to, today)
           current == Clipped(p, today)
           previous == PreviousWindow(current)
<1>1. /\ w = [current |-> current, previous |-> previous]
      /\ from =< today /\ ~(previous.date_from < FirstDay)
  <2>1. ~(p.date_from > today \/ previous.date_from < FirstDay)
    BY DEF ComparisonWindows
  <2>2. p.date_from \in Int /\ today \in Int
    BY PeriodFacts, DaysAreIntegers
  <2> QED BY <2>1, <2>2 DEF ComparisonWindows
<1>2. /\ from \in Int /\ from \in Day /\ to \in Int /\ to \in Day /\ today \in Int
      /\ from =< to /\ to =< today /\ to =< p.date_to
      /\ FirstDay =< from /\ FirstDay \in Int
  <2>1. /\ from \in Int /\ from \in Day /\ p.date_to \in Int /\ p.date_to \in Day
        /\ today \in Int /\ from =< p.date_to /\ FirstDay =< from /\ FirstDay \in Int
    BY PeriodFacts, DaysAreIntegers, LimitsAssumption
  <2> QED BY <1>1, <2>1, EarlierOfTwo
<1>3. current.date_from = from /\ current.date_to = to /\ DaysOf(current) = to - from + 1
    BY DEF Clipped, Period, DaysOf
<1> HIDE DEF to, current, previous
<1>4. CASE from = FirstOfMonth[from] /\ SameMonth(from, to)
  <2> DEFINE first == FirstOfMonth[from - 1]
             last == LastOfMonth[from - 1]
  <2>1. from - 1 \in Day
    <3>1. FirstDay - 1 \in Day /\ FirstDay - 1 =< from - 1 /\ from - 1 =< from /\ from - 1 \in Int
      BY <1>2, LimitsAssumption
    <3> QED BY <1>2, <3>1, DaysAreIntegers
  <2>2. /\ first \in Int /\ first \in Day /\ last \in Int /\ last \in Day
        /\ first =< from - 1 /\ from - 1 =< last
    BY <2>1, DaysAreIntegers
  <2>3. last < from
    <3>1. SUFFICES ASSUME from =< last PROVE FALSE
      BY <1>2, <2>2
    <3>2. first =< from
      BY <1>2, <2>2
    <3>3. FirstOfMonth[from] = first
      BY <1>2, <2>1, <3>1, <3>2, SameMonthTogether
    <3> QED BY <1>2, <1>4, <2>2, <3>3
  <2>4. LastOfMonth[first] = last /\ FirstOfMonth[last] = first /\ LastOfMonth[last] = last
    <3>1. first =< last
      BY <1>2, <2>2
    <3> QED BY <2>1, <2>2, <3>1, SameMonthTogether
  <2>5. previous = Period(first, Earlier(first + DaysOf(current) - 1, last))
    BY <1>3, <1>4, <2>4 DEF previous, PreviousWindow, FirstOfPreviousMonth
  <2> DEFINE end == Earlier(first + DaysOf(current) - 1, last)
  <2>6. /\ end \in Int /\ end =< first + (to - from) /\ end =< last
        /\ end = first + (to - from) \/ end = last
    <3>1. first + DaysOf(current) - 1 = first + (to - from) /\ first + (to - from) \in Int
      BY <1>2, <1>3, <2>2
    <3> QED BY <2>2, <3>1, EarlierOfTwo
  <2>7. /\ previous.date_from = first /\ previous.date_to = end
        /\ DaysOf(previous) = end - first + 1
    BY <2>5 DEF Period, DaysOf
  <2> HIDE DEF end, first, last
  <2>8. first =< end
    BY <1>2, <2>2, <2>6
  <2>9. DaysOf(previous) =< DaysOf(current) /\ end < from
    BY <1>2, <1>3, <2>2, <2>3, <2>6, <2>7
  <2>10. \/ DaysOf(previous) = DaysOf(current)
         \/ DaysOf(previous) < DaysOf(current) /\ previous = DefaultPeriod(end)
    <3>1. CASE end = first + (to - from)
      BY <1>2, <1>3, <2>2, <2>7, <3>1
    <3>2. CASE end = last
      <4>1. previous = DefaultPeriod(end)
        BY <2>4, <2>5, <3>2 DEF DefaultPeriod, end
      <4>2. DaysOf(previous) \in Int /\ DaysOf(current) \in Int
        BY <1>2, <1>3, <2>2, <2>6, <2>7
      <4> QED BY <2>9, <4>1, <4>2
    <3> QED BY <2>6, <3>1, <3>2
  <2>11. FirstDay =< first
    BY <1>1, <1>2, <2>2, <2>7
  <2> QED BY <1>1, <1>2, <1>3, <2>7, <2>8, <2>9, <2>10, <2>11
<1>5. CASE ~(from = FirstOfMonth[from] /\ SameMonth(from, to))
  <2>1. previous = Period(from - DaysOf(current), from - 1)
    BY <1>3, <1>5 DEF previous, PreviousWindow
  <2>2. /\ previous.date_from = from - DaysOf(current) /\ previous.date_to = from - 1
        /\ DaysOf(previous) = (from - 1) - (from - DaysOf(current)) + 1
    BY <2>1 DEF Period, DaysOf
  <2>3. DaysOf(current) \in Int /\ DaysOf(current) >= 1
    BY <1>2, <1>3
  <2> QED BY <1>1, <1>2, <1>3, <2>2, <2>3
<1> QED BY <1>4, <1>5

-----------------------------------------------------------------------------
(* The exchange rates (Rates), as they change beside the dashboard.         *)

\* What a source can come to, apart from a failure.
Published == UNION {[S -> Rate] : S \in SUBSET Currency}

\* The command has a place in the list of sources, and what it has chosen for a
\* currency is what the first source said that named the currency.
RefreshSound ==
    refresh # Resting =>
        /\ refresh = [left |-> refresh.left, chosen |-> refresh.chosen,
                      answers |-> refresh.answers]
        /\ refresh.left \in {<<ECB, NBU>>, <<NBU>>, <<>>}
        /\ refresh.answers \in Seq(Published \union {Failed})
        /\ \A c \in DOMAIN refresh.chosen :
               /\ c \in Currency \ {EUR}
               /\ \E i \in DOMAIN refresh.answers :
                      /\ Said(i, c) /\ refresh.chosen[c] = refresh.answers[i][c]
                      /\ \A j \in 1 .. (i - 1) : ~Said(j, c)
        /\ \A c \in Currency \ {EUR}, i \in DOMAIN refresh.answers :
               Said(i, c) => c \in DOMAIN refresh.chosen

RatesSound == exchange_rates \in [Code -> Rate \union {NoRate}] /\ RefreshSound

LEMMA Quotient ==
    ASSUME NEW a \in Nat, NEW b \in Nat, b # 0
    PROVE  a \div b \in Nat /\ (b =< a => a \div b # 0)
OBVIOUS

LEMMA Product ==
    ASSUME NEW a \in Nat, NEW b \in Nat
    PROVE  a * b \in Nat /\ (a # 0 /\ b # 0 => a * b # 0)
OBVIOUS

\* Whatever a source answers, it fails or gives a rate for currencies of the catalogue.
LEMMA FetchedIsPublished ==
    ASSUME NEW source \in {ECB, NBU}, NEW body \in Bodies[source]
    PROVE  Fetched(source, body) \in Published \union {Failed}
<1>1. CASE body = NoBody
    BY <1>1 DEF Fetched
<1>2. CASE body # NoBody
  <2>1. DOMAIN body \subseteq Code /\ body \in [DOMAIN body -> Nat]
    BY <1>2, BodiesAssumption
  <2>2. ParseEcb(body) \in Published \union {Failed}
    <3> DEFINE known == (DOMAIN body) \cap Currency
               rates == [c \in known |-> [units_per_eur |-> body[c], source |-> ECB]]
    <3>1. (\A c \in known : body[c] # 0) => rates \in [known -> Rate]
      BY <2>1 DEF Rate
    <3>2. (\A c \in known : body[c] # 0) => rates \in Published
      BY <3>1 DEF Published
    <3>3. ParseEcb(body) = Failed \/ ((\A c \in known : body[c] # 0) /\ ParseEcb(body) = rates)
      BY DEF ParseEcb
    <3> QED BY <3>2, <3>3
  <2>3. ASSUME source # ECB PROVE ParseNbu(body) \in Published \union {Failed}
    <3> DEFINE known == {UAH} \union (((DOMAIN body) \cap Currency) \ {EUR})
               units(c) == IF c = UAH THEN body[EUR] * RateUnit
                           ELSE (body[EUR] * RateUnit) \div body[c]
               rates == [c \in known |-> [units_per_eur |-> units(c), source |-> NBU]]
    <3>1. ParseNbu(body) = Failed \/ ParseNbu(body) = rates
      BY DEF ParseNbu
    <3>2. CASE EUR \in DOMAIN body /\ ~\E c \in DOMAIN body : body[c] = 0
      <4>1. body[EUR] \in Nat /\ RateUnit \in Nat
        BY <2>1, <3>2, CatalogueAssumption
      <4>2. body[EUR] * RateUnit \in Nat
        BY <4>1, Product
      <4>3. ASSUME NEW c \in known PROVE units(c) \in Nat \ {0}
        <5>1. CASE c = UAH
          <6>1. body[EUR] # 0 /\ RateUnit # 0
            BY <3>2, CatalogueAssumption
          <6>2. body[EUR] * RateUnit # 0
            BY <4>1, <6>1, Product
          <6> QED BY <4>2, <5>1, <6>2
        <5>2. CASE c # UAH
          <6>1. body[c] \in Nat /\ body[c] # 0
            BY <2>1, <3>2, <5>2
          <6>2. body[c] =< body[EUR] * RateUnit
            BY <1>2, <2>3, <3>2, <5>2, RateUnitAssumption
          <6>3. (body[EUR] * RateUnit) \div body[c] \in Nat \ {0}
            BY <4>2, <6>1, <6>2, Quotient
          <6> QED BY <5>2, <6>3
        <5> QED BY <5>1, <5>2
      <4> HIDE DEF units
      <4>4. rates \in [known -> Rate]
        BY <4>3 DEF Rate
      <4>5. known \in SUBSET Currency
        BY CatalogueAssumption
      <4>6. rates \in Published
        BY <4>4, <4>5 DEF Published
      <4> QED BY <3>1, <4>6
    <3>3. CASE ~(EUR \in DOMAIN body /\ ~\E c \in DOMAIN body : body[c] = 0)
      BY <3>3 DEF ParseNbu
    <3> QED BY <3>2, <3>3
  <2> QED BY <1>2, <2>2, <2>3 DEF Fetched
<1> QED BY <1>1, <1>2

LEMMA StartKeeps ==
    ASSUME RatesSound, StartRefresh
    PROVE  RatesSound'
<1>1. exchange_rates' = exchange_rates
      /\ refresh' = [left |-> <<ECB, NBU>>, chosen |-> <<>>, answers |-> <<>>]
    BY DEF StartRefresh
<1>2. DOMAIN refresh'.chosen = {} /\ DOMAIN refresh'.answers = {}
      /\ refresh'.answers \in Seq(Published \union {Failed})
    BY <1>1
<1> QED BY <1>1, <1>2 DEF RatesSound, RefreshSound

LEMMA FetchKeeps ==
    ASSUME RatesSound, refresh.left # <<>>, NEW body \in Bodies[Head(refresh.left)], Fetch(body)
    PROVE  RatesSound'
<1> DEFINE rates == Fetched(Head(refresh.left), body)
           answers == refresh.answers
           added == Append(refresh.answers, rates)
           chosen == refresh.chosen
<1>1. refresh # Resting
    BY DEF Resting
<1>2. /\ refresh.left \in {<<ECB, NBU>>, <<NBU>>, <<>>}
      /\ answers \in Seq(Published \union {Failed})
      /\ \A c \in DOMAIN chosen :
             /\ c \in Currency \ {EUR}
             /\ \E i \in DOMAIN answers :
                    /\ Said(i, c) /\ chosen[c] = answers[i][c]
                    /\ \A j \in 1 .. (i - 1) : ~Said(j, c)
      /\ \A c \in Currency \ {EUR}, i \in DOMAIN answers :
             Said(i, c) => c \in DOMAIN chosen
    BY <1>1 DEF RatesSound, RefreshSound
<1>3. Head(refresh.left) \in {ECB, NBU} /\ Tail(refresh.left) \in {<<NBU>>, <<>>}
  <2>1. refresh.left = <<ECB, NBU>> \/ refresh.left = <<NBU>>
    BY <1>2
  <2>2. /\ Head(<<ECB, NBU>>) = ECB /\ Tail(<<ECB, NBU>>) = <<NBU>>
        /\ Head(<<NBU>>) = NBU /\ Tail(<<NBU>>) = <<>>
    OBVIOUS
  <2> QED BY <2>1, <2>2
<1>4. rates \in Published \union {Failed}
    BY <1>3, FetchedIsPublished
<1>5. /\ refresh' = [left |-> Tail(refresh.left),
                     chosen |-> IF rates = Failed THEN chosen ELSE Added(chosen, rates),
                     answers |-> added]
      /\ exchange_rates' = exchange_rates
    BY DEF Fetch
<1> HIDE DEF rates
<1> PICK n \in Nat : n = Len(answers)
    BY <1>2
<1>6. /\ DOMAIN answers = 1 .. n /\ DOMAIN added = 1 .. (n + 1)
      /\ added[n + 1] = rates /\ \A i \in 1 .. n : added[i] = answers[i]
      /\ added \in Seq(Published \union {Failed})
    BY <1>2, <1>4
<1>7. refresh'.answers = added /\ refresh'.left = Tail(refresh.left)
      /\ refresh'.chosen = IF rates = Failed THEN chosen ELSE Added(chosen, rates)
    BY <1>5
<1> HIDE DEF added, answers, chosen
<1>8. /\ \A i \in 1 .. n : \A c : Said(i, c)' <=> Said(i, c)
      /\ \A c : Said(n + 1, c)' <=> (rates # Failed /\ c \in DOMAIN rates)
  <2>1. ASSUME NEW i \in 1 .. n, NEW c
        PROVE  Said(i, c)' <=> Said(i, c)
    <3>1. i \in DOMAIN added /\ i \in DOMAIN answers /\ added[i] = answers[i]
      BY <1>6
    <3> QED BY <1>7, <3>1 DEF Said, answers
  <2>2. ASSUME NEW c
        PROVE  Said(n + 1, c)' <=> (rates # Failed /\ c \in DOMAIN rates)
    <3>1. n + 1 \in DOMAIN added /\ added[n + 1] = rates
      BY <1>6
    <3> QED BY <1>7, <3>1 DEF Said
  <2> QED BY <2>1, <2>2
<1>9. CASE rates = Failed
  <2>1. refresh'.chosen = chosen
    BY <1>7, <1>9
  <2>2. ASSUME NEW c \in DOMAIN chosen
        PROVE  /\ c \in Currency \ {EUR}
               /\ \E i \in 1 .. (n + 1) :
                      /\ Said(i, c)' /\ chosen[c] = added[i][c]
                      /\ \A j \in 1 .. (i - 1) : ~Said(j, c)'
    <3>1. PICK i \in 1 .. n : /\ Said(i, c) /\ chosen[c] = answers[i][c]
                              /\ \A j \in 1 .. (i - 1) : ~Said(j, c)
      BY <1>2, <1>6
    <3>2. \A j \in 1 .. (i - 1) : j \in 1 .. n
      BY <1>6
    <3> QED BY <1>2, <1>6, <1>8, <3>1, <3>2
  <2>3. ASSUME NEW c \in Currency \ {EUR}, NEW i \in 1 .. (n + 1), Said(i, c)'
        PROVE  c \in DOMAIN chosen
    <3>1. i # n + 1
      BY <1>8, <1>9, <2>3
    <3>2. i \in 1 .. n
      BY <1>6, <3>1
    <3> QED BY <1>2, <1>6, <1>8, <2>3, <3>2
  <2> QED BY <1>3, <1>5, <1>6, <1>7, <2>1, <2>2, <2>3 DEF RatesSound, RefreshSound
<1>10. CASE rates # Failed
  <2> DEFINE next == Added(chosen, rates)
  <2>1. /\ refresh'.chosen = next
        /\ DOMAIN next = (DOMAIN chosen) \union ((DOMAIN rates) \ {EUR})
        /\ \A c \in DOMAIN next : next[c] = IF c \in DOMAIN chosen THEN chosen[c] ELSE rates[c]
    BY <1>7, <1>10 DEF Added
  <2>2. rates \in Published /\ DOMAIN rates \subseteq Currency
    BY <1>4, <1>10 DEF Published
  <2> HIDE DEF next
  <2>3. ASSUME NEW c \in DOMAIN next
        PROVE  /\ c \in Currency \ {EUR}
               /\ \E i \in 1 .. (n + 1) :
                      /\ Said(i, c)' /\ next[c] = added[i][c]
                      /\ \A j \in 1 .. (i - 1) : ~Said(j, c)'
    <3>1. CASE c \in DOMAIN chosen
      <4>1. PICK i \in 1 .. n : /\ Said(i, c) /\ chosen[c] = answers[i][c]
                                /\ \A j \in 1 .. (i - 1) : ~Said(j, c)
        BY <1>2, <1>6, <3>1
      <4>2. \A j \in 1 .. (i - 1) : j \in 1 .. n
        BY <1>6
      <4> QED BY <1>2, <1>6, <1>8, <2>1, <3>1, <4>1, <4>2
    <3>2. CASE c \notin DOMAIN chosen
      <4>1. c \in DOMAIN rates /\ c # EUR /\ next[c] = rates[c]
        BY <2>1, <3>2
      <4>2. c \in Currency \ {EUR}
        BY <2>2, <4>1
      <4>3. \A j \in 1 .. n : ~Said(j, c)'
        BY <1>2, <1>6, <1>8, <3>2, <4>2
      <4>4. Said(n + 1, c)' /\ next[c] = added[n + 1][c]
        BY <1>6, <1>8, <1>10, <4>1
      <4>5. n + 1 \in 1 .. (n + 1) /\ (n + 1) - 1 = n
        BY <1>6
      <4> QED BY <4>2, <4>3, <4>4, <4>5
    <3> QED BY <3>1, <3>2
  <2>4. ASSUME NEW c \in Currency \ {EUR}, NEW i \in 1 .. (n + 1), Said(i, c)'
        PROVE  c \in DOMAIN next
    <3>1. CASE i = n + 1
      BY <1>8, <2>1, <2>4, <3>1
    <3>2. CASE i # n + 1
      <4>1. i \in 1 .. n
        BY <1>6, <3>2
      <4> QED BY <1>2, <1>6, <1>8, <2>1, <2>4, <4>1
    <3> QED BY <3>1, <3>2
  <2> QED BY <1>3, <1>5, <1>6, <1>7, <2>1, <2>3, <2>4 DEF RatesSound, RefreshSound
<1> QED BY <1>9, <1>10

\* What a save writes.
LEMMA SaveWrites ==
    ASSUME RatesSound, Save, NEW c \in Code, exchange_rates'[c] # exchange_rates[c]
    PROVE  /\ c \in Currency \ {EUR}
           /\ \E i \in DOMAIN refresh.answers :
                  /\ Said(i, c) /\ exchange_rates'[c] = refresh.answers[i][c]
                  /\ \A j \in 1 .. (i - 1) : ~Said(j, c)
<1>1. c \in DOMAIN refresh.chosen /\ exchange_rates'[c] = refresh.chosen[c]
    BY DEF Save
<1> QED BY <1>1 DEF Save, RatesSound, RefreshSound

LEMMA SaveKeeps ==
    ASSUME RatesSound, Save
    PROVE  RatesSound'
<1>1. /\ refresh # Resting /\ refresh' = Resting
      /\ exchange_rates' = [c \in Code |->
             IF c \in DOMAIN refresh.chosen THEN refresh.chosen[c] ELSE exchange_rates[c]]
    BY DEF Save
<1>2. ASSUME NEW c \in DOMAIN refresh.chosen
      PROVE  refresh.chosen[c] \in Rate
  <2>1. PICK i \in DOMAIN refresh.answers :
            Said(i, c) /\ refresh.chosen[c] = refresh.answers[i][c]
    BY <1>1 DEF RatesSound, RefreshSound
  <2>2. refresh.answers[i] \in Published
    BY <1>1, <2>1 DEF RatesSound, RefreshSound, Said
  <2> QED BY <2>1, <2>2 DEF Said, Published
<1>3. exchange_rates' \in [Code -> Rate \union {NoRate}]
    BY <1>1, <1>2 DEF RatesSound
<1> QED BY <1>1, <1>3 DEF RatesSound, RefreshSound

LEMMA RatesStepKeeps ==
    ASSUME RatesSound, RatesNext
    PROVE  RatesSound'
<1>1. CASE StartRefresh
    BY <1>1, StartKeeps
<1>2. CASE refresh.left # <<>> /\ \E body \in Bodies[Head(refresh.left)] : Fetch(body)
    BY <1>2, FetchKeeps
<1>3. CASE Save
    BY <1>3, SaveKeeps
<1>4. CASE Die
    BY <1>4 DEF Die, RatesSound, RefreshSound
<1> QED BY <1>1, <1>2, <1>3, <1>4 DEF RatesNext

LEMMA StillRates ==
    ASSUME RatesSound, UNCHANGED rateVars
    PROVE  RatesSound'
BY DEF RatesSound, RefreshSound, rateVars, Said

\* Only a refresh touches the rates.
LEMMA OnlyARefresh ==
    ASSUME [DashboardNext]_dashboardVars
    PROVE  RatesNext \/ UNCHANGED rateVars
<1>1. ASSUME NEW client, NEW asked, NEW currency, NEW default, NEW today,
             Open(client, asked, currency, default, today)
      PROVE  UNCHANGED rateVars
    BY <1>1 DEF Open
<1>2. Read \/ Respond \/ Delivered \/ (\E table \in Tables : Commit(table)) => UNCHANGED rateVars
    BY DEF Read, Respond, Delivered, Commit
<1> QED BY <1>1, <1>2 DEF DashboardNext, dashboardVars, rateVars

LEMMA RatesInvariance == DashboardSpec => []RatesSound
<1>1. DashboardInit => RatesSound
    BY DEF DashboardInit, RatesInit, RatesSound, RefreshSound
<1>2. RatesSound /\ [DashboardNext]_dashboardVars => RatesSound'
    BY OnlyARefresh, RatesStepKeeps, StillRates
<1> QED BY <1>1, <1>2, PTL DEF DashboardSpec

\* Whatever the sources answer and wherever the command dies: a stored rate is
\* replaced only by the rate of the first source that answered and named the
\* currency (RefreshExchangeRates.execute).
THEOREM FirstSourceWins == DashboardSpec => FirstAnswerWins
<1> DEFINE Replaces ==
        \A c \in Code : exchange_rates'[c] # exchange_rates[c] =>
            /\ c \in Currency \ {EUR}
            /\ \E i \in DOMAIN refresh.answers :
                   /\ Said(i, c)
                   /\ exchange_rates'[c] = refresh.answers[i][c]
                   /\ \A j \in 1 .. (i - 1) : ~Said(j, c)
<1>1. ASSUME RatesSound, [DashboardNext]_dashboardVars
      PROVE  [Replaces]_rateVars
  <2>1. CASE UNCHANGED rateVars
    BY <2>1
  <2>2. CASE Save
    BY <1>1, <2>2, SaveWrites
  <2>3. CASE exchange_rates' = exchange_rates
    BY <2>3
  <2>4. Save \/ exchange_rates' = exchange_rates \/ UNCHANGED rateVars
    BY <1>1, OnlyARefresh DEF RatesNext, StartRefresh, Fetch, Die
  <2> QED BY <2>1, <2>2, <2>3, <2>4
<1> QED BY <1>1, RatesInvariance, PTL DEF DashboardSpec, FirstAnswerWins

-----------------------------------------------------------------------------
(* What a page tells its reader (Dashboard).                                *)

\* Some statement of the request saw every currency the period had at some moment.
Told(p, what, period) ==
    \E table \in seen, r \in p.read :
        /\ r.what = what
        /\ \A e \in ActiveIn(table, period, NoCurrency) :
               \E g \in r.rows : g.currency = table[e].currency

Untouched(p) == p.todo = <<Statement("currencies", NoCurrency)>>
AsksPrevious(p) == p.todo # <<>> /\ Head(p.todo) = Statement("previous", NoCurrency)
Compares(p) == Converted(p) /\ p.windows # NoWindows

\* A page of the user's default currency is converted whenever it can be.
ConvertsByDefault(p) ==
    p.client = Web /\ ~Converted(p) =>
        p.requested # NoCurrency \/ p.default = NoCurrency \/ ~p.main

PageShape(p) ==
    p = [stage |-> "reading", client |-> p.client, requested |-> p.requested,
         default |-> p.default, today |-> p.today, period |-> p.period,
         windows |-> p.windows, main |-> p.main, rates |-> p.rates,
         selected |-> p.selected, todo |-> p.todo, read |-> p.read]

\* Before the first statement nothing was read; after it the period's currencies
\* were, and those of the previous window are, or come next.
ReadingIsHonest ==
    page.stage = "reading" =>
        /\ PageShape(page) /\ ConvertsByDefault(page)
        /\ \/ Untouched(page)
           \/ /\ Told(page, "currencies", page.period)
              /\ Compares(page) =>
                     Told(page, "previous", page.windows.previous) \/ AsksPrevious(page)

ResponseIsHonest ==
    page.stage = "done" =>
        /\ ConvertsByDefault(page.request)
        /\ Told(page.request, "currencies", page.request.period)
        /\ Compares(page.request) =>
               Told(page.request, "previous", page.request.windows.previous)
        /\ Converted(page.request) => page.rates = UsedRates(page.request)
        /\ page.unconverted = {g \in RowsOf(page.request, "currencies") :
                                  ~Convertible(page.request, g.currency)}

PageSound == expenses \in seen /\ ReadingIsHonest /\ ResponseIsHonest

\* Rates that were read are not taken for the lack of them.
LEMMA LatestIsRates ==
    ASSUME RatesSound
    PROVE  Latest # NoConversion
<1> DEFINE S == {d \in Currency : exchange_rates[d] # NoRate}
<1>1. Latest \in [S -> Rate]
  <2>1. \A c \in S : exchange_rates[c] \in Rate
    BY CatalogueAssumption DEF RatesSound
  <2> QED BY <2>1 DEF Latest
<1>2. S \in SUBSET Currency
    OBVIOUS
<1> QED BY <1>1, <1>2, NoConversionAssumption

\* A grouping by currency tells of every currency, and of no other.
LEMMA AnswerTells ==
    ASSUME NEW read, read.what \in {"currencies", "previous"}, read.currency = NoCurrency,
           NEW period,
           period = IF read.what = "previous" THEN page.windows.previous ELSE page.period
    PROVE  /\ \A e \in ActiveIn(expenses, period, NoCurrency) :
                  \E g \in Answer(read) : g.currency = expenses[e].currency
           /\ \A g \in Answer(read) :
                  \E e \in ActiveIn(expenses, period, NoCurrency) :
                      g.currency = expenses[e].currency
<1> DEFINE S == ActiveIn(expenses, period, NoCurrency)
           key == [e \in S |-> 0]
           group(k) == LET G == {e \in DOMAIN key : expenses[e].currency = k[1] /\ key[e] = k[2]}
                       IN  [currency |-> k[1], key |-> k[2], total |-> AmountOf(expenses, G),
                            count |-> Cardinality(G)]
           keys == {<<expenses[e].currency, key[e]>> : e \in DOMAIN key}
<1>1. Answer(read) = Groups(key)
    BY DEF Answer
<1>2. Groups(key) = {group(k) : k \in keys}
    BY DEF Groups
<1>3. \A k : group(k).currency = k[1]
    OBVIOUS
<1>4. DOMAIN key = S
    OBVIOUS
<1> HIDE DEF group, key, S
<1>5. ASSUME NEW e \in S
      PROVE  \E g \in Answer(read) : g.currency = expenses[e].currency
  <2> PICK k : k = <<expenses[e].currency, key[e]>>
    OBVIOUS
  <2>1. k \in keys /\ k[1] = expenses[e].currency
    BY <1>4
  <2>2. group(k) \in Answer(read)
    BY <1>1, <1>2, <2>1
  <2> QED BY <1>3, <2>1, <2>2
<1>6. ASSUME NEW g \in Answer(read)
      PROVE  \E e \in S : g.currency = expenses[e].currency
    BY <1>1, <1>2, <1>3, <1>4, <1>6
<1> QED BY <1>5, <1>6 DEF S

\* The elements of a finite set can be put in a row.
LEMMA InARow ==
    ASSUME NEW S, IsFiniteSet(S)
    PROVE  \E n \in Nat : SetToSeq(S) \in [1 .. n -> S]
<1>1. Cardinality(S) \in Nat /\ ExistsBijection(1 .. Cardinality(S), S)
    BY FS_CardinalityType
<1>2. \E f \in [1 .. Cardinality(S) -> S] : IsInjective(f)
    BY <1>1 DEF ExistsBijection, Bijection, Injection
<1>3. SetToSeq(S) \in [1 .. Cardinality(S) -> S]
    BY <1>2 DEF SetToSeq
<1> QED BY <1>1, <1>3

\* The currencies of finitely many Expenses are finitely many.
LEMMA FewCurrencies ==
    ASSUME NEW table, NEW S \in SUBSET Expense, NEW C,
           \A c \in C : \E e \in S : c = table[e].currency
    PROVE  IsFiniteSet(C)
<1> DEFINE T == {e \in S : table[e].currency \in C}
           f == [e \in T |-> table[e].currency]
<1>1. IsFiniteSet(T)
    BY FS_Subset, ExpensesAssumption
<1>2. f \in [T -> C] /\ \A c \in C : \E e \in T : f[e] = c
    OBVIOUS
<1>3. f \in Surjection(T, C)
    BY <1>2 DEF Surjection
<1> QED BY <1>1, <1>3, FS_Surjection

\* A converted page with something to compare reads the previous window first.
LEMMA ComparesFirst ==
    ASSUME NEW p, Compares(p), NEW selected, NEW totals, NEW C,
           C = {g.currency : g \in {h \in totals : Convertible(p, h.currency)}},
           IsFiniteSet(C)
    PROVE  /\ Plan(p, selected, totals) # <<>>
           /\ Head(Plan(p, selected, totals)) = Statement("previous", NoCurrency)
<1> DEFINE present == SetToSeq(C)
           largest == [i \in DOMAIN present |-> Statement("largest", present[i])]
           one == Statement("previous", NoCurrency)
           two == Statement("current", NoCurrency)
           three == Statement("daily", NoCurrency)
           four == Statement("categories", NoCurrency)
           five == Statement("merchants", NoCurrency)
           sections == <<one, two>> \o <<three, four, five>>
<1>1. Plan(p, selected, totals) = sections \o largest
    BY DEF Plan, Compares, Comparing
<1>2. PICK n \in Nat : present \in [1 .. n -> C]
    BY InARow
<1> HIDE DEF one, two, three, four, five, present
<1>3. /\ largest = [i \in 1 .. n |-> Statement("largest", present[i])]
    BY <1>2
<1>4. largest \in Seq({Statement("largest", present[i]) : i \in 1 .. n})
    BY <1>3
<1> DEFINE All == {one, two, three, four, five} \union
                  {Statement("largest", present[i]) : i \in 1 .. n}
<1>5. <<one, two>> \in Seq(All) /\ <<three, four, five>> \in Seq(All)
    OBVIOUS
<1>6. sections \in Seq(All) /\ Len(sections) = 5 /\ sections[1] = one
  <2>1. Len(<<one, two>>) = 2 /\ Len(<<three, four, five>>) = 3 /\ <<one, two>>[1] = one
    OBVIOUS
  <2>2. 1 \in 1 .. 2 + 3 /\ 1 =< 2
    OBVIOUS
  <2> QED BY <1>5, <2>1, <2>2, ConcatProperties
<1>7. largest \in Seq(All)
    BY <1>3
<1> HIDE DEF sections, largest, All
<1>8. /\ sections \o largest \in Seq(All) /\ Len(sections \o largest) = 5 + Len(largest)
      /\ (sections \o largest)[1] = one
  <2>1. Len(largest) \in Nat /\ 1 \in 1 .. Len(sections) + Len(largest)
    BY <1>6, <1>7
  <2>2. /\ sections \o largest \in Seq(All)
        /\ Len(sections \o largest) = Len(sections) + Len(largest)
        /\ \A i \in 1 .. Len(sections) + Len(largest) :
               (sections \o largest)[i] =
                   IF i =< Len(sections) THEN sections[i] ELSE largest[i - Len(sections)]
    BY <1>6, <1>7, ConcatProperties
  <2> QED BY <1>6, <2>1, <2>2
<1>9. Len(largest) \in Nat
    BY <1>7
<1> QED BY <1>1, <1>8, <1>9 DEF one

LEMMA OpenKeeps ==
    ASSUME RatesSound, PageSound, NEW client, NEW asked, NEW currency, NEW default, NEW today,
           Open(client, asked, currency, default, today)
    PROVE  PageSound'
<1> DEFINE period == IF asked = NoPeriod THEN DefaultPeriod(today) ELSE asked
           available == client = Web /\ default # NoCurrency /\ DOMAIN Latest # {}
                            /\ HasRate(Latest, default)
           rates == IF available /\ currency = NoCurrency THEN Latest ELSE NoConversion
<1>1. /\ page' = [stage |-> "reading", client |-> client, requested |-> currency,
                  default |-> default, today |-> today, period |-> period,
                  windows |-> ComparisonWindows(period, today), main |-> available,
                  rates |-> rates, selected |-> NoCurrency,
                  todo |-> <<Statement("currencies", NoCurrency)>>, read |-> {}]
      /\ seen' = {expenses} /\ expenses' = expenses
    BY DEF Open
<1>2. currency = NoCurrency /\ available => rates # NoConversion
    BY LatestIsRates
<1> HIDE DEF period, available, rates
<1>3. PageShape(page') /\ page'.stage = "reading"
    BY <1>1 DEF PageShape
<1>4. ConvertsByDefault(page')
  <2>1. /\ page'.requested = currency /\ page'.rates = rates /\ page'.main = available
    BY <1>1
  <2> QED BY <1>2, <2>1 DEF ConvertsByDefault, Converted
<1>5. Untouched(page')
    BY <1>1 DEF Untouched
<1>6. expenses' \in seen'
    BY <1>1
<1> QED BY <1>3, <1>4, <1>5, <1>6 DEF PageSound, ReadingIsHonest, ResponseIsHonest

\* What one statement adds to a page.
LEMMA ReadTells ==
    ASSUME PageSound, Read, NEW what \in {"currencies", "previous"}, NEW period,
           Head(page.todo) = Statement(what, NoCurrency),
           period = IF what = "previous" THEN page.windows.previous ELSE page.period
    PROVE  Told(page, what, period)'
<1> DEFINE next == Head(page.todo)
           rows == Answer(next)
           record == [what |-> next.what, currency |-> next.currency, rows |-> rows]
<1>1. \A e \in ActiveIn(expenses, period, NoCurrency) :
          \E g \in rows : g.currency = expenses[e].currency
    BY AnswerTells DEF Statement
<1> HIDE DEF rows
<1>2. page.stage = "reading" /\ PageShape(page)
    BY DEF Read, PageSound, ReadingIsHonest
<1>3. record \in page'.read /\ seen' = seen /\ expenses' = expenses
    BY <1>2 DEF Read, PageShape, rows
<1>4. expenses \in seen'
    BY <1>3 DEF PageSound
<1>5. record.what = what /\ record.rows = rows
    BY DEF Statement
<1> HIDE DEF record, next
<1> QED BY <1>1, <1>3, <1>4, <1>5 DEF Told

LEMMA StaysTold ==
    ASSUME NEW what, NEW period, Told(page, what, period),
           page.read \subseteq page'.read, seen \subseteq seen'
    PROVE  Told(page, what, period)'
BY DEF Told, ActiveIn

LEMMA ReadKeepsPage ==
    ASSUME PageSound, Read
    PROVE  PageSound'
<1> DEFINE next == Head(page.todo)
           rows == Answer(next)
           selected == IF next.what = "currencies"
                       THEN Resolved(page, {g.currency : g \in rows}) ELSE page.selected
           read == page.read \union {[what |-> next.what, currency |-> next.currency,
                                      rows |-> rows]}
           todo == CASE next.what = "currencies" -> Plan(page, selected, rows)
                     [] next.what = "previous" -> AfterPrevious(page.todo, page, rows)
                     [] OTHER -> Tail(page.todo)
<1>1. /\ page.stage = "reading" /\ page.todo # <<>> /\ PageShape(page) /\ ConvertsByDefault(page)
      /\ expenses' = expenses /\ seen' = seen /\ expenses \in seen
    BY DEF Read, PageSound, ReadingIsHonest
<1>2. page' = [page EXCEPT !.read = read, !.selected = selected, !.todo = todo]
    BY DEF Read
<1> HIDE DEF read, selected, todo
<1>3. page' = [stage |-> "reading", client |-> page.client, requested |-> page.requested,
               default |-> page.default, today |-> page.today, period |-> page.period,
               windows |-> page.windows, main |-> page.main, rates |-> page.rates,
               selected |-> selected, todo |-> todo, read |-> read]
    BY <1>1, <1>2 DEF PageShape
<1>4. /\ page'.stage = "reading" /\ page'.client = page.client
      /\ page'.requested = page.requested /\ page'.default = page.default
      /\ page'.main = page.main /\ page'.rates = page.rates
      /\ page'.period = page.period /\ page'.windows = page.windows
      /\ page'.todo = todo /\ page'.read = read
      /\ PageShape(page')
    BY <1>3 DEF PageShape
<1>5. ConvertsByDefault(page') /\ Converted(page') = Converted(page)
      /\ Compares(page') = Compares(page)
    BY <1>1, <1>4 DEF ConvertsByDefault, Converted, Compares
<1>6. page.read \subseteq page'.read
    BY <1>4 DEF read
<1> PICK period : period = page.period
    OBVIOUS
<1> PICK previous : previous = page.windows.previous
    OBVIOUS
<1>7. CASE Untouched(page)
  <2>1. next = Statement("currencies", NoCurrency)
    BY <1>7 DEF Untouched
  <2>2. Told(page, "currencies", period)'
    BY <2>1, ReadTells
  <2>3. todo = Plan(page, selected, rows)
    BY <2>1 DEF todo, Statement
  <2>4. ASSUME Compares(page) PROVE AsksPrevious(page')
    <3> DEFINE C == {g.currency : g \in {h \in rows : Convertible(page, h.currency)}}
    <3>1. \A g \in rows : \E e \in ActiveIn(expenses, period, NoCurrency) :
              g.currency = expenses[e].currency
      BY <2>1, AnswerTells DEF Statement
    <3>2. ActiveIn(expenses, period, NoCurrency) \in SUBSET Expense
      BY DEF ActiveIn
    <3> HIDE DEF rows
    <3>3. \A c \in C : \E e \in ActiveIn(expenses, period, NoCurrency) : c = expenses[e].currency
      BY <3>1
    <3>4. IsFiniteSet(C)
      BY <3>2, <3>3, FewCurrencies
    <3>5. /\ Plan(page, selected, rows) # <<>>
          /\ Head(Plan(page, selected, rows)) = Statement("previous", NoCurrency)
      BY <2>4, <3>4, ComparesFirst
    <3> QED BY <1>4, <2>3, <3>5 DEF AsksPrevious
  <2> QED BY <1>1, <1>4, <1>5, <2>2, <2>4 DEF PageSound, ReadingIsHonest, ResponseIsHonest
<1>8. CASE Told(page, "currencies", period)
           /\ (Compares(page) => Told(page, "previous", previous) \/ AsksPrevious(page))
  <2>1. Told(page, "currencies", period)'
    BY <1>1, <1>6, <1>8, StaysTold
  <2>2. ASSUME Compares(page) PROVE Told(page, "previous", previous)'
    <3>1. CASE Told(page, "previous", previous)
      BY <1>1, <1>6, <3>1, StaysTold
    <3>2. CASE AsksPrevious(page)
      BY <3>2, ReadTells DEF AsksPrevious
    <3> QED BY <1>8, <2>2, <3>1, <3>2
  <2> QED BY <1>1, <1>4, <1>5, <2>1, <2>2 DEF PageSound, ReadingIsHonest, ResponseIsHonest
<1> QED BY <1>1, <1>7, <1>8 DEF PageSound, ReadingIsHonest

LEMMA RespondKeeps ==
    ASSUME PageSound, Respond
    PROVE  PageSound'
<1> DEFINE detail == IF page.selected = NoCurrency THEN NoConversion ELSE Detail(page)
           rates == IF Converted(page) THEN UsedRates(page) ELSE {}
           unconverted == {g \in RowsOf(page, "currencies") : ~Convertible(page, g.currency)}
<1>1. /\ page.stage = "reading" /\ page.todo = <<>> /\ PageShape(page) /\ ConvertsByDefault(page)
      /\ expenses' = expenses /\ seen' = seen /\ expenses \in seen
    BY DEF Respond, PageSound, ReadingIsHonest
<1>2. ~Untouched(page) /\ ~AsksPrevious(page)
    BY <1>1 DEF Untouched, AsksPrevious
<1>3. /\ Told(page, "currencies", page.period)
      /\ Compares(page) => Told(page, "previous", page.windows.previous)
    BY <1>1, <1>2 DEF PageSound, ReadingIsHonest
<1>4. CASE page' = [page EXCEPT !.stage = "failed"]
  <2>1. page'.stage = "failed"
    BY <1>1, <1>4 DEF PageShape
  <2> QED BY <1>1, <2>1 DEF PageSound, ReadingIsHonest, ResponseIsHonest
<1>5. CASE page' = [stage |-> "done", request |-> page, detail |-> detail, rates |-> rates,
                    unconverted |-> unconverted]
  <2> HIDE DEF detail, rates, unconverted
  <2>1. /\ page'.stage = "done" /\ page'.request = page /\ page'.rates = rates
        /\ page'.unconverted = unconverted
    BY <1>5
  <2>2. /\ Told(page.request, "currencies", page.request.period)'
        /\ (Compares(page.request) => Told(page.request, "previous", page.request.windows.previous))'
    BY <1>1, <1>3, <2>1 DEF Told, ActiveIn, Compares, Converted
  <2>3. ConvertsByDefault(page.request)'
    BY <1>1, <2>1 DEF ConvertsByDefault, Converted
  <2>4. (Converted(page.request) => page.rates = UsedRates(page.request))'
    BY <2>1 DEF rates, Converted, UsedRates, Used, RowsOf, Counted, Convertible, CanConvert
  <2>5. (page.unconverted = {g \in RowsOf(page.request, "currencies") :
                                  ~Convertible(page.request, g.currency)})'
    BY <2>1 DEF unconverted
  <2> QED BY <1>1, <2>1, <2>2, <2>3, <2>4, <2>5 DEF PageSound, ReadingIsHonest, ResponseIsHonest
<1> QED BY <1>4, <1>5 DEF Respond

\* Whatever happens beside the page: what it was told stays told.
LEMMA BesideThePage ==
    ASSUME PageSound, page' = page, seen \subseteq seen', expenses' \in seen'
    PROVE  PageSound'
<1>1. \A p, what, period : Told(p, what, period) =>
          \E table \in seen', r \in p.read :
              /\ r.what = what
              /\ \A e \in ActiveIn(table, period, NoCurrency) :
                     \E g \in r.rows : g.currency = table[e].currency
    BY DEF Told
<1>2. ReadingIsHonest'
    BY <1>1 DEF PageSound, ReadingIsHonest, Told, PageShape, ConvertsByDefault, Converted,
                Untouched, AsksPrevious, Compares, ActiveIn
<1>3. (page.stage = "done" =>
          /\ Told(page.request, "currencies", page.request.period)
          /\ Compares(page.request) =>
                 Told(page.request, "previous", page.request.windows.previous))'
    BY <1>1 DEF PageSound, ResponseIsHonest, Told, Compares, Converted, ActiveIn
<1>4. (page.stage = "done" =>
          /\ ConvertsByDefault(page.request)
          /\ Converted(page.request) => page.rates = UsedRates(page.request)
          /\ page.unconverted = {g \in RowsOf(page.request, "currencies") :
                                    ~Convertible(page.request, g.currency)})'
    BY DEF PageSound, ResponseIsHonest, ConvertsByDefault, Converted
<1> QED BY <1>2, <1>3, <1>4 DEF PageSound, ResponseIsHonest

LEMMA DashboardStepKeeps ==
    ASSUME RatesSound, PageSound, [DashboardNext]_dashboardVars
    PROVE  PageSound'
<1>1. CASE \E client \in {Web, Api}, currency, default \in Chosen \union {NoCurrency},
              today \in Todays :
               \E asked \in {NoPeriod} \union Asked \union Presets(today) :
                   Open(client, asked, currency, default, today)
    BY <1>1, OpenKeeps
<1>2. CASE Read
    BY <1>2, ReadKeepsPage
<1>3. CASE Respond
    BY <1>3, RespondKeeps
<1>4. CASE Delivered
  <2>1. page' = NoPage /\ expenses' \in seen'
    BY <1>4 DEF Delivered
  <2>2. page'.stage = "none"
    BY <2>1 DEF NoPage
  <2> QED BY <2>1, <2>2 DEF PageSound, ReadingIsHonest, ResponseIsHonest
<1>5. CASE \E table \in Tables : Commit(table)
    BY <1>5, BesideThePage DEF Commit
<1>6. CASE RatesNext /\ UNCHANGED <<expenses, page, seen>>
    BY <1>6, BesideThePage DEF PageSound
<1>7. CASE UNCHANGED dashboardVars
    BY <1>7, BesideThePage DEF PageSound, dashboardVars
<1> QED BY <1>1, <1>2, <1>3, <1>4, <1>5, <1>6, <1>7 DEF DashboardNext

LEMMA PageInvariance == DashboardSpec => []PageSound
<1>1. DashboardInit => PageSound
    BY DEF DashboardInit, PageSound, ReadingIsHonest, ResponseIsHonest, NoPage
<1>2. RatesSound /\ PageSound /\ [DashboardNext]_dashboardVars => PageSound'
    BY DashboardStepKeeps
<1> QED BY <1>1, <1>2, RatesInvariance, PTL DEF DashboardSpec

\* A currency with convertible Expenses, of the period or of the previous window,
\* at whatever moment they are looked at, is among those whose rates are named.
LEMMA UsedIsNamed ==
    ASSUME NEW p, Converted(p), NEW what \in {"currencies", "previous"}, NEW period,
           Told(p, what, period), NEW c \in Currency, c # p.default, Convertible(p, c),
           \A table \in seen : ActiveIn(table, period, c) # {}
    PROVE  {c, p.default} \ {EUR} \subseteq UsedRates(p)
<1>1. PICK table \in seen, r \in p.read :
          /\ r.what = what
          /\ \A e \in ActiveIn(table, period, NoCurrency) :
                 \E g \in r.rows : g.currency = table[e].currency
    BY DEF Told
<1>2. PICK e : e \in ActiveIn(table, period, c)
    OBVIOUS
<1>3. e \in ActiveIn(table, period, NoCurrency) /\ table[e].currency = c
    BY <1>2, DashboardAssumption DEF ActiveIn
<1>4. PICK g \in r.rows : g.currency = c
    BY <1>1, <1>3
<1>5. g \in RowsOf(p, what)
    BY <1>1, <1>4 DEF RowsOf
<1>6. g \in Counted(p, RowsOf(p, what))
    BY <1>4, <1>5 DEF Counted
<1>7. c \in Used(p)
    BY <1>4, <1>6 DEF Used
<1> QED BY <1>7 DEF UsedRates

\* However the commits fall between the statements of a page: what could not be
\* converted is listed, every rate that went into a figure is named, and a page of
\* one of several currencies was asked for or says why.
THEOREM PagesAreHonest == DashboardSpec => []NothingIsSilent
<1>1. ASSUME PageSound, page.stage = "done" PROVE NothingIsSilent
  <2> DEFINE p == page.request
  <2>1. /\ ConvertsByDefault(p) /\ Told(p, "currencies", p.period)
        /\ (Compares(p) => Told(p, "previous", p.windows.previous))
        /\ (Converted(p) => page.rates = UsedRates(p))
        /\ page.unconverted = {g \in RowsOf(p, "currencies") : ~Convertible(p, g.currency)}
    BY <1>1 DEF PageSound, ResponseIsHonest
  <2> HIDE DEF p
  <2>2. \E table \in seen : \A e \in ActiveIn(table, p.period, NoCurrency) :
            \/ Convertible(p, table[e].currency)
            \/ \E g \in page.unconverted : g.currency = table[e].currency
    <3>1. PICK table \in seen, r \in p.read :
              /\ r.what = "currencies"
              /\ \A e \in ActiveIn(table, p.period, NoCurrency) :
                     \E g \in r.rows : g.currency = table[e].currency
      BY <2>1 DEF Told
    <3>2. r.rows \subseteq RowsOf(p, "currencies")
      BY <3>1 DEF RowsOf
    <3> QED BY <2>1, <3>1, <3>2
  <2>3. ASSUME Converted(p), NEW c \in Currency \ {p.default}, Convertible(p, c),
               \/ \A table \in seen : ActiveIn(table, p.period, c) # {}
               \/ /\ p.windows # NoWindows
                  /\ \A table \in seen : ActiveIn(table, p.windows.previous, c) # {}
        PROVE  {c, p.default} \ {EUR} \subseteq page.rates
    <3> PICK period : period = p.period
      OBVIOUS
    <3> PICK previous : previous = p.windows.previous
      OBVIOUS
    <3>1. CASE \A table \in seen : ActiveIn(table, period, c) # {}
      <4>1. Told(p, "currencies", period)
        BY <2>1
      <4> QED BY <2>1, <2>3, <3>1, <4>1, UsedIsNamed
    <3>2. CASE p.windows # NoWindows
               /\ \A table \in seen : ActiveIn(table, previous, c) # {}
      <4>1. Told(p, "previous", previous)
        BY <2>1, <2>3, <3>2 DEF Compares
      <4> QED BY <2>1, <2>3, <3>2, <4>1, UsedIsNamed
    <3> QED BY <2>3, <3>1, <3>2
  <2>4. p.client = Web /\ Several(p) /\ ~Converted(p) =>
            p.requested # NoCurrency \/ NeedsDefaultCurrency(p) \/ RatesMissing(p)
    BY <2>1 DEF ConvertsByDefault, NeedsDefaultCurrency, RatesMissing
  <2>5. \A c \in Currency \ {p.default} :
            (/\ Convertible(p, c)
             /\ \/ \A table \in seen : ActiveIn(table, p.period, c) # {}
                \/ /\ p.windows # NoWindows
                   /\ \A table \in seen : ActiveIn(table, p.windows.previous, c) # {})
            => (Converted(p) => {c, p.default} \ {EUR} \subseteq page.rates)
    BY <2>3
  <2>6. p = Asks
    BY DEF p, Asks
  <2> QED BY <2>2, <2>4, <2>5, <2>6 DEF NothingIsSilent
<1>2. PageSound => NothingIsSilent
    BY <1>1 DEF NothingIsSilent
<1> QED BY <1>2, PageInvariance, PTL

-----------------------------------------------------------------------------
(* Sums over finite sets, as MapThenSumSet takes them.                      *)

Picked(s) == CHOOSE x \in s : TRUE

\* g adds up f over the sets in D, one element after the other.
Sums(f, D, g) ==
    g = [s \in D |-> IF s = {} THEN 0 ELSE f[Picked(s)] + g[s \ {Picked(s)}]]

Adds(f, T, g) == IsFiniteSet(T) /\ Sums(f, SUBSET T, g)
Upto(T, k) == {s \in SUBSET T : Cardinality(s) =< k}
Total(f, T) == (CHOOSE g : Adds(f, T, g))[T]

Under(S, T) == S \subseteq T
Alike(f, h, S) == \A x \in S : f[x] = h[x]
Integral(f, S) == \A x \in S : f[x] \in Int
Positive(f, S) == \A x \in S : f[x] \in Nat \ {0}
OneToOne(m, S, T) == T = {m[x] : x \in S} /\ \A x, y \in S : m[x] = m[y] => x = y
Follows(h, m, f, S) == \A x \in S : h[m[x]] = f[x]

LEMMA LeastNumber ==
    ASSUME NEW N \in SUBSET Nat, N # {}
    PROVE  \E n \in N : \A m \in N : n =< m
<1>1. \E n \in N : \A m \in N : <<m, n>> \notin OpToRel(<, Nat)
  <2>1. N \subseteq Nat
    OBVIOUS
  <2> QED BY <2>1, WFMin, NatLessThanWellFounded, Zenon
<1>2. PICK n \in N : \A m \in N : <<m, n>> \notin OpToRel(<, Nat)
    BY <1>1
<1>3. ASSUME NEW m \in N PROVE n =< m
  <2>1. m \in Nat /\ n \in Nat
    OBVIOUS
  <2>2. ~(m < n)
    BY <1>2, <2>1 DEF OpToRel
  <2> QED BY <2>1, <2>2
<1> QED BY <1>3

\* Some set of finite ones is in B, and no smaller part of it.
LEMMA LeastSubset ==
    ASSUME NEW T, IsFiniteSet(T), NEW B \in SUBSET (SUBSET T), B # {}
    PROVE  \E s \in B : \A t \in SUBSET s : t # s => t \notin B
<1> DEFINE N == {Cardinality(s) : s \in B}
<1>1. \A s \in B : IsFiniteSet(s) /\ Cardinality(s) \in Nat
    BY FS_Subset, FS_CardinalityType
<1>2. N \in SUBSET Nat /\ N # {}
    BY <1>1
<1>3. PICK n \in N : \A m \in N : n =< m
    BY <1>2, LeastNumber
<1>4. PICK s \in B : Cardinality(s) = n
    OBVIOUS
<1>5. ASSUME NEW t \in SUBSET s, t # s, t \in B PROVE FALSE
  <2>1. Cardinality(t) =< Cardinality(s) /\ Cardinality(t) # Cardinality(s)
    BY <1>1, <1>5, FS_Subset
  <2>2. n =< Cardinality(t)
    BY <1>3, <1>5
  <2> QED BY <1>1, <1>4, <1>5, <2>1, <2>2
<1> QED BY <1>5

LEMMA Picking ==
    ASSUME NEW T, IsFiniteSet(T), NEW s \in SUBSET T, s # {}
    PROVE  /\ Picked(s) \in s /\ Picked(s) \in T
           /\ IsFiniteSet(s) /\ s \ {Picked(s)} \in SUBSET T
           /\ Cardinality(s \ {Picked(s)}) = Cardinality(s) - 1
           /\ Cardinality(s) \in Nat
<1>1. Picked(s) \in s
    BY DEF Picked
<1>2. IsFiniteSet(s)
    BY FS_Subset
<1> QED BY <1>1, <1>2, FS_RemoveElement, FS_CardinalityType

\* The recursion has a solution, by the number of elements.
LEMMA SumsExist ==
    ASSUME NEW f, NEW T, IsFiniteSet(T)
    PROVE  \E g : Adds(f, T, g)
<1> DEFINE Has(k) == \E g : Sums(f, Upto(T, k), g)
           Missing == {k \in Nat : ~Has(k)}
<1>1. \A s \in SUBSET T : IsFiniteSet(s) /\ Cardinality(s) \in Nat
    BY FS_Subset, FS_CardinalityType
<1>2. Missing = {}
  <2>1. SUFFICES ASSUME Missing # {} PROVE FALSE
    OBVIOUS
  <2>2. PICK n \in Missing : \A m \in Missing : n =< m
    BY <2>1, LeastNumber
  <2>3. n \in Nat /\ ~Has(n)
    OBVIOUS
  <2>4. CASE n = 0
    <3>1. \A s \in Upto(T, n) : s = {}
      BY <1>1, <2>4, FS_EmptySet DEF Upto
    <3>2. Sums(f, Upto(T, n), [s \in Upto(T, n) |-> 0])
      BY <3>1 DEF Sums
    <3> QED BY <2>3, <3>2
  <2>5. CASE n # 0
    <3>1. n - 1 \in Nat /\ n - 1 \notin Missing
      BY <2>2, <2>3, <2>5
    <3>2. PICK h : Sums(f, Upto(T, n - 1), h)
      BY <3>1
    <3> DEFINE g == [s \in Upto(T, n) |->
                        IF s = {} THEN 0 ELSE f[Picked(s)] + h[s \ {Picked(s)}]]
    <3>3. ASSUME NEW s \in Upto(T, n), s # {}
          PROVE  g[s \ {Picked(s)}] = h[s \ {Picked(s)}]
      <4> DEFINE t == s \ {Picked(s)}
      <4>1. t \in SUBSET T /\ Cardinality(t) =< n - 1
        BY <2>3, <3>3, Picking DEF Upto
      <4>2. t \in Upto(T, n) /\ t \in Upto(T, n - 1)
        BY <1>1, <2>3, <4>1 DEF Upto
      <4> HIDE DEF t
      <4>3. h[t] = IF t = {} THEN 0 ELSE f[Picked(t)] + h[t \ {Picked(t)}]
        BY <3>2, <4>2 DEF Sums
      <4> QED BY <4>2, <4>3 DEF t
    <3>4. Sums(f, Upto(T, n), g)
      BY <3>3 DEF Sums
    <3> QED BY <2>3, <3>4
  <2> QED BY <2>4, <2>5
<1>3. Cardinality(T) \in Nat
    BY FS_CardinalityType
<1>4. Upto(T, Cardinality(T)) = SUBSET T
    BY FS_Subset DEF Upto
<1>5. Has(Cardinality(T))
    BY <1>2, <1>3
<1> QED BY <1>4, <1>5 DEF Adds

\* The recursion chooses an element, but any may be taken out first.
LEMMA AnyFirst ==
    ASSUME NEW f, NEW T, NEW g, Adds(f, T, g), Integral(f, T)
    PROVE  /\ g[{}] = 0
           /\ \A s \in SUBSET T : g[s] \in Int /\ \A x \in s : g[s] = f[x] + g[s \ {x}]
<1> DEFINE Good(s) == g[s] \in Int /\ \A x \in s : g[s] = f[x] + g[s \ {x}]
           B == {s \in SUBSET T : ~Good(s)}
<1>1. \A s \in SUBSET T : g[s] = IF s = {} THEN 0 ELSE f[Picked(s)] + g[s \ {Picked(s)}]
    BY DEF Adds, Sums
<1>2. g[{}] = 0
    BY <1>1
<1>3. B = {}
  <2>1. SUFFICES ASSUME B # {} PROVE FALSE
    OBVIOUS
  <2>c. PICK C : C = B
    OBVIOUS
  <2>d. C \in SUBSET (SUBSET T) /\ C # {} /\ IsFiniteSet(T)
    BY <2>1, <2>c DEF Adds
  <2>2. PICK s \in C : \A t \in SUBSET s : t # s => t \notin C
    BY <2>d, LeastSubset
  <2>3. s \in SUBSET T /\ ~Good(s)
    BY <2>c
  <2>4. s # {}
    <3>1. Good({})
      BY <1>2
    <3> HIDE DEF Good
    <3> QED BY <2>3, <3>1
  <2>a. \A t \in SUBSET s : t # s => Good(t)
    BY <2>2, <2>3, <2>c
  <2>b. PICK p \in s : p = Picked(s)
    BY <2>4 DEF Picked
  <2>5. p \in T /\ f[p] \in Int /\ g[s] = f[p] + g[s \ {p}]
    BY <1>1, <2>3, <2>4, <2>b DEF Integral
  <2>6. s \ {p} \in SUBSET s /\ s \ {p} # s /\ Good(s \ {p})
    BY <2>a
  <2>7. g[s] \in Int
    BY <2>5, <2>6
  <2>8. ASSUME NEW x \in s, x # p PROVE g[s] = f[x] + g[s \ {x}]
    <3>1. x \in s \ {p} /\ p \in s \ {x}
      BY <2>8
    <3>2. s \ {x} \in SUBSET s /\ s \ {x} # s /\ Good(s \ {x})
      BY <2>a
    <3>3. PICK r : r = (s \ {x}) \ {p}
      OBVIOUS
    <3>4. r = (s \ {p}) \ {x} /\ r \in SUBSET s /\ r # s
      BY <3>1, <3>3
    <3>5. Good(r)
      BY <2>a, <3>4
    <3>6. g[s \ {p}] = f[x] + g[r]
      BY <2>6, <3>1, <3>4
    <3>7. g[s \ {x}] = f[p] + g[r]
      BY <3>1, <3>2, <3>3
    <3>8. f[x] \in Int
      BY <2>3 DEF Integral
    <3> QED BY <2>5, <3>5, <3>6, <3>7, <3>8
  <2> QED BY <2>3, <2>5, <2>7, <2>8
<1> QED BY <1>2, <1>3

\* A sum depends only on what is added.
LEMMA SameSum ==
    ASSUME NEW f, NEW T, NEW g, Adds(f, T, g), NEW h, NEW U, NEW k, Adds(h, U, k),
           NEW S, Under(S, T), Under(S, U), Alike(f, h, S)
    PROVE  g[S] = k[S]
<1> DEFINE B == {s \in SUBSET S : g[s] # k[s]}
<1>1. SUFFICES ASSUME B # {} PROVE FALSE
    OBVIOUS
<1>2. IsFiniteSet(S) /\ S \subseteq T /\ S \subseteq U /\ \A x \in S : f[x] = h[x]
    BY FS_Subset DEF Adds, Under, Alike
<1>c. PICK C : C = B
    OBVIOUS
<1>d. C \in SUBSET (SUBSET S) /\ C # {} /\ IsFiniteSet(S)
    BY <1>1, <1>2, <1>c DEF Adds
<1>3. PICK s \in C : \A t \in SUBSET s : t # s => t \notin C
    BY <1>d, LeastSubset
<1>4. s \in SUBSET S /\ s \in SUBSET T /\ s \in SUBSET U /\ g[s] # k[s]
    BY <1>2, <1>c
<1>5. /\ g[s] = IF s = {} THEN 0 ELSE f[Picked(s)] + g[s \ {Picked(s)}]
      /\ k[s] = IF s = {} THEN 0 ELSE h[Picked(s)] + k[s \ {Picked(s)}]
    BY <1>4 DEF Adds, Sums
<1>6. s # {} /\ Picked(s) \in s
    BY <1>4, <1>5 DEF Picked
<1>7. g[s \ {Picked(s)}] = k[s \ {Picked(s)}]
    BY <1>3, <1>4, <1>6, <1>c
<1> QED BY <1>2, <1>4, <1>5, <1>6, <1>7

LEMMA TotalIs ==
    ASSUME NEW f, NEW T, NEW g, Adds(f, T, g)
    PROVE  Total(f, T) = g[T]
<1>1. Under(T, T) /\ Alike(f, f, T)
    BY DEF Under, Alike
<1>2. PICK k : k = CHOOSE q : Adds(f, T, q)
    OBVIOUS
<1>3. Adds(f, T, k)
    BY <1>2
<1>4. k[T] = g[T]
    BY <1>1, <1>3, SameSum
<1> QED BY <1>2, <1>4 DEF Total

\* The sum depends only on the numbers.
LEMMA SameTotal ==
    ASSUME NEW f, NEW h, NEW T, IsFiniteSet(T), \A x \in T : f[x] = h[x]
    PROVE  Total(f, T) = Total(h, T)
<1>1. PICK g : Adds(f, T, g)
    BY SumsExist
<1>2. PICK k : Adds(h, T, k)
    BY SumsExist
<1>3. Under(T, T) /\ Alike(f, h, T)
    BY DEF Under, Alike
<1>4. g[T] = k[T]
    BY <1>1, <1>2, <1>3, SameSum
<1> QED BY <1>1, <1>2, <1>4, TotalIs

\* Numbers that are all positive have a positive sum, or there are none.
LEMMA PositiveSum ==
    ASSUME NEW f, NEW T, IsFiniteSet(T), Positive(f, T)
    PROVE  Total(f, T) \in Nat /\ (Total(f, T) = 0 <=> T = {})
<1>1. PICK g : Adds(f, T, g)
    BY SumsExist
<1>a. Integral(f, T)
    BY DEF Integral, Positive
<1>2. /\ g[{}] = 0
      /\ \A s \in SUBSET T : g[s] \in Int /\ \A x \in s : g[s] = f[x] + g[s \ {x}]
    BY <1>1, <1>a, AnyFirst
<1> DEFINE Good(s) == g[s] \in Nat /\ (s # {} => g[s] # 0)
           B == {s \in SUBSET T : ~Good(s)}
<1>3. B = {}
  <2>1. SUFFICES ASSUME B # {} PROVE FALSE
    OBVIOUS
  <2>c. PICK C : C = B
    OBVIOUS
  <2>d. C \in SUBSET (SUBSET T) /\ C # {} /\ IsFiniteSet(T)
    BY <2>1, <2>c DEF Adds
  <2>2. PICK s \in C : \A t \in SUBSET s : t # s => t \notin C
    BY <2>d, LeastSubset
  <2>3. s \in SUBSET T /\ ~Good(s)
    BY <2>c
  <2>4. s # {}
    <3>1. Good({})
      BY <1>2
    <3> HIDE DEF Good
    <3> QED BY <2>3, <3>1
  <2>5. PICK x \in s : TRUE
    BY <2>4
  <2>6. s \ {x} \in SUBSET s /\ s \ {x} # s /\ s \ {x} \in SUBSET T
    BY <2>3
  <2>7. Good(s \ {x})
    BY <2>2, <2>6, <2>c
  <2>8. g[s] = f[x] + g[s \ {x}] /\ f[x] \in Nat \ {0}
    BY <1>2, <2>3 DEF Positive
  <2> QED BY <2>3, <2>7, <2>8
<1>4. Good(T)
    BY <1>3
<1> QED BY <1>1, <1>2, <1>4, TotalIs

\* The sum over T is the sum over what its elements are named, if the names differ.
LEMMA Renamed ==
    ASSUME NEW f, NEW T, IsFiniteSet(T), Integral(f, T), NEW m, NEW U, OneToOne(m, T, U),
           NEW h, Follows(h, m, f, T)
    PROVE  IsFiniteSet(U) /\ Total(f, T) = Total(h, U) /\ Total(f, T) \in Int
<1>1. IsFiniteSet(U)
  <2> DEFINE F == [x \in T |-> m[x]]
  <2>1. F \in Surjection(T, U)
    BY DEF Surjection, OneToOne
  <2> QED BY <2>1, FS_Surjection
<1>2. PICK g : Adds(f, T, g)
    BY SumsExist
<1>3. PICK k : Adds(h, U, k)
    BY <1>1, SumsExist
<1>4. /\ g[{}] = 0
      /\ \A s \in SUBSET T : g[s] \in Int /\ \A x \in s : g[s] = f[x] + g[s \ {x}]
    BY <1>2, AnyFirst
<1>a. Integral(h, U)
    BY DEF Integral, OneToOne, Follows
<1>5. /\ k[{}] = 0
      /\ \A s \in SUBSET U : k[s] \in Int /\ \A x \in s : k[s] = h[x] + k[s \ {x}]
    BY <1>3, <1>a, AnyFirst
<1> DEFINE names(s) == {m[x] : x \in s}
           B == {s \in SUBSET T : g[s] # k[names(s)]}
<1>6. B = {}
  <2>1. SUFFICES ASSUME B # {} PROVE FALSE
    OBVIOUS
  <2>c. PICK C : C = B
    OBVIOUS
  <2>d. C \in SUBSET (SUBSET T) /\ C # {} /\ IsFiniteSet(T)
    BY <2>1, <2>c DEF Adds
  <2>2. PICK s \in C : \A t \in SUBSET s : t # s => t \notin C
    BY <2>d, LeastSubset
  <2>3. s \in SUBSET T /\ g[s] # k[names(s)]
    BY <2>c
  <2>4. s # {}
    <3>1. names({}) = {}
      OBVIOUS
    <3> QED BY <1>4, <1>5, <2>3, <3>1
  <2>5. PICK x \in s : TRUE
    BY <2>4
  <2>6. s \ {x} \in SUBSET s /\ s \ {x} # s /\ s \ {x} \in SUBSET T
    BY <2>3
  <2>7. g[s \ {x}] = k[names(s \ {x})]
    BY <2>2, <2>6, <2>c
  <2>8. names(s) \in SUBSET U /\ m[x] \in names(s) /\ names(s \ {x}) = names(s) \ {m[x]}
             /\ h[m[x]] = f[x]
    BY <2>3 DEF OneToOne, Follows
  <2>9. g[s] = f[x] + g[s \ {x}]
    BY <1>4, <2>3
  <2> HIDE DEF names
  <2>10. k[names(s)] = h[m[x]] + k[names(s) \ {m[x]}]
    BY <1>5, <2>8
  <2> QED BY <2>3, <2>7, <2>8, <2>9, <2>10
<1>7. g[T] = k[U]
  <2>1. names(T) = U /\ T \in SUBSET T
    BY DEF OneToOne
  <2> HIDE DEF names
  <2> QED BY <1>6, <2>1
<1>8. Total(f, T) = g[T] /\ Total(h, U) = k[U] /\ g[T] \in Int
    BY <1>2, <1>3, <1>4, TotalIs
<1> QED BY <1>1, <1>7, <1>8

\* What MapThenSumSet adds up, each time the dashboard uses it.
LEMMA AmountIs ==
    ASSUME NEW table, NEW S, IsFiniteSet(S)
    PROVE  AmountOf(table, S) = Total([e \in S |-> table[e].amount], S)
<1> DEFINE f == [e \in S |-> table[e].amount]
           G == CHOOSE g : g = [s \in SUBSET S |->
                    IF s = {} THEN 0 ELSE table[Picked(s)].amount + g[s \ {Picked(s)}]]
<1>1. AmountOf(table, S) = G[S]
    BY DEF AmountOf, MapThenSumSet, MapThenFoldSet, Picked
<1>2. ASSUME NEW g
      PROVE  Sums(f, SUBSET S, g)
             <=> g = [s \in SUBSET S |->
                    IF s = {} THEN 0 ELSE table[Picked(s)].amount + g[s \ {Picked(s)}]]
  <2>1. \A s \in SUBSET S : s # {} => f[Picked(s)] = table[Picked(s)].amount
    BY Picking
  <2> QED BY <2>1 DEF Sums
<1> HIDE DEF f
<1>3. PICK g : Sums(f, SUBSET S, g)
    BY SumsExist DEF Adds
<1>4. Sums(f, SUBSET S, G)
    BY <1>2, <1>3
<1> QED BY <1>1, <1>4, TotalIs DEF Adds, f

LEMMA CountIs ==
    ASSUME NEW rows, IsFiniteSet(rows)
    PROVE  CountOf(rows) = Total([r \in rows |-> r.count], rows)
<1> DEFINE f == [r \in rows |-> r.count]
           G == CHOOSE g : g = [s \in SUBSET rows |->
                    IF s = {} THEN 0 ELSE Picked(s).count + g[s \ {Picked(s)}]]
<1>1. CountOf(rows) = G[rows]
    BY DEF CountOf, MapThenSumSet, MapThenFoldSet, Picked
<1>2. ASSUME NEW g
      PROVE  Sums(f, SUBSET rows, g)
             <=> g = [s \in SUBSET rows |->
                    IF s = {} THEN 0 ELSE Picked(s).count + g[s \ {Picked(s)}]]
  <2>1. \A s \in SUBSET rows : s # {} => f[Picked(s)] = Picked(s).count
    BY Picking
  <2> QED BY <2>1 DEF Sums
<1> HIDE DEF f
<1>3. PICK g : Sums(f, SUBSET rows, g)
    BY SumsExist DEF Adds
<1>4. Sums(f, SUBSET rows, G)
    BY <1>2, <1>3
<1> QED BY <1>1, <1>4, TotalIs DEF Adds, f

LEMMA TotalOfIs ==
    ASSUME NEW p, NEW rows, IsFiniteSet(rows)
    PROVE  TotalOf(p, rows) = Total([r \in rows |-> InTarget(p, r.total, r.currency)], rows)
<1> DEFINE f == [r \in rows |-> InTarget(p, r.total, r.currency)]
           G == CHOOSE g : g = [s \in SUBSET rows |->
                    IF s = {} THEN 0
                    ELSE InTarget(p, Picked(s).total, Picked(s).currency) + g[s \ {Picked(s)}]]
<1>1. TotalOf(p, rows) = G[rows]
    BY DEF TotalOf, MapThenSumSet, MapThenFoldSet, Picked
<1>2. ASSUME NEW g
      PROVE  Sums(f, SUBSET rows, g)
             <=> g = [s \in SUBSET rows |->
                    IF s = {} THEN 0
                    ELSE InTarget(p, Picked(s).total, Picked(s).currency) + g[s \ {Picked(s)}]]
  <2>1. \A s \in SUBSET rows : s # {} =>
            f[Picked(s)] = InTarget(p, Picked(s).total, Picked(s).currency)
    BY Picking
  <2> QED BY <2>1 DEF Sums
<1> HIDE DEF f
<1>3. PICK g : Sums(f, SUBSET rows, g)
    BY SumsExist DEF Adds
<1>4. Sums(f, SUBSET rows, G)
    BY <1>2, <1>3
<1> QED BY <1>1, <1>4, TotalIs DEF Adds, f

\* What the Expenses of one currency come to in the currency of the page.
Part(table, S, c) == InTarget(Asks, AmountOf(table, {e \in S : table[e].currency = c}), c)

LEMMA TrueTotalIs ==
    ASSUME NEW table, NEW S, IsFiniteSet(CurrenciesOf(table, S))
    PROVE  TrueTotal(table, S) =
               Total([c \in CurrenciesOf(table, S) |-> Part(table, S, c)], CurrenciesOf(table, S))
<1> PICK C : C = CurrenciesOf(table, S)
    OBVIOUS
<1> DEFINE f == [c \in C |-> Part(table, S, c)]
           G == CHOOSE g : g = [s \in SUBSET C |->
                    IF s = {} THEN 0 ELSE Part(table, S, Picked(s)) + g[s \ {Picked(s)}]]
<1>1. TrueTotal(table, S) = G[C]
    BY DEF TrueTotal, MapThenSumSet, MapThenFoldSet, Picked, Part
<1>2. ASSUME NEW g
      PROVE  Sums(f, SUBSET C, g)
             <=> g = [s \in SUBSET C |->
                    IF s = {} THEN 0 ELSE Part(table, S, Picked(s)) + g[s \ {Picked(s)}]]
  <2>1. \A s \in SUBSET C : s # {} => f[Picked(s)] = Part(table, S, Picked(s))
    BY Picking
  <2> QED BY <2>1 DEF Sums
<1> HIDE DEF f
<1>3. PICK g : Sums(f, SUBSET C, g)
    BY SumsExist DEF Adds
<1>4. Sums(f, SUBSET C, G)
    BY <1>2, <1>3
<1> QED BY <1>1, <1>4, TotalIs DEF Adds, f

-----------------------------------------------------------------------------
(* The totals of a page (Dashboard).                                        *)

\* What a request was asked, and the rates it read.
PageTyped(p) ==
    /\ p.period \in DashboardPeriod /\ p.today \in Todays
    /\ p.windows = ComparisonWindows(p.period, p.today)
    /\ {p.requested, p.default, p.selected} \subseteq Currency \union {NoCurrency}
    /\ Converted(p) =>
           p.rates \in Published /\ p.default \in Currency /\ HasRate(p.rates, p.default)

LEMMA UnitsArePositive ==
    ASSUME NEW rates \in Published, NEW c \in Currency, HasRate(rates, c)
    PROVE  UnitsPerEur(rates, c) \in Nat \ {0} /\ Scale[c] \in Nat \ {0}
<1>1. CASE c = EUR
    BY <1>1, CatalogueAssumption DEF UnitsPerEur
<1>2. CASE c # EUR
  <2>1. PICK S \in SUBSET Currency : rates \in [S -> Rate]
    BY DEF Published
  <2>2. rates[c] \in Rate
    BY <1>2, <2>1 DEF HasRate
  <2>3. rates[c].units_per_eur \in Nat \ {0}
    BY <2>2 DEF Rate
  <2>4. Scale[c] \in Nat \ {0}
    BY CatalogueAssumption
  <2> QED BY <1>2, <2>3, <2>4 DEF UnitsPerEur
<1> QED BY <1>1, <1>2

LEMMA RoundedIsInteger ==
    ASSUME NEW n \in Nat, NEW d \in Nat \ {0}
    PROVE  RoundHalfEven(n, d) \in Int
BY DEF RoundHalfEven

LEMMA AmountsAreIntegers ==
    ASSUME NEW p, PageTyped(p), NEW minor \in Nat, NEW c \in Currency,
           Converted(p) => Convertible(p, c)
    PROVE  InTarget(p, minor, c) \in Int
<1>1. CASE ~Converted(p) \/ c = p.default
    BY <1>1 DEF InTarget, Convert
<1>2. CASE Converted(p) /\ c # p.default
  <2> DEFINE from == UnitsPerEur(p.rates, c)
             to == UnitsPerEur(p.rates, p.default)
  <2>1. /\ p.rates \in Published /\ p.default \in Currency /\ HasRate(p.rates, p.default)
        /\ HasRate(p.rates, c)
    BY <1>2 DEF PageTyped, Convertible, CanConvert
  <2>2. /\ from \in Nat \ {0} /\ to \in Nat \ {0}
        /\ Scale[c] \in Nat \ {0} /\ Scale[p.default] \in Nat \ {0}
    BY <2>1, UnitsArePositive
  <2> HIDE DEF from, to
  <2>3. minor * Scale[p.default] \in Nat
    BY <2>2, Product
  <2>4. (minor * Scale[p.default]) * to \in Nat
    BY <2>2, <2>3, Product
  <2>5. Scale[c] * from \in Nat \ {0}
    BY <2>2, Product
  <2>6. InTarget(p, minor, c) = RoundHalfEven(minor * Scale[p.default] * to, Scale[c] * from)
    BY <1>2 DEF InTarget, Convert, from, to
  <2> QED BY <2>4, <2>5, <2>6, RoundedIsInteger
<1> QED BY <1>1, <1>2

\* The Expenses of a table in one currency, as a row of a grouping by currency.
Group(table, period, c) ==
    LET G == {e \in ActiveIn(table, period, NoCurrency) : table[e].currency = c}
    IN  [currency |-> c, key |-> 0, total |-> AmountOf(table, G), count |-> Cardinality(G)]

CurrenciesIn(table, period) == CurrenciesOf(table, ActiveIn(table, period, NoCurrency))
ByCurrency(table, period) ==
    {Group(table, period, c) : c \in CurrenciesIn(table, period)}

LEMMA AnswerIs ==
    ASSUME NEW read, read.what \in {"previous", "current"}, read.currency = NoCurrency,
           NEW period,
           period = IF read.what = "previous" THEN page.windows.previous
                    ELSE page.windows.current
    PROVE  Answer(read) = ByCurrency(expenses, period)
<1> PICK S : S = ActiveIn(expenses, period, NoCurrency)
    OBVIOUS
<1> DEFINE key == [e \in S |-> 0]
           keys == {<<expenses[e].currency, key[e]>> : e \in DOMAIN key}
           of(k) == {e \in DOMAIN key : expenses[e].currency = k[1] /\ key[e] = k[2]}
           group(k) == [currency |-> k[1], key |-> k[2], total |-> AmountOf(expenses, of(k)),
                        count |-> Cardinality(of(k))]
<1>1. Answer(read) = Groups(key)
    BY DEF Answer
<1>2. Groups(key) = {group(k) : k \in keys}
    BY DEF Groups
<1>3. \A c : <<c, 0>> \in keys <=> c \in CurrenciesIn(expenses, period)
    BY DEF CurrenciesIn, CurrenciesOf
<1>4. \A k \in keys : k = <<k[1], 0>>
    OBVIOUS
<1>5. ASSUME NEW c PROVE group(<<c, 0>>) = Group(expenses, period, c)
  <2>1. of(<<c, 0>>) = {e \in S : expenses[e].currency = c}
    OBVIOUS
  <2> HIDE DEF of
  <2> QED BY <2>1 DEF Group
<1> HIDE DEF keys, group
<1>6. {group(k) : k \in keys} = ByCurrency(expenses, period)
  <2>1. ASSUME NEW k \in keys PROVE group(k) \in ByCurrency(expenses, period)
    <3>1. PICK c : c = k[1]
      OBVIOUS
    <3>2. k = <<c, 0>> /\ c \in CurrenciesIn(expenses, period)
      BY <1>3, <1>4, <3>1
    <3> QED BY <1>5, <3>2 DEF ByCurrency
  <2>2. ASSUME NEW c \in CurrenciesIn(expenses, period)
        PROVE  Group(expenses, period, c) \in {group(k) : k \in keys}
    BY <1>3, <1>5
  <2> QED BY <2>1, <2>2 DEF ByCurrency
<1> QED BY <1>1, <1>2, <1>6

\* The currencies that count on a page.
Counts(p, c) == IF Converted(p) THEN Convertible(p, c) ELSE c = p.selected

LEMMA ExpensesAreEntries ==
    ASSUME NEW table \in Tables, NEW period
    PROVE  /\ ActiveIn(table, period, NoCurrency) \in SUBSET Expense
           /\ IsFiniteSet(ActiveIn(table, period, NoCurrency))
           /\ \A e \in ActiveIn(table, period, NoCurrency) :
                  table[e].amount \in Nat \ {0} /\ table[e].currency \in Currency
           /\ CurrenciesIn(table, period) \in SUBSET Currency
           /\ IsFiniteSet(CurrenciesIn(table, period))
<1>1. ActiveIn(table, period, NoCurrency) \in SUBSET Expense
    BY DEF ActiveIn
<1>2. IsFiniteSet(ActiveIn(table, period, NoCurrency))
    BY <1>1, ExpensesAssumption, FS_Subset
<1>3. ASSUME NEW e \in ActiveIn(table, period, NoCurrency)
      PROVE  table[e].amount \in Nat \ {0} /\ table[e].currency \in Currency
  <2>1. table[e] \in Entry
    BY <1>1, TablesAssumption DEF ActiveIn
  <2> QED BY <2>1 DEF Entry
<1>4. CurrenciesIn(table, period) \in SUBSET Currency
    BY <1>3 DEF CurrenciesIn, CurrenciesOf
<1>5. \A c \in CurrenciesIn(table, period) :
          \E e \in ActiveIn(table, period, NoCurrency) : c = table[e].currency
    BY DEF CurrenciesIn, CurrenciesOf
<1>6. IsFiniteSet(CurrenciesIn(table, period))
    BY <1>1, <1>5, FewCurrencies
<1> QED BY <1>1, <1>2, <1>3, <1>4, <1>6

\* A row counts at least one Expense, and has their amounts.
LEMMA GroupIsTyped ==
    ASSUME NEW table \in Tables, NEW period, NEW c \in CurrenciesIn(table, period)
    PROVE  /\ Group(table, period, c).currency = c
           /\ Group(table, period, c).total \in Nat
           /\ Group(table, period, c).count \in Nat \ {0}
<1> DEFINE G == {e \in ActiveIn(table, period, NoCurrency) : table[e].currency = c}
           f == [e \in G |-> table[e].amount]
<1>1. Group(table, period, c) = [currency |-> c, key |-> 0, total |-> AmountOf(table, G),
                                 count |-> Cardinality(G)]
    BY DEF Group
<1>2. G \in SUBSET ActiveIn(table, period, NoCurrency) /\ G # {}
    BY DEF CurrenciesIn, CurrenciesOf
<1>3. IsFiniteSet(G)
    BY <1>2, ExpensesAreEntries, FS_Subset
<1>4. Positive(f, G)
    BY <1>2, ExpensesAreEntries DEF Positive
<1> HIDE DEF G
<1>5. AmountOf(table, G) \in Nat
    BY <1>3, <1>4, AmountIs, PositiveSum
<1>6. Cardinality(G) \in Nat \ {0}
    BY <1>2, <1>3, FS_CardinalityType, FS_EmptySet
<1> QED BY <1>1, <1>5, <1>6

\* The rows that count are those of the currencies of the Expenses that count.
LEMMA CountedAre ==
    ASSUME NEW table \in Tables, NEW period, NEW rows, NEW C,
           rows = Counted(Asks, ByCurrency(table, period)),
           C = CurrenciesOf(table, Countable(table, period))
    PROVE  /\ C = {c \in CurrenciesIn(table, period) : Counts(Asks, c)}
           /\ rows = {Group(table, period, c) : c \in C}
           /\ C = {} <=> Countable(table, period) = {}
<1> PICK p : p = Asks
    OBVIOUS
<1>1. C = {c \in CurrenciesIn(table, period) : Counts(p, c)}
    BY DEF Countable, CurrenciesIn, CurrenciesOf, Counts
<1>2. rows = {g \in ByCurrency(table, period) : Counts(p, g.currency)}
    BY DEF Counted, Counts
<1>3. \A c \in CurrenciesIn(table, period) : Group(table, period, c).currency = c
    BY GroupIsTyped
<1>4. rows = {Group(table, period, c) : c \in C}
    BY <1>1, <1>2, <1>3 DEF ByCurrency
<1>5. C = {} <=> Countable(table, period) = {}
    BY DEF CurrenciesOf
<1> QED BY <1>1, <1>4, <1>5

LEMMA NothingAddsUp ==
    ASSUME NEW f
    PROVE  Total(f, {}) = 0
<1>1. IsFiniteSet({}) /\ Positive(f, {})
    BY FS_EmptySet DEF Positive
<1> QED BY <1>1, PositiveSum

\* What the rows that count add up to is what the Expenses do, added up directly.
LEMMA RowsAddUp ==
    ASSUME PageTyped(Asks), NEW table \in Tables, NEW period, NEW rows, NEW S,
           rows = Counted(Asks, ByCurrency(table, period)), S = Countable(table, period)
    PROVE  /\ TotalOf(Asks, rows) = TrueTotal(table, S) /\ TotalOf(Asks, rows) \in Int
           /\ CountOf(rows) = 0 <=> S = {}
           /\ S = {} => TotalOf(Asks, rows) = 0
<1> PICK C : C = CurrenciesOf(table, S)
    OBVIOUS
<1>1. /\ C = {c \in CurrenciesIn(table, period) : Counts(Asks, c)}
      /\ rows = {Group(table, period, c) : c \in C} /\ (C = {} <=> S = {})
    BY CountedAre
<1>2. C \in SUBSET Currency /\ IsFiniteSet(C) /\ C \in SUBSET CurrenciesIn(table, period)
    BY <1>1, ExpensesAreEntries, FS_Subset
<1>3. \A c \in C : /\ Group(table, period, c).currency = c
                   /\ Group(table, period, c).total \in Nat
                   /\ Group(table, period, c).count \in Nat \ {0}
    BY <1>2, GroupIsTyped
<1> DEFINE f == [r \in rows |-> InTarget(Asks, r.total, r.currency)]
           h == [c \in C |-> Part(table, S, c)]
           m == [r \in rows |-> r.currency]
           n == [r \in rows |-> r.count]
           w == [c \in C |-> Group(table, period, c)]
<1>4. IsFiniteSet(rows)
  <2>1. w \in Surjection(C, rows)
    BY <1>1 DEF Surjection
  <2> QED BY <1>2, <2>1, FS_Surjection
<1>5. ASSUME NEW c \in C
      PROVE  /\ InTarget(Asks, Group(table, period, c).total, c) = Part(table, S, c)
             /\ Part(table, S, c) \in Int
  <2>1. {e \in S : table[e].currency = c}
            = {e \in ActiveIn(table, period, NoCurrency) : table[e].currency = c}
    BY <1>1 DEF Countable, Counts
  <2>2. Group(table, period, c).total
            = AmountOf(table, {e \in ActiveIn(table, period, NoCurrency) : table[e].currency = c})
    BY DEF Group
  <2>3. Converted(Asks) => Convertible(Asks, c)
    BY <1>1 DEF Counts
  <2>4. InTarget(Asks, Group(table, period, c).total, c) \in Int
    BY <1>2, <1>3, <2>3, AmountsAreIntegers
  <2> QED BY <2>1, <2>2, <2>4 DEF Part
<1>6. ASSUME NEW r \in rows PROVE r.currency \in C /\ r = Group(table, period, r.currency)
  <2>1. PICK c \in C : r = Group(table, period, c)
    BY <1>1
  <2> QED BY <1>3, <2>1
<1>7. Integral(f, rows) /\ Follows(h, m, f, rows)
    BY <1>5, <1>6 DEF Integral, Follows
<1>8. OneToOne(m, rows, C)
  <2>1. \A r \in rows : m[r] = r.currency /\ m[r] \in C
    BY <1>6
  <2>2. \A c \in C : Group(table, period, c) \in rows /\ m[Group(table, period, c)] = c
    BY <1>1, <1>3
  <2> HIDE DEF m
  <2>3. C = {m[r] : r \in rows}
    BY <2>1, <2>2
  <2>4. \A r, s \in rows : m[r] = m[s] => r = s
    BY <1>6, <2>1
  <2> QED BY <2>3, <2>4 DEF OneToOne
<1>9. Positive(n, rows)
    BY <1>3, <1>6 DEF Positive
<1> HIDE DEF f, h, m, n
<1>10. Total(f, rows) = Total(h, C) /\ Total(f, rows) \in Int
    BY <1>4, <1>7, <1>8, Renamed
<1>11. TotalOf(Asks, rows) = Total(f, rows)
    BY <1>4, TotalOfIs DEF f
<1>12. TrueTotal(table, S) = Total(h, C)
    BY <1>2, TrueTotalIs DEF h
<1>13. CountOf(rows) = 0 <=> rows = {}
    BY <1>4, <1>9, CountIs, PositiveSum DEF n
<1>14. rows = {} <=> S = {}
    BY <1>1
<1>15. S = {} => Total(f, rows) = 0
    BY <1>14, NothingAddsUp
<1> QED BY <1>10, <1>11, <1>12, <1>13, <1>14, <1>15

LEMMA NothingCounts ==
    ASSUME NEW p
    PROVE  CountOf(Counted(p, {})) = 0
<1>1. Counted(p, {}) = {} /\ IsFiniteSet({})
    BY FS_EmptySet DEF Counted
<1> QED BY <1>1, CountIs, NothingAddsUp

-----------------------------------------------------------------------------
(* The order in which a page reads the two windows (Dashboard).             *)

QuietKinds == {"daily", "categories", "merchants", "largest"}
QuietOnes == {Statement(what, c) : what \in QuietKinds, c \in Currency \union {NoCurrency}}
Previous == Statement("previous", NoCurrency)
Current == Statement("current", NoCurrency)

\* Statements to come of which none is about the windows, or the next one is.
Quiet(todo) == todo \in Seq(QuietOnes)
AtCurrent(todo) == todo # <<>> /\ Head(todo) = Current /\ Quiet(Tail(todo))
AtPrevious(todo) == todo # <<>> /\ Head(todo) = Previous /\ AtCurrent(Tail(todo))
BeforePrevious(todo) == todo # <<>> /\ Head(todo) \in QuietOnes /\ AtPrevious(Tail(todo))

LEMMA OneMore ==
    ASSUME NEW A, NEW a \in A, NEW s \in Seq(A)
    PROVE  /\ <<a>> \o s \in Seq(A) /\ <<a>> \o s # <<>>
           /\ Head(<<a>> \o s) = a /\ Tail(<<a>> \o s) = s
<1>1. <<a>> \in Seq(A) /\ Len(<<a>>) = 1 /\ <<a>>[1] = a
    OBVIOUS
<1> PICK one : one = <<a>>
    OBVIOUS
<1> PICK t : t = one \o s
    OBVIOUS
<1>2. /\ t \in Seq(A) /\ Len(t) = 1 + Len(s) /\ Len(s) \in Nat
      /\ \A i \in 1 .. 1 + Len(s) : t[i] = IF i =< 1 THEN one[i] ELSE s[i - 1]
    BY <1>1, ConcatProperties
<1>3. t # <<>> /\ t[1] = a
    BY <1>1, <1>2
<1>4. Tail(t) \in Seq(A) /\ Len(Tail(t)) = Len(s) /\ \A i \in 1 .. Len(s) : Tail(t)[i] = t[i + 1]
    BY <1>2, <1>3, HeadTailProperties
<1>5. \A i \in 1 .. Len(s) : Tail(t)[i] = s[i]
    BY <1>2, <1>4
<1>6. Tail(t) = s
    BY <1>4, <1>5, SeqEqual
<1> QED BY <1>2, <1>3, <1>6

\* The two windows come one after the other, before what else there is.
LEMMA WindowsFirst ==
    ASSUME NEW todo, Quiet(todo)
    PROVE  AtPrevious(<<Previous, Current>> \o todo)
<1> DEFINE All == QuietOnes \union {Previous, Current}
<1>1. Previous \in All /\ Current \in All /\ todo \in Seq(All)
    BY DEF Quiet
<1>2. <<Previous>> \in Seq(All) /\ <<Current>> \in Seq(All)
    BY <1>1
<1>3. <<Previous, Current>> = <<Previous>> \o <<Current>>
  <2> PICK a \in All, b \in All : a = Previous /\ b = Current
    BY <1>1
  <2> PICK one, two, both : one = <<a>> /\ two = <<b>> /\ both = <<a, b>>
    OBVIOUS
  <2>1. /\ one \in Seq(All) /\ Len(one) = 1 /\ one[1] = a
        /\ two \in Seq(All) /\ Len(two) = 1 /\ two[1] = b
        /\ both \in Seq(All) /\ Len(both) = 2 /\ both[1] = a /\ both[2] = b
    OBVIOUS
  <2> HIDE DEF All
  <2>2. /\ one \o two \in Seq(All) /\ Len(one \o two) = 2
        /\ \A i \in 1 .. 2 : (one \o two)[i] = IF i =< 1 THEN one[i] ELSE two[i - 1]
    BY <2>1, ConcatProperties
  <2>3. (one \o two)[1] = a /\ (one \o two)[2] = b
    BY <2>1, <2>2
  <2>4. \A i \in 1 .. Len(both) : both[i] = (one \o two)[i]
    BY <2>1, <2>3
  <2> PICK joined : joined = one \o two
    OBVIOUS
  <2>5. both \in Seq(All) /\ joined \in Seq(All) /\ Len(both) = Len(joined)
    BY <2>1, <2>2
  <2>6. \A i \in 1 .. Len(both) : both[i] = joined[i]
    BY <2>4
  <2>7. both = joined
    BY <2>5, <2>6, SeqEqual
  <2> QED BY <2>7
<1> HIDE DEF All
<1>4. <<Previous, Current>> \o todo = <<Previous>> \o (<<Current>> \o todo)
    BY <1>1, <1>2, <1>3, ConcatAssociative
<1>5. /\ <<Current>> \o todo \in Seq(All) /\ <<Current>> \o todo # <<>>
      /\ Head(<<Current>> \o todo) = Current /\ Tail(<<Current>> \o todo) = todo
    BY <1>1, OneMore
<1> PICK s \in Seq(All) : s = <<Current>> \o todo
    BY <1>5
<1>6. /\ <<Previous>> \o s # <<>> /\ Head(<<Previous>> \o s) = Previous
      /\ Tail(<<Previous>> \o s) = s
    BY <1>1, OneMore
<1> QED BY <1>4, <1>5, <1>6 DEF AtPrevious, AtCurrent

LEMMA PlanStarts ==
    ASSUME NEW p, NEW selected \in Currency \union {NoCurrency}, NEW totals, NEW C,
           C = {g.currency : g \in {h \in totals : Convertible(p, h.currency)}},
           IsFiniteSet(C), C \subseteq Currency,
           NEW plan, plan = Plan(p, selected, totals)
    PROVE  IF p.windows = NoWindows \/ (selected = NoCurrency /\ ~Converted(p))
           THEN Quiet(plan)
           ELSE AtPrevious(plan) \/ BeforePrevious(plan)
<1> DEFINE three(c) == <<Statement("daily", c), Statement("categories", c),
                         Statement("merchants", c)>>
           windows == <<Previous, Current>>
           sections(c) == Comparing(p) \o three(c)
           present == SetToSeq(C)
           largest == [i \in DOMAIN present |-> Statement("largest", present[i])]
<1>1. plan = IF Converted(p) THEN sections(NoCurrency) \o largest
             ELSE IF selected = NoCurrency THEN <<>>
             ELSE <<Statement("largest", selected)>> \o sections(selected)
    BY DEF Plan
<1>2. PICK n \in Nat : present \in [1 .. n -> C]
    BY InARow
<1>3. Quiet(largest)
  <2>1. largest = [i \in 1 .. n |-> Statement("largest", present[i])]
    BY <1>2
  <2> HIDE DEF present, largest
  <2>2. \A i \in 1 .. n : present[i] \in Currency
    BY <1>2
  <2>3. \A i \in 1 .. n : Statement("largest", present[i]) \in QuietOnes
    BY <2>2 DEF QuietOnes, QuietKinds
  <2> QED BY <2>1, <2>3 DEF Quiet
<1>4. ASSUME NEW c \in Currency \union {NoCurrency} PROVE Quiet(three(c))
  <2>1. {Statement("daily", c), Statement("categories", c), Statement("merchants", c)}
            \subseteq QuietOnes
    BY DEF QuietOnes, QuietKinds
  <2> QED BY <2>1 DEF Quiet
<1>5. p.windows = NoWindows => \A c \in Currency \union {NoCurrency} : sections(c) = three(c)
    BY <1>4, ConcatEmptySeq DEF Comparing, Quiet
<1>6. p.windows # NoWindows => \A c : sections(c) = windows \o three(c)
    BY DEF Comparing, Previous, Current
<1>7. Statement("largest", selected) \in QuietOnes
    BY DEF QuietOnes, QuietKinds
<1> HIDE DEF three, sections, largest, present
<1>8. CASE Converted(p)
  <2>1. plan = sections(NoCurrency) \o largest
    BY <1>1, <1>8
  <2>2. CASE p.windows = NoWindows
    BY <1>3, <1>4, <1>5, <2>1, <2>2, ConcatProperties DEF Quiet
  <2>3. CASE p.windows # NoWindows
    <3>1. plan = (windows \o three(NoCurrency)) \o largest
      BY <1>6, <2>1, <2>3
    <3> DEFINE All == QuietOnes \union {Previous, Current}
    <3>2. windows \in Seq(All) /\ three(NoCurrency) \in Seq(All) /\ largest \in Seq(All)
      <4>1. Previous \in All /\ Current \in All
        OBVIOUS
      <4>2. windows \in Seq(All)
        BY <4>1
      <4> QED BY <1>3, <1>4, <4>2 DEF Quiet
    <3> HIDE DEF windows, All
    <3>3. plan = windows \o (three(NoCurrency) \o largest)
      BY <3>1, <3>2, ConcatAssociative
    <3>4. Quiet(three(NoCurrency) \o largest)
      BY <1>3, <1>4, ConcatProperties DEF Quiet
    <3> QED BY <1>8, <2>3, <3>3, <3>4, WindowsFirst DEF windows
  <2> QED BY <2>2, <2>3
<1>9. CASE ~Converted(p) /\ selected = NoCurrency
    BY <1>1, <1>9 DEF Quiet
<1>10. CASE ~Converted(p) /\ selected # NoCurrency
  <2> PICK s : s = sections(selected)
    OBVIOUS
  <2> PICK first \in QuietOnes : first = Statement("largest", selected)
    BY <1>7
  <2>1. plan = <<first>> \o s
    BY <1>1, <1>10
  <2>2. CASE p.windows = NoWindows
    <3>1. s \in Seq(QuietOnes)
      BY <1>4, <1>5, <2>2 DEF Quiet
    <3> QED BY <2>1, <2>2, <3>1, OneMore DEF Quiet
  <2>3. CASE p.windows # NoWindows
    <3>1. s = windows \o three(selected) /\ Quiet(three(selected))
      BY <1>4, <1>6, <2>3
    <3>2. AtPrevious(s)
      BY <3>1, WindowsFirst
    <3> DEFINE All == QuietOnes \union {Previous, Current}
    <3>3. s \in Seq(All) /\ first \in All
      <4>1. Previous \in All /\ Current \in All
        OBVIOUS
      <4>2. windows \in Seq(All) /\ three(selected) \in Seq(All)
        BY <3>1, <4>1 DEF Quiet
      <4>3. windows \o three(selected) \in Seq(All)
        BY <4>2, ConcatProperties
      <4> QED BY <3>1, <4>3
    <3> HIDE DEF All
    <3>4. <<first>> \o s # <<>> /\ Head(<<first>> \o s) = first /\ Tail(<<first>> \o s) = s
      BY <3>3, OneMore
    <3> QED BY <1>10, <2>1, <2>3, <3>2, <3>4 DEF BeforePrevious
  <2> QED BY <2>2, <2>3
<1> QED BY <1>8, <1>9, <1>10

\* No statement of the kind was made; or one was, and it saw one of the tables.
Unread(p, what) == \A r \in p.read : r.what # what
ReadAs(p, what, period, tables) ==
    \E table \in tables : RowsOf(p, what) = ByCurrency(table, period)

NothingBefore(p) == CountOf(Counted(p, RowsOf(p, "previous"))) = 0

\* How far a page has come with its two windows.
Unopened(p) == Untouched(p) /\ p.read = {}
NotComparing(p) ==
    /\ p.windows = NoWindows \/ p.selected = NoCurrency
    /\ Quiet(p.todo) /\ Unread(p, "previous") /\ Unread(p, "current")
PreviousToCome(p) ==
    /\ p.windows # NoWindows
    /\ AtPrevious(p.todo) \/ BeforePrevious(p.todo)
    /\ Unread(p, "previous") /\ Unread(p, "current")
CurrentToCome(p, tables) ==
    /\ p.windows # NoWindows
    /\ AtCurrent(p.todo)
    /\ ReadAs(p, "previous", p.windows.previous, tables) /\ Unread(p, "current")
WindowsRead(p, tables) ==
    /\ p.windows # NoWindows
    /\ Quiet(p.todo)
    /\ ReadAs(p, "previous", p.windows.previous, tables)
    /\ NothingBefore(p) \/ ReadAs(p, "current", p.windows.current, tables)

Ordered(p, tables) ==
    \/ Unopened(p) \/ NotComparing(p) \/ PreviousToCome(p)
    \/ CurrentToCome(p, tables) \/ WindowsRead(p, tables)

\* More commits: what was read is still from one of the tables.
LEMMA StillOrdered ==
    ASSUME NEW p, NEW tables, NEW more, tables \subseteq more, Ordered(p, tables)
    PROVE  Ordered(p, more)
BY DEF Ordered, CurrentToCome, WindowsRead, ReadAs

\* The rest of a row of statements none of which is about the windows.
LEMMA QuietGoesOn ==
    ASSUME NEW todo, todo # <<>>, Quiet(todo)
    PROVE  Head(todo) \in QuietOnes /\ Quiet(Tail(todo))
BY HeadTailProperties DEF Quiet

LEMMA QuietIsQuiet ==
    ASSUME NEW s \in QuietOnes
    PROVE  s.what \in QuietKinds /\ s.what \notin {"currencies", "previous", "current"}
BY DEF QuietOnes, QuietKinds, Statement

\* A page after one more statement.
Extended(p, q, what, rows) ==
    /\ \E r : r.what = what /\ r.rows = rows /\ q.read = p.read \union {r}
    /\ q.windows = p.windows /\ q.selected = p.selected /\ q.rates = p.rates
    /\ q.default = p.default

LEMMA RowsAfter ==
    ASSUME NEW p, NEW q, NEW what, NEW rows, Extended(p, q, what, rows)
    PROVE  /\ \A other : other # what => RowsOf(q, other) = RowsOf(p, other)
                             /\ (Unread(p, other) => Unread(q, other))
           /\ Unread(p, what) => RowsOf(q, what) = rows
           /\ \A S : Counted(q, S) = Counted(p, S)
<1>1. PICK r : r.what = what /\ r.rows = rows /\ q.read = p.read \union {r}
    BY DEF Extended
<1>2. ASSUME NEW other, other # what
      PROVE  RowsOf(q, other) = RowsOf(p, other) /\ (Unread(p, other) => Unread(q, other))
  <2>1. {s \in q.read : s.what = other} = {s \in p.read : s.what = other}
    BY <1>1, <1>2
  <2> QED BY <1>1, <1>2, <2>1 DEF RowsOf, Unread
<1>3. ASSUME Unread(p, what) PROVE RowsOf(q, what) = rows
  <2>1. {s \in q.read : s.what = what} = {r}
    BY <1>1, <1>3 DEF Unread
  <2>2. RowsOf(q, what) = UNION {s.rows : s \in {r}}
    BY <2>1 DEF RowsOf
  <2> QED BY <1>1, <2>2
<1>4. ASSUME NEW S PROVE Counted(q, S) = Counted(p, S)
  <2>1. Converted(q) = Converted(p) /\ q.selected = p.selected
    BY DEF Extended, Converted
  <2>2. \A c : Convertible(q, c) = Convertible(p, c)
    BY DEF Extended, Convertible, Converted, CanConvert, HasRate
  <2> QED BY <2>1, <2>2 DEF Counted
<1> QED BY <1>2, <1>3, <1>4

LEMMA ResolvedIsTyped ==
    ASSUME NEW p, PageTyped(p), NEW present, present \subseteq Currency
    PROVE  /\ Resolved(p, present) \in Currency \union {NoCurrency}
           /\ Converted(p) => Resolved(p, present) # NoCurrency
<1>1. /\ p.default \in Currency \union {NoCurrency} /\ p.requested \in Currency \union {NoCurrency}
      /\ Converted(p) => p.default \in Currency
    BY DEF PageTyped
<1>2. Cardinality(present) = 1 => (CHOOSE c \in present : TRUE) \in Currency
  <2>1. Cardinality(present) = 1 => present # {}
    BY FS_EmptySet
  <2> QED BY <2>1
<1>3. CASE Converted(p)
    BY <1>1, <1>3, DashboardAssumption DEF Resolved
<1>4. CASE ~Converted(p) /\ p.requested # NoCurrency
    BY <1>1, <1>4 DEF Resolved
<1>5. CASE ~Converted(p) /\ p.requested = NoCurrency
    BY <1>1, <1>2, <1>5 DEF Resolved
<1> QED BY <1>3, <1>4, <1>5

LEMMA ReadOrders ==
    ASSUME PageShape(page), PageTyped(page), Ordered(page, seen), Read,
           expenses \in seen, expenses \in Tables
    PROVE  PageTyped(page)' /\ Ordered(page', seen)
<1> DEFINE next == Head(page.todo)
           rows == Answer(next)
           present == {g.currency : g \in rows}
           selected == IF next.what = "currencies" THEN Resolved(page, present)
                       ELSE page.selected
           record == [what |-> next.what, currency |-> next.currency, rows |-> rows]
           todo == CASE next.what = "currencies" -> Plan(page, selected, rows)
                     [] next.what = "previous" -> AfterPrevious(page.todo, page, rows)
                     [] OTHER -> Tail(page.todo)
<1>1. page.todo # <<>> /\ page' = [page EXCEPT !.read = @ \union {record},
                                              !.selected = selected, !.todo = todo]
    BY DEF Read
<1> HIDE DEF rows, record, selected, todo
<1> PICK q : q = page'
    OBVIOUS
<1>2. /\ q.requested = page.requested /\ q.default = page.default /\ q.today = page.today
      /\ q.period = page.period /\ q.windows = page.windows /\ q.rates = page.rates
      /\ q.selected = selected /\ q.todo = todo /\ q.read = page.read \union {record}
    BY <1>1 DEF PageShape
<1>3. record.what = next.what /\ record.rows = rows
    BY DEF record
<1>4. selected \in Currency \union {NoCurrency} => PageTyped(q)
    BY <1>2 DEF PageTyped, Converted
<1>5. Converted(q) = Converted(page)
    BY <1>2 DEF Converted
<1> HIDE DEF next
<1>6. CASE Unopened(page)
  <2>1. next = Statement("currencies", NoCurrency) /\ page.read = {}
    BY <1>6 DEF Unopened, Untouched, next
  <2>2. next.what = "currencies" /\ next.currency = NoCurrency
    BY <2>1 DEF Statement
  <2> PICK period : period = page.period
    OBVIOUS
  <2>3. \A g \in rows : \E e \in ActiveIn(expenses, period, NoCurrency) :
            g.currency = expenses[e].currency
    BY <2>2, AnswerTells DEF rows
  <2>4. present \subseteq Currency
    BY <2>3, ExpensesAreEntries
  <2> DEFINE C == {g.currency : g \in {h \in rows : Convertible(page, h.currency)}}
  <2>5. C \subseteq Currency /\ IsFiniteSet(C)
    <3>1. \A c \in C : \E e \in ActiveIn(expenses, period, NoCurrency) : c = expenses[e].currency
      BY <2>3
    <3>2. ActiveIn(expenses, period, NoCurrency) \in SUBSET Expense
      BY DEF ActiveIn
    <3> HIDE DEF C
    <3>3. IsFiniteSet(C)
      BY <3>1, <3>2, FewCurrencies
    <3> QED BY <2>4, <3>3 DEF C
  <2>6. selected = Resolved(page, present) /\ todo = Plan(page, selected, rows)
    BY <2>2 DEF selected, todo
  <2> HIDE DEF present
  <2>7. selected \in Currency \union {NoCurrency} /\ (Converted(page) => selected # NoCurrency)
    BY <2>4, <2>6, ResolvedIsTyped
  <2>8. IF page.windows = NoWindows \/ (selected = NoCurrency /\ ~Converted(page))
        THEN Quiet(todo)
        ELSE AtPrevious(todo) \/ BeforePrevious(todo)
    BY <2>5, <2>6, <2>7, PlanStarts
  <2>9. Unread(q, "previous") /\ Unread(q, "current")
    BY <1>2, <1>3, <2>1, <2>2 DEF Unread
  <2>10. NotComparing(q) \/ PreviousToCome(q)
    BY <1>2, <2>7, <2>8, <2>9 DEF NotComparing, PreviousToCome
  <2> QED BY <1>4, <2>7, <2>10 DEF Ordered
<1> SUFFICES ASSUME ~Unopened(page) PROVE PageTyped(q) /\ Ordered(q, seen)
    BY <1>6
<1>7. ASSUME next.what # "currencies"
      PROVE  /\ selected = page.selected /\ PageTyped(q)
             /\ Extended(page, q, next.what, rows)
  <2>1. selected = page.selected
    BY <1>7 DEF selected
  <2>2. PageTyped(q)
    BY <1>4, <2>1 DEF PageTyped
  <2>3. Extended(page, q, next.what, rows)
    BY <1>2, <1>3, <2>1 DEF Extended
  <2> QED BY <2>1, <2>2, <2>3
<1>8. ASSUME next \in QuietOnes
      PROVE  /\ PageTyped(q) /\ q.selected = page.selected
             /\ todo = Tail(page.todo)
             /\ \A other \in {"previous", "current"} :
                    RowsOf(q, other) = RowsOf(page, other)
                    /\ (Unread(page, other) => Unread(q, other))
             /\ \A S : Counted(q, S) = Counted(page, S)
  <2>1. next.what \notin {"currencies", "previous", "current"}
    BY <1>8, QuietIsQuiet
  <2>2. todo = Tail(page.todo)
    BY <2>1 DEF todo
  <2>3. Extended(page, q, next.what, rows) /\ PageTyped(q) /\ q.selected = page.selected
    BY <1>2, <1>7, <2>1
  <2> PICK what : what = next.what
    OBVIOUS
  <2>4. what # "previous" /\ what # "current" /\ Extended(page, q, what, rows)
    BY <2>1, <2>3
  <2> QED BY <2>2, <2>3, <2>4, RowsAfter
<1>9. CASE NotComparing(page)
  <2>1. next \in QuietOnes /\ Quiet(Tail(page.todo))
    BY <1>1, <1>9, QuietGoesOn DEF NotComparing, next
  <2>2. NotComparing(q)
    BY <1>2, <1>8, <1>9, <2>1 DEF NotComparing
  <2> QED BY <1>8, <2>1, <2>2 DEF Ordered
<1>10. CASE PreviousToCome(page) /\ BeforePrevious(page.todo)
  <2>1. next \in QuietOnes /\ AtPrevious(Tail(page.todo))
    BY <1>10 DEF BeforePrevious, next
  <2>2. PreviousToCome(q)
    BY <1>2, <1>8, <1>10, <2>1 DEF PreviousToCome
  <2> QED BY <1>8, <2>1, <2>2 DEF Ordered
<1>11. CASE PreviousToCome(page) /\ AtPrevious(page.todo)
  <2>1. next = Previous /\ AtCurrent(Tail(page.todo))
    BY <1>11 DEF AtPrevious, next
  <2>2. next.what = "previous" /\ next.currency = NoCurrency
    BY <2>1 DEF Previous, Statement
  <2>3. rows = ByCurrency(expenses, page.windows.previous)
    BY <2>2, AnswerIs DEF rows
  <2>4. Extended(page, q, "previous", rows) /\ PageTyped(q)
    BY <1>7, <2>2
  <2>5. /\ RowsOf(q, "previous") = rows /\ Unread(q, "current")
        /\ Counted(q, rows) = Counted(page, rows)
    <3>1. Unread(page, "previous") /\ Unread(page, "current")
      BY <1>11 DEF PreviousToCome
    <3> QED BY <2>4, <3>1, RowsAfter
  <2>6. ReadAs(q, "previous", q.windows.previous, seen)
    BY <1>2, <2>3, <2>5 DEF ReadAs
  <2>7. todo = AfterPrevious(page.todo, page, rows)
    BY <2>2 DEF todo
  <2>8. CASE CountOf(Counted(page, rows)) = 0
    <3>1. todo = Tail(Tail(page.todo))
      BY <2>7, <2>8 DEF AfterPrevious
    <3>2. Quiet(todo)
      BY <2>1, <3>1 DEF AtCurrent
    <3>3. NothingBefore(q)
      BY <2>5, <2>8 DEF NothingBefore
    <3>4. WindowsRead(q, seen)
      BY <1>2, <1>11, <2>6, <3>2, <3>3 DEF WindowsRead, PreviousToCome
    <3> QED BY <2>4, <3>4 DEF Ordered
  <2>9. CASE CountOf(Counted(page, rows)) # 0
    <3>1. todo = Tail(page.todo)
      BY <2>7, <2>9 DEF AfterPrevious
    <3>2. CurrentToCome(q, seen)
      BY <1>2, <1>11, <2>1, <2>5, <2>6, <3>1 DEF CurrentToCome, PreviousToCome
    <3> QED BY <2>4, <3>2 DEF Ordered
  <2> QED BY <2>8, <2>9
<1>12. CASE CurrentToCome(page, seen)
  <2>1. next = Current /\ Quiet(Tail(page.todo))
    BY <1>12 DEF CurrentToCome, AtCurrent, next
  <2>2. next.what = "current" /\ next.currency = NoCurrency
    BY <2>1 DEF Current, Statement
  <2>3. rows = ByCurrency(expenses, page.windows.current)
    BY <2>2, AnswerIs DEF rows
  <2>4. Extended(page, q, "current", rows) /\ PageTyped(q)
    BY <1>7, <2>2
  <2>5. RowsOf(q, "current") = rows /\ RowsOf(q, "previous") = RowsOf(page, "previous")
    <3>1. Unread(page, "current")
      BY <1>12 DEF CurrentToCome
    <3> QED BY <2>4, <3>1, RowsAfter
  <2>6. /\ ReadAs(q, "current", q.windows.current, seen)
        /\ ReadAs(q, "previous", q.windows.previous, seen)
    BY <1>2, <1>12, <2>3, <2>5 DEF ReadAs, CurrentToCome
  <2>7. todo = Tail(page.todo)
    BY <2>2 DEF todo
  <2>8. WindowsRead(q, seen)
    BY <1>2, <1>12, <2>1, <2>6, <2>7 DEF WindowsRead, CurrentToCome
  <2> QED BY <2>4, <2>8 DEF Ordered
<1>13. CASE WindowsRead(page, seen)
  <2>1. next \in QuietOnes /\ Quiet(Tail(page.todo))
    BY <1>1, <1>13, QuietGoesOn DEF WindowsRead, next
  <2>2. /\ todo = Tail(page.todo) /\ PageTyped(q)
        /\ RowsOf(q, "previous") = RowsOf(page, "previous")
        /\ RowsOf(q, "current") = RowsOf(page, "current")
        /\ Counted(q, RowsOf(page, "previous")) = Counted(page, RowsOf(page, "previous"))
    BY <1>8, <2>1
  <2>3. WindowsRead(q, seen)
    BY <1>2, <1>13, <2>1, <2>2 DEF WindowsRead, ReadAs, NothingBefore
  <2> QED BY <2>2, <2>3 DEF Ordered
<1> QED BY <1>9, <1>10, <1>11, <1>12, <1>13 DEF Ordered, PreviousToCome

\* What holds of a page under way, and of one that was answered.
WindowsInOrder ==
    /\ expenses \in Tables /\ seen \subseteq Tables
    /\ page.stage = "reading" => PageTyped(page) /\ Ordered(page, seen)
    /\ page.stage = "done" =>
           /\ PageTyped(page.request) /\ Ordered(page.request, seen)
           /\ page.request.todo = <<>>
           /\ page.detail = IF page.request.selected = NoCurrency THEN NoConversion
                            ELSE Detail(page.request)

LEMMA OpenOrders ==
    ASSUME RatesSound, WindowsInOrder, NEW client,
           NEW asked, NEW currency \in Chosen \union {NoCurrency},
           NEW default \in Chosen \union {NoCurrency}, NEW today \in Todays,
           Open(client, asked, currency, default, today)
    PROVE  WindowsInOrder'
<1> DEFINE period == IF asked = NoPeriod THEN DefaultPeriod(today) ELSE asked
           available == client = Web /\ default # NoCurrency /\ DOMAIN Latest # {}
                            /\ HasRate(Latest, default)
           rates == IF available /\ currency = NoCurrency THEN Latest ELSE NoConversion
<1>1. /\ period \in DashboardPeriod
      /\ page' = [stage |-> "reading", client |-> client, requested |-> currency,
                  default |-> default, today |-> today, period |-> period,
                  windows |-> ComparisonWindows(period, today), main |-> available,
                  rates |-> rates, selected |-> NoCurrency,
                  todo |-> <<Statement("currencies", NoCurrency)>>, read |-> {}]
      /\ seen' = {expenses} /\ expenses' = expenses
    BY DEF Open
<1>2. rates # NoConversion =>
          rates \in Published /\ default \in Currency /\ HasRate(rates, default)
  <2>1. Latest \in Published
    <3> DEFINE S == {d \in Currency : exchange_rates[d] # NoRate}
    <3>1. \A c \in S : exchange_rates[c] \in Rate
      BY CatalogueAssumption DEF RatesSound
    <3>2. Latest \in [S -> Rate] /\ S \in SUBSET Currency
      BY <3>1 DEF Latest
    <3> HIDE DEF S
    <3> QED BY <3>2 DEF Published
  <2>2. default # NoCurrency => default \in Currency
    BY DashboardAssumption
  <2> QED BY <2>1, <2>2
<1> HIDE DEF period, available, rates
<1> PICK q : q = page'
    OBVIOUS
<1>3. /\ q.stage = "reading" /\ q.requested = currency /\ q.default = default
      /\ q.today = today /\ q.period = period /\ q.windows = ComparisonWindows(period, today)
      /\ q.rates = rates /\ q.selected = NoCurrency
      /\ q.todo = <<Statement("currencies", NoCurrency)>> /\ q.read = {}
    BY <1>1
<1>4. PageTyped(q)
  <2>1. {currency, default, NoCurrency} \subseteq Currency \union {NoCurrency}
    BY DashboardAssumption
  <2> QED BY <1>1, <1>2, <1>3, <2>1 DEF PageTyped, Converted
<1>5. Ordered(q, seen')
    BY <1>3 DEF Ordered, Unopened, Untouched
<1> QED BY <1>1, <1>3, <1>4, <1>5 DEF WindowsInOrder, PageTyped, Converted

LEMMA RespondOrders ==
    ASSUME PageSound, WindowsInOrder, Respond
    PROVE  WindowsInOrder'
<1> DEFINE detail == IF page.selected = NoCurrency THEN NoConversion ELSE Detail(page)
           rates == IF Converted(page) THEN UsedRates(page) ELSE {}
           unconverted == {g \in RowsOf(page, "currencies") : ~Convertible(page, g.currency)}
<1>1. /\ page.stage = "reading" /\ page.todo = <<>> /\ PageShape(page)
      /\ PageTyped(page) /\ Ordered(page, seen)
      /\ expenses' = expenses /\ seen' = seen
    BY DEF Respond, PageSound, ReadingIsHonest, WindowsInOrder
<1>2. CASE page' = [page EXCEPT !.stage = "failed"]
  <2>1. page'.stage = "failed"
    BY <1>1, <1>2 DEF PageShape
  <2> QED BY <1>1, <2>1 DEF WindowsInOrder
<1>3. CASE page' = [stage |-> "done", request |-> page, detail |-> detail, rates |-> rates,
                    unconverted |-> unconverted]
  <2> HIDE DEF detail, rates, unconverted
  <2> PICK q : q = page'
    OBVIOUS
  <2>1. q.stage = "done" /\ q.request = page /\ q.detail = detail
    BY <1>3
  <2> QED BY <1>1, <2>1 DEF WindowsInOrder, detail
<1> QED BY <1>2, <1>3 DEF Respond

LEMMA WindowsStepKeeps ==
    ASSUME RatesSound, PageSound, WindowsInOrder, [DashboardNext]_dashboardVars
    PROVE  WindowsInOrder'
<1>1. CASE \E client \in {Web, Api}, currency, default \in Chosen \union {NoCurrency},
              today \in Todays :
               \E asked \in {NoPeriod} \union Asked \union Presets(today) :
                   Open(client, asked, currency, default, today)
    BY <1>1, OpenOrders
<1>2. CASE Read
  <2>1. /\ page.stage = "reading" /\ PageShape(page) /\ PageTyped(page) /\ Ordered(page, seen)
        /\ expenses \in seen /\ expenses \in Tables /\ expenses' = expenses /\ seen' = seen
    BY <1>2 DEF Read, PageSound, ReadingIsHonest, WindowsInOrder
  <2>2. PageTyped(page)' /\ Ordered(page', seen)
    BY <1>2, <2>1, ReadOrders
  <2>3. page'.stage = "reading"
    BY <1>2, <2>1 DEF Read, PageShape
  <2> QED BY <2>1, <2>2, <2>3 DEF WindowsInOrder
<1>3. CASE Respond
    BY <1>3, RespondOrders
<1>4. CASE Delivered
  <2>1. page' = NoPage /\ expenses' \in Tables /\ seen' \subseteq Tables
    BY <1>4 DEF Delivered, WindowsInOrder
  <2>2. page'.stage = "none"
    BY <2>1 DEF NoPage
  <2> QED BY <2>1, <2>2 DEF WindowsInOrder
<1>5. CASE \/ \E table \in Tables : Commit(table)
           \/ RatesNext /\ UNCHANGED <<expenses, page, seen>>
           \/ UNCHANGED dashboardVars
  <2>1. page' = page /\ seen \subseteq seen' /\ seen' \subseteq Tables /\ expenses' \in Tables
    BY <1>5 DEF Commit, dashboardVars, WindowsInOrder
  <2>2. \A p : Ordered(p, seen) => Ordered(p, seen')
    BY <2>1, StillOrdered
  <2> QED BY <2>1, <2>2 DEF WindowsInOrder
<1> QED BY <1>1, <1>2, <1>3, <1>4, <1>5 DEF DashboardNext

LEMMA WindowsInvariance == DashboardSpec => []WindowsInOrder
<1>1. DashboardInit => WindowsInOrder
    BY DEF DashboardInit, WindowsInOrder, NoPage
<1>2. RatesSound /\ PageSound /\ WindowsInOrder /\ [DashboardNext]_dashboardVars
          => WindowsInOrder'
    BY WindowsStepKeeps
<1> QED BY <1>1, <1>2, RatesInvariance, PageInvariance, PTL DEF DashboardSpec

\* What a grouping of a window that was read gives, and what it was read from.
LEMMA WindowIsTrue ==
    ASSUME PageTyped(Asks), seen \subseteq Tables, NEW what, NEW period,
           ReadAs(Asks, what, period, seen), NEW rows,
           rows = Counted(Asks, RowsOf(Asks, what))
    PROVE  /\ TotalOf(Asks, rows) \in Int
           /\ CountOf(rows) = 0 =>
                  TotalOf(Asks, rows) = 0 /\ \E table \in seen : Countable(table, period) = {}
           /\ CountOf(rows) # 0 => TrueIn(TotalOf(Asks, rows), period)
<1>1. PICK table \in seen : RowsOf(Asks, what) = ByCurrency(table, period)
    BY DEF ReadAs
<1> PICK S : S = Countable(table, period)
    OBVIOUS
<1>2. table \in Tables /\ rows = Counted(Asks, ByCurrency(table, period))
    BY <1>1
<1>3. /\ TotalOf(Asks, rows) = TrueTotal(table, S) /\ TotalOf(Asks, rows) \in Int
      /\ CountOf(rows) = 0 <=> S = {}
      /\ S = {} => TotalOf(Asks, rows) = 0
    BY <1>2, RowsAddUp
<1> QED BY <1>3 DEF TrueIn

\* However the commits fall between the statements: the windows of a comparison are
\* fair, and its totals are what the Expenses of each window came to, added up and
\* rounded, at some moment of the request.
THEOREM ComparisonsAreFair == DashboardSpec => []ComparisonIsFair
<1>1. ASSUME WindowsInOrder, Shown PROVE ComparisonIsFair
  <2> PICK p : p = Asks
    OBVIOUS
  <2>1. /\ PageTyped(p) /\ Ordered(p, seen) /\ p.todo = <<>> /\ seen \subseteq Tables
        /\ p.selected # NoCurrency /\ page.detail = Detail(p)
    BY <1>1 DEF WindowsInOrder, Shown, Asks
  <2> DEFINE w == p.windows
             before == Counted(p, RowsOf(p, "previous"))
             after == Counted(p, RowsOf(p, "current"))
             was == TotalOf(p, before)
             is == TotalOf(p, after)
             shown == page.detail.comparison
  <2>2. shown = Comparison(p)
    BY <2>1 DEF Detail
  <2>3. shown = IF CountOf(before) = 0 THEN NoComparison
                ELSE [previous |-> was, change |-> is - was,
                      share |-> IF was > 0 THEN Share(is - was, was) ELSE NoShare]
    BY <2>2 DEF Comparison
  <2>4. CASE w = NoWindows
    <3>1. NotComparing(p)
      BY <2>1, <2>4 DEF Ordered, Unopened, Untouched, PreviousToCome, CurrentToCome, WindowsRead
    <3>2. RowsOf(p, "previous") = {}
      BY <3>1 DEF NotComparing, Unread, RowsOf
    <3>3. CountOf(before) = 0
      BY <3>2, NothingCounts
    <3> QED BY <2>3, <2>4, <3>3 DEF ComparisonIsFair
  <2>5. CASE w # NoWindows
    <3>1. WindowsRead(p, seen)
      BY <2>1, <2>5 DEF Ordered, Unopened, Untouched, NotComparing, PreviousToCome, CurrentToCome,
                        AtPrevious, BeforePrevious, AtCurrent
    <3> HIDE DEF before, after, was, is
    <3> PICK previous : previous = w.previous
      OBVIOUS
    <3> PICK current : current = w.current
      OBVIOUS
    <3>2. /\ was \in Int
          /\ CountOf(before) = 0 => \E table \in seen : Countable(table, previous) = {}
          /\ CountOf(before) # 0 => TrueIn(was, previous)
      <4>1. ReadAs(p, "previous", previous, seen)
        BY <3>1 DEF WindowsRead
      <4> QED BY <2>1, <4>1, WindowIsTrue DEF before, was
    <3>3. CASE CountOf(before) = 0
      <4>1. shown = NoComparison
        BY <2>3, <3>3
      <4> QED BY <3>2, <3>3, <4>1 DEF ComparisonIsFair
    <3>4. CASE CountOf(before) # 0
      <4>1. shown # NoComparison /\ shown.previous = was /\ shown.change = is - was
        BY <2>3, <3>4 DEF NoComparison
      <4>2. /\ is \in Int
            /\ CountOf(after) = 0 => is = 0 /\ \E table \in seen : Countable(table, current) = {}
            /\ CountOf(after) # 0 => TrueIn(is, current)
        <5>1. ReadAs(p, "current", current, seen)
          BY <3>1, <3>4 DEF WindowsRead, NothingBefore, before
        <5> QED BY <2>1, <5>1, WindowIsTrue DEF after, is
      <4>3. TrueIn(shown.previous, previous)
        BY <3>2, <3>4, <4>1
      <4>4. \/ TrueIn(shown.previous + shown.change, current)
            \/ /\ shown.change = -shown.previous
               /\ \E table \in seen : Countable(table, current) = {}
        <5>1. CASE CountOf(after) = 0
          BY <3>2, <4>1, <4>2, <5>1
        <5>2. CASE CountOf(after) # 0
          <6>1. was + (is - was) = is
            BY <3>2, <4>2
          <6> QED BY <4>1, <4>2, <5>2, <6>1
        <5> QED BY <5>1, <5>2
      <4>5. /\ current.date_from = p.period.date_from
            /\ current.date_to =< p.period.date_to /\ current.date_to =< p.today
            /\ FirstDay =< previous.date_from
            /\ previous.date_to < current.date_from
            /\ \/ DaysOf(previous) = DaysOf(current)
               \/ /\ DaysOf(previous) < DaysOf(current)
                  /\ previous = DefaultPeriod(previous.date_to)
        <5>1. /\ p.period \in DashboardPeriod /\ p.today \in Day
              /\ w = ComparisonWindows(p.period, p.today)
          BY <2>1, DashboardAssumption DEF PageTyped
        <5> QED BY <2>5, <5>1, PreviousIsComparable
      <4> QED BY <4>1, <4>3, <4>4, <4>5 DEF ComparisonIsFair
    <3> QED BY <3>3, <3>4
  <2> QED BY <2>4, <2>5
<1>2. WindowsInOrder => ComparisonIsFair
    BY <1>1 DEF ComparisonIsFair
<1> QED BY <1>2, WindowsInvariance, PTL

-----------------------------------------------------------------------------
(* Orders and rounding (Dashboard).                                         *)

LEMMA Times ==
    ASSUME NEW a \in Nat, NEW b \in Nat, NEW k \in Nat, a =< b
    PROVE  a * k \in Nat /\ b * k \in Nat /\ a * k =< b * k
<1>1. PICK d \in Nat : b = a + d
    OBVIOUS
<1>2. (a + d) * k = a * k + d * k
    OBVIOUS
<1>3. a * k \in Nat /\ d * k \in Nat
    BY Product
<1>4. b * k = a * k + d * k
    BY <1>1, <1>2
<1> QED BY <1>3, <1>4

LEMMA Division ==
    ASSUME NEW n \in Nat, NEW d \in Nat \ {0}
    PROVE  /\ n \div d \in Nat /\ n % d \in Nat /\ n % d < d
           /\ n = (n \div d) * d + (n % d)
OBVIOUS

LEMMA QuotientsKeepOrder ==
    ASSUME NEW m \in Nat, NEW n \in Nat, m =< n, NEW d \in Nat \ {0}
    PROVE  m \div d =< n \div d
<1> PICK p \in Nat, q \in Nat : p = m \div d /\ q = n \div d
    BY Division
<1>1. SUFFICES ASSUME ~(p =< q) PROVE FALSE
    OBVIOUS
<1>2. (q + 1) * d =< p * d /\ p * d \in Nat /\ (q + 1) * d \in Nat /\ q * d \in Nat
    BY <1>1, Times
<1>3. (q + 1) * d = q * d + d
    OBVIOUS
<1>4. PICK r \in Nat, s \in Nat : m = p * d + r /\ n = q * d + s /\ s < d
    BY Division
<1> QED BY <1>2, <1>3, <1>4

\* A larger amount is not rounded to a smaller one.
LEMMA RoundingKeepsOrder ==
    ASSUME NEW m \in Nat, NEW n \in Nat, m =< n, NEW d \in Nat \ {0}
    PROVE  RoundHalfEven(m, d) =< RoundHalfEven(n, d)
<1> PICK p \in Nat, q \in Nat, r \in Nat, s \in Nat :
        p = m \div d /\ q = n \div d /\ r = m % d /\ s = n % d
    BY Division
<1>1. p =< q
    BY QuotientsKeepOrder
<1>2. /\ RoundHalfEven(m, d) = IF 2 * r < d \/ (2 * r = d /\ p % 2 = 0) THEN p ELSE p + 1
      /\ RoundHalfEven(n, d) = IF 2 * s < d \/ (2 * s = d /\ q % 2 = 0) THEN q ELSE q + 1
    BY DEF RoundHalfEven
<1>3. CASE p < q
  <2>1. RoundHalfEven(m, d) =< p + 1 /\ q =< RoundHalfEven(n, d)
    BY <1>2
  <2>2. RoundHalfEven(m, d) \in Int /\ RoundHalfEven(n, d) \in Int
    BY <1>2
  <2> QED BY <1>3, <2>1, <2>2
<1>4. CASE p = q
  <2>1. m = p * d + r /\ n = p * d + s /\ p * d \in Nat
    BY <1>4, Division, Product
  <2>2. r =< s
    BY <2>1
  <2> QED BY <1>2, <1>4, <2>2
<1> QED BY <1>1, <1>3, <1>4

LEMMA ConversionKeepsOrder ==
    ASSUME NEW p, PageTyped(p), NEW c \in Currency, Converted(p) => Convertible(p, c),
           NEW a \in Nat, NEW b \in Nat, a =< b
    PROVE  InTarget(p, a, c) =< InTarget(p, b, c)
<1>1. CASE ~Converted(p) \/ c = p.default
    BY <1>1 DEF InTarget, Convert
<1>2. CASE Converted(p) /\ c # p.default
  <2> DEFINE from == UnitsPerEur(p.rates, c)
             to == UnitsPerEur(p.rates, p.default)
             scale == Scale[p.default]
             d == Scale[c] * from
  <2>1. /\ p.rates \in Published /\ p.default \in Currency /\ HasRate(p.rates, p.default)
        /\ HasRate(p.rates, c)
    BY <1>2 DEF PageTyped, Convertible, CanConvert
  <2>2. from \in Nat \ {0} /\ to \in Nat \ {0} /\ Scale[c] \in Nat \ {0} /\ scale \in Nat \ {0}
    BY <2>1, UnitsArePositive
  <2>3. /\ InTarget(p, a, c) = RoundHalfEven(a * scale * to, d)
        /\ InTarget(p, b, c) = RoundHalfEven(b * scale * to, d)
    BY <1>2 DEF InTarget, Convert
  <2> HIDE DEF from, to, scale
  <2>4. d \in Nat \ {0}
    BY <2>2, Product
  <2> HIDE DEF d
  <2>5. a * scale \in Nat /\ b * scale \in Nat /\ a * scale =< b * scale
    BY <2>2, Times
  <2>6. a * scale * to \in Nat /\ b * scale * to \in Nat /\ a * scale * to =< b * scale * to
    BY <2>2, <2>5, Times
  <2> QED BY <2>3, <2>4, <2>6, RoundingKeepsOrder
<1> QED BY <1>1, <1>2

\* Candidates for the largest expense: each Expense once.
Comparable(S) ==
    /\ IsFiniteSet(S)
    /\ \A a \in S : a.row.amount \in Int /\ a.row.date \in Int /\ a.id \in Int
    /\ \A a, b \in S : a.id = b.id => a = b

LEMMA FirstIsLargest ==
    ASSUME NEW S, Comparable(S), S # {}
    PROVE  \E a \in First(S) : \A b \in S : b.row.amount =< a.row.amount
<1> DEFINE Over(a) == {b \in S : Exceeds(b, a)}
           N == {Cardinality(Over(a)) : a \in S}
<1>1. ASSUME NEW a \in S
      PROVE  IsFiniteSet(Over(a)) /\ Cardinality(Over(a)) \in Nat
  <2>1. Over(a) \in SUBSET S
    OBVIOUS
  <2> QED BY <2>1, FS_Subset, FS_CardinalityType DEF Comparable
<1>2. N \in SUBSET Nat /\ N # {}
    BY <1>1
<1>3. PICK n \in N : \A m \in N : n =< m
    BY <1>2, LeastNumber
<1>4. PICK a \in S : Cardinality(Over(a)) = n
    OBVIOUS
<1>5. Over(a) = {}
  <2>1. SUFFICES ASSUME NEW b \in Over(a) PROVE FALSE
    OBVIOUS
  <2>2. b \in S /\ Exceeds(b, a)
    OBVIOUS
  <2>3. Over(b) \subseteq Over(a) /\ b \notin Over(b)
    BY <2>2 DEF Comparable, Exceeds
  <2>4. Cardinality(Over(b)) =< Cardinality(Over(a)) /\ Cardinality(Over(b)) # Cardinality(Over(a))
    <3> PICK A, B : A = Over(a) /\ B = Over(b)
      OBVIOUS
    <3>1. IsFiniteSet(A) /\ B \in SUBSET A /\ A # B
      BY <1>1, <2>3
    <3> QED BY <3>1, FS_Subset
  <2>5. n =< Cardinality(Over(b))
    BY <1>3, <2>2
  <2>6. Cardinality(Over(a)) \in Nat /\ Cardinality(Over(b)) \in Nat
    BY <1>1, <2>2
  <2> HIDE DEF Over
  <2> QED BY <1>4, <2>4, <2>5, <2>6
<1>6. \A b \in S \ {a} : Exceeds(a, b)
    BY <1>5 DEF Comparable, Exceeds
<1>7. \A b \in S : b.row.amount =< a.row.amount
    BY <1>6 DEF Comparable, Exceeds
<1> QED BY <1>6, <1>7 DEF First

\* Groups that a ranking tells apart.
Rankable(S) ==
    /\ IsFiniteSet(S)
    /\ \A a \in S : a.total \in Int /\ a.key \in Int
    /\ \A a, b \in S : a.key = b.key => a = b

RankIn(S, g) == Cardinality({h \in S : Precedes(h, g)}) + 1

LEMMA RanksOfGroups ==
    ASSUME NEW S, Rankable(S)
    PROVE  /\ Cardinality(S) \in Nat
           /\ \A g \in S : RankIn(S, g) \in 1 .. Cardinality(S)
           /\ \A g, h \in S : RankIn(S, g) < RankIn(S, h) <=> Precedes(g, h)
           /\ \A n \in 1 .. Cardinality(S) : \E g \in S : RankIn(S, g) = n
<1> DEFINE Over(g) == {h \in S : Precedes(h, g)}
           N == Cardinality(S)
           f == [g \in S |-> RankIn(S, g)]
<1>1. IsFiniteSet(S) /\ N \in Nat
    BY FS_CardinalityType DEF Rankable
<1>2. ASSUME NEW g \in S
      PROVE  /\ RankIn(S, g) = Cardinality(Over(g)) + 1
             /\ IsFiniteSet(Over(g)) /\ Cardinality(Over(g)) \in Nat
             /\ RankIn(S, g) \in 1 .. N
  <2>1. RankIn(S, g) = Cardinality(Over(g)) + 1
    BY DEF RankIn
  <2>2. Over(g) \in SUBSET (S \ {g})
    BY DEF Rankable, Precedes
  <2>3. IsFiniteSet(S \ {g}) /\ Cardinality(S \ {g}) = N - 1
    BY <1>1, FS_RemoveElement
  <2> HIDE DEF Over
  <2>4. IsFiniteSet(Over(g)) /\ Cardinality(Over(g)) =< N - 1 /\ Cardinality(Over(g)) \in Nat
    BY <2>2, <2>3, FS_Subset, FS_CardinalityType
  <2> HIDE DEF N
  <2> QED BY <1>1, <2>1, <2>4
<1>3. ASSUME NEW g \in S, NEW h \in S, Precedes(g, h)
      PROVE  RankIn(S, g) < RankIn(S, h)
  <2>1. Over(g) \subseteq Over(h) /\ g \in Over(h) /\ g \notin Over(g)
    BY <1>3 DEF Rankable, Precedes
  <2>2. Cardinality(Over(g)) =< Cardinality(Over(h)) /\ Cardinality(Over(g)) # Cardinality(Over(h))
    <3> PICK G, H : G = Over(g) /\ H = Over(h)
      OBVIOUS
    <3>1. IsFiniteSet(H) /\ G \in SUBSET H /\ G # H
      BY <1>2, <2>1
    <3> QED BY <3>1, FS_Subset
  <2>3. /\ RankIn(S, g) = Cardinality(Over(g)) + 1 /\ Cardinality(Over(g)) \in Nat
        /\ RankIn(S, h) = Cardinality(Over(h)) + 1 /\ Cardinality(Over(h)) \in Nat
    BY <1>2
  <2> HIDE DEF Over
  <2> QED BY <2>2, <2>3
<1>4. ASSUME NEW g \in S, NEW h \in S, g # h
      PROVE  Precedes(g, h) \/ Precedes(h, g)
    BY <1>4 DEF Rankable, Precedes
<1>5. \A g, h \in S : RankIn(S, g) < RankIn(S, h) <=> Precedes(g, h)
  <2>1. SUFFICES ASSUME NEW g \in S, NEW h \in S, RankIn(S, g) < RankIn(S, h)
                 PROVE  Precedes(g, h)
    BY <1>3
  <2>2. RankIn(S, g) \in 1 .. N /\ RankIn(S, h) \in 1 .. N
    BY <1>2
  <2> HIDE DEF N
  <2>3. ~(RankIn(S, h) < RankIn(S, g)) /\ RankIn(S, h) # RankIn(S, g)
    BY <1>1, <2>1, <2>2
  <2> QED BY <1>3, <1>4, <2>3
<1>6. \A n \in 1 .. N : \E g \in S : RankIn(S, g) = n
  <2>1. IsFiniteSet(1 .. N) /\ Cardinality(1 .. N) = N
    BY <1>1, FS_Interval
  <2>2. f \in [S -> 1 .. N]
    BY <1>2
  <2>3. \A g, h \in S : RankIn(S, g) = RankIn(S, h) => g = h
    <3>1. SUFFICES ASSUME NEW g \in S, NEW h \in S, g # h PROVE RankIn(S, g) # RankIn(S, h)
      OBVIOUS
    <3>2. RankIn(S, g) \in 1 .. N /\ RankIn(S, h) \in 1 .. N
      BY <1>2
    <3> HIDE DEF N
    <3>3. RankIn(S, g) < RankIn(S, h) \/ RankIn(S, h) < RankIn(S, g)
      BY <1>3, <1>4, <3>1
    <3> QED BY <1>1, <3>2, <3>3
  <2>4. f \in Injection(S, 1 .. N)
    BY <2>2, <2>3 DEF Injection, IsInjective
  <2>5. f \in Surjection(S, 1 .. N)
    BY <1>1, <2>1, <2>4, FS_Injection
  <2> QED BY <2>5 DEF Surjection
<1> QED BY <1>1, <1>2, <1>5, <1>6

\* A ranking has every group once, in order.
LEMMA RankedInOrder ==
    ASSUME NEW S, Rankable(S), NEW n, n = Cardinality(S)
    PROVE  /\ n \in Nat /\ DOMAIN Ranked(S) = 1 .. n
           /\ \A i \in 1 .. n : Ranked(S)[i] \in S
           /\ \A g \in S : \E i \in 1 .. n : Ranked(S)[i] = g
           /\ \A i, j \in 1 .. n : i < j => Precedes(Ranked(S)[i], Ranked(S)[j])
<1>1. n \in Nat /\ Ranked(S) = [i \in 1 .. n |->
                        CHOOSE g \in S : Cardinality({h \in S : Precedes(h, g)}) = i - 1]
    BY RanksOfGroups DEF Ranked
<1>2. ASSUME NEW i \in 1 .. n
      PROVE  Ranked(S)[i] \in S /\ RankIn(S, Ranked(S)[i]) = i
  <2>1. PICK g \in S : RankIn(S, g) = i
    BY RanksOfGroups
  <2>2. RankIn(S, g) = Cardinality({h \in S : Precedes(h, g)}) + 1
        /\ IsFiniteSet({h \in S : Precedes(h, g)})
    BY FS_Subset DEF RankIn, Rankable
  <2>3. Cardinality({h \in S : Precedes(h, g)}) = i - 1
    BY <2>1, <2>2, FS_CardinalityType
  <2> PICK x : x = Ranked(S)[i]
    OBVIOUS
  <2>4. x = CHOOSE y \in S : Cardinality({h \in S : Precedes(h, y)}) = i - 1
    BY <1>1
  <2>5. x \in S /\ Cardinality({h \in S : Precedes(h, x)}) = i - 1
    BY <2>3, <2>4
  <2> QED BY <2>5 DEF RankIn
<1>3. \A g \in S : \E i \in 1 .. n : Ranked(S)[i] = g
  <2>1. SUFFICES ASSUME NEW g \in S PROVE \E i \in 1 .. n : Ranked(S)[i] = g
    OBVIOUS
  <2> PICK i \in 1 .. n : RankIn(S, g) = i
    BY RanksOfGroups
  <2> PICK x \in S : x = Ranked(S)[i] /\ RankIn(S, x) = i
    BY <1>2
  <2>2. ~Precedes(x, g) /\ ~Precedes(g, x)
    BY RanksOfGroups
  <2>3. x = g
    BY <2>2 DEF Rankable, Precedes
  <2> QED BY <2>3
<1>4. ASSUME NEW i \in 1 .. n, NEW j \in 1 .. n, i < j
      PROVE  Precedes(Ranked(S)[i], Ranked(S)[j])
    BY <1>2, <1>4, RanksOfGroups
<1> QED BY <1>1, <1>2, <1>3, <1>4

\* The first of a ranking that is a category is the largest that is one.
LEMMA LargestIsFound ==
    ASSUME NEW S, Rankable(S), NEW k \in S, k.key # UNCATEGORIZED_KEY
    PROVE  \E largest \in LargestCategory(Ranked(S)) :
               /\ largest.key # UNCATEGORIZED_KEY
               /\ \A g \in ToSet(Ranked(S)) : g.key # UNCATEGORIZED_KEY => g.total =< largest.total
<1> PICK s : s = Ranked(S)
    OBVIOUS
<1> PICK n : n = Cardinality(S)
    OBVIOUS
<1>1. /\ n \in Nat /\ DOMAIN s = 1 .. n /\ \A i \in 1 .. n : s[i] \in S
      /\ \A g \in S : \E i \in 1 .. n : s[i] = g
      /\ \A i, j \in 1 .. n : i < j => Precedes(s[i], s[j])
    BY RankedInOrder
<1> DEFINE N == {i \in 1 .. n : s[i].key # UNCATEGORIZED_KEY}
<1>2. N \in SUBSET Nat /\ N # {}
    BY <1>1
<1>3. PICK m \in N : \A i \in N : m =< i
    BY <1>2, LeastNumber
<1>4. m \in 1 .. n /\ s[m].key # UNCATEGORIZED_KEY
    OBVIOUS
<1>5. \A i \in 1 .. (m - 1) : s[i].key = UNCATEGORIZED_KEY
  <2>1. SUFFICES ASSUME NEW i \in 1 .. (m - 1), s[i].key # UNCATEGORIZED_KEY PROVE FALSE
    OBVIOUS
  <2>2. i \in N /\ i < m
    BY <1>1, <1>4, <2>1
  <2> QED BY <1>1, <1>3, <1>4, <2>2
<1>6. s[m] \in LargestCategory(s)
    BY <1>1, <1>4, <1>5 DEF LargestCategory
<1>7. ASSUME NEW g \in ToSet(s), g.key # UNCATEGORIZED_KEY PROVE g.total =< s[m].total
  <2>1. PICK i \in 1 .. n : g = s[i]
    BY <1>1 DEF ToSet
  <2>2. m =< i
    BY <1>3, <1>7, <2>1
  <2>3. CASE i = m
    BY <1>1, <2>1, <2>3 DEF Rankable
  <2>4. CASE i # m
    <3>1. Precedes(s[m], s[i])
      BY <1>1, <1>4, <2>2, <2>4
    <3> QED BY <1>1, <1>4, <2>1, <3>1 DEF Rankable, Precedes
  <2> QED BY <2>3, <2>4
<1> QED BY <1>4, <1>6, <1>7

-----------------------------------------------------------------------------
(* What the insights of a page are made of (Dashboard).                     *)

Others == QuietOnes \union {Previous, Current}

LEMMA TwoParts ==
    ASSUME NEW A, NEW s \in Seq(A), NEW t \in Seq(A)
    PROVE  s \o t \in Seq(A) /\ ToSet(s \o t) = ToSet(s) \union ToSet(t)
<1> PICK u : u = s \o t
    OBVIOUS
<1>1. /\ u \in Seq(A) /\ Len(u) = Len(s) + Len(t) /\ Len(s) \in Nat /\ Len(t) \in Nat
      /\ \A i \in 1 .. Len(u) : u[i] = IF i =< Len(s) THEN s[i] ELSE t[i - Len(s)]
    BY ConcatProperties, LenProperties
<1>2. DOMAIN s = 1 .. Len(s) /\ DOMAIN t = 1 .. Len(t) /\ DOMAIN u = 1 .. Len(u)
    BY <1>1, LenProperties
<1>3. ASSUME NEW x \in ToSet(u) PROVE x \in ToSet(s) \union ToSet(t)
  <2>1. PICK i \in 1 .. Len(u) : x = u[i]
    BY <1>2 DEF ToSet
  <2>2. CASE i =< Len(s)
    BY <1>1, <1>2, <2>1, <2>2 DEF ToSet
  <2>3. CASE ~(i =< Len(s))
    <3>1. i - Len(s) \in 1 .. Len(t) /\ x = t[i - Len(s)]
      BY <1>1, <2>1, <2>3
    <3> QED BY <1>2, <3>1 DEF ToSet
  <2> QED BY <2>2, <2>3
<1>4. ASSUME NEW x \in ToSet(s) PROVE x \in ToSet(u)
  <2>1. PICK i \in 1 .. Len(s) : x = s[i]
    BY <1>2 DEF ToSet
  <2>2. i \in 1 .. Len(u) /\ u[i] = x
    BY <1>1, <2>1
  <2> QED BY <1>2, <2>2 DEF ToSet
<1>5. ASSUME NEW x \in ToSet(t) PROVE x \in ToSet(u)
  <2>1. PICK i \in 1 .. Len(t) : x = t[i]
    BY <1>2 DEF ToSet
  <2> PICK j : j = Len(s) + i
    OBVIOUS
  <2>2. j \in 1 .. Len(u) /\ ~(j =< Len(s)) /\ j - Len(s) = i
    BY <1>1
  <2>3. u[j] = x
    BY <1>1, <2>1, <2>2
  <2> QED BY <1>2, <2>2, <2>3 DEF ToSet
<1> QED BY <1>1, <1>3, <1>4, <1>5

LEMMA HeadAndTail ==
    ASSUME NEW A, NEW s \in Seq(A), s # <<>>
    PROVE  /\ Head(s) \in A /\ Tail(s) \in Seq(A)
           /\ ToSet(s) = {Head(s)} \union ToSet(Tail(s))
<1> PICK t : t = Tail(s)
    OBVIOUS
<1>1. /\ Head(s) \in A /\ t \in Seq(A) /\ Len(t) = Len(s) - 1 /\ Len(s) \in Nat \ {0}
      /\ \A i \in 1 .. Len(t) : t[i] = s[i + 1]
    BY HeadTailProperties, EmptySeq, LenProperties
<1>2. DOMAIN s = 1 .. Len(s) /\ DOMAIN t = 1 .. Len(t) /\ Head(s) = s[1]
    BY <1>1, LenProperties
<1>3. ASSUME NEW x \in ToSet(s) PROVE x = Head(s) \/ x \in ToSet(t)
  <2>1. PICK i \in 1 .. Len(s) : x = s[i]
    BY <1>2 DEF ToSet
  <2>2. CASE i = 1
    BY <1>2, <2>1, <2>2
  <2>3. CASE i # 1
    <3>1. i - 1 \in 1 .. Len(t) /\ (i - 1) + 1 = i
      BY <1>1, <2>3
    <3>2. t[i - 1] = x
      BY <1>1, <2>1, <3>1
    <3> QED BY <1>2, <3>1, <3>2 DEF ToSet
  <2> QED BY <2>2, <2>3
<1>4. Head(s) \in ToSet(s)
    BY <1>1, <1>2 DEF ToSet
<1>5. ASSUME NEW x \in ToSet(t) PROVE x \in ToSet(s)
  <2>1. PICK i \in 1 .. Len(t) : x = t[i]
    BY <1>2 DEF ToSet
  <2>2. i + 1 \in 1 .. Len(s) /\ s[i + 1] = x
    BY <1>1, <2>1
  <2> QED BY <1>2, <2>2 DEF ToSet
<1> QED BY <1>1, <1>3, <1>4, <1>5

\* A finite set, put in a row, is all there.
LEMMA AllInARow ==
    ASSUME NEW S, IsFiniteSet(S)
    PROVE  /\ \E n \in Nat : SetToSeq(S) \in [1 .. n -> S]
           /\ \A x \in S : \E i \in DOMAIN SetToSeq(S) : SetToSeq(S)[i] = x
<1> PICK n : n = Cardinality(S)
    OBVIOUS
<1>1. n \in Nat /\ ExistsBijection(1 .. n, S)
    BY FS_CardinalityType
<1>2. \E f \in [1 .. n -> S] : IsInjective(f)
    BY <1>1 DEF ExistsBijection, Bijection, Injection
<1> PICK f : f = SetToSeq(S)
    OBVIOUS
<1>3. f \in [1 .. n -> S] /\ IsInjective(f)
    BY <1>2 DEF SetToSeq
<1>4. f \in Injection(1 .. n, S)
    BY <1>3 DEF Injection
<1>5. Cardinality(1 .. n) = n
    BY <1>1, FS_Interval
<1>6. f \in Surjection(1 .. n, S)
    BY <1>4, <1>5, FS_Injection
<1> QED BY <1>1, <1>3, <1>6 DEF Surjection

\* The currencies of the totals that can be converted.
InRates(p, totals) == {g.currency : g \in {h \in totals : Convertible(p, h.currency)}}

\* What a page asks for after the totals per currency.
Planned(p, selected, totals, plan, within, of) ==
    /\ plan = Plan(p, selected, totals) /\ (~Converted(p) => selected # NoCurrency)
    /\ selected \in Currency \union {NoCurrency}
    /\ IsFiniteSet(InRates(p, totals)) /\ InRates(p, totals) \subseteq Currency
    /\ within = IF Converted(p) THEN NoCurrency ELSE selected
    /\ of = IF Converted(p) THEN InRates(p, totals) ELSE {selected}

HasTheInsights(plan, within, of) ==
    /\ plan \in Seq(Others)
    /\ Statement("categories", within) \in ToSet(plan)
    /\ \A c \in of : Statement("largest", c) \in ToSet(plan)
    /\ \A s \in ToSet(plan) :
           /\ s.what = "categories" => s.currency = within
           /\ s.what = "largest" => s.currency \in of

LEMMA PlanAsks ==
    ASSUME NEW p, NEW selected, NEW totals, NEW plan, NEW within, NEW of,
           Planned(p, selected, totals, plan, within, of)
    PROVE  HasTheInsights(plan, within, of)
<1> PICK C : C = InRates(p, totals)
    OBVIOUS
<1> DEFINE three == <<Statement("daily", within), Statement("categories", within),
                      Statement("merchants", within)>>
           windows == Comparing(p)
           present == SetToSeq(C)
           row == [i \in DOMAIN present |-> Statement("largest", present[i])]
           one == <<Statement("largest", selected)>>
           largest == IF Converted(p) THEN row ELSE one
<1>0. IsFiniteSet(C) /\ (Converted(p) => of = C)
    BY DEF Planned
<1>1. plan = IF Converted(p) THEN (windows \o three) \o row ELSE one \o (windows \o three)
    BY DEF Plan, InRates, Planned
<1>2. within \in Currency \union {NoCurrency} /\ of \subseteq Currency
    BY DEF Planned
<1>3. /\ three \in Seq(Others) /\ Statement("categories", within) \in ToSet(three)
      /\ \A s \in ToSet(three) :
             s.what # "largest" /\ (s.what = "categories" => s.currency = within)
  <2> PICK a, b, c : /\ a = Statement("daily", within) /\ b = Statement("categories", within)
                     /\ c = Statement("merchants", within)
    OBVIOUS
  <2>1. {a, b, c} \subseteq Others
    BY <1>2 DEF Others, QuietOnes, QuietKinds
  <2>2. a.what = "daily" /\ b.what = "categories" /\ b.currency = within /\ c.what = "merchants"
    BY DEF Statement
  <2>3. three \in Seq(Others)
    BY <2>1
  <2>4. ToSet(three) = {a, b, c}
    BY DEF ToSet
  <2> QED BY <2>2, <2>3, <2>4
<1>4. /\ windows \in Seq(Others)
      /\ \A s \in ToSet(windows) : s.what # "largest" /\ s.what # "categories"
  <2>1. Previous.what = "previous" /\ Current.what = "current"
    BY DEF Previous, Current, Statement
  <2>2. windows = IF p.windows = NoWindows THEN <<>> ELSE <<Previous, Current>>
    BY DEF Comparing, Previous, Current
  <2>3. {Previous, Current} \subseteq Others
    BY DEF Others
  <2>4. <<Previous, Current>> \in Seq(Others) /\ <<>> \in Seq(Others)
    BY <2>3
  <2>5. ToSet(<<Previous, Current>>) = {Previous, Current} /\ ToSet(<<>>) = {}
    BY DEF ToSet
  <2> QED BY <2>1, <2>2, <2>4, <2>5
<1>5. \A c : Statement("largest", c).what = "largest" /\ Statement("largest", c).currency = c
    BY DEF Statement
<1>6. \A c \in of : Statement("largest", c) \in Others
    BY <1>2 DEF Others, QuietOnes, QuietKinds
<1>7. /\ largest \in Seq(Others)
      /\ ToSet(largest) = {Statement("largest", c) : c \in of}
  <2>1. CASE Converted(p)
    <3>1. of = C /\ largest = row
      BY <1>0, <2>1
    <3>2. PICK n \in Nat : present \in [1 .. n -> C]
      BY <1>0, AllInARow
    <3>3. \A c \in C : \E i \in DOMAIN present : present[i] = c
      BY <1>0, AllInARow
    <3> HIDE DEF present
    <3>4. row = [i \in 1 .. n |-> Statement("largest", present[i])]
      BY <3>2
    <3>5. \A i \in 1 .. n : Statement("largest", present[i]) \in Others
      BY <1>6, <3>1, <3>2
    <3>6. row \in Seq(Others)
      BY <3>4, <3>5
    <3>7. ToSet(row) = {Statement("largest", present[i]) : i \in 1 .. n}
      BY <3>4 DEF ToSet
    <3>8. ToSet(row) = {Statement("largest", c) : c \in C}
      BY <3>2, <3>3, <3>7
    <3> QED BY <3>1, <3>6, <3>8
  <2>2. CASE ~Converted(p)
    <3>1. of = {selected} /\ largest = one
      BY <2>2 DEF Planned
    <3> PICK s : s = Statement("largest", selected)
      OBVIOUS
    <3>2. s \in Others
      BY <1>6, <3>1
    <3>3. one = <<s>>
      OBVIOUS
    <3>4. one \in Seq(Others) /\ ToSet(one) = {s}
      BY <3>2, <3>3 DEF ToSet
    <3> QED BY <3>1, <3>4
  <2> QED BY <2>1, <2>2
<1> HIDE DEF three, windows, row, one
<1> PICK both : both = windows \o three
    OBVIOUS
<1>8. both \in Seq(Others) /\ ToSet(both) = ToSet(windows) \union ToSet(three)
    BY <1>3, <1>4, TwoParts
<1> PICK All : All = Others
    OBVIOUS
<1> HIDE DEF largest
<1>9. \A s, t \in Seq(All) : s \o t \in Seq(All) /\ ToSet(s \o t) = ToSet(s) \union ToSet(t)
    BY TwoParts
<1>10. plan \in Seq(Others)
      /\ ToSet(plan) = ToSet(windows) \union ToSet(three) \union ToSet(largest)
  <2>1. CASE Converted(p)
    <3>1. plan = both \o row /\ largest = row
      BY <1>1, <2>1 DEF largest
    <3>2. row \in Seq(Others)
      BY <1>7, <3>1
    <3> PICK r \in Seq(All) : r = row
      BY <3>2
    <3>3. both \in Seq(All)
      BY <1>8
    <3>4. both \o r \in Seq(All) /\ ToSet(both \o r) = ToSet(both) \union ToSet(r)
      BY <1>9, <3>3
    <3> QED BY <1>8, <3>1, <3>4
  <2>2. CASE ~Converted(p)
    <3>1. plan = one \o both /\ largest = one
      BY <1>1, <2>2 DEF largest
    <3>2. one \in Seq(Others)
      BY <1>7, <3>1
    <3> PICK s \in Seq(All) : s = one
      BY <3>2
    <3>3. both \in Seq(All)
      BY <1>8
    <3>4. s \o both \in Seq(All) /\ ToSet(s \o both) = ToSet(s) \union ToSet(both)
      BY <1>9, <3>3
    <3> QED BY <1>8, <3>1, <3>4
  <2> QED BY <2>1, <2>2
<1> QED BY <1>3, <1>4, <1>5, <1>7, <1>10 DEF HasTheInsights

\* The Expenses by currency and category, as a grouping gives them, and the largest.
ByCategory(table, period, c) ==
    LET S == ActiveIn(table, period, c)
    IN  {LET G == {e \in S : table[e].currency = k[1] /\ table[e].category = k[2]}
         IN  [currency |-> k[1], key |-> k[2], total |-> AmountOf(table, G),
              count |-> Cardinality(G)] :
            k \in {<<table[e].currency, table[e].category>> : e \in S}}

LargestIn(table, period, c) ==
    First({[id |-> e, row |-> table[e]] : e \in ActiveIn(table, period, c)})

LEMMA CategoriesAre ==
    ASSUME NEW read, read.what = "categories"
    PROVE  Answer(read) = ByCategory(expenses, page.period, read.currency)
<1> PICK S : S = ActiveIn(expenses, page.period, read.currency)
    OBVIOUS
<1> PICK key : key = [e \in S |-> expenses[e].category]
    OBVIOUS
<1>1. Answer(read) = Groups(key)
    BY DEF Answer
<1>2. DOMAIN key = S /\ \A e \in S : key[e] = expenses[e].category
    OBVIOUS
<1> DEFINE of(k) == {e \in DOMAIN key : expenses[e].currency = k[1] /\ key[e] = k[2]}
           in(k) == {e \in S : expenses[e].currency = k[1] /\ expenses[e].category = k[2]}
           keys == {<<expenses[e].currency, key[e]>> : e \in DOMAIN key}
           all == {<<expenses[e].currency, expenses[e].category>> : e \in S}
<1>3. \A k : of(k) = in(k)
    BY <1>2
<1>4. keys = all
    BY <1>2
<1>5. Groups(key) = {[currency |-> k[1], key |-> k[2], total |-> AmountOf(expenses, of(k)),
                      count |-> Cardinality(of(k))] : k \in keys}
    BY DEF Groups
<1>6. ByCategory(expenses, page.period, read.currency)
          = {[currency |-> k[1], key |-> k[2], total |-> AmountOf(expenses, in(k)),
              count |-> Cardinality(in(k))] : k \in all}
    BY DEF ByCategory
<1> HIDE DEF of, in, keys, all
<1> QED BY <1>1, <1>3, <1>4, <1>5, <1>6

LEMMA LargestAre ==
    ASSUME NEW read, read.what = "largest"
    PROVE  Answer(read) = LargestIn(expenses, page.period, read.currency)
<1> PICK S : S = ActiveIn(expenses, page.period, read.currency)
    OBVIOUS
<1>1. Answer(read) = First({Candidate(e) : e \in S})
    BY DEF Answer
<1>2. {Candidate(e) : e \in S} = {[id |-> e, row |-> expenses[e]] : e \in S}
    BY DEF Candidate
<1> QED BY <1>1, <1>2 DEF LargestIn

\* The currency whose Expenses the sections of a page are about, or all.
SectionsIn(p) == IF Converted(p) THEN NoCurrency ELSE p.selected

\* What a page may ask for, and what it was told.
Wanted(p, s) ==
    /\ s.what = "categories" => s.currency = SectionsIn(p)
    /\ s.what = "largest" => s.currency \in Currency /\ Counts(p, s.currency)

TellsTheTruth(p, r, tables) ==
    \E table \in tables :
        /\ r.what = "currencies" =>
               \A e \in ActiveIn(table, p.period, NoCurrency) :
                   \E g \in r.rows : g.currency = table[e].currency
        /\ r.what = "categories" => r.rows = ByCategory(table, p.period, SectionsIn(p))
        /\ r.what = "largest" => r.rows = LargestIn(table, p.period, r.currency)

\* A statement was made, or will be.
AsksFor(p, what, c) ==
    Statement(what, c) \in ToSet(p.todo) \/ \E r \in p.read : r.what = what /\ r.currency = c

NothingSkipped(p) ==
    p.selected # NoCurrency =>
        /\ \E r \in p.read : r.what = "currencies"
        /\ AsksFor(p, "categories", SectionsIn(p))
        /\ \A r \in p.read : r.what = "currencies" =>
               \A g \in r.rows : Counts(p, g.currency) => AsksFor(p, "largest", g.currency)

InsightsToCome(p, tables) ==
    \/ Unopened(p)
    \/ /\ p.todo \in Seq(Others)
       /\ \A s \in ToSet(p.todo) : Wanted(p, s)
       /\ \A r \in p.read : Wanted(p, r) /\ TellsTheTruth(p, r, tables)
       /\ NothingSkipped(p)

LEMMA StillToCome ==
    ASSUME NEW p, NEW tables, NEW more, tables \subseteq more, InsightsToCome(p, tables)
    PROVE  InsightsToCome(p, more)
<1>1. \A r : TellsTheTruth(p, r, tables) => TellsTheTruth(p, r, more)
    BY DEF TellsTheTruth
<1> QED BY <1>1 DEF InsightsToCome

\* Pages that are of the same request, and of the same currency.
Same(p, q) ==
    /\ q.period = p.period /\ q.rates = p.rates /\ q.default = p.default
    /\ q.selected = p.selected

LEMMA SameWants ==
    ASSUME NEW p, NEW q, Same(p, q)
    PROVE  /\ SectionsIn(q) = SectionsIn(p)
           /\ \A c : Counts(q, c) = Counts(p, c)
           /\ \A s : Wanted(q, s) = Wanted(p, s)
           /\ \A r, tables : TellsTheTruth(q, r, tables) = TellsTheTruth(p, r, tables)
<1>1. Converted(q) = Converted(p) /\ q.selected = p.selected /\ q.period = p.period
    BY DEF Same, Converted
<1>2. SectionsIn(q) = SectionsIn(p)
    BY <1>1 DEF SectionsIn
<1>3. \A c : Counts(q, c) = Counts(p, c)
    BY <1>1 DEF Same, Counts, Convertible, CanConvert, HasRate
<1>4. \A s : Wanted(q, s) = Wanted(p, s)
    BY <1>2, <1>3 DEF Wanted
<1>5. \A r, tables : TellsTheTruth(q, r, tables) = TellsTheTruth(p, r, tables)
    BY <1>1, <1>2 DEF TellsTheTruth
<1> QED BY <1>2, <1>3, <1>4, <1>5

\* The first statement, and what it leads to.
LEMMA FirstToCome ==
    ASSUME NEW p, NEW q, NEW tables, NEW r, NEW totals,
           q.read = {r}, r.what = "currencies", r.rows = totals,
           TellsTheTruth(q, r, tables),
           q.selected \in Currency \union {NoCurrency}, Converted(q) => q.selected # NoCurrency,
           Converted(q) = Converted(p), \A c : Convertible(q, c) = Convertible(p, c),
           q.todo = Plan(p, q.selected, totals),
           IsFiniteSet(InRates(p, totals)), InRates(p, totals) \subseteq Currency
    PROVE  InsightsToCome(q, tables)
<1>1. Wanted(q, r)
    BY DEF Wanted
<1>2. CASE q.selected = NoCurrency
  <2>1. q.todo = <<>>
    BY <1>2 DEF Plan
  <2>2. q.todo \in Seq(Others) /\ ToSet(q.todo) = {}
    BY <2>1 DEF ToSet
  <2> QED BY <1>1, <1>2, <2>2 DEF InsightsToCome, NothingSkipped
<1>3. CASE q.selected # NoCurrency
  <2> PICK selected \in Currency \union {NoCurrency} : selected = q.selected
    OBVIOUS
  <2> PICK within : within = SectionsIn(q)
    OBVIOUS
  <2> PICK of : of = IF Converted(p) THEN InRates(p, totals) ELSE {selected}
    OBVIOUS
  <2> PICK plan : plan = q.todo
    OBVIOUS
  <2>a. HasTheInsights(plan, within, of)
    <3>1. Planned(p, selected, totals, plan, within, of)
      BY <1>3 DEF Planned, SectionsIn
    <3> QED BY <3>1, PlanAsks
  <2>1. /\ plan \in Seq(Others)
        /\ Statement("categories", within) \in ToSet(plan)
        /\ \A c \in of : Statement("largest", c) \in ToSet(plan)
        /\ \A s \in ToSet(plan) :
               /\ s.what = "categories" => s.currency = within
               /\ s.what = "largest" => s.currency \in of
    BY <2>a DEF HasTheInsights
  <2>2. \A c \in of : c \in Currency /\ Counts(q, c)
    BY <1>3 DEF Counts, InRates
  <2>3. \A s \in ToSet(q.todo) : Wanted(q, s)
    BY <2>1, <2>2 DEF Wanted
  <2>4. \A g \in totals : Counts(q, g.currency) => g.currency \in of
    BY <1>3 DEF Counts, InRates
  <2>5. NothingSkipped(q)
    BY <2>1, <2>4 DEF NothingSkipped, AsksFor
  <2> QED BY <1>1, <2>1, <2>3, <2>5 DEF InsightsToCome
<1> QED BY <1>2, <1>3

\* The statement made is the first to come, and what is passed over is not one
\* that the insights need.
LEMMA NextToCome ==
    ASSUME NEW p, NEW q, Same(p, q), NEW tables, InsightsToCome(p, tables), ~Unopened(p),
           NEW r, q.read = p.read \union {r}, p.todo # <<>>, NEW next, next = Head(p.todo),
           r.what = next.what, r.currency = next.currency,
           TellsTheTruth(p, r, tables), r.what # "currencies",
           \/ q.todo = Tail(p.todo)
           \/ /\ q.todo = Tail(Tail(p.todo)) /\ Tail(p.todo) # <<>>
              /\ Head(Tail(p.todo)) = Current
    PROVE  InsightsToCome(q, tables)
<1>1. /\ p.todo \in Seq(Others) /\ NothingSkipped(p)
      /\ \A s \in ToSet(p.todo) : Wanted(p, s)
      /\ \A s \in p.read : Wanted(p, s) /\ TellsTheTruth(p, s, tables)
    BY DEF InsightsToCome
<1> PICK All : All = Others
    OBVIOUS
<1> PICK old \in Seq(All), left \in Seq(All) :
        old = p.todo /\ left = Tail(old) /\ ToSet(old) = {next} \union ToSet(left)
    BY <1>1, HeadAndTail
<1>2. q.todo \in Seq(All) /\ ToSet(q.todo) \subseteq ToSet(left)
      /\ ToSet(left) \subseteq {Current} \union ToSet(q.todo)
  <2>1. CASE q.todo = left
    BY <2>1
  <2>2. CASE q.todo = Tail(left) /\ left # <<>> /\ Head(left) = Current
    <3>1. \A s \in Seq(All) : s # <<>> =>
              Tail(s) \in Seq(All) /\ ToSet(s) = {Head(s)} \union ToSet(Tail(s))
      BY HeadAndTail
    <3>2. Tail(left) \in Seq(All) /\ ToSet(left) = {Head(left)} \union ToSet(Tail(left))
      BY <2>2, <3>1
    <3> QED BY <2>2, <3>2
  <2> QED BY <2>1, <2>2
<1>3. Wanted(p, r)
  <2>1. Wanted(p, next)
    BY <1>1
  <2> QED BY <2>1 DEF Wanted
<1>4. \A s \in ToSet(q.todo) : Wanted(q, s)
    BY <1>1, <1>2, SameWants
<1>5. \A s \in q.read : Wanted(q, s) /\ TellsTheTruth(q, s, tables)
    BY <1>1, <1>3, SameWants
<1>6. ASSUME NEW what \in {"categories", "largest"}, NEW c, AsksFor(p, what, c)
      PROVE  AsksFor(q, what, c)
  <2> PICK s : s = Statement(what, c)
    OBVIOUS
  <2>1. s.what = what /\ s.currency = c /\ Current.what = "current"
    BY DEF Statement, Current
  <2>2. CASE s \in ToSet(old)
    <3>1. s = next \/ s \in ToSet(q.todo)
      BY <1>2, <2>1, <2>2
    <3> QED BY <2>1, <3>1 DEF AsksFor
  <2>3. CASE \E x \in p.read : x.what = what /\ x.currency = c
    BY <2>3 DEF AsksFor
  <2> QED BY <1>6, <2>2, <2>3 DEF AsksFor
<1>7. NothingSkipped(q)
  <2>1. SUFFICES ASSUME p.selected # NoCurrency PROVE NothingSkipped(q)
    BY DEF NothingSkipped, Same
  <2>2. \E x \in q.read : x.what = "currencies"
    BY <1>1, <2>1 DEF NothingSkipped
  <2>3. AsksFor(q, "categories", SectionsIn(q))
    BY <1>1, <1>6, <2>1, SameWants DEF NothingSkipped
  <2>4. ASSUME NEW x \in q.read, x.what = "currencies", NEW g \in x.rows, Counts(q, g.currency)
        PROVE  AsksFor(q, "largest", g.currency)
    <3>1. x \in p.read /\ Counts(p, g.currency)
      BY <2>4, SameWants
    <3> PICK c : c = g.currency
      OBVIOUS
    <3>2. AsksFor(p, "largest", c)
      BY <1>1, <2>1, <2>4, <3>1 DEF NothingSkipped
    <3> QED BY <1>6, <3>2
  <2> QED BY <2>2, <2>3, <2>4 DEF NothingSkipped
<1> QED BY <1>2, <1>4, <1>5, <1>7 DEF InsightsToCome

LEMMA ReadToCome ==
    ASSUME PageShape(page), PageTyped(page), Ordered(page, seen), InsightsToCome(page, seen), Read,
           expenses \in seen, expenses \in Tables
    PROVE  InsightsToCome(page', seen)
<1> DEFINE next == Head(page.todo)
           rows == Answer(next)
           present == {g.currency : g \in rows}
           selected == IF next.what = "currencies" THEN Resolved(page, present)
                       ELSE page.selected
           record == [what |-> next.what, currency |-> next.currency, rows |-> rows]
           todo == CASE next.what = "currencies" -> Plan(page, selected, rows)
                     [] next.what = "previous" -> AfterPrevious(page.todo, page, rows)
                     [] OTHER -> Tail(page.todo)
<1>1. page.todo # <<>> /\ page' = [page EXCEPT !.read = @ \union {record},
                                              !.selected = selected, !.todo = todo]
    BY DEF Read
<1> HIDE DEF rows, record, selected, todo
<1> PICK q : q = page'
    OBVIOUS
<1>2. /\ q.default = page.default /\ q.period = page.period /\ q.rates = page.rates
      /\ q.selected = selected /\ q.todo = todo /\ q.read = page.read \union {record}
    BY <1>1 DEF PageShape
<1>3. record.what = next.what /\ record.currency = next.currency /\ record.rows = rows
    BY DEF record
<1>4. Converted(q) = Converted(page) /\ \A c : Convertible(q, c) = Convertible(page, c)
    BY <1>2 DEF Converted, Convertible, CanConvert, HasRate
<1> HIDE DEF next
<1>5. CASE Unopened(page)
  <2>1. next = Statement("currencies", NoCurrency) /\ page.read = {}
    BY <1>5 DEF Unopened, Untouched, next
  <2>2. next.what = "currencies" /\ next.currency = NoCurrency
    BY <2>1 DEF Statement
  <2> PICK period : period = page.period
    OBVIOUS
  <2>3. /\ \A g \in rows : \E e \in ActiveIn(expenses, period, NoCurrency) :
               g.currency = expenses[e].currency
        /\ \A e \in ActiveIn(expenses, period, NoCurrency) :
               \E g \in rows : g.currency = expenses[e].currency
    BY <2>2, AnswerTells DEF rows
  <2>4. present \subseteq Currency
    BY <2>3, ExpensesAreEntries
  <2>5. InRates(page, rows) \subseteq Currency /\ IsFiniteSet(InRates(page, rows))
    <3>1. \A c \in InRates(page, rows) :
              \E e \in ActiveIn(expenses, period, NoCurrency) : c = expenses[e].currency
      BY <2>3 DEF InRates
    <3>2. ActiveIn(expenses, period, NoCurrency) \in SUBSET Expense
      BY DEF ActiveIn
    <3>3. IsFiniteSet(InRates(page, rows))
      BY <3>1, <3>2, FewCurrencies
    <3> QED BY <2>4, <3>3 DEF InRates
  <2>6. selected = Resolved(page, present) /\ todo = Plan(page, selected, rows)
    BY <2>2 DEF selected, todo
  <2> HIDE DEF present
  <2>7. selected \in Currency \union {NoCurrency} /\ (Converted(page) => selected # NoCurrency)
    BY <2>4, <2>6, ResolvedIsTyped
  <2>8. TellsTheTruth(q, record, seen)
    BY <1>2, <1>3, <2>2, <2>3 DEF TellsTheTruth
  <2> PICK r : r = record
    OBVIOUS
  <2> PICK totals : totals = rows
    OBVIOUS
  <2>9. q.read = {r} /\ r.what = "currencies" /\ r.rows = totals
    BY <1>2, <1>3, <2>1, <2>2
  <2>10. q.todo = Plan(page, q.selected, totals)
    BY <1>2, <2>6
  <2> QED BY <1>2, <1>4, <2>5, <2>7, <2>8, <2>9, <2>10, FirstToCome
<1>6. CASE ~Unopened(page)
  <2>1. /\ page.todo \in Seq(Others) /\ next \in Others
        /\ Wanted(page, next)
    <3>1. page.todo \in Seq(Others) /\ \A s \in ToSet(page.todo) : Wanted(page, s)
      BY <1>6 DEF InsightsToCome
    <3> PICK old \in Seq(Others) : old = page.todo
      BY <3>1
    <3>2. Head(old) \in Others /\ Head(old) \in ToSet(old)
      BY <1>1, HeadAndTail
    <3> QED BY <3>1, <3>2 DEF next
  <2>2. next.what # "currencies"
    <3>1. Previous.what = "previous" /\ Current.what = "current"
      BY DEF Previous, Current, Statement
    <3> QED BY <2>1, <3>1, QuietIsQuiet DEF Others
  <2>3. Same(page, q)
    BY <1>2, <2>2 DEF Same, selected
  <2>4. TellsTheTruth(page, record, seen)
    <3>1. CASE next.what = "categories"
      <4>1. rows = ByCategory(expenses, page.period, next.currency)
        BY <3>1, CategoriesAre DEF rows
      <4>2. next.currency = SectionsIn(page)
        BY <2>1, <3>1 DEF Wanted
      <4> QED BY <1>3, <3>1, <4>1, <4>2 DEF TellsTheTruth
    <3>2. CASE next.what = "largest"
      <4>1. rows = LargestIn(expenses, page.period, next.currency)
        BY <3>2, LargestAre DEF rows
      <4> QED BY <1>3, <3>2, <4>1 DEF TellsTheTruth
    <3>3. CASE next.what \notin {"categories", "largest"}
      BY <1>3, <2>2, <3>3 DEF TellsTheTruth
    <3> QED BY <3>1, <3>2, <3>3
  <2>5. \/ todo = Tail(page.todo)
        \/ /\ todo = Tail(Tail(page.todo)) /\ Tail(page.todo) # <<>>
           /\ Head(Tail(page.todo)) = Current
    <3>1. CASE next.what = "previous"
      <4>1. todo = Tail(Tail(page.todo)) \/ todo = Tail(page.todo)
        BY <3>1 DEF todo, AfterPrevious
      <4>2. next \notin QuietOnes /\ next # Current
        <5>1. Current.what = "current"
          BY DEF Current, Statement
        <5> QED BY <3>1, <5>1, QuietIsQuiet
      <4>3. ~Quiet(page.todo)
        BY <1>1, <4>2, QuietGoesOn DEF next
      <4>4. AtPrevious(page.todo)
        BY <1>6, <4>2, <4>3 DEF Ordered, NotComparing, PreviousToCome, CurrentToCome, WindowsRead,
                                BeforePrevious, AtCurrent, next
      <4> QED BY <4>1, <4>4 DEF AtPrevious, AtCurrent
    <3>2. CASE next.what # "previous"
      BY <2>2, <3>2 DEF todo
    <3> QED BY <3>1, <3>2
  <2> PICK r : r = record
    OBVIOUS
  <2> PICK head : head = Head(page.todo)
    OBVIOUS
  <2>6. r.what = head.what /\ r.currency = head.currency /\ r.what # "currencies"
    BY <1>3, <2>2 DEF next
  <2> PICK p : p = page
    OBVIOUS
  <2>7. Same(p, q) /\ InsightsToCome(p, seen) /\ ~Unopened(p) /\ TellsTheTruth(p, r, seen)
    BY <1>6, <2>3, <2>4
  <2>8. q.read = p.read \union {r} /\ p.todo # <<>> /\ head = Head(p.todo)
    BY <1>1, <1>2
  <2>9. \/ q.todo = Tail(p.todo)
        \/ q.todo = Tail(Tail(p.todo)) /\ Tail(p.todo) # <<>> /\ Head(Tail(p.todo)) = Current
    BY <1>2, <2>5
  <2>10. InsightsToCome(q, seen)
    BY <2>6, <2>7, <2>8, <2>9, NextToCome
  <2> QED BY <2>10
<1> QED BY <1>5, <1>6

\* What holds of a page under way, and of one that was answered.
InsightsSound ==
    /\ page.stage = "reading" => InsightsToCome(page, seen)
    /\ page.stage = "done" => InsightsToCome(page.request, seen)

LEMMA InsightsStepKeeps ==
    ASSUME PageSound, WindowsInOrder, InsightsSound, [DashboardNext]_dashboardVars
    PROVE  InsightsSound'
<1>1. CASE \E client \in {Web, Api}, currency, default \in Chosen \union {NoCurrency},
              today \in Todays :
               \E asked \in {NoPeriod} \union Asked \union Presets(today) :
                   Open(client, asked, currency, default, today)
  <2>1. PICK client, currency, default, today, asked : Open(client, asked, currency, default, today)
    BY <1>1
  <2>2. page'.stage = "reading" /\ page'.read = {} /\ Untouched(page')
    BY <2>1 DEF Open, Untouched
  <2> QED BY <2>2 DEF InsightsSound, InsightsToCome, Unopened
<1>2. CASE Read
  <2>1. /\ page.stage = "reading" /\ PageShape(page) /\ PageTyped(page) /\ Ordered(page, seen)
        /\ expenses \in seen /\ expenses \in Tables /\ seen' = seen /\ InsightsToCome(page, seen)
    BY <1>2 DEF Read, PageSound, ReadingIsHonest, WindowsInOrder, InsightsSound
  <2>2. InsightsToCome(page', seen)
    BY <1>2, <2>1, ReadToCome
  <2>3. page'.stage = "reading"
    BY <1>2, <2>1 DEF Read, PageShape
  <2> QED BY <2>1, <2>2, <2>3 DEF InsightsSound
<1>3. CASE Respond
  <2>1. /\ page.stage = "reading" /\ PageShape(page) /\ seen' = seen
        /\ InsightsToCome(page, seen)
    BY <1>3 DEF Respond, PageSound, ReadingIsHonest, InsightsSound
  <2>2. page'.stage = "failed" \/ (page'.stage = "done" /\ page'.request = page)
    BY <1>3, <2>1 DEF Respond, PageShape
  <2> QED BY <2>1, <2>2 DEF InsightsSound
<1>4. CASE Delivered
    BY <1>4 DEF Delivered, NoPage, InsightsSound
<1>5. CASE \/ \E table \in Tables : Commit(table)
           \/ RatesNext /\ UNCHANGED <<expenses, page, seen>>
           \/ UNCHANGED dashboardVars
  <2>1. page' = page /\ seen \subseteq seen'
    BY <1>5 DEF Commit, dashboardVars
  <2>2. \A p : InsightsToCome(p, seen) => InsightsToCome(p, seen')
    BY <2>1, StillToCome
  <2> QED BY <2>1, <2>2 DEF InsightsSound
<1> QED BY <1>1, <1>2, <1>3, <1>4, <1>5 DEF DashboardNext

LEMMA InsightsInvariance == DashboardSpec => []InsightsSound
<1>1. DashboardInit => InsightsSound
    BY DEF DashboardInit, InsightsSound, NoPage
<1>2. PageSound /\ WindowsInOrder /\ InsightsSound /\ [DashboardNext]_dashboardVars
          => InsightsSound'
    BY InsightsStepKeeps
<1> QED BY <1>1, <1>2, PageInvariance, WindowsInvariance, PTL DEF DashboardSpec

-----------------------------------------------------------------------------
(* The insights of a page (Dashboard).                                      *)

LEMMA EntriesOf ==
    ASSUME NEW table \in Tables, NEW period, NEW c
    PROVE  /\ ActiveIn(table, period, c) \in SUBSET Expense
           /\ IsFiniteSet(ActiveIn(table, period, c))
           /\ \A e \in ActiveIn(table, period, c) :
                  /\ e \in ActiveIn(table, period, NoCurrency)
                  /\ table[e] \in Entry /\ (c # NoCurrency => table[e].currency = c)
<1>1. ActiveIn(table, period, c) \in SUBSET Expense
    BY DEF ActiveIn
<1>2. IsFiniteSet(ActiveIn(table, period, c))
    BY <1>1, ExpensesAssumption, FS_Subset
<1>3. \A e \in ActiveIn(table, period, c) : table[e] \in Entry
    BY <1>1, TablesAssumption DEF ActiveIn
<1>4. \A e \in ActiveIn(table, period, c) :
          e \in ActiveIn(table, period, NoCurrency) /\ (c # NoCurrency => table[e].currency = c)
    BY DEF ActiveIn
<1> QED BY <1>1, <1>2, <1>3, <1>4

\* Every Expense is in the group of its currency and category.
LEMMA CategoryGroups ==
    ASSUME NEW table \in Tables, NEW period, NEW c, NEW rows, rows = ByCategory(table, period, c)
    PROVE  /\ IsFiniteSet(rows)
           /\ \A g \in rows : /\ g.total \in Nat /\ g.currency \in Currency /\ g.key \in Nat
                              /\ c # NoCurrency => g.currency = c
           /\ \A e \in ActiveIn(table, period, c) :
                  \E g \in rows : g.currency = table[e].currency /\ g.key = table[e].category
<1> PICK S : S = ActiveIn(table, period, c)
    OBVIOUS
<1> DEFINE in(k) == {e \in S : table[e].currency = k[1] /\ table[e].category = k[2]}
           group(k) == [currency |-> k[1], key |-> k[2], total |-> AmountOf(table, in(k)),
                        count |-> Cardinality(in(k))]
           key(e) == <<table[e].currency, table[e].category>>
           all == {key(e) : e \in S}
           w == [e \in S |-> group(key(e))]
<1>1. /\ S \in SUBSET Expense /\ IsFiniteSet(S)
      /\ \A e \in S : table[e] \in Entry /\ (c # NoCurrency => table[e].currency = c)
    BY EntriesOf
<1>2. rows = {group(k) : k \in all}
    BY DEF ByCategory
<1>3. ASSUME NEW k PROVE AmountOf(table, in(k)) \in Nat
  <2> PICK G : G = in(k)
    OBVIOUS
  <2> DEFINE f == [e \in G |-> table[e].amount]
  <2>1. G \in SUBSET S
    OBVIOUS
  <2>2. IsFiniteSet(G)
    BY <1>1, <2>1, FS_Subset
  <2>3. \A e \in G : table[e].amount \in Nat \ {0}
    BY <1>1, <2>1 DEF Entry
  <2>4. Positive(f, G)
    BY <2>3 DEF Positive
  <2>5. AmountOf(table, G) = Total(f, G)
    BY <2>2, AmountIs
  <2> HIDE DEF f
  <2>6. Total(f, G) \in Nat
    BY <2>2, <2>4, PositiveSum
  <2> QED BY <2>5, <2>6
<1>4. \A k : /\ group(k).currency = k[1] /\ group(k).key = k[2]
            /\ group(k).total = AmountOf(table, in(k))
    OBVIOUS
<1>5. \A e \in S : key(e)[1] = table[e].currency /\ key(e)[2] = table[e].category
    OBVIOUS
<1> HIDE DEF group, in, key
<1>6. rows = {group(key(e)) : e \in S}
  <2>1. \A k \in all : \E e \in S : k = key(e)
    OBVIOUS
  <2>2. \A e \in S : key(e) \in all
    OBVIOUS
  <2> HIDE DEF all
  <2> QED BY <1>2, <2>1, <2>2
<1>7. IsFiniteSet(rows)
  <2>1. w \in Surjection(S, rows)
    BY <1>6 DEF Surjection
  <2> QED BY <1>1, <2>1, FS_Surjection
<1>8. ASSUME NEW g \in rows
      PROVE  /\ g.total \in Nat /\ g.currency \in Currency /\ g.key \in Nat
             /\ c # NoCurrency => g.currency = c
  <2>1. PICK e \in S : g = group(key(e))
    BY <1>6
  <2>2. g.currency = table[e].currency /\ g.key = table[e].category /\ g.total \in Nat
    BY <1>3, <1>4, <1>5, <2>1
  <2>3. table[e] \in Entry /\ (c # NoCurrency => table[e].currency = c)
    BY <1>1
  <2> QED BY <2>2, <2>3 DEF Entry
<1>9. ASSUME NEW e \in S
      PROVE  \E g \in rows : g.currency = table[e].currency /\ g.key = table[e].category
    BY <1>4, <1>5, <1>6
<1> QED BY <1>7, <1>8, <1>9

\* Groups whose amounts the page can tell in its currency.
Tellable(p, rows) ==
    /\ IsFiniteSet(rows)
    /\ \A g \in rows : /\ g.total \in Nat /\ g.currency \in Currency /\ g.key \in Nat
                       /\ Converted(p) => Convertible(p, g.currency)

Shared(p, rows, whole) ==
    {[key |-> g.key, total |-> g.total, count |-> g.count, share |-> Share(g.total, whole)] :
        g \in Combined(p, rows)}

LEMMA TotalsAreIntegers ==
    ASSUME NEW p, PageTyped(p), NEW rows, Tellable(p, rows)
    PROVE  TotalOf(p, rows) \in Int
<1> DEFINE f == [r \in rows |-> InTarget(p, r.total, r.currency)]
<1>1. \A r \in rows : InTarget(p, r.total, r.currency) \in Int
    BY AmountsAreIntegers DEF Tellable
<1>2. Integral(f, rows)
    BY <1>1 DEF Integral
<1>3. IsFiniteSet(rows)
    BY DEF Tellable
<1> HIDE DEF f
<1>4. PICK g : Adds(f, rows, g)
    BY <1>3, SumsExist DEF Adds
<1>5. Total(f, rows) = g[rows]
    BY <1>3, <1>4, TotalIs DEF Adds
<1>6. g[rows] \in Int
    BY <1>2, <1>4, AnyFirst
<1> QED BY <1>3, <1>5, <1>6, TotalOfIs DEF f

LEMMA SharesAreRankable ==
    ASSUME NEW p, PageTyped(p), NEW rows, Tellable(p, rows), NEW whole, NEW S,
           S = Shared(p, rows, whole)
    PROVE  Rankable(S) /\ \A g \in rows : \E k \in S : k.key = g.key
<1> DEFINE at(k) == {g \in rows : g.key = k}
           shared(k) == [key |-> k, total |-> TotalOf(p, at(k)), count |-> CountOf(at(k)),
                         share |-> Share(TotalOf(p, at(k)), whole)]
           one(k) == [key |-> k, total |-> TotalOf(p, at(k)), count |-> CountOf(at(k))]
           keys == {g.key : g \in rows}
           w == [g \in rows |-> shared(g.key)]
<1>1. ASSUME NEW k PROVE TotalOf(p, at(k)) \in Int
  <2>1. at(k) \in SUBSET rows
    OBVIOUS
  <2>2. IsFiniteSet(at(k))
    BY <2>1, FS_Subset DEF Tellable
  <2>3. Tellable(p, at(k))
    BY <2>1, <2>2 DEF Tellable
  <2> HIDE DEF at
  <2> QED BY <2>3, TotalsAreIntegers
<1>2. Combined(p, rows) = {one(k) : k \in keys}
    BY DEF Combined
<1> HIDE DEF at
<1>3. S = {shared(k) : k \in keys}
  <2> DEFINE turned(g) == [key |-> g.key, total |-> g.total, count |-> g.count,
                           share |-> Share(g.total, whole)]
  <2>1. \A k : turned(one(k)) = shared(k)
    OBVIOUS
  <2>2. S = {turned(g) : g \in Combined(p, rows)}
    BY DEF Shared
  <2> HIDE DEF turned, one, shared, keys
  <2> QED BY <1>2, <2>1, <2>2
<1>4. \A k : shared(k).key = k /\ shared(k).total = TotalOf(p, at(k))
    OBVIOUS
<1> HIDE DEF shared
<1>5. S = {shared(g.key) : g \in rows}
    BY <1>3
<1>6. IsFiniteSet(S)
  <2>1. w \in Surjection(rows, S)
    BY <1>5 DEF Surjection
  <2> QED BY <2>1, FS_Surjection DEF Tellable
<1>7. ASSUME NEW a \in S PROVE a.total \in Int /\ a.key \in Int
  <2>1. PICK g \in rows : a = shared(g.key)
    BY <1>5
  <2>2. g.key \in Int
    BY DEF Tellable
  <2> QED BY <1>1, <1>4, <2>1, <2>2
<1>8. \A a, b \in S : a.key = b.key => a = b
    BY <1>4, <1>5
<1>9. Rankable(S)
    BY <1>6, <1>7, <1>8 DEF Rankable
<1> QED BY <1>4, <1>5, <1>9

\* The largest category of a page, when its groups are of one table.
LEMMA CategoryIsLargest ==
    ASSUME NEW p, PageTyped(p), NEW table \in Tables, NEW rows, NEW whole, NEW categories,
           rows = Counted(p, ByCategory(table, p.period, SectionsIn(p))),
           categories = Ranked(Shared(p, rows, whole)),
           NEW e \in ActiveIn(table, p.period, NoCurrency), Counts(p, table[e].currency),
           table[e].category # UNCATEGORIZED_KEY
    PROVE  \E largest \in LargestCategory(categories) :
               /\ largest.key # UNCATEGORIZED_KEY
               /\ \A g \in ToSet(categories) : g.key # UNCATEGORIZED_KEY => g.total =< largest.total
<1> PICK all : all = ByCategory(table, p.period, SectionsIn(p))
    OBVIOUS
<1> PICK within : within = SectionsIn(p)
    OBVIOUS
<1>1. /\ IsFiniteSet(all)
      /\ \A g \in all : g.total \in Nat /\ g.currency \in Currency /\ g.key \in Nat
      /\ \A d \in ActiveIn(table, p.period, within) :
             \E g \in all : g.currency = table[d].currency /\ g.key = table[d].category
    BY CategoryGroups
<1>2. rows = {g \in all : Counts(p, g.currency)}
    BY DEF Counted, Counts
<1>3. Tellable(p, rows)
  <2>1. rows \in SUBSET all
    BY <1>2
  <2>2. IsFiniteSet(rows)
    BY <1>1, <2>1, FS_Subset
  <2> QED BY <1>1, <1>2, <2>2 DEF Tellable, Counts
<1>4. e \in ActiveIn(table, p.period, within)
    BY DEF ActiveIn, SectionsIn, Counts
<1>5. PICK g \in all : g.currency = table[e].currency /\ g.key = table[e].category
    BY <1>1, <1>4
<1>6. g \in rows
    BY <1>2, <1>5
<1> PICK S : S = Shared(p, rows, whole)
    OBVIOUS
<1>7. Rankable(S) /\ \E k \in S : k.key = g.key
    BY <1>3, <1>6, SharesAreRankable
<1> PICK k \in S : k.key # UNCATEGORIZED_KEY
    BY <1>5, <1>7
<1> QED BY <1>7, LargestIsFound

\* Expenses of one table, as the largest are told.
Candidates(table) == {[id |-> e, row |-> table[e]] : e \in {d \in Expense : table[d] # NoRow}}

LEMMA CandidatesCompare ==
    ASSUME NEW table \in Tables, NEW S, S \subseteq Candidates(table)
    PROVE  /\ Comparable(S) /\ IsFiniteSet(S)
           /\ \A a \in S : a.id \in Expense /\ a.row = table[a.id] /\ a.row \in Entry
<1> DEFINE T == {d \in Expense : table[d] # NoRow}
           w == [e \in T |-> [id |-> e, row |-> table[e]]]
<1>1. IsFiniteSet(T) /\ T \in SUBSET Expense
    BY ExpensesAssumption, FS_Subset
<1>2. IsFiniteSet(Candidates(table))
  <2>1. w \in Surjection(T, Candidates(table))
    BY DEF Surjection, Candidates
  <2> QED BY <1>1, <2>1, FS_Surjection
<1>3. IsFiniteSet(S)
    BY <1>2, FS_Subset
<1>4. ASSUME NEW a \in S
      PROVE  /\ a.id \in Expense /\ a.row = table[a.id] /\ a.row \in Entry
             /\ a = [id |-> a.id, row |-> table[a.id]]
  <2>1. PICK e \in Expense : table[e] # NoRow /\ a = [id |-> e, row |-> table[e]]
    BY DEF Candidates
  <2>2. table[e] \in Entry
    BY <2>1, TablesAssumption
  <2> QED BY <2>1, <2>2
<1>5. \A a \in S : a.row.amount \in Int /\ a.row.date \in Int /\ a.id \in Int
    BY <1>4, CalendarAssumption, DashboardAssumption DEF Entry
<1>6. \A a, b \in S : a.id = b.id => a = b
    BY <1>4
<1> QED BY <1>3, <1>4, <1>5, <1>6 DEF Comparable

LEMMA InDashboardCurrencyIs ==
    ASSUME NEW p, NEW a, NEW e, NEW row \in Entry, a = [id |-> e, row |-> row],
           NEW b, b = InDashboardCurrency(p, a)
    PROVE  /\ b.id = e /\ b.row.date = row.date
           /\ b.row.amount = InTarget(p, row.amount, row.currency)
<1> PICK v : v = InTarget(p, row.amount, row.currency)
    OBVIOUS
<1>1. row = [amount |-> row.amount, currency |-> row.currency, date |-> row.date,
             category |-> row.category, merchant |-> row.merchant]
    BY DEF Entry
<1>2. a.row.amount = row.amount /\ a.row.currency = row.currency
    OBVIOUS
<1>3. b = [a EXCEPT !.row.amount = v]
    BY <1>2 DEF InDashboardCurrency
<1>4. b.id = e /\ b.row = [row EXCEPT !.amount = v]
    BY <1>3
<1> QED BY <1>1, <1>4

\* Of the largest Expenses of each currency, the largest of all is found.
LEMMA ExpenseIsLargest ==
    ASSUME NEW p, PageTyped(p), NEW table \in Tables, NEW R, R = RowsOf(p, "largest"),
           R \subseteq Candidates(table), \A a \in R : Counts(p, a.row.currency),
           NEW a \in R
    PROVE  \E f \in LargestOf(p) :
               InTarget(p, a.row.amount, a.row.currency)
                   =< InTarget(p, f.row.amount, f.row.currency)
<1> DEFINE in(b) == InDashboardCurrency(p, b)
           D == {in(b) : b \in R}
<1>1. /\ IsFiniteSet(R)
      /\ \A b \in R : b.id \in Expense /\ b.row \in Entry /\ b = [id |-> b.id, row |-> b.row]
      /\ \A b, c \in R : b.id = c.id => b = c
  <2>1. \A b \in R : b = [id |-> b.id, row |-> b.row]
    BY DEF Candidates
  <2> QED BY <2>1, CandidatesCompare DEF Comparable
<1>2. ASSUME NEW b \in R
      PROVE  /\ in(b).id = b.id /\ in(b).row.date \in Int /\ in(b).row.amount \in Int
             /\ in(b).row.amount = InTarget(p, b.row.amount, b.row.currency)
  <2> PICK row \in Entry : row = b.row
    BY <1>1
  <2> PICK e : e = b.id
    OBVIOUS
  <2>a. b = [id |-> e, row |-> row]
    BY <1>1
  <2>1. /\ in(b).id = e /\ in(b).row.date = row.date
        /\ in(b).row.amount = InTarget(p, row.amount, row.currency)
    BY <2>a, InDashboardCurrencyIs
  <2>2. row.amount \in Nat /\ row.currency \in Currency /\ row.date \in Int
    BY CalendarAssumption DEF Entry
  <2>3. Converted(p) => Convertible(p, row.currency)
    BY DEF Counts
  <2>4. InTarget(p, row.amount, row.currency) \in Int
    BY <2>2, <2>3, AmountsAreIntegers
  <2> QED BY <2>1, <2>2, <2>4
<1>3. LargestOf(p) = {b \in R : in(b) \in First(D)}
    BY DEF LargestOf
<1> HIDE DEF in
<1>4. Comparable(D) /\ D # {}
  <2> DEFINE w == [b \in R |-> in(b)]
  <2>1. w \in Surjection(R, D)
    BY DEF Surjection
  <2>2. IsFiniteSet(D)
    BY <1>1, <2>1, FS_Surjection
  <2>3. \A d \in D : d.row.amount \in Int /\ d.row.date \in Int /\ d.id \in Int
    BY <1>1, <1>2, DashboardAssumption
  <2>4. \A d, e \in D : d.id = e.id => d = e
    BY <1>1, <1>2
  <2> QED BY <2>2, <2>3, <2>4 DEF Comparable
<1>5. PICK d \in First(D) : \A b \in D : b.row.amount =< d.row.amount
    BY <1>4, FirstIsLargest
<1>6. d \in D
    BY DEF First
<1>7. PICK f \in R : d = in(f)
    BY <1>6
<1>8. f \in LargestOf(p)
    BY <1>3, <1>5, <1>7
<1>9. in(a).row.amount =< in(f).row.amount
    BY <1>5, <1>7
<1> QED BY <1>2, <1>8, <1>9

\* What every statement about the largest Expenses told.
LEMMA LargestWere ==
    ASSUME NEW p, NEW table \in Tables, NEW r, r.what = "largest", Wanted(p, r),
           r.rows = LargestIn(table, p.period, r.currency), NEW a \in r.rows
    PROVE  /\ a \in Candidates(table) /\ a.id \in ActiveIn(table, p.period, NoCurrency)
           /\ table[a.id] = a.row /\ a.row.currency = r.currency
           /\ Counts(p, a.row.currency)
<1> PICK c : c = r.currency
    OBVIOUS
<1>1. c \in Currency /\ Counts(p, c) /\ c # NoCurrency
    BY DashboardAssumption DEF Wanted
<1>2. PICK e \in ActiveIn(table, p.period, c) : a = [id |-> e, row |-> table[e]]
    BY DEF LargestIn, First
<1>3. e \in ActiveIn(table, p.period, NoCurrency) /\ table[e].currency = c
    BY <1>1, EntriesOf
<1>4. e \in Expense /\ table[e] # NoRow
    BY DEF ActiveIn
<1>5. a \in Candidates(table)
    BY <1>2, <1>4 DEF Candidates
<1> QED BY <1>1, <1>2, <1>3, <1>5

\* An Expense of a currency whose largest were asked for.
LEMMA LargestOfCurrency ==
    ASSUME NEW p, NEW table \in Tables, NEW c \in Currency,
           NEW e \in ActiveIn(table, p.period, NoCurrency), table[e].currency = c
    PROVE  \E a \in LargestIn(table, p.period, c) :
               table[e].amount =< a.row.amount /\ a.row \in Entry /\ a.row.currency = c
<1> DEFINE S == {[id |-> d, row |-> table[d]] : d \in ActiveIn(table, p.period, c)}
<1>1. \A d \in ActiveIn(table, p.period, c) : d \in Expense /\ table[d] # NoRow
    BY DEF ActiveIn
<1>2. S \subseteq Candidates(table)
    BY <1>1 DEF Candidates
<1>3. e \in ActiveIn(table, p.period, c)
    BY DEF ActiveIn
<1>4. [id |-> e, row |-> table[e]] \in S
    BY <1>3
<1>5. \A a \in S : a.row \in Entry /\ a.row.currency = c
  <2>1. \A d \in ActiveIn(table, p.period, c) : table[d] \in Entry /\ table[d].currency = c
    BY EntriesOf, DashboardAssumption
  <2> QED BY <2>1
<1>6. LargestIn(table, p.period, c) = First(S)
    BY DEF LargestIn
<1> HIDE DEF S
<1>7. Comparable(S)
    BY <1>2, CandidatesCompare
<1>8. PICK a \in First(S) : \A b \in S : b.row.amount =< a.row.amount
    BY <1>4, <1>7, FirstIsLargest
<1>9. a \in S
    BY DEF First
<1>10. table[e].amount =< a.row.amount
    BY <1>4, <1>8
<1> QED BY <1>5, <1>6, <1>9, <1>10

\* When nothing was committed meanwhile.
LEMMA InsightsOfOneTable ==
    ASSUME NEW p, PageTyped(p), p.todo = <<>>, p.selected # NoCurrency, NEW table \in Tables,
           InsightsToCome(p, {table}),
           NEW e \in ActiveIn(table, p.period, NoCurrency), Counts(p, table[e].currency)
    PROVE  /\ \E f \in Detail(p).largest_expense :
                  InTarget(p, table[e].amount, table[e].currency)
                      =< InTarget(p, f.row.amount, f.row.currency)
           /\ table[e].category # UNCATEGORIZED_KEY =>
                  \E largest \in Detail(p).largest_category :
                      /\ largest.key # UNCATEGORIZED_KEY
                      /\ \A g \in ToSet(Detail(p).categories) :
                            g.key # UNCATEGORIZED_KEY => g.total =< largest.total
<1>1. /\ NothingSkipped(p)
      /\ \A r \in p.read : Wanted(p, r) /\ TellsTheTruth(p, r, {table})
    BY DEF InsightsToCome, Unopened, Untouched
<1>2. \A what, c : AsksFor(p, what, c) => \E r \in p.read : r.what = what /\ r.currency = c
    BY DEF AsksFor, ToSet
<1>3. \A r \in p.read :
          /\ r.what = "currencies" =>
                 \A d \in ActiveIn(table, p.period, NoCurrency) :
                     \E g \in r.rows : g.currency = table[d].currency
          /\ r.what = "categories" => r.rows = ByCategory(table, p.period, SectionsIn(p))
          /\ r.what = "largest" => r.rows = LargestIn(table, p.period, r.currency)
    BY <1>1 DEF TellsTheTruth
<1> PICK c : c = table[e].currency
    OBVIOUS
<1>4. c \in Currency /\ table[e].amount \in Nat
    BY EntriesOf DEF Entry
<1> PICK R : R = RowsOf(p, "largest")
    OBVIOUS
<1> PICK largest_expense : largest_expense = Detail(p).largest_expense
    OBVIOUS
<1>5. largest_expense = LargestOf(p)
    BY DEF Detail
<1>6. ASSUME NEW a \in R PROVE a \in Candidates(table) /\ Counts(p, a.row.currency)
  <2>1. PICK r \in p.read : r.what = "largest" /\ a \in r.rows
    BY DEF RowsOf
  <2> QED BY <1>1, <1>3, <2>1, LargestWere
<1>7. \E f \in largest_expense :
          InTarget(p, table[e].amount, c) =< InTarget(p, f.row.amount, f.row.currency)
  <2>1. PICK r \in p.read : r.what = "currencies"
    BY <1>1 DEF NothingSkipped
  <2>2. PICK g \in r.rows : g.currency = c
    BY <1>3, <2>1
  <2>3. AsksFor(p, "largest", c)
    BY <1>1, <2>1, <2>2 DEF NothingSkipped
  <2>4. PICK s \in p.read : s.what = "largest" /\ s.currency = c
    BY <1>2, <2>3
  <2>5. s.rows = LargestIn(table, p.period, c)
    BY <1>3, <2>4
  <2>6. PICK a \in s.rows : table[e].amount =< a.row.amount /\ a.row \in Entry /\ a.row.currency = c
    BY <1>4, <2>5, LargestOfCurrency
  <2>7. a \in R
    BY <2>4 DEF RowsOf
  <2>8. PICK f \in LargestOf(p) :
            InTarget(p, a.row.amount, a.row.currency) =< InTarget(p, f.row.amount, f.row.currency)
    <3>1. R \subseteq Candidates(table) /\ \A b \in R : Counts(p, b.row.currency)
      BY <1>6
    <3> QED BY <2>7, <3>1, ExpenseIsLargest
  <2>9. f \in R
    BY DEF LargestOf
  <2>10. \A b \in R : InTarget(p, b.row.amount, b.row.currency) \in Int
    <3>1. ASSUME NEW b \in R PROVE InTarget(p, b.row.amount, b.row.currency) \in Int
      <4>1. b.row \in Entry
        BY <1>6, CandidatesCompare
      <4>2. b.row.amount \in Nat /\ b.row.currency \in Currency
        BY <4>1 DEF Entry
      <4>3. Converted(p) => Convertible(p, b.row.currency)
        BY <1>6 DEF Counts
      <4> QED BY <4>2, <4>3, AmountsAreIntegers
    <3> QED BY <3>1
  <2>11. InTarget(p, table[e].amount, c) =< InTarget(p, a.row.amount, c)
         /\ InTarget(p, table[e].amount, c) \in Int
    <3>1. Converted(p) => Convertible(p, c)
      BY DEF Counts
    <3>2. a.row.amount \in Nat
      BY <2>6 DEF Entry
    <3> QED BY <1>4, <2>6, <3>1, <3>2, ConversionKeepsOrder, AmountsAreIntegers
  <2>12. InTarget(p, table[e].amount, c) =< InTarget(p, f.row.amount, f.row.currency)
    BY <2>6, <2>7, <2>8, <2>9, <2>10, <2>11
  <2> QED BY <1>5, <2>12
<1>8. ASSUME table[e].category # UNCATEGORIZED_KEY
      PROVE  \E largest \in Detail(p).largest_category :
                 /\ largest.key # UNCATEGORIZED_KEY
                 /\ \A g \in ToSet(Detail(p).categories) :
                       g.key # UNCATEGORIZED_KEY => g.total =< largest.total
  <2>1. PICK r \in p.read : r.what = "categories"
    BY <1>1, <1>2 DEF NothingSkipped
  <2>2. RowsOf(p, "categories") = ByCategory(table, p.period, SectionsIn(p))
    <3>1. \A s \in p.read : s.what = "categories" =>
              s.rows = ByCategory(table, p.period, SectionsIn(p))
      BY <1>3
    <3> QED BY <2>1, <3>1 DEF RowsOf
  <2> PICK rows : rows = Counted(p, RowsOf(p, "categories"))
    OBVIOUS
  <2> PICK whole : whole = TotalOf(p, Counted(p, RowsOf(p, "currencies")))
    OBVIOUS
  <2> PICK categories : categories = Ranked(Shared(p, rows, whole))
    OBVIOUS
  <2>3. /\ Detail(p).categories = categories
        /\ Detail(p).largest_category = LargestCategory(categories)
    BY DEF Detail, Shared
  <2>4. \E largest \in LargestCategory(categories) :
            /\ largest.key # UNCATEGORIZED_KEY
            /\ \A g \in ToSet(categories) : g.key # UNCATEGORIZED_KEY => g.total =< largest.total
    BY <1>8, <2>2, CategoryIsLargest
  <2> QED BY <2>3, <2>4
<1> QED BY <1>7, <1>8

\* However the commits fall between the statements, the largest Expense that a page
\* shows was one of the Expenses it counts; and, when there were none, nothing that
\* it counts is worth more in its currency, and its largest category is the largest.
THEOREM InsightsHold == DashboardSpec => []InsightsAreTrue
<1>1. ASSUME WindowsInOrder, InsightsSound, Shown PROVE InsightsAreTrue
  <2> PICK p : p = Asks
    OBVIOUS
  <2>1. /\ PageTyped(p) /\ p.todo = <<>> /\ seen \subseteq Tables /\ InsightsToCome(p, seen)
        /\ p.selected # NoCurrency /\ page.detail = Detail(p)
    BY <1>1 DEF WindowsInOrder, InsightsSound, Shown, Asks
  <2>2. \A table, e : e \in Countable(table, p.period)
            <=> e \in ActiveIn(table, p.period, NoCurrency) /\ Counts(p, table[e].currency)
    BY DEF Countable, Counts
  <2>3. ASSUME NEW a \in page.detail.largest_expense
        PROVE  \E table \in seen : a.id \in Countable(table, p.period) /\ table[a.id] = a.row
    <3>1. a \in LargestOf(p)
      BY <2>1 DEF Detail
    <3>2. a \in RowsOf(p, "largest")
      BY <3>1 DEF LargestOf
    <3>3. PICK r \in p.read : r.what = "largest" /\ a \in r.rows
      BY <3>2 DEF RowsOf
    <3>4. Wanted(p, r) /\ TellsTheTruth(p, r, seen)
      BY <2>1, <3>3 DEF InsightsToCome, Unopened
    <3>5. PICK table \in seen : r.rows = LargestIn(table, p.period, r.currency)
      BY <3>3, <3>4 DEF TellsTheTruth
    <3>6. table \in Tables
      BY <2>1
    <3>7. /\ a.id \in ActiveIn(table, p.period, NoCurrency) /\ table[a.id] = a.row
          /\ Counts(p, a.row.currency)
      BY <3>3, <3>4, <3>5, <3>6, LargestWere
    <3> QED BY <2>2, <3>7
  <2>4. ASSUME NEW table \in seen, seen = {table}, NEW e \in Countable(table, p.period)
        PROVE  /\ \E f \in page.detail.largest_expense :
                      InTarget(p, table[e].amount, table[e].currency)
                          =< InTarget(p, f.row.amount, f.row.currency)
               /\ table[e].category # UNCATEGORIZED_KEY =>
                      \E largest \in page.detail.largest_category :
                          /\ largest.key # UNCATEGORIZED_KEY
                          /\ \A g \in ToSet(page.detail.categories) :
                                g.key # UNCATEGORIZED_KEY => g.total =< largest.total
    <3>1. /\ table \in Tables /\ InsightsToCome(p, {table})
          /\ e \in ActiveIn(table, p.period, NoCurrency) /\ Counts(p, table[e].currency)
      BY <2>1, <2>2, <2>4
    <3> QED BY <2>1, <3>1, InsightsOfOneTable
  <2> QED BY <2>3, <2>4 DEF InsightsAreTrue
<1>2. WindowsInOrder /\ InsightsSound => InsightsAreTrue
    BY <1>1 DEF InsightsAreTrue
<1> QED BY <1>2, WindowsInvariance, InsightsInvariance, PTL

-----------------------------------------------------------------------------
(* Sums of sums.                                                            *)

\* A finite set can be built by adding its elements one by one.
LEMMA Growing ==
    ASSUME NEW T, IsFiniteSet(T), NEW Q, {} \in Q,
           \A s \in SUBSET T : \A x \in s : s \ {x} \in Q => s \in Q
    PROVE  T \in Q
<1> DEFINE B == {s \in SUBSET T : s \notin Q}
<1>1. SUFFICES ASSUME B # {} PROVE FALSE
    OBVIOUS
<1> PICK C : C = B
    OBVIOUS
<1>2. C \in SUBSET (SUBSET T) /\ C # {}
    BY <1>1
<1>3. PICK s \in C : \A t \in SUBSET s : t # s => t \notin C
    BY <1>2, LeastSubset
<1>4. s \in SUBSET T /\ s \notin Q
    OBVIOUS
<1>5. PICK x \in s : TRUE
    BY <1>4
<1>6. s \ {x} \in SUBSET s /\ s \ {x} # s /\ s \ {x} \in SUBSET T
    BY <1>4
<1>7. s \ {x} \in Q
    BY <1>3, <1>6
<1> QED BY <1>4, <1>5, <1>7

\* What Total adds up, without a reference to how it was found.
LEMMA TotalIsSum ==
    ASSUME NEW f, NEW T, IsFiniteSet(T), Integral(f, T)
    PROVE  /\ Total(f, T) \in Int
           /\ \A x \in T : Total(f, T) = f[x] + Total(f, T \ {x})
<1>1. PICK g : Adds(f, T, g)
    BY SumsExist
<1>2. g[T] \in Int /\ \A x \in T : g[T] = f[x] + g[T \ {x}]
    BY <1>1, AnyFirst
<1>3. Total(f, T) = g[T]
    BY <1>1, TotalIs
<1>4. ASSUME NEW x \in T PROVE Total(f, T \ {x}) = g[T \ {x}]
  <2> PICK S : S = T \ {x}
    OBVIOUS
  <2>1. IsFiniteSet(S) /\ Under(S, S) /\ Under(S, T) /\ Alike(f, f, S)
    BY FS_Subset DEF Under, Alike
  <2>2. PICK k : Adds(f, S, k)
    BY <2>1, SumsExist
  <2>3. k[S] = g[S]
    BY <1>1, <2>1, <2>2, SameSum
  <2> QED BY <2>2, <2>3, TotalIs
<1> QED BY <1>2, <1>3, <1>4

\* What is added up in groups is added up: h says what each group comes to.
InGroups(h, f, T, m, U) == \A u \in U : h[u] = Total(f, {x \in T : m[x] = u})

LEMMA GroupsAddUp ==
    ASSUME NEW f, NEW T, IsFiniteSet(T), Integral(f, T), NEW m, NEW U, IsFiniteSet(U),
           \A x \in T : m[x] \in U, NEW h, InGroups(h, f, T, m, U)
    PROVE  Total(f, T) = Total(h, U) /\ Integral(h, U)
<1> DEFINE of(s) == [u \in U |-> Total(f, {x \in s : m[x] = u})]
           Q == {s \in SUBSET T : Total(f, s) = Total(of(s), U)}
<1>1. ASSUME NEW s \in SUBSET T
      PROVE  /\ IsFiniteSet(s) /\ Integral(f, s) /\ Integral(of(s), U)
             /\ \A u : IsFiniteSet({x \in s : m[x] = u}) /\ Integral(f, {x \in s : m[x] = u})
  <2>1. IsFiniteSet(s) /\ Integral(f, s)
    BY FS_Subset DEF Integral
  <2>2. ASSUME NEW u
        PROVE  IsFiniteSet({x \in s : m[x] = u}) /\ Integral(f, {x \in s : m[x] = u})
    <3>1. {x \in s : m[x] = u} \in SUBSET s
      OBVIOUS
    <3> QED BY <2>1, <3>1, FS_Subset DEF Integral
  <2>3. \A u : Total(f, {x \in s : m[x] = u}) \in Int
    BY <2>2, TotalIsSum
  <2> QED BY <2>1, <2>2, <2>3 DEF Integral
<1>2. {} \in Q
  <2>1. IsFiniteSet({}) /\ Integral(f, {}) /\ Total(f, {}) = 0
    BY FS_EmptySet, NothingAddsUp DEF Integral
  <2> PICK z : z = of({})
    OBVIOUS
  <2>2. \A u \in U : z[u] = 0
    <3>1. \A u : {x \in {} : m[x] = u} = {}
      OBVIOUS
    <3> QED BY <2>1, <3>1
  <2>3. Total(z, U) = 0
    <3> DEFINE R == {s \in SUBSET U : Total(z, s) = 0}
    <3>1. {} \in R
      BY NothingAddsUp
    <3>2. ASSUME NEW s \in SUBSET U, NEW x \in s, s \ {x} \in R PROVE s \in R
      <4>1. IsFiniteSet(s) /\ Integral(z, s)
        BY <2>2, FS_Subset DEF Integral
      <4>2. Total(z, s) = z[x] + Total(z, s \ {x})
        BY <4>1, TotalIsSum
      <4> QED BY <2>2, <3>2, <4>2
    <3> HIDE DEF R
    <3>3. U \in R
      BY <3>1, <3>2, Growing
    <3> QED BY <3>3 DEF R
  <2> QED BY <2>1, <2>3
<1>3. ASSUME NEW s \in SUBSET T, NEW y \in s, s \ {y} \in Q PROVE s \in Q
  <2> PICK t \in SUBSET T : t = s \ {y}
    OBVIOUS
  <2> PICK v \in U : v = m[y]
    OBVIOUS
  <2> PICK a, b : a = of(t) /\ b = of(s)
    OBVIOUS
  <2>1. Total(f, s) = f[y] + Total(f, t) /\ f[y] \in Int
    BY <1>1, TotalIsSum DEF Integral
  <2>2. \A u \in U \ {v} : b[u] = a[u]
    <3>1. \A u \in U \ {v} : {x \in s : m[x] = u} = {x \in t : m[x] = u}
      OBVIOUS
    <3> QED BY <3>1
  <2>3. b[v] = f[y] + a[v]
    <3> PICK G, H : G = {x \in s : m[x] = v} /\ H = {x \in t : m[x] = v}
      OBVIOUS
    <3>1. y \in G /\ H = G \ {y} /\ IsFiniteSet(G) /\ Integral(f, G)
      BY <1>1
    <3>2. Total(f, G) = f[y] + Total(f, H)
      BY <3>1, TotalIsSum
    <3> QED BY <3>2
  <2> PICK W : W = U \ {v}
    OBVIOUS
  <2> HIDE DEF of, Q
  <2>4. Total(a, W) = Total(b, W)
    <3>1. IsFiniteSet(W) /\ \A u \in W : a[u] = b[u]
      BY <2>2, FS_Subset
    <3> QED BY <3>1, SameTotal
  <2>5. /\ Integral(a, U) /\ Integral(b, U)
        /\ Total(a, U) = a[v] + Total(a, W) /\ Total(b, U) = b[v] + Total(b, W)
    <3>1. Integral(a, U) /\ Integral(b, U)
      BY <1>1
    <3> QED BY <3>1, TotalIsSum
  <2>6. Integral(a, W)
    BY <2>5 DEF Integral
  <2>7. Total(a, W) \in Int /\ a[v] \in Int
    <3>1. IsFiniteSet(W)
      BY FS_Subset
    <3> QED BY <2>5, <2>6, <3>1, TotalIsSum DEF Integral
  <2>8. Total(f, t) = Total(a, U)
    BY <1>3 DEF Q
  <2>9. Total(f, s) = Total(b, U)
    BY <2>1, <2>3, <2>4, <2>5, <2>7, <2>8
  <2> QED BY <2>9 DEF Q
<1> PICK k : k = of(T)
    OBVIOUS
<1> HIDE DEF Q
<1>4. T \in Q
    BY <1>2, <1>3, Growing
<1>5. Total(f, T) = Total(k, U) /\ Integral(k, U)
    BY <1>1, <1>4 DEF Q
<1>6. \A u \in U : k[u] = h[u]
    BY DEF InGroups
<1> HIDE DEF of
<1>7. Total(k, U) = Total(h, U)
    BY <1>6, SameTotal
<1> QED BY <1>5, <1>6, <1>7 DEF Integral

\* As many as there are.
LEMMA OnesAddUp ==
    ASSUME NEW T, IsFiniteSet(T), NEW f, \A x \in T : f[x] = 1
    PROVE  Total(f, T) = Cardinality(T)
<1> DEFINE Q == {s \in SUBSET T : Total(f, s) = Cardinality(s)}
<1>1. {} \in Q
    BY NothingAddsUp, FS_EmptySet
<1>2. ASSUME NEW s \in SUBSET T, NEW x \in s, s \ {x} \in Q PROVE s \in Q
  <2>1. IsFiniteSet(s) /\ Integral(f, s)
    BY FS_Subset DEF Integral
  <2>2. Total(f, s) = f[x] + Total(f, s \ {x})
    BY <2>1, TotalIsSum
  <2>3. Cardinality(s \ {x}) = Cardinality(s) - 1 /\ Cardinality(s) \in Nat
    BY <2>1, FS_RemoveElement, FS_CardinalityType
  <2> QED BY <1>2, <2>2, <2>3
<1> HIDE DEF Q
<1>3. T \in Q
    BY <1>1, <1>2, Growing
<1> QED BY <1>3 DEF Q

\* Sums differ by no more than their terms do.
Close(a, b, bound) == 2 * (a - b) =< bound /\ 2 * (b - a) =< bound

LEMMA SumsAreClose ==
    ASSUME NEW T, IsFiniteSet(T), NEW f, NEW g, NEW h,
           Integral(f, T), Integral(g, T), Integral(h, T),
           \A x \in T : Close(f[x], g[x], h[x])
    PROVE  Close(Total(f, T), Total(g, T), Total(h, T))
<1> DEFINE Q == {s \in SUBSET T : Close(Total(f, s), Total(g, s), Total(h, s))}
<1>1. {} \in Q
    BY NothingAddsUp DEF Close
<1>2. ASSUME NEW s \in SUBSET T, NEW x \in s, s \ {x} \in Q PROVE s \in Q
  <2> PICK t : t = s \ {x}
    OBVIOUS
  <2>1. IsFiniteSet(s) /\ Integral(f, s) /\ Integral(g, s) /\ Integral(h, s)
    BY FS_Subset DEF Integral
  <2>2. IsFiniteSet(t) /\ Integral(f, t) /\ Integral(g, t) /\ Integral(h, t)
    BY <2>1, FS_Subset DEF Integral
  <2>3. /\ Total(f, s) = f[x] + Total(f, t) /\ Total(f, t) \in Int
        /\ Total(g, s) = g[x] + Total(g, t) /\ Total(g, t) \in Int
        /\ Total(h, s) = h[x] + Total(h, t) /\ Total(h, t) \in Int
    BY <2>1, <2>2, TotalIsSum
  <2>4. f[x] \in Int /\ g[x] \in Int /\ h[x] \in Int
    BY DEF Integral
  <2>5. Close(f[x], g[x], h[x]) /\ Close(Total(f, t), Total(g, t), Total(h, t))
    BY <1>2
  <2>6. Close(Total(f, s), Total(g, s), Total(h, s))
    BY <2>3, <2>4, <2>5 DEF Close
  <2> QED BY <2>6
<1> HIDE DEF Q
<1>3. T \in Q
    BY <1>1, <1>2, Growing
<1> QED BY <1>3 DEF Q

-----------------------------------------------------------------------------
(* Amounts that were rounded.                                               *)

\* Signs of products, which the provers need in steps.
LEMMA PositiveProduct ==
    ASSUME NEW d \in Nat \ {0}, NEW y \in Int, d * y =< 0
    PROVE  y =< 0
<1>1. SUFFICES ASSUME y > 0 PROVE FALSE
    OBVIOUS
<1>2. PICK z \in Nat : y = z + 1
    BY <1>1
<1>3. d * (z + 1) = d * z + d
    OBVIOUS
<1>4. d * z \in Nat
    BY Product
<1> QED BY <1>2, <1>3, <1>4

LEMMA CloseWhenScaled ==
    ASSUME NEW d \in Nat \ {0}, NEW a \in Int, NEW b \in Int, NEW bound \in Int,
           NEW A, NEW B, NEW N, A = d * a, B = d * b, N = d * bound, Close(A, B, N)
    PROVE  Close(a, b, bound)
<1>1. /\ d * (2 * (a - b) - bound) = 2 * (d * a - d * b) - d * bound
      /\ d * (2 * (b - a) - bound) = 2 * (d * b - d * a) - d * bound
    OBVIOUS
<1>2. d * a \in Int /\ d * b \in Int /\ d * bound \in Int
    OBVIOUS
<1>3. d * (2 * (a - b) - bound) =< 0 /\ d * (2 * (b - a) - bound) =< 0
    BY <1>1, <1>2 DEF Close
<1>4. 2 * (a - b) - bound =< 0 /\ 2 * (b - a) - bound =< 0
    BY <1>3, PositiveProduct
<1> QED BY <1>4 DEF Close

\* Half a unit at most is lost.
LEMMA RoundedIsClose ==
    ASSUME NEW n \in Nat, NEW d \in Nat \ {0}
    PROVE  RoundHalfEven(n, d) \in Int /\ Close(d * RoundHalfEven(n, d), n, d)
<1> PICK q \in Nat, r \in Nat : q = n \div d /\ r = n % d
    BY Division
<1>1. n = q * d + r /\ r < d
    BY Division
<1>2. RoundHalfEven(n, d) = IF 2 * r < d \/ (2 * r = d /\ q % 2 = 0) THEN q ELSE q + 1
    BY DEF RoundHalfEven
<1>3. d * (q + 1) = q * d + d /\ d * q = q * d /\ q * d \in Int
    BY Product
<1>4. CASE RoundHalfEven(n, d) = q /\ 2 * r =< d
  <2> PICK v : v = q * d
    OBVIOUS
  <2>1. d * RoundHalfEven(n, d) = v /\ n = v + r /\ v \in Int
    BY <1>1, <1>3, <1>4
  <2> QED BY <1>1, <1>4, <2>1 DEF Close
<1>5. CASE RoundHalfEven(n, d) = q + 1 /\ 2 * r >= d
  <2> PICK v : v = q * d
    OBVIOUS
  <2>1. d * RoundHalfEven(n, d) = v + d /\ n = v + r /\ v \in Int
    BY <1>1, <1>3, <1>5
  <2> QED BY <1>1, <1>5, <2>1 DEF Close
<1> QED BY <1>2, <1>4, <1>5

LEMMA SumsScale ==
    ASSUME NEW T, IsFiniteSet(T), NEW f, Integral(f, T), NEW d \in Int,
           NEW h, \A x \in T : h[x] = d * f[x]
    PROVE  Integral(h, T) /\ Total(h, T) = d * Total(f, T)
<1> DEFINE Q == {s \in SUBSET T : Total(h, s) = d * Total(f, s)}
<1>1. Integral(h, T)
  <2>1. ASSUME NEW x \in T PROVE h[x] \in Int
    <3>1. f[x] \in Int
      BY DEF Integral
    <3> QED BY <3>1
  <2> QED BY <2>1 DEF Integral
<1>2. {} \in Q
    BY NothingAddsUp
<1>3. ASSUME NEW s \in SUBSET T, NEW x \in s, s \ {x} \in Q PROVE s \in Q
  <2> PICK t : t = s \ {x}
    OBVIOUS
  <2>1. IsFiniteSet(s) /\ Integral(f, s) /\ Integral(h, s)
    BY <1>1, FS_Subset DEF Integral
  <2>2. IsFiniteSet(t) /\ Integral(f, t)
    BY <2>1, FS_Subset DEF Integral
  <2>3. Total(f, s) = f[x] + Total(f, t) /\ Total(h, s) = h[x] + Total(h, t)
    BY <2>1, TotalIsSum
  <2>4. f[x] \in Int /\ Total(f, t) \in Int
    BY <2>2, TotalIsSum DEF Integral
  <2>5. Total(h, t) = d * Total(f, t) /\ h[x] = d * f[x]
    BY <1>3
  <2>6. d * (f[x] + Total(f, t)) = d * f[x] + d * Total(f, t)
    BY <2>4
  <2>7. Total(h, s) = d * Total(f, s)
    BY <2>3, <2>5, <2>6
  <2> QED BY <2>7
<1> HIDE DEF Q
<1>4. T \in Q
    BY <1>2, <1>3, Growing
<1> QED BY <1>1, <1>4 DEF Q

\* Rounding the terms or rounding their sum: half a unit for each.
LEMMA RoundingsAreClose ==
    ASSUME NEW T, IsFiniteSet(T), NEW f, \A x \in T : f[x] \in Nat, NEW d \in Nat \ {0},
           NEW q, \A x \in T : q[x] = RoundHalfEven(f[x], d),
           NEW sum \in Nat, sum = Total(f, T)
    PROVE  /\ Integral(q, T) /\ RoundHalfEven(sum, d) \in Int
           /\ Close(Total(q, T), RoundHalfEven(sum, d), Cardinality(T) + 1)
<1> DEFINE g == [x \in T |-> d * q[x]]
           one == [x \in T |-> 1]
           h == [x \in T |-> d * one[x]]
<1> PICK R : R = RoundHalfEven(sum, d)
    OBVIOUS
<1>1. \A x \in T : q[x] \in Int /\ Close(d * q[x], f[x], d)
    BY RoundedIsClose
<1>2. Integral(q, T) /\ Integral(f, T) /\ Integral(one, T)
    BY <1>1 DEF Integral
<1>3. R \in Int /\ Close(d * R, sum, d)
    BY RoundedIsClose
<1>4. (\A x \in T : g[x] = d * q[x]) /\ (\A x \in T : h[x] = d * one[x])
    OBVIOUS
<1>a. \A x \in T : h[x] = d
    OBVIOUS
<1> PICK n \in Nat : n = Cardinality(T)
    BY FS_CardinalityType
<1>b. Total(one, T) = n
  <2>1. \A x \in T : one[x] = 1
    OBVIOUS
  <2> HIDE DEF one
  <2> QED BY <2>1, OnesAddUp
<1>c. Total(q, T) \in Int
    BY <1>2, TotalIsSum
<1> PICK Q \in Int : Q = Total(q, T)
    BY <1>c
<1> HIDE DEF g, h, one
<1>5. Integral(g, T) /\ Total(g, T) = d * Q
    BY <1>2, <1>4, SumsScale
<1>6. Integral(h, T) /\ Total(h, T) = d * n
    BY <1>2, <1>4, <1>b, SumsScale
<1>7. Close(d * Q, sum, d * n)
  <2>1. \A x \in T : Close(g[x], f[x], h[x])
    BY <1>1, <1>4, <1>a
  <2> QED BY <1>2, <1>5, <1>6, <2>1, SumsAreClose
<1> PICK m \in Nat : m = n + 1
    OBVIOUS
<1>8. Close(Q, R, m)
  <2> PICK A, B, N, M : A = d * Q /\ B = d * R /\ N = d * n /\ M = d * m
    OBVIOUS
  <2>1. M = N + d /\ A \in Int /\ B \in Int /\ N \in Int
    BY <1>3
  <2>2. Close(A, B, M)
    BY <1>3, <1>7, <2>1 DEF Close
  <2> PICK r \in Int : r = R
    BY <1>3
  <2> PICK k \in Int : k = m
    OBVIOUS
  <2>3. A = d * Q /\ B = d * r /\ M = d * k /\ Close(A, B, M)
    BY <2>2
  <2>4. \A x \in Nat \ {0}, y, z, w \in Int : \A X, Y, Z :
            X = x * y /\ Y = x * z /\ Z = x * w /\ Close(X, Y, Z) => Close(y, z, w)
    BY CloseWhenScaled
  <2>5. Close(Q, r, k)
    BY <2>3, <2>4
  <2> QED BY <2>5
<1> QED BY <1>2, <1>3, <1>8

-----------------------------------------------------------------------------
(* The groups that the statements give.                                     *)

\* Sums term by term, and sums of ones.
LEMMA TermsAddUp ==
    ASSUME NEW T, IsFiniteSet(T), NEW f, NEW g, Integral(f, T), Integral(g, T),
           NEW h, \A x \in T : h[x] = f[x] + g[x]
    PROVE  Integral(h, T) /\ Total(h, T) = Total(f, T) + Total(g, T)
<1> DEFINE Q == {s \in SUBSET T : Total(h, s) = Total(f, s) + Total(g, s)}
<1>1. \A x \in T : f[x] \in Int /\ g[x] \in Int /\ h[x] \in Int
    BY DEF Integral
<1>2. {} \in Q
    BY NothingAddsUp
<1>3. ASSUME NEW s \in SUBSET T, NEW x \in s, s \ {x} \in Q PROVE s \in Q
  <2> PICK t \in SUBSET T : t = s \ {x}
    OBVIOUS
  <2>1. /\ IsFiniteSet(s) /\ Integral(f, s) /\ Integral(g, s) /\ Integral(h, s)
        /\ IsFiniteSet(t) /\ Integral(f, t) /\ Integral(g, t)
    BY <1>1, FS_Subset DEF Integral
  <2>2. /\ Total(f, s) = f[x] + Total(f, t) /\ Total(g, s) = g[x] + Total(g, t)
        /\ Total(h, s) = h[x] + Total(h, t)
        /\ Total(f, t) \in Int /\ Total(g, t) \in Int
    BY <2>1, TotalIsSum
  <2>3. Total(h, t) = Total(f, t) + Total(g, t) /\ h[x] = f[x] + g[x]
    BY <1>3
  <2>4. f[x] \in Int /\ g[x] \in Int
    BY <1>1
  <2>5. Total(h, s) = Total(f, s) + Total(g, s)
    BY <2>2, <2>3, <2>4
  <2> QED BY <2>5
<1> HIDE DEF Q
<1>4. T \in Q
    BY <1>2, <1>3, Growing
<1> QED BY <1>1, <1>4 DEF Q, Integral

LEMMA SomeAddUp ==
    ASSUME NEW T, IsFiniteSet(T), NEW A \in SUBSET T, NEW f,
           \A x \in T : f[x] = IF x \in A THEN 1 ELSE 0
    PROVE  Integral(f, T) /\ Total(f, T) = Cardinality(A)
<1> DEFINE Q == {s \in SUBSET T : Total(f, s) = Cardinality(s \cap A)}
<1>1. {} \in Q
  <2>1. {} \cap A = {}
    OBVIOUS
  <2> QED BY <2>1, NothingAddsUp, FS_EmptySet
<1>2. ASSUME NEW s \in SUBSET T, NEW x \in s, s \ {x} \in Q PROVE s \in Q
  <2> PICK t : t = s \ {x}
    OBVIOUS
  <2> PICK B, C : B = s \cap A /\ C = t \cap A
    OBVIOUS
  <2>1. IsFiniteSet(s) /\ Integral(f, s)
    BY FS_Subset DEF Integral
  <2>2. Total(f, s) = f[x] + Total(f, t)
    BY <2>1, TotalIsSum
  <2>3. B \in SUBSET s
    OBVIOUS
  <2>4. IsFiniteSet(B)
    BY <2>1, <2>3, FS_Subset
  <2>5. Total(f, t) = Cardinality(C)
    BY <1>2
  <2>6. Cardinality(B) \in Nat
    BY <2>4, FS_CardinalityType
  <2>7. Cardinality(B) = f[x] + Cardinality(C)
    <3>1. CASE x \in A
      <4>1. x \in B /\ C = B \ {x} /\ f[x] = 1
        BY <3>1
      <4>2. Cardinality(B \ {x}) = Cardinality(B) - 1
        BY <2>4, <4>1, FS_RemoveElement
      <4>3. Cardinality(C) = Cardinality(B) - 1
        BY <4>1, <4>2
      <4> QED BY <2>6, <4>1, <4>3
    <3>2. CASE x \notin A
      <4>1. C = B /\ f[x] = 0
        BY <3>2
      <4> QED BY <2>6, <4>1
    <3> QED BY <3>1, <3>2
  <2> QED BY <2>2, <2>5, <2>7
<1> HIDE DEF Q
<1>3. T \in Q
    BY <1>1, <1>2, Growing
<1>4. T \cap A = A
    OBVIOUS
<1> QED BY <1>3, <1>4 DEF Q, Integral

\* What rows, or the parts of a page, add up to.
SumOf(parts) == MapThenSumSet(LAMBDA g : g.total, parts)

LEMMA SumIs ==
    ASSUME NEW rows, IsFiniteSet(rows)
    PROVE  SumOf(rows) = Total([r \in rows |-> r.total], rows)
<1> DEFINE f == [r \in rows |-> r.total]
           G == CHOOSE g : g = [s \in SUBSET rows |->
                    IF s = {} THEN 0 ELSE Picked(s).total + g[s \ {Picked(s)}]]
<1>1. SumOf(rows) = G[rows]
    BY DEF SumOf, MapThenSumSet, MapThenFoldSet, Picked
<1>2. ASSUME NEW g
      PROVE  Sums(f, SUBSET rows, g)
             <=> g = [s \in SUBSET rows |->
                    IF s = {} THEN 0 ELSE Picked(s).total + g[s \ {Picked(s)}]]
  <2>1. \A s \in SUBSET rows : s # {} => f[Picked(s)] = Picked(s).total
    BY Picking
  <2> QED BY <2>1 DEF Sums
<1> HIDE DEF f
<1>3. PICK g : Sums(f, SUBSET rows, g)
    BY SumsExist DEF Adds
<1>4. Sums(f, SUBSET rows, G)
    BY <1>2, <1>3
<1> QED BY <1>1, <1>4, TotalIs DEF Adds, f

\* The Expenses in S that a row of a grouping is about.
Members(table, S, key, r) == {e \in S : table[e].currency = r.currency /\ key[e] = r.key}

\* The rows group the Expenses in S by their currency and a key.
Grouping(rows, table, S, key) ==
    /\ IsFiniteSet(S) /\ IsFiniteSet(rows)
    /\ \A e \in S : table[e].amount \in Nat \ {0} /\ table[e].currency \in Currency
    /\ \A r \in rows : /\ r.total = AmountOf(table, Members(table, S, key, r))
                       /\ r.count = Cardinality(Members(table, S, key, r))
                       /\ Members(table, S, key, r) # {}
    /\ \A e \in S : \E r \in rows : r.currency = table[e].currency /\ r.key = key[e]
    /\ \A r, s \in rows : r.currency = s.currency /\ r.key = s.key => r = s

\* The Expenses of some of the rows.
Behind(R, table, S, key) == {e \in S : \E r \in R : e \in Members(table, S, key, r)}

\* Some rows of a grouping come to what the Expenses behind them do.
LEMMA MembersAddUp ==
    ASSUME NEW rows, NEW table, NEW S, NEW key, Grouping(rows, table, S, key),
           NEW R \in SUBSET rows, NEW T, T = Behind(R, table, S, key)
    PROVE  /\ SumOf(R) = AmountOf(table, T) /\ AmountOf(table, T) \in Nat
           /\ CountOf(R) = Cardinality(T)
<1> DEFINE in(r) == Members(table, S, key, r)
           f == [e \in T |-> table[e].amount]
           h == [r \in R |-> r.total]
           one == [e \in T |-> 1]
           n == [r \in R |-> r.count]
           m == [e \in T |-> CHOOSE r \in R : e \in in(r)]
<1>1. /\ IsFiniteSet(T) /\ IsFiniteSet(R) /\ T \in SUBSET S
      /\ \A e \in T : table[e].amount \in Nat \ {0}
  <2>1. T \in SUBSET S
    BY DEF Behind
  <2> QED BY <2>1, FS_Subset DEF Grouping
<1>2. ASSUME NEW e \in T PROVE m[e] \in R /\ e \in in(m[e])
  <2>1. \E r \in R : e \in in(r)
    BY DEF Behind
  <2> QED BY <2>1
<1>3. ASSUME NEW r \in R
      PROVE  /\ in(r) \in SUBSET T /\ IsFiniteSet(in(r)) /\ {e \in T : m[e] = r} = in(r)
             /\ r.total = AmountOf(table, in(r)) /\ r.count = Cardinality(in(r))
  <2>1. in(r) \in SUBSET T
    BY DEF Behind, Members
  <2>2. ASSUME NEW e \in in(r) PROVE m[e] = r
    <3>1. e \in T /\ m[e] \in R /\ e \in in(m[e])
      BY <1>2, <2>1
    <3>2. m[e].currency = r.currency /\ m[e].key = r.key
      BY <3>1 DEF Members
    <3> QED BY <3>1, <3>2 DEF Grouping
  <2>3. \A e \in T : m[e] = r => e \in in(r)
    BY <1>2
  <2>4. {e \in T : m[e] = r} = in(r)
    <3> HIDE DEF in, m
    <3> QED BY <2>1, <2>2, <2>3
  <2>5. r.total = AmountOf(table, in(r)) /\ r.count = Cardinality(in(r))
    BY DEF Grouping
  <2> HIDE DEF in, m
  <2> QED BY <1>1, <2>1, <2>4, <2>5, FS_Subset
<1>4. Integral(f, T) /\ Integral(one, T) /\ Positive(f, T)
    BY <1>1 DEF Integral, Positive
<1> HIDE DEF m, in
<1>5. InGroups(h, f, T, m, R)
  <2>1. ASSUME NEW r \in R PROVE h[r] = Total(f, in(r))
    <3> PICK G : G = in(r)
      OBVIOUS
    <3>1. h[r] = AmountOf(table, G) /\ G \in SUBSET T /\ IsFiniteSet(G)
      BY <1>3
    <3> DEFINE g == [e \in G |-> table[e].amount]
    <3>2. AmountOf(table, G) = Total(g, G)
      BY <3>1, AmountIs
    <3>3. \A e \in G : g[e] = f[e]
      BY <3>1
    <3> HIDE DEF g, f
    <3> QED BY <3>1, <3>2, <3>3, SameTotal
  <2> HIDE DEF h, f
  <2> QED BY <1>3, <2>1 DEF InGroups
<1>6. InGroups(n, one, T, m, R)
  <2>1. ASSUME NEW r \in R PROVE n[r] = Total(one, in(r))
    <3> PICK G : G = in(r)
      OBVIOUS
    <3>1. n[r] = Cardinality(G) /\ G \in SUBSET T /\ IsFiniteSet(G)
      BY <1>3
    <3>2. \A e \in G : one[e] = 1
      BY <3>1
    <3> HIDE DEF one
    <3> QED BY <3>1, <3>2, OnesAddUp
  <2> HIDE DEF n, one
  <2> QED BY <1>3, <2>1 DEF InGroups
<1>7. \A e \in T : one[e] = 1
    OBVIOUS
<1>8. \A e \in T : m[e] \in R
    BY <1>2
<1>9. AmountOf(table, T) = Total(f, T) /\ CountOf(R) = Total(n, R)
      /\ SumOf(R) = Total(h, R)
    BY <1>1, AmountIs, CountIs, SumIs
<1> HIDE DEF f, h, one, n
<1>10. Total(f, T) = Total(h, R) /\ Total(one, T) = Total(n, R)
    BY <1>1, <1>4, <1>5, <1>6, <1>8, GroupsAddUp
<1>11. Total(f, T) \in Nat /\ Total(one, T) = Cardinality(T)
    BY <1>1, <1>4, <1>7, PositiveSum, OnesAddUp
<1> QED BY <1>9, <1>10, <1>11

LEMMA RowsAreTyped ==
    ASSUME NEW rows, NEW table, NEW S, NEW key, Grouping(rows, table, S, key), NEW r \in rows
    PROVE  /\ r.total \in Nat /\ r.count \in Nat \ {0} /\ r.currency \in Currency
           /\ \E e \in S : r.currency = table[e].currency /\ r.key = key[e]
           /\ Behind({r}, table, S, key) = Members(table, S, key, r)
<1>1. PICK e \in S : r.currency = table[e].currency /\ r.key = key[e]
    BY DEF Grouping, Members
<1>2. Behind({r}, table, S, key) = Members(table, S, key, r)
    BY DEF Behind, Members
<1>3. r.total \in Nat
  <2> PICK G : G = Behind({r}, table, S, key)
    OBVIOUS
  <2>1. {r} \in SUBSET rows
    OBVIOUS
  <2>2. AmountOf(table, G) \in Nat
    BY <2>1, MembersAddUp
  <2>3. r.total = AmountOf(table, G)
    BY <1>2 DEF Grouping
  <2> QED BY <2>2, <2>3
<1>4. r.count \in Nat \ {0}
  <2> PICK G : G = Members(table, S, key, r)
    OBVIOUS
  <2>1. IsFiniteSet(G) /\ G # {} /\ r.count = Cardinality(G)
    <3>1. IsFiniteSet(S) /\ G \in SUBSET S
      BY DEF Grouping, Members
    <3> QED BY <3>1, FS_Subset DEF Grouping
  <2> QED BY <2>1, FS_CardinalityType, FS_EmptySet
<1>5. r.currency \in Currency
    BY <1>1 DEF Grouping
<1> QED BY <1>1, <1>2, <1>3, <1>4, <1>5

-----------------------------------------------------------------------------
(* What the page converts, against what the Expenses are worth.             *)

\* A currency whose amounts are converted, and rounded.
Foreign(c) == Converted(Asks) /\ c # Asks.default

\* What is converted is rounded once, by a fixed ratio.
LEMMA ConversionRounds ==
    ASSUME NEW p, PageTyped(p), Converted(p), NEW c \in Currency, Convertible(p, c),
           c # p.default
    PROVE  \E k, d \in Nat \ {0} : \A a \in Nat : InTarget(p, a, c) = RoundHalfEven(k * a, d)
<1> DEFINE from == UnitsPerEur(p.rates, c)
           to == UnitsPerEur(p.rates, p.default)
           scale == Scale[p.default]
           d == Scale[c] * from
           k == scale * to
<1>1. /\ p.rates \in Published /\ p.default \in Currency /\ HasRate(p.rates, p.default)
      /\ HasRate(p.rates, c)
    BY DEF PageTyped, Convertible, CanConvert
<1>2. from \in Nat \ {0} /\ to \in Nat \ {0} /\ Scale[c] \in Nat \ {0} /\ scale \in Nat \ {0}
    BY <1>1, UnitsArePositive
<1>3. \A a : InTarget(p, a, c) = RoundHalfEven(a * scale * to, d)
    BY DEF InTarget, Convert
<1> HIDE DEF from, to, scale
<1>4. d \in Nat \ {0} /\ k \in Nat \ {0}
    BY <1>2, Product
<1>5. \A a \in Nat : a * scale * to = k * a
    BY <1>2
<1> HIDE DEF d, k
<1> QED BY <1>3, <1>4, <1>5

\* The rows of one currency, each converted, and their Expenses, converted at once.
LEMMA CurrencyIsClose ==
    ASSUME PageTyped(Asks), NEW rows, NEW table, NEW S, NEW key,
           Grouping(rows, table, S, key), NEW c \in Currency,
           Converted(Asks) => Convertible(Asks, c),
           NEW R, R = {r \in rows : r.currency = c},
           NEW h, \A r \in R : h[r] = InTarget(Asks, r.total, r.currency)
    PROVE  /\ IsFiniteSet(R) /\ Integral(h, R) /\ Part(table, S, c) \in Int
           /\ Close(Total(h, R), Part(table, S, c), IF Foreign(c) THEN Cardinality(R) + 1 ELSE 0)
<1> PICK T : T = Behind(R, table, S, key)
    OBVIOUS
<1> DEFINE a == [r \in R |-> r.total]
<1>1. R \in SUBSET rows /\ IsFiniteSet(R)
    BY FS_Subset DEF Grouping
<1>2. T = {e \in S : table[e].currency = c}
  <2>1. \A e \in S : \E r \in rows : r.currency = table[e].currency /\ r.key = key[e]
    BY DEF Grouping
  <2> QED BY <2>1 DEF Behind, Members
<1> PICK A : A = AmountOf(table, T)
    OBVIOUS
<1>3. Total(a, R) = A /\ A \in Nat
  <2>1. SumOf(R) = A /\ A \in Nat
    BY <1>1, MembersAddUp
  <2>2. SumOf(R) = Total(a, R)
    BY <1>1, SumIs
  <2> QED BY <2>1, <2>2
<1>4. \A r \in R : r.total \in Nat /\ r.currency = c
    BY RowsAreTyped
<1>5. \A r \in R : a[r] = r.total /\ h[r] = InTarget(Asks, a[r], c)
    BY <1>4
<1>6. Integral(a, R)
    BY <1>4, <1>5 DEF Integral
<1>7. Part(table, S, c) = InTarget(Asks, A, c)
    BY <1>2 DEF Part
<1> HIDE DEF a
<1>8. CASE ~Foreign(c)
  <2>1. \A n : InTarget(Asks, n, c) = n
    BY <1>8 DEF Foreign, InTarget, Convert
  <2>2. \A r \in R : h[r] = a[r]
    BY <1>5, <2>1
  <2>3. Total(h, R) = A
    BY <1>1, <1>3, <2>2, SameTotal
  <2>4. Part(table, S, c) = A
    BY <1>7, <2>1
  <2> QED BY <1>1, <1>3, <1>6, <1>8, <2>2, <2>3, <2>4 DEF Close, Integral
<1>9. CASE Foreign(c)
  <2>1. PICK k, d \in Nat \ {0} : \A n \in Nat : InTarget(Asks, n, c) = RoundHalfEven(k * n, d)
    BY <1>9, ConversionRounds DEF Foreign
  <2> DEFINE f == [r \in R |-> k * a[r]]
  <2>2. \A r \in R : f[r] = k * a[r] /\ a[r] \in Nat /\ f[r] \in Nat
    BY <1>4, <1>5, Product
  <2> HIDE DEF f
  <2> PICK sum : sum = Total(f, R)
    OBVIOUS
  <2>3. sum = k * A
    <3>1. (\A r \in R : f[r] = k * a[r]) /\ k \in Int
      BY <2>2
    <3>2. Total(f, R) = k * Total(a, R)
      BY <1>1, <1>6, <3>1, SumsScale
    <3> QED BY <1>3, <3>2
  <2>4. sum \in Nat
    BY <1>3, <2>3, Product
  <2>5. \A r \in R : h[r] = RoundHalfEven(f[r], d)
    BY <1>5, <2>1, <2>2
  <2>6. Part(table, S, c) = RoundHalfEven(sum, d)
    BY <1>3, <1>7, <2>1, <2>3
  <2>7. /\ Integral(h, R) /\ RoundHalfEven(sum, d) \in Int
        /\ Close(Total(h, R), RoundHalfEven(sum, d), Cardinality(R) + 1)
    <3>1. \A r \in R : f[r] \in Nat
      BY <2>2
    <3> QED BY <1>1, <2>4, <2>5, <3>1, RoundingsAreClose
  <2> QED BY <1>1, <1>9, <2>6, <2>7
<1> QED BY <1>8, <1>9

\* The rows, each converted, and the currencies, each converted at once.
LEMMA TotalsAreClose ==
    ASSUME PageTyped(Asks), NEW rows, NEW table, NEW S, NEW key,
           Grouping(rows, table, S, key),
           \A e \in S : Converted(Asks) => Convertible(Asks, table[e].currency),
           NEW F, F = {r \in rows : Foreign(r.currency)}
    PROVE  /\ TotalOf(Asks, rows) \in Int /\ TrueTotal(table, S) \in Int
           /\ Roundings(CurrenciesOf(table, S)) \in Nat
           /\ Close(TotalOf(Asks, rows), TrueTotal(table, S),
                    Cardinality(F) + Roundings(CurrenciesOf(table, S)))
<1> PICK C : C = CurrenciesOf(table, S)
    OBVIOUS
<1>0. \A r \in rows : \E e \in S : r.currency = table[e].currency
    BY DEF Grouping, Members
<1> DEFINE f == [r \in rows |-> InTarget(Asks, r.total, r.currency)]
           m == [r \in rows |-> r.currency]
           of(c) == {r \in rows : r.currency = c}
           a == [c \in C |-> Total(f, of(c))]
           b == [c \in C |-> Part(table, S, c)]
           o == [r \in rows |-> IF r \in F THEN 1 ELSE 0]
           x == [c \in C |-> Total(o, of(c))]
           y == [c \in C |-> IF Foreign(c) THEN 1 ELSE 0]
           z == [c \in C |-> x[c] + y[c]]
           G == {c \in C : Foreign(c)}
<1>1. IsFiniteSet(rows) /\ IsFiniteSet(S) /\ F \in SUBSET rows
    BY DEF Grouping
<1>2. IsFiniteSet(C)
  <2> DEFINE w == [e \in S |-> table[e].currency]
  <2>1. w \in Surjection(S, C)
    BY DEF CurrenciesOf, Surjection
  <2> HIDE DEF w
  <2> QED BY <1>1, <2>1, FS_Surjection
<1>3. \A c \in C : c \in Currency /\ (Converted(Asks) => Convertible(Asks, c))
    BY DEF CurrenciesOf, Grouping
<1>4. \A r \in rows : r.currency \in C
    BY <1>0 DEF CurrenciesOf
<1>5. ASSUME NEW c \in C
      PROVE  /\ IsFiniteSet(of(c)) /\ Integral(f, of(c)) /\ b[c] \in Int
             /\ Close(a[c], b[c], IF Foreign(c) THEN Cardinality(of(c)) + 1 ELSE 0)
  <2>1. \A r \in of(c) : f[r] = InTarget(Asks, r.total, r.currency)
    OBVIOUS
  <2>2. a[c] = Total(f, of(c)) /\ b[c] = Part(table, S, c)
    OBVIOUS
  <2> PICK R : R = of(c)
    OBVIOUS
  <2>3. R = {r \in rows : r.currency = c}
    OBVIOUS
  <2> HIDE DEF f, a, b, of
  <2>4. /\ IsFiniteSet(R) /\ Integral(f, R) /\ Part(table, S, c) \in Int
        /\ Close(Total(f, R), Part(table, S, c), IF Foreign(c) THEN Cardinality(R) + 1 ELSE 0)
    BY <1>3, <2>1, <2>3, CurrencyIsClose
  <2> QED BY <2>2, <2>4
<1>6. \A r \in rows : r \in of(m[r]) /\ m[r] \in C
    BY <1>4
<1>7. Integral(f, rows)
  <2> HIDE DEF f, a, b, of
  <2> QED BY <1>5, <1>6 DEF Integral
<1>8. \A c \in C : of(c) = {r \in rows : m[r] = c}
    OBVIOUS
<1>9. InGroups(a, f, rows, m, C) /\ InGroups(x, o, rows, m, C)
  <2>1. \A c \in C : a[c] = Total(f, of(c)) /\ x[c] = Total(o, of(c))
    OBVIOUS
  <2> HIDE DEF f, a, of, m, o, x
  <2> QED BY <1>8, <2>1 DEF InGroups
<1>10. \A r \in rows : o[r] = IF r \in F THEN 1 ELSE 0
    OBVIOUS
<1>11. \A c \in C : y[c] = IF c \in G THEN 1 ELSE 0
    OBVIOUS
<1>12. \A c \in C : z[c] = x[c] + y[c]
    OBVIOUS
<1>13. G \in SUBSET C
    OBVIOUS
<1>14. Cardinality(G) = Roundings(C)
  <2>1. CASE Converted(Asks)
    <3>1. G = C \ {Asks.default}
      BY <2>1 DEF Foreign
    <3> QED BY <2>1, <3>1 DEF Roundings
  <2>2. CASE ~Converted(Asks)
    <3>1. G = {}
      BY <2>2 DEF Foreign
    <3> QED BY <2>2, <3>1, FS_EmptySet DEF Roundings
  <2> QED BY <2>1, <2>2
<1>15. TotalOf(Asks, rows) = Total(f, rows) /\ TrueTotal(table, S) = Total(b, C)
    BY <1>1, <1>2, TotalOfIs, TrueTotalIs
<1>16. ASSUME NEW c \in C
       PROVE  z[c] = IF Foreign(c) THEN Cardinality(of(c)) + 1 ELSE 0
  <2> PICK R : R = of(c)
    OBVIOUS
  <2>1. x[c] = Total(o, R) /\ z[c] = x[c] + y[c] /\ IsFiniteSet(R)
    BY <1>5
  <2>2. CASE Foreign(c)
    <3>1. \A r \in R : o[r] = 1
      BY <2>2
    <3>2. Total(o, R) = Cardinality(R)
      <4> HIDE DEF o
      <4> QED BY <2>1, <3>1, OnesAddUp
    <3>3. y[c] = 1
      BY <2>2
    <3> QED BY <2>1, <2>2, <3>2, <3>3
  <2>3. CASE ~Foreign(c)
    <3>1. \A r \in R : o[r] = IF r \in {} THEN 1 ELSE 0
      BY <2>3
    <3>2. Total(o, R) = 0
      <4> HIDE DEF o
      <4> QED BY <2>1, <3>1, SomeAddUp, FS_EmptySet
    <3>3. y[c] = 0
      BY <2>3
    <3> QED BY <2>1, <2>3, <3>2, <3>3
  <2> QED BY <2>2, <2>3
<1> HIDE DEF f, m, of, a, b, o, x, y, z, G
<1>17. Total(f, rows) = Total(a, C) /\ Integral(a, C)
    BY <1>1, <1>2, <1>6, <1>7, <1>9, GroupsAddUp
<1>18. Integral(o, rows) /\ Total(o, rows) = Cardinality(F)
    BY <1>1, <1>10, SomeAddUp
<1>19. Total(o, rows) = Total(x, C) /\ Integral(x, C)
    BY <1>1, <1>2, <1>6, <1>9, <1>18, GroupsAddUp
<1>20. Integral(y, C) /\ Total(y, C) = Cardinality(G)
    BY <1>2, <1>11, <1>13, SomeAddUp
<1>21. Integral(z, C) /\ Total(z, C) = Total(x, C) + Total(y, C)
    BY <1>2, <1>12, <1>19, <1>20, TermsAddUp
<1>22. Integral(b, C)
    BY <1>5 DEF Integral
<1>23. Close(Total(a, C), Total(b, C), Total(z, C))
  <2>1. \A c \in C : Close(a[c], b[c], z[c])
    BY <1>5, <1>16
  <2> QED BY <1>2, <1>17, <1>21, <1>22, <2>1, SumsAreClose
<1>24. Total(a, C) \in Int /\ Total(b, C) \in Int
    BY <1>2, <1>17, <1>22, TotalIsSum
<1>25. Roundings(C) \in Nat
  <2>1. IsFiniteSet(G)
    BY <1>2, <1>13, FS_Subset
  <2> QED BY <1>14, <2>1, FS_CardinalityType
<1> QED BY <1>14, <1>15, <1>17, <1>18, <1>19, <1>20, <1>21, <1>23, <1>24, <1>25

-----------------------------------------------------------------------------
(* The parts of a section.                                                  *)

\* Rows that the page can tell in its currency, and that count something.
Telling(p, rows) ==
    /\ IsFiniteSet(rows)
    /\ \A r \in rows : InTarget(p, r.total, r.currency) \in Int /\ r.count \in Nat

LEMMA TellingTotals ==
    ASSUME NEW p, NEW rows, Telling(p, rows), NEW R \in SUBSET rows
    PROVE  Telling(p, R) /\ TotalOf(p, R) \in Int /\ CountOf(R) \in Int
<1> DEFINE f == [r \in R |-> InTarget(p, r.total, r.currency)]
           n == [r \in R |-> r.count]
<1>1. Telling(p, R)
    BY FS_Subset DEF Telling
<1>2. IsFiniteSet(R) /\ Integral(f, R) /\ Integral(n, R)
    BY <1>1 DEF Telling, Integral
<1>3. TotalOf(p, R) = Total(f, R) /\ CountOf(R) = Total(n, R)
    BY <1>2, TotalOfIs, CountIs
<1> HIDE DEF f, n
<1> QED BY <1>1, <1>2, <1>3, TotalIsSum

\* Parts that the rows are put into: in[r] is the part of a row.
Partition(parts, p, rows, in) ==
    /\ IsFiniteSet(parts) /\ \A r \in rows : in[r] \in parts
    /\ \A u \in parts : /\ u.total = TotalOf(p, {r \in rows : in[r] = u})
                        /\ u.count = CountOf({r \in rows : in[r] = u})

\* Nothing is lost or told twice between the rows and the parts made of them.
LEMMA PartsAreWhole ==
    ASSUME NEW p, NEW rows, Telling(p, rows), NEW parts, NEW in, Partition(parts, p, rows, in)
    PROVE  SumOf(parts) = TotalOf(p, rows) /\ CountOf(parts) = CountOf(rows)
<1> DEFINE f == [r \in rows |-> InTarget(p, r.total, r.currency)]
           n == [r \in rows |-> r.count]
           h == [u \in parts |-> u.total]
           k == [u \in parts |-> u.count]
           of(u) == {r \in rows : in[r] = u}
<1>1. IsFiniteSet(rows) /\ IsFiniteSet(parts) /\ Integral(f, rows) /\ Integral(n, rows)
    BY DEF Telling, Partition, Integral
<1>2. \A r \in rows : in[r] \in parts
    BY DEF Partition
<1>3. ASSUME NEW u \in parts PROVE h[u] = Total(f, of(u)) /\ k[u] = Total(n, of(u))
  <2> PICK R : R = of(u)
    OBVIOUS
  <2>1. R \in SUBSET rows /\ h[u] = TotalOf(p, R) /\ k[u] = CountOf(R)
    BY DEF Partition
  <2>2. IsFiniteSet(R)
    BY <1>1, <2>1, FS_Subset
  <2> DEFINE g == [r \in R |-> InTarget(p, r.total, r.currency)]
             l == [r \in R |-> r.count]
  <2>3. TotalOf(p, R) = Total(g, R) /\ CountOf(R) = Total(l, R)
    BY <2>2, TotalOfIs, CountIs
  <2>4. \A r \in R : g[r] = f[r] /\ l[r] = n[r]
    BY <2>1
  <2> HIDE DEF f, g, h, k, l, n, of
  <2>5. Total(g, R) = Total(f, R) /\ Total(l, R) = Total(n, R)
    BY <2>2, <2>4, SameTotal
  <2> QED BY <2>1, <2>3, <2>5
<1>4. InGroups(h, f, rows, in, parts) /\ InGroups(k, n, rows, in, parts)
  <2> HIDE DEF f, h, k, n
  <2> QED BY <1>3 DEF InGroups
<1>5. /\ TotalOf(p, rows) = Total(f, rows) /\ CountOf(rows) = Total(n, rows)
      /\ SumOf(parts) = Total(h, parts) /\ CountOf(parts) = Total(k, parts)
    BY <1>1, TotalOfIs, CountIs, SumIs
<1> HIDE DEF f, h, k, n, of
<1>6. Total(f, rows) = Total(h, parts) /\ Total(n, rows) = Total(k, parts)
    BY <1>1, <1>2, <1>4, GroupsAddUp
<1> QED BY <1>5, <1>6

\* Rows whose amounts count on the page.
Countables(S, table) == \A e \in S : Converted(Asks) => Convertible(Asks, table[e].currency)

LEMMA GroupsTell ==
    ASSUME PageTyped(Asks), NEW rows, NEW table, NEW S, NEW key,
           Grouping(rows, table, S, key), Countables(S, table)
    PROVE  Telling(Asks, rows) /\ CountOf(rows) = Cardinality(S)
<1>1. \A r \in rows : r.total \in Nat /\ r.count \in Nat /\ r.currency \in Currency
    BY RowsAreTyped
<1>2. \A r \in rows : \E e \in S : r.currency = table[e].currency
    BY DEF Grouping, Members
<1>3. ASSUME NEW r \in rows PROVE InTarget(Asks, r.total, r.currency) \in Int
  <2>1. Converted(Asks) => Convertible(Asks, r.currency)
    BY <1>2 DEF Countables
  <2> QED BY <1>1, <2>1, AmountsAreIntegers
<1>4. IsFiniteSet(rows)
    BY DEF Grouping
<1>5. Behind(rows, table, S, key) = S
    BY DEF Behind, Grouping, Members
<1>6. CountOf(rows) = Cardinality(S)
  <2>1. ASSUME NEW R \in SUBSET rows PROVE CountOf(R) = Cardinality(Behind(R, table, S, key))
    <3> PICK T : T = Behind(R, table, S, key)
      OBVIOUS
    <3>1. CountOf(R) = Cardinality(T)
      BY MembersAddUp
    <3> QED BY <3>1
  <2>2. rows \in SUBSET rows
    OBVIOUS
  <2>3. CountOf(rows) = Cardinality(Behind(rows, table, S, key))
    BY <2>1, <2>2
  <2> QED BY <1>5, <2>3
<1> QED BY <1>1, <1>3, <1>4, <1>6 DEF Telling

\* The groupings that PartsAddUp allows a rounding each.
LEMMA CellsAre ==
    ASSUME NEW rows, NEW table, NEW S, NEW key, Grouping(rows, table, S, key),
           NEW what, rows = Counted(Asks, RowsOf(Asks, what)),
           NEW F, F = {r \in rows : Foreign(r.currency)}
    PROVE  IsFiniteSet(F) /\ Cardinality(Groupings(what)) = Cardinality(F)
<1> DEFINE cell(r) == <<r.currency, r.key>>
           w == [r \in F |-> cell(r)]
<1>1. IsFiniteSet(F)
  <2>1. F \in SUBSET rows
    OBVIOUS
  <2> QED BY <2>1, FS_Subset DEF Grouping
<1>2. ASSUME NEW c PROVE Roundings({c}) = 1 <=> Foreign(c)
  <2>1. CASE Foreign(c)
    <3>1. {c} \ {Asks.default} = {c}
      BY <2>1 DEF Foreign
    <3>2. Cardinality({c}) = 1
      BY FS_Singleton
    <3> QED BY <2>1, <3>1, <3>2 DEF Foreign, Roundings
  <2>2. CASE ~Foreign(c)
    <3>1. Converted(Asks) => {c} \ {Asks.default} = {}
      BY <2>2 DEF Foreign
    <3> QED BY <2>2, <3>1, FS_EmptySet DEF Roundings
  <2> QED BY <2>1, <2>2
<1>3. F = {r \in rows : Roundings({r.currency}) = 1}
    BY <1>2
<1>4. Groupings(what) = {cell(r) : r \in F}
    BY <1>3 DEF Groupings
<1>5. \A r, s \in F : cell(r) = cell(s) => r = s
    BY DEF Grouping
<1>6. w \in Injection(F, Groupings(what)) /\ w \in Surjection(F, Groupings(what))
  <2> HIDE DEF cell
  <2>1. w \in [F -> Groupings(what)]
    BY <1>4
  <2>2. IsInjective(w)
    BY <1>5 DEF IsInjective
  <2>3. \A x \in Groupings(what) : \E r \in F : w[r] = x
    BY <1>4
  <2> HIDE DEF w
  <2> QED BY <2>1, <2>2, <2>3 DEF Injection, Surjection
<1> HIDE DEF w, cell
<1> QED BY <1>1, <1>6, FS_Surjection

\* Parts that are made of rows add up to what the Expenses do, but for rounding.
LEMMA PartsAreTrue ==
    ASSUME PageTyped(Asks), NEW table \in seen, NEW S, S = Countable(table, Asks.period),
           NEW rows, NEW key, Grouping(rows, table, S, key),
           NEW parts, NEW in, Partition(parts, Asks, rows, in),
           NEW what, NEW cells \in Nat, cells = Cardinality(Groupings(what)),
           NEW F, F = {r \in rows : Foreign(r.currency)},
           Cardinality(F) \in Nat, Cardinality(F) =< cells
    PROVE  TrueSum(parts, what)
<1>1. Countables(S, table)
    BY DEF Countables, Countable
<1>2. Telling(Asks, rows) /\ CountOf(rows) = Cardinality(S)
    BY <1>1, GroupsTell
<1>3. SumOf(parts) = TotalOf(Asks, rows) /\ CountOf(parts) = CountOf(rows)
    BY <1>2, PartsAreWhole
<1> PICK a, b, d, n : /\ a = TotalOf(Asks, rows) /\ b = TrueTotal(table, S)
                      /\ d = Roundings(CurrenciesOf(table, S)) /\ n = Cardinality(F)
    OBVIOUS
<1>4. a \in Int /\ b \in Int /\ d \in Nat /\ Close(a, b, n + d)
  <2>1. \A e \in S : Converted(Asks) => Convertible(Asks, table[e].currency)
    BY <1>1 DEF Countables
  <2> QED BY <2>1, TotalsAreClose
<1>5. 2 * Difference(a, b) =< cells + d
    BY <1>4 DEF Close, Difference
<1>6. 2 * Difference(MapThenSumSet(LAMBDA g : g.total, parts), TrueTotal(table, S))
          =< Cardinality(Groupings(what)) + Roundings(CurrenciesOf(table, S))
    BY <1>3, <1>5 DEF SumOf
<1> QED BY <1>2, <1>3, <1>6 DEF TrueSum

-----------------------------------------------------------------------------
(* The categories and the merchants.                                        *)

\* One part for each key of the rows.
OneForEachKey(parts, p, rows) ==
    /\ \A u \in parts : /\ u.total = TotalOf(p, {r \in rows : r.key = u.key})
                        /\ u.count = CountOf({r \in rows : r.key = u.key})
                        /\ \E r \in rows : r.key = u.key
    /\ \A r \in rows : \E u \in parts : u.key = r.key
    /\ \A u, v \in parts : u.key = v.key => u = v

LEMMA KeysArePartition ==
    ASSUME NEW p, NEW rows, Telling(p, rows), \A r \in rows : r.key \in Nat,
           NEW parts, OneForEachKey(parts, p, rows)
    PROVE  Rankable(parts) /\ \E in : Partition(parts, p, rows, in)
<1> DEFINE of(r) == CHOOSE u \in parts : u.key = r.key
           in == [r \in rows |-> of(r)]
<1>1. ASSUME NEW r \in rows PROVE of(r) \in parts /\ of(r).key = r.key
  <2>1. \E u \in parts : u.key = r.key
    BY DEF OneForEachKey
  <2> QED BY <2>1
<1> HIDE DEF of
<1>2. \A r \in rows : in[r] \in parts /\ in[r].key = r.key
    BY <1>1
<1>3. ASSUME NEW u \in parts PROVE {r \in rows : in[r] = u} = {r \in rows : r.key = u.key}
  <2>1. ASSUME NEW r \in rows, r.key = u.key PROVE in[r] = u
    BY <1>2, <2>1 DEF OneForEachKey
  <2> HIDE DEF in
  <2> QED BY <1>2, <2>1
<1>4. IsFiniteSet(parts)
  <2>1. in \in [rows -> parts]
    BY <1>1
  <2>2. ASSUME NEW u \in parts PROVE \E r \in rows : in[r] = u
    <3>1. PICK r \in rows : r.key = u.key
      BY DEF OneForEachKey
    <3>2. in[r] = u
      BY <1>2, <3>1 DEF OneForEachKey
    <3> QED BY <3>2
  <2> HIDE DEF in
  <2>3. in \in Surjection(rows, parts)
    BY <2>1, <2>2 DEF Surjection
  <2> QED BY <2>3, FS_Surjection DEF Telling
<1>5. Partition(parts, p, rows, in)
  <2> HIDE DEF in
  <2>1. ASSUME NEW u \in parts
        PROVE  /\ u.total = TotalOf(p, {r \in rows : in[r] = u})
               /\ u.count = CountOf({r \in rows : in[r] = u})
    BY <1>3 DEF OneForEachKey
  <2> QED BY <1>2, <1>4, <2>1 DEF Partition
<1>6. ASSUME NEW u \in parts PROVE u.total \in Int /\ u.key \in Int
  <2> PICK R : R = {r \in rows : r.key = u.key}
    OBVIOUS
  <2>1. R \in SUBSET rows
    OBVIOUS
  <2>2. TotalOf(p, R) \in Int
    BY <2>1, TellingTotals
  <2>3. u.total = TotalOf(p, R) /\ \E r \in rows : r.key = u.key
    BY DEF OneForEachKey
  <2> QED BY <2>2, <2>3
<1> HIDE DEF in
<1> QED BY <1>4, <1>5, <1>6 DEF Rankable, OneForEachKey

\* _combined gives one part for each key, as do the shares.
LEMMA CombinedForEachKey ==
    ASSUME NEW p, NEW rows
    PROVE  OneForEachKey(Combined(p, rows), p, rows)
<1> DEFINE at(k) == {g \in rows : g.key = k}
           one(k) == [key |-> k, total |-> TotalOf(p, at(k)), count |-> CountOf(at(k))]
           keys == {g.key : g \in rows}
<1>1. Combined(p, rows) = {one(k) : k \in keys}
    BY DEF Combined
<1>2. \A k : one(k).key = k /\ one(k).total = TotalOf(p, at(k)) /\ one(k).count = CountOf(at(k))
    OBVIOUS
<1> HIDE DEF one
<1>3. \A r \in rows : one(r.key) \in Combined(p, rows)
    BY <1>1
<1>4. \A u \in Combined(p, rows) : \E r \in rows : u = one(r.key)
    BY <1>1
<1> PICK M : M = Combined(p, rows)
    OBVIOUS
<1>5. ASSUME NEW u \in M
      PROVE  /\ u.total = TotalOf(p, at(u.key)) /\ u.count = CountOf(at(u.key))
             /\ \E r \in rows : r.key = u.key
  <2>1. PICK r \in rows : u = one(r.key)
    BY <1>4
  <2>2. u.key = r.key
    BY <1>2, <2>1
  <2> HIDE DEF at
  <2> QED BY <1>2, <2>1, <2>2
<1>6. \A r \in rows : \E u \in M : u.key = r.key
    BY <1>2, <1>3
<1>7. \A u, v \in M : u.key = v.key => u = v
    BY <1>2, <1>4
<1> QED BY <1>5, <1>6, <1>7 DEF OneForEachKey

LEMMA SharesForEachKey ==
    ASSUME NEW p, NEW rows, NEW whole
    PROVE  OneForEachKey(Shared(p, rows, whole), p, rows)
<1> DEFINE turned(g) == [key |-> g.key, total |-> g.total, count |-> g.count,
                         share |-> Share(g.total, whole)]
<1> PICK M, N : M = Combined(p, rows) /\ N = Shared(p, rows, whole)
    OBVIOUS
<1>1. N = {turned(g) : g \in M}
    BY DEF Shared
<1>2. \A g : turned(g).key = g.key /\ turned(g).total = g.total /\ turned(g).count = g.count
    OBVIOUS
<1> HIDE DEF turned
<1>3. OneForEachKey(M, p, rows)
    BY CombinedForEachKey
<1>4. ASSUME NEW u \in N
      PROVE  /\ u.total = TotalOf(p, {r \in rows : r.key = u.key})
             /\ u.count = CountOf({r \in rows : r.key = u.key})
             /\ \E r \in rows : r.key = u.key
  <2>1. PICK g \in M : u = turned(g)
    BY <1>1
  <2>2. u.key = g.key /\ u.total = g.total /\ u.count = g.count
    BY <1>2, <2>1
  <2>3. /\ g.total = TotalOf(p, {r \in rows : r.key = g.key})
        /\ g.count = CountOf({r \in rows : r.key = g.key})
        /\ \E r \in rows : r.key = g.key
    BY <1>3 DEF OneForEachKey
  <2> QED BY <2>2, <2>3
<1>5. ASSUME NEW r \in rows PROVE \E u \in N : u.key = r.key
  <2>1. PICK g \in M : g.key = r.key
    BY <1>3 DEF OneForEachKey
  <2> QED BY <1>1, <1>2, <2>1
<1>6. ASSUME NEW u \in N, NEW v \in N, u.key = v.key PROVE u = v
  <2>1. PICK g \in M, h \in M : u = turned(g) /\ v = turned(h)
    BY <1>1
  <2>2. g = h
    BY <1>2, <1>3, <1>6, <2>1 DEF OneForEachKey
  <2> QED BY <2>1, <2>2
<1> QED BY <1>4, <1>5, <1>6 DEF OneForEachKey

\* Ranking loses none.
LEMMA AllAreRanked ==
    ASSUME NEW S, Rankable(S)
    PROVE  ToSet(Ranked(S)) = S
<1> PICK s, n : s = Ranked(S) /\ n = Cardinality(S)
    OBVIOUS
<1>1. /\ DOMAIN s = 1 .. n /\ \A i \in 1 .. n : s[i] \in S
      /\ \A g \in S : \E i \in 1 .. n : s[i] = g
    BY RankedInOrder
<1> QED BY <1>1 DEF ToSet

LEMMA SectionOf ==
    ASSUME NEW N, NEW s, NEW m \in Int, NEW l \in Int, \A i \in m .. l : s[i] \in N
    PROVE  /\ ToSet(SubSeq(s, m, l)) = {s[i] : i \in m .. l}
           /\ Len(SubSeq(s, m, l)) = IF m =< l THEN l - m + 1 ELSE 0
<1> PICK t : t = SubSeq(s, m, l)
    OBVIOUS
<1>1. /\ t \in Seq(N) /\ Len(t) = IF m =< l THEN l - m + 1 ELSE 0
      /\ \A i \in 1 .. l - m + 1 : t[i] = s[m + i - 1]
    BY SubSeqProperties
<1>2. DOMAIN t = 1 .. l - m + 1
  <2>1. DOMAIN t = 1 .. Len(t)
    BY <1>1, LenProperties
  <2> QED BY <1>1, <2>1
<1>3. \A i \in 1 .. l - m + 1 : m + i - 1 \in m .. l
    OBVIOUS
<1>4. \A j \in m .. l : j - m + 1 \in 1 .. l - m + 1 /\ m + (j - m + 1) - 1 = j
    OBVIOUS
<1>5. ToSet(t) = {t[i] : i \in 1 .. l - m + 1}
    BY <1>2 DEF ToSet
<1>6. ASSUME NEW x \in ToSet(t) PROVE x \in {s[i] : i \in m .. l}
  <2>1. PICK i \in 1 .. l - m + 1 : x = t[i]
    BY <1>5
  <2> QED BY <1>1, <1>3, <2>1
<1>7. ASSUME NEW j \in m .. l PROVE s[j] \in ToSet(t)
  <2> PICK i \in 1 .. l - m + 1 : m + i - 1 = j
    BY <1>4
  <2>1. t[i] = s[j]
    BY <1>1
  <2> QED BY <1>5, <2>1
<1> QED BY <1>1, <1>6, <1>7

AllIn(s, n, N) == \A i \in 1 .. n : s[i] \in N
TopAndRestOf(s, n, k, top) ==
    /\ top \in Nat /\ top =< k /\ top =< n
    /\ ToSet(SubSeq(s, 1, top)) = {s[i] : i \in 1 .. top}
    /\ Len(SubSeq(s, 1, top)) = top
    /\ ToSet(SubSeq(s, k + 1, n)) = {s[i] : i \in k + 1 .. n}
    /\ \A i \in 1 .. n : i \in 1 .. top \/ i \in k + 1 .. n

\* A row that is cut in two has what it had.
LEMMA TopAndRestAreIn ==
    ASSUME NEW N, NEW n \in Nat, NEW s, AllIn(s, n, N), NEW k \in Nat,
           NEW top, top = Earlier(k, n)
    PROVE  TopAndRestOf(s, n, k, top)
<1>1. top \in Nat /\ top =< k /\ top =< n /\ (top = k \/ top = n)
    BY DEF Earlier
<1>2. (\A i \in 1 .. n : s[i] \in N) /\ \A i \in 1 .. top : s[i] \in N
    BY <1>1 DEF AllIn
<1>3. \A m, l \in Int : (\A i \in m .. l : s[i] \in N) =>
          /\ ToSet(SubSeq(s, m, l)) = {s[i] : i \in m .. l}
          /\ Len(SubSeq(s, m, l)) = IF m =< l THEN l - m + 1 ELSE 0
    BY SectionOf
<1> PICK one \in Int, t \in Int, m \in Int, l \in Int : one = 1 /\ t = top /\ m = k + 1 /\ l = n
    BY <1>1
<1>4. (\A i \in one .. t : s[i] \in N) /\ (\A i \in m .. l : s[i] \in N)
    BY <1>2
<1>5. /\ ToSet(SubSeq(s, one, t)) = {s[i] : i \in one .. t}
      /\ Len(SubSeq(s, one, t)) = IF one =< t THEN t - one + 1 ELSE 0
      /\ ToSet(SubSeq(s, m, l)) = {s[i] : i \in m .. l}
    BY <1>3, <1>4
<1>6. Len(SubSeq(s, one, t)) = top
    BY <1>1, <1>5
<1>7. \A i \in 1 .. n : i \in 1 .. top \/ i \in k + 1 .. n
    BY <1>1
<1> QED BY <1>1, <1>5, <1>6, <1>7 DEF TopAndRestOf

TopFirst(first, last, N) ==
    /\ ToSet(first) \union ToSet(last) = N
    /\ Len(first) =< TOP_MERCHANT_COUNT
    /\ \A g \in ToSet(first), h \in ToSet(last) : h.total =< g.total

LEMMA TopOfRanked ==
    ASSUME NEW N, Rankable(N), NEW s, s = Ranked(N), NEW first, first = Top(s),
           NEW last, last = SubSeq(s, TOP_MERCHANT_COUNT + 1, Len(s))
    PROVE  TopFirst(first, last, N)
<1> PICK n : n = Cardinality(N)
    OBVIOUS
<1>1. /\ n \in Nat /\ DOMAIN s = 1 .. n /\ \A i \in 1 .. n : s[i] \in N
      /\ \A g \in N : \E i \in 1 .. n : s[i] = g
      /\ \A i, j \in 1 .. n : i < j => Precedes(s[i], s[j])
    BY RankedInOrder
<1>2. Len(s) = n
  <2>1. s = [i \in 1 .. n |->
                 CHOOSE g \in N : Cardinality({h \in N : Precedes(h, g)}) = i - 1]
    BY DEF Ranked
  <2> QED BY <1>1, <2>1
<1> PICK k \in Nat : k = TOP_MERCHANT_COUNT
    BY DashboardAssumption
<1> PICK top : top = Earlier(k, n)
    OBVIOUS
<1>3. first = SubSeq(s, 1, top) /\ last = SubSeq(s, k + 1, n)
    BY <1>2 DEF Top
<1>4. /\ top \in Nat /\ top =< k /\ top =< n
      /\ ToSet(first) = {s[i] : i \in 1 .. top} /\ Len(first) = top
      /\ ToSet(last) = {s[i] : i \in k + 1 .. n}
      /\ \A i \in 1 .. n : i \in 1 .. top \/ i \in k + 1 .. n
  <2>1. n \in Nat /\ AllIn(s, n, N)
    BY <1>1 DEF AllIn
  <2>2. TopAndRestOf(s, n, k, top)
    BY <2>1, TopAndRestAreIn
  <2> QED BY <1>3, <2>2 DEF TopAndRestOf
<1> PICK A, B : A = ToSet(first) /\ B = ToSet(last)
    OBVIOUS
<1>5. A = {s[i] : i \in 1 .. top} /\ B = {s[i] : i \in k + 1 .. n} /\ Len(first) = top
    BY <1>3, <1>4
<1>6. ASSUME NEW g \in N PROVE g \in A \union B
  <2>1. PICK i \in 1 .. n : s[i] = g
    BY <1>1
  <2> QED BY <1>4, <1>5, <2>1
<1>7. A \subseteq N /\ B \subseteq N
  <2>1. \A i \in 1 .. top : i \in 1 .. n
    BY <1>1, <1>4
  <2>2. \A i \in k + 1 .. n : i \in 1 .. n
    BY <1>1
  <2> QED BY <1>1, <1>5, <2>1, <2>2
<1>8. ASSUME NEW g \in A, NEW h \in B PROVE h.total =< g.total
  <2>1. PICK i \in 1 .. top : g = s[i]
    BY <1>5
  <2>2. PICK j \in k + 1 .. n : h = s[j]
    BY <1>5
  <2>3. i \in 1 .. n /\ j \in 1 .. n /\ i < j
    BY <1>1, <1>4
  <2>4. Precedes(g, h)
    BY <1>1, <2>1, <2>2, <2>3
  <2>5. g.total \in Int /\ h.total \in Int
    BY <1>7 DEF Rankable
  <2> QED BY <2>4, <2>5 DEF Precedes
<1> QED BY <1>4, <1>5, <1>6, <1>7, <1>8 DEF TopFirst

\* The top merchants are the top ones, "Other" has the others, and there is no third.
LEMMA TopAndRest ==
    ASSUME NEW groups, Rankable(groups), NEW merchants,
           merchants = Top(Ranked({g \in groups : g.key # NoMerchant}))
    PROVE  /\ ToSet(merchants) \union Rest(groups) = groups
           /\ Len(merchants) =< TOP_MERCHANT_COUNT
           /\ \A g \in ToSet(merchants), h \in Rest(groups) :
                  h.key # NoMerchant => h.total =< g.total
<1> DEFINE N == {g \in groups : g.key # NoMerchant}
           s == Ranked(N)
           last == SubSeq(s, TOP_MERCHANT_COUNT + 1, Len(s))
<1>1. Rankable(N)
  <2>1. N \in SUBSET groups
    OBVIOUS
  <2>2. IsFiniteSet(N)
    BY <2>1, FS_Subset DEF Rankable
  <2> QED BY <2>1, <2>2 DEF Rankable
<1>2. Rest(groups) = ToSet(last) \union {g \in groups : g.key = NoMerchant}
    BY DEF Rest
<1>3. merchants = Top(s)
    OBVIOUS
<1>4. groups = N \union {g \in groups : g.key = NoMerchant}
    OBVIOUS
<1> HIDE DEF N
<1>5. TopFirst(merchants, last, N)
  <2>1. s = Ranked(N) /\ last = SubSeq(s, TOP_MERCHANT_COUNT + 1, Len(s))
    OBVIOUS
  <2> HIDE DEF s, last
  <2> QED BY <1>1, <1>3, <2>1, TopOfRanked
<1> HIDE DEF s, last
<1> QED BY <1>2, <1>4, <1>5 DEF TopFirst, N

-----------------------------------------------------------------------------
(* The columns of the chart.                                                *)

\* The rows of one currency among some, and what they come to on the page.
OfCurrency(inside, c) == {g \in inside : g.currency = c}
CurrenciesAmong(inside) == {g.currency : g \in inside}
Once(p, inside, c) == InTarget(p, SumOf(OfCurrency(inside, c)), c)

LEMMA BucketIs ==
    ASSUME NEW p, NEW b, NEW rows, NEW inside, inside = Inside(b, rows),
           NEW C, C = CurrenciesAmong(inside), IsFiniteSet(C)
    PROVE  /\ Bucket(p, b, rows).period = b
           /\ Bucket(p, b, rows).total = Total([c \in C |-> Once(p, inside, c)], C)
           /\ Bucket(p, b, rows).count = CountOf(inside)
<1> DEFINE f == [c \in C |-> Once(p, inside, c)]
           G == CHOOSE g : g = [s \in SUBSET C |->
                    IF s = {} THEN 0 ELSE Once(p, inside, Picked(s)) + g[s \ {Picked(s)}]]
<1>1. Bucket(p, b, rows) = [period |-> b, total |-> G[C], count |-> CountOf(inside)]
    BY DEF Bucket, MapThenSumSet, MapThenFoldSet, Picked, Once, OfCurrency,
           CurrenciesAmong, SumOf
<1>2. ASSUME NEW g
      PROVE  Sums(f, SUBSET C, g)
             <=> g = [s \in SUBSET C |->
                    IF s = {} THEN 0 ELSE Once(p, inside, Picked(s)) + g[s \ {Picked(s)}]]
  <2>1. \A s \in SUBSET C : s # {} => f[Picked(s)] = Once(p, inside, Picked(s))
    BY Picking
  <2> QED BY <2>1 DEF Sums
<1> HIDE DEF f
<1>3. PICK g : Sums(f, SUBSET C, g)
    BY SumsExist DEF Adds
<1>4. Sums(f, SUBSET C, G)
    BY <1>2, <1>3
<1>5. G[C] = Total(f, C)
    BY <1>4, TotalIs DEF Adds
<1> HIDE DEF G
<1> QED BY <1>1, <1>5 DEF f

\* Coarser rows: those of one currency whose keys are in one place become one.
Place(rows, at, c, u) == {r \in rows : r.currency = c /\ at[r.key] = u}
Wider(rows, at, r) ==
    LET R == Place(rows, at, r.currency, at[r.key])
    IN  [currency |-> r.currency, key |-> at[r.key], total |-> SumOf(R), count |-> CountOf(R)]
Coarse(rows, at) == {Wider(rows, at, r) : r \in rows}

LEMMA WiderIs ==
    ASSUME NEW rows, NEW at, NEW r
    PROVE  /\ Wider(rows, at, r).currency = r.currency /\ Wider(rows, at, r).key = at[r.key]
           /\ Wider(rows, at, r).total = SumOf(Place(rows, at, r.currency, at[r.key]))
           /\ Wider(rows, at, r).count = CountOf(Place(rows, at, r.currency, at[r.key]))
BY DEF Wider

\* Rows put together are a grouping as well, by the coarser key.
LEMMA CoarseRowsGroup ==
    ASSUME NEW rows, NEW table, NEW S, NEW key, Grouping(rows, table, S, key),
           NEW at, NEW wide, \A e \in S : wide[e] = at[key[e]]
    PROVE  Grouping(Coarse(rows, at), table, S, wide)
<1> PICK W : W = Coarse(rows, at)
    OBVIOUS
<1>1. \A w \in W : \E r \in rows : w = Wider(rows, at, r)
    BY DEF Coarse
<1>2. \A r \in rows : Wider(rows, at, r) \in W
    BY DEF Coarse
<1>3. IsFiniteSet(W)
  <2> DEFINE f == [r \in rows |-> Wider(rows, at, r)]
  <2>1. f \in Surjection(rows, W)
    BY <1>1, <1>2 DEF Surjection
  <2> HIDE DEF f
  <2> QED BY <2>1, FS_Surjection DEF Grouping
<1>4. ASSUME NEW w \in W
      PROVE  /\ w.total = AmountOf(table, Members(table, S, wide, w))
             /\ w.count = Cardinality(Members(table, S, wide, w))
             /\ Members(table, S, wide, w) # {}
  <2>1. PICK r \in rows : w = Wider(rows, at, r)
    BY <1>1
  <2> PICK c, u : c = r.currency /\ u = at[r.key]
    OBVIOUS
  <2> PICK R : R = Place(rows, at, c, u)
    OBVIOUS
  <2> PICK T : T = Behind(R, table, S, key)
    OBVIOUS
  <2>2. /\ R \in SUBSET rows /\ w.currency = c /\ w.key = u
        /\ w.total = SumOf(R) /\ w.count = CountOf(R)
    <3>1. R \in SUBSET rows
      BY DEF Place
    <3> QED BY <2>1, <3>1, WiderIs
  <2>3. SumOf(R) = AmountOf(table, T) /\ CountOf(R) = Cardinality(T)
    BY <2>2, MembersAddUp
  <2>4. ASSUME NEW e \in S PROVE e \in T <=> table[e].currency = c /\ at[key[e]] = u
    <3>1. PICK q \in rows : q.currency = table[e].currency /\ q.key = key[e]
      BY DEF Grouping
    <3>2. ASSUME e \in T PROVE table[e].currency = c /\ at[key[e]] = u
      BY <3>2 DEF Behind, Members, Place
    <3>3. ASSUME table[e].currency = c, at[key[e]] = u PROVE e \in T
      <4>1. q \in R /\ e \in Members(table, S, key, q)
        BY <3>1, <3>3 DEF Place, Members
      <4> QED BY <4>1 DEF Behind
    <3> QED BY <3>2, <3>3
  <2>5. T \in SUBSET S
    BY DEF Behind
  <2>6. Members(table, S, wide, w) = T
    BY <2>2, <2>4, <2>5 DEF Members
  <2>7. T # {}
    <3>1. PICK e \in S : e \in Members(table, S, key, r)
      BY DEF Grouping, Members
    <3> QED BY <2>4, <3>1 DEF Members
  <2> QED BY <2>2, <2>3, <2>6, <2>7
<1>5. ASSUME NEW e \in S PROVE \E w \in W : w.currency = table[e].currency /\ w.key = wide[e]
  <2>1. PICK q \in rows : q.currency = table[e].currency /\ q.key = key[e]
    BY DEF Grouping
  <2> QED BY <1>2, <2>1, WiderIs
<1>6. ASSUME NEW v \in W, NEW w \in W, v.currency = w.currency, v.key = w.key PROVE v = w
  <2>1. PICK q \in rows, r \in rows : v = Wider(rows, at, q) /\ w = Wider(rows, at, r)
    BY <1>1
  <2>2. q.currency = r.currency /\ at[q.key] = at[r.key]
    BY <1>6, <2>1, WiderIs
  <2> QED BY <2>1, <2>2 DEF Wider
<1> QED BY <1>3, <1>4, <1>5, <1>6 DEF Grouping

\* There are no more coarse rows to round than there were rows.
LEMMA CoarseRowsAreFewer ==
    ASSUME NEW rows, NEW at, IsFiniteSet(rows),
           NEW F, F = {r \in rows : Foreign(r.currency)},
           NEW H, H = {w \in Coarse(rows, at) : Foreign(w.currency)}
    PROVE  /\ IsFiniteSet(H) /\ Cardinality(H) \in Nat /\ Cardinality(F) \in Nat
           /\ Cardinality(H) =< Cardinality(F)
<1> DEFINE f == [r \in F |-> Wider(rows, at, r)]
<1>1. IsFiniteSet(F)
  <2>1. F \in SUBSET rows
    OBVIOUS
  <2> QED BY <2>1, FS_Subset
<1>2. \A r \in F : Wider(rows, at, r) \in H
    BY WiderIs DEF Coarse
<1>3. \A w \in H : \E r \in F : w = Wider(rows, at, r)
    BY WiderIs DEF Coarse
<1>4. f \in Surjection(F, H)
    BY <1>2, <1>3 DEF Surjection
<1> HIDE DEF f
<1> QED BY <1>1, <1>4, FS_Surjection, FS_CardinalityType

LEMMA CountsBehind ==
    ASSUME NEW rows, NEW table, NEW S, NEW key, Grouping(rows, table, S, key),
           NEW R \in SUBSET rows
    PROVE  CountOf(R) = Cardinality(Behind(R, table, S, key))
<1> PICK T : T = Behind(R, table, S, key)
    OBVIOUS
<1>1. CountOf(R) = Cardinality(T)
    BY MembersAddUp
<1> QED BY <1>1

Inhabit(inside, rows, at, u) ==
    inside \in SUBSET rows /\ \A r \in rows : r \in inside <=> at[r.key] = u
At(V, W, u) == V \in SUBSET W /\ \A w \in W : w \in V <=> w.key = u
BucketTells(bucket, V, S, at, key, u) ==
    /\ bucket.total = TotalOf(Asks, V) /\ bucket.total \in Int
    /\ bucket.count = CountOf(V) /\ bucket.count = Cardinality({e \in S : at[key[e]] = u})

\* A bucket of the chart is what the coarse rows of its days come to.
LEMMA OneBucket ==
    ASSUME PageTyped(Asks), NEW rows, NEW table, NEW S, NEW key,
           Grouping(rows, table, S, key), Countables(S, table),
           NEW at, NEW wide, \A e \in S : wide[e] = at[key[e]],
           NEW u, NEW inside, inside = Inside(u, rows), Inhabit(inside, rows, at, u),
           NEW V, At(V, Coarse(rows, at), u)
    PROVE  BucketTells(Bucket(Asks, u, rows), V, S, at, key, u)
<1> PICK W : W = Coarse(rows, at)
    OBVIOUS
<1> PICK C : C = CurrenciesAmong(inside)
    OBVIOUS
<1>0. /\ V \in SUBSET W /\ \A w \in W : w \in V <=> w.key = u
      /\ inside \in SUBSET rows /\ \A r \in rows : r \in inside <=> at[r.key] = u
    BY DEF At, Inhabit
<1> DEFINE f == [w \in V |-> InTarget(Asks, w.total, w.currency)]
           h == [c \in C |-> Once(Asks, inside, c)]
           m == [w \in V |-> w.currency]
<1>1. Grouping(W, table, S, wide)
    BY CoarseRowsGroup
<1>2. Telling(Asks, W)
    BY <1>1, GroupsTell
<1>3. V \in SUBSET W /\ inside \in SUBSET rows
    BY <1>0
<1>4. /\ IsFiniteSet(V) /\ IsFiniteSet(inside)
      /\ \A w \in V : InTarget(Asks, w.total, w.currency) \in Int
    BY <1>2, <1>3, FS_Subset DEF Telling, Grouping
<1>5. \A r \in inside : Wider(rows, at, r) \in V /\ r.currency \in C
    BY <1>0, WiderIs DEF Coarse, CurrenciesAmong
<1>6. ASSUME NEW w \in V
      PROVE  \E r \in inside : w = Wider(rows, at, r) /\ w.currency = r.currency /\ r.currency \in C
  <2>1. PICK r \in rows : w = Wider(rows, at, r)
    BY <1>0 DEF Coarse
  <2>2. w.currency = r.currency /\ w.key = at[r.key]
    BY <2>1, WiderIs
  <2>3. r \in inside
    BY <1>0, <2>2
  <2> QED BY <1>5, <2>1, <2>2, <2>3
<1>7. ASSUME NEW w \in V
      PROVE  /\ w.currency \in C
             /\ Once(Asks, inside, w.currency) = InTarget(Asks, w.total, w.currency)
  <2>1. PICK r \in inside : w = Wider(rows, at, r) /\ w.currency = r.currency /\ r.currency \in C
    BY <1>6
  <2> PICK c : c = r.currency
    OBVIOUS
  <2>2. at[r.key] = u /\ w.total = SumOf(Place(rows, at, c, u))
    BY <1>0, <2>1, WiderIs
  <2>3. OfCurrency(inside, c) = Place(rows, at, c, u)
    BY <1>0 DEF OfCurrency, Place
  <2> QED BY <2>1, <2>2, <2>3 DEF Once
<1>8. IsFiniteSet(C)
  <2> DEFINE g == [r \in inside |-> r.currency]
  <2>1. g \in Surjection(inside, C)
    BY DEF Surjection, CurrenciesAmong
  <2> HIDE DEF g
  <2> QED BY <1>4, <2>1, FS_Surjection
<1>9. Integral(f, V) /\ Follows(h, m, f, V)
    BY <1>4, <1>7 DEF Integral, Follows
<1>10. OneToOne(m, V, C)
  <2>1. \A w \in V : m[w] = w.currency
    OBVIOUS
  <2>2. \A w \in V : m[w] \in C
    BY <1>7, <2>1
  <2>3. ASSUME NEW c \in C PROVE \E w \in V : c = m[w]
    <3>1. PICK r \in inside : r.currency = c
      BY DEF CurrenciesAmong
    <3>2. Wider(rows, at, r) \in V /\ Wider(rows, at, r).currency = c
      BY <1>5, <3>1, WiderIs
    <3> QED BY <2>1, <3>2
  <2>4. ASSUME NEW v \in V, NEW w \in V, m[v] = m[w] PROVE v = w
    <3>1. v.currency = w.currency /\ v.key = w.key
      BY <1>0, <2>1, <2>4
    <3> QED BY <1>1, <1>3, <3>1 DEF Grouping
  <2> HIDE DEF m
  <2>5. C = {m[w] : w \in V}
    BY <2>2, <2>3
  <2> QED BY <2>4, <2>5 DEF OneToOne
<1>11. TotalOf(Asks, V) = Total(f, V)
    BY <1>4, TotalOfIs
<1>12. Bucket(Asks, u, rows).total = Total(h, C) /\ Bucket(Asks, u, rows).count = CountOf(inside)
    BY <1>8, BucketIs
<1> HIDE DEF f, h, m
<1>13. Total(f, V) = Total(h, C) /\ Total(f, V) \in Int
    BY <1>4, <1>9, <1>10, Renamed
<1> PICK T : T = Behind(inside, table, S, key)
    OBVIOUS
<1> PICK X : X = Behind(V, table, S, wide)
    OBVIOUS
<1>14. CountOf(inside) = Cardinality(T) /\ CountOf(V) = Cardinality(X)
  <2>1. CountOf(inside) = Cardinality(T)
    BY <1>3, CountsBehind
  <2>2. CountOf(V) = Cardinality(X)
    BY <1>1, <1>3, CountsBehind
  <2> QED BY <2>1, <2>2
<1>15. T = {e \in S : at[key[e]] = u}
  <2>1. \A e \in S : \E r \in rows : r.currency = table[e].currency /\ r.key = key[e]
    BY DEF Grouping
  <2> QED BY <1>0, <2>1 DEF Behind, Members
<1>16. X = {e \in S : at[key[e]] = u}
  <2>1. \A e \in S : \E w \in W : w.currency = table[e].currency /\ w.key = wide[e]
    BY <1>1 DEF Grouping
  <2> QED BY <1>0, <2>1 DEF Behind, Members
<1> QED BY <1>11, <1>12, <1>13, <1>14, <1>15, <1>16 DEF BucketTells

\* There is at least one column and finitely many.
LEMMA BucketsAreFew ==
    ASSUME NEW p \in DashboardPeriod
    PROVE  IsFiniteSet(ChartBuckets(p)) /\ ChartBuckets(p) # {}
<1> DEFINE D == p.date_from .. p.date_to
           f == [d \in BucketStarts(p) |-> Period(d, BucketEnd(p, d))]
<1>1. IsFiniteSet(D)
    BY PeriodFacts, FS_Interval
<1>2. IsFiniteSet(BucketStarts(p))
  <2>1. BucketStarts(p) \in SUBSET D
    BY DEF BucketStarts
  <2> QED BY <1>1, <2>1, FS_Subset
<1>3. f \in Surjection(BucketStarts(p), ChartBuckets(p))
    BY BucketsAre DEF Surjection
<1> HIDE DEF f
<1>4. IsFiniteSet(ChartBuckets(p))
    BY <1>2, <1>3, FS_Surjection
<1>5. p.date_from \in p.date_from .. p.date_to
    BY PeriodFacts
<1> QED BY <1>4, <1>5, EveryDayInOneBucket

\* The buckets of a chart, each with the rows of its days.
BucketsOf(p, period, rows) == {Bucket(p, b, rows) : b \in ChartBuckets(period)}

ParallelTo(parts, rows, at, table, S, key) ==
    \E in, wide : Grouping(Coarse(rows, at), table, S, wide)
                  /\ Partition(parts, Asks, Coarse(rows, at), in)

\* The columns of the chart are parts of the coarse rows.
LEMMA BucketsAreParts ==
    ASSUME PageTyped(Asks), NEW period \in DashboardPeriod, NEW table, NEW S, NEW rows, NEW key,
           Grouping(rows, table, S, key), Countables(S, table),
           \A e \in S : key[e] \in period.date_from .. period.date_to,
           NEW parts, parts = BucketsOf(Asks, period, rows)
    PROVE  /\ IsFiniteSet(parts) /\ parts # {}
           /\ \A b \in parts :
                  b.total \in Int /\ b.count = Cardinality({e \in S : Covers(b.period, key[e])})
           /\ \E at : ParallelTo(parts, rows, at, table, S, key)
<1> PICK U : U = ChartBuckets(period)
    OBVIOUS
<1> DEFINE at == [d \in period.date_from .. period.date_to |-> CHOOSE b \in U : Covers(b, d)]
           wide == [e \in S |-> at[key[e]]]
           one(b) == Bucket(Asks, b, rows)
           in == [w \in Coarse(rows, at) |-> one(w.key)]
<1>2. IsFiniteSet(U) /\ U # {}
    BY BucketsAreFew
<1>3. ASSUME NEW d \in period.date_from .. period.date_to
      PROVE  at[d] \in U /\ \A b \in U : Covers(b, d) <=> at[d] = b
  <2>1. PICK b \in U : Covers(b, d) /\ \A c \in U : Covers(c, d) => c = b
    BY EveryDayInOneBucket
  <2> QED BY <2>1
<1>4. \A e \in S : wide[e] = at[key[e]]
    OBVIOUS
<1>5. \A w \in Coarse(rows, at) : in[w] = one(w.key)
    OBVIOUS
<1> HIDE DEF at, wide, in
<1>7. ASSUME NEW r \in rows PROVE r.key \in period.date_from .. period.date_to
  <2>1. PICK e \in Members(table, S, key, r) : TRUE
    BY DEF Grouping
  <2> QED BY <2>1 DEF Members
<1>8. ASSUME NEW b \in U
      PROVE  /\ one(b).period = b /\ one(b).total \in Int
             /\ one(b).total = TotalOf(Asks, {w \in Coarse(rows, at) : w.key = b})
             /\ one(b).count = CountOf({w \in Coarse(rows, at) : w.key = b})
             /\ one(b).count = Cardinality({e \in S : at[key[e]] = b})
  <2> PICK inside : inside = Inside(b, rows)
    OBVIOUS
  <2>1. Inhabit(inside, rows, at, b)
    BY <1>3, <1>7 DEF Inside, Inhabit
  <2> DEFINE V == {w \in Coarse(rows, at) : w.key = b}
  <2>4. At(V, Coarse(rows, at), b)
    BY DEF At
  <2>5. V = {w \in Coarse(rows, at) : w.key = b}
    OBVIOUS
  <2> HIDE DEF V
  <2>2. BucketTells(one(b), V, S, at, key, b)
    BY <1>4, <2>1, <2>4, OneBucket
  <2>3. one(b).period = b
    BY DEF Bucket
  <2> QED BY <2>2, <2>3, <2>5 DEF BucketTells
<1>9. parts = {one(b) : b \in U}
    BY DEF BucketsOf
<1>10. IsFiniteSet(parts) /\ parts # {}
  <2> DEFINE f == [b \in U |-> one(b)]
  <2> HIDE DEF one
  <2>1. f \in Surjection(U, parts)
    BY <1>9 DEF Surjection
  <2>2. parts # {}
    BY <1>2, <1>9
  <2> HIDE DEF f
  <2> QED BY <1>2, <2>1, <2>2, FS_Surjection
<1> HIDE DEF one
<1>11. Grouping(Coarse(rows, at), table, S, wide)
    BY <1>4, CoarseRowsGroup
<1>12. ASSUME NEW w \in Coarse(rows, at) PROVE w.key \in U
  <2>1. PICK e \in Members(table, S, wide, w) : TRUE
    BY <1>11 DEF Grouping
  <2> QED BY <1>3, <1>4, <2>1 DEF Members
<1>13. Partition(parts, Asks, Coarse(rows, at), in)
  <2> PICK W : W = Coarse(rows, at)
    OBVIOUS
  <2>1. \A w \in W : in[w] \in parts
    BY <1>5, <1>9, <1>12
  <2>2. ASSUME NEW x \in parts
        PROVE  x.total = TotalOf(Asks, {w \in W : in[w] = x})
               /\ x.count = CountOf({w \in W : in[w] = x})
    <3>1. PICK b \in U : x = one(b)
      BY <1>9
    <3>2. ASSUME NEW w \in W PROVE in[w] = x <=> w.key = b
      <4>1. in[w] = one(w.key) /\ w.key \in U
        BY <1>5, <1>12
      <4>2. one(w.key).period = w.key /\ one(b).period = b
        BY <1>8, <4>1
      <4> QED BY <3>1, <4>1, <4>2
    <3>3. {w \in W : in[w] = x} = {w \in W : w.key = b}
      BY <3>2
    <3> QED BY <1>8, <3>1, <3>3
  <2> QED BY <1>10, <2>1, <2>2 DEF Partition
<1>15. ASSUME NEW x \in parts
       PROVE  x.total \in Int /\ x.count = Cardinality({e \in S : Covers(x.period, key[e])})
  <2>1. PICK b \in U : x = one(b)
    BY <1>9
  <2>2. {e \in S : at[key[e]] = b} = {e \in S : Covers(b, key[e])}
    BY <1>3
  <2> QED BY <1>8, <2>1, <2>2
<1> QED BY <1>10, <1>11, <1>13, <1>15 DEF ParallelTo

\* The columns of the chart add up to the Expenses, and each has those of its days.
LEMMA BucketsAreTrue ==
    ASSUME PageTyped(Asks), NEW period, period = Asks.period,
           NEW table \in seen, NEW S, S = Countable(table, period),
           NEW rows, NEW key, Grouping(rows, table, S, key),
           \A e \in S : key[e] \in period.date_from .. period.date_to,
           rows = Counted(Asks, RowsOf(Asks, "daily")),
           NEW parts, parts = BucketsOf(Asks, period, rows)
    PROVE  /\ TrueSum(parts, "daily") /\ IsFiniteSet(parts) /\ parts # {}
           /\ \A b \in parts :
                  b.total \in Int /\ b.count = Cardinality({e \in S : Covers(b.period, key[e])})
<1>1. period \in DashboardPeriod
    BY DEF PageTyped
<1>2. Countables(S, table)
    BY DEF Countables, Countable
<1>3. /\ IsFiniteSet(parts) /\ parts # {}
      /\ \A b \in parts :
             b.total \in Int /\ b.count = Cardinality({e \in S : Covers(b.period, key[e])})
      /\ \E at : ParallelTo(parts, rows, at, table, S, key)
    BY <1>1, <1>2, BucketsAreParts
<1>4. PICK at : ParallelTo(parts, rows, at, table, S, key)
    BY <1>3
<1> PICK W : W = Coarse(rows, at)
    OBVIOUS
<1>5. PICK in, wide : Grouping(W, table, S, wide) /\ Partition(parts, Asks, W, in)
    BY <1>4 DEF ParallelTo
<1> PICK F : F = {r \in rows : Foreign(r.currency)}
    OBVIOUS
<1> PICK H : H = {w \in W : Foreign(w.currency)}
    OBVIOUS
<1>6. IsFiniteSet(rows)
    BY DEF Grouping
<1>7. /\ Cardinality(H) \in Nat /\ Cardinality(F) \in Nat /\ Cardinality(H) =< Cardinality(F)
    BY <1>6, CoarseRowsAreFewer
<1>8. Cardinality(Groupings("daily")) = Cardinality(F)
    BY CellsAre
<1> PICK cells \in Nat : cells = Cardinality(Groupings("daily"))
    BY <1>7, <1>8
<1>9. Cardinality(H) =< cells
    BY <1>7, <1>8
<1>10. S = Countable(table, Asks.period)
    OBVIOUS
<1>11. TrueSum(parts, "daily")
    BY <1>5, <1>7, <1>9, <1>10, PartsAreTrue
<1> QED BY <1>3, <1>11

-----------------------------------------------------------------------------
(* What the statements of the sections gave.                                *)

\* What a section of the page groups the Expenses by, besides their currency.
KeyIn(what, row) ==
    CASE what = "currencies" -> 0
      [] what = "daily" -> row.date
      [] what = "categories" -> row.category
      [] what = "merchants" -> row.merchant

Sections == {"currencies", "daily", "categories", "merchants"}

\* The rows that a statement of a section gives.
GroupsBy(what, table, period, c) ==
    LET S == ActiveIn(table, period, c)
    IN  {LET G == {e \in S : table[e].currency = k[1] /\ KeyIn(what, table[e]) = k[2]}
         IN  [currency |-> k[1], key |-> k[2], total |-> AmountOf(table, G),
              count |-> Cardinality(G)] :
            k \in {<<table[e].currency, KeyIn(what, table[e])>> : e \in S}}

\* What the queries of the four sections answer.
LEMMA SectionAnswers ==
    ASSUME NEW read, read.what \in Sections
    PROVE  Answer(read) = GroupsBy(read.what, expenses, page.period, read.currency)
<1> PICK what : what = read.what
    OBVIOUS
<1> PICK S : S = ActiveIn(expenses, page.period, read.currency)
    OBVIOUS
<1> PICK key : key = [e \in S |-> KeyIn(what, expenses[e])]
    OBVIOUS
<1>1. Answer(read) = Groups(key)
  <2>1. CASE what = "currencies"
    <3>1. key = [e \in S |-> 0]
      BY <2>1 DEF KeyIn
    <3> QED BY <2>1, <3>1 DEF Answer
  <2>2. CASE what = "daily"
    <3>1. key = [e \in S |-> expenses[e].date]
      BY <2>2 DEF KeyIn
    <3> QED BY <2>2, <3>1 DEF Answer
  <2>3. CASE what = "categories"
    <3>1. key = [e \in S |-> expenses[e].category]
      BY <2>3 DEF KeyIn
    <3> QED BY <2>3, <3>1 DEF Answer
  <2>4. CASE what = "merchants"
    <3>1. key = [e \in S |-> expenses[e].merchant]
      BY <2>4 DEF KeyIn
    <3> QED BY <2>4, <3>1 DEF Answer
  <2> QED BY <2>1, <2>2, <2>3, <2>4 DEF Sections
<1>2. DOMAIN key = S /\ \A e \in S : key[e] = KeyIn(what, expenses[e])
    OBVIOUS
<1> DEFINE of(k) == {e \in DOMAIN key : expenses[e].currency = k[1] /\ key[e] = k[2]}
           in(k) == {e \in S : expenses[e].currency = k[1] /\ KeyIn(what, expenses[e]) = k[2]}
           keys == {<<expenses[e].currency, key[e]>> : e \in DOMAIN key}
           all == {<<expenses[e].currency, KeyIn(what, expenses[e])>> : e \in S}
<1>3. \A k : of(k) = in(k)
    BY <1>2
<1>4. keys = all
    BY <1>2
<1>5. Groups(key) = {[currency |-> k[1], key |-> k[2], total |-> AmountOf(expenses, of(k)),
                      count |-> Cardinality(of(k))] : k \in keys}
    BY DEF Groups
<1>6. GroupsBy(what, expenses, page.period, read.currency)
          = {[currency |-> k[1], key |-> k[2], total |-> AmountOf(expenses, in(k)),
              count |-> Cardinality(in(k))] : k \in all}
    BY DEF GroupsBy
<1> HIDE DEF of, in, keys, all
<1> QED BY <1>1, <1>3, <1>4, <1>5, <1>6

\* By currency alone, as the comparison is.
LEMMA CurrenciesAreRows ==
    ASSUME NEW table, NEW period
    PROVE  GroupsBy("currencies", table, period, NoCurrency) = ByCurrency(table, period)
<1> PICK S : S = ActiveIn(table, period, NoCurrency)
    OBVIOUS
<1> DEFINE all == {<<table[e].currency, 0>> : e \in S}
           in(k) == {e \in S : table[e].currency = k[1] /\ 0 = k[2]}
           group(k) == [currency |-> k[1], key |-> k[2], total |-> AmountOf(table, in(k)),
                        count |-> Cardinality(in(k))]
<1>1. GroupsBy("currencies", table, period, NoCurrency) = {group(k) : k \in all}
    BY DEF GroupsBy, KeyIn
<1>2. ASSUME NEW c PROVE group(<<c, 0>>) = Group(table, period, c)
  <2>1. in(<<c, 0>>) = {e \in S : table[e].currency = c}
    OBVIOUS
  <2> HIDE DEF in
  <2> QED BY <2>1 DEF Group
<1>3. \A k \in all : \E c \in CurrenciesIn(table, period) : k = <<c, 0>>
    BY DEF CurrenciesIn, CurrenciesOf
<1>4. \A c \in CurrenciesIn(table, period) : <<c, 0>> \in all
    BY DEF CurrenciesIn, CurrenciesOf
<1> HIDE DEF group, all
<1>5. ASSUME NEW k \in all PROVE group(k) \in ByCurrency(table, period)
  <2>1. PICK c \in CurrenciesIn(table, period) : k = <<c, 0>>
    BY <1>3
  <2> QED BY <1>2, <2>1 DEF ByCurrency
<1>6. ASSUME NEW c \in CurrenciesIn(table, period)
      PROVE  Group(table, period, c) \in {group(k) : k \in all}
    BY <1>2, <1>4
<1> QED BY <1>1, <1>5, <1>6 DEF ByCurrency

KeysOf(what, table, S) == [e \in S |-> KeyIn(what, table[e])]

\* The rows of a section that count are a grouping of the Expenses that do.
LEMMA SectionRowsGroup ==
    ASSUME NEW table \in Tables, NEW period, NEW what, NEW c \in {NoCurrency, SectionsIn(Asks)},
           NEW rows, rows = Counted(Asks, GroupsBy(what, table, period, c)),
           NEW S, S = Countable(table, period)
    PROVE  Grouping(rows, table, S, KeysOf(what, table, S))
<1> PICK A : A = ActiveIn(table, period, c)
    OBVIOUS
<1> PICK key : key = KeysOf(what, table, S)
    OBVIOUS
<1> DEFINE in(k) == {e \in A : table[e].currency = k[1] /\ KeyIn(what, table[e]) = k[2]}
           group(k) == [currency |-> k[1], key |-> k[2], total |-> AmountOf(table, in(k)),
                        count |-> Cardinality(in(k))]
           own(e) == <<table[e].currency, KeyIn(what, table[e])>>
           all == {own(e) : e \in A}
           w == [e \in S |-> group(own(e))]
<1>1. /\ A \in SUBSET Expense /\ IsFiniteSet(A)
      /\ \A e \in A : table[e] \in Entry
    BY EntriesOf
<1>2. ASSUME NEW e PROVE e \in S <=> e \in A /\ Counts(Asks, table[e].currency)
  <2>1. e \in S <=> e \in ActiveIn(table, period, NoCurrency) /\ Counts(Asks, table[e].currency)
    BY DEF Countable, Counts
  <2>2. CASE c = NoCurrency
    BY <2>1, <2>2
  <2>3. CASE c # NoCurrency
    <3> PICK within : within = SectionsIn(Asks)
      OBVIOUS
    <3>4. within = IF Converted(Asks) THEN NoCurrency ELSE Asks.selected
      BY DEF SectionsIn
    <3>1. ~Converted(Asks) /\ c = Asks.selected
      BY <2>3, <3>4
    <3>2. e \in A <=> e \in ActiveIn(table, period, NoCurrency) /\ table[e].currency = c
      BY <2>3 DEF ActiveIn
    <3> QED BY <2>1, <3>1, <3>2 DEF Counts
  <2> QED BY <2>2, <2>3
<1>3. \A e \in S : key[e] = KeyIn(what, table[e])
    BY DEF KeysOf
<1>4. IsFiniteSet(S) /\ \A e \in S : table[e].amount \in Nat \ {0} /\ table[e].currency \in Currency
  <2>1. S \in SUBSET A
    BY <1>2
  <2> QED BY <1>1, <2>1, FS_Subset DEF Entry
<1>5. GroupsBy(what, table, period, c) = {group(k) : k \in all}
    BY DEF GroupsBy
<1>6. \A k : /\ group(k).currency = k[1] /\ group(k).key = k[2]
            /\ group(k).total = AmountOf(table, in(k)) /\ group(k).count = Cardinality(in(k))
    OBVIOUS
<1>7. \A e : own(e)[1] = table[e].currency /\ own(e)[2] = KeyIn(what, table[e])
    OBVIOUS
<1>8. \A e, k : e \in in(k) <=> e \in A /\ table[e].currency = k[1] /\ KeyIn(what, table[e]) = k[2]
    OBVIOUS
<1> HIDE DEF group, in
<1>9. \A g \in GroupsBy(what, table, period, c) : \E e \in A : g = group(own(e))
    BY <1>5
<1>10. \A e \in A : group(own(e)) \in GroupsBy(what, table, period, c)
    BY <1>5
<1> HIDE DEF own, all
<1>11. \A g : g \in rows <=> g \in GroupsBy(what, table, period, c) /\ Counts(Asks, g.currency)
    BY DEF Counted, Counts
<1> PICK R : R = rows
    OBVIOUS
<1>12. ASSUME NEW g \in R PROVE \E e \in S : g = group(own(e))
  <2>1. PICK e \in A : g = group(own(e))
    BY <1>9, <1>11
  <2>2. Counts(Asks, table[e].currency)
    BY <1>6, <1>7, <1>11, <2>1
  <2> QED BY <1>2, <2>1, <2>2
<1>13. ASSUME NEW e \in S PROVE group(own(e)) \in R
  <2>1. e \in A /\ Counts(Asks, table[e].currency)
    BY <1>2
  <2>2. group(own(e)).currency = table[e].currency
    BY <1>6, <1>7
  <2> QED BY <1>10, <1>11, <2>1, <2>2
<1>14. IsFiniteSet(R)
  <2>1. w \in Surjection(S, R)
    BY <1>12, <1>13 DEF Surjection
  <2> HIDE DEF w
  <2> QED BY <1>4, <2>1, FS_Surjection
<1>15. ASSUME NEW g \in R
       PROVE  /\ g.total = AmountOf(table, Members(table, S, key, g))
              /\ g.count = Cardinality(Members(table, S, key, g))
              /\ Members(table, S, key, g) # {}
  <2>1. PICK e \in S : g = group(own(e))
    BY <1>12
  <2> PICK k : k = own(e)
    OBVIOUS
  <2>2. /\ g.currency = k[1] /\ g.key = k[2]
        /\ g.total = AmountOf(table, in(k)) /\ g.count = Cardinality(in(k))
    BY <1>6, <2>1
  <2>3. k[1] = table[e].currency /\ k[2] = key[e] /\ Counts(Asks, k[1])
    BY <1>2, <1>3, <1>7
  <2>4. \A d : d \in Members(table, S, key, g)
              <=> d \in S /\ table[d].currency = k[1] /\ key[d] = k[2]
    BY <2>2 DEF Members
  <2>5. \A d : d \in Members(table, S, key, g) <=> d \in in(k)
    BY <1>2, <1>3, <1>8, <2>3, <2>4
  <2>6. Members(table, S, key, g) = in(k)
    BY <2>5
  <2>7. e \in Members(table, S, key, g)
    BY <2>3, <2>4
  <2> QED BY <2>2, <2>6, <2>7
<1>16. ASSUME NEW e \in S PROVE \E g \in R : g.currency = table[e].currency /\ g.key = key[e]
    BY <1>3, <1>6, <1>7, <1>13
<1>17. ASSUME NEW g \in R, NEW h \in R, g.currency = h.currency, g.key = h.key PROVE g = h
  <2>1. PICK d \in S, e \in S : g = group(own(d)) /\ h = group(own(e))
    BY <1>12
  <2>2. own(d) = own(e)
    BY <1>6, <1>17, <2>1 DEF own
  <2> QED BY <2>1, <2>2
<1> QED BY <1>4, <1>14, <1>15, <1>16, <1>17 DEF Grouping

-----------------------------------------------------------------------------
(* The sections of an answered page.                                        *)

\* What a section shows for each key adds up to what the Expenses do.
LEMMA KeyedPartsAreTrue ==
    ASSUME PageTyped(Asks), NEW table \in seen, NEW S, S = Countable(table, Asks.period),
           NEW rows, NEW key, Grouping(rows, table, S, key), \A e \in S : key[e] \in Nat,
           NEW what, rows = Counted(Asks, RowsOf(Asks, what)),
           NEW parts, OneForEachKey(parts, Asks, rows)
    PROVE  /\ Rankable(parts) /\ TrueSum(parts, what)
           /\ \A u \in parts : u.key \in Nat /\ u.count = Cardinality({e \in S : key[e] = u.key})
<1>1. Countables(S, table)
    BY DEF Countables, Countable
<1>2. Telling(Asks, rows)
    BY <1>1, GroupsTell
<1>3. ASSUME NEW r \in rows PROVE r.key \in Nat
  <2>1. PICK e \in Members(table, S, key, r) : TRUE
    BY DEF Grouping
  <2> QED BY <2>1 DEF Members
<1>4. Rankable(parts) /\ \E in : Partition(parts, Asks, rows, in)
    BY <1>2, <1>3, KeysArePartition
<1>5. PICK in : Partition(parts, Asks, rows, in)
    BY <1>4
<1>6. TrueSum(parts, what)
  <2> PICK F : F = {r \in rows : Foreign(r.currency)}
    OBVIOUS
  <2>1. IsFiniteSet(F) /\ Cardinality(Groupings(what)) = Cardinality(F)
    BY CellsAre
  <2> PICK cells \in Nat : cells = Cardinality(Groupings(what))
    BY <2>1, FS_CardinalityType
  <2>2. Cardinality(F) \in Nat /\ Cardinality(F) =< cells
    BY <2>1
  <2> QED BY <1>5, <2>2, PartsAreTrue
<1>7. ASSUME NEW u \in parts
      PROVE  u.key \in Nat /\ u.count = Cardinality({e \in S : key[e] = u.key})
  <2> PICK k : k = u.key
    OBVIOUS
  <2> DEFINE R == {r \in rows : r.key = k}
  <2>1. u.count = CountOf(R)
    BY DEF OneForEachKey
  <2>2. R \in SUBSET rows /\ \A r : r \in R <=> r \in rows /\ r.key = k
    OBVIOUS
  <2> HIDE DEF R
  <2>3. CountOf(R) = Cardinality(Behind(R, table, S, key))
    BY <2>2, CountsBehind
  <2>4. ASSUME NEW e PROVE e \in Behind(R, table, S, key) <=> e \in S /\ key[e] = k
    <3>1. e \in S => \E r \in rows : r.currency = table[e].currency /\ r.key = key[e]
      BY DEF Grouping
    <3> QED BY <2>2, <3>1 DEF Behind, Members
  <2>5. Behind(R, table, S, key) = {e \in S : key[e] = k}
    BY <2>4
  <2>6. k \in Nat
    BY <1>3 DEF OneForEachKey
  <2> QED BY <2>1, <2>3, <2>5, <2>6
<1> QED BY <1>4, <1>6, <1>7

\* The history that a link opens, as far as the page counts it.
LEMMA LedTo ==
    ASSUME NEW table, NEW S, S = Countable(table, Asks.period), NEW period, NEW category,
           NEW link, link = Link(Asks, period, category)
    PROVE  History(table, link) \cap S =
               {e \in S : /\ Covers(period, table[e].date)
                          /\ category = NoCategory \/ table[e].category = category}
<1>1. /\ link.period = period /\ link.category = category
      /\ link.currency = IF Converted(Asks) THEN NoCurrency ELSE Asks.selected
    BY DEF Link
<1>2. \A e : e \in History(table, link)
            <=> /\ e \in ActiveIn(table, period, link.currency)
                /\ category = NoCategory \/ table[e].category = category
    BY <1>1 DEF History
<1>3. ASSUME NEW e \in S
      PROVE  e \in ActiveIn(table, period, link.currency) <=> Covers(period, table[e].date)
  <2>1. e \in Expense /\ table[e] # NoRow
    BY DEF Countable, ActiveIn
  <2>2. link.currency # NoCurrency => table[e].currency = link.currency
    BY <1>1 DEF Countable
  <2> QED BY <2>1, <2>2 DEF ActiveIn
<1> QED BY <1>2, <1>3

\* The summary is exact.
LEMMA SummaryIsTrue ==
    ASSUME PageTyped(Asks), NEW table \in Tables, NEW period, period = Asks.period,
           RowsOf(Asks, "currencies") = GroupsBy("currencies", table, period, NoCurrency),
           NEW rows, rows = Counted(Asks, RowsOf(Asks, "currencies")),
           NEW S, S = Countable(table, period)
    PROVE  CountOf(rows) = Cardinality(S) /\ TotalOf(Asks, rows) = TrueTotal(table, S)
<1> PICK what, c : what = "currencies" /\ c = NoCurrency
    OBVIOUS
<1>1. rows = Counted(Asks, GroupsBy(what, table, period, c)) /\ c \in {NoCurrency, SectionsIn(Asks)}
    OBVIOUS
<1>2. Grouping(rows, table, S, KeysOf(what, table, S))
    BY <1>1, SectionRowsGroup
<1>3. Countables(S, table)
    BY DEF Countables, Countable
<1>4. CountOf(rows) = Cardinality(S)
    BY <1>2, <1>3, GroupsTell
<1>5. rows = Counted(Asks, ByCurrency(table, period))
    BY CurrenciesAreRows
<1>6. TotalOf(Asks, rows) = TrueTotal(table, S)
    BY <1>5, RowsAddUp
<1> QED BY <1>4, <1>6

\* The page's section was read from a table.
SectionOfTable(what, table) ==
    RowsOf(Asks, what) = GroupsBy(what, table, Asks.period, SectionsIn(Asks))

LEMMA SectionIsTrue ==
    ASSUME PageTyped(Asks), NEW table \in Tables, table \in seen,
           NEW what \in {"categories", "merchants"}, SectionOfTable(what, table),
           NEW rows, rows = Counted(Asks, RowsOf(Asks, what)),
           NEW S, S = Countable(table, Asks.period),
           NEW parts, OneForEachKey(parts, Asks, rows)
    PROVE  /\ Rankable(parts) /\ TrueSum(parts, what)
           /\ \A u \in parts :
                  /\ u.key \in Nat
                  /\ u.count = Cardinality({e \in S : KeyIn(what, table[e]) = u.key})
<1> PICK period, c : period = Asks.period /\ c = SectionsIn(Asks)
    OBVIOUS
<1> PICK key : key = KeysOf(what, table, S)
    OBVIOUS
<1>1. rows = Counted(Asks, GroupsBy(what, table, period, c))
    BY DEF SectionOfTable
<1>2. c \in {NoCurrency, SectionsIn(Asks)}
    OBVIOUS
<1>3. Grouping(rows, table, S, key)
    BY <1>1, <1>2, SectionRowsGroup
<1>4. \A e \in S : key[e] = KeyIn(what, table[e])
    BY DEF KeysOf
<1>5. ASSUME NEW e \in S PROVE key[e] \in Nat
  <2>1. table[e] \in Entry
    BY EntriesOf DEF Countable
  <2>2. table[e].category \in Nat /\ table[e].merchant \in Nat
    BY <2>1 DEF Entry
  <2> QED BY <1>4, <2>2 DEF KeyIn
<1>6. /\ Rankable(parts) /\ TrueSum(parts, what)
      /\ \A u \in parts : u.key \in Nat /\ u.count = Cardinality({e \in S : key[e] = u.key})
    BY <1>3, <1>5, KeyedPartsAreTrue
<1>7. \A k : {e \in S : key[e] = k} = {e \in S : KeyIn(what, table[e]) = k}
    BY <1>4
<1> QED BY <1>6, <1>7

\* The categories add up, and each leads to the Expenses it counts.
LEMMA CategoriesAreTrue ==
    ASSUME PageTyped(Asks), NEW table \in Tables, table \in seen,
           SectionOfTable("categories", table),
           NEW rows, rows = Counted(Asks, RowsOf(Asks, "categories")),
           NEW whole, NEW categories, categories = Ranked(Shared(Asks, rows, whole))
    PROVE  /\ TrueSum(ToSet(categories), "categories")
           /\ Leads(CategoryRows(Asks, categories))
<1> PICK S : S = Countable(table, Asks.period)
    OBVIOUS
<1> PICK parts : parts = Shared(Asks, rows, whole)
    OBVIOUS
<1> PICK what : what = "categories"
    OBVIOUS
<1>1. OneForEachKey(parts, Asks, rows)
    BY SharesForEachKey
<1>2. /\ Rankable(parts) /\ TrueSum(parts, what)
      /\ \A u \in parts :
             u.key \in Nat /\ u.count = Cardinality({e \in S : KeyIn(what, table[e]) = u.key})
    BY <1>1, SectionIsTrue
<1>3. ToSet(categories) = parts
    BY <1>2, AllAreRanked
<1>4. ASSUME NEW r \in CategoryRows(Asks, categories)
      PROVE  r.count = Cardinality(History(table, r.link) \cap S)
  <2>1. PICK u \in parts : r = [count |-> u.count, link |-> Link(Asks, Asks.period, u.key)]
    BY <1>3 DEF CategoryRows
  <2> PICK k, link : k = u.key /\ link = r.link
    OBVIOUS
  <2>2. r.count = u.count /\ link = Link(Asks, Asks.period, k)
    BY <2>1
  <2>3. History(table, link) \cap S =
            {e \in S : /\ Covers(Asks.period, table[e].date)
                       /\ k = NoCategory \/ table[e].category = k}
    BY <2>2, LedTo
  <2>8. k \in Nat
    BY <1>2
  <2>4. k # NoCategory
    BY <2>8 DEF NoCategory
  <2>5. \A e \in S : Covers(Asks.period, table[e].date)
    BY DEF Countable, ActiveIn
  <2>6. \A e \in S : KeyIn(what, table[e]) = table[e].category
    BY DEF KeyIn
  <2>7. History(table, link) \cap S = {e \in S : KeyIn(what, table[e]) = k}
    BY <2>3, <2>4, <2>5, <2>6
  <2> QED BY <1>2, <2>2, <2>7
<1> QED BY <1>2, <1>3, <1>4 DEF Leads

\* The merchants and "Other" add up, and the top ones are the top ones.
LEMMA MerchantsAreTrue ==
    ASSUME PageTyped(Asks), NEW table \in Tables, table \in seen,
           SectionOfTable("merchants", table),
           NEW rows, rows = Counted(Asks, RowsOf(Asks, "merchants")),
           NEW groups, groups = Combined(Asks, rows),
           NEW merchants, merchants = Top(Ranked({g \in groups : g.key # NoMerchant}))
    PROVE  /\ TrueSum(ToSet(merchants) \union Rest(groups), "merchants")
           /\ Len(merchants) =< TOP_MERCHANT_COUNT
           /\ \A g \in ToSet(merchants), h \in Rest(groups) :
                  h.key # NoMerchant => h.total =< g.total
<1> PICK what : what = "merchants"
    OBVIOUS
<1> PICK S : S = Countable(table, Asks.period)
    OBVIOUS
<1>1. OneForEachKey(groups, Asks, rows)
    BY CombinedForEachKey
<1>2. Rankable(groups) /\ TrueSum(groups, what)
    BY <1>1, SectionIsTrue
<1>3. /\ ToSet(merchants) \union Rest(groups) = groups
      /\ Len(merchants) =< TOP_MERCHANT_COUNT
      /\ \A g \in ToSet(merchants), h \in Rest(groups) :
             h.key # NoMerchant => h.total =< g.total
    BY <1>2, TopAndRest
<1> QED BY <1>2, <1>3

-----------------------------------------------------------------------------
(* The axis of the chart.                                                   *)

\* The loop of nice_ceiling from each m in D on.
Climbs(D, value, g) == g = [m \in D |-> IF m * 10 =< value THEN g[m * 10] ELSE m]
Near(value, k) == {m \in 1 .. value : value - m < k}

\* The loop ends, whatever the value.
LEMMA LoopEnds ==
    ASSUME NEW value \in Nat
    PROVE  \E g : Climbs(1 .. value, value, g)
<1> DEFINE Has(k) == \E g : Climbs(Near(value, k), value, g)
           Missing == {k \in Nat : ~Has(k)}
<1>1. Missing = {}
  <2>1. SUFFICES ASSUME Missing # {} PROVE FALSE
    OBVIOUS
  <2>2. PICK n \in Missing : \A m \in Missing : n =< m
    BY <2>1, LeastNumber
  <2>3. n \in Nat /\ ~Has(n)
    OBVIOUS
  <2>4. CASE n = 0
    <3> DEFINE g == [m \in Near(value, n) |-> 0]
    <3>1. \A m \in Near(value, n) : FALSE
      BY <2>4 DEF Near
    <3>2. Climbs(Near(value, n), value, g)
      BY <3>1 DEF Climbs
    <3> QED BY <2>3, <3>2
  <2>5. CASE n # 0
    <3>1. n - 1 \in Nat /\ n - 1 \notin Missing
      BY <2>2, <2>3, <2>5
    <3>2. PICK h : Climbs(Near(value, n - 1), value, h)
      BY <3>1
    <3> DEFINE g == [m \in Near(value, n) |-> IF m * 10 =< value THEN h[m * 10] ELSE m]
    <3>3. ASSUME NEW m \in Near(value, n), m * 10 =< value
          PROVE  g[m * 10] = h[m * 10]
      <4> PICK t \in Int : t = m * 10
        BY DEF Near
      <4>1. t \in Near(value, n) /\ t \in Near(value, n - 1)
        BY <2>3, <3>3 DEF Near
      <4>2. h[t] = IF t * 10 =< value THEN h[t * 10] ELSE t
        BY <3>2, <4>1 DEF Climbs
      <4>3. g[t] = IF t * 10 =< value THEN h[t * 10] ELSE t
        BY <4>1
      <4> QED BY <4>2, <4>3
    <3>4. Climbs(Near(value, n), value, g)
      BY <3>3 DEF Climbs
    <3> QED BY <2>3, <3>4
  <2> QED BY <2>4, <2>5
<1>2. Has(value)
    BY <1>1
<1>3. Near(value, value) = 1 .. value
    BY DEF Near
<1> QED BY <1>2, <1>3

\* It ends at or below the value, and above a tenth of it.
LEMMA MagnitudeIs ==
    ASSUME NEW value \in Nat \ {0}
    PROVE  /\ Magnitude(value) \in Nat \ {0}
           /\ Magnitude(value) =< value /\ value < 10 * Magnitude(value)
<1> DEFINE G == CHOOSE g : g = [m \in 1 .. value |-> IF m * 10 =< value THEN g[m * 10] ELSE m]
<1>1. Magnitude(value) = G[1]
    BY DEF Magnitude
<1>2. Climbs(1 .. value, value, G)
    BY LoopEnds DEF Climbs
<1> HIDE DEF G
<1> DEFINE Good(m) == G[m] \in 1 .. value /\ value < 10 * G[m]
           Bad == {k \in 0 .. value : value - k \in 1 .. value /\ ~Good(value - k)}
<1>3. Bad = {}
  <2>1. SUFFICES ASSUME Bad # {} PROVE FALSE
    OBVIOUS
  <2>2. PICK k \in Bad : \A l \in Bad : k =< l
    <3>1. Bad \in SUBSET Nat
      OBVIOUS
    <3> HIDE DEF Bad
    <3> QED BY <2>1, <3>1, LeastNumber
  <2> PICK m \in Int : m = value - k
    OBVIOUS
  <2>3. m \in 1 .. value /\ ~Good(m)
    OBVIOUS
  <2>4. G[m] = IF m * 10 =< value THEN G[m * 10] ELSE m
    BY <1>2, <2>3 DEF Climbs
  <2>5. CASE m * 10 =< value
    <3> PICK t \in Int : t = m * 10
      OBVIOUS
    <3> PICK l \in Int : l = value - t
      OBVIOUS
    <3>1. l \in 0 .. value /\ value - l = t /\ t \in 1 .. value /\ l < k
      BY <2>3, <2>5
    <3>2. l \notin Bad
      BY <2>2, <3>1
    <3>3. Good(t)
      BY <3>1, <3>2
    <3> QED BY <2>3, <2>4, <2>5, <3>3
  <2>6. CASE ~(m * 10 =< value)
    BY <2>3, <2>4, <2>6
  <2> QED BY <2>5, <2>6
<1>4. Good(1)
  <2>1. value - 1 \in 0 .. value /\ value - (value - 1) = 1 /\ 1 \in 1 .. value
    OBVIOUS
  <2>2. value - 1 \notin Bad
    BY <1>3
  <2> HIDE DEF Good
  <2> QED BY <2>1, <2>2
<1> QED BY <1>1, <1>4

\* The axis reaches as high as the value.
LEMMA CeilingIsAbove ==
    ASSUME NEW value \in Int
    PROVE  NiceCeiling(value) \in Int /\ value =< NiceCeiling(value)
<1>1. CASE value =< 0
    BY <1>1 DEF NiceCeiling
<1>2. CASE value > 0
  <2> PICK m : m = Magnitude(value)
    OBVIOUS
  <2>1. m \in Nat \ {0} /\ value < 10 * m
    BY <1>2, MagnitudeIs
  <2> DEFINE T == {t \in {m, 2 * m, (5 * m) \div 2, 5 * m, 10 * m} : t >= value}
  <2>2. NiceCeiling(value) = Min(T)
    BY <1>2 DEF NiceCeiling
  <2>3. T \in SUBSET Nat /\ 10 * m \in T /\ \A t \in T : value =< t
    BY <1>2, <2>1
  <2> HIDE DEF T
  <2>4. \E t \in T : \A u \in T : t =< u
    BY <2>3, LeastNumber
  <2>5. Min(T) \in T
    BY <2>4 DEF Min
  <2> PICK top : top = Min(T)
    OBVIOUS
  <2>7. \A t \in T : t \in Int /\ value =< t
    BY <2>3
  <2>8. top \in T
    BY <2>5
  <2>6. top \in Int /\ value =< top
    BY <2>7, <2>8
  <2> QED BY <2>2, <2>6
<1> QED BY <1>1, <1>2

LEMMA GreatestNumber ==
    ASSUME NEW T \in SUBSET Int, IsFiniteSet(T), T # {}
    PROVE  Max(T) \in T /\ \A t \in T : t =< Max(T)
<1> DEFINE Q == {s \in SUBSET T : s # {} => \E x \in s : \A y \in s : y =< x}
<1>1. {} \in Q
    OBVIOUS
<1>2. ASSUME NEW s \in SUBSET T, NEW x \in s, s \ {x} \in Q PROVE s \in Q
  <2>1. CASE s \ {x} = {}
    BY <2>1
  <2>2. CASE s \ {x} # {}
    <3>1. PICK z \in s \ {x} : \A y \in s \ {x} : y =< z
      BY <1>2, <2>2
    <3>2. CASE x =< z
      BY <3>1, <3>2
    <3>3. CASE ~(x =< z)
      <4>1. \A y \in s : y =< x
        BY <3>1, <3>3
      <4> QED BY <4>1
    <3> QED BY <3>2, <3>3
  <2> QED BY <2>1, <2>2
<1> HIDE DEF Q
<1>3. T \in Q
    BY <1>1, <1>2, Growing
<1>4. \E x \in T : \A y \in T : y =< x
    BY <1>3 DEF Q
<1>5. PICK x \in T : \A y \in T : x >= y
    BY <1>4
<1>6. \E z \in T : \A y \in T : z >= y
    BY <1>5
<1>7. Max(T) \in T /\ \A y \in T : Max(T) >= y
    BY <1>6 DEF Max
<1> QED BY <1>7

\* The columns of the chart fit its axis, add up to what the Expenses do, and open
\* the history that has theirs.
LEMMA ChartIsTrue ==
    ASSUME PageTyped(Asks), NEW period, period = Asks.period,
           NEW table \in Tables, table \in seen, SectionOfTable("daily", table),
           NEW rows, rows = Counted(Asks, RowsOf(Asks, "daily")),
           NEW buckets, buckets = BucketsOf(Asks, period, rows),
           NEW chart, chart = TimeChart(Asks, buckets)
    PROVE  /\ TrueSum(buckets, "daily")
           /\ \A column \in chart.columns : column.total =< chart.axis
           /\ Leads(chart.columns)
<1> PICK S : S = Countable(table, period)
    OBVIOUS
<1> PICK what : what = "daily"
    OBVIOUS
<1> PICK c : c = SectionsIn(Asks)
    OBVIOUS
<1> PICK key : key = KeysOf(what, table, S)
    OBVIOUS
<1>1. rows = Counted(Asks, GroupsBy(what, table, period, c)) /\ c \in {NoCurrency, SectionsIn(Asks)}
    BY DEF SectionOfTable
<1>2. Grouping(rows, table, S, key)
    BY <1>1, SectionRowsGroup
<1>3. \A e \in S : key[e] = table[e].date
    BY DEF KeysOf, KeyIn
<1>4. ASSUME NEW e \in S PROVE key[e] \in period.date_from .. period.date_to
  <2>1. table[e] \in Entry /\ Covers(period, table[e].date)
    BY EntriesOf DEF Countable, ActiveIn
  <2>2. table[e].date \in Int
    BY <2>1, DaysAreIntegers DEF Entry
  <2> QED BY <1>3, <2>1, <2>2 DEF Covers
<1>5. /\ TrueSum(buckets, "daily") /\ IsFiniteSet(buckets) /\ buckets # {}
      /\ \A b \in buckets :
             b.total \in Int /\ b.count = Cardinality({e \in S : Covers(b.period, key[e])})
  <2>1. rows = Counted(Asks, RowsOf(Asks, "daily"))
    OBVIOUS
  <2> QED BY <1>2, <1>4, <2>1, BucketsAreTrue
<1> DEFINE tops == {b.total : b \in buckets}
           column(b) == [total |-> b.total, count |-> b.count,
                         link |-> Link(Asks, b.period, NoCategory)]
<1>6. chart.axis = NiceCeiling(Max(tops)) /\ chart.columns = {column(b) : b \in buckets}
    BY DEF TimeChart
<1>7. \A b \in buckets : b.total =< NiceCeiling(Max(tops))
  <2>1. tops \in SUBSET Int /\ tops # {}
    <3>1. (\A b \in buckets : b.total \in Int) /\ \E b \in buckets : TRUE
      BY <1>5
    <3> QED BY <3>1
  <2>2. IsFiniteSet(tops)
    <3> DEFINE f == [b \in buckets |-> b.total]
    <3>1. f \in Surjection(buckets, tops)
      BY DEF Surjection
    <3> HIDE DEF f, tops
    <3> QED BY <1>5, <3>1, FS_Surjection
  <2>3. \A b \in buckets : b.total \in tops
    OBVIOUS
  <2> HIDE DEF tops
  <2>4. Max(tops) \in Int /\ \A t \in tops : t =< Max(tops)
    BY <2>1, <2>2, GreatestNumber
  <2> PICK most \in Int : most = Max(tops)
    BY <2>4
  <2> PICK axis : axis = NiceCeiling(most)
    OBVIOUS
  <2>5. most =< axis /\ axis \in Int
    BY CeilingIsAbove
  <2>6. ASSUME NEW b \in buckets PROVE b.total =< axis
    <3>1. b.total \in Int /\ b.total =< most
      BY <2>1, <2>3, <2>4
    <3> QED BY <2>5, <3>1
  <2> QED BY <2>6
<1>8. ASSUME NEW b \in buckets
      PROVE  column(b).count = Cardinality(History(table, column(b).link) \cap S)
  <2> PICK link : link = Link(Asks, b.period, NoCategory)
    OBVIOUS
  <2> PICK days : days = b.period
    OBVIOUS
  <2>1. History(table, link) \cap S = {e \in S : Covers(days, table[e].date)}
    <3> PICK none : none = NoCategory
      OBVIOUS
    <3>1. link = Link(Asks, days, none)
      OBVIOUS
    <3>2. History(table, link) \cap S =
              {e \in S : /\ Covers(days, table[e].date)
                         /\ none = NoCategory \/ table[e].category = none}
      BY <3>1, LedTo
    <3> QED BY <3>2
  <2>2. {e \in S : Covers(days, key[e])} = {e \in S : Covers(days, table[e].date)}
    BY <1>3
  <2>3. b.count = Cardinality({e \in S : Covers(days, key[e])})
    BY <1>5
  <2> QED BY <2>1, <2>2, <2>3
<1>9. \A b \in buckets : column(b).total = b.total
    OBVIOUS
<1> HIDE DEF column, tops
<1>10. \A x \in chart.columns : x.total =< chart.axis
    BY <1>6, <1>7, <1>9
<1>11. \A x \in chart.columns : x.count = Cardinality(History(table, x.link) \cap S)
    BY <1>6, <1>8
<1> QED BY <1>5, <1>10, <1>11 DEF Leads

-----------------------------------------------------------------------------
(* The sections that a page plans.                                          *)

Never(s, what) == \A j \in 1 .. Len(s) : s[j].what # what
\* Exactly one of the statements is of the kind, and it is x.
JustOne(s, what, x) ==
    \E i \in 1 .. Len(s) : s[i] = x /\ \A j \in 1 .. Len(s) : s[j].what = what => j = i

\* The next statement is made: it was the one of its kind, or that one is still to come.
LEMMA HeadIsMade ==
    ASSUME NEW A, NEW s \in Seq(A), s # <<>>, NEW what, NEW x, x.what = what
    PROVE  /\ Tail(s) \in Seq(A)
           /\ Never(s, what) => Head(s).what # what /\ Never(Tail(s), what)
           /\ JustOne(s, what, x) =>
                  IF Head(s).what = what THEN Head(s) = x /\ Never(Tail(s), what)
                  ELSE JustOne(Tail(s), what, x)
<1> PICK t : t = Tail(s)
    OBVIOUS
<1>1. /\ t \in Seq(A) /\ Len(t) = Len(s) - 1 /\ Len(s) \in Nat \ {0}
      /\ \A i \in 1 .. Len(t) : t[i] = s[i + 1]
    BY HeadTailProperties, EmptySeq, LenProperties
<1>2. Head(s) = s[1]
    OBVIOUS
<1> PICK n \in Nat : n = Len(s)
    BY <1>1
<1> PICK m \in Nat : m = Len(t)
    BY <1>1
<1>9. m = n - 1
    BY <1>1
<1>3. \A i \in 1 .. m : i + 1 \in 1 .. n /\ t[i] = s[i + 1] /\ i + 1 # 1
  <2>1. \A i \in 1 .. m : t[i] = s[i + 1]
    BY <1>1
  <2>2. \A i \in 1 .. m : i + 1 \in 1 .. n /\ i + 1 # 1
    BY <1>9
  <2> QED BY <2>1, <2>2
<1>4. 1 \in 1 .. n
    BY <1>1
<1>5. ASSUME Never(s, what) PROVE Head(s).what # what /\ Never(t, what)
  <2>1. \A j \in 1 .. n : s[j].what # what
    BY <1>5 DEF Never
  <2>2. \A j \in 1 .. m : t[j].what # what
    BY <1>3, <2>1
  <2> QED BY <1>2, <1>4, <2>1, <2>2 DEF Never
<1>6. ASSUME JustOne(s, what, x)
      PROVE  IF Head(s).what = what THEN Head(s) = x /\ Never(t, what) ELSE JustOne(t, what, x)
  <2>1. PICK i \in 1 .. n : s[i] = x /\ \A j \in 1 .. n : s[j].what = what => j = i
    BY <1>6 DEF JustOne
  <2>2. CASE Head(s).what = what
    <3>1. i = 1
      BY <1>2, <1>4, <2>1, <2>2
    <3>2. \A j \in 1 .. m : t[j].what # what
      BY <1>3, <2>1, <3>1
    <3> QED BY <1>2, <2>1, <2>2, <3>1, <3>2 DEF Never
  <2>3. CASE Head(s).what # what
    <3>1. i # 1
      BY <1>2, <2>1, <2>3
    <3> PICK k \in Int : k = i - 1
      OBVIOUS
    <3>2. k \in 1 .. m /\ k + 1 = i
      BY <3>1
    <3>3. t[k] = x
      BY <1>3, <2>1, <3>2
    <3>4. ASSUME NEW j \in 1 .. m, t[j].what = what PROVE j = k
      <4>1. j + 1 = i
        BY <1>3, <2>1, <3>4
      <4> QED BY <3>2, <4>1
    <3> QED BY <2>3, <3>2, <3>3, <3>4 DEF JustOne
  <2> QED BY <2>2, <2>3
<1> QED BY <1>1, <1>5, <1>6

LEMMA OnceInBoth ==
    ASSUME NEW A, NEW s \in Seq(A), NEW t \in Seq(A), NEW what, NEW x
    PROVE  /\ s \o t \in Seq(A)
           /\ Never(s, what) /\ Never(t, what) => Never(s \o t, what)
           /\ JustOne(s, what, x) /\ Never(t, what) => JustOne(s \o t, what, x)
           /\ Never(s, what) /\ JustOne(t, what, x) => JustOne(s \o t, what, x)
<1> PICK u : u = s \o t
    OBVIOUS
<1>1. /\ u \in Seq(A) /\ Len(u) = Len(s) + Len(t) /\ Len(s) \in Nat /\ Len(t) \in Nat
      /\ \A i \in 1 .. Len(s) + Len(t) : u[i] = IF i =< Len(s) THEN s[i] ELSE t[i - Len(s)]
    BY ConcatProperties, LenProperties
<1> PICK n \in Nat, m \in Nat : n = Len(s) /\ m = Len(t)
    BY <1>1
<1>2. Len(u) = n + m
    BY <1>1
<1>3. \A i \in 1 .. n : i \in 1 .. n + m /\ u[i] = s[i]
    BY <1>1
<1>4. \A i \in 1 .. m : n + i \in 1 .. n + m /\ u[n + i] = t[i] /\ ~(n + i \in 1 .. n)
    BY <1>1
<1>5. \A i \in 1 .. n + m : i \in 1 .. n \/ (i - n \in 1 .. m /\ n + (i - n) = i)
    OBVIOUS
<1>6. ASSUME Never(s, what), Never(t, what) PROVE Never(u, what)
  <2>1. (\A i \in 1 .. n : s[i].what # what) /\ (\A i \in 1 .. m : t[i].what # what)
    BY <1>6 DEF Never
  <2>2. \A i \in 1 .. n + m : u[i].what # what
    BY <1>3, <1>4, <1>5, <2>1
  <2> QED BY <1>2, <2>2 DEF Never
<1>7. ASSUME JustOne(s, what, x), Never(t, what) PROVE JustOne(u, what, x)
  <2>1. PICK i \in 1 .. n : s[i] = x /\ \A j \in 1 .. n : s[j].what = what => j = i
    BY <1>7 DEF JustOne
  <2>2. \A j \in 1 .. m : t[j].what # what
    BY <1>7 DEF Never
  <2>3. ASSUME NEW j \in 1 .. n + m, u[j].what = what PROVE j = i
    <3>1. CASE j \in 1 .. n
      BY <1>3, <2>1, <2>3, <3>1
    <3>2. CASE j \notin 1 .. n
      <4> PICK k \in 1 .. m : n + k = j
        BY <1>5, <3>2
      <4>1. t[k].what = what
        BY <1>4, <2>3
      <4> QED BY <2>2, <4>1
    <3> QED BY <3>1, <3>2
  <2>4. i \in 1 .. n + m /\ u[i] = x
    BY <1>3, <2>1
  <2> QED BY <1>2, <2>3, <2>4 DEF JustOne
<1>8. ASSUME Never(s, what), JustOne(t, what, x) PROVE JustOne(u, what, x)
  <2>1. PICK i \in 1 .. m : t[i] = x /\ \A j \in 1 .. m : t[j].what = what => j = i
    BY <1>8 DEF JustOne
  <2>2. \A j \in 1 .. n : s[j].what # what
    BY <1>8 DEF Never
  <2>3. ASSUME NEW j \in 1 .. n + m, u[j].what = what PROVE j = n + i
    <3>1. j \notin 1 .. n
      BY <1>3, <2>2, <2>3
    <3> PICK k \in 1 .. m : n + k = j
      BY <1>5, <3>1
    <3>2. t[k].what = what
      BY <1>4, <2>3
    <3> QED BY <2>1, <3>2
  <2>4. n + i \in 1 .. n + m /\ u[n + i] = x
    BY <1>4, <2>1
  <2> QED BY <1>2, <2>3, <2>4 DEF JustOne
<1> QED BY <1>1, <1>6, <1>7, <1>8

\* The sections that are grouped by a key besides the currency.
Keyed == {"daily", "categories", "merchants"}
HasTheSections(plan, within) ==
    /\ plan \in Seq(Others)
    /\ \A what \in Keyed : JustOne(plan, what, Statement(what, within))

\* A plan asks once for each section.
LEMMA PlanHasSections ==
    ASSUME NEW p, NEW selected, NEW totals, NEW plan, NEW within, NEW of,
           Planned(p, selected, totals, plan, within, of)
    PROVE  HasTheSections(plan, within)
<1> PICK C : C = InRates(p, totals)
    OBVIOUS
<1> DEFINE three == <<Statement("daily", within), Statement("categories", within),
                      Statement("merchants", within)>>
           windows == Comparing(p)
           present == SetToSeq(C)
           row == [i \in DOMAIN present |-> Statement("largest", present[i])]
           one == <<Statement("largest", selected)>>
<1>1. plan = IF Converted(p) THEN (windows \o three) \o row ELSE one \o (windows \o three)
    BY DEF Plan, InRates, Planned
<1>2. /\ within \in Currency \union {NoCurrency} /\ IsFiniteSet(C) /\ C \subseteq Currency
      /\ selected \in Currency \union {NoCurrency}
    BY DEF Planned
<1>3. \A c \in Currency \union {NoCurrency} :
          /\ Statement("largest", c) \in Others
          /\ Statement("largest", c).what \notin Keyed
  <2>1. ASSUME NEW c \in Currency \union {NoCurrency} PROVE Statement("largest", c) \in Others
    BY DEF Others, QuietOnes, QuietKinds
  <2>2. ASSUME NEW c \in Currency \union {NoCurrency}
        PROVE  Statement("largest", c).what \notin Keyed
    <3>1. Statement("largest", c).what = "largest"
      BY DEF Statement
    <3> QED BY <3>1 DEF Keyed
  <2> QED BY <2>1, <2>2
<1>4. three \in Seq(Others) /\ \A what \in Keyed : JustOne(three, what, Statement(what, within))
  <2> PICK a, b, c : /\ a = Statement("daily", within) /\ b = Statement("categories", within)
                     /\ c = Statement("merchants", within)
    OBVIOUS
  <2>1. {a, b, c} \subseteq Others
    BY <1>2 DEF Others, QuietOnes, QuietKinds
  <2>2. a.what = "daily" /\ b.what = "categories" /\ c.what = "merchants"
    BY DEF Statement
  <2> PICK t : t = <<a, b, c>>
    OBVIOUS
  <2>3. t \in Seq(Others) /\ Len(t) = 3 /\ t[1] = a /\ t[2] = b /\ t[3] = c
    BY <2>1
  <2>4. JustOne(t, "daily", a) /\ JustOne(t, "categories", b) /\ JustOne(t, "merchants", c)
    <3>1. \A j \in 1 .. 3 : j = 1 \/ j = 2 \/ j = 3
      OBVIOUS
    <3> QED BY <2>2, <2>3, <3>1 DEF JustOne
  <2> QED BY <2>3, <2>4 DEF Keyed
<1>5. windows \in Seq(Others) /\ \A what \in Keyed : Never(windows, what)
  <2>1. Previous.what = "previous" /\ Current.what = "current"
    BY DEF Previous, Current, Statement
  <2>2. windows = IF p.windows = NoWindows THEN <<>> ELSE <<Previous, Current>>
    BY DEF Comparing, Previous, Current
  <2>3. {Previous, Current} \subseteq Others
    BY DEF Others
  <2>4. <<Previous, Current>> \in Seq(Others) /\ <<>> \in Seq(Others)
    BY <2>3
  <2>5. \A what \in Keyed : Never(<<>>, what)
    BY DEF Never
  <2>6. \A what \in Keyed : Never(<<Previous, Current>>, what)
    <3> PICK w : w = <<Previous, Current>>
      OBVIOUS
    <3>1. Len(w) = 2 /\ w[1].what = "previous" /\ w[2].what = "current"
      BY <2>1
    <3>2. \A j \in 1 .. 2 : j = 1 \/ j = 2
      OBVIOUS
    <3> QED BY <3>1, <3>2 DEF Never, Keyed
  <2> QED BY <2>2, <2>4, <2>5, <2>6
<1>6. row \in Seq(Others) /\ \A what \in Keyed : Never(row, what)
  <2>1. PICK n \in Nat : present \in [1 .. n -> C]
    BY <1>2, AllInARow
  <2> HIDE DEF present
  <2>2. row = [i \in 1 .. n |-> Statement("largest", present[i])]
    BY <2>1
  <2>3. \A i \in 1 .. n : present[i] \in Currency
    BY <1>2, <2>1
  <2>4. \A i \in 1 .. n : row[i] \in Others /\ row[i].what \notin Keyed
    BY <1>3, <2>2, <2>3
  <2>5. row \in Seq(Others) /\ Len(row) = n
    BY <2>2, <2>4
  <2> QED BY <2>4, <2>5 DEF Never
<1>7. one \in Seq(Others) /\ \A what \in Keyed : Never(one, what)
  <2> PICK s : s = Statement("largest", selected)
    OBVIOUS
  <2>1. s \in Others /\ s.what \notin Keyed
    BY <1>2, <1>3
  <2> PICK u : u = <<s>>
    OBVIOUS
  <2>2. u \in Seq(Others) /\ Len(u) = 1 /\ u[1] = s
    BY <2>1
  <2> QED BY <2>1, <2>2 DEF Never
<1> HIDE DEF three, windows, row, one
<1> PICK All : All = Others
    OBVIOUS
<1>8. \A s, t \in Seq(All) : \A what, x :
          /\ s \o t \in Seq(All)
          /\ JustOne(s, what, x) /\ Never(t, what) => JustOne(s \o t, what, x)
          /\ Never(s, what) /\ JustOne(t, what, x) => JustOne(s \o t, what, x)
    BY OnceInBoth
<1> PICK w \in Seq(All), t \in Seq(All), r \in Seq(All), o \in Seq(All) :
        w = windows /\ t = three /\ r = row /\ o = one
    BY <1>4, <1>5, <1>6, <1>7
<1> PICK both : both = w \o t
    OBVIOUS
<1>9. both \in Seq(All) /\ \A what \in Keyed : JustOne(both, what, Statement(what, within))
    BY <1>4, <1>5, <1>8
<1>10. /\ both \o r \in Seq(All)
       /\ \A what \in Keyed : JustOne(both \o r, what, Statement(what, within))
    BY <1>6, <1>8, <1>9
<1>11. /\ o \o both \in Seq(All)
       /\ \A what \in Keyed : JustOne(o \o both, what, Statement(what, within))
    BY <1>7, <1>8, <1>9
<1> QED BY <1>1, <1>10, <1>11 DEF HasTheSections

-----------------------------------------------------------------------------
(* The sections that are still to be read.                                  *)

\* A section that is still to be read, and one that was.
Due(p, what) == Unread(p, what) /\ JustOne(p.todo, what, Statement(what, SectionsIn(p)))
Done(p, what, tables) ==
    /\ Never(p.todo, what)
    /\ \E table \in tables : RowsOf(p, what) = GroupsBy(what, table, p.period, SectionsIn(p))

SectionsToCome(p, tables) ==
    \/ Unopened(p)
    \/ /\ \E table \in tables :
              RowsOf(p, "currencies") = GroupsBy("currencies", table, p.period, NoCurrency)
       /\ p.selected # NoCurrency => \A what \in Keyed : Due(p, what) \/ Done(p, what, tables)

LEMMA SectionsStillToCome ==
    ASSUME NEW p, NEW tables, NEW more, tables \subseteq more, SectionsToCome(p, tables)
    PROVE  SectionsToCome(p, more)
<1>1. \A what : Done(p, what, tables) => Done(p, what, more)
    BY DEF Done
<1> QED BY <1>1 DEF SectionsToCome

LEMMA KeyedKinds == \A what \in Keyed : what # "currencies" /\ what # "current" /\ what # "previous"
BY DEF Keyed

\* The totals per currency, and the plan they lead to.
LEMMA FirstSections ==
    ASSUME NEW p, NEW q, NEW tables, NEW table \in tables, NEW r, NEW totals,
           q.read = {r}, r.what = "currencies", r.rows = totals,
           totals = GroupsBy("currencies", table, q.period, NoCurrency),
           q.selected \in Currency \union {NoCurrency},
           Converted(q) = Converted(p),
           q.todo = Plan(p, q.selected, totals),
           IsFiniteSet(InRates(p, totals)), InRates(p, totals) \subseteq Currency
    PROVE  SectionsToCome(q, tables)
<1>1. RowsOf(q, "currencies") = totals
  <2>1. {s \in q.read : s.what = "currencies"} = {r}
    OBVIOUS
  <2>2. RowsOf(q, "currencies") = UNION {s.rows : s \in {r}}
    BY <2>1 DEF RowsOf
  <2> QED BY <2>2
<1>2. ASSUME q.selected # NoCurrency, NEW what \in Keyed PROVE Due(q, what)
  <2> PICK selected \in Currency \union {NoCurrency} : selected = q.selected
    OBVIOUS
  <2> PICK within : within = SectionsIn(q)
    OBVIOUS
  <2> PICK of : of = IF Converted(p) THEN InRates(p, totals) ELSE {selected}
    OBVIOUS
  <2> PICK plan : plan = q.todo
    OBVIOUS
  <2>1. HasTheSections(plan, within)
    <3>1. Planned(p, selected, totals, plan, within, of)
      BY <1>2 DEF Planned, SectionsIn
    <3> QED BY <3>1, PlanHasSections
  <2>2. JustOne(plan, what, Statement(what, within))
    BY <1>2, <2>1 DEF HasTheSections
  <2>3. Unread(q, what)
    BY <1>2, KeyedKinds DEF Unread
  <2> QED BY <2>2, <2>3 DEF Due
<1> QED BY <1>1, <1>2 DEF SectionsToCome

\* What follows a statement, and is not passed over.
LeftOver(left, rest) ==
    rest = left \/ (left # <<>> /\ Head(left) = Current /\ rest = Tail(left))

LEMMA LeftOverKeeps ==
    ASSUME NEW left \in Seq(Others), NEW rest, LeftOver(left, rest), NEW what \in Keyed,
           NEW x, x.what = what
    PROVE  /\ Never(left, what) => Never(rest, what)
           /\ JustOne(left, what, x) => JustOne(rest, what, x)
<1>1. CASE rest = left
    BY <1>1
<1>2. CASE left # <<>> /\ Head(left) = Current /\ rest = Tail(left)
  <2> PICK All : All = Others
    OBVIOUS
  <2>1. Head(left).what # what
    <3>1. Current.what = "current"
      BY DEF Current, Statement
    <3> QED BY <1>2, <3>1, KeyedKinds
  <2>2. \A s \in Seq(All) : s # <<>> =>
            /\ Never(s, what) => Head(s).what # what /\ Never(Tail(s), what)
            /\ JustOne(s, what, x) =>
                   IF Head(s).what = what THEN Head(s) = x /\ Never(Tail(s), what)
                   ELSE JustOne(Tail(s), what, x)
    BY HeadIsMade
  <2> QED BY <1>2, <2>1, <2>2
<1> QED BY <1>1, <1>2 DEF LeftOver

\* A statement that is made answers its section and leaves the others alone.
LEMMA NextSections ==
    ASSUME NEW p, NEW q, Same(p, q), NEW tables, SectionsToCome(p, tables), ~Unopened(p),
           p.todo \in Seq(Others), p.todo # <<>>, NEW next, next = Head(p.todo),
           NEW rows, Extended(p, q, next.what, rows), next.what # "currencies",
           next.what \in Keyed /\ next.currency = SectionsIn(p) =>
               \E table \in tables : rows = GroupsBy(next.what, table, p.period, SectionsIn(p)),
           LeftOver(Tail(p.todo), q.todo)
    PROVE  SectionsToCome(q, tables)
<1> PICK kind : kind = next.what
    OBVIOUS
<1>1. /\ \A other : other # kind => RowsOf(q, other) = RowsOf(p, other)
                             /\ (Unread(p, other) => Unread(q, other))
      /\ Unread(p, kind) => RowsOf(q, kind) = rows
    BY RowsAfter
<1>2. SectionsIn(q) = SectionsIn(p) /\ q.period = p.period /\ q.selected = p.selected
    BY SameWants DEF Same
<1> PICK within : within = SectionsIn(p)
    OBVIOUS
<1>3. \E table \in tables :
          RowsOf(q, "currencies") = GroupsBy("currencies", table, q.period, NoCurrency)
    BY <1>1, <1>2 DEF SectionsToCome
<1>4. ASSUME p.selected # NoCurrency, NEW what \in Keyed PROVE Due(q, what) \/ Done(q, what, tables)
  <2> PICK x : x = Statement(what, within)
    OBVIOUS
  <2>1. x.what = what /\ x.currency = within
    BY DEF Statement
  <2> PICK old \in Seq(Others) : old = p.todo
    OBVIOUS
  <2> PICK left : left = Tail(old)
    OBVIOUS
  <2>2. /\ left \in Seq(Others)
        /\ Never(old, what) => next.what # what /\ Never(left, what)
        /\ JustOne(old, what, x) => IF next.what = what THEN next = x /\ Never(left, what)
                                    ELSE JustOne(left, what, x)
    BY <2>1, HeadIsMade
  <2>3. /\ Never(left, what) => Never(q.todo, what)
        /\ JustOne(left, what, x) => JustOne(q.todo, what, x)
    BY <1>4, <2>1, <2>2, LeftOverKeeps
  <2>4. Due(p, what) \/ Done(p, what, tables)
    BY <1>4 DEF SectionsToCome
  <2>5. CASE Due(p, what)
    <3>1. Unread(p, what) /\ JustOne(old, what, x)
      BY <2>5 DEF Due
    <3>2. CASE next.what = what
      <4>1. next = x /\ Never(q.todo, what)
        BY <2>2, <2>3, <3>1, <3>2
      <4>2. next.currency = SectionsIn(p)
        BY <2>1, <4>1
      <4>3. PICK table \in tables : rows = GroupsBy(what, table, p.period, within)
        BY <1>4, <3>2, <4>2
      <4>4. RowsOf(q, what) = rows
        BY <1>1, <3>1, <3>2
      <4> QED BY <1>2, <4>1, <4>3, <4>4 DEF Done
    <3>3. CASE next.what # what
      <4>1. JustOne(q.todo, what, x) /\ Unread(q, what)
        BY <1>1, <2>2, <2>3, <3>1, <3>3
      <4> QED BY <1>2, <4>1 DEF Due
    <3> QED BY <3>2, <3>3
  <2>6. CASE Done(p, what, tables)
    <3>1. next.what # what /\ Never(q.todo, what)
      BY <2>2, <2>3, <2>6 DEF Done
    <3>2. RowsOf(q, what) = RowsOf(p, what)
      BY <1>1, <3>1
    <3> QED BY <1>2, <2>6, <3>1, <3>2 DEF Done
  <2> QED BY <2>4, <2>5, <2>6
<1> QED BY <1>2, <1>3, <1>4 DEF SectionsToCome

LEMMA ReadSections ==
    ASSUME PageShape(page), PageTyped(page), Ordered(page, seen), InsightsToCome(page, seen),
           SectionsToCome(page, seen), Read, expenses \in seen, expenses \in Tables
    PROVE  SectionsToCome(page', seen)
<1> DEFINE next == Head(page.todo)
           rows == Answer(next)
           present == {g.currency : g \in rows}
           selected == IF next.what = "currencies" THEN Resolved(page, present)
                       ELSE page.selected
           record == [what |-> next.what, currency |-> next.currency, rows |-> rows]
           todo == CASE next.what = "currencies" -> Plan(page, selected, rows)
                     [] next.what = "previous" -> AfterPrevious(page.todo, page, rows)
                     [] OTHER -> Tail(page.todo)
<1>1. page.todo # <<>> /\ page' = [page EXCEPT !.read = @ \union {record},
                                              !.selected = selected, !.todo = todo]
    BY DEF Read
<1> HIDE DEF rows, record, selected, todo
<1> PICK q : q = page'
    OBVIOUS
<1>2. /\ q.default = page.default /\ q.period = page.period /\ q.rates = page.rates
      /\ q.windows = page.windows
      /\ q.selected = selected /\ q.todo = todo /\ q.read = page.read \union {record}
    BY <1>1 DEF PageShape
<1>3. record.what = next.what /\ record.currency = next.currency /\ record.rows = rows
    BY DEF record
<1>4. Converted(q) = Converted(page)
    BY <1>2 DEF Converted
<1> HIDE DEF next
<1> PICK period : period = page.period
    OBVIOUS
<1>5. next.what \in Sections => rows = GroupsBy(next.what, expenses, period, next.currency)
    BY SectionAnswers DEF rows
<1>6. CASE Unopened(page)
  <2>1. next = Statement("currencies", NoCurrency) /\ page.read = {}
    BY <1>6 DEF Unopened, Untouched, next
  <2>2. next.what = "currencies" /\ next.currency = NoCurrency
    BY <2>1 DEF Statement
  <2>3. \A g \in rows : \E e \in ActiveIn(expenses, period, NoCurrency) :
            g.currency = expenses[e].currency
    BY <2>2, AnswerTells DEF rows
  <2>4. present \subseteq Currency
    BY <2>3, ExpensesAreEntries
  <2>5. InRates(page, rows) \subseteq Currency /\ IsFiniteSet(InRates(page, rows))
    <3>1. \A c \in InRates(page, rows) :
              \E e \in ActiveIn(expenses, period, NoCurrency) : c = expenses[e].currency
      BY <2>3 DEF InRates
    <3>2. ActiveIn(expenses, period, NoCurrency) \in SUBSET Expense
      BY DEF ActiveIn
    <3>3. IsFiniteSet(InRates(page, rows))
      BY <3>1, <3>2, FewCurrencies
    <3> QED BY <2>4, <3>3 DEF InRates
  <2>6. selected = Resolved(page, present) /\ todo = Plan(page, selected, rows)
    BY <2>2 DEF selected, todo
  <2> HIDE DEF present
  <2>7. selected \in Currency \union {NoCurrency}
    BY <2>4, <2>6, ResolvedIsTyped
  <2> PICK r : r = record
    OBVIOUS
  <2> PICK totals : totals = rows
    OBVIOUS
  <2>8. q.read = {r} /\ r.what = "currencies" /\ r.rows = totals
    BY <1>2, <1>3, <2>1, <2>2
  <2>9. totals = GroupsBy("currencies", expenses, q.period, NoCurrency)
    BY <1>2, <1>5, <2>2 DEF Sections
  <2>10. q.todo = Plan(page, q.selected, totals)
    BY <1>2, <2>6
  <2> QED BY <1>2, <1>4, <2>5, <2>7, <2>8, <2>9, <2>10, FirstSections
<1>7. CASE ~Unopened(page)
  <2>1. page.todo \in Seq(Others) /\ next \in Others
    <3>1. page.todo \in Seq(Others)
      BY <1>7 DEF InsightsToCome
    <3> PICK old \in Seq(Others) : old = page.todo
      BY <3>1
    <3>2. Head(old) \in Others
      BY <1>1, HeadAndTail
    <3> QED BY <3>1, <3>2 DEF next
  <2>2. next.what # "currencies"
    <3>1. Previous.what = "previous" /\ Current.what = "current"
      BY DEF Previous, Current, Statement
    <3> QED BY <2>1, <3>1, QuietIsQuiet DEF Others
  <2>3. Same(page, q)
    BY <1>2, <2>2 DEF Same, selected
  <2>4. next.what \in Keyed /\ next.currency = SectionsIn(page) =>
            \E table \in seen : rows = GroupsBy(next.what, table, period, SectionsIn(page))
    BY <1>5 DEF Keyed, Sections
  <2>5. LeftOver(Tail(page.todo), todo)
    <3>1. CASE next.what = "previous"
      <4>1. todo = Tail(Tail(page.todo)) \/ todo = Tail(page.todo)
        BY <3>1 DEF todo, AfterPrevious
      <4>2. next \notin QuietOnes /\ next # Current
        <5>1. Current.what = "current"
          BY DEF Current, Statement
        <5> QED BY <3>1, <5>1, QuietIsQuiet
      <4>3. ~Quiet(page.todo)
        BY <1>1, <4>2, QuietGoesOn DEF next
      <4>4. AtPrevious(page.todo)
        BY <1>7, <4>2, <4>3 DEF Ordered, NotComparing, PreviousToCome, CurrentToCome, WindowsRead,
                                BeforePrevious, AtCurrent, next
      <4> QED BY <4>1, <4>4 DEF AtPrevious, AtCurrent, LeftOver
    <3>2. CASE next.what # "previous"
      BY <2>2, <3>2 DEF todo, LeftOver
    <3> QED BY <3>1, <3>2
  <2>6. Extended(page, q, next.what, rows)
    BY <1>2, <1>3, <2>2 DEF Extended, selected
  <2> PICK head : head = next
    OBVIOUS
  <2> PICK p : p = page
    OBVIOUS
  <2> PICK given : given = rows
    OBVIOUS
  <2>7. /\ Same(p, q) /\ SectionsToCome(p, seen) /\ ~Unopened(p) /\ p.todo \in Seq(Others)
        /\ p.todo # <<>> /\ Extended(p, q, head.what, given) /\ head.what # "currencies"
    BY <1>1, <1>7, <2>1, <2>2, <2>3, <2>6
  <2>8. head = Head(p.todo) /\ LeftOver(Tail(p.todo), q.todo)
    BY <1>2, <2>5 DEF next
  <2>9. head.what \in Keyed /\ head.currency = SectionsIn(p) =>
            \E table \in seen : given = GroupsBy(head.what, table, p.period, SectionsIn(p))
    BY <2>4
  <2>10. SectionsToCome(q, seen)
    BY <2>7, <2>8, <2>9, NextSections
  <2> QED BY <2>10
<1> QED BY <1>6, <1>7

\* What holds of a page under way, and of one that was answered.
SectionsSound ==
    /\ page.stage = "reading" => SectionsToCome(page, seen)
    /\ page.stage = "done" => SectionsToCome(page.request, seen)

\* Every step keeps the sections apart, and each from one of the tables seen.
LEMMA SectionsStepKeeps ==
    ASSUME PageSound, WindowsInOrder, InsightsSound, SectionsSound, [DashboardNext]_dashboardVars
    PROVE  SectionsSound'
<1>1. CASE \E client \in {Web, Api}, currency, default \in Chosen \union {NoCurrency},
              today \in Todays :
               \E asked \in {NoPeriod} \union Asked \union Presets(today) :
                   Open(client, asked, currency, default, today)
  <2>1. PICK client, currency, default, today, asked : Open(client, asked, currency, default, today)
    BY <1>1
  <2>2. page'.stage = "reading" /\ page'.read = {} /\ Untouched(page')
    BY <2>1 DEF Open, Untouched
  <2> QED BY <2>2 DEF SectionsSound, SectionsToCome, Unopened
<1>2. CASE Read
  <2>1. /\ page.stage = "reading" /\ PageShape(page) /\ PageTyped(page) /\ Ordered(page, seen)
        /\ expenses \in seen /\ expenses \in Tables /\ seen' = seen /\ InsightsToCome(page, seen)
        /\ SectionsToCome(page, seen)
    BY <1>2 DEF Read, PageSound, ReadingIsHonest, WindowsInOrder, InsightsSound, SectionsSound
  <2>2. SectionsToCome(page', seen)
    BY <1>2, <2>1, ReadSections
  <2>3. page'.stage = "reading"
    BY <1>2, <2>1 DEF Read, PageShape
  <2> QED BY <2>1, <2>2, <2>3 DEF SectionsSound
<1>3. CASE Respond
  <2>1. /\ page.stage = "reading" /\ PageShape(page) /\ seen' = seen
        /\ SectionsToCome(page, seen)
    BY <1>3 DEF Respond, PageSound, ReadingIsHonest, SectionsSound
  <2>2. page'.stage = "failed" \/ (page'.stage = "done" /\ page'.request = page)
    BY <1>3, <2>1 DEF Respond, PageShape
  <2> QED BY <2>1, <2>2 DEF SectionsSound
<1>4. CASE Delivered
    BY <1>4 DEF Delivered, NoPage, SectionsSound
<1>5. CASE \/ \E table \in Tables : Commit(table)
           \/ RatesNext /\ UNCHANGED <<expenses, page, seen>>
           \/ UNCHANGED dashboardVars
  <2>1. page' = page /\ seen \subseteq seen'
    BY <1>5 DEF Commit, dashboardVars
  <2>2. \A p : SectionsToCome(p, seen) => SectionsToCome(p, seen')
    BY <2>1, SectionsStillToCome
  <2> QED BY <2>1, <2>2 DEF SectionsSound
<1> QED BY <1>1, <1>2, <1>3, <1>4, <1>5 DEF DashboardNext

LEMMA SectionsInvariance == DashboardSpec => []SectionsSound
<1>1. DashboardInit => SectionsSound
    BY DEF DashboardInit, SectionsSound, NoPage
<1>2. PageSound /\ WindowsInOrder /\ InsightsSound /\ SectionsSound
          /\ [DashboardNext]_dashboardVars => SectionsSound'
    BY SectionsStepKeeps
<1> QED BY <1>1, <1>2, PageInvariance, WindowsInvariance, InsightsInvariance, PTL DEF DashboardSpec

\* An answered page has nothing left to read, so each section was read from a table.
LEMMA PartsAtTheEnd ==
    ASSUME WindowsInOrder, SectionsSound
    PROVE  PartsAddUp
<1>1. SUFFICES ASSUME Shown PROVE PartsAddUp
    BY DEF PartsAddUp
<1> PICK p : p = Asks
    OBVIOUS
<1> PICK period : period = Asks.period
    OBVIOUS
<1>2. /\ seen \subseteq Tables /\ PageTyped(Asks) /\ p.todo = <<>>
      /\ p.selected # NoCurrency /\ page.detail = Detail(p) /\ SectionsToCome(p, seen)
  <2>1. page.stage = "done" /\ page.detail # NoConversion
    BY <1>1 DEF Shown
  <2> QED BY <2>1 DEF WindowsInOrder, SectionsSound, Asks
<1>3. ~Unopened(p)
    BY <1>2 DEF Unopened, Untouched
<1>4. PICK table \in seen :
          RowsOf(p, "currencies") = GroupsBy("currencies", table, period, NoCurrency)
    BY <1>2, <1>3 DEF SectionsToCome
<1>5. ASSUME NEW what \in Keyed PROVE \E other \in seen : SectionOfTable(what, other)
  <2>1. ~Due(p, what)
    BY <1>2 DEF Due, JustOne
  <2>2. Done(p, what, seen)
    BY <1>2, <1>3, <1>5, <2>1 DEF SectionsToCome
  <2> QED BY <2>2 DEF Done, SectionOfTable
<1> PICK totals : totals = Counted(p, RowsOf(p, "currencies"))
    OBVIOUS
<1> PICK ofMerchants : ofMerchants = Counted(p, RowsOf(p, "merchants"))
    OBVIOUS
<1> PICK ofCategories : ofCategories = Counted(p, RowsOf(p, "categories"))
    OBVIOUS
<1> PICK ofDays : ofDays = Counted(p, RowsOf(p, "daily"))
    OBVIOUS
<1> PICK groups : groups = Combined(p, ofMerchants)
    OBVIOUS
<1> PICK whole : whole = TotalOf(p, totals)
    OBVIOUS
<1> PICK detail : detail = page.detail
    OBVIOUS
<1>6. /\ detail.total = whole /\ detail.count = CountOf(totals)
      /\ detail.buckets = BucketsOf(p, period, ofDays)
      /\ detail.categories = Ranked(Shared(p, ofCategories, whole))
      /\ detail.merchants = Top(Ranked({g \in groups : g.key # NoMerchant}))
      /\ detail.other = Rest(groups)
    BY <1>2 DEF Detail, Shared, BucketsOf
<1>7. PICK S : S = Countable(table, Asks.period)
    OBVIOUS
<1>8. detail.count = Cardinality(S) /\ detail.total = TrueTotal(table, S)
    BY <1>2, <1>4, <1>6, <1>7, SummaryIsTrue
<1> PICK categories : categories = detail.categories
    OBVIOUS
<1>9. TrueSum(ToSet(categories), "categories") /\ Leads(CategoryRows(Asks, categories))
  <2>1. PICK other \in seen : SectionOfTable("categories", other)
    BY <1>5 DEF Keyed
  <2> QED BY <1>2, <1>6, <2>1, CategoriesAreTrue
<1> PICK merchants : merchants = detail.merchants
    OBVIOUS
<1>10. /\ TrueSum(ToSet(merchants) \union Rest(groups), "merchants")
       /\ Len(merchants) =< TOP_MERCHANT_COUNT
       /\ \A g \in ToSet(merchants), h \in Rest(groups) :
              h.key # NoMerchant => h.total =< g.total
  <2>1. PICK other \in seen : SectionOfTable("merchants", other)
    BY <1>5 DEF Keyed
  <2> QED BY <1>2, <1>6, <2>1, MerchantsAreTrue
<1> PICK buckets : buckets = detail.buckets
    OBVIOUS
<1> PICK chart : chart = TimeChart(Asks, buckets)
    OBVIOUS
<1>11. /\ TrueSum(buckets, "daily")
       /\ \A column \in chart.columns : column.total =< chart.axis
       /\ Leads(chart.columns)
  <2>1. PICK other \in seen : SectionOfTable("daily", other)
    BY <1>5 DEF Keyed
  <2> QED BY <1>2, <1>6, <2>1, ChartIsTrue
<1> QED BY <1>6, <1>7, <1>8, <1>9, <1>10, <1>11 DEF PartsAddUp

\* Whatever the Expenses, the rates and the commits between two statements:
\* the summary of an answered page is exact for a table that was committed; the
\* categories, the merchants with "Other" and the columns of the chart each add
\* up to it but for the rounding of each currency group, nothing being counted
\* twice or left out; the top merchants are the top ones; a column fits its
\* axis; and the history a column or a category opens has what it counted.
THEOREM PartsHold == DashboardSpec => []PartsAddUp
<1>1. WindowsInOrder /\ SectionsSound => PartsAddUp
    BY PartsAtTheEnd
<1> QED BY <1>1, WindowsInvariance, SectionsInvariance, PTL
=============================================================================
