------------------------- MODULE UpdateLedger_proofs -------------------------
(* Proofs about UpdateLedger: for every set of updates, of concurrent copies *)
(* and every number of mishaps, and that it implements UpdateContract.       *)
EXTENDS UpdateLedger, TLAPS

\* The copies that stand between the commit of an update and its answer.
Owes(c, u) == Handles(c, u) /\ (At(c, "early") \/ At(c, "replying"))

\* The copies whose transaction holds the update's id, committed or not.
Owns(c, u) == Owes(c, u) \/ (Handles(c, u) /\ At(c, "begun"))

Past(c, u) ==
    /\ Handles(c, u)
    /\ \/ At(c, "early") \/ At(c, "replying") \/ At(c, "failing_late")
       \/ At(c, "answering") /\ u \notin Ignorable

\* The inductive invariant.  An id that left the ledger belongs to an update
\* nobody handles any more; an uncommitted insert is alone and nothing was
\* committed before it; the one copy that owes the answer has not given it.
Binary == \A u \in Update : applied[u] \in {0, 1}

LedgerApplied == \A u \in ledger : applied[u] = 1

ForgottenIsOver ==
    \A u \in Update \ ledger :
        applied[u] = 1 => telegram[u] # "pending" /\ \A c \in Copy : ~Handles(c, u)

PastApplied == \A u \in Update, c \in Copy : Past(c, u) => applied[u] = 1

BegunFirst == \A u \in Update, c \in Copy : Handles(c, u) /\ At(c, "begun") => applied[u] = 0

OneOwner == \A u \in Update, c, d \in Copy : Owns(c, u) /\ Owns(d, u) => c = d

RepliedOnce == \A u \in Update : replied[u] \in {0, 1} /\ replied[u] <= applied[u]

OwedNotReplied == \A u \in Update, c \in Copy : Owes(c, u) => replied[u] = 0

Inv ==
    /\ TypeOK
    /\ Binary
    /\ LedgerApplied
    /\ ForgottenIsOver
    /\ PastApplied
    /\ BegunFirst
    /\ OneOwner
    /\ RepliedOnce
    /\ OwedNotReplied
    /\ AckedMeansApplied

-----------------------------------------------------------------------------
LEMMA InvInit == Init => Inv
BY IgnorableAssumption, MaxMishapsAssumption
DEF Init, Inv, TypeOK, Free, Handles, At, Past, Owns, Owes, AckedMeansApplied, Binary, LedgerApplied,
    ForgottenIsOver, PastApplied, BegunFirst, OneOwner, RepliedOnce, OwedNotReplied

\* What a step that hands nobody a transaction needs not to disturb.
Shrinks ==
    \A d \in Copy, v \in Update :
        /\ Owes(d, v)' => Owes(d, v)
        /\ Owns(d, v)' => Owns(d, v)
        /\ Past(d, v)' => Past(d, v) \/ applied[v] = 1
        /\ (Handles(d, v) /\ At(d, "begun"))' => Handles(d, v) /\ At(d, "begun")

NobodyNew == \A d \in Copy, v \in Update : Handles(d, v)' => Handles(d, v)

LEMMA ShrinkKeeps ==
    ASSUME Inv, TypeOK', Shrinks, UNCHANGED <<applied, replied>>,
           \A v \in Update : telegram[v] # "pending" => telegram'[v] = telegram[v],
           \A v \in Update \ Ignorable :
              telegram'[v] = "acked" => telegram[v] = "acked" \/ applied[v] = 1,
           \/ NobodyNew /\ ledger' = ledger
           \/ /\ ledger' = ledger
              /\ \E c \in Copy, u \in Update :
                    /\ telegram[u] = "pending"
                    /\ \A d \in Copy, v \in Update : Handles(d, v)' => Handles(d, v) \/ v = u
           \/ /\ NobodyNew
              /\ \E u \in ledger : ledger' = ledger \ {u} /\ Outlived(u)
    PROVE  Inv'
BY DEF Inv, Shrinks, NobodyNew, Outlived, AckedMeansApplied, TypeOK, Binary, LedgerApplied, ForgottenIsOver, PastApplied, BegunFirst,
   OneOwner, RepliedOnce, OwedNotReplied

LEMMA DeliverKeeps ==
    ASSUME Inv, NEW u \in Update, NEW c \in Copy, Deliver(u, c)
    PROVE  Inv'
<1>1. TypeOK'
  BY DEF Inv, TypeOK, Deliver, Stage
<1>2. Shrinks /\ \A d \in Copy, v \in Update : Handles(d, v)' => Handles(d, v) \/ v = u
  BY DEF Inv, TypeOK, Deliver, Shrinks, Owes, Owns, Past, Handles, At, Free
<1> QED
  BY <1>1, <1>2, ShrinkKeeps DEF Deliver

LEMMA GiveUpKeeps ==
    ASSUME Inv, NEW u \in Update, GiveUp(u)
    PROVE  Inv'
<1>1. TypeOK'
  BY DEF Inv, TypeOK, GiveUp
<1>2. Shrinks /\ NobodyNew
  BY DEF GiveUp, Shrinks, NobodyNew, Owes, Owns, Past, Handles, At
<1>3. \A v \in Update : v # u => telegram'[v] = telegram[v]
  BY DEF Inv, TypeOK, GiveUp
<1>4. telegram'[u] = "dropped" /\ telegram[u] = "pending"
  BY DEF Inv, TypeOK, GiveUp
<1> QED
  BY <1>1, <1>2, <1>3, <1>4, ShrinkKeeps DEF GiveUp

LEMMA ForgetKeeps ==
    ASSUME Inv, NEW u \in Update, Forget(u)
    PROVE  Inv'
<1>1. TypeOK'
  BY DEF Inv, TypeOK, Forget
<1>2. Shrinks /\ NobodyNew
  BY DEF Forget, Shrinks, NobodyNew, Owes, Owns, Past, Handles, At
<1> QED
  BY <1>1, <1>2, ShrinkKeeps DEF Forget

LEMMA IgnoreKeeps ==
    ASSUME Inv, NEW c \in Copy, Ignore(c)
    PROVE  Inv'
<1>1. TypeOK'
  BY DEF Inv, TypeOK, Ignore, GoTo, At, Stage, Free
<1>2. Shrinks /\ NobodyNew
  BY DEF Inv, TypeOK, Ignore, GoTo, Shrinks, NobodyNew, Owes, Owns, Past, Handles, At, Free
<1> QED
  BY <1>1, <1>2, ShrinkKeeps DEF Ignore

LEMMA FailKeeps ==
    ASSUME Inv, NEW c \in Copy, Fail(c)
    PROVE  Inv'
<1>1. TypeOK'
  BY MaxMishapsAssumption DEF Inv, TypeOK, Fail, GoTo, Mishap, At, Stage, Free
<1>2. Shrinks /\ NobodyNew
  BY DEF Inv, TypeOK, Fail, GoTo, Shrinks, NobodyNew, Owes, Owns, Past, Handles, At, Free
<1> QED
  BY <1>1, <1>2, ShrinkKeeps DEF Fail

LEMMA ReplyFailsKeeps ==
    ASSUME Inv, NEW c \in Copy, ReplyFails(c)
    PROVE  Inv'
<1>1. TypeOK'
  BY MaxMishapsAssumption DEF Inv, TypeOK, ReplyFails, GoTo, Mishap, At, Stage, Free
<1>2. Shrinks /\ NobodyNew
  BY DEF Inv, TypeOK, ReplyFails, GoTo, Shrinks, NobodyNew, Owes, Owns, Past, Handles, At, Free
<1> QED
  BY <1>1, <1>2, ShrinkKeeps DEF ReplyFails

LEMMA CrashKeeps ==
    ASSUME Inv, NEW c \in Copy, Crash(c)
    PROVE  Inv'
<1>1. TypeOK'
  BY MaxMishapsAssumption DEF Inv, TypeOK, Crash, Mishap
<1>2. Shrinks /\ NobodyNew
  BY DEF Inv, TypeOK, Crash, Shrinks, NobodyNew, Owes, Owns, Past, Handles, At, Free
<1> QED
  BY <1>1, <1>2, ShrinkKeeps DEF Crash

LEMMA RespondKeeps ==
    ASSUME Inv, NEW c \in Copy, Respond(c)
    PROVE  Inv'
<1>0. PICK u \in Update : u = handler[c].update /\ Handles(c, u)
  BY DEF Inv, TypeOK, Respond, At, Handles, Free
<1>1. TypeOK'
  BY <1>0 DEF Inv, TypeOK, Respond
<1>2. Shrinks /\ NobodyNew
  BY DEF Inv, TypeOK, Respond, Shrinks, NobodyNew, Owes, Owns, Past, Handles, At, Free
<1>3. \A v \in Update : telegram[v] # "pending" => telegram'[v] = telegram[v]
  BY <1>0 DEF Inv, TypeOK, Respond
<1>4. \A v \in Update \ Ignorable :
         telegram'[v] = "acked" => telegram[v] = "acked" \/ applied[v] = 1
  BY <1>0 DEF Inv, TypeOK, Respond, Past, PastApplied, Succeeded, At
<1> QED
  BY <1>1, <1>2, <1>3, <1>4, ShrinkKeeps DEF Respond

\* An update's own transaction: only the copy c moves.
LEMMA BeginKeeps ==
    ASSUME Inv, NEW c \in Copy, Begin(c)
    PROVE  Inv'
<1>0. PICK u \in Update : u = handler[c].update /\ Handles(c, u) /\ u \notin Ignorable
  BY DEF Inv, TypeOK, Begin, At, Handles, Free
<1>1. TypeOK'
  BY DEF Inv, TypeOK, Begin, GoTo, At, Stage, Free, AfterDuplicate
<1>2. CASE u \in ledger
  <2>1. Shrinks /\ NobodyNew
    BY <1>2, <1>0 DEF Inv, TypeOK, LedgerApplied, Begin, GoTo, AfterDuplicate, Shrinks, NobodyNew, Owes, Owns,
                      Past, Handles, At, Free
  <2> QED
    BY <1>1, <2>1, ShrinkKeeps DEF Begin
<1>3. CASE u \notin ledger
  <2>1. handler' = [handler EXCEPT ![c].stage = "begun"]
    BY <1>0, <1>3 DEF Begin, GoTo
  <2>2. applied[u] = 0
    BY <1>0, <1>3 DEF Inv, Binary, ForgottenIsOver
  <2>3. \A d \in Copy : ~Owns(d, u)
    BY <1>0, <2>2 DEF Inv, PastApplied, Begin, Held, Owns, Owes, Past
  <2>4. \A d \in Copy, v \in Update :
           /\ Handles(d, v)' => Handles(d, v)
           /\ Owes(d, v)' => Owes(d, v)
           /\ Past(d, v)' => Past(d, v)
           /\ (Handles(d, v) /\ At(d, "begun"))' =>
                 (Handles(d, v) /\ At(d, "begun")) \/ (d = c /\ v = u)
           /\ Owns(d, v)' => Owns(d, v) \/ (d = c /\ v = u)
    BY <1>0, <2>1 DEF Inv, TypeOK, Begin, At, Handles, Owes, Owns, Past, Free
  <2>5. UNCHANGED <<telegram, ledger, applied, replied>>
    BY DEF Begin
  <2>11. Binary'
    BY <1>0, <1>3, <2>2, <2>3, <2>4, <2>5 DEF Inv, Binary
  <2>12. LedgerApplied'
    BY <1>0, <1>3, <2>2, <2>3, <2>4, <2>5 DEF Inv, Binary, LedgerApplied
  <2>13. ForgottenIsOver'
    BY <1>0, <1>3, <2>2, <2>3, <2>4, <2>5 DEF Inv, Binary, ForgottenIsOver
  <2>14. PastApplied'
    BY <1>0, <1>3, <2>2, <2>3, <2>4, <2>5 DEF Inv, Binary, PastApplied
  <2>15. BegunFirst'
    BY <1>0, <1>3, <2>2, <2>3, <2>4, <2>5 DEF Inv, Binary, BegunFirst
  <2>16. OneOwner'
    BY <1>0, <1>3, <2>2, <2>3, <2>4, <2>5 DEF Inv, Binary, OneOwner, Owns
  <2>17. RepliedOnce'
    BY <1>0, <1>3, <2>2, <2>3, <2>4, <2>5 DEF Inv, Binary, RepliedOnce
  <2>18. OwedNotReplied'
    BY <1>0, <1>3, <2>2, <2>3, <2>4, <2>5 DEF Inv, Binary, OwedNotReplied, Owns
  <2>19. AckedMeansApplied'
    BY <1>0, <1>3, <2>2, <2>3, <2>4, <2>5 DEF Inv, Binary, AckedMeansApplied
  <2> QED
    BY <1>1, <2>11, <2>12, <2>13, <2>14, <2>15, <2>16, <2>17, <2>18, <2>19 DEF Inv
<1> QED
  BY <1>2, <1>3

LEMMA CommitEarlyKeeps ==
    ASSUME Inv, NEW c \in Copy, CommitEarly(c)
    PROVE  Inv'
<1>0. PICK u \in Update : u = handler[c].update /\ Handles(c, u) /\ At(c, "begun")
  BY DEF Inv, TypeOK, CommitEarly, At, Handles, Free
<1>1. applied[u] = 0 /\ replied[u] = 0
  BY <1>0 DEF Inv, BegunFirst, RepliedOnce, TypeOK
<1>2. \A v \in Update : applied'[v] = IF v = u THEN 1 ELSE applied[v]
  BY <1>0, <1>1 DEF Inv, TypeOK, CommitEarly, Record
<1>3. TypeOK'
  BY <1>0 DEF Inv, TypeOK, CommitEarly, Record, GoTo, At, Stage, Free
<1>4. \A d \in Copy, v \in Update :
         /\ Handles(d, v)' => Handles(d, v)
         /\ Owes(d, v)' => Owes(d, v) \/ (d = c /\ v = u)
         /\ Past(d, v)' => Past(d, v) \/ (d = c /\ v = u)
         /\ (Handles(d, v) /\ At(d, "begun"))' => Handles(d, v) /\ At(d, "begun") /\ d # c
         /\ Owns(d, v)' => Owns(d, v)
  BY <1>0 DEF Inv, TypeOK, CommitEarly, GoTo, At, Handles, Owes, Owns, Past, Free
<1>5. \A d \in Copy : Owns(d, u) => d = c
  BY <1>0 DEF Inv, OneOwner, Owns
<1>6. ledger' = ledger \cup {u} /\ UNCHANGED <<telegram, replied>>
  BY <1>0 DEF CommitEarly, Record
<1>11. Binary'
  BY <1>0, <1>1, <1>2, <1>4, <1>5, <1>6 DEF Inv, Binary
<1>12. LedgerApplied'
  BY <1>0, <1>1, <1>2, <1>4, <1>5, <1>6 DEF Inv, TypeOK, Binary, LedgerApplied
<1>13. ForgottenIsOver'
  BY <1>0, <1>1, <1>2, <1>4, <1>5, <1>6 DEF Inv, Binary, ForgottenIsOver
<1>14. PastApplied'
  BY <1>0, <1>1, <1>2, <1>4, <1>5, <1>6 DEF Inv, Binary, PastApplied
<1>15. BegunFirst'
  BY <1>0, <1>1, <1>2, <1>4, <1>5, <1>6 DEF Inv, Owns, Binary, BegunFirst
<1>16. OneOwner'
  BY <1>0, <1>1, <1>2, <1>4, <1>5, <1>6 DEF Inv, Binary, OneOwner, Owns
<1>17. RepliedOnce'
  BY <1>0, <1>1, <1>2, <1>4, <1>5, <1>6 DEF Inv, Binary, RepliedOnce
<1>18. OwedNotReplied'
  BY <1>0, <1>1, <1>2, <1>4, <1>5, <1>6 DEF Inv, Binary, OwedNotReplied, Owns
<1>19. AckedMeansApplied'
  BY <1>0, <1>1, <1>2, <1>4, <1>5, <1>6 DEF Inv, Binary, AckedMeansApplied
<1> QED
  BY <1>3, <1>11, <1>12, <1>13, <1>14, <1>15, <1>16, <1>17, <1>18, <1>19 DEF Inv

LEMMA CommitKeeps ==
    ASSUME Inv, NEW c \in Copy, Commit(c)
    PROVE  Inv'
<1>0. PICK u \in Update : u = handler[c].update /\ Handles(c, u)
  BY DEF Inv, TypeOK, Commit, At, Handles, Free
<1>1. TypeOK'
  BY <1>0 DEF Inv, TypeOK, Commit, Record, GoTo, At, Stage, Free
<1>2. CASE At(c, "early")
  <2>1. Shrinks /\ NobodyNew
    BY <1>2 DEF Inv, TypeOK, Commit, GoTo, Shrinks, NobodyNew, Owes, Owns, Past, Handles, At, Free
  <2>2. UNCHANGED <<telegram, ledger, applied, replied>>
    BY <1>2 DEF Commit, At
  <2> QED
    BY <1>1, <2>1, <2>2, ShrinkKeeps
<1>3. CASE At(c, "begun")
  <2>0. Record(u)
    BY <1>0, <1>3 DEF Commit, At
  <2>1. applied[u] = 0 /\ replied[u] = 0
    BY <1>0, <1>3 DEF Inv, BegunFirst, RepliedOnce, TypeOK
  <2>2. \A v \in Update : applied'[v] = IF v = u THEN 1 ELSE applied[v]
    BY <1>0, <2>0, <2>1 DEF Inv, TypeOK, Record
  <2>3. \A d \in Copy, v \in Update :
           /\ Handles(d, v)' => Handles(d, v)
           /\ Owes(d, v)' => Owes(d, v) \/ (d = c /\ v = u)
           /\ Past(d, v)' => Past(d, v) \/ (d = c /\ v = u)
           /\ (Handles(d, v) /\ At(d, "begun"))' => Handles(d, v) /\ At(d, "begun") /\ d # c
           /\ Owns(d, v)' => Owns(d, v)
    BY <1>0, <1>3 DEF Inv, TypeOK, Commit, GoTo, At, Handles, Owes, Owns, Past, Free
  <2>4. \A d \in Copy : Owns(d, u) => d = c
    BY <1>0, <1>3 DEF Inv, OneOwner, Owns
  <2>5. ledger' = ledger \cup {u} /\ UNCHANGED <<telegram, replied>>
    BY <2>0 DEF Commit, Record
  <2>11. Binary'
    BY <1>0, <1>3, <2>1, <2>2, <2>3, <2>4, <2>5 DEF Inv, Binary
  <2>12. LedgerApplied'
    BY <1>0, <1>3, <2>1, <2>2, <2>3, <2>4, <2>5 DEF Inv, TypeOK, Binary, LedgerApplied
  <2>13. ForgottenIsOver'
    BY <1>0, <1>3, <2>1, <2>2, <2>3, <2>4, <2>5 DEF Inv, Binary, ForgottenIsOver
  <2>14. PastApplied'
    BY <1>0, <1>3, <2>1, <2>2, <2>3, <2>4, <2>5 DEF Inv, Binary, PastApplied
  <2>15. BegunFirst'
    BY <1>0, <1>3, <2>1, <2>2, <2>3, <2>4, <2>5 DEF Inv, Owns, Binary, BegunFirst
  <2>16. OneOwner'
    BY <1>0, <1>3, <2>1, <2>2, <2>3, <2>4, <2>5 DEF Inv, Binary, OneOwner, Owns
  <2>17. RepliedOnce'
    BY <1>0, <1>3, <2>1, <2>2, <2>3, <2>4, <2>5 DEF Inv, Binary, RepliedOnce
  <2>18. OwedNotReplied'
    BY <1>0, <1>3, <2>1, <2>2, <2>3, <2>4, <2>5 DEF Inv, Binary, OwedNotReplied, Owns
  <2>19. AckedMeansApplied'
    BY <1>0, <1>3, <2>1, <2>2, <2>3, <2>4, <2>5 DEF Inv, Binary, AckedMeansApplied
  <2> QED
    BY <1>1, <2>11, <2>12, <2>13, <2>14, <2>15, <2>16, <2>17, <2>18, <2>19 DEF Inv
<1> QED
  BY <1>2, <1>3 DEF Commit

LEMMA ReplyKeeps ==
    ASSUME Inv, NEW c \in Copy, Reply(c)
    PROVE  Inv'
<1>0. PICK u \in Update : u = handler[c].update /\ Handles(c, u) /\ Owes(c, u)
  BY DEF Inv, TypeOK, Reply, At, Handles, Owes, Free
<1>1. applied[u] = 1 /\ replied[u] = 0
  BY <1>0 DEF Inv, PastApplied, OwedNotReplied, Past, Owes
<1>2. \A v \in Update : replied'[v] = IF v = u THEN 1 ELSE replied[v]
  BY <1>0, <1>1 DEF Inv, TypeOK, Reply
<1>3. TypeOK'
  BY <1>0 DEF Inv, TypeOK, Reply, GoTo, At, Stage, Free
<1>4. \A d \in Copy, v \in Update :
         /\ Handles(d, v)' => Handles(d, v)
         /\ Owes(d, v)' => Owes(d, v) /\ d # c
         /\ Past(d, v)' => Past(d, v)
         /\ (Handles(d, v) /\ At(d, "begun"))' => Handles(d, v) /\ At(d, "begun")
         /\ Owns(d, v)' => Owns(d, v) /\ d # c
  BY <1>0 DEF Inv, TypeOK, Reply, GoTo, At, Handles, Owes, Owns, Past, Free
<1>5. \A d \in Copy : Owns(d, u) => d = c
  BY <1>0 DEF Inv, OneOwner, Owns
<1>6. UNCHANGED <<telegram, ledger, applied>>
  BY DEF Reply
<1>11. Binary'
  BY <1>0, <1>1, <1>2, <1>4, <1>5, <1>6 DEF Inv, Binary
<1>12. LedgerApplied'
  BY <1>0, <1>1, <1>2, <1>4, <1>5, <1>6 DEF Inv, Binary, LedgerApplied
<1>13. ForgottenIsOver'
  BY <1>0, <1>1, <1>2, <1>4, <1>5, <1>6 DEF Inv, Binary, ForgottenIsOver
<1>14. PastApplied'
  BY <1>0, <1>1, <1>2, <1>4, <1>5, <1>6 DEF Inv, Binary, PastApplied
<1>15. BegunFirst'
  BY <1>0, <1>1, <1>2, <1>4, <1>5, <1>6 DEF Inv, Binary, BegunFirst
<1>16. OneOwner'
  BY <1>0, <1>1, <1>2, <1>4, <1>5, <1>6 DEF Inv, Binary, OneOwner, Owns
<1>17. RepliedOnce'
  BY <1>0, <1>1, <1>2, <1>4, <1>5, <1>6 DEF Inv, Binary, RepliedOnce
<1>18. OwedNotReplied'
  BY <1>0, <1>1, <1>2, <1>4, <1>5, <1>6 DEF Inv, Binary, OwedNotReplied, Owns
<1>19. AckedMeansApplied'
  BY <1>0, <1>1, <1>2, <1>4, <1>5, <1>6 DEF Inv, Binary, AckedMeansApplied
<1> QED
  BY <1>3, <1>11, <1>12, <1>13, <1>14, <1>15, <1>16, <1>17, <1>18, <1>19 DEF Inv

-----------------------------------------------------------------------------
LEMMA InvStep == Inv /\ [Next]_vars => Inv'
<1> SUFFICES ASSUME Inv, [Next]_vars PROVE Inv'
  OBVIOUS
<1>1. ASSUME NEW u \in Update, NEW c \in Copy, Deliver(u, c) PROVE Inv'
  BY <1>1, DeliverKeeps
<1>2. ASSUME NEW u \in Update, GiveUp(u) \/ Forget(u) PROVE Inv'
  BY <1>2, GiveUpKeeps, ForgetKeeps
<1>3. ASSUME NEW c \in Copy, Step(c) PROVE Inv'
  BY <1>3, IgnoreKeeps, BeginKeeps, CommitEarlyKeeps, CommitKeeps, ReplyKeeps, RespondKeeps DEF Step
<1>4. ASSUME NEW c \in Copy, Fail(c) \/ ReplyFails(c) \/ Crash(c) PROVE Inv'
  BY <1>4, FailKeeps, ReplyFailsKeeps, CrashKeeps
<1>5. CASE UNCHANGED vars
  BY <1>5 DEF vars, Inv, TypeOK, AckedMeansApplied, Handles, At, Past, Owns, Owes, Binary, LedgerApplied,
                ForgottenIsOver, PastApplied, BegunFirst, OneOwner, RepliedOnce, OwedNotReplied
<1> QED
  BY <1>1, <1>2, <1>3, <1>4, <1>5 DEF Next

LEMMA Invariance == Spec => []Inv
BY InvInit, InvStep, PTL DEF Spec

\* Every reachable state is well typed.
THEOREM TypeCorrect == Spec => []TypeOK
<1>1. Inv => TypeOK
  BY DEF Inv
<1> QED
  BY <1>1, Invariance, PTL

\* However often Telegram delivers an update, to however many handlers, and
\* whatever fails, its work is committed at most once.
THEOREM UpdatesAppliedOnce == Spec => []AppliedOnce
<1>1. ASSUME Inv, NEW u \in Update
      PROVE  applied[u] <= 1
  <2>1. applied[u] = 0 \/ applied[u] = 1
    BY <1>1 DEF Inv, Binary
  <2> QED
    BY <2>1
<1>2. Inv => AppliedOnce
  BY <1>1 DEF AppliedOnce
<1> QED
  BY <1>2, Invariance, PTL

\* Telegram is told to forget an update only when its work is committed.
THEOREM AcknowledgedUpdatesApplied == Spec => []AckedMeansApplied
<1>1. Inv => AckedMeansApplied
  BY DEF Inv
<1> QED
  BY <1>1, Invariance, PTL

\* The user is answered at most once and only for committed work.
THEOREM OneReplyAfterCommit == Spec => []RepliesFollowCommit
<1>1. ASSUME Inv, NEW u \in Update
      PROVE  replied[u] <= 1 /\ replied[u] <= applied[u]
  <2>1. replied[u] = 0 \/ replied[u] = 1
    BY <1>1 DEF Inv, RepliedOnce
  <2> QED
    BY <1>1, <2>1 DEF Inv, RepliedOnce
<1>2. Inv => RepliesFollowCommit
  BY <1>1 DEF RepliesFollowCommit
<1> QED
  BY <1>2, Invariance, PTL

-----------------------------------------------------------------------------
(* The refinement: a first commit is Apply, a reply is Answer, an answer of  *)
(* 200 is Acknowledge, and every other step changes nothing of the contract. *)

Acked == {u \in Update : telegram[u] = "acked"}

LEMMA ContractInit == Init => Contract!Init
BY DEF Init, Contract!Init

LEMMA RecordIsApply ==
    ASSUME Inv, NEW u \in Update, applied[u] = 0, Record(u), UNCHANGED <<telegram, replied>>
    PROVE  Contract!Next
<1>1. Contract!Apply(u)
  BY DEF Inv, TypeOK, Record, Contract!Apply
<1> QED
  BY <1>1 DEF Contract!Next

LEMMA ReplyIsAnswer ==
    ASSUME Inv, NEW c \in Copy, Reply(c)
    PROVE  Contract!Next
<1>0. PICK u \in Update : u = handler[c].update /\ Handles(c, u) /\ Owes(c, u)
  BY DEF Inv, TypeOK, Reply, At, Handles, Owes, Free
<1>1. applied[u] = 1 /\ replied[u] = 0
  BY <1>0 DEF Inv, PastApplied, OwedNotReplied, Past, Owes
<1>2. replied' = [replied EXCEPT ![u] = 1]
  BY <1>0, <1>1 DEF Inv, TypeOK, Reply
<1>3. Contract!Answer(u)
  BY <1>1, <1>2 DEF Reply, Contract!Answer
<1> QED
  BY <1>3 DEF Contract!Next

LEMMA RespondIsAcknowledge ==
    ASSUME Inv, NEW c \in Copy, Respond(c)
    PROVE  [Contract!Next]_(Contract!vars)
<1>0. PICK u \in Update : u = handler[c].update /\ Handles(c, u)
  BY DEF Inv, TypeOK, Respond, At, Handles, Free
<1>1. CASE At(c, "answering") /\ telegram[u] = "pending"
  <2>1. u \in Ignorable \/ applied[u] = 1
    BY <1>0, <1>1 DEF Inv, PastApplied, Past
  <2>2. telegram' = [telegram EXCEPT ![u] = "acked"]
    BY <1>0, <1>1 DEF Respond, Succeeded, At
  <2>3. Acked' = Acked \cup {u}
    BY <2>2 DEF Inv, TypeOK, Acked
  <2>4. Contract!Acknowledge(u)
    BY <2>1, <2>3 DEF Respond, Acked, Contract!Acknowledge
  <2> QED
    BY <2>4 DEF Contract!Next
<1>2. CASE ~(At(c, "answering") /\ telegram[u] = "pending")
  <2>1. telegram' = telegram
    BY <1>0, <1>2 DEF Respond, Succeeded, At, Handles
  <2> QED
    BY <2>1 DEF Respond, Contract!vars
<1> QED
  BY <1>1, <1>2

LEMMA ContractStep == Inv /\ [Next]_vars => [Contract!Next]_(Contract!vars)
<1> SUFFICES ASSUME Inv, [Next]_vars PROVE [Contract!Next]_(Contract!vars)
  OBVIOUS
<1>1. ASSUME NEW u \in Update, NEW c \in Copy, Deliver(u, c)
      PROVE  UNCHANGED Contract!vars
  BY <1>1 DEF Deliver, Contract!vars
<1>2. ASSUME NEW u \in Update, Forget(u)
      PROVE  UNCHANGED Contract!vars
  BY <1>2 DEF Forget, Contract!vars
<1>3. ASSUME NEW u \in Update, GiveUp(u)
      PROVE  UNCHANGED Contract!vars
  <2>1. Acked' = Acked
    BY <1>3 DEF Inv, TypeOK, GiveUp, Acked
  <2> QED
    BY <1>3, <2>1 DEF GiveUp, Acked, Contract!vars
<1>4. ASSUME NEW c \in Copy, Ignore(c) \/ Begin(c) \/ Fail(c) \/ ReplyFails(c) \/ Crash(c)
      PROVE  UNCHANGED Contract!vars
  BY <1>4 DEF Ignore, Begin, Fail, ReplyFails, Crash, Contract!vars
<1>5. ASSUME NEW c \in Copy, CommitEarly(c) \/ (Commit(c) /\ At(c, "begun"))
      PROVE  Contract!Next
  <2>1. PICK u \in Update : u = handler[c].update /\ Handles(c, u) /\ At(c, "begun")
    BY <1>5 DEF Inv, TypeOK, CommitEarly, At, Handles, Free
  <2>2. applied[u] = 0
    BY <2>1 DEF Inv, BegunFirst
  <2>3. Record(u) /\ UNCHANGED <<telegram, replied>>
    BY <1>5, <2>1 DEF CommitEarly, Commit, At
  <2> QED
    BY <2>2, <2>3, RecordIsApply
<1>6. ASSUME NEW c \in Copy, Commit(c), ~At(c, "begun")
      PROVE  UNCHANGED Contract!vars
  BY <1>6 DEF Commit, Contract!vars
<1>7. CASE UNCHANGED vars
  BY <1>7 DEF vars, Contract!vars
<1> QED
  BY <1>1, <1>2, <1>3, <1>4, <1>5, <1>6, <1>7, ReplyIsAnswer, RespondIsAcknowledge DEF Next, Step

\* Redelivery, deduplication, early commits, failures and retention together
\* implement the contract of an update.
THEOREM LedgerImplementsContract == Spec => ImplementsContract
BY ContractInit, ContractStep, Invariance, PTL DEF Spec, ImplementsContract, Contract!Spec
=============================================================================
