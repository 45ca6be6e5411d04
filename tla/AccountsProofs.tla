--------------------------- MODULE AccountsProofs ---------------------------
(***************************************************************************)
(* Proofs about Accounts, for any number of requests of every kind, any    *)
(* limits and any size of the pool.                                        *)
(***************************************************************************)
EXTENDS Accounts, TLAPS

USE DEF Session, Link, Row, Writer, Signed, Request, Ended, Running

-----------------------------------------------------------------------------
(* Type correctness, and with it the statements each kind of request runs  *)
(* through, and that whoever began has said what it needs.                  *)

Places ==
    /\ \A r \in Register : pc[r] \in Ended \cup
          {"idle", "user", "policy", "session", "log", "sent"}
    /\ \A r \in Login : pc[r] \in Ended \cup
          {"idle", "verify", "wrong", "limited", "rehash", "session", "log", "sent"}
    /\ \A r \in Forgot : pc[r] \in Ended \cup
          {"idle", "burn", "burning", "token", "log", "log_refusal", "sent"}
    /\ \A r \in Reset : pc[r] \in Ended \cup
          {"idle", "mark", "rewrite", "end", "ending", "log", "sent"}
    /\ \A r \in Change : pc[r] \in Ended \cup
          {"idle", "touch", "check", "reject", "raise", "rewrite", "end", "ending",
           "burn", "burning", "log", "sent"}
    /\ \A r \in Logout \cup Revoke : pc[r] \in Ended \cup
          {"idle", "touch", "end", "ending", "log", "sent"}
    /\ \A r \in Visit : pc[r] \in Ended \cup {"idle", "touch", "sent"}

Typing ==
    /\ \A r \in Session \cup Change : pc[r] # "idle" => word[r] \in Password
    /\ \A r \in Reset \cup Change : pc[r] # "idle" => fresh[r] \in Password
    /\ \A r \in Reset : pc[r] # "idle" => link[r] \in Link
    /\ \A r \in Signed : pc[r] # "idle" => via[r] \in Session

Basic == TypeOK /\ Places /\ Typing

\* Nobody has come yet.
LEMMA InitBasic == Init => Basic
BY DEF Init, Basic, TypeOK, Places, Typing

\* Rolling back takes rows away, lets others go and ends the request.
LEMMA RollbackBasic ==
  ASSUME Basic, NEW r \in Request, pc[r] # "idle", Rollback(r),
         NEW label \in Ended, Goto(r, label)
  PROVE  Basic'
<1> USE RequestAssumption DEF Basic, Goto, inputs, Rollback
<1>1. TypeOK'
  BY DEF TypeOK, Undone, Release
<1>2. Places' /\ Typing'
  BY DEF TypeOK, Places, Typing
<1> QED
  BY <1>1, <1>2

\* Rows that are committed are rows still.
LEMMA SettledIsTyped ==
  ASSUME NEW T, NEW S, T \subseteq [by: S, tx: S \cup {Committed}], NEW r
  PROVE  Settled(T, r) \subseteq [by: S, tx: S \cup {Committed}]
<1>1. ASSUME NEW v \in T
      PROVE  [v EXCEPT !.tx = Committed] \in [by: S, tx: S \cup {Committed}]
  <2>1. v \in [by: S, tx: S \cup {Committed}]
    OBVIOUS
  <2> QED
    BY ONLY <2>1
<1> QED
  BY <1>1 DEF Settled

\* A commit gives a request's rows to everybody.
LEMMA CommitBasic == ASSUME Basic, NEW r \in Request, Commit(r) PROVE Basic'
<1> USE RequestAssumption DEF Basic, Commit, Goto, inputs
<1>1. /\ (user \subseteq [by: Register, tx: Register \cup {Committed}])'
      /\ (policy \subseteq [by: Register, tx: Register \cup {Committed}])'
  <2>1. /\ user \subseteq [by: Register, tx: Register \cup {Committed}]
        /\ policy \subseteq [by: Register, tx: Register \cup {Committed}]
    BY DEF TypeOK
  <2>2. /\ Settled(user, r) \subseteq [by: Register, tx: Register \cup {Committed}]
        /\ Settled(policy, r) \subseteq [by: Register, tx: Register \cup {Committed}]
    BY ONLY <2>1, SettledIsTyped
  <2> QED
    BY <2>2
<1>2. (audit \subseteq [outcome: {"done", "refused"}, by: Request,
                        tx: Request \cup {Committed}])'
  <2>1. ASSUME NEW e \in audit
        PROVE  [e EXCEPT !.tx = Committed] \in
                  [outcome: {"done", "refused"}, by: Request, tx: Request \cup {Committed}]
    <3>1. e \in [outcome: {"done", "refused"}, by: Request, tx: Request \cup {Committed}]
      BY <2>1 DEF TypeOK
    <3> QED
      BY ONLY <3>1
  <2> QED
    BY <2>1 DEF TypeOK, Settled
<1>3. hash' \in Hash \cup {None} /\ draft' \in [Register \cup Writer -> Hash \cup {None}]
  BY DEF TypeOK
<1>4. row' \in [Row -> {"none", "open", "good", "over"}]
  BY DEF TypeOK
<1>5. /\ holder' \in [Row -> Reset \cup Signed \cup Forgot \cup {None}]
      /\ ending' \subseteq {x \in Row : holder'[x] # None}
  BY DEF TypeOK, Release
<1>6. pc' \in [Request -> {"idle"} \cup Running \cup Ended]
  BY DEF TypeOK
<1>7. TypeOK'
  BY <1>1, <1>2, <1>3, <1>4, <1>5, <1>6 DEF TypeOK
<1>8. Places' /\ Typing'
  BY DEF TypeOK, Places, Typing
<1> QED
  BY <1>7, <1>8

\* Every step keeps types and places.
LEMMA NextBasic == Basic /\ [Next]_vars => Basic'
<1> SUFFICES ASSUME Basic, [Next]_vars PROVE Basic'
  OBVIOUS
<1> USE RequestAssumption DEF Basic, Goto, account, rights, journal, inputs
<1>1. ASSUME NEW r \in Register, CheckAddress(r) PROVE Basic'
  BY <1>1 DEF CheckAddress, Begin, Good, TypeOK, Places, Typing
<1>2. ASSUME NEW r \in Register, InsertUser(r) PROVE Basic'
  <2>1. CASE Rollback(r) /\ Goto(r, "failed")
    BY <1>2, <2>1, RollbackBasic DEF InsertUser
  <2>2. CASE user' = user \cup {[by |-> r, tx |-> r]} /\ pc' = [pc EXCEPT ![r] = "policy"]
    <3>1. [word |-> word[r], cost |-> cost] \in Hash
      BY <1>2 DEF InsertUser, Typing, TypeOK, Hash
    <3>2. TypeOK'
      BY <1>2, <2>2, <3>1 DEF InsertUser, TypeOK, Rollback
    <3>3. Places' /\ Typing'
      BY <1>2, <2>2 DEF InsertUser, TypeOK, Places, Typing, Rollback
    <3> QED
      BY <3>2, <3>3
  <2> QED
    BY <1>2, <2>1, <2>2 DEF InsertUser
<1>3. ASSUME NEW r \in Register, InsertPolicy(r) PROVE Basic'
  BY <1>3 DEF InsertPolicy, TypeOK, Places, Typing
<1>4. ASSUME NEW r \in Login, CountFailures(r) PROVE Basic'
  BY <1>4 DEF CountFailures, Begin, Good, TypeOK, Places, Typing
<1>5. ASSUME NEW r \in Login, Verify(r) \/ PoolTimeout(r) PROVE Basic'
  <2>1. PICK label \in {"wrong", "rehash", "session", "timed_out"} :
          pc' = [pc EXCEPT ![r] = label]
    BY <1>5 DEF Verify, PoolTimeout
  <2>2. /\ pc[r] # "idle"
        /\ UNCHANGED <<account, rights, journal, cost, inputs, todo>>
    BY <1>5 DEF Verify, PoolTimeout
  <2>3. TypeOK'
    BY <2>1, <2>2 DEF TypeOK
  <2>4. Places' /\ Typing'
    BY <2>1, <2>2 DEF TypeOK, Places, Typing
  <2> QED
    BY <2>3, <2>4
<1>6. ASSUME NEW r \in Login, Journal(r) PROVE Basic'
  <2>1. TypeOK'
    BY <1>6 DEF Journal, TypeOK
  <2>2. pc[r] # "idle" /\ \E label \in Ended : pc' = [pc EXCEPT ![r] = label]
    BY <1>6 DEF Journal
  <2>3. Places' /\ Typing'
    BY <1>6, <2>2 DEF Journal, TypeOK, Places, Typing
  <2> QED
    BY <2>1, <2>3
<1>7. ASSUME NEW r \in Login, Rehash(r) PROVE Basic'
  <2>1. [word |-> word[r], cost |-> cost] \in Hash
    BY <1>7 DEF Rehash, Typing, TypeOK, Hash
  <2>2. TypeOK'
    BY <1>7, <2>1 DEF Rehash, TypeOK
  <2>3. Places' /\ Typing'
    BY <1>7 DEF Rehash, TypeOK, Places, Typing
  <2> QED
    BY <2>2, <2>3
<1>8. ASSUME NEW r \in Session, InsertSession(r) PROVE Basic'
  BY <1>8 DEF InsertSession, TypeOK, Places, Typing
<1>9. ASSUME NEW r \in Request, StartEnding(r) PROVE Basic'
  BY <1>9 DEF StartEnding, Good, TypeOK, Places, Typing
<1>10. ASSUME NEW r \in Forgot \cup Change, StartBurning(r) PROVE Basic'
  BY <1>10 DEF StartBurning, Good, TypeOK, Places, Typing
<1>11. ASSUME NEW r \in Request, NEW x \in Row, Take(r, x) PROVE Basic'
  <2>1. r \in Reset \cup Signed \cup Forgot
    BY <1>11 DEF Take, Places
  <2>2. TypeOK'
    BY <1>11, <2>1 DEF Take, TypeOK
  <2>3. Places' /\ Typing'
    BY <1>11 DEF Take, Places, Typing
  <2> QED
    BY <2>2, <2>3
<1>12. ASSUME NEW r \in Request, Taken(r) PROVE Basic'
  <2>1. CASE Rollback(r) /\ Goto(r, "refused")
    BY <1>12, <2>1, RollbackBasic DEF Taken
  <2>2. CASE ~(Rollback(r) /\ Goto(r, "refused"))
    <3>1. TypeOK'
      BY <1>12, <2>2 DEF Taken, TypeOK
    <3>2. Places' /\ Typing'
      BY <1>12, <2>2 DEF Taken, TypeOK, Places, Typing
    <3> QED
      BY <3>1, <3>2
  <2> QED
    BY <2>1, <2>2
<1>13. ASSUME NEW r \in Forgot, LookUp(r) PROVE Basic'
  BY <1>13 DEF LookUp, Begin, Good, TypeOK, Places, Typing
<1>14. ASSUME NEW r \in Forgot, InsertLink(r) PROVE Basic'
  BY <1>14 DEF InsertLink, TypeOK, Places, Typing
<1>15. ASSUME NEW r \in Reset, ReadLink(r) PROVE Basic'
  BY <1>15 DEF ReadLink, Begin, Good, TypeOK, Places, Typing
<1>16. ASSUME NEW r \in Reset, MarkUsed(r) PROVE Basic'
  <2>1. TypeOK'
    <3>1. link[r] \in Row
      BY <1>16 DEF MarkUsed, Typing
    <3>2. /\ holder' \in [Row -> Reset \cup Signed \cup Forgot \cup {None}]
          /\ ending' \subseteq {x \in Row : holder'[x] # None}
      BY <1>16, <3>1 DEF MarkUsed, TypeOK
    <3> QED
      BY <1>16, <3>2 DEF MarkUsed, TypeOK
  <2>2. /\ pc[r] # "idle" /\ UNCHANGED inputs
        /\ \E label \in {"rewrite", "refused"} : pc' = [pc EXCEPT ![r] = label]
    BY <1>16 DEF MarkUsed
  <2>3. Places' /\ Typing'
    BY <2>2 DEF TypeOK, Places, Typing
  <2> QED
    BY <2>1, <2>3
<1>17. ASSUME NEW r \in Reset \cup Change, Rewrite(r) PROVE Basic'
  <2>1. [word |-> fresh[r], cost |-> cost] \in Hash
    BY <1>17 DEF Rewrite, Typing, TypeOK, Hash
  <2>2. TypeOK'
    BY <1>17, <2>1 DEF Rewrite, TypeOK
  <2>3. Places' /\ Typing'
    BY <1>17 DEF Rewrite, TypeOK, Places, Typing
  <2> QED
    BY <2>2, <2>3
<1>18. ASSUME NEW r \in Signed, Authenticate(r) PROVE Basic'
  <2>1. TypeOK'
    BY <1>18 DEF Authenticate, Begin, Aims, Typed, Good, TypeOK
  <2>2. Places' /\ Typing'
    BY <1>18 DEF Authenticate, Begin, Typed, TypeOK, Places, Typing
  <2> QED
    BY <2>1, <2>2
<1>19. ASSUME NEW r \in Signed, Touch(r) PROVE Basic'
  <2>1. TypeOK'
    BY <1>19 DEF Touch, TypeOK
  <2>2. Places' /\ Typing'
    BY <1>19 DEF Touch, TypeOK, Places, Typing
  <2> QED
    BY <2>1, <2>2
<1>20. ASSUME NEW r \in Signed, CheckCurrent(r) \/ LogRejection(r) PROVE Basic'
  <2>1. TypeOK'
    BY <1>20 DEF CheckCurrent, LogRejection, TypeOK
  <2>2. r \in Change
    BY <1>20 DEF CheckCurrent, LogRejection, Places
  <2>3. /\ pc[r] # "idle" /\ UNCHANGED inputs
        /\ \E label \in {"rewrite", "reject", "raise"} : pc' = [pc EXCEPT ![r] = label]
    BY <1>20 DEF CheckCurrent, LogRejection
  <2>4. Places' /\ Typing'
    BY <2>2, <2>3 DEF TypeOK, Places, Typing
  <2> QED
    BY <2>1, <2>4
<1>21. ASSUME NEW r \in Request, Raise(r) \/ Fail(r) \/ DeadlockAbort(r) PROVE Basic'
  BY <1>21, RollbackBasic DEF Raise, Fail, DeadlockAbort
<1>22. ASSUME NEW r \in Request, Log(r) PROVE Basic'
  BY <1>22 DEF Log, TypeOK, Places, Typing
<1>23. CASE RaiseCost
  BY <1>23 DEF RaiseCost, TypeOK, Places, Typing
<1>24. CASE UNCHANGED vars
  BY <1>24 DEF vars, TypeOK, Places, Typing
<1> QED
  BY <1>1, <1>2, <1>3, <1>4, <1>5, <1>6, <1>7, <1>8, <1>9, <1>10, <1>11,
     <1>12, <1>13, <1>14, <1>15, <1>16, <1>17, <1>18, <1>19, <1>20, <1>21,
     <1>22, <1>23, <1>24, CommitBasic
  DEF Next, Step, RegisterStep, LoginStep, ForgotStep, ResetStep, SignedStep,
      ChangeStep, Sweep

\* Rows, locks and every request's locals keep their shape.
THEOREM TypeCorrect == Spec => []TypeOK
<1>1. Spec => []Basic
  BY InitBasic, NextBasic, PTL DEF Spec
<1>2. Basic => TypeOK
  BY DEF Basic
<1> QED
  BY <1>1, <1>2, PTL

-----------------------------------------------------------------------------
(* The inductive invariant.                                                *)

\* Where the request that makes a session or a link has got with it.
RowStates ==
    /\ \A x \in Session :
          CASE pc[x] \in {"log", "sent"} -> row[x] = "open"
            [] pc[x] = "done"            -> row[x] \in {"good", "over"}
            [] OTHER                     -> row[x] = "none"
    /\ \A x \in Link :
          CASE pc[x] = "log"  -> row[x] = "open"
            [] pc[x] = "sent" -> row[x] \in {"none", "open"}
            [] pc[x] = "done" -> row[x] \in {"none", "good", "over"}
            [] OTHER          -> row[x] = "none"
    /\ \A x \in ending : row[x] = "good"

\* Where a registration has got with the account's rows, and that they are
\* nobody else's.
AccountRows ==
    /\ \A u \in user :
          \/ u.tx = u.by /\ pc[u.by] \in {"policy", "session", "log", "sent"}
          \/ u.tx = Committed /\ pc[u.by] = "done"
    /\ \A r \in Register :
          /\ pc[r] \in {"policy", "session", "log", "sent"} => draft[r] # None
          /\ pc[r] \in {"session", "log", "sent"} => [by |-> r, tx |-> r] \in policy
          /\ pc[r] = "sent" => [outcome |-> "done", by |-> r, tx |-> r] \in audit

\* A row that has ended, or that r is ending.
EndedBy(r, x) == row[x] = "over" \/ (holder[x] = r /\ x \in ending)

\* A link is used by whoever has marked it, until it is over.
LinkIsHeld(r) ==
    /\ pc[r] \in {"rewrite", "end", "ending", "log", "sent"} =>
          row[link[r]] = "good" /\ holder[link[r]] = r /\ link[r] \in ending
    /\ pc[r] = "done" => row[link[r]] = "over"

\* What was good once is good or over.
KnownStayKnown == \A r \in Request : \A x \in known[r] : row[x] \in {"good", "over"}

\* What a request has to end it has ended or has still to take.
SessionsAreSwept(r) ==
    \A x \in known[r] \cap aim[r] :
        /\ pc[r] = "ending" => x \in todo[r] \/ EndedBy(r, x)
        /\ pc[r] \in {"burn", "burning", "log", "sent"} => EndedBy(r, x)

LinksAreSwept(r) ==
    \A x \in known[r] \cap Link :
        /\ pc[r] = "burning" => x \in todo[r] \/ EndedBy(r, x)
        /\ pc[r] \in {"token", "log"} => EndedBy(r, x)
        /\ pc[r] = "sent" /\ (r \in Change \/ row[r] # "none") => EndedBy(r, x)

Rest ==
    /\ RowStates /\ AccountRows /\ KnownStayKnown
    /\ \A r \in Reset : LinkIsHeld(r)
    /\ \A r \in Reset \cup Change \cup Logout : SessionsAreSwept(r)
    /\ \A r \in Change \cup Forgot : LinksAreSwept(r)
    /\ AccountsAreComplete /\ RefusalsAreOnRecord /\ LinksWorkOnce /\ WhatWasGoodEnds

IInv == Basic /\ Rest

-----------------------------------------------------------------------------
(* What a step of one request does to the others.                          *)

\* Others keep their place and what they have read; the rows they have written
\* stay theirs, and a row moves on only by being committed or ended.
LeavesOthers(r) ==
    /\ \A t \in Request \ {r} :
          /\ pc'[t] = pc[t] /\ aim'[t] = aim[t] /\ todo'[t] = todo[t]
          /\ known'[t] = known[t]
          /\ t \in Reset => link'[t] = link[t]
          /\ t \in Register => draft'[t] = draft[t]
    /\ \A x \in Row :
          /\ x # r => row'[x] = row[x]
                      \/ (row[x] = "good" /\ row'[x] = "over" /\ holder[x] = r)
          /\ row[x] = "over" => row'[x] = "over"
          /\ row[x] = "good" => row'[x] \in {"good", "over"}
          /\ \A t \in Request \ {r} : holder[x] = t =>
                /\ holder'[x] = t
                /\ x \in ending => x \in ending'
                /\ row[x] = "good" => row'[x] = "good"
    /\ \A u \in user : u.tx # r => u \in user'
    /\ \A p \in policy : p.tx # r => p \in policy'
    /\ \A a \in attempts : a.tx # r => a \in attempts'
    /\ \A e \in audit : e.tx # r => e \in audit'
    /\ hash # None => hash' # None

\* A step of r: one of its own, a failure, or the deadlock detector's.
Moves(r) == Step(r) \/ Fail(r) \/ DeadlockAbort(r) \/ (r \in Login /\ PoolTimeout(r))

\* Its transaction is rolled back: by a failure, or, of a signed-in request,
\* by the answer.
Aborts(r) ==
    /\ pc[r] \in Running /\ Rollback(r)
    /\ Goto(r, "failed") \/ (r \in Signed /\ (Goto(r, "refused") \/ Goto(r, "rejected")))

\* Whoever is not kept waiting finds the row it is about to write free.
LEMMA FreeToWrite ==
  ASSUME Basic, NEW r \in Request, Blockers(r) = {}, NEW x \in Row, Wanted(r) = {x}
  PROVE  Free(r, x)
<1> SUFFICES ASSUME ~Free(r, x) PROVE FALSE
  OBVIOUS
<1>1. holder[x] \in Request \ {r}
  BY DEF Free, Basic, TypeOK
<1>2. holder[x] \in Blockers(r)
  BY <1>1 DEF Blockers
<1> QED
  BY <1>2

\* A rollback gives back what was the request's own.
LEMMA RollbackLeaves ==
  ASSUME Basic, RowStates, NEW r \in Request, Rollback(r), NEW label, Goto(r, label)
  PROVE  LeavesOthers(r)
BY RequestAssumption
DEF Basic, TypeOK, LeavesOthers, Rollback, Undone, Release, Goto, Owns, inputs

\* A commit shows what was the request's own, and ends what it has ended.
LEMMA CommitLeaves ==
  ASSUME Basic, RowStates, NEW r \in Request, Commit(r) PROVE LeavesOthers(r)
<1> USE RequestAssumption DEF Commit, Goto, inputs
<1>1. /\ \A u \in user : u.tx # r => u \in user'
      /\ \A p \in policy : p.tx # r => p \in policy'
      /\ \A a \in attempts : a.tx # r => a \in attempts'
      /\ \A e \in audit : e.tx # r => e \in audit'
      /\ hash # None => hash' # None
  BY DEF Settled
<1>2. \A x \in Row :
        /\ x # r => row'[x] = row[x]
                    \/ (row[x] = "good" /\ row'[x] = "over" /\ holder[x] = r)
        /\ row[x] = "over" => row'[x] = "over"
        /\ row[x] = "good" => row'[x] \in {"good", "over"}
        /\ \A t \in Request \ {r} : holder[x] = t =>
              /\ holder'[x] = t
              /\ x \in ending => x \in ending'
              /\ row[x] = "good" => row'[x] = "good"
  BY DEF Release, Owns, RowStates, Basic, TypeOK
<1>3. \A t \in Request \ {r} :
        /\ pc'[t] = pc[t] /\ aim'[t] = aim[t] /\ todo'[t] = todo[t]
        /\ known'[t] = known[t]
        /\ t \in Reset => link'[t] = link[t]
        /\ t \in Register => draft'[t] = draft[t]
  BY DEF Basic, TypeOK
<1> QED
  BY <1>1, <1>2, <1>3 DEF LeavesOthers

\* The rows a request may write are free or its own: so it is with every step.
LEMMA EveryStepLeaves ==
  ASSUME Basic, RowStates, NEW r \in Request, Moves(r) PROVE LeavesOthers(r)
<1> USE RequestAssumption DEF Basic, Goto, account, rights, journal, inputs
<1>1. ASSUME \/ CheckAddress(r) \/ CountFailures(r) \/ LookUp(r)
      PROVE  LeavesOthers(r)
  BY <1>1 DEF CheckAddress, CountFailures, LookUp, Begin, TypeOK, LeavesOthers
<1>2. ASSUME ReadLink(r) PROVE LeavesOthers(r)
  BY <1>2 DEF ReadLink, Begin, TypeOK, LeavesOthers
<1>3. ASSUME Authenticate(r) PROVE LeavesOthers(r)
  BY <1>3 DEF Authenticate, Begin, TypeOK, LeavesOthers
<1>4. ASSUME r \in Register, InsertUser(r) PROVE LeavesOthers(r)
  <2>1. CASE Rollback(r) /\ Goto(r, "failed")
    BY <2>1, RollbackLeaves
  <2>2. CASE ~(Rollback(r) /\ Goto(r, "failed"))
    BY <1>4, <2>2 DEF InsertUser, TypeOK, LeavesOthers
  <2> QED
    BY <2>1, <2>2
<1>5. ASSUME \/ InsertPolicy(r) \/ Journal(r) \/ LogRejection(r) \/ Log(r)
      PROVE  LeavesOthers(r)
  BY <1>5 DEF InsertPolicy, Journal, LogRejection, Log, TypeOK, LeavesOthers
<1>6. ASSUME \/ Verify(r) \/ PoolTimeout(r) \/ CheckCurrent(r)
      PROVE  LeavesOthers(r)
  BY <1>6 DEF Verify, PoolTimeout, CheckCurrent, TypeOK, LeavesOthers
<1>7. ASSUME r \in Writer, Rehash(r) \/ Rewrite(r) PROVE LeavesOthers(r)
  BY <1>7 DEF Rehash, Rewrite, TypeOK, LeavesOthers
<1>8. ASSUME StartEnding(r) \/ StartBurning(r) PROVE LeavesOthers(r)
  BY <1>8 DEF StartEnding, StartBurning, TypeOK, LeavesOthers
<1>9. ASSUME r \in Session, InsertSession(r) PROVE LeavesOthers(r)
  BY <1>9 DEF InsertSession, TypeOK, RowStates, LeavesOthers
<1>10. ASSUME r \in Forgot, InsertLink(r) PROVE LeavesOthers(r)
  BY <1>10 DEF InsertLink, TypeOK, RowStates, LeavesOthers
<1>11. ASSUME NEW x \in Row, Take(r, x) PROVE LeavesOthers(r)
  BY <1>11 DEF Take, Free, TypeOK, LeavesOthers
<1>12. ASSUME Taken(r) PROVE LeavesOthers(r)
  <2>1. CASE Rollback(r) /\ Goto(r, "refused")
    BY <2>1, RollbackLeaves
  <2>2. CASE ~(Rollback(r) /\ Goto(r, "refused"))
    BY <1>12, <2>2 DEF Taken, TypeOK, LeavesOthers
  <2> QED
    BY <2>1, <2>2
<1>13. ASSUME r \in Reset, MarkUsed(r) PROVE LeavesOthers(r)
  <2>1. Wanted(r) = {link[r]} /\ link[r] \in Row
    BY <1>13 DEF MarkUsed, Wanted, Typing
  <2>2. Free(r, link[r])
    BY <1>13, <2>1, FreeToWrite DEF MarkUsed
  <2> QED
    BY <1>13, <2>1, <2>2 DEF MarkUsed, Free, TypeOK, LeavesOthers
<1>14. ASSUME r \in Signed, Touch(r) PROVE LeavesOthers(r)
  <2>1. Wanted(r) = {via[r]} /\ via[r] \in Row
    BY <1>14 DEF Touch, Wanted, Typing
  <2>2. Free(r, via[r])
    BY <1>14, <2>1, FreeToWrite DEF Touch
  <2> QED
    BY <1>14, <2>1, <2>2 DEF Touch, Free, TypeOK, LeavesOthers
<1>15. ASSUME Raise(r) \/ Fail(r) \/ DeadlockAbort(r) PROVE LeavesOthers(r)
  BY <1>15, RollbackLeaves DEF Raise, Fail, DeadlockAbort
<1> QED
  BY <1>1, <1>2, <1>3, <1>4, <1>5, <1>6, <1>7, <1>8, <1>9, <1>10, <1>11,
     <1>12, <1>13, <1>14, <1>15, CommitLeaves
  DEF Moves, Step, RegisterStep, LoginStep, ForgotStep, ResetStep, SignedStep,
      ChangeStep, Sweep

-----------------------------------------------------------------------------
(* The steps of each kind of request.                                      *)

\* Those of a registration,
LEMMA RegisterSteps ==
  ASSUME Basic, NEW r \in Register, Moves(r)
  PROVE  \/ CheckAddress(r) \/ InsertUser(r) \/ InsertPolicy(r) \/ InsertSession(r)
         \/ Log(r) \/ Commit(r) \/ Aborts(r)
<1> USE RequestAssumption
<1>1. ~StartEnding(r) /\ ~Taken(r) /\ \A x \in Row : ~Take(r, x)
  BY DEF StartEnding, Taken, Take, Basic, Places
<1> QED
  BY <1>1 DEF Moves, Step, RegisterStep, Sweep, Fail, DeadlockAbort, Aborts

\* of which the second inserts the account or fails on the constraint,
LEMMA InsertUserSteps ==
  ASSUME NEW r \in Register, InsertUser(r)
  PROVE  \/ Aborts(r)
         \/ /\ pc[r] = "user" /\ SameAddress(r) = {} /\ Goto(r, "policy")
            /\ user' = user \cup {[by |-> r, tx |-> r]}
            /\ draft' = [draft EXCEPT ![r] = [word |-> word[r], cost |-> cost]]
            /\ UNCHANGED <<policy, hash, rights, journal, cost, inputs, todo>>
BY DEF InsertUser, Aborts

\* of a login,
LEMMA LoginSteps ==
  ASSUME Basic, NEW r \in Login, Moves(r)
  PROVE  \/ CountFailures(r) \/ Verify(r) \/ Journal(r) \/ PoolTimeout(r)
         \/ Rehash(r) \/ InsertSession(r) \/ Log(r) \/ Commit(r) \/ Aborts(r)
<1> USE RequestAssumption
<1>1. ~StartEnding(r) /\ ~Taken(r) /\ \A x \in Row : ~Take(r, x)
  BY DEF StartEnding, Taken, Take, Basic, Places
<1> QED
  BY <1>1 DEF Moves, Step, LoginStep, Sweep, Fail, DeadlockAbort, Aborts

\* of a request for a link,
LEMMA ForgotSteps ==
  ASSUME Basic, NEW r \in Forgot, Moves(r)
  PROVE  \/ LookUp(r) \/ StartBurning(r) \/ (\E x \in Row : Take(r, x)) \/ Taken(r)
         \/ InsertLink(r) \/ Log(r) \/ Commit(r) \/ Aborts(r)
<1> USE RequestAssumption
<1>1. ~StartEnding(r)
  BY DEF StartEnding, Basic, Places
<1> QED
  BY <1>1 DEF Moves, Step, ForgotStep, Sweep, Fail, DeadlockAbort, Aborts

\* of a reset,
LEMMA ResetSteps ==
  ASSUME Basic, NEW r \in Reset, Moves(r)
  PROVE  \/ ReadLink(r) \/ MarkUsed(r) \/ Rewrite(r) \/ StartEnding(r)
         \/ (\E x \in Row : Take(r, x)) \/ Taken(r)
         \/ Log(r) \/ Commit(r) \/ Aborts(r)
<1> USE RequestAssumption
<1> QED
  BY DEF Moves, Step, ResetStep, Sweep, Fail, DeadlockAbort, Aborts

\* and of a signed-in request.
LEMMA SignedSteps ==
  ASSUME Basic, NEW r \in Signed, Moves(r)
  PROVE  \/ Authenticate(r) \/ Touch(r) \/ CheckCurrent(r) \/ LogRejection(r)
         \/ (r \in Change /\ (Rewrite(r) \/ StartBurning(r))) \/ StartEnding(r)
         \/ (\E x \in Row : Take(r, x)) \/ Taken(r)
         \/ Log(r) \/ Commit(r) \/ Aborts(r)
<1> USE RequestAssumption
<1> QED
  BY DEF Moves, Step, SignedStep, ChangeStep, Sweep, Raise, Fail, DeadlockAbort, Aborts

-----------------------------------------------------------------------------
(* The parts of the invariant, step by step.                               *)

\* No account, no session, no link at first.
LEMMA InitRest == Init => Rest
<1> SUFFICES ASSUME Init PROVE Rest
  OBVIOUS
<1>1. RowStates /\ AccountRows /\ KnownStayKnown
  BY RequestAssumption DEF Init, RowStates, AccountRows, KnownStayKnown
<1>2. /\ \A r \in Reset : LinkIsHeld(r)
      /\ \A r \in Reset \cup Change \cup Logout : SessionsAreSwept(r)
      /\ \A r \in Change \cup Forgot : LinksAreSwept(r)
  BY RequestAssumption DEF Init, LinkIsHeld, SessionsAreSwept, LinksAreSwept
<1>3. AccountsAreComplete /\ RefusalsAreOnRecord /\ LinksWorkOnce /\ WhatWasGoodEnds
  BY DEF Init, AccountsAreComplete, RefusalsAreOnRecord, LinksWorkOnce, WhatWasGoodEnds
<1> QED
  BY <1>1, <1>2, <1>3 DEF Rest

\* A session or a link is inserted once, by the request it is named after.
LEMMA RowStatesStep ==
  ASSUME Basic, RowStates, NEW r \in Request, Moves(r) PROVE RowStates'
<1> USE RequestAssumption DEF Basic, Goto, account, rights, journal, inputs
<1>1. ASSUME Commit(r) PROVE RowStates'
  BY <1>1 DEF Commit, Release, Owns, RowStates, TypeOK, Places
<1>2. ASSUME Aborts(r) PROVE RowStates'
  BY <1>2 DEF Aborts, Rollback, Release, Owns, RowStates, TypeOK, Places
<1>3. ASSUME Log(r) PROVE RowStates'
  BY <1>3 DEF Log, RowStates, TypeOK, Places
<1>4. CASE r \in Register
  <2>1. ASSUME CheckAddress(r) \/ InsertPolicy(r) PROVE RowStates'
    BY <1>4, <2>1 DEF CheckAddress, Begin, InsertPolicy, RowStates, TypeOK
  <2>2. ASSUME InsertUser(r), ~Aborts(r) PROVE RowStates'
    <3>1. pc[r] = "user" /\ Goto(r, "policy") /\ UNCHANGED <<row, ending>>
      BY <1>4, <2>2, InsertUserSteps
    <3> QED
      BY <1>4, <3>1 DEF RowStates, TypeOK
  <2>3. ASSUME InsertSession(r) PROVE RowStates'
    BY <1>4, <2>3 DEF InsertSession, RowStates, TypeOK
  <2> QED
    BY <1>1, <1>2, <1>3, <1>4, <2>1, <2>2, <2>3, RegisterSteps
<1>5. CASE r \in Login
  <2>1. ASSUME CountFailures(r) PROVE RowStates'
    BY <1>5, <2>1 DEF CountFailures, Begin, RowStates, TypeOK
  <2>2. ASSUME Verify(r) \/ Rehash(r) PROVE RowStates'
    BY <1>5, <2>2 DEF Verify, Rehash, RowStates, TypeOK
  <2>3. ASSUME Journal(r) \/ PoolTimeout(r) PROVE RowStates'
    BY <1>5, <2>3 DEF Journal, PoolTimeout, RowStates, TypeOK
  <2>4. ASSUME InsertSession(r) PROVE RowStates'
    BY <1>5, <2>4 DEF InsertSession, RowStates, TypeOK
  <2> QED
    BY <1>1, <1>2, <1>3, <1>5, <2>1, <2>2, <2>3, <2>4, LoginSteps
<1>6. ASSUME NEW x \in Row, Take(r, x) PROVE RowStates'
  BY <1>6 DEF Take, RowStates
<1>7. CASE r \in Forgot
  <2>1. ASSUME LookUp(r) PROVE RowStates'
    <3>1. /\ pc[r] = "idle" /\ UNCHANGED <<row, ending>>
          /\ \E label \in {"burn", "log_refusal"} : pc' = [pc EXCEPT ![r] = label]
      BY <2>1 DEF LookUp, Begin
    <3> QED
      BY <1>7, <3>1 DEF RowStates, TypeOK
  <2>2. ASSUME StartBurning(r) PROVE RowStates'
    BY <1>7, <2>2 DEF StartBurning, RowStates, TypeOK
  <2>3. ASSUME Taken(r) PROVE RowStates'
    BY <1>7, <2>3 DEF Taken, RowStates, TypeOK, Places
  <2>4. ASSUME InsertLink(r) PROVE RowStates'
    BY <1>7, <2>4 DEF InsertLink, RowStates, TypeOK
  <2> QED
    BY <1>1, <1>2, <1>3, <1>6, <1>7, <2>1, <2>2, <2>3, <2>4, ForgotSteps
<1>8. CASE r \in Reset
  <2>1. ASSUME ReadLink(r) \/ Rewrite(r) \/ StartEnding(r) \/ Taken(r) PROVE RowStates'
    BY <1>8, <2>1
    DEF ReadLink, Begin, Rewrite, StartEnding, Taken, RowStates, TypeOK
  <2>2. ASSUME MarkUsed(r) PROVE RowStates'
    BY <1>8, <2>2 DEF MarkUsed, RowStates, TypeOK
  <2> QED
    BY <1>1, <1>2, <1>3, <1>6, <1>8, <2>1, <2>2, ResetSteps
<1>9. CASE r \in Signed
  <2>1. ASSUME Authenticate(r) \/ Touch(r) \/ CheckCurrent(r) \/ LogRejection(r)
        PROVE  RowStates'
    BY <1>9, <2>1
    DEF Authenticate, Begin, Touch, CheckCurrent, LogRejection, RowStates, TypeOK
  <2>2. ASSUME Rewrite(r) \/ StartBurning(r) \/ StartEnding(r) PROVE RowStates'
    BY <1>9, <2>2 DEF Rewrite, StartBurning, StartEnding, RowStates, TypeOK
  <2>3. ASSUME Taken(r) PROVE RowStates'
    <3>1. CASE Rollback(r) /\ Goto(r, "refused")
      BY <1>2, <1>9, <2>3, <3>1 DEF Taken, Aborts
    <3>2. CASE ~(Rollback(r) /\ Goto(r, "refused"))
      BY <1>9, <2>3, <3>2 DEF Taken, RowStates, TypeOK
    <3> QED
      BY <3>1, <3>2
  <2> QED
    BY <1>1, <1>2, <1>3, <1>6, <1>9, <2>1, <2>2, <2>3, SignedSteps
<1> QED
  BY <1>4, <1>5, <1>7, <1>8, <1>9

\* What a commit makes of rows whose request is r.
LEMMA SettledRows ==
  ASSUME NEW T, NEW S, T \subseteq [by: S, tx: S \cup {Committed}], NEW r
  PROVE  /\ \A u \in Settled(T, r) : \E v \in T :
              u.by = v.by /\ u.tx = IF v.tx = r THEN Committed ELSE v.tx
         /\ \A v \in T : v.tx = r => [by |-> v.by, tx |-> Committed] \in Settled(T, r)
         /\ (\A u, v \in T : u = v) => \A u, v \in Settled(T, r) : u = v
<1>1. \A u \in Settled(T, r) : \E v \in T :
        u.by = v.by /\ u.tx = IF v.tx = r THEN Committed ELSE v.tx
  BY DEF Settled
<1>2. ASSUME NEW v \in T, v.tx = r
      PROVE  [by |-> v.by, tx |-> Committed] \in Settled(T, r)
  <2>1. [v EXCEPT !.tx = Committed] = [by |-> v.by, tx |-> Committed]
    OBVIOUS
  <2> QED
    BY <1>2, <2>1 DEF Settled
<1>3. ASSUME \A u, v \in T : u = v PROVE \A u, v \in Settled(T, r) : u = v
  BY <1>3 DEF Settled
<1> QED
  BY <1>1, <1>2, <1>3

\* An account's rows are its registration's until it commits, and there is one
\* account: whoever else inserts the address waits and fails.
LEMMA AccountStep ==
  ASSUME Basic, RowStates, AccountRows, AccountsAreComplete, NEW r \in Request, Moves(r)
  PROVE  AccountRows' /\ AccountsAreComplete'
<1> USE RequestAssumption DEF Basic, Goto, account, rights, journal, inputs
<1>1. LeavesOthers(r) /\ RowStates'
  BY EveryStepLeaves, RowStatesStep
<1>2. ASSUME user' \subseteq user, r \notin Register \/ pc'[r] # "done"
      PROVE  AccountsAreComplete'
  BY <1>1, <1>2, RequestAssumption DEF AccountsAreComplete, LeavesOthers, TypeOK
<1>3. ASSUME r \in Register, Aborts(r) PROVE AccountRows' /\ AccountsAreComplete'
  <2>1. AccountRows'
    BY <1>1, <1>3 DEF Aborts, Rollback, Undone, AccountRows, LeavesOthers, TypeOK
  <2>2. user' \subseteq user /\ pc'[r] # "done"
    BY <1>3 DEF Aborts, Rollback, Undone, TypeOK
  <2> QED
    BY <1>2, <2>1, <2>2
<1>4. ASSUME r \in Register, CheckAddress(r) \/ InsertPolicy(r) \/ InsertSession(r) \/ Log(r)
      PROVE  AccountRows' /\ AccountsAreComplete'
  <2>1. AccountRows'
    BY <1>4 DEF CheckAddress, Begin, InsertPolicy, InsertSession, Log, AccountRows,
       TypeOK, Places
  <2>2. user' \subseteq user /\ pc'[r] # "done"
    BY <1>4 DEF CheckAddress, Begin, InsertPolicy, InsertSession, Log, TypeOK
  <2> QED
    BY <1>2, <2>1, <2>2
<1>5. ASSUME r \in Register, InsertUser(r), ~Aborts(r)
      PROVE  AccountRows' /\ AccountsAreComplete'
  <2>1. /\ pc[r] = "user" /\ pc' = [pc EXCEPT ![r] = "policy"]
        /\ user' = user \cup {[by |-> r, tx |-> r]} /\ SameAddress(r) = {}
        /\ draft' = [draft EXCEPT ![r] = [word |-> word[r], cost |-> cost]]
        /\ UNCHANGED <<policy, audit, row, hash>>
    BY <1>5, InsertUserSteps
  <2>2. user = {}
    BY <2>1 DEF SameAddress, AccountRows
  <2>3. [word |-> word[r], cost |-> cost] # None
    BY <1>5, <2>1 DEF Hash, Typing, TypeOK
  <2>4. AccountRows'
    BY <1>5, <2>1, <2>2, <2>3 DEF AccountRows, TypeOK
  <2>5. AccountsAreComplete'
    BY <2>1, <2>2 DEF AccountsAreComplete
  <2> QED
    BY <2>4, <2>5
<1>6. ASSUME r \in Register, Commit(r) PROVE AccountRows' /\ AccountsAreComplete'
  <2>1. /\ user' = Settled(user, r) /\ policy' = Settled(policy, r)
        /\ audit' = Settled(audit, r) /\ pc[r] = "sent"
        /\ pc' = [pc EXCEPT ![r] = "done"]
        /\ hash' = draft[r] /\ draft[r] # None
    BY <1>6 DEF Commit, AccountRows, TypeOK
  <2>2. [by |-> r, tx |-> Committed] \in policy'
    <3>1. [by |-> r, tx |-> r] \in policy
      BY <1>6, <2>1 DEF AccountRows
    <3>2. policy \subseteq [by: Register, tx: Register \cup {Committed}]
      BY DEF TypeOK
    <3>3. \A v \in policy : v.tx = r =>
            [by |-> v.by, tx |-> Committed] \in Settled(policy, r)
      BY ONLY <3>2, SettledRows
    <3> QED
      BY <2>1, <3>1, <3>3
  <2>3. [outcome |-> "done", by |-> r, tx |-> Committed] \in audit'
    <3> DEFINE e == [outcome |-> "done", by |-> r, tx |-> r]
    <3>1. e \in audit /\ e.tx = r
      BY <1>6, <2>1 DEF AccountRows
    <3>2. [e EXCEPT !.tx = Committed] \in audit'
      BY <2>1, <3>1 DEF Settled
    <3> QED
      BY <3>2
  <2>4. user \subseteq [by: Register, tx: Register \cup {Committed}]
    BY DEF TypeOK
  <2>5. \A u \in user' : \E v \in user :
          u.by = v.by /\ u.tx = IF v.tx = r THEN Committed ELSE v.tx
    BY ONLY <2>1, <2>4, SettledRows
  <2>6. \A u, v \in user' : u = v
    <3>1. \A u, v \in user : u = v
      BY DEF AccountsAreComplete
    <3>2. \A u, v \in Settled(user, r) : u = v
      BY ONLY <3>1 DEF Settled
    <3> QED
      BY <2>1, <3>2
  <2>7. AccountRows'
    BY <1>1, <1>6, <2>1, <2>5 DEF AccountRows, LeavesOthers, TypeOK
  <2>8. row'[r] \in {"good", "over"}
    BY <1>1, <1>6, <2>1 DEF RowStates, TypeOK
  <2>9. ASSUME NEW u \in user', u.tx = Committed
        PROVE  /\ [by |-> u.by, tx |-> Committed] \in policy'
               /\ row'[u.by] \in {"good", "over"}
               /\ [outcome |-> "done", by |-> u.by, tx |-> Committed] \in audit'
    <3>1. PICK v \in user : u.by = v.by /\ u.tx = IF v.tx = r THEN Committed ELSE v.tx
      BY <2>5
    <3>2. CASE v.tx = r
      BY <2>2, <2>3, <2>8, <3>1, <3>2 DEF AccountRows
    <3>3. CASE v.tx # r
      <4>1. v.tx = Committed /\ v.by \in Register
        BY <2>4, <2>9, <3>1, <3>3
      <4> QED
        BY <1>1, <3>1, <4>1 DEF AccountsAreComplete, LeavesOthers
    <3> QED
      BY <3>2, <3>3
  <2> QED
    BY <2>1, <2>6, <2>7, <2>9 DEF AccountsAreComplete
<1>7. ASSUME r \notin Register, user' = user PROVE AccountRows' /\ AccountsAreComplete'
  <2>1. AccountRows'
    BY <1>1, <1>7 DEF AccountRows, LeavesOthers, TypeOK
  <2> QED
    BY <1>2, <1>7, <2>1
<1>8. ASSUME r \notin Register PROVE user' = user
  <2>1. \A u \in user : u.tx # r
    BY <1>8 DEF TypeOK
  <2>2. ASSUME Rollback(r) PROVE user' = user
    BY <2>1, <2>2 DEF Rollback, Undone
  <2>3. ASSUME Commit(r) PROVE user' = user
    BY <2>1, <2>3 DEF Commit, Settled
  <2>4. CASE ~Rollback(r) /\ ~Commit(r)
    BY <1>8, <2>4 DEF Moves, Step, LoginStep, ForgotStep, ResetStep, SignedStep,
       ChangeStep, Sweep, CountFailures, Verify, Journal, Rehash, PoolTimeout,
       InsertSession, LookUp, StartBurning, InsertLink, ReadLink, MarkUsed, Rewrite,
       Authenticate, Touch, CheckCurrent, LogRejection, Raise, Fail, DeadlockAbort,
       StartEnding, Take, Taken, Log, Begin
  <2> QED
    BY <2>2, <2>3, <2>4
<1>9. ASSUME r \in Register PROVE AccountRows' /\ AccountsAreComplete'
  BY <1>3, <1>4, <1>5, <1>6, <1>9, RegisterSteps
<1> QED
  BY <1>7, <1>8, <1>9

\* A request that begins only reads, and remembers what is good,
Begins(r) ==
    /\ pc[r] = "idle" /\ UNCHANGED <<account, rights, journal, cost, todo>>
    /\ known' = [known EXCEPT ![r] = Good(Row)]

\* and one that goes on has all it needs to know.
LEMMA BeginsOrGoesOn ==
  ASSUME NEW r \in Request, Moves(r)
  PROVE  Begins(r) \/ UNCHANGED inputs
<1>1. ASSUME \/ CheckAddress(r) \/ CountFailures(r) \/ LookUp(r) \/ ReadLink(r)
             \/ Authenticate(r)
      PROVE  Begins(r)
  BY <1>1 DEF CheckAddress, CountFailures, LookUp, ReadLink, Authenticate, Begin, Begins
<1>2. ASSUME \/ InsertUser(r) \/ InsertPolicy(r) \/ Verify(r) \/ Journal(r) \/ Rehash(r)
             \/ PoolTimeout(r) \/ InsertSession(r) \/ StartBurning(r) \/ InsertLink(r)
             \/ MarkUsed(r) \/ Rewrite(r)
      PROVE  UNCHANGED inputs
  BY <1>2 DEF InsertUser, InsertPolicy, Verify, Journal, Rehash, PoolTimeout,
     InsertSession, StartBurning, InsertLink, MarkUsed, Rewrite, Rollback
<1>3. ASSUME \/ Touch(r) \/ CheckCurrent(r) \/ LogRejection(r) \/ Raise(r) \/ Fail(r)
             \/ DeadlockAbort(r) \/ Sweep(r) \/ Log(r) \/ Commit(r)
      PROVE  UNCHANGED inputs
  BY <1>3 DEF Touch, CheckCurrent, LogRejection, Raise, Fail, DeadlockAbort, Sweep,
     StartEnding, Take, Taken, Log, Commit, Rollback
<1> QED
  BY <1>1, <1>2, <1>3 DEF Moves, Step, RegisterStep, LoginStep, ForgotStep, ResetStep,
     SignedStep, ChangeStep

\* What was good is good or over for ever.
LEMMA KnownStep ==
  ASSUME Basic, RowStates, KnownStayKnown, NEW r \in Request, Moves(r)
  PROVE  KnownStayKnown'
<1> USE RequestAssumption DEF Basic
<1>1. LeavesOthers(r)
  BY EveryStepLeaves
<1>2. \A x \in Row : row[x] \in {"good", "over"} => row'[x] \in {"good", "over"}
  BY <1>1 DEF LeavesOthers
<1>3. known'[r] = known[r] \/ (known'[r] = Good(Row) /\ row' = row)
  <2>1. Begins(r) => known'[r] = Good(Row) /\ row' = row
    BY DEF Begins, rights, TypeOK
  <2>2. UNCHANGED inputs => known' = known
    BY DEF inputs
  <2> QED
    BY <2>1, <2>2, BeginsOrGoesOn
<1>4. \A t \in Request : known[t] \subseteq Row
  BY DEF TypeOK
<1>5. ASSUME NEW t \in Request, NEW x \in known'[t] PROVE row'[x] \in {"good", "over"}
  <2>1. CASE known'[t] = known[t]
    BY <1>2, <1>4, <1>5, <2>1 DEF KnownStayKnown
  <2>2. CASE t = r /\ known'[r] = Good(Row) /\ row' = row
    BY <1>5, <2>2 DEF Good
  <2> QED
    BY <1>1, <1>3, <2>1, <2>2 DEF LeavesOthers
<1> QED
  BY <1>5 DEF KnownStayKnown

\* A link that is marked stays marked, and is over when the reset is done.
LEMMA LinkIsHeldStep ==
  ASSUME Basic, RowStates, \A t \in Reset : LinkIsHeld(t), NEW r \in Request, Moves(r)
  PROVE  \A t \in Reset : LinkIsHeld(t)'
<1> USE RequestAssumption DEF Basic, Goto, account, rights, journal, inputs
<1> SUFFICES ASSUME NEW t \in Reset PROVE LinkIsHeld(t)'
  OBVIOUS
<1>1. LeavesOthers(r)
  BY EveryStepLeaves
<1>2. CASE t # r
  BY <1>1, <1>2 DEF LinkIsHeld, LeavesOthers, Typing, TypeOK
<1>3. CASE t = r
  <2>1. ASSUME ReadLink(t) PROVE LinkIsHeld(t)'
    BY <2>1 DEF ReadLink, Begin, LinkIsHeld, TypeOK
  <2>2. ASSUME MarkUsed(t) PROVE LinkIsHeld(t)'
    BY <2>2 DEF MarkUsed, LinkIsHeld, Typing, TypeOK
  <2>3. ASSUME Rewrite(t) \/ StartEnding(t) \/ Log(t) PROVE LinkIsHeld(t)'
    BY <2>3 DEF Rewrite, StartEnding, Log, LinkIsHeld, TypeOK, Places
  <2>7. ASSUME Taken(t) PROVE LinkIsHeld(t)'
    BY <2>7 DEF Taken, LinkIsHeld, TypeOK, Places
  <2>4. ASSUME NEW x \in Row, Take(t, x) PROVE LinkIsHeld(t)'
    BY <2>4 DEF Take, LinkIsHeld, Typing, TypeOK
  <2>5. ASSUME Commit(t) PROVE LinkIsHeld(t)'
    BY <2>5 DEF Commit, Owns, RowStates, LinkIsHeld, Typing, TypeOK
  <2>6. ASSUME Aborts(t) PROVE LinkIsHeld(t)'
    BY <2>6 DEF Aborts, LinkIsHeld, TypeOK
  <2> QED
    BY <1>3, <2>1, <2>2, <2>3, <2>4, <2>5, <2>6, <2>7, ResetSteps
<1> QED
  BY <1>2, <1>3

\* A row that has ended, or that a request is ending, stays so for as long as
\* that request neither commits nor rolls back, and after its commit it is over.
LEMMA EndedStays ==
  ASSUME Basic, RowStates, NEW r \in Request, Moves(r),
         NEW t \in Request, NEW x \in Row, EndedBy(t, x)
  PROVE  \/ EndedBy(t, x)'
         \/ t = r /\ Aborts(r)
<1> USE RequestAssumption DEF Basic, Goto, account, rights, journal, inputs
<1>1. LeavesOthers(r)
  BY EveryStepLeaves
<1>2. CASE t # r
  BY <1>1, <1>2 DEF EndedBy, LeavesOthers
<1>3. CASE t = r
  <2>1. ASSUME Commit(r) PROVE row'[x] = "over"
    BY <1>3, <2>1 DEF Commit, EndedBy, Owns, RowStates, TypeOK
  <2>2. ASSUME NEW y \in Row, Take(r, y) PROVE EndedBy(r, x)'
    BY <1>3, <2>2 DEF Take, EndedBy, TypeOK
  <2>3. ASSUME MarkUsed(r) \/ Touch(r) PROVE EndedBy(r, x)'
    BY <1>3, <2>3 DEF MarkUsed, Touch, EndedBy, TypeOK
  <2>4. ASSUME UNCHANGED <<holder, ending>> PROVE EndedBy(r, x)'
    BY <1>1, <1>3, <2>4 DEF EndedBy, LeavesOthers
  <2>5. CASE r \in Session
    BY <1>3, <2>1, <2>4, <2>5, RegisterSteps, LoginSteps, InsertUserSteps
    DEF CheckAddress, InsertPolicy, InsertSession, CountFailures, Verify, Journal,
        PoolTimeout, Rehash, Log, Begin, EndedBy
  <2>6. CASE r \in Forgot
    BY <1>3, <2>1, <2>2, <2>4, <2>6, ForgotSteps
    DEF LookUp, StartBurning, Taken, InsertLink, Log, Begin, EndedBy
  <2>7. CASE r \in Reset
    BY <1>3, <2>1, <2>2, <2>3, <2>4, <2>7, ResetSteps
    DEF ReadLink, Rewrite, StartEnding, Taken, Log, Begin, EndedBy
  <2>8. CASE r \in Signed
    BY <1>3, <2>1, <2>2, <2>3, <2>4, <2>8, SignedSteps
    DEF Authenticate, CheckCurrent, LogRejection, Rewrite, StartBurning, StartEnding,
        Taken, Aborts, Log, Begin, EndedBy
  <2> QED
    BY <2>5, <2>6, <2>7, <2>8
<1> QED
  BY <1>2, <1>3

\* A reset, a change and a logout miss no session that was good when they began:
\* what they do not find free they wait for.
LEMMA SessionsAreSweptStep ==
  ASSUME Basic, RowStates, KnownStayKnown,
         \A t \in Reset \cup Change \cup Logout : SessionsAreSwept(t),
         NEW r \in Request, Moves(r)
  PROVE  \A t \in Reset \cup Change \cup Logout : SessionsAreSwept(t)'
<1> USE RequestAssumption DEF Basic, Goto, account, rights, journal
<1> SUFFICES ASSUME NEW t \in Reset \cup Change \cup Logout PROVE SessionsAreSwept(t)'
  OBVIOUS
<1>1. \A x \in Row : EndedBy(t, x) => EndedBy(t, x)' \/ (t = r /\ Aborts(r))
  BY EndedStays
<1>2. known[t] \subseteq Row /\ todo[t] \subseteq Row
  BY DEF TypeOK
<1>3. CASE t # r
  <2>1. LeavesOthers(r)
    BY EveryStepLeaves
  <2> QED
    BY <1>1, <1>2, <1>3, <2>1 DEF SessionsAreSwept, LeavesOthers
<1>4. CASE t = r
  <2> USE DEF inputs
  <2>1. ASSUME ReadLink(t) \/ Authenticate(t) PROVE SessionsAreSwept(t)'
    BY <2>1 DEF ReadLink, Authenticate, Begin, SessionsAreSwept, TypeOK
  <2>2. ASSUME MarkUsed(t) \/ CheckCurrent(t) \/ LogRejection(t) PROVE SessionsAreSwept(t)'
    BY <2>2 DEF MarkUsed, CheckCurrent, LogRejection, SessionsAreSwept, TypeOK
  <2>3. ASSUME Touch(t) \/ Rewrite(t) PROVE SessionsAreSwept(t)'
    BY <2>3 DEF Touch, Rewrite, SessionsAreSwept, TypeOK
  <2>4. ASSUME StartEnding(t) PROVE SessionsAreSwept(t)'
    BY <1>2, <2>4 DEF StartEnding, Good, KnownStayKnown, EndedBy, SessionsAreSwept, TypeOK
  <2>5. ASSUME NEW y \in Row, Take(t, y) PROVE SessionsAreSwept(t)'
    <3>1. \A x \in Row : EndedBy(t, x) => EndedBy(t, x)'
      BY <1>1, <2>5 DEF Take, EndedBy, TypeOK
    <3>2. ASSUME y \in known[t] PROVE EndedBy(t, y)'
      BY <2>5, <3>2 DEF Take, EndedBy, KnownStayKnown, TypeOK
    <3>3. UNCHANGED <<pc, known, aim>> /\ todo'[t] = todo[t] \ {y}
      BY <2>5 DEF Take, TypeOK
    <3> QED
      BY <1>2, <3>1, <3>2, <3>3 DEF SessionsAreSwept
  <2>6. ASSUME Taken(t) \/ StartBurning(t) \/ Log(t), ~Aborts(t) PROVE SessionsAreSwept(t)'
    <3>1. \A x \in Row : EndedBy(t, x) => EndedBy(t, x)'
      BY <1>1, <1>4, <2>6
    <3>2. /\ pc[t] \in {"burn", "burning", "log", "sent"} \/ (pc[t] = "ending" /\ todo[t] = {})
          /\ pc'[t] \in {"burn", "burning", "log", "sent"} /\ UNCHANGED <<known, aim>>
      BY <1>4, <2>6 DEF Taken, StartBurning, Log, Aborts, Places, TypeOK
    <3> QED
      BY <1>2, <3>1, <3>2 DEF SessionsAreSwept
  <2>7. ASSUME Commit(t) \/ Aborts(t) PROVE SessionsAreSwept(t)'
    BY <2>7 DEF Commit, Aborts, SessionsAreSwept, TypeOK
  <2> QED
    BY <1>4, <2>1, <2>2, <2>3, <2>4, <2>5, <2>6, <2>7, ResetSteps, SignedSteps
<1> QED
  BY <1>3, <1>4

\* A change and a request for a link miss no link.
LEMMA LinksAreSweptStep ==
  ASSUME Basic, RowStates, KnownStayKnown,
         \A t \in Change \cup Forgot : LinksAreSwept(t), NEW r \in Request, Moves(r)
  PROVE  \A t \in Change \cup Forgot : LinksAreSwept(t)'
<1> USE RequestAssumption DEF Basic, Goto, account, rights, journal
<1> SUFFICES ASSUME NEW t \in Change \cup Forgot PROVE LinksAreSwept(t)'
  OBVIOUS
<1>1. \A x \in Row : EndedBy(t, x) => EndedBy(t, x)' \/ (t = r /\ Aborts(r))
  BY EndedStays
<1>2. known[t] \subseteq Row /\ todo[t] \subseteq Row
  BY DEF TypeOK
<1>3. CASE t # r
  <2>1. LeavesOthers(r)
    BY EveryStepLeaves
  <2>2. t \in Forgot => row'[t] = "none" \/ row[t] # "none"
    BY <1>3, <2>1 DEF LeavesOthers
  <2> QED
    BY <1>1, <1>2, <1>3, <2>1, <2>2 DEF LinksAreSwept, LeavesOthers
<1>4. CASE t = r
  <2> USE DEF inputs
  <2>1. ASSUME LookUp(t) \/ Authenticate(t) PROVE LinksAreSwept(t)'
    BY <2>1 DEF LookUp, Authenticate, Begin, LinksAreSwept, TypeOK
  <2>2. ASSUME t \in Change, Touch(t) \/ CheckCurrent(t) \/ LogRejection(t)
        PROVE  LinksAreSwept(t)'
    BY <2>2 DEF Touch, CheckCurrent, LogRejection, LinksAreSwept, TypeOK
  <2>3. ASSUME Rewrite(t) \/ StartEnding(t) PROVE LinksAreSwept(t)'
    BY <2>3 DEF Rewrite, StartEnding, LinksAreSwept, TypeOK
  <2>4. ASSUME StartBurning(t) PROVE LinksAreSwept(t)'
    BY <1>2, <2>4 DEF StartBurning, Good, KnownStayKnown, EndedBy, LinksAreSwept, TypeOK
  <2>5. ASSUME NEW y \in Row, Take(t, y) PROVE LinksAreSwept(t)'
    <3>1. \A x \in Row : EndedBy(t, x) => EndedBy(t, x)'
      BY <1>1, <2>5 DEF Take, EndedBy, TypeOK
    <3>2. ASSUME y \in known[t] PROVE EndedBy(t, y)'
      BY <2>5, <3>2 DEF Take, EndedBy, KnownStayKnown, TypeOK
    <3>3. UNCHANGED <<pc, known, row>> /\ todo'[t] = todo[t] \ {y}
      BY <2>5 DEF Take, TypeOK
    <3> QED
      BY <1>2, <3>1, <3>2, <3>3 DEF LinksAreSwept
  <2>6. ASSUME Taken(t) \/ InsertLink(t) \/ Log(t), ~Aborts(t) PROVE LinksAreSwept(t)'
    <3>1. \A x \in Row : EndedBy(t, x) => EndedBy(t, x)'
      BY <1>1, <1>4, <2>6
    <3>2. CASE pc[t] = "log_refusal"
      BY <2>6, <3>2 DEF Taken, InsertLink, Log, LinksAreSwept, RowStates, TypeOK, Places
    <3>3. CASE pc[t] = "ending"
      BY <2>6, <3>3 DEF Taken, InsertLink, Log, LinksAreSwept, TypeOK, Places, Aborts
    <3>4. CASE pc[t] \notin {"log_refusal", "ending"}
      <4>1. /\ pc[t] \in {"token", "log"} \/ (pc[t] = "burning" /\ todo[t] = {})
            /\ pc'[t] \in {"token", "log", "sent"} /\ UNCHANGED known
        BY <1>4, <2>6, <3>4 DEF Taken, InsertLink, Log, Aborts, Places, TypeOK
      <4> QED
        BY <1>2, <3>1, <4>1 DEF LinksAreSwept
    <3> QED
      BY <3>2, <3>3, <3>4
  <2>7. ASSUME Commit(t) \/ Aborts(t) PROVE LinksAreSwept(t)'
    BY <2>7 DEF Commit, Aborts, LinksAreSwept, TypeOK
  <2> QED
    BY <1>4, <2>1, <2>2, <2>3, <2>4, <2>5, <2>6, <2>7, ForgotSteps, SignedSteps
<1> QED
  BY <1>3, <1>4

\* A request is done when it has committed, and then what it was ending is over.
LEMMA DoneIsCommitted ==
  ASSUME Basic, NEW r \in Request, Moves(r), pc'[r] = "done" PROVE Commit(r)
<1> USE RequestAssumption DEF Basic, Goto, TypeOK
<1>1. ~Aborts(r)
  BY DEF Aborts
<1>2. CASE r \in Session
  BY <1>1, <1>2, RegisterSteps, LoginSteps, InsertUserSteps
  DEF CheckAddress, InsertPolicy, InsertSession, CountFailures, Verify, Journal,
      PoolTimeout, Rehash, Log, Begin
<1>3. CASE r \in Forgot
  BY <1>1, <1>3, ForgotSteps
  DEF LookUp, StartBurning, Take, Taken, InsertLink, Log, Begin
<1>4. CASE r \in Reset
  BY <1>1, <1>4, ResetSteps
  DEF ReadLink, MarkUsed, Rewrite, StartEnding, Take, Taken, Log, Begin
<1>5. CASE r \in Signed
  BY <1>1, <1>5, SignedSteps
  DEF Authenticate, Touch, CheckCurrent, LogRejection, Rewrite, StartBurning,
      StartEnding, Take, Taken, Log, Begin
<1> QED
  BY <1>2, <1>3, <1>4, <1>5

\* Refusals are journalled with the answer, and what is committed stays.
LEMMA RefusalsStep ==
  ASSUME Basic, RowStates, RefusalsAreOnRecord, NEW r \in Request, Moves(r)
  PROVE  RefusalsAreOnRecord'
<1> USE RequestAssumption DEF Basic, Goto
<1> SUFFICES ASSUME NEW t \in Login
    PROVE /\ pc'[t] = "refused" => [by |-> t, tx |-> Committed] \in attempts'
          /\ pc'[t] \in {"refused", "turned_away"} =>
                [outcome |-> "refused", by |-> t, tx |-> Committed] \in audit'
  BY DEF RefusalsAreOnRecord
<1>1. CASE t # r
  <2>1. LeavesOthers(r)
    BY EveryStepLeaves
  <2> QED
    BY <1>1, <2>1 DEF RefusalsAreOnRecord, LeavesOthers
<1>2. CASE t = r
  <2>1. ASSUME Journal(t) PROVE /\ pc'[t] = "refused" => [by |-> t, tx |-> Committed] \in attempts'
                                /\ [outcome |-> "refused", by |-> t, tx |-> Committed] \in audit'
    BY <2>1 DEF Journal, TypeOK
  <2>2. ASSUME \/ CountFailures(t) \/ Verify(t) \/ PoolTimeout(t) \/ Rehash(t)
               \/ InsertSession(t) \/ Log(t) \/ Commit(t) \/ Aborts(t)
        PROVE  pc'[t] \notin {"refused", "turned_away"}
    BY <2>2 DEF CountFailures, Begin, Verify, PoolTimeout, Rehash, InsertSession, Log,
       Commit, Aborts, TypeOK
  <2> QED
    BY <1>2, <2>1, <2>2, LoginSteps
<1> QED
  BY <1>1, <1>2

\* The link of a reset that commits was good, that of one that has is over.
LEMMA LinksWorkOnceStep ==
  ASSUME Basic, RowStates, \A t \in Reset : LinkIsHeld(t), LinksWorkOnce,
         NEW r \in Request, Moves(r)
  PROVE  LinksWorkOnce'
<1> USE RequestAssumption
<1> SUFFICES ASSUME NEW a \in Reset, NEW b \in Reset, a # b,
                    pc'[a] \in {"sent", "done"}, pc'[b] \in {"sent", "done"},
                    link'[a] = link'[b]
             PROVE  FALSE
  BY DEF LinksWorkOnce
<1>1. LeavesOthers(r) /\ LinkIsHeld(a)' /\ LinkIsHeld(b)'
  BY EveryStepLeaves, LinkIsHeldStep
<1>2. pc'[a] = "done" /\ pc'[b] = "done"
  BY <1>1 DEF LinkIsHeld
<1>3. ASSUME NEW t \in Reset, pc'[t] = "done"
      PROVE  link'[t] = link[t] /\ (pc[t] = "done" \/ (t = r /\ row[link[t]] = "good"))
  <2>1. CASE t # r
    BY <1>1, <1>3, <2>1 DEF LeavesOthers
  <2>2. CASE t = r
    BY <1>3, <2>2, DoneIsCommitted DEF Commit, inputs, LinkIsHeld
  <2> QED
    BY <2>1, <2>2
<1> QED
  BY <1>2, <1>3 DEF LinksWorkOnce, LinkIsHeld

\* What a request was to end it has swept when it commits.
LEMMA WhatWasGoodStep ==
  ASSUME Basic, RowStates, WhatWasGoodEnds,
         \A t \in Reset \cup Change \cup Logout : SessionsAreSwept(t),
         \A t \in Change \cup Forgot : LinksAreSwept(t),
         NEW r \in Request, Moves(r)
  PROVE  WhatWasGoodEnds'
<1> USE RequestAssumption
<1> SUFFICES ASSUME NEW t \in Request, pc'[t] = "done", NEW x \in known'[t], Ends(t, x)'
             PROVE  row'[x] = "over"
  BY DEF WhatWasGoodEnds
<1>1. LeavesOthers(r)
  BY EveryStepLeaves
<1>2. \A y \in Request : known[y] \subseteq Row
  BY DEF Basic, TypeOK
<1>3. CASE t # r
  <2>1. Ends(t, x)
    BY <1>1, <1>3 DEF Ends, LeavesOthers
  <2> QED
    BY <1>1, <1>2, <1>3, <2>1 DEF WhatWasGoodEnds, LeavesOthers
<1>4. CASE t = r
  <2>1. Commit(r) /\ pc[r] = "sent" /\ known' = known /\ aim' = aim
    BY <1>4, DoneIsCommitted DEF Commit, inputs
  <2>2. x \in Row
    BY <1>2, <1>4, <2>1
  <2>3. r \in Forgot /\ row'[r] # "none" => row[r] # "none"
    BY <2>1 DEF Commit, Owns, RowStates, Basic, TypeOK
  <2>4. EndedBy(r, x)
    BY <1>4, <2>1, <2>2, <2>3 DEF Ends, SessionsAreSwept, LinksAreSwept
  <2>5. ~Owns(r, x)
    BY <2>1, <2>4 DEF Owns, EndedBy, RowStates, Basic
  <2> QED
    BY <2>1, <2>2, <2>4, <2>5 DEF Commit, EndedBy
<1> QED
  BY <1>3, <1>4

\* The whole of the invariant, over every step.
LEMMA NextRest == IInv /\ [Next]_vars => Rest'
<1> SUFFICES ASSUME IInv, [Next]_vars PROVE Rest'
  OBVIOUS
<1>1. ASSUME NEW r \in Request, Moves(r) PROVE Rest'
  BY <1>1, RowStatesStep, AccountStep, KnownStep, LinkIsHeldStep, SessionsAreSweptStep,
     LinksAreSweptStep, RefusalsStep, LinksWorkOnceStep, WhatWasGoodStep
  DEF IInv, Rest
<1>2. CASE UNCHANGED <<account, rights, journal, pc, inputs, todo>>
  BY <1>2 DEF IInv, Rest, RowStates, AccountRows, KnownStayKnown, LinkIsHeld,
     SessionsAreSwept, LinksAreSwept, EndedBy, AccountsAreComplete, RefusalsAreOnRecord,
     LinksWorkOnce, WhatWasGoodEnds, Ends, account, rights, journal, inputs
<1> QED
  BY <1>1, <1>2 DEF Next, Moves, RaiseCost, vars

\* The invariant holds of every run.
THEOREM InductiveInvariant == Spec => []IInv
<1>1. Init => IInv
  BY InitBasic, InitRest DEF IInv
<1>2. IInv /\ [Next]_vars => IInv'
  BY NextBasic, NextRest DEF IInv
<1> QED
  BY <1>1, <1>2, PTL DEF Spec

\* However many register the address at once, there is one account, and what
\* anybody sees of it is whole.
THEOREM OneCompleteAccount == Spec => []AccountsAreComplete
<1>1. IInv => AccountsAreComplete
  BY DEF IInv, Rest
<1> QED
  BY <1>1, InductiveInvariant, PTL

\* A login refused or limited is on record, though its transaction is not.
THEOREM RefusalsAreKept == Spec => []RefusalsAreOnRecord
<1>1. IInv => RefusalsAreOnRecord
  BY DEF IInv, Rest
<1> QED
  BY <1>1, InductiveInvariant, PTL

\* However many present a reset link at once, it changes one password.
THEOREM OneResetPerLink == Spec => []LinksWorkOnce
<1>1. IInv => LinksWorkOnce
  BY DEF IInv, Rest
<1> QED
  BY <1>1, InductiveInvariant, PTL

\* What a logout, a change, a reset or a new link was to end is over once it is
\* committed, whoever was using it.
THEOREM NothingGoodIsLeft == Spec => []WhatWasGoodEnds
<1>1. IInv => WhatWasGoodEnds
  BY DEF IInv, Rest
<1> QED
  BY <1>1, InductiveInvariant, PTL
=============================================================================
