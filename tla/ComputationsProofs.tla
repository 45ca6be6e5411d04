------------------------- MODULE ComputationsProofs -------------------------
(***************************************************************************)
(* Theorems about Computations, for every set of requests, datasets and    *)
(* calls.                                                                  *)
(***************************************************************************)
EXTENDS Computations, TLAPS

USE DEF Reader, Request, Tx, Version, Id, Fingerprint, Step, Ended, Running

-----------------------------------------------------------------------------
(* Type correctness, and with it where requests are and how many ids they  *)
(* have drawn: a turn draws no more ids than its loop has rounds.          *)

Basic == TypeOK /\ Places /\ Draws

\* The first state: no request has drawn an id yet.
LEMMA InitBasic == Init => Basic
<1> SUFFICES ASSUME Init PROVE Basic
  OBVIOUS
<1> USE RequestAssumption, CallAssumption, BoundAssumption
<1>1. TypeOK
  BY DEF Init, TypeOK, FingerprintOf
<1>2. Places /\ Draws
  BY DEF Init, Places, Draws
<1> QED
  BY <1>1, <1>2 DEF Basic

\* Rolling back leaves the types alone, whatever request it is.
LEMMA RollbackBasic ==
  ASSUME Basic, NEW r \in Request, Rollback(r) PROVE Basic'
<1> USE RequestAssumption, BoundAssumption DEF Basic, Rollback, Goto, locals, Undone
<1>1. TypeOK'
  BY DEF TypeOK
<1>2. Places'
  BY DEF TypeOK, Places
<1>3. Draws'
  BY DEF TypeOK, Draws
<1> QED
  BY <1>1, <1>2, <1>3

\* Every step keeps types, places and draws.  Only Create draws an id, and it
\* comes after a round the turn has paid for.
LEMMA NextBasic == Basic /\ [Next]_vars => Basic'
<1> SUFFICES ASSUME Basic, [Next]_vars PROVE Basic'
  OBVIOUS
<1> USE RequestAssumption, CallAssumption, BoundAssumption
<1> USE DEF Basic, Goto, rows, store, locals
<1>1. ASSUME NEW r \in Reader, Open(r) PROVE Basic'
  BY <1>1 DEF Open, TypeOK, Places, Draws
<1>2. ASSUME NEW r \in Reader, Bind(r) PROVE Basic'
  <2>1. TypeOK'
    BY <1>2 DEF Bind, TypeOK, FingerprintOf
  <2>2. Places' /\ Draws'
    BY <1>2 DEF Bind, TypeOK, Places, Draws
  <2> QED
    BY <2>1, <2>2
<1>3. ASSUME NEW r \in Reader, Propose(r) PROVE Basic'
  <2>1. TypeOK'
    BY <1>3 DEF Propose, TypeOK, FingerprintOf
  <2>2. Places' /\ Draws'
    BY <1>3 DEF Propose, TypeOK, Places, Draws
  <2> QED
    BY <2>1, <2>2
<1>4. ASSUME NEW r \in Reader, Reject(r) PROVE Basic'
  BY <1>4 DEF Reject, TypeOK, Places, Draws
<1>5. ASSUME NEW r \in Reader, Close(r) PROVE Basic'
  BY <1>5 DEF Close, TypeOK, Places, Draws
<1>6. ASSUME NEW r \in Reader, Resolve(r) PROVE Basic'
  BY <1>6 DEF Resolve, Declined, TypeOK, Places, Draws
<1>7. ASSUME NEW r \in Reader, FindHit(r) PROVE Basic'
  <2>1. TypeOK'
    BY <1>7 DEF FindHit, AfterRun, Found, Visible, TypeOK
  <2>2. Places' /\ Draws'
    BY <1>7 DEF FindHit, AfterRun, TypeOK, Places, Draws
  <2> QED
    BY <2>1, <2>2
<1>8. ASSUME NEW r \in Reader, FindMiss(r) PROVE Basic'
  BY <1>8 DEF FindMiss, Declined, TypeOK, Places, Draws
<1>9. ASSUME NEW r \in Reader, Ensure(r) PROVE Basic'
  BY <1>9 DEF Ensure, TypeOK, Places, Draws
<1>10. ASSUME NEW r \in Reader, Create(r) PROVE Basic'
  <2>1. minted[r] + 1 \in 1..MaxSteps
    BY <1>10 DEF Create, TypeOK, Places, Draws
  <2>2. TypeOK'
    BY <1>10, <2>1 DEF Create, AfterRun, TypeOK
  <2>3. Places'
    BY <1>10 DEF Create, AfterRun, TypeOK, Places
  <2>4. Draws'
    BY <1>10, <2>1 DEF Create, AfterRun, TypeOK, Draws
  <2> QED
    BY <2>2, <2>3, <2>4
<1>11. ASSUME NEW r \in Reader, Record(r) PROVE Basic'
  BY <1>11 DEF Record, TypeOK, Places, Draws
<1>12. ASSUME NEW r \in Reader, Reply(r) PROVE Basic'
  BY <1>12 DEF Reply, TypeOK, Places, Draws
<1>13. ASSUME NEW r \in Reader, Commit(r) PROVE Basic'
  <2>1. TypeOK'
    <3>1. computation' \subseteq [id: Id, fp: Fingerprint, tx: Tx]
      BY <1>13 DEF Commit, Settled, TypeOK, Tx
    <3>2. toolVersion' \subseteq [tool: Tool, tx: Tx]
      BY <1>13 DEF Commit, Settled, TypeOK, Tx
    <3>3. conversation' \subseteq [turn: Ask, dataset: Dataset, version: Version,
                                   steps: SUBSET Step, tx: Tx]
      BY <1>13 DEF Commit, Settled, TypeOK, Tx
    <3>4. pc' \in [Request -> {"idle"} \cup Running \cup Ended]
      BY <1>13 DEF Commit, TypeOK, Ended
    <3> QED
      BY <1>13, <3>1, <3>2, <3>3, <3>4 DEF Commit, TypeOK
  <2>2. Places' /\ Draws'
    BY <1>13 DEF Commit, Settled, TypeOK, Places, Draws
  <2> QED
    BY <2>1, <2>2
<1>14. ASSUME NEW r \in Reader, Orphaned(r) PROVE Basic'
  BY <1>14, RollbackBasic DEF Orphaned
<1>15. ASSUME NEW r \in Reader, ReadFails(r) PROVE Basic'
  BY <1>15, RollbackBasic DEF ReadFails
<1>16. ASSUME NEW r \in Delete, DiscardBytes(r) PROVE Basic'
  BY <1>16 DEF DiscardBytes, TypeOK, Places, Draws
<1>17. ASSUME NEW r \in Delete, DeleteRow(r) PROVE Basic'
  BY <1>17 DEF DeleteRow, TypeOK, Places, Draws
<1>18. ASSUME NEW r \in Delete, CommitDelete(r) PROVE Basic'
  BY <1>18 DEF CommitDelete, TypeOK, Places, Draws
<1>19. ASSUME NEW r \in Request, Lost(r) \/ DeadlockAbort(r) PROVE Basic'
  BY <1>19, RollbackBasic DEF Lost, DeadlockAbort
<1>20. ASSUME NEW d \in Dataset, OverrideSchema(d) PROVE Basic'
  BY <1>20 DEF OverrideSchema, TypeOK, Places, Draws
<1>21. ASSUME NEW e \in conversation, Forget(e) PROVE Basic'
  BY <1>21 DEF Forget, TypeOK, Places, Draws
<1>22. CASE UNCHANGED vars
  BY <1>22 DEF vars, TypeOK, Places, Draws
<1> QED
  BY <1>1, <1>2, <1>3, <1>4, <1>5, <1>6, <1>7, <1>8, <1>9, <1>10, <1>11,
     <1>12, <1>13, <1>14, <1>15, <1>16, <1>17, <1>18, <1>19, <1>20, <1>21,
     <1>22 DEF Next, ReaderStep, DeleteStep

\* Rows, locks and every request's locals keep their shape, whatever the
\* requests and however they interleave: in particular no turn runs more than
\* MAX_STEPS rounds or draws more ids than it has rounds.
THEOREM TypeCorrect == Spec => []TypeOK
<1>1. Spec => []Basic
  BY InitBasic, NextBasic, PTL DEF Spec
<1>2. Basic => TypeOK
  BY DEF Basic
<1> QED
  BY <1>1, <1>2, PTL

-----------------------------------------------------------------------------
(* The inductive invariant.  The steps that write no row come first, then  *)
(* the ones that insert, commit, roll back and delete.                     *)

Rest ==
    /\ OwnDataset /\ OneAnswerPerQuestion /\ NothingOutlivesItsDataset
    /\ DeletionIsExclusive /\ DeletedOnce /\ ParentFound /\ ParentsAreStored
    /\ StepsAreKept /\ CitedAnswersAreKept

\* Nothing is stored or in flight at first.
LEMMA InitRest == Init => Rest
<1> SUFFICES ASSUME Init PROVE Rest
  OBVIOUS
<1>1. OwnDataset
  BY RequestAssumption DEF Init, OwnDataset, FingerprintOf
<1>2. OneAnswerPerQuestion /\ NothingOutlivesItsDataset /\ DeletedOnce
  BY DEF Init, OneAnswerPerQuestion, NothingOutlivesItsDataset, DeletedOnce
<1>3. DeletionIsExclusive
  BY DEF Init, DeletionIsExclusive
<1>4. ParentFound /\ ParentsAreStored /\ StepsAreKept /\ CitedAnswersAreKept
  BY DEF Init, ParentFound, ParentsAreStored, StepsAreKept, CitedAnswersAreKept
<1> QED
  BY <1>1, <1>2, <1>3, <1>4 DEF Rest

\* A step that leaves the rows, the datasets and the locks alone keeps what is
\* said about them only.
LEMMA QuietStep ==
  ASSUME Rest, UNCHANGED <<computation, conversation, dataset, deleting, audit>>
  PROVE  /\ OneAnswerPerQuestion' /\ NothingOutlivesItsDataset'
         /\ DeletedOnce' /\ ParentsAreStored' /\ CitedAnswersAreKept'
BY DEF Rest, OneAnswerPerQuestion, NothingOutlivesItsDataset, DeletedOnce,
       ParentsAreStored, CitedAnswersAreKept

\* A reader that moves without changing its question or its answers disturbs
\* nothing, unless it comes to look up a table nobody found for it.
LEMMA ReaderMoves ==
  ASSUME Basic, Rest, NEW r \in Reader, NEW label, Goto(r, label),
         UNCHANGED <<computation, conversation, dataset, deleting, audit,
                     target, fp, steps>>,
         label \in {"find", "ensure", "create"} =>
             \/ pc[r] \in {"find", "ensure", "create"}
             \/ \E p \in Within(r, fp[r].table, target[r]) : p.fp.call \in TableCall,
         pc[r] \in {"idle"} \cup Running
  PROVE  Rest'
<1> USE RequestAssumption DEF Rest, Basic, Goto
<1>1. OwnDataset'
  BY DEF OwnDataset
<1>2. DeletionIsExclusive'
  BY DEF DeletionIsExclusive, TypeOK
<1>3. ParentFound'
  BY DEF ParentFound, Within, Visible, TypeOK
<1>4. StepsAreKept'
  BY DEF StepsAreKept, Found, Visible, TypeOK
<1> QED
  BY <1>1, <1>2, <1>3, <1>4, QuietStep

\* A reader that asks a new question asks it of its dataset, and of the
\* dataset itself unless it goes to resolve the table first.
LEMMA ReaderAsks ==
  ASSUME Basic, Rest, NEW r \in Reader, NEW label, Goto(r, label),
         NEW f, fp' = [fp EXCEPT ![r] = f], f.dataset = target[r],
         UNCHANGED <<computation, conversation, dataset, deleting, audit,
                     target, steps>>,
         label \in {"find", "ensure", "create"} => f.table = Base,
         pc[r] \in {"idle"} \cup Running
  PROVE  Rest'
<1> USE RequestAssumption DEF Rest, Basic, Goto
<1>1. OwnDataset'
  BY DEF OwnDataset, TypeOK
<1>2. DeletionIsExclusive'
  BY DEF DeletionIsExclusive, TypeOK
<1>3. ParentFound'
  BY DEF ParentFound, Within, Visible, TypeOK
<1>4. StepsAreKept'
  BY DEF StepsAreKept, Found, Visible, TypeOK
<1> QED
  BY <1>1, <1>2, <1>3, <1>4, QuietStep

\* A hit adds the answer it found, and finding it again is what is asked.
LEMMA HitKeeps == ASSUME Basic, Rest, NEW r \in Reader, FindHit(r) PROVE Rest'
<1> USE RequestAssumption DEF Rest, Basic, Goto, FindHit, AfterRun, rows, store
<1>1. PICK c \in Found(r, fp[r]) :
        steps' = [steps EXCEPT ![r] = @ \cup {[ref |-> c.id, fp |-> c.fp]}]
  OBVIOUS
<1>2. c \in computation /\ c.fp = fp[r] /\ c.tx \in {r, Committed}
  BY <1>1 DEF Found, Visible
<1>3. OwnDataset'
  BY <1>1, <1>2 DEF OwnDataset, TypeOK
<1>4. DeletionIsExclusive'
  BY DEF DeletionIsExclusive, TypeOK
<1>5. ParentFound'
  BY DEF ParentFound, Within, Visible, TypeOK
<1>6. StepsAreKept'
  BY <1>1, <1>2 DEF StepsAreKept, Found, Visible, TypeOK
<1> QED
  BY <1>3, <1>4, <1>5, <1>6, QuietStep

\* The loser of a race inserts nothing, but what it shows is the answer to a
\* question whose answer is there.
LEMMA LoserKeeps ==
  ASSUME Basic, Rest, NEW r \in Reader, Create(r), Found(r, fp[r]) # {} PROVE Rest'
<1> USE RequestAssumption DEF Rest, Basic, Goto, Create, AfterRun, store
<1>1. OwnDataset'
  BY DEF OwnDataset, TypeOK
<1>2. DeletionIsExclusive'
  BY DEF DeletionIsExclusive, TypeOK
<1>3. ParentFound'
  BY DEF ParentFound, Within, Visible, TypeOK
<1>4. StepsAreKept'
  BY DEF StepsAreKept, Found, Visible, TypeOK
<1> QED
  BY <1>1, <1>2, <1>3, <1>4, QuietStep

\* The winner inserts the only row with this fingerprint and this id: whoever
\* else had one would be waited for or found, and ids are drawn once.
LEMMA WinnerKeeps ==
  ASSUME Basic, Rest, NEW r \in Reader, Create(r), Found(r, fp[r]) = {} PROVE Rest'
<1> USE RequestAssumption, BoundAssumption DEF Rest, Basic
<1> DEFINE new == [id |-> <<r, minted[r] + 1>>, fp |-> fp[r], tx |-> r]
<1>1. /\ computation' = computation \cup {new}
      /\ steps' = [steps EXCEPT ![r] = @ \cup {[ref |-> new.id, fp |-> fp[r]]}]
      /\ pc' = [pc EXCEPT ![r] = AfterRun(r)]
      /\ target[r] \in dataset /\ pc[r] = "create"
      /\ UNCHANGED <<conversation, dataset, deleting, audit, target, fp>>
  BY DEF Create, Goto, store
<1>2. \A c \in computation : c.fp # fp[r]
  <2> SUFFICES ASSUME NEW c \in computation, c.fp = fp[r] PROVE FALSE
    OBVIOUS
  <2>1. c.tx \notin {r, Committed}
    BY DEF Found, Visible
  <2>2. c.tx \in Request \ {r}
    BY <2>1 DEF TypeOK
  <2>3. c.tx \in Blockers(r)
    BY <1>1, <2>2 DEF Blockers, WaitsForInsert
  <2> QED
    BY <2>3 DEF Create
<1>3. \A c \in computation : c.id # new.id
  <2> SUFFICES ASSUME NEW c \in computation, c.id = new.id PROVE FALSE
    OBVIOUS
  <2>1. c.id[1] = r /\ c.id[2] = minted[r] + 1
    OBVIOUS
  <2>2. minted[r] + 1 <= minted[r]
    BY <2>1 DEF Draws
  <2> QED
    BY <2>2 DEF TypeOK
<1>4. OneAnswerPerQuestion'
  BY <1>1, <1>2, <1>3 DEF OneAnswerPerQuestion
<1>5. OwnDataset' /\ NothingOutlivesItsDataset'
  BY <1>1 DEF OwnDataset, NothingOutlivesItsDataset, TypeOK
<1>6. \A x \in deleting : x[1] # target[r]
  <2> SUFFICES ASSUME NEW x \in deleting, x[1] = target[r] PROVE FALSE
    OBVIOUS
  <2>1. x = <<target[r], x[2]>> /\ x[2] \in Request \ {r}
    BY DEF TypeOK
  <2>2. x[2] \in Blockers(r)
    BY <1>1, <2>1 DEF Blockers, WaitsForDelete
  <2> QED
    BY <2>2 DEF Create
<1>7. DeletionIsExclusive'
  BY <1>1, <1>6 DEF DeletionIsExclusive, OwnDataset, TypeOK
<1>8. DeletedOnce'
  BY <1>1 DEF DeletedOnce
<1>9. ParentFound'
  BY <1>1 DEF ParentFound, Within, Visible, AfterRun, TypeOK
<1>10. ParentsAreStored'
  <2> SUFFICES ASSUME NEW c \in computation', c.fp.table # Base
               PROVE  \E p \in computation' :
                        /\ p.id = c.fp.table /\ p.fp.dataset = c.fp.dataset
                        /\ p.fp.call \in TableCall /\ p.tx \in {c.tx, Committed}
    BY <1>1 DEF ParentsAreStored
  <2>1. CASE c \in computation
    BY <1>1, <2>1 DEF ParentsAreStored
  <2>2. CASE c = new
    BY <1>1, <2>2 DEF ParentFound, Within, Visible, OwnDataset
  <2> QED
    BY <1>1, <2>1, <2>2
<1>11. StepsAreKept'
  <2> SUFFICES ASSUME NEW q \in Reader, pc'[q] \in {"idle"} \cup Running,
                      target[q] \in dataset, NEW s \in steps'[q]
               PROVE  \E c \in computation' : c.tx \in {q, Committed} /\ c.fp = s.fp
    BY <1>1 DEF StepsAreKept, Found, Visible
  <2>1. CASE s \in steps[q]
    <3>1. pc[q] \in {"idle"} \cup Running
      BY <1>1 DEF TypeOK
    <3> QED
      BY <1>1, <2>1, <3>1 DEF StepsAreKept, Found, Visible
  <2>2. CASE s \notin steps[q]
    <3>1. q = r /\ s.fp = fp[r]
      BY <1>1, <2>2 DEF TypeOK
    <3>2. new \in computation' /\ new.fp = fp[r] /\ new.tx = r
      BY <1>1
    <3> QED
      BY <3>1, <3>2
  <2> QED
    BY <2>1, <2>2
<1>12. CitedAnswersAreKept'
  BY <1>1 DEF CitedAnswersAreKept
<1> QED
  BY <1>4, <1>5, <1>7, <1>8, <1>9, <1>10, <1>11, <1>12

\* A turn is logged while its dataset's row is there and not being deleted,
\* and its steps are what the turn could still see.
LEMMA RecordKeeps == ASSUME Basic, Rest, NEW r \in Reader, Record(r) PROVE Rest'
<1> USE RequestAssumption DEF Rest, Basic
<1> DEFINE e == [turn |-> r, dataset |-> target[r], version |-> bound[r],
                 steps |-> steps[r], tx |-> r]
<1>1. /\ conversation' = conversation \cup {e} /\ pc' = [pc EXCEPT ![r] = "sent"]
      /\ target[r] \in dataset /\ pc[r] = "record"
      /\ UNCHANGED <<computation, dataset, deleting, audit, target, fp, steps>>
  BY DEF Record, Goto, store, locals
<1>2. \A x \in deleting : x[1] # target[r]
  <2> SUFFICES ASSUME NEW x \in deleting, x[1] = target[r] PROVE FALSE
    OBVIOUS
  <2>1. x = <<target[r], x[2]>> /\ x[2] \in Request \ {r}
    BY DEF TypeOK
  <2>2. x[2] \in Blockers(r)
    BY <1>1, <2>1 DEF Blockers, WaitsForDelete
  <2> QED
    BY <2>2 DEF Record
<1>3. OwnDataset' /\ NothingOutlivesItsDataset'
  BY <1>1 DEF OwnDataset, NothingOutlivesItsDataset
<1>4. DeletionIsExclusive'
  BY <1>1, <1>2 DEF DeletionIsExclusive, TypeOK
<1>5. OneAnswerPerQuestion' /\ DeletedOnce' /\ ParentsAreStored'
  BY <1>1 DEF OneAnswerPerQuestion, DeletedOnce, ParentsAreStored
<1>6. ParentFound'
  BY <1>1 DEF ParentFound, Within, Visible, TypeOK
<1>7. StepsAreKept'
  BY <1>1 DEF StepsAreKept, Found, Visible, TypeOK
<1>8. CitedAnswersAreKept'
  <2>1. \A s \in steps[r] : \E c \in computation : c.fp = s.fp /\ c.tx \in {r, Committed}
    BY <1>1 DEF StepsAreKept, Found, Visible
  <2> QED
    BY <1>1, <2>1 DEF CitedAnswersAreKept
<1> QED
  BY <1>3, <1>4, <1>5, <1>6, <1>7, <1>8

\* A commit gives a reader's rows to everybody; whoever saw a row still does.
LEMMA CommitKeeps == ASSUME Basic, Rest, NEW r \in Reader, Commit(r) PROVE Rest'
<1> USE RequestAssumption DEF Rest, Basic
<1>1. /\ computation' = Settled(computation, r)
      /\ conversation' = Settled(conversation, r)
      /\ pc' = [pc EXCEPT ![r] = "done"]
      /\ UNCHANGED <<dataset, deleting, audit, target, fp, steps>>
  BY DEF Commit, Goto, store, locals
<1>2. \A c \in computation' : \E b \in computation :
        /\ c.id = b.id /\ c.fp = b.fp
        /\ c.tx = IF b.tx = r THEN Committed ELSE b.tx
        /\ c = [b EXCEPT !.tx = c.tx]
  BY <1>1 DEF Settled, TypeOK
<1>3. \A b \in computation : \E c \in computation' :
        /\ c.id = b.id /\ c.fp = b.fp
        /\ c.tx = IF b.tx = r THEN Committed ELSE b.tx
  <2> SUFFICES ASSUME NEW b \in computation
               PROVE  \E c \in computation' :
                        /\ c.id = b.id /\ c.fp = b.fp
                        /\ c.tx = IF b.tx = r THEN Committed ELSE b.tx
    OBVIOUS
  <2>1. CASE b.tx # r
    BY <1>1, <2>1 DEF Settled
  <2>2. CASE b.tx = r
    <3> DEFINE c == [b EXCEPT !.tx = Committed]
    <3>1. c \in computation'
      BY <1>1, <2>2 DEF Settled
    <3>2. c.id = b.id /\ c.fp = b.fp /\ c.tx = Committed
      BY DEF TypeOK
    <3> QED
      BY <2>2, <3>1, <3>2
  <2> QED
    BY <2>1, <2>2
<1>4. \A e \in conversation' : \E b \in conversation :
        /\ e.dataset = b.dataset /\ e.steps = b.steps
        /\ e.tx = IF b.tx = r THEN Committed ELSE b.tx
  BY <1>1 DEF Settled, TypeOK
<1>5. OneAnswerPerQuestion'
  BY <1>2 DEF OneAnswerPerQuestion
<1>6. OwnDataset' /\ NothingOutlivesItsDataset'
  BY <1>1, <1>2, <1>4 DEF OwnDataset, NothingOutlivesItsDataset
<1>7. DeletionIsExclusive'
  BY <1>1, <1>2, <1>4 DEF DeletionIsExclusive, TypeOK
<1>8. DeletedOnce'
  BY <1>1 DEF DeletedOnce
<1>9. ParentFound'
  <2> SUFFICES ASSUME NEW q \in Reader, pc'[q] \in {"find", "ensure", "create"},
                      fp[q].table # Base, target[q] \in dataset
               PROVE  \E p \in computation' :
                        /\ p.tx \in {q, Committed} /\ p.id = fp[q].table
                        /\ p.fp.dataset = target[q] /\ p.fp.call \in TableCall
    BY <1>1 DEF ParentFound, Within, Visible
  <2>1. q # r /\ pc[q] \in {"find", "ensure", "create"}
    BY <1>1 DEF TypeOK
  <2> QED
    BY <1>3, <2>1 DEF ParentFound, Within, Visible
<1>10. ParentsAreStored'
  <2> SUFFICES ASSUME NEW c \in computation', c.fp.table # Base
               PROVE  \E p \in computation' :
                        /\ p.id = c.fp.table /\ p.fp.dataset = c.fp.dataset
                        /\ p.fp.call \in TableCall /\ p.tx \in {c.tx, Committed}
    BY DEF ParentsAreStored
  <2>1. PICK b \in computation :
          /\ c.fp = b.fp /\ c.tx = IF b.tx = r THEN Committed ELSE b.tx
    BY <1>2
  <2>2. PICK p \in computation :
          /\ p.id = c.fp.table /\ p.fp.dataset = c.fp.dataset
          /\ p.fp.call \in TableCall /\ p.tx \in {b.tx, Committed}
    BY <2>1 DEF ParentsAreStored
  <2> QED
    BY <1>3, <2>1, <2>2
<1>11. StepsAreKept'
  <2> SUFFICES ASSUME NEW q \in Reader, pc'[q] \in {"idle"} \cup Running,
                      target[q] \in dataset, NEW s \in steps[q]
               PROVE  \E c \in computation' : c.tx \in {q, Committed} /\ c.fp = s.fp
    BY <1>1 DEF StepsAreKept, Found, Visible
  <2>1. q # r /\ pc[q] \in {"idle"} \cup Running
    BY <1>1 DEF TypeOK
  <2> QED
    BY <1>3, <2>1 DEF StepsAreKept, Found, Visible
<1>12. CitedAnswersAreKept'
  <2> SUFFICES ASSUME NEW e \in conversation', NEW s \in e.steps
               PROVE  \E c \in computation' : c.fp = s.fp /\ c.tx \in {e.tx, Committed}
    BY DEF CitedAnswersAreKept
  <2>1. PICK b \in conversation :
          /\ e.steps = b.steps /\ e.tx = IF b.tx = r THEN Committed ELSE b.tx
    BY <1>4
  <2>2. PICK c \in computation : c.fp = s.fp /\ c.tx \in {b.tx, Committed}
    BY <2>1 DEF CitedAnswersAreKept
  <2> QED
    BY <1>3, <2>1, <2>2
<1> QED
  BY <1>5, <1>6, <1>7, <1>8, <1>9, <1>10, <1>11, <1>12

\* What a rollback takes away nobody else could see.
LEMMA RollbackKeeps == ASSUME Basic, Rest, NEW r \in Request, Rollback(r) PROVE Rest'
<1> USE RequestAssumption DEF Rest, Basic
<1>1. /\ computation' = {c \in computation : c.tx # r}
      /\ conversation' = {e \in conversation : e.tx # r}
      /\ deleting' = {x \in deleting : x[2] # r}
      /\ pc' = [pc EXCEPT ![r] = "failed"]
      /\ UNCHANGED <<dataset, audit, target, fp, steps>>
  BY DEF Rollback, Undone, Goto, locals
<1>2. Committed # r
  OBVIOUS
<1>3. /\ OwnDataset' /\ OneAnswerPerQuestion' /\ NothingOutlivesItsDataset'
      /\ DeletedOnce'
  BY <1>1 DEF OwnDataset, OneAnswerPerQuestion, NothingOutlivesItsDataset, DeletedOnce
<1>4. DeletionIsExclusive'
  BY <1>1 DEF DeletionIsExclusive, TypeOK
<1>5. ParentsAreStored' /\ CitedAnswersAreKept'
  BY <1>1, <1>2 DEF ParentsAreStored, CitedAnswersAreKept
<1>6. ParentFound'
  BY <1>1, <1>2 DEF ParentFound, Within, Visible, TypeOK
<1>7. StepsAreKept'
  BY <1>1, <1>2 DEF StepsAreKept, Found, Visible, TypeOK
<1> QED
  BY <1>3, <1>4, <1>5, <1>6, <1>7

\* A delete request that only moves, and does not hold a row yet.
LEMMA DiscardKeeps == ASSUME Basic, Rest, NEW r \in Delete, DiscardBytes(r) PROVE Rest'
<1> USE RequestAssumption DEF Rest, Basic, DiscardBytes, Goto, rows, locals
<1>1. OwnDataset'
  BY DEF OwnDataset
<1>2. DeletionIsExclusive'
  BY DEF DeletionIsExclusive, TypeOK
<1>3. ParentFound'
  BY DEF ParentFound, Within, Visible, TypeOK
<1>4. StepsAreKept'
  BY DEF StepsAreKept, Found, Visible, TypeOK
<1> QED
  BY <1>1, <1>2, <1>3, <1>4, QuietStep

\* The row is deleted when nobody holds it, so everything that refers to it
\* is committed.
LEMMA DeleteRowKeeps == ASSUME Basic, Rest, NEW r \in Delete, DeleteRow(r) PROVE Rest'
<1> USE RequestAssumption DEF Rest, Basic
<1>1. /\ pc[r] = "delete" /\ Blockers(r) = {}
      /\ UNCHANGED <<computation, conversation, dataset, audit, target, fp, steps>>
      /\ \/ /\ target[r] \in dataset
            /\ deleting' = deleting \cup {<<target[r], r>>}
            /\ pc' = [pc EXCEPT ![r] = "sent"]
         \/ /\ deleting' = deleting
            /\ pc' = [pc EXCEPT ![r] = "refused"]
  BY DEF DeleteRow, Goto, rows, locals
<1>2. \A t \in Request \ {r} :
        ~HoldsKeyShare(t, target[r]) /\ <<target[r], t>> \notin deleting
  BY <1>1 DEF Blockers, WaitsForRow
<1>3. \A x \in deleting : x[1] # target[r]
  BY <1>1, <1>2 DEF DeletionIsExclusive, TypeOK
<1>4. /\ \A c \in computation  : c.fp.dataset = target[r] => c.tx = Committed
      /\ \A e \in conversation : e.dataset = target[r] => e.tx = Committed
  BY <1>2 DEF HoldsKeyShare, TypeOK
<1>5. DeletionIsExclusive'
  <2>1. CASE deleting' = deleting /\ pc' = [pc EXCEPT ![r] = "refused"]
    BY <1>1, <2>1 DEF DeletionIsExclusive, TypeOK
  <2>2. CASE /\ target[r] \in dataset
             /\ deleting' = deleting \cup {<<target[r], r>>}
             /\ pc' = [pc EXCEPT ![r] = "sent"]
    <3>1. \A x \in deleting' : x \in deleting \/ x = <<target[r], r>>
      BY <2>2
    <3>2. \A x \in deleting' :
             /\ x[1] = target'[x[2]] /\ pc'[x[2]] = "sent" /\ x[1] \in dataset'
             /\ \A c \in computation'  : c.fp.dataset = x[1] => c.tx = Committed
             /\ \A e \in conversation' : e.dataset = x[1] => e.tx = Committed
      BY <1>1, <1>4, <2>2, <3>1 DEF DeletionIsExclusive, TypeOK
    <3>3. \A x, y \in deleting' : x[1] = y[1] => x = y
      BY <1>3, <3>1 DEF DeletionIsExclusive
    <3>4. \A q \in Delete : pc'[q] = "sent" => <<target'[q], q>> \in deleting'
      BY <1>1, <2>2 DEF DeletionIsExclusive, TypeOK
    <3> QED
      BY <1>1, <3>2, <3>3, <3>4 DEF DeletionIsExclusive
  <2> QED
    BY <1>1, <2>1, <2>2
<1>6. /\ OwnDataset' /\ OneAnswerPerQuestion' /\ NothingOutlivesItsDataset'
      /\ DeletedOnce' /\ ParentsAreStored' /\ CitedAnswersAreKept'
  BY <1>1 DEF OwnDataset, OneAnswerPerQuestion, NothingOutlivesItsDataset,
              DeletedOnce, ParentsAreStored, CitedAnswersAreKept
<1>7. ParentFound'
  BY <1>1 DEF ParentFound, Within, Visible, TypeOK
<1>8. StepsAreKept'
  BY <1>1 DEF StepsAreKept, Found, Visible, TypeOK
<1> QED
  BY <1>5, <1>6, <1>7, <1>8

\* A deletion takes what belongs to its dataset, and only that: nobody else
\* held the row, and chains and citations stay inside one dataset.
LEMMA CommitDeleteKeeps ==
  ASSUME Basic, Rest, NEW r \in Delete, CommitDelete(r)
  PROVE  /\ computation' = {c \in computation : c.fp.dataset # target[r]}
         /\ Rest'
<1> USE RequestAssumption DEF Rest, Basic
<1>0. /\ \A c \in computation  : c.fp.dataset = target[r] => c.tx = Committed
      /\ \A e \in conversation : e.dataset = target[r] => e.tx = Committed
  BY DEF CommitDelete, DeletionIsExclusive
<1>1. /\ pc[r] = "sent" /\ pc' = [pc EXCEPT ![r] = "done"]
      /\ dataset' = dataset \ {target[r]}
      /\ computation' = {c \in computation : c.fp.dataset # target[r]}
      /\ conversation' = {e \in conversation : e.dataset # target[r]}
      /\ deleting' = deleting \ {<<target[r], r>>}
      /\ audit' = audit \cup {<<target[r], r>>}
      /\ UNCHANGED <<target, fp, steps>>
  BY <1>0 DEF CommitDelete, Goto, locals
<1>2. <<target[r], r>> \in deleting /\ target[r] \in dataset
  BY <1>1 DEF DeletionIsExclusive
<1>3. OwnDataset' /\ OneAnswerPerQuestion' /\ NothingOutlivesItsDataset'
  BY <1>1 DEF OwnDataset, OneAnswerPerQuestion, NothingOutlivesItsDataset
<1>4. DeletedOnce'
  BY <1>1, <1>2 DEF DeletedOnce, DeletionIsExclusive
<1>5. DeletionIsExclusive'
  <2>1. \A x \in deleting' : x \in deleting /\ x[1] # target[r] /\ x[2] # r
    BY <1>1, <1>2 DEF DeletionIsExclusive, TypeOK
  <2>2. \A x \in deleting' :
           /\ x[1] = target'[x[2]] /\ pc'[x[2]] = "sent" /\ x[1] \in dataset'
           /\ \A c \in computation'  : c.fp.dataset = x[1] => c.tx = Committed
           /\ \A e \in conversation' : e.dataset = x[1] => e.tx = Committed
    BY <1>1, <2>1 DEF DeletionIsExclusive, TypeOK
  <2>3. \A x, y \in deleting' : x[1] = y[1] => x = y
    BY <2>1 DEF DeletionIsExclusive
  <2>4. \A q \in Delete : pc'[q] = "sent" => <<target'[q], q>> \in deleting'
    BY <1>1 DEF DeletionIsExclusive, TypeOK
  <2>5. \A x \in audit' : x[1] \notin dataset'
    BY <1>1 DEF DeletionIsExclusive
  <2> QED
    BY <2>2, <2>3, <2>4, <2>5 DEF DeletionIsExclusive
<1>6. ParentsAreStored' /\ CitedAnswersAreKept'
  BY <1>1 DEF ParentsAreStored, CitedAnswersAreKept, OwnDataset
<1>7. ParentFound'
  BY <1>1 DEF ParentFound, Within, Visible, TypeOK
<1>8. StepsAreKept'
  BY <1>1 DEF StepsAreKept, OwnDataset, Found, Visible, TypeOK
<1> QED
  BY <1>1, <1>3, <1>4, <1>5, <1>6, <1>7, <1>8

\* Every step keeps the invariant.
LEMMA NextRest == Basic /\ Rest /\ [Next]_vars => Rest'
<1> SUFFICES ASSUME Basic, Rest, [Next]_vars PROVE Rest'
  OBVIOUS
<1>1. ASSUME NEW r \in Reader, Open(r) PROVE Rest'
  BY <1>1, ReaderMoves DEF Open, rows, store, locals
<1>2. ASSUME NEW r \in Reader, Bind(r) PROVE Rest'
  <2> DEFINE f == FingerprintOf(ProfileCall, target[r], version[target[r]], Base)
  <2>1. /\ pc[r] = "opened" /\ f.dataset = target[r] /\ f.table = Base
        /\ UNCHANGED <<computation, conversation, dataset, deleting, audit,
                       target, steps>>
    BY <1>2 DEF Bind, FingerprintOf, rows, store
  <2>2. CASE Goto(r, "refused") /\ fp' = fp
    BY <2>1, <2>2, ReaderMoves
  <2>3. CASE /\ fp' = [fp EXCEPT ![r] = f]
             /\ Goto(r, IF r \in Ask THEN "turn" ELSE "find")
    BY <2>1, <2>3, ReaderAsks
  <2> QED
    BY <1>2, <2>2, <2>3 DEF Bind
<1>3. ASSUME NEW r \in Reader, Propose(r) PROVE Rest'
  <2>1. PICK c \in Call, t \in Id \cup {Base} :
          /\ fp' = [fp EXCEPT ![r] = FingerprintOf(c, target[r], bound[r], t)]
          /\ Goto(r, IF t = Base THEN "find" ELSE "resolve")
    BY <1>3 DEF Propose
  <2> DEFINE f == FingerprintOf(c, target[r], bound[r], t)
  <2>2. /\ pc[r] = "turn" /\ f.dataset = target[r] /\ f.table = t
        /\ UNCHANGED <<computation, conversation, dataset, deleting, audit,
                       target, steps>>
    BY <1>3 DEF Propose, FingerprintOf, rows, store
  <2>3. fp' = [fp EXCEPT ![r] = f]
    BY <2>1
  <2>4. CASE t = Base
    <3>1. Goto(r, "find")
      BY <2>1, <2>4
    <3> HIDE DEF f
    <3> QED
      BY <2>2, <2>3, <2>4, <3>1, ReaderAsks
  <2>5. CASE t # Base
    <3>1. Goto(r, "resolve")
      BY <2>1, <2>5
    <3>2. "resolve" \notin {"find", "ensure", "create"}
      OBVIOUS
    <3> HIDE DEF f
    <3> QED
      BY <2>2, <2>3, <3>1, <3>2, ReaderAsks
  <2> QED
    BY <2>4, <2>5
<1>4. ASSUME NEW r \in Reader, Reject(r) PROVE Rest'
  <2>1. UNCHANGED <<computation, conversation, dataset, deleting, audit, pc,
                    target, fp, steps>>
    BY <1>4 DEF Reject, rows, store
  <2> QED
    BY <2>1, QuietStep DEF Rest, OwnDataset, DeletionIsExclusive, ParentFound,
                           StepsAreKept, Within, Found, Visible
<1>5. ASSUME NEW r \in Reader, Close(r) PROVE Rest'
  BY <1>5, ReaderMoves DEF Close, rows, store, locals
<1>6. ASSUME NEW r \in Reader, Resolve(r) PROVE Rest'
  BY <1>6, ReaderMoves DEF Resolve, Declined, rows, store, locals
<1>7. ASSUME NEW r \in Reader, FindMiss(r) PROVE Rest'
  BY <1>7, ReaderMoves DEF FindMiss, Declined, rows, store, locals
<1>8. ASSUME NEW r \in Reader, Ensure(r) PROVE Rest'
  BY <1>8, ReaderMoves DEF Ensure, store, locals
<1>9. ASSUME NEW r \in Reader, Create(r) PROVE Rest'
  BY <1>9, LoserKeeps, WinnerKeeps
<1>10. ASSUME NEW r \in Reader, Reply(r) PROVE Rest'
  BY <1>10, ReaderMoves DEF Reply, rows, store, locals
<1>11. ASSUME NEW r \in Reader, Orphaned(r) \/ ReadFails(r) PROVE Rest'
  BY <1>11, RollbackKeeps DEF Orphaned, ReadFails
<1>12. ASSUME NEW r \in Request, Lost(r) \/ DeadlockAbort(r) PROVE Rest'
  BY <1>12, RollbackKeeps DEF Lost, DeadlockAbort
<1>13. ASSUME NEW d \in Dataset, OverrideSchema(d) PROVE Rest'
  <2>1. UNCHANGED <<computation, conversation, dataset, deleting, audit, pc,
                    target, fp, steps>>
    BY <1>13 DEF OverrideSchema, rows, locals
  <2> QED
    BY <2>1, QuietStep DEF Rest, OwnDataset, DeletionIsExclusive, ParentFound,
                           StepsAreKept, Within, Found, Visible
<1>14. ASSUME NEW e \in conversation, Forget(e) PROVE Rest'
  <2>1. /\ conversation' \subseteq conversation
        /\ UNCHANGED <<computation, dataset, deleting, audit, pc, target, fp, steps>>
    BY <1>14 DEF Forget, store, locals
  <2> QED
    BY <2>1 DEF Rest, OwnDataset, OneAnswerPerQuestion, NothingOutlivesItsDataset,
                DeletionIsExclusive, DeletedOnce, ParentFound, ParentsAreStored,
                StepsAreKept, CitedAnswersAreKept, Within, Found, Visible
<1>15. CASE UNCHANGED vars
  <2>1. UNCHANGED <<computation, conversation, dataset, deleting, audit, pc,
                    target, fp, steps>>
    BY <1>15 DEF vars, rows, store, locals
  <2> QED
    BY <2>1, QuietStep DEF Rest, OwnDataset, DeletionIsExclusive, ParentFound,
                           StepsAreKept, Within, Found, Visible
<1> QED
  BY <1>1, <1>2, <1>3, <1>4, <1>5, <1>6, <1>7, <1>8, <1>9, <1>10, <1>11,
     <1>12, <1>13, <1>14, <1>15, HitKeeps, RecordKeeps, CommitKeeps,
     DiscardKeeps, DeleteRowKeeps, CommitDeleteKeeps
  DEF Next, ReaderStep, DeleteStep

-----------------------------------------------------------------------------
(* The theorems.                                                           *)

\* The parts the lemmas above speak of, together.
LEMMA IInvIsBasicAndRest == IInv <=> Basic /\ Rest
BY DEF IInv, Basic, Rest

\* The invariant holds in every reachable state.
THEOREM InductiveInvariant == Spec => []IInv
<1>1. Init => IInv
  BY InitBasic, InitRest, IInvIsBasicAndRest
<1>2. IInv /\ [Next]_vars => IInv'
  <2>1. IInv' <=> Basic' /\ Rest'
    BY DEF IInv, Basic, Rest
  <2> QED
    BY <2>1, NextBasic, NextRest, IInvIsBasicAndRest
<1> QED
  BY <1>1, <1>2, PTL DEF Spec

\* However many requests ask the same thing at once, one row answers it: the
\* unique index with ON CONFLICT DO NOTHING is enough.
THEOREM OneAnswer == Spec => []OneAnswerPerQuestion
<1>1. IInv => OneAnswerPerQuestion
  BY DEF IInv
<1> QED
  BY <1>1, InductiveInvariant, PTL

\* No interleaving of readers and deletions leaves a row without its dataset.
THEOREM NoOrphans == Spec => []NothingOutlivesItsDataset
<1>1. IInv => NothingOutlivesItsDataset
  BY DEF IInv
<1> QED
  BY <1>1, InductiveInvariant, PTL

\* A chain of tool calls can be followed back to the dataset.
THEOREM ChainsHold == Spec => []ParentsAreStored
<1>1. IInv => ParentsAreStored
  BY DEF IInv
<1> QED
  BY <1>1, InductiveInvariant, PTL

\* Whatever a logged turn cites, its answer is kept.
THEOREM CitationsHold == Spec => []CitedAnswersAreKept
<1>1. IInv => CitedAnswersAreKept
  BY DEF IInv
<1> QED
  BY <1>1, InductiveInvariant, PTL

\* No dataset is reported deleted twice.
THEOREM DeletionIsOnce == Spec => []DeletedOnce
<1>1. IInv => DeletedOnce
  BY DEF IInv
<1> QED
  BY <1>1, InductiveInvariant, PTL

-----------------------------------------------------------------------------
(* The table of computations implements the abstract cache.                *)

Gone == Dataset \ dataset

\* Every step but a deletion leaves what is committed where it is, and adds
\* answers only to questions that have none.
LEMMA KeepingStep ==
  ASSUME IInv, IInv', UNCHANGED dataset,
         \A c \in computation : c.tx = Committed => c \in computation'
  PROVE  Cache!Keep
<1>1. Kept \subseteq Kept'
  BY DEF Kept
<1>2. Kept' \subseteq Fingerprint \X Id
  BY DEF Kept, IInv, TypeOK
<1>3. Cache!OneAnswerEach(Kept')
  BY DEF Cache!OneAnswerEach, Kept, IInv, OneAnswerPerQuestion
<1>4. \A d \in Gone : Cache!About(d, Kept') = {}
  BY DEF Cache!About, Gone, Kept, IInv, NothingOutlivesItsDataset
<1> QED
  BY <1>1, <1>2, <1>3, <1>4 DEF Cache!Keep, Gone

\* A deletion withdraws the answers of one dataset.
LEMMA WithdrawingStep ==
  ASSUME IInv, NEW r \in Delete, CommitDelete(r)
  PROVE  Cache!Withdraw(target[r])
<1>1. target[r] \in dataset /\ target[r] \in Dataset
  BY DEF IInv, DeletionIsExclusive, CommitDelete, TypeOK
<1>2. Kept' = Kept \ Cache!About(target[r], Kept)
  BY CommitDeleteKeeps, IInvIsBasicAndRest DEF Kept, Cache!About
<1>3. Gone' = Gone \cup {target[r]}
  BY <1>1 DEF CommitDelete, Gone
<1> QED
  BY <1>1, <1>2, <1>3 DEF Cache!Withdraw, Gone

\* What is committed stays as it was until its dataset goes.
LEMMA OnlyDeletionForgets ==
  ASSUME IInv, Next, NEW c \in computation, c.tx = Committed
  PROVE  \/ UNCHANGED dataset /\ c \in computation'
         \/ \E r \in Delete : CommitDelete(r)
<1> USE RequestAssumption
<1>1. ASSUME NEW r \in Reader, Commit(r)
      PROVE  UNCHANGED dataset /\ c \in computation'
  BY <1>1 DEF Commit, Settled, store
<1>2. ASSUME NEW r \in Request, Rollback(r)
      PROVE  UNCHANGED dataset /\ c \in computation'
  BY <1>2 DEF Rollback, Undone
<1>3. ASSUME NEW r \in Reader, ReaderStep(r), ~Commit(r)
      PROVE  UNCHANGED dataset /\ c \in computation'
  BY <1>2, <1>3 DEF ReaderStep, Open, Bind, Propose, Reject, Close, Resolve,
     FindHit, FindMiss, Ensure, Create, Record, Reply, Orphaned, ReadFails,
     rows, store
<1>4. ASSUME NEW r \in Delete, DiscardBytes(r) \/ DeleteRow(r)
      PROVE  UNCHANGED dataset /\ c \in computation'
  BY <1>4 DEF DiscardBytes, DeleteRow, rows
<1>5. ASSUME NEW d \in Dataset, OverrideSchema(d)
      PROVE  UNCHANGED dataset /\ c \in computation'
  BY <1>5 DEF OverrideSchema, rows
<1>6. ASSUME NEW e \in conversation, Forget(e)
      PROVE  UNCHANGED dataset /\ c \in computation'
  BY <1>6 DEF Forget, store
<1> QED
  BY <1>1, <1>2, <1>3, <1>4, <1>5, <1>6 DEF Next, DeleteStep, Lost, DeadlockAbort

\* The computations other requests find are an AnswerCache: kept unchanged,
\* one per question, until the deletion of their dataset.
THEOREM CacheIsImplemented == Spec => CacheSpec
<1>1. Init => Cache!Init
  BY DEF Init, Cache!Init, Kept
<1>2. IInv /\ IInv' /\ [Next]_vars => [Cache!Next]_<<Kept, Dataset \ dataset>>
  <2> SUFFICES ASSUME IInv, IInv', [Next]_vars
               PROVE  Cache!Next \/ UNCHANGED <<Kept, Dataset \ dataset>>
    OBVIOUS
  <2>1. CASE UNCHANGED vars
    BY <2>1 DEF vars, rows, store, Kept
  <2>2. CASE \E r \in Delete : CommitDelete(r)
    <3>1. PICK r \in Delete : CommitDelete(r)
      BY <2>2
    <3>2. Cache!Withdraw(target[r]) /\ target[r] \in Dataset
      BY <3>1, WithdrawingStep, RequestAssumption DEF IInv, TypeOK
    <3> QED
      BY <3>2 DEF Cache!Next
  <2>3. CASE Next /\ ~\E r \in Delete : CommitDelete(r)
    <3>1. \A c \in computation : c.tx = Committed => c \in computation'
      BY <2>3, OnlyDeletionForgets
    <3>2. UNCHANGED dataset
      BY <2>3 DEF Next, ReaderStep, DeleteStep, Open, Bind, Propose, Reject,
         Close, Resolve, FindHit, FindMiss, Ensure, Create, Record, Reply,
         Commit, Orphaned, ReadFails, DiscardBytes, DeleteRow, Lost,
         DeadlockAbort, Rollback, OverrideSchema, Forget, store
    <3> QED
      BY <3>1, <3>2, KeepingStep DEF Cache!Next
  <2> QED
    BY <2>1, <2>2, <2>3
<1> QED
  BY <1>1, <1>2, InductiveInvariant, PTL DEF Spec, CacheSpec, Cache!Spec
=============================================================================
