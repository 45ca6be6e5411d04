--------------------------- MODULE DatasetsProofs ---------------------------
(***************************************************************************)
(* Proofs about Datasets, for any number of uploads, overrides, deletions, *)
(* columns and types: the inductive invariant, the safety properties that  *)
(* follow from it, and that the contracts implement SchemaHistory.         *)
(***************************************************************************)
EXTENDS Datasets, TLAPS

USE DEF Dataset, Request, Tx, Ended, Running

-----------------------------------------------------------------------------
(* Type correctness, and with it that an override which is to insert a     *)
(* contract has read one and has something to change.                      *)

Basic ==
    /\ TypeOK
    /\ \A r \in Override : pc[r] \in {"insert", "log", "sent", "done"} =>
          base[r] \in Contract /\ edit[r] \in Edit

\* No file, no row and no request yet.
LEMMA InitBasic == Init => Basic
BY DEF Init, Basic, TypeOK

\* Rolling back takes rows away and ends the request.
LEMMA RollbackBasic ==
  ASSUME Basic, NEW r \in Request, Rollback(r), NEW label \in {"failed", "crashed"}, Goto(r, label),
         UNCHANGED locals, files' \in [Dataset -> SUBSET File]
  PROVE  Basic'
BY RequestAssumption DEF Basic, TypeOK, Rollback, Undone, Goto, locals

\* A commit gives a request's rows to everybody and changes nothing else of them.
LEMMA CommitBasic ==
  ASSUME Basic, NEW r \in Upload \cup Override, Commit(r) PROVE Basic'
<1> USE RequestAssumption DEF Basic, TypeOK, Settled
<1>1. dataset' \subseteq [id: Dataset, tx: Tx] /\ source' \subseteq [id: Dataset, tx: Tx]
  BY DEF Commit
<1>2. contract' \subseteq Contract
  BY DEF Commit, Contract
<1>3. audit' \subseteq [action: {"created", "corrected", "deleted"},
                        dataset: Dataset, by: Request, tx: Tx]
  BY DEF Commit
<1> QED
  BY <1>1, <1>2, <1>3 DEF Commit, Goto, locals

\* The version a correction makes is a contract.
LEMMA NextContractType ==
  ASSUME TypeOK, NEW r \in Override, base[r] \in Contract, edit[r] \in Edit
  PROVE  NextContract(r) \in Contract
<1>1. Corrected(base[r].columns, edit[r]) \in [Column -> Type]
  BY NameAssumption DEF Corrected, Contract, Edit
<1> QED
  BY <1>1 DEF TypeOK, NextContract, Contract

\* Rows and requests keep their shape, whatever the interleaving.
LEMMA NextBasic == Basic /\ [Next]_vars => Basic'
<1> SUFFICES ASSUME Basic, [Next]_vars PROVE Basic'
  OBVIOUS
<1> USE RequestAssumption DEF Basic, Goto, rows, locals
<1>1. ASSUME NEW u \in Upload, Store(u) \/ Normalize(u) PROVE Basic'
  BY <1>1 DEF Store, Normalize, TypeOK, File
<1>2. ASSUME NEW u \in Upload, InsertDataset(u) \/ InsertSource(u) PROVE Basic'
  BY <1>2 DEF InsertDataset, InsertSource, TypeOK
<1>3. ASSUME NEW u \in Upload, InsertFirst(u) PROVE Basic'
  BY <1>3 DEF InsertFirst, TypeOK, Contract
<1>4. ASSUME NEW u \in Upload, LogUpload(u) PROVE Basic'
  BY <1>4 DEF LogUpload, TypeOK
<1>5. ASSUME NEW u \in Upload, Compensate(u) PROVE Basic'
  BY <1>5, RollbackBasic DEF Compensate, Discard, TypeOK
<1>6. ASSUME NEW r \in Override, Locate(r) PROVE Basic'
  BY <1>6 DEF Locate, TypeOK
<1>7. ASSUME NEW r \in Override, ReadLatest(r) PROVE Basic'
  <2>1. \A c \in Contracts(r, target[r]) : c \in Contract
    BY DEF Contracts, TypeOK
  <2>2. \A e \in Wish : DOMAIN e \subseteq Column /\ DOMAIN e # {} => e \in Edit
    BY DEF Wish, Edit
  <2> QED
    BY <1>7, <2>1, <2>2 DEF ReadLatest, TypeOK
<1>8. ASSUME NEW r \in Override, InsertNext(r) PROVE Basic'
  <2>1. CASE contract' = contract \cup {NextContract(r)}
    BY <1>8, <2>1, NextContractType DEF InsertNext, Rollback, Undone, TypeOK
  <2>2. CASE Rollback(r) /\ Goto(r, "failed")
    <3>1. files' \in [Dataset -> SUBSET File]
      BY <1>8 DEF InsertNext, TypeOK
    <3> QED
      BY <1>8, <2>2, <3>1, RollbackBasic DEF InsertNext
  <2> QED
    BY <1>8, <2>1, <2>2 DEF InsertNext
<1>9. ASSUME NEW r \in Override, LogOverride(r) PROVE Basic'
  BY <1>9 DEF LogOverride, TypeOK
<1>10. ASSUME NEW r \in Delete, DiscardFiles(r) PROVE Basic'
  BY <1>10 DEF DiscardFiles, Discard, TypeOK
<1>11. ASSUME NEW r \in Delete, DeleteRow(r) PROVE Basic'
  BY <1>11 DEF DeleteRow, TypeOK
<1>12. ASSUME NEW r \in Delete, CommitDelete(r) PROVE Basic'
  BY <1>12 DEF CommitDelete, TypeOK
<1>13. ASSUME NEW r \in Request, Fail(r) \/ Crash(r) PROVE Basic'
  <2>1. files' \in [Dataset -> SUBSET File]
    BY <1>13 DEF Fail, Crash, TypeOK
  <2> QED
    BY <1>13, <2>1, RollbackBasic DEF Fail, Crash
<1>14. CASE UNCHANGED vars
  BY <1>14 DEF vars, TypeOK
<1> QED
  BY <1>1, <1>2, <1>3, <1>4, <1>5, <1>6, <1>7, <1>8, <1>9, <1>10, <1>11,
     <1>12, <1>13, <1>14, CommitBasic
  DEF Next, UploadStep, OverrideStep, DeleteStep

\* Rows, files and every request's locals keep their shape.
THEOREM TypeCorrect == Spec => []TypeOK
<1>1. Spec => []Basic
  BY InitBasic, NextBasic, PTL DEF Spec
<1>2. Basic => TypeOK
  BY DEF Basic
<1> QED
  BY <1>1, <1>2, PTL

-----------------------------------------------------------------------------
(* The inductive invariant.  An uncommitted row belongs to a request that  *)
(* has got past inserting it and has not ended; a committed one to a       *)
(* request that is done.                                                   *)

Upto(r, tx, labels) ==
    \/ tx = r /\ pc[r] \in labels
    \/ tx = Committed /\ pc[r] = "done"

DatasetRows ==
    /\ \A x \in dataset : Upto(x.id, x.tx, {"dataset", "source", "contract", "sent"})
    /\ \A u \in Upload : pc[u] \in {"dataset", "source", "contract", "sent"} =>
          [id |-> u, tx |-> u] \in dataset

SourceRows ==
    /\ \A x \in source : Upto(x.id, x.tx, {"source", "contract", "sent"})
    /\ \A u \in Upload : pc[u] \in {"source", "contract", "sent"} =>
          [id |-> u, tx |-> u] \in source

\* The first contract of a dataset is its upload's; any other is the one its
\* override makes of the contract it has read.
ContractRows ==
    /\ \A c \in contract :
          /\ Upto(c.by, c.tx, {"contract", "log", "sent"})
          /\ \/ c.by \in Upload /\ c.dataset = c.by /\ c.version = 1
             \/ /\ c.by \in Override
                /\ c.dataset = target[c.by] /\ c.version = base[c.by].version + 1
                /\ c.columns = Corrected(base[c.by].columns, edit[c.by])
    /\ \A u \in Upload : pc[u] \in {"contract", "sent"} =>
          \E c \in contract : c.by = u /\ c.tx = u
    /\ \A r \in Override : pc[r] \in {"log", "sent"} =>
          \E c \in contract : c.by = r /\ c.tx = r

AuditRows ==
    /\ \A e \in audit :
          /\ Upto(e.by, e.tx, {"sent"})
          /\ e.action = "created" => e.by \in Upload /\ e.dataset = e.by
          /\ e.action = "corrected" => e.by \in Override /\ e.dataset = target[e.by]
          /\ e.action = "deleted" =>
                e.by \in Delete /\ e.dataset = target[e.by] /\ e.tx = Committed
    /\ \A u \in Upload : pc[u] = "sent" =>
          [action |-> "created", dataset |-> u, by |-> u, tx |-> u] \in audit
    /\ \A r \in Override : pc[r] = "sent" =>
          [action |-> "corrected", dataset |-> target[r], by |-> r, tx |-> r] \in audit

\* One deletion at a time holds the row of a dataset, which is there until it
\* commits, and nobody inserts a contract meanwhile.
DeletingRows ==
    /\ \A x \in deleting :
          /\ x[1] = target[x[2]] /\ pc[x[2]] = "sent"
          /\ Stored(x[1]) \in dataset
          /\ \A c \in contract : c.dataset = x[1] => c.tx = Committed
          /\ \A y \in deleting : y[1] = x[1] => y = x
    /\ \A r \in Delete : pc[r] = "sent" => <<target[r], r>> \in deleting

\* Files are whole from the second write until a deletion, which follows the
\* commit of the upload.
FilesInStep ==
    /\ \A u \in Upload :
          /\ pc[u] = "stored" => "source" \in files[u]
          /\ pc[u] \in {"normalized", "dataset", "source", "contract", "sent"} =>
                files[u] = File
    /\ \A r \in Delete : pc[r] \notin {"idle", "refused"} =>
          pc[target[r]] = "done" /\ files[target[r]] \subseteq Stuck

\* What an override has read is a committed contract of a dataset that is
\* complete, and while the dataset is there the contract is still in the table.
BasesAreStored ==
    /\ \A r \in Override : pc[r] \in {"insert", "log", "sent"} =>
          /\ base[r].dataset = target[r] /\ base[r].tx = Committed
          /\ pc[target[r]] = "done"
          /\ Stored(target[r]) \in dataset => base[r] \in contract
    /\ \A c \in contract : c.by \in Override =>
          /\ Stored(c.dataset) \in dataset /\ base[c.by] \in contract
          /\ base[c.by].dataset = c.dataset /\ base[c.by].tx = Committed

\* The versions of a dataset: each once, from 1 on without a gap, and only the
\* last may be uncommitted.
VersionsInOrder ==
    /\ \A c, x \in contract : x.dataset = c.dataset =>
          /\ x.version = c.version => x = c
          /\ x.version < c.version => x.tx = Committed
    /\ \A c \in contract : c.version >= 1
    /\ \A c \in contract, n \in Nat : 1 <= n /\ n <= c.version =>
          \E x \in contract : x.dataset = c.dataset /\ x.version = n

Rest ==
    /\ DatasetRows /\ SourceRows /\ ContractRows /\ AuditRows
    /\ DeletingRows /\ FilesInStep /\ BasesAreStored /\ VersionsInOrder
    /\ CompleteAtOnce /\ CorrectionsSurvive /\ LogAgrees

IInv == Basic /\ Rest

\* Nothing is stored or in flight at first.
LEMMA InitRest == Init => Rest
<1> SUFFICES ASSUME Init PROVE Rest
  OBVIOUS
<1>1. DatasetRows /\ SourceRows /\ ContractRows /\ AuditRows
  BY RequestAssumption DEF Init, DatasetRows, SourceRows, ContractRows, AuditRows
<1>2. DeletingRows /\ FilesInStep /\ BasesAreStored /\ VersionsInOrder
  BY RequestAssumption
  DEF Init, DeletingRows, FilesInStep, BasesAreStored, VersionsInOrder
<1>3. CompleteAtOnce /\ CorrectionsSurvive /\ LogAgrees
  BY
  DEF Init, CompleteAtOnce, CorrectionsSurvive, LogAgrees,
      ContractsAreLogged, EventsAreTrue, DeletionsAreTrue, Gone
<1> QED
  BY <1>1, <1>2, <1>3 DEF Rest

\* An upload writes its files before anybody can ask for its dataset.
LEMMA WritesKeep ==
  ASSUME Basic, Rest, NEW u \in Upload, Store(u) \/ Normalize(u) PROVE Rest'
<1> USE RequestAssumption DEF Basic, Rest
<1>1. /\ pc[u] \in {"idle", "stored"}
      /\ pc' = [pc EXCEPT ![u] = pc'[u]]
      /\ pc'[u] \in {"stored", "normalized", "refused"}
      /\ files' = [files EXCEPT ![u] = files'[u]] /\ files[u] \subseteq files'[u]
      /\ pc'[u] = "stored" => "source" \in files'[u]
      /\ pc'[u] = "normalized" => files'[u] = File
      /\ UNCHANGED <<dataset, source, contract, audit, deleting, target, base, edit>>
  BY DEF Store, Normalize, Goto, rows, locals, FilesInStep, File, TypeOK
<1>2. DatasetRows' /\ SourceRows' /\ ContractRows'
  BY <1>1 DEF DatasetRows, SourceRows, ContractRows, Upto, TypeOK
<1>3. AuditRows' /\ DeletingRows'
  BY <1>1 DEF AuditRows, DeletingRows, Upto, TypeOK
<1>4. FilesInStep'
  BY <1>1 DEF FilesInStep, TypeOK
<1>5. BasesAreStored' /\ VersionsInOrder' /\ CorrectionsSurvive'
  BY <1>1 DEF BasesAreStored, VersionsInOrder, CorrectionsSurvive, TypeOK
<1>6. CompleteAtOnce'
  BY <1>1 DEF CompleteAtOnce, Discarding, Stored, DatasetRows, Upto, TypeOK
<1>7. LogAgrees'
  BY <1>1
  DEF LogAgrees, ContractsAreLogged, EventsAreTrue, DeletionsAreTrue, Gone,
      Stored, AuditRows, Upto, FilesInStep, TypeOK
<1> QED
  BY <1>2, <1>3, <1>4, <1>5, <1>6, <1>7

\* Before the commit the dataset row is nobody else's business,
LEMMA InsertDatasetKeeps ==
  ASSUME Basic, Rest, NEW u \in Upload, InsertDataset(u) PROVE Rest'
<1> USE RequestAssumption DEF Basic, Rest, InsertDataset, Goto, locals
<1>1. DatasetRows' /\ SourceRows' /\ ContractRows'
  BY DEF DatasetRows, SourceRows, ContractRows, Upto, TypeOK
<1>2. AuditRows' /\ DeletingRows' /\ FilesInStep'
  BY DEF AuditRows, DeletingRows, FilesInStep, Upto, Stored, TypeOK
<1>3. BasesAreStored' /\ VersionsInOrder' /\ CorrectionsSurvive'
  BY DEF BasesAreStored, VersionsInOrder, CorrectionsSurvive, Stored, TypeOK
<1>4. CompleteAtOnce' /\ LogAgrees'
  BY
  DEF CompleteAtOnce, LogAgrees, ContractsAreLogged, EventsAreTrue,
      DeletionsAreTrue, Gone, Discarding, Stored, TypeOK
<1> QED
  BY <1>1, <1>2, <1>3, <1>4

\* and neither is the source row,
LEMMA InsertSourceKeeps ==
  ASSUME Basic, Rest, NEW u \in Upload, InsertSource(u) PROVE Rest'
<1> USE RequestAssumption DEF Basic, Rest, InsertSource, Goto, locals
<1>1. DatasetRows' /\ SourceRows' /\ ContractRows'
  BY DEF DatasetRows, SourceRows, ContractRows, Upto, TypeOK
<1>2. AuditRows' /\ DeletingRows' /\ FilesInStep'
  BY DEF AuditRows, DeletingRows, FilesInStep, Upto, TypeOK
<1>3. BasesAreStored' /\ VersionsInOrder' /\ CorrectionsSurvive'
  BY DEF BasesAreStored, VersionsInOrder, CorrectionsSurvive, TypeOK
<1>4. CompleteAtOnce' /\ LogAgrees'
  BY
  DEF CompleteAtOnce, LogAgrees, ContractsAreLogged, EventsAreTrue,
      DeletionsAreTrue, Gone, Discarding, Stored, TypeOK
<1> QED
  BY <1>1, <1>2, <1>3, <1>4

\* nor the event of an upload or an override.
LEMMA LogKeeps ==
  ASSUME Basic, Rest,
         \/ \E u \in Upload : LogUpload(u)
         \/ \E r \in Override : LogOverride(r)
  PROVE  Rest'
<1> USE RequestAssumption DEF Basic, Rest, Goto, locals
<1>1. PICK r \in Upload \cup Override :
        /\ IF r \in Upload THEN pc[r] = "contract" ELSE pc[r] = "log"
        /\ pc' = [pc EXCEPT ![r] = "sent"]
        /\ audit' = audit \cup
             {[action |-> IF r \in Upload THEN "created" ELSE "corrected",
               dataset |-> IF r \in Upload THEN r ELSE target[r], by |-> r, tx |-> r]}
        /\ UNCHANGED <<files, dataset, source, contract, deleting, target, base, edit>>
  BY DEF LogUpload, LogOverride
<1>2. DatasetRows' /\ SourceRows' /\ ContractRows'
  BY <1>1 DEF DatasetRows, SourceRows, ContractRows, Upto, TypeOK
<1>3. AuditRows'
  BY <1>1 DEF AuditRows, Upto, TypeOK
<1>4. DeletingRows' /\ FilesInStep' /\ BasesAreStored'
  BY <1>1 DEF DeletingRows, FilesInStep, BasesAreStored, TypeOK
<1>5. VersionsInOrder' /\ CorrectionsSurvive'
  BY <1>1 DEF VersionsInOrder, CorrectionsSurvive
<1>6. CompleteAtOnce' /\ LogAgrees'
  BY <1>1
  DEF CompleteAtOnce, LogAgrees, ContractsAreLogged, EventsAreTrue,
      DeletionsAreTrue, Gone, Discarding, TypeOK
<1> QED
  BY <1>2, <1>3, <1>4, <1>5, <1>6

\* An override that looks its dataset up.
LEMMA LocateKeeps ==
  ASSUME Basic, Rest, NEW r \in Override, Locate(r) PROVE Rest'
<1> USE RequestAssumption DEF Basic, Rest, Locate, Goto, rows, locals
<1>1. DatasetRows' /\ SourceRows' /\ ContractRows' /\ AuditRows'
  BY DEF DatasetRows, SourceRows, ContractRows, AuditRows, Upto, TypeOK
<1>2. DeletingRows' /\ FilesInStep' /\ BasesAreStored'
  BY DEF DeletingRows, FilesInStep, BasesAreStored, TypeOK
<1>3. VersionsInOrder' /\ CorrectionsSurvive' /\ LogAgrees'
  BY
  DEF VersionsInOrder, CorrectionsSurvive, LogAgrees, ContractsAreLogged,
      EventsAreTrue, DeletionsAreTrue, Gone
<1>4. CompleteAtOnce'
  BY DEF CompleteAtOnce, Discarding, TypeOK
<1> QED
  BY <1>1, <1>2, <1>3, <1>4

\* It has inserted nothing yet, so the contract it reads is a committed one.
LEMMA ReadLatestKeeps ==
  ASSUME Basic, Rest, NEW r \in Override, ReadLatest(r) PROVE Rest'
<1> USE RequestAssumption DEF Basic, Rest
<1>1. /\ pc[r] = "located" /\ pc' = [pc EXCEPT ![r] = pc'[r]]
      /\ \/ /\ pc'[r] = "insert"
            /\ base'[r] \in Contracts(r, target[r])
            /\ base' = [base EXCEPT ![r] = base'[r]]
            /\ edit' = [edit EXCEPT ![r] = edit'[r]]
         \/ pc'[r] = "refused" /\ UNCHANGED <<base, edit>>
      /\ UNCHANGED <<files, dataset, source, contract, audit, deleting, target>>
  BY DEF ReadLatest, Goto, rows, TypeOK
<1>2. \A c \in contract : c.by # r /\ c.tx # r
  BY <1>1 DEF ContractRows, Upto, TypeOK
<1>3. DatasetRows' /\ SourceRows' /\ AuditRows'
  BY <1>1 DEF DatasetRows, SourceRows, AuditRows, Upto, TypeOK
<1>4. ContractRows'
  BY <1>1, <1>2 DEF ContractRows, Upto, TypeOK
<1>5. DeletingRows' /\ FilesInStep'
  BY <1>1 DEF DeletingRows, FilesInStep, TypeOK
<1>6. BasesAreStored'
  <2>1. ASSUME NEW c \in Contracts(r, target[r])
        PROVE  /\ c \in contract /\ c.dataset = target[r] /\ c.tx = Committed
               /\ pc[target[r]] = "done"
    <3>1. /\ c \in contract /\ c.dataset = target[r] /\ c.tx = Committed
          /\ c.dataset \in Upload /\ c.by \in Request
      BY <1>2 DEF Contracts, TypeOK, Contract
    <3>2. CASE c.by \in Upload
      BY <3>1, <3>2 DEF ContractRows, Upto
    <3>3. CASE c.by \in Override
      <4>1. Stored(c.dataset) \in dataset
        BY <3>1, <3>3 DEF BasesAreStored
      <4> QED
        BY <3>1, <4>1 DEF DatasetRows, Upto, Stored
    <3> QED
      BY <3>1, <3>2, <3>3 DEF ContractRows
  <2>2. target[r] # r
    BY DEF TypeOK
  <2> QED
    BY <1>1, <1>2, <2>1, <2>2 DEF BasesAreStored, TypeOK
<1>7. VersionsInOrder' /\ LogAgrees'
  BY <1>1
  DEF VersionsInOrder, LogAgrees, ContractsAreLogged, EventsAreTrue,
      DeletionsAreTrue, Gone
<1>8. CorrectionsSurvive'
  BY <1>1, <1>2 DEF CorrectionsSurvive, TypeOK
<1>9. CompleteAtOnce'
  BY <1>1 DEF CompleteAtOnce, Discarding, TypeOK
<1> QED
  BY <1>3, <1>4, <1>5, <1>6, <1>7, <1>8, <1>9

\* The first contract of a dataset nobody else has seen.
LEMMA InsertFirstKeeps ==
  ASSUME Basic, Rest, NEW u \in Upload, InsertFirst(u) PROVE Rest'
<1> USE RequestAssumption DEF Basic, Rest
<1>1. PICK columns \in [Column -> Type] :
        contract' = contract \cup
          {[dataset |-> u, version |-> 1, columns |-> columns,
            by |-> u, derived |-> None, tx |-> u]}
  BY DEF InsertFirst
<1>2. /\ pc[u] = "source" /\ pc' = [pc EXCEPT ![u] = "contract"]
      /\ UNCHANGED <<files, dataset, source, audit, deleting, target, base, edit>>
  BY DEF InsertFirst, Goto, locals
<1>3. Stored(u) \notin dataset
  BY <1>2 DEF DatasetRows, Upto, Stored
<1>4. \A c \in contract : c.dataset # u
  BY <1>2, <1>3 DEF ContractRows, BasesAreStored, Upto
<1>5. DatasetRows' /\ SourceRows' /\ AuditRows'
  BY <1>2 DEF DatasetRows, SourceRows, AuditRows, Upto, TypeOK
<1>6. ContractRows'
  <2> DEFINE new == [dataset |-> u, version |-> 1, columns |-> columns,
                     by |-> u, derived |-> None, tx |-> u]
  <2>1. \A c \in contract' : c \in contract \/ c = new
    BY <1>1
  <2>2. new \in contract' /\ contract \subseteq contract'
    BY <1>1
  <2>3. new.by = u /\ new.dataset = u /\ new.version = 1 /\ new.tx = u
    OBVIOUS
  <2> HIDE DEF new
  <2> QED
    BY <1>2, <2>1, <2>2, <2>3 DEF ContractRows, Upto, TypeOK
<1>7. DeletingRows'
  BY <1>1, <1>2, <1>3 DEF DeletingRows, TypeOK
<1>8. FilesInStep' /\ BasesAreStored'
  BY <1>1, <1>2 DEF FilesInStep, BasesAreStored, TypeOK
<1>9. VersionsInOrder'
  BY <1>1, <1>4 DEF VersionsInOrder, TypeOK, Contract
<1>10. CompleteAtOnce' /\ CorrectionsSurvive'
  BY <1>1, <1>2 DEF CompleteAtOnce, CorrectionsSurvive, Discarding, TypeOK
<1>11. LogAgrees'
  <2>1. \A e \in audit : e.action = "deleted" => e.dataset # u
    BY <1>2 DEF AuditRows, FilesInStep, Upto, TypeOK
  <2> QED
    BY <1>1, <1>2, <2>1
    DEF LogAgrees, ContractsAreLogged, EventsAreTrue, DeletionsAreTrue, Gone
<1> QED
  BY <1>5, <1>6, <1>7, <1>8, <1>9, <1>10, <1>11

\* A deletion that has seen the dataset discards its files; from then on the
\* dataset is known to be going.
LEMMA DiscardFilesKeeps ==
  ASSUME Basic, Rest, NEW r \in Delete, DiscardFiles(r) PROVE Rest'
<1> USE RequestAssumption DEF Basic, Rest
<1>1. /\ pc[r] = "idle" /\ pc' = [pc EXCEPT ![r] = pc'[r]]
      /\ \/ /\ Stored(target[r]) \in dataset /\ pc'[r] = "delete"
            /\ files' = [files EXCEPT ![target[r]] = @ \cap Stuck]
         \/ pc'[r] = "refused" /\ UNCHANGED files
      /\ UNCHANGED <<dataset, source, contract, audit, deleting, target, base, edit>>
  <2>1. target[r] \in Seen(r) => Stored(target[r]) \in dataset
    BY DEF Seen, Stored, DatasetRows, TypeOK
  <2> QED
    BY <2>1 DEF DiscardFiles, Discard, Goto, rows, locals, TypeOK
<1>2. Stored(target[r]) \in dataset => pc[target[r]] = "done"
  BY DEF Stored, DatasetRows, Upto, TypeOK
<1>3. DatasetRows' /\ SourceRows' /\ ContractRows' /\ AuditRows'
  BY <1>1 DEF DatasetRows, SourceRows, ContractRows, AuditRows, Upto, TypeOK
<1>4. DeletingRows' /\ BasesAreStored'
  BY <1>1 DEF DeletingRows, BasesAreStored, TypeOK
<1>5. FilesInStep'
  BY <1>1, <1>2 DEF FilesInStep, TypeOK
<1>6. VersionsInOrder' /\ CorrectionsSurvive'
  BY <1>1 DEF VersionsInOrder, CorrectionsSurvive
<1>7. CompleteAtOnce'
  BY <1>1 DEF CompleteAtOnce, Discarding, TypeOK
<1>8. LogAgrees'
  BY <1>1
  DEF LogAgrees, ContractsAreLogged, EventsAreTrue, DeletionsAreTrue, Gone, TypeOK
<1> QED
  BY <1>3, <1>4, <1>5, <1>6, <1>7, <1>8

\* The row is deleted when nobody holds it: every contract of the dataset is
\* committed, and no other deletion is on its way.
LEMMA DeleteRowKeeps ==
  ASSUME Basic, Rest, NEW r \in Delete, DeleteRow(r) PROVE Rest'
<1> USE RequestAssumption DEF Basic, Rest
<1>1. /\ pc[r] = "delete" /\ pc' = [pc EXCEPT ![r] = pc'[r]]
      /\ \/ /\ target[r] \in Seen(r) /\ pc'[r] = "sent"
            /\ deleting' = deleting \cup {<<target[r], r>>}
         \/ /\ target[r] \notin Seen(r) /\ pc'[r] = "refused"
            /\ UNCHANGED deleting
      /\ UNCHANGED <<files, dataset, source, contract, audit, target, base, edit>>
  BY DEF DeleteRow, Goto, rows, locals, TypeOK
<1>2. target[r] \in Seen(r) <=> Stored(target[r]) \in dataset
  BY DEF Seen, Stored, DatasetRows, TypeOK
<1>3. \A t \in Request \ {r} :
        /\ \A c \in contract : c.dataset = target[r] => c.tx # t
        /\ <<target[r], t>> \notin deleting
  BY <1>1 DEF DeleteRow, Blockers
<1>4. \A c \in contract : c.dataset = target[r] => c.tx = Committed
  <2>1. \A c \in contract : c.tx \in Upload \cup Override \cup {Committed}
    BY DEF TypeOK, Contract
  <2> QED
    BY <1>3, <2>1
<1>5. \A x \in deleting : x[1] # target[r]
  BY <1>1, <1>3 DEF DeletingRows, TypeOK
<1>6. DatasetRows' /\ SourceRows' /\ ContractRows' /\ AuditRows'
  BY <1>1 DEF DatasetRows, SourceRows, ContractRows, AuditRows, Upto, TypeOK
<1>7. DeletingRows'
  <2>1. \A x \in deleting' :
          /\ x[1] = target[x[2]] /\ pc'[x[2]] = "sent"
          /\ Stored(x[1]) \in dataset
          /\ \A c \in contract : c.dataset = x[1] => c.tx = Committed
    BY <1>1, <1>2, <1>4 DEF DeletingRows, TypeOK
  <2>2. \A x, y \in deleting' : y[1] = x[1] => y = x
    BY <1>1, <1>5 DEF DeletingRows
  <2>3. \A q \in Delete : pc'[q] = "sent" => <<target[q], q>> \in deleting'
    BY <1>1 DEF DeletingRows, TypeOK
  <2> QED
    BY <1>1, <2>1, <2>2, <2>3 DEF DeletingRows, Stored
<1>8. FilesInStep' /\ BasesAreStored'
  BY <1>1 DEF FilesInStep, BasesAreStored, TypeOK
<1>9. VersionsInOrder' /\ CorrectionsSurvive' /\ LogAgrees'
  BY <1>1
  DEF VersionsInOrder, CorrectionsSurvive, LogAgrees, ContractsAreLogged,
      EventsAreTrue, DeletionsAreTrue, Gone
<1>10. CompleteAtOnce'
  BY <1>1, <1>2 DEF CompleteAtOnce, Discarding, TypeOK
<1> QED
  BY <1>6, <1>7, <1>8, <1>9, <1>10

\* A request that fails takes its own uncommitted rows away.  Nobody has read
\* them, and of a dataset's versions they are the last.
LEMMA RollbackKeeps ==
  ASSUME Basic, Rest, NEW r \in Request, Rollback(r),
         NEW label \in {"failed", "crashed"}, Goto(r, label), UNCHANGED locals,
         pc[r] \in Running,
         \/ UNCHANGED files
         \/ r \in Upload /\ files' = [files EXCEPT ![r] = @ \cap Stuck]
  PROVE  Rest'
<1> USE RequestAssumption DEF Basic, Rest
<1>1. /\ dataset' = {x \in dataset : x.tx # r} /\ source' = {x \in source : x.tx # r}
      /\ contract' = {x \in contract : x.tx # r} /\ audit' = {x \in audit : x.tx # r}
      /\ deleting' = {x \in deleting : x[2] # r}
      /\ pc' = [pc EXCEPT ![r] = label]
      /\ pc[r] # "done"
      /\ UNCHANGED <<target, base, edit>>
  BY DEF Rollback, Undone, Goto, locals
<1>2. Committed # r
  OBVIOUS
<1>3. DatasetRows' /\ SourceRows'
  BY <1>1 DEF DatasetRows, SourceRows, Upto, TypeOK
<1>4. ContractRows'
  BY <1>1 DEF ContractRows, Upto, TypeOK
<1>5. AuditRows'
  BY <1>1 DEF AuditRows, Upto, TypeOK
<1>6. DeletingRows'
  BY <1>1, <1>2 DEF DeletingRows, Stored, TypeOK
<1>7. FilesInStep'
  BY <1>1 DEF FilesInStep, TypeOK
<1>8. BasesAreStored'
  BY <1>1, <1>2 DEF BasesAreStored, Stored, TypeOK
<1>9. VersionsInOrder'
  <2>1. ASSUME NEW c \in contract', NEW n \in Nat, 1 <= n, n <= c.version
        PROVE  \E x \in contract' : x.dataset = c.dataset /\ x.version = n
    <3>1. c \in contract /\ c.tx # r /\ c.version \in Nat
      BY <1>1 DEF TypeOK, Contract
    <3>2. PICK x \in contract : x.dataset = c.dataset /\ x.version = n
      BY <2>1, <3>1 DEF VersionsInOrder
    <3>3. x.tx # r
      BY <1>2, <2>1, <3>1, <3>2 DEF VersionsInOrder
    <3> QED
      BY <1>1, <3>2, <3>3
  <2> QED
    BY <1>1, <2>1 DEF VersionsInOrder
<1>10. CompleteAtOnce'
  BY <1>1, <1>2 DEF CompleteAtOnce, Discarding, Stored, DatasetRows, Upto, TypeOK
<1>11. CorrectionsSurvive'
  BY <1>1, <1>2 DEF CorrectionsSurvive
<1>12. LogAgrees'
  <2>1. Gone' = Gone
    BY <1>1, <1>2 DEF Gone, AuditRows
  <2>2. ContractsAreLogged'
    BY <1>1, <1>2 DEF LogAgrees, ContractsAreLogged
  <2>3. EventsAreTrue'
    BY <1>1, <1>2, <2>1 DEF LogAgrees, EventsAreTrue, Stored
  <2>4. DeletionsAreTrue'
    BY <1>1 DEF LogAgrees, DeletionsAreTrue, Stored, TypeOK
  <2> QED
    BY <2>2, <2>3, <2>4 DEF LogAgrees
<1> QED
  BY <1>3, <1>4, <1>5, <1>6, <1>7, <1>8, <1>9, <1>10, <1>11, <1>12

\* A correction becomes the next version: if a newer one than the contract it
\* corrects existed, the one right after it would, and the insert would fail.
LEMMA InsertNextKeeps ==
  ASSUME Basic, Rest, NEW r \in Override, InsertNext(r),
         target[r] \in Seen(r), SameVersion(NextContract(r)) = {}
  PROVE  Rest'
<1> USE RequestAssumption DEF Basic, Rest
<1> DEFINE new == NextContract(r)
<1>1. /\ pc[r] = "insert" /\ pc' = [pc EXCEPT ![r] = "log"]
      /\ contract' = contract \cup {new}
      /\ UNCHANGED <<files, dataset, source, audit, deleting, target, base, edit>>
  BY DEF InsertNext, Goto, locals
<1>2. /\ new \in Contract /\ new.dataset = target[r] /\ new.by = r /\ new.tx = r
      /\ new.version = base[r].version + 1
      /\ new.columns = Corrected(base[r].columns, edit[r])
  BY <1>1, NextContractType DEF NextContract
<1>3. Stored(target[r]) \in dataset
  BY DEF Seen, Stored, DatasetRows, Upto, TypeOK
<1>4. /\ base[r] \in contract /\ base[r].dataset = target[r]
      /\ base[r].tx = Committed /\ base[r].version \in Nat
  BY <1>1, <1>3 DEF BasesAreStored, TypeOK, Contract
<1>5. \A x \in deleting : x[1] # target[r]
  <2>1. \A t \in Request \ {r} : <<target[r], t>> \notin deleting
    BY <1>1 DEF InsertNext, Blockers
  <2> QED
    BY <2>1 DEF TypeOK
<1>6. \A c \in contract : c.dataset = target[r] => c.version <= base[r].version
  <2> SUFFICES ASSUME NEW c \in contract, c.dataset = target[r],
                      ~(c.version <= base[r].version)
               PROVE  FALSE
    OBVIOUS
  <2>1. c.version \in Nat /\ 1 <= base[r].version + 1
        /\ base[r].version + 1 <= c.version
    BY <1>4 DEF TypeOK, Contract
  <2>2. base[r].version + 1 \in Nat
    BY <1>4
  <2>3. \E x \in contract : x.dataset = c.dataset /\ x.version = base[r].version + 1
    BY <2>1, <2>2 DEF VersionsInOrder
  <2> QED
    BY <1>2, <2>3 DEF SameVersion
<1> HIDE DEF new
<1>7. \A c \in contract : c.version \in Nat
  BY DEF TypeOK, Contract
<1>8. DatasetRows' /\ SourceRows' /\ AuditRows'
  BY <1>1 DEF DatasetRows, SourceRows, AuditRows, Upto, TypeOK
<1>9. ContractRows'
  BY <1>1, <1>2 DEF ContractRows, Upto, TypeOK
<1>10. DeletingRows'
  BY <1>1, <1>2, <1>5 DEF DeletingRows, Stored, TypeOK
<1>11. FilesInStep'
  BY <1>1 DEF FilesInStep, TypeOK
<1>12. BasesAreStored'
  BY <1>1, <1>2, <1>3, <1>4 DEF BasesAreStored, Stored, TypeOK
<1>13. VersionsInOrder'
  <2>1. \A c \in contract : c.dataset = new.dataset =>
           c.version < new.version /\ c.tx = Committed
    BY <1>2, <1>4, <1>6, <1>7 DEF VersionsInOrder
  <2>2. \A c, x \in contract' : x.dataset = c.dataset =>
          /\ x.version = c.version => x = c
          /\ x.version < c.version => x.tx = Committed
    BY <1>1, <1>2, <1>4, <1>7, <2>1 DEF VersionsInOrder
  <2>3. \A c \in contract' : c.version >= 1
    BY <1>1, <1>2, <1>4, <1>7 DEF VersionsInOrder
  <2>4. ASSUME NEW n \in Nat, 1 <= n, n <= new.version
        PROVE  \E x \in contract' : x.dataset = new.dataset /\ x.version = n
    <3>1. CASE n = new.version
      BY <1>1, <3>1
    <3>2. CASE n # new.version
      <4>1. n <= base[r].version
        BY <1>2, <1>4, <2>4, <3>2
      <4> QED
        BY <1>1, <1>2, <1>4, <2>4, <4>1 DEF VersionsInOrder
    <3> QED
      BY <3>1, <3>2
  <2> QED
    BY <1>1, <2>2, <2>3, <2>4 DEF VersionsInOrder
<1>14. CompleteAtOnce' /\ CorrectionsSurvive'
  BY <1>1, <1>2 DEF CompleteAtOnce, CorrectionsSurvive, Discarding, TypeOK
<1>15. LogAgrees'
  BY <1>1, <1>2, <1>3
  DEF LogAgrees, ContractsAreLogged, EventsAreTrue, DeletionsAreTrue, Gone
<1> QED
  BY <1>8, <1>9, <1>10, <1>11, <1>12, <1>13, <1>14, <1>15

\* What a commit makes of the contracts: the request's own become everybody's.
LEMMA SettledContracts ==
  ASSUME Basic, NEW r \in Upload \cup Override, contract' = Settled(contract, r)
  PROVE  /\ \A c \in contract' : \E b \in contract :
              /\ c.dataset = b.dataset /\ c.version = b.version
              /\ c.columns = b.columns /\ c.by = b.by
              /\ c.tx = IF b.tx = r THEN Committed ELSE b.tx
              /\ c = [b EXCEPT !.tx = c.tx]
         /\ \A b \in contract : \E c \in contract' :
              /\ c.dataset = b.dataset /\ c.version = b.version
              /\ c.columns = b.columns /\ c.by = b.by
              /\ c.tx = IF b.tx = r THEN Committed ELSE b.tx
              /\ b.tx # r => c = b
<1> USE DEF Basic, TypeOK, Contract
<1>1. \A c \in contract' : \E b \in contract :
        /\ c.dataset = b.dataset /\ c.version = b.version
        /\ c.columns = b.columns /\ c.by = b.by
        /\ c.tx = IF b.tx = r THEN Committed ELSE b.tx
        /\ c = [b EXCEPT !.tx = c.tx]
  BY DEF Settled
<1>2. ASSUME NEW b \in contract
      PROVE  \E c \in contract' :
              /\ c.dataset = b.dataset /\ c.version = b.version
              /\ c.columns = b.columns /\ c.by = b.by
              /\ c.tx = IF b.tx = r THEN Committed ELSE b.tx
              /\ b.tx # r => c = b
  <2>1. CASE b.tx # r
    BY <2>1 DEF Settled
  <2>2. CASE b.tx = r
    <3>1. [b EXCEPT !.tx = Committed] \in contract'
      BY <2>2 DEF Settled
    <3> QED
      BY <2>2, <3>1
  <2> QED
    BY <2>1, <2>2
<1> QED
  BY <1>1, <1>2

\* What a commit makes of the rows of `dataset` and `source_file`, of whom a
\* request has at most its own,
LEMMA SettledRows ==
  ASSUME NEW T, T \subseteq [id: Dataset, tx: Tx], NEW r \in Upload \cup Override
  PROVE  /\ \A x \in Settled(T, r) : \E b \in T :
              x.id = b.id /\ x.tx = IF b.tx = r THEN Committed ELSE b.tx
         /\ \A b \in T : IF b.tx = r THEN Stored(b.id) \in Settled(T, r)
                                     ELSE b \in Settled(T, r)
<1>1. \A x \in Settled(T, r) : \E b \in T :
        x.id = b.id /\ x.tx = IF b.tx = r THEN Committed ELSE b.tx
  BY DEF Settled
<1>2. ASSUME NEW b \in T, b.tx = r PROVE Stored(b.id) \in Settled(T, r)
  <2>1. [b EXCEPT !.tx = Committed] = Stored(b.id)
    BY DEF Stored
  <2> QED
    BY <1>2, <2>1 DEF Settled
<1> QED
  BY <1>1, <1>2 DEF Settled

\* and of the log.
LEMMA SettledEvents ==
  ASSUME Basic, NEW r \in Upload \cup Override, audit' = Settled(audit, r)
  PROVE  /\ \A x \in audit' : \E b \in audit :
              /\ x.action = b.action /\ x.dataset = b.dataset /\ x.by = b.by
              /\ x.tx = IF b.tx = r THEN Committed ELSE b.tx
              /\ b.tx # r => x = b
         /\ \A b \in audit :
              IF b.tx = r THEN [b EXCEPT !.tx = Committed] \in audit' ELSE b \in audit'
<1> USE DEF Basic, TypeOK
<1>1. \A x \in audit' : \E b \in audit :
        /\ x.action = b.action /\ x.dataset = b.dataset /\ x.by = b.by
        /\ x.tx = IF b.tx = r THEN Committed ELSE b.tx
        /\ b.tx # r => x = b
  BY DEF Settled
<1> QED
  BY <1>1 DEF Settled

\* A commit makes a request's rows everybody's, all of them at once.
LEMMA CommitKeeps ==
  ASSUME Basic, Rest, NEW r \in Upload \cup Override, Commit(r) PROVE Rest'
<1> USE RequestAssumption DEF Basic, Rest
<1>1. /\ pc[r] = "sent" /\ pc' = [pc EXCEPT ![r] = "done"]
      /\ UNCHANGED <<files, deleting, target, base, edit>>
  BY DEF Commit, Goto, locals
<1>2. /\ \A x \in dataset' : \E b \in dataset :
            x.id = b.id /\ x.tx = IF b.tx = r THEN Committed ELSE b.tx
      /\ \A b \in dataset : IF b.tx = r THEN Stored(b.id) \in dataset' ELSE b \in dataset'
      /\ \A x \in source' : \E b \in source :
            x.id = b.id /\ x.tx = IF b.tx = r THEN Committed ELSE b.tx
      /\ \A b \in source : IF b.tx = r THEN Stored(b.id) \in source' ELSE b \in source'
  <2>1. /\ dataset \subseteq [id: Dataset, tx: Tx] /\ source \subseteq [id: Dataset, tx: Tx]
        /\ dataset' = Settled(dataset, r) /\ source' = Settled(source, r)
    BY DEF Commit, TypeOK
  <2>2. /\ \A x \in dataset' : \E b \in dataset :
              x.id = b.id /\ x.tx = IF b.tx = r THEN Committed ELSE b.tx
        /\ \A b \in dataset :
              IF b.tx = r THEN Stored(b.id) \in dataset' ELSE b \in dataset'
    BY ONLY <2>1, SettledRows
  <2>3. /\ \A x \in source' : \E b \in source :
              x.id = b.id /\ x.tx = IF b.tx = r THEN Committed ELSE b.tx
        /\ \A b \in source :
              IF b.tx = r THEN Stored(b.id) \in source' ELSE b \in source'
    BY ONLY <2>1, SettledRows
  <2> QED
    BY <2>2, <2>3
<1>3. \A c \in contract' : \E b \in contract :
        /\ c.dataset = b.dataset /\ c.version = b.version
        /\ c.columns = b.columns /\ c.by = b.by
        /\ c.tx = IF b.tx = r THEN Committed ELSE b.tx
        /\ c = [b EXCEPT !.tx = c.tx]
  BY SettledContracts DEF Commit
<1>4. \A b \in contract : \E c \in contract' :
        /\ c.dataset = b.dataset /\ c.version = b.version
        /\ c.columns = b.columns /\ c.by = b.by
        /\ c.tx = IF b.tx = r THEN Committed ELSE b.tx
        /\ b.tx # r => c = b
  BY SettledContracts DEF Commit
<1>5. /\ \A x \in audit' : \E b \in audit :
            /\ x.action = b.action /\ x.dataset = b.dataset /\ x.by = b.by
            /\ x.tx = IF b.tx = r THEN Committed ELSE b.tx
            /\ b.tx # r => x = b
      /\ \A b \in audit :
            IF b.tx = r THEN [b EXCEPT !.tx = Committed] \in audit' ELSE b \in audit'
  BY SettledEvents DEF Commit
<1>6. Committed # r
  OBVIOUS
<1>7. \A d \in Dataset : Stored(d) \in dataset => Stored(d) \in dataset' /\ d # r
  BY <1>1, <1>2, <1>6 DEF Stored, DatasetRows, Upto
<1>8. \A d \in Dataset : Stored(d) \in dataset' => Stored(d) \in dataset \/ d = r
  BY <1>1, <1>2 DEF Stored, DatasetRows, Upto, TypeOK
<1>9. DatasetRows'
  BY <1>1, <1>2 DEF DatasetRows, Upto, TypeOK
<1>10. SourceRows'
  BY <1>1, <1>2 DEF SourceRows, Upto, TypeOK
<1>11. ContractRows'
  <2>1. \A c \in contract' :
          /\ Upto(c.by, c.tx, {"contract", "log", "sent"})'
          /\ \/ c.by \in Upload /\ c.dataset = c.by /\ c.version = 1
             \/ /\ c.by \in Override
                /\ c.dataset = target[c.by] /\ c.version = base[c.by].version + 1
                /\ c.columns = Corrected(base[c.by].columns, edit[c.by])
    BY <1>1, <1>3 DEF ContractRows, Upto, TypeOK
  <2>2. \A q \in Upload \cup Override :
          (\E c \in contract : c.by = q /\ c.tx = q) /\ q # r =>
              \E c \in contract' : c.by = q /\ c.tx = q
    BY <1>4
  <2> QED
    BY <1>1, <2>1, <2>2 DEF ContractRows, TypeOK
<1>12. AuditRows'
  <2>1. \A e \in audit' :
          /\ Upto(e.by, e.tx, {"sent"})'
          /\ e.action = "created" => e.by \in Upload /\ e.dataset = e.by
          /\ e.action = "corrected" => e.by \in Override /\ e.dataset = target[e.by]
          /\ e.action = "deleted" =>
                e.by \in Delete /\ e.dataset = target[e.by] /\ e.tx = Committed
    BY <1>1, <1>5 DEF AuditRows, Upto, TypeOK
  <2>2. ASSUME NEW q \in Upload \cup Override, pc'[q] = "sent"
        PROVE  \A e \in audit : e.tx = q => e \in audit'
    BY <1>1, <1>5, <2>2 DEF TypeOK
  <2>3. \A q \in Upload \cup Override : pc'[q] = "sent" => pc[q] = "sent"
    BY <1>1 DEF TypeOK
  <2> QED
    BY <1>1, <2>1, <2>2, <2>3 DEF AuditRows
<1>13. DeletingRows'
  BY <1>1, <1>3, <1>7 DEF DeletingRows, TypeOK
<1>14. FilesInStep'
  BY <1>1 DEF FilesInStep, TypeOK
<1>15. BasesAreStored'
  <2>1. ASSUME NEW q \in Override, pc'[q] \in {"insert", "log", "sent"}
        PROVE  /\ base[q].dataset = target[q] /\ base[q].tx = Committed
               /\ pc'[target[q]] = "done"
               /\ Stored(target[q]) \in dataset' => base[q] \in contract'
    <3>1. q # r /\ pc[q] \in {"insert", "log", "sent"}
      BY <1>1, <2>1 DEF TypeOK
    <3> QED
      BY <1>1, <1>4, <1>6, <1>8, <3>1 DEF BasesAreStored, TypeOK
  <2>2. ASSUME NEW c \in contract', c.by \in Override
        PROVE  /\ Stored(c.dataset) \in dataset' /\ base[c.by] \in contract'
               /\ base[c.by].dataset = c.dataset /\ base[c.by].tx = Committed
    BY <1>3, <1>4, <1>6, <1>7, <2>2 DEF BasesAreStored, TypeOK, Contract
  <2> QED
    BY <1>1, <2>1, <2>2 DEF BasesAreStored, Stored
<1>16. VersionsInOrder'
  BY <1>3, <1>4 DEF VersionsInOrder
<1>17. CompleteAtOnce'
  <2> SUFFICES ASSUME NEW d \in Dataset, Stored(d) \in dataset'
               PROVE  /\ Stored(d) \in source'
                      /\ \E c \in contract' :
                           c.dataset = d /\ c.version = 1 /\ c.tx = Committed
                      /\ [action |-> "created", dataset |-> d, by |-> d,
                          tx |-> Committed] \in audit'
                      /\ files[d] = File \/ Discarding(d)'
    BY <1>1 DEF CompleteAtOnce, Stored
  <2>1. CASE Stored(d) \in dataset
    <3>1. Discarding(d) => Discarding(d)'
      BY <1>1 DEF Discarding, TypeOK
    <3> QED
      BY <1>2, <1>4, <1>5, <1>6, <2>1, <3>1 DEF CompleteAtOnce, Stored
  <2>2. CASE Stored(d) \notin dataset
    <3>1. d = r /\ r \in Upload
      BY <1>8, <2>2
    <3>2. Stored(d) \in source'
      BY <1>1, <1>2, <3>1 DEF SourceRows
    <3>3. \E c \in contract' : c.dataset = d /\ c.version = 1 /\ c.tx = Committed
      BY <1>1, <1>4, <3>1 DEF ContractRows
    <3>4. [action |-> "created", dataset |-> d, by |-> d, tx |-> Committed] \in audit'
      <4> DEFINE e == [action |-> "created", dataset |-> d, by |-> d, tx |-> r]
      <4>1. e \in audit /\ e.tx = r
        BY <1>1, <3>1 DEF AuditRows
      <4>2. [e EXCEPT !.tx = Committed] \in audit'
        BY <1>5, <4>1
      <4> QED
        BY <4>2
    <3>5. files[d] = File
      BY <1>1, <3>1 DEF FilesInStep
    <3> QED
      BY <3>2, <3>3, <3>4, <3>5
  <2> QED
    BY <2>1, <2>2
<1>18. CorrectionsSurvive'
  <2> SUFFICES ASSUME NEW c \in contract', c.tx = Committed, c.by \in Override,
                      NEW n \in contract', n.dataset = c.dataset,
                      n.tx = Committed, n.version >= c.version,
                      NEW col \in DOMAIN edit[c.by]
               PROVE  \/ n.columns[col] = edit[c.by][col]
                      \/ \E o \in contract' :
                            /\ o.dataset = c.dataset /\ o.tx = Committed
                            /\ o.version > c.version /\ o.version <= n.version
                            /\ o.by \in Override /\ col \in DOMAIN edit[o.by]
    BY <1>1 DEF CorrectionsSurvive
  <2>1. PICK cb \in contract :
          /\ c.dataset = cb.dataset /\ c.version = cb.version
          /\ c.columns = cb.columns /\ c.by = cb.by /\ cb.tx \in {r, Committed}
    BY <1>3
  <2>2. PICK nb \in contract :
          /\ n.dataset = nb.dataset /\ n.version = nb.version
          /\ n.columns = nb.columns /\ n.by = nb.by /\ nb.tx \in {r, Committed}
    BY <1>3
  <2>3. \A x \in contract : x.version \in Nat
    BY DEF TypeOK, Contract
  <2>4. edit[c.by] \in Edit /\ col \in Column
    <3>1. pc[c.by] \in {"log", "sent", "done"}
      BY <1>1, <1>6, <2>1 DEF ContractRows, Upto
    <3> QED
      BY <3>1 DEF Edit
  <2>5. CASE nb.tx = Committed
    <3>1. cb.tx = Committed
      BY <1>6, <2>1, <2>2, <2>3, <2>5 DEF VersionsInOrder
    <3>2. \/ n.columns[col] = edit[c.by][col]
          \/ \E o \in contract :
                /\ o.dataset = c.dataset /\ o.tx = Committed
                /\ o.version > c.version /\ o.version <= n.version
                /\ o.by \in Override /\ col \in DOMAIN edit[o.by]
      BY <2>1, <2>2, <2>5, <3>1 DEF CorrectionsSurvive
    <3> QED
      BY <1>4, <1>6, <3>2
  <2>6. CASE nb.tx = r /\ cb = nb
    <3>1. n.columns = Corrected(base[c.by].columns, edit[c.by])
      BY <2>1, <2>2, <2>6 DEF ContractRows
    <3> QED
      BY <2>4, <3>1 DEF Corrected
  <2>7. CASE nb.tx = r /\ cb # nb
    <3>1. cb.version < nb.version /\ cb.tx = Committed
      BY <2>1, <2>2, <2>3, <2>7 DEF VersionsInOrder
    <3>2. nb.by = r /\ r \in Override
      BY <2>3, <2>7, <3>1 DEF ContractRows, Upto, VersionsInOrder
    <3> DEFINE b == base[r]
    <3>3. /\ b \in contract /\ b.dataset = c.dataset /\ b.tx = Committed
          /\ nb.version = b.version + 1
          /\ nb.columns = Corrected(b.columns, edit[r])
      BY <2>1, <2>2, <3>2 DEF BasesAreStored, ContractRows
    <3> HIDE DEF b
    <3>4. b.version >= cb.version
      BY <2>3, <3>1, <3>3
    <3>5. \/ b.columns[col] = edit[c.by][col]
          \/ \E o \in contract :
                /\ o.dataset = c.dataset /\ o.tx = Committed
                /\ o.version > c.version /\ o.version <= b.version
                /\ o.by \in Override /\ col \in DOMAIN edit[o.by]
      BY <2>1, <3>1, <3>3, <3>4 DEF CorrectionsSurvive
    <3>6. CASE col \in DOMAIN edit[r]
      BY <2>1, <2>2, <2>3, <3>1, <3>2, <3>6
    <3>7. CASE col \notin DOMAIN edit[r] /\ b.columns[col] = edit[c.by][col]
      BY <2>2, <2>4, <3>3, <3>7 DEF Corrected
    <3>8. ASSUME NEW o \in contract,
                 o.dataset = c.dataset, o.tx = Committed,
                 o.version > c.version, o.version <= b.version,
                 o.by \in Override, col \in DOMAIN edit[o.by]
          PROVE  o \in contract' /\ o.version <= n.version
      BY <1>4, <1>6, <2>2, <2>3, <3>3, <3>8
    <3> QED
      BY <3>5, <3>6, <3>7, <3>8
  <2> QED
    BY <2>2, <2>5, <2>6, <2>7
<1>19. LogAgrees'
  <2>1. ASSUME NEW c \in contract', c.tx = Committed
        PROVE  [action |-> IF c.by \in Override THEN "corrected" ELSE "created",
                dataset |-> c.dataset, by |-> c.by, tx |-> Committed] \in audit'
    <3>1. PICK b \in contract :
            /\ c.dataset = b.dataset /\ c.by = b.by
            /\ c.tx = IF b.tx = r THEN Committed ELSE b.tx
      BY <1>3
    <3>2. CASE b.tx = r /\ r \in Override
      <4>1. b.by = r /\ b.dataset = target[r]
        BY <2>1, <3>1, <3>2 DEF ContractRows, Upto
      <4>2. [action |-> "corrected", dataset |-> target[r], by |-> r, tx |-> r]
              \in audit
        BY <1>1, <3>2 DEF AuditRows
      <4> QED
        BY <1>5, <3>1, <3>2, <4>1, <4>2
    <3>3. CASE b.tx = r /\ r \in Upload
      <4>1. b.by = r /\ b.dataset = r
        BY <2>1, <3>1, <3>3 DEF ContractRows, Upto
      <4>2. [action |-> "created", dataset |-> r, by |-> r, tx |-> r] \in audit
        BY <1>1, <3>3 DEF AuditRows
      <4> QED
        BY <1>5, <3>1, <3>3, <4>1, <4>2
    <3>4. CASE b.tx # r
      BY <1>5, <1>6, <2>1, <3>1, <3>4 DEF LogAgrees, ContractsAreLogged
    <3> QED
      BY <3>2, <3>3, <3>4
  <2>2. ASSUME NEW e \in audit', e.action = "deleted"
        PROVE  /\ e \in audit /\ pc[e.dataset] = "done" /\ e.dataset \in Dataset
               /\ e.dataset # r
    BY <1>1, <1>5, <1>6, <2>2 DEF AuditRows, FilesInStep, Upto, TypeOK
  <2>3. ASSUME NEW e \in audit', e.action = "deleted"
        PROVE  /\ Stored(e.dataset) \notin dataset' /\ Stored(e.dataset) \notin source'
               /\ \A c \in contract' : c.dataset # e.dataset
               /\ files[e.dataset] \subseteq Stuck
               /\ \A x \in audit' :
                     x.action = "deleted" /\ x.dataset = e.dataset => x = e
    <3>1. Stored(e.dataset) \notin dataset'
      BY <1>8, <2>2, <2>3
      DEF LogAgrees, ContractsAreLogged, EventsAreTrue, DeletionsAreTrue, Gone
    <3>2. Stored(e.dataset) \notin source'
      BY <1>2, <1>6, <2>2, <2>3
      DEF LogAgrees, ContractsAreLogged, EventsAreTrue, DeletionsAreTrue,
          Gone, SourceRows, Upto, Stored, TypeOK
    <3>3. \A c \in contract' : c.dataset # e.dataset
      BY <1>3, <2>2, <2>3
      DEF LogAgrees, ContractsAreLogged, EventsAreTrue, DeletionsAreTrue, Gone
    <3> QED
      BY <2>2, <2>3, <3>1, <3>2, <3>3
      DEF LogAgrees, ContractsAreLogged, EventsAreTrue, DeletionsAreTrue, Gone
  <2>4. Gone' = Gone
    <3>1. \A b \in audit : b.action = "deleted" => b.tx # r
      BY <1>6 DEF AuditRows
    <3>2. \A x : (\E e \in audit' : e.action = "deleted" /\ e.dataset = x)
                <=> \E e \in audit : e.action = "deleted" /\ e.dataset = x
      BY <1>5, <3>1
    <3> QED
      BY <3>2 DEF Gone
  <2>5. ASSUME NEW e \in audit', e.tx = Committed, e.dataset \notin Gone
        PROVE  /\ Stored(e.dataset) \in dataset'
               /\ \E c \in contract' :
                     c.dataset = e.dataset /\ c.by = e.by /\ c.tx = Committed
    <3>1. PICK b \in audit :
            /\ e.action = b.action /\ e.dataset = b.dataset /\ e.by = b.by
            /\ e.tx = IF b.tx = r THEN Committed ELSE b.tx
      BY <1>5
    <3>2. CASE b.tx # r
      <4>1. /\ Stored(e.dataset) \in dataset /\ e.dataset \in Dataset
            /\ \E c \in contract :
                  c.dataset = e.dataset /\ c.by = e.by /\ c.tx = Committed
        BY <2>5, <3>1, <3>2 DEF LogAgrees, EventsAreTrue, TypeOK
      <4> QED
        BY <1>4, <1>6, <1>7, <4>1
    <3>3. CASE b.tx = r
      <4>1. b.by = r /\ b.action # "deleted"
        BY <1>6, <3>3 DEF AuditRows, Upto
      <4>2. PICK c \in contract : c.by = r /\ c.tx = r
        BY <1>1 DEF ContractRows
      <4>3. c.dataset = b.dataset
        <5>1. r \in Upload => c.dataset = r /\ b.dataset = r
          BY <4>1, <4>2 DEF AuditRows, ContractRows, TypeOK
        <5>2. r \in Override => c.dataset = target[r] /\ b.dataset = target[r]
          BY <4>1, <4>2 DEF AuditRows, ContractRows, TypeOK
        <5> QED
          BY <5>1, <5>2
      <4>4. Stored(c.dataset) \in dataset'
        <5>1. CASE r \in Upload
          <6>1. [id |-> r, tx |-> r] \in dataset
            BY <1>1, <5>1 DEF DatasetRows
          <6>2. Stored(r) \in dataset' /\ c.dataset = r
            BY <1>2, <4>2, <5>1, <6>1 DEF ContractRows
          <6> QED
            BY <6>2
        <5>2. CASE r \in Override
          BY <1>7, <4>2, <5>2 DEF BasesAreStored, TypeOK, Contract
        <5> QED
          BY <5>1, <5>2
      <4> QED
        BY <1>4, <3>1, <4>1, <4>2, <4>3, <4>4
    <3> QED
      BY <3>2, <3>3
  <2>6. ContractsAreLogged' /\ EventsAreTrue'
    BY <2>1, <2>4, <2>5 DEF ContractsAreLogged, EventsAreTrue, Stored
  <2>7. DeletionsAreTrue'
    BY <1>1, <2>3 DEF DeletionsAreTrue, Stored
  <2> QED
    BY <2>6, <2>7 DEF LogAgrees
<1> QED
  BY <1>9, <1>10, <1>11, <1>12, <1>13, <1>14, <1>15, <1>16, <1>17, <1>18, <1>19

\* A deletion takes the dataset, its source and all its contracts: nobody else
\* has one in flight.
LEMMA CommitDeleteKeeps ==
  ASSUME Basic, Rest, NEW r \in Delete, CommitDelete(r)
  PROVE  /\ contract' = {c \in contract : c.dataset # target[r]}
         /\ target[r] \in Dataset /\ Stored(target[r]) \in dataset
         /\ Rest'
<1> USE RequestAssumption DEF Basic, Rest
<1> DEFINE d == target[r]
<1> DEFINE event == [action |-> "deleted", dataset |-> d, by |-> r, tx |-> Committed]
<1>1. /\ <<d, r>> \in deleting /\ Stored(d) \in dataset /\ d \in Dataset
      /\ \A c \in contract : c.dataset = d => c.tx = Committed
      /\ \A x \in deleting : x[1] = d => x = <<d, r>>
  BY DEF CommitDelete, DeletingRows, TypeOK
<1>2. /\ pc[r] = "sent" /\ pc' = [pc EXCEPT ![r] = "done"]
      /\ dataset' = dataset \ {Stored(d)} /\ source' = source \ {Stored(d)}
      /\ contract' = {c \in contract : c.dataset # d}
      /\ audit' = audit \cup {event}
      /\ deleting' = deleting \ {<<d, r>>}
      /\ UNCHANGED <<files, target, base, edit>>
  BY <1>1 DEF CommitDelete, Goto, locals, Stored
<1>3. pc[d] = "done" /\ files[d] \subseteq Stuck
  BY <1>2 DEF FilesInStep
<1>4. event.action = "deleted" /\ event.dataset = d /\ event.by = r
      /\ event.tx = Committed
  OBVIOUS
<1> HIDE DEF d, event
<1>5. d = target[r]
  BY DEF d
<1>6. DatasetRows' /\ SourceRows'
  BY <1>2 DEF DatasetRows, SourceRows, Upto, Stored, TypeOK
<1>7. ContractRows'
  BY <1>1, <1>2 DEF ContractRows, Upto, TypeOK
<1>8. AuditRows'
  <2>1. \A e \in audit' : e \in audit \/ e = event
    BY <1>2
  <2> QED
    BY <1>2, <1>4, <1>5, <2>1 DEF AuditRows, Upto, TypeOK
<1>9. DeletingRows'
  <2>1. \A x \in deleting' : x \in deleting /\ x[1] # d /\ x[2] # r
    BY <1>1, <1>2, <1>5 DEF DeletingRows
  <2>2. \A x \in deleting' : Stored(x[1]) \in dataset'
    BY <1>2, <2>1 DEF DeletingRows, Stored
  <2>3. \A q \in Delete : pc'[q] = "sent" => <<target[q], q>> \in deleting'
    BY <1>2 DEF DeletingRows, TypeOK
  <2> QED
    BY <1>2, <2>1, <2>2, <2>3 DEF DeletingRows, Stored, TypeOK
<1>10. FilesInStep'
  BY <1>2 DEF FilesInStep, TypeOK
<1>11. BasesAreStored'
  BY <1>1, <1>2 DEF BasesAreStored, Stored, TypeOK
<1>12. VersionsInOrder' /\ CorrectionsSurvive'
  BY <1>2 DEF VersionsInOrder, CorrectionsSurvive
<1>13. CompleteAtOnce'
  BY <1>2 DEF CompleteAtOnce, Discarding, Stored, TypeOK
<1>14. LogAgrees'
  <2>1. ASSUME NEW e \in audit', e.action = "deleted"
        PROVE  /\ Stored(e.dataset) \notin dataset' /\ Stored(e.dataset) \notin source'
               /\ \A c \in contract' : c.dataset # e.dataset
               /\ files[e.dataset] \subseteq Stuck
               /\ \A x \in audit' :
                     x.action = "deleted" /\ x.dataset = e.dataset => x = e
    <3>1. \A x \in audit : x.action = "deleted" => x.dataset # d
      BY <1>1
      DEF LogAgrees, ContractsAreLogged, EventsAreTrue, DeletionsAreTrue, Gone
    <3>2. CASE e = event
      BY <1>2, <1>3, <1>4, <3>1, <3>2
    <3>3. CASE e \in audit
      BY <1>2, <1>4, <2>1, <3>1, <3>3
      DEF LogAgrees, ContractsAreLogged, EventsAreTrue, DeletionsAreTrue, Gone
    <3> QED
      BY <1>2, <3>2, <3>3
  <2>2. Gone' = Gone \cup {d}
    BY <1>2, <1>4 DEF Gone
  <2>3. ContractsAreLogged'
    BY <1>2 DEF LogAgrees, ContractsAreLogged
  <2>4. EventsAreTrue'
    <3> SUFFICES ASSUME NEW e \in audit', e.tx = Committed, e.dataset \notin Gone'
                 PROVE  /\ Stored(e.dataset) \in dataset'
                        /\ \E c \in contract' :
                              /\ c.dataset = e.dataset /\ c.by = e.by
                              /\ c.tx = Committed
      BY DEF EventsAreTrue, Stored
    <3>1. e \in audit /\ e.dataset # d /\ e.dataset \notin Gone
      BY <1>2, <1>4, <2>2
    <3>2. Stored(e.dataset) # Stored(d)
      BY <3>1 DEF Stored
    <3> QED
      BY <1>2, <3>1, <3>2 DEF LogAgrees, EventsAreTrue
  <2>5. DeletionsAreTrue'
    BY <1>2, <2>1 DEF DeletionsAreTrue, Stored
  <2> QED
    BY <2>3, <2>4, <2>5 DEF LogAgrees
<1> QED
  BY <1>1, <1>2, <1>5, <1>6, <1>7, <1>8, <1>9, <1>10, <1>11, <1>12, <1>13, <1>14

\* Every step keeps the invariant.
LEMMA NextRest == Basic /\ Rest /\ [Next]_vars => Rest'
<1> SUFFICES ASSUME Basic, Rest, [Next]_vars PROVE Rest'
  OBVIOUS
<1>1. ASSUME NEW u \in Upload, Compensate(u) PROVE Rest'
  BY <1>1, RollbackKeeps DEF Compensate, Discard
<1>2. ASSUME NEW r \in Request, Fail(r) PROVE Rest'
  <2>1. pc[r] \in Running
    BY <1>2 DEF Fail
  <2> QED
    BY <1>2, <2>1, RollbackKeeps DEF Fail
<1>3. ASSUME NEW r \in Request, Crash(r) PROVE Rest'
  BY <1>3, RollbackKeeps DEF Crash
<1>4. ASSUME NEW r \in Override, InsertNext(r) PROVE Rest'
  <2>1. CASE target[r] \in Seen(r) /\ SameVersion(NextContract(r)) = {}
    BY <1>4, <2>1, InsertNextKeeps
  <2>2. CASE ~(target[r] \in Seen(r) /\ SameVersion(NextContract(r)) = {})
    BY <1>4, <2>2, RollbackKeeps DEF InsertNext
  <2> QED
    BY <2>1, <2>2
<1>5. CASE UNCHANGED vars
  <2> USE DEF vars, rows, locals, Rest
  <2>1. DatasetRows' /\ SourceRows' /\ ContractRows' /\ AuditRows'
    BY <1>5 DEF DatasetRows, SourceRows, ContractRows, AuditRows, Upto
  <2>2. DeletingRows' /\ FilesInStep' /\ BasesAreStored' /\ VersionsInOrder'
    BY <1>5 DEF DeletingRows, FilesInStep, BasesAreStored, VersionsInOrder, Stored
  <2>3. CompleteAtOnce' /\ CorrectionsSurvive' /\ LogAgrees'
    BY <1>5
    DEF CompleteAtOnce, CorrectionsSurvive, LogAgrees, ContractsAreLogged,
        EventsAreTrue, DeletionsAreTrue, Gone, Discarding, Stored
  <2> QED
    BY <2>1, <2>2, <2>3
<1> QED
  BY <1>1, <1>2, <1>3, <1>4, <1>5, WritesKeep, InsertDatasetKeeps,
     InsertSourceKeeps, InsertFirstKeeps, LogKeeps, LocateKeeps, ReadLatestKeeps,
     CommitKeeps, DiscardFilesKeeps, DeleteRowKeeps, CommitDeleteKeeps
  DEF Next, UploadStep, OverrideStep, DeleteStep

-----------------------------------------------------------------------------
(* The theorems.                                                           *)

\* The invariant holds in every reachable state.
THEOREM InductiveInvariant == Spec => []IInv
<1>1. Init => IInv
  BY InitBasic, InitRest DEF IInv
<1>2. IInv /\ [Next]_vars => IInv'
  BY NextBasic, NextRest DEF IInv
<1> QED
  BY <1>1, <1>2, PTL DEF Spec

\* Whoever sees a dataset sees all of it, and its files are there until a
\* deletion asks for them: no order of failures leaves half a dataset.
THEOREM DatasetsAreComplete == Spec => []CompleteAtOnce
<1>1. IInv => CompleteAtOnce
  BY DEF IInv, Rest
<1> QED
  BY <1>1, InductiveInvariant, PTL

\* Two corrections at the same time never lose one another: the unique
\* constraint on dataset and version is enough.
THEOREM NoCorrectionIsLost == Spec => []CorrectionsSurvive
<1>1. IInv => CorrectionsSurvive
  BY DEF IInv, Rest
<1> QED
  BY <1>1, InductiveInvariant, PTL

\* Every committed contract has its event, what an event says was made is
\* there unless a deletion is on record, and what was deleted is gone.
THEOREM TheLogIsTrue == Spec => []LogAgrees
<1>1. IInv => LogAgrees
  BY DEF IInv, Rest
<1> QED
  BY <1>1, InductiveInvariant, PTL

-----------------------------------------------------------------------------
(* The contracts implement SchemaHistory.                                  *)

\* The committed contract c as SchemaHistory knows it.
Entry(c) ==
    [dataset |-> c.dataset, version |-> c.version, columns |-> c.columns,
     edit |-> IF c.by \in Override THEN edit[c.by] ELSE None]

\* A dataset's history is its committed contracts.
LEMMA VersionsAreEntries ==
  Versions = {Entry(c) : c \in {x \in contract : x.tx = Committed}}
BY DEF Versions, Entry

\* Until a commit nothing shows: what is in flight is in no history.
LEMMA UncommittedStep ==
  ASSUME {e \in audit' : e.action = "deleted"} = {e \in audit : e.action = "deleted"},
         {c \in contract' : c.tx = Committed} = {c \in contract : c.tx = Committed},
         \A c \in contract : c.tx = Committed /\ c.by \in Override =>
             edit'[c.by] = edit[c.by]
  PROVE  UNCHANGED <<Versions, Gone>>
<1>1. Versions' = Versions
  BY DEF Versions
<1>2. Gone' = Gone
  BY DEF Gone
<1> QED
  BY <1>1, <1>2

\* Every step but a commit is such a step.
LEMMA QuietSteps ==
  ASSUME IInv, [Next]_vars, ~\E r \in Upload \cup Override : Commit(r),
         ~\E r \in Delete : CommitDelete(r)
  PROVE  UNCHANGED <<Versions, Gone>>
<1> USE RequestAssumption DEF IInv, Basic, Rest
<1>1. ASSUME NEW r \in Request, Rollback(r), pc[r] # "done", UNCHANGED locals
      PROVE  UNCHANGED <<Versions, Gone>>
  <2>1. {e \in audit' : e.action = "deleted"} = {e \in audit : e.action = "deleted"}
    BY <1>1 DEF Rollback, Undone, AuditRows
  <2>2. {c \in contract' : c.tx = Committed} = {c \in contract : c.tx = Committed}
    BY <1>1 DEF Rollback, Undone
  <2> QED
    BY <1>1, <2>1, <2>2, UncommittedStep DEF locals
<1>2. ASSUME NEW u \in Upload, InsertFirst(u) PROVE UNCHANGED <<Versions, Gone>>
  <2>1. {c \in contract' : c.tx = Committed} = {c \in contract : c.tx = Committed}
    BY <1>2 DEF InsertFirst
  <2> QED
    BY <1>2, <2>1, UncommittedStep DEF InsertFirst, locals
<1>3. ASSUME NEW r \in Override, InsertNext(r) PROVE UNCHANGED <<Versions, Gone>>
  <2>1. CASE contract' = contract \cup {NextContract(r)} /\ UNCHANGED audit
    <3>1. NextContract(r).tx # Committed
      BY DEF NextContract
    <3>2. {c \in contract' : c.tx = Committed} = {c \in contract : c.tx = Committed}
      BY <2>1, <3>1
    <3> QED
      BY <1>3, <2>1, <3>2, UncommittedStep DEF InsertNext, locals
  <2>2. CASE Rollback(r)
    BY <1>1, <1>3, <2>2 DEF InsertNext
  <2> QED
    BY <1>3, <2>1, <2>2 DEF InsertNext
<1>4. ASSUME NEW r \in Override, ReadLatest(r) PROVE UNCHANGED <<Versions, Gone>>
  <2>1. \A c \in contract : c.tx = Committed => c.by # r
    BY <1>4 DEF ReadLatest, ContractRows, Upto
  <2> QED
    BY <1>4, <2>1, UncommittedStep DEF ReadLatest, rows, TypeOK
<1>5. ASSUME \/ \E u \in Upload : LogUpload(u)
             \/ \E r \in Override : LogOverride(r)
      PROVE  UNCHANGED <<Versions, Gone>>
  <2>1. PICK e : e.action # "deleted" /\ audit' = audit \cup {e}
    BY <1>5 DEF LogUpload, LogOverride
  <2> QED
    BY <1>5, <2>1, UncommittedStep DEF LogUpload, LogOverride, locals
<1>6. ASSUME \/ \E u \in Upload : Store(u) \/ Normalize(u) \/ InsertDataset(u)
                                   \/ InsertSource(u)
             \/ \E r \in Override : Locate(r)
             \/ \E r \in Delete : DiscardFiles(r) \/ DeleteRow(r)
             \/ UNCHANGED vars
      PROVE  UNCHANGED <<Versions, Gone>>
  <2>1. UNCHANGED <<contract, audit, edit>>
    BY <1>6 DEF Store, Normalize, InsertDataset, InsertSource, Locate,
                DiscardFiles, DeleteRow, rows, locals, vars
  <2> QED
    BY <2>1, UncommittedStep
<1> QED
  BY <1>1, <1>2, <1>3, <1>4, <1>5, <1>6
  DEF Next, UploadStep, OverrideStep, DeleteStep, Compensate, Fail, Crash

\* A commit adds the one contract its request has made.
LEMMA CommitAddsOne ==
  ASSUME IInv, NEW r \in Upload \cup Override, Commit(r)
  PROVE  \E w \in contract :
           /\ w.by = r /\ w.tx = r
           /\ Versions' = Versions \cup {Entry(w)} /\ UNCHANGED Gone
<1> USE RequestAssumption DEF IInv, Basic, Rest
<1>1. /\ pc[r] = "sent" /\ contract' = Settled(contract, r)
      /\ audit' = Settled(audit, r) /\ UNCHANGED edit
  BY DEF Commit, locals
<1>2. PICK w \in contract : w.by = r /\ w.tx = r
  BY <1>1 DEF ContractRows
<1>3. \A c \in contract : c.tx = r => c = w
  BY <1>2 DEF ContractRows, VersionsInOrder, Upto
<1>4. ASSUME NEW c \in contract', c.tx = Committed
      PROVE  \E b \in contract : b.tx \in {r, Committed} /\ Entry(c) = Entry(b)
  <2>1. PICK b \in contract :
          /\ c.dataset = b.dataset /\ c.version = b.version
          /\ c.columns = b.columns /\ c.by = b.by
          /\ c.tx = IF b.tx = r THEN Committed ELSE b.tx
    BY <1>1, SettledContracts
  <2> QED
    BY <1>4, <2>1 DEF Entry
<1>5. ASSUME NEW b \in contract, b.tx \in {r, Committed}
      PROVE  \E c \in contract' : c.tx = Committed /\ Entry(c) = Entry(b)
  <2>1. PICK c \in contract' :
          /\ c.dataset = b.dataset /\ c.version = b.version
          /\ c.columns = b.columns /\ c.by = b.by
          /\ c.tx = IF b.tx = r THEN Committed ELSE b.tx
    BY <1>1, SettledContracts
  <2> QED
    BY <1>5, <2>1 DEF Entry
<1>6. Versions' = {Entry(c) : c \in {x \in contract' : x.tx = Committed}}
  BY <1>1 DEF Versions, Entry
<1>7. Versions' = Versions \cup {Entry(w)}
  BY <1>2, <1>3, <1>4, <1>5, <1>6, VersionsAreEntries
<1>8. Gone' = Gone
  <2>1. \A x \in audit' : x.action = "deleted" => x \in audit
    BY <1>1, SettledEvents DEF AuditRows
  <2>2. \A x \in audit : x.action = "deleted" => x \in audit'
    BY <1>1, SettledEvents DEF AuditRows
  <2> QED
    BY <2>1, <2>2 DEF Gone
<1> QED
  BY <1>2, <1>7, <1>8

\* An upload's commit begins a history,
LEMMA UploadDetects ==
  ASSUME IInv, NEW u \in Upload, Commit(u) PROVE History!Detect(u)
<1> USE RequestAssumption DEF IInv, Basic, Rest
<1>1. pc[u] = "sent"
  BY DEF Commit
<1>2. PICK w \in contract :
        /\ w.by = u /\ w.tx = u
        /\ Versions' = Versions \cup {Entry(w)} /\ UNCHANGED Gone
  BY CommitAddsOne
<1>3. Entry(w) = [dataset |-> u, version |-> 1, columns |-> w.columns, edit |-> None]
  BY <1>2 DEF Entry, ContractRows
<1>4. w.columns \in [Column -> Type]
  BY DEF TypeOK, Contract
<1>5. \A c \in contract : c.tx = Committed => c.dataset # u
  <2> SUFFICES ASSUME NEW c \in contract, c.tx = Committed, c.dataset = u
               PROVE  FALSE
    OBVIOUS
  <2>1. CASE c.by \in Upload
    BY <1>1, <2>1 DEF ContractRows, Upto
  <2>2. CASE c.by \in Override
    <3>1. Stored(u) \in dataset
      BY <2>2 DEF BasesAreStored
    <3> QED
      BY <1>1, <3>1 DEF DatasetRows, Stored, Upto
  <2> QED
    BY <2>1, <2>2 DEF ContractRows
<1>6. History!Of(u) = {}
  BY <1>5, VersionsAreEntries DEF History!Of, Entry
<1>7. u \notin Gone
  BY <1>1 DEF Gone, AuditRows, FilesInStep, Upto
<1> QED
  BY <1>2, <1>3, <1>4, <1>6, <1>7 DEF History!Detect

\* an override's corrects the newest contract,
LEMMA OverrideCorrects ==
  ASSUME IInv, NEW r \in Override, Commit(r) PROVE History!Correct(target[r])
<1> USE RequestAssumption DEF IInv, Basic, Rest
<1>1. pc[r] = "sent" /\ edit[r] \in Edit
  BY DEF Commit
<1>2. PICK w \in contract :
        /\ w.by = r /\ w.tx = r
        /\ Versions' = Versions \cup {Entry(w)} /\ UNCHANGED Gone
  BY CommitAddsOne
<1> DEFINE newest == Entry(base[r])
<1>3. /\ base[r] \in contract /\ base[r].tx = Committed
      /\ base[r].dataset = target[r] /\ base[r].version \in Nat
      /\ w.dataset = target[r] /\ w.version = base[r].version + 1
      /\ w.columns = Corrected(base[r].columns, edit[r])
  BY <1>2 DEF BasesAreStored, ContractRows, TypeOK, Contract
<1>4. /\ newest \in Versions /\ newest.dataset = target[r]
      /\ newest.version = base[r].version /\ newest.columns = base[r].columns
  BY <1>3, VersionsAreEntries DEF Entry
<1>5. \A c \in contract : c.dataset = target[r] /\ c.tx = Committed =>
        c.version <= base[r].version
  <2> SUFFICES ASSUME NEW c \in contract, c.dataset = target[r], c.tx = Committed
               PROVE  c.version < w.version
    BY <1>3 DEF TypeOK, Contract
  <2>1. c # w /\ w.tx # Committed
    BY <1>2
  <2>2. ~(c.version = w.version) /\ ~(w.version < c.version)
    BY <1>2, <1>3, <2>1 DEF VersionsInOrder
  <2> QED
    BY <1>3, <2>2 DEF TypeOK, Contract
<1>6. newest \in History!Of(target[r])
      /\ \A c \in History!Of(target[r]) : c.version <= newest.version
  BY <1>4, <1>5, VersionsAreEntries DEF History!Of, Entry
<1>7. Entry(w) = [dataset |-> target[r], version |-> newest.version + 1,
                  columns |-> History!Corrected(newest.columns, edit[r]),
                  edit |-> edit[r]]
  BY <1>2, <1>3, <1>4 DEF Entry, Corrected, History!Corrected
<1> HIDE DEF newest
<1> QED
  BY <1>1, <1>2, <1>6, <1>7 DEF History!Correct

\* and a deletion's ends the history.
LEMMA DeletionWithdraws ==
  ASSUME IInv, NEW r \in Delete, CommitDelete(r) PROVE History!Withdraw(target[r])
<1> USE RequestAssumption DEF IInv
<1>1. /\ contract' = {c \in contract : c.dataset # target[r]}
      /\ target[r] \in Dataset /\ Stored(target[r]) \in dataset
  BY CommitDeleteKeeps
<1>2. target[r] \notin Gone
  BY <1>1
  DEF Gone, Rest, LogAgrees, ContractsAreLogged, EventsAreTrue,
      DeletionsAreTrue, Gone
<1>3. Gone' = Gone \cup {target[r]}
  <2> DEFINE e == [action |-> "deleted", dataset |-> target[r], by |-> r,
                   tx |-> Committed]
  <2>1. audit' = audit \cup {e} /\ e.action = "deleted" /\ e.dataset = target[r]
    BY DEF CommitDelete
  <2> HIDE DEF e
  <2> QED
    BY <2>1 DEF Gone
<1>4. Versions' = {Entry(c) : c \in {x \in contract' : x.tx = Committed}}
  BY DEF CommitDelete, Versions, Entry, locals
<1>5. Versions' = Versions \ History!Of(target[r])
  BY <1>1, <1>4, VersionsAreEntries DEF History!Of, Entry
<1> QED
  BY <1>2, <1>3, <1>5 DEF History!Withdraw

\* Reading the newest contract and inserting the next one is as good as doing
\* both at once: the committed contracts are a SchemaHistory.
THEOREM HistoryIsImplemented == Spec => HistorySpec
<1>1. Init => History!Init
  BY DEF Init, History!Init, Versions, Gone
<1>2. IInv /\ [Next]_vars => [History!Next]_<<Versions, Gone>>
  <2> SUFFICES ASSUME IInv, [Next]_vars
               PROVE  History!Next \/ UNCHANGED <<Versions, Gone>>
    OBVIOUS
  <2> USE RequestAssumption
  <2>1. CASE \E u \in Upload : Commit(u)
    BY <2>1, UploadDetects DEF History!Next
  <2>2. CASE \E r \in Override : Commit(r)
    <3>1. PICK r \in Override : Commit(r)
      BY <2>2
    <3>2. target[r] \in Dataset
      BY DEF IInv, Basic, TypeOK
    <3> QED
      BY <3>1, <3>2, OverrideCorrects DEF History!Next
  <2>3. CASE \E r \in Delete : CommitDelete(r)
    <3>1. PICK r \in Delete : CommitDelete(r)
      BY <2>3
    <3>2. target[r] \in Dataset
      BY DEF IInv, Basic, TypeOK
    <3> QED
      BY <3>1, <3>2, DeletionWithdraws DEF History!Next
  <2> QED
    BY <2>1, <2>2, <2>3, QuietSteps
<1> QED
  BY <1>1, <1>2, InductiveInvariant, PTL DEF Spec, HistorySpec, History!Spec
=============================================================================
