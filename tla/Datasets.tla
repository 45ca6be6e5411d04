------------------------------ MODULE Datasets ------------------------------
(***************************************************************************)
(* A dataset's life in two stores: files in the object store and rows in   *)
(* PostgreSQL, of which only the rows are rolled back.  Uploads create it  *)
(* (IngestService.commit), overrides add contract versions                 *)
(* (override_schema), deletions remove files first and then rows           *)
(* (IngestService.delete_dataset).                                         *)
(*                                                                         *)
(* As in Computations, a request is one READ COMMITTED transaction, an     *)
(* action is one statement with the code up to the next await, a statement *)
(* that would wait is not enabled, and the response precedes the commit.   *)
(***************************************************************************)
EXTENDS Naturals, FiniteSets

CONSTANTS
    Upload,         \* POST /datasets and /datasets/samples requests
    Override,       \* POST /datasets/.../schema requests
    Delete,         \* DELETE /datasets/... requests
    Column,         \* the columns of a dataset
    Name,           \* the column names a request may mention
    Type,           \* logical types
    Stuck,          \* the files that rmtree cannot remove
    Committed,      \* the transaction of a row everybody sees
    None            \* derived_from of version 1

Request == Upload \cup Override \cup Delete
Dataset == Upload               \* the uuid an upload draws for its dataset
Tx      == Upload \cup Override \cup {Committed}

ASSUME RequestAssumption ==
    /\ Upload \cap Override = {} /\ Upload \cap Delete = {}
    /\ Override \cap Delete = {}
    /\ Committed \notin Request /\ None \notin Request
ASSUME NameAssumption == Column \subseteq Name /\ Type # {}

File == {"source", "data"}

ASSUME StuckAssumption == Stuck \subseteq File

\* What an override asks for, and what of it override.apply accepts.
Wish == UNION {[S -> Type] : S \in SUBSET Name}
Edit == UNION {[S -> Type] : S \in (SUBSET Column) \ {{}}}

\* A contract: `by` stands for its id, as a request inserts at most one.
Contract == [dataset: Dataset, version: Nat, columns: [Column -> Type],
             by: Request, derived: Request \cup {None}, tx: Tx]

VARIABLES
    files,      \* the files of a dataset in the object store
    dataset,    \* rows of `dataset`, in-flight ones included
    source,     \* rows of `source_file`, likewise
    contract,   \* rows of `schema_contract`, likewise
    audit,      \* rows of `audit_event`, likewise: <<action, dataset, request, tx>>
    deleting,   \* <<dataset, request>>: row deleted, not yet committed
    pc,         \* the statement a request has reached
    target,     \* the dataset an override or a deletion is about
    base,       \* the contract an override read
    edit        \* what the override changes

rows == <<dataset, source, contract, audit>>
locals == <<target, base, edit>>
vars == <<files, rows, deleting, pc, locals>>

Ended   == {"done", "refused", "failed", "crashed"}
Running == {"stored", "normalized", "dataset", "source", "contract", "located",
            "insert", "log", "delete", "sent"}

TypeOK ==
    /\ files \in [Dataset -> SUBSET File]
    /\ dataset \subseteq [id: Dataset, tx: Tx]
    /\ source \subseteq [id: Dataset, tx: Tx]
    /\ contract \subseteq Contract
    /\ audit \subseteq [action: {"created", "corrected", "deleted"},
                        dataset: Dataset, by: Request, tx: Tx]
    /\ deleting \subseteq Dataset \X Delete
    /\ pc \in [Request -> {"idle"} \cup Running \cup Ended]
    /\ target \in [Override \cup Delete -> Dataset]
    /\ base \in [Override -> Contract \cup {None}]
    /\ edit \in [Override -> Edit \cup {None}]

Init ==
    /\ files = [d \in Dataset |-> {}]
    /\ dataset = {} /\ source = {} /\ contract = {} /\ audit = {}
    /\ deleting = {}
    /\ pc = [r \in Request |-> "idle"]
    /\ target \in [Override \cup Delete -> Dataset]
    /\ base = [r \in Override |-> None]
    /\ edit = [r \in Override |-> None]

-----------------------------------------------------------------------------
(* READ COMMITTED, the unique constraint and the foreign keys.             *)

Seen(r) == {row.id : row \in {x \in dataset : x.tx \in {r, Committed}}}

Contracts(r, d) ==
    {c \in contract : c.dataset = d /\ c.tx \in {r, Committed}}

\* override.apply: columns nobody touched are carried over unchanged,
Corrected(columns, e) ==
    [col \in Column |-> IF col \in DOMAIN e THEN e[col] ELSE columns[col]]

\* and the result is the next version of the contract that was read.
NextContract(r) ==
    [dataset |-> target[r], version |-> base[r].version + 1,
     columns |-> Corrected(base[r].columns, edit[r]),
     by |-> r, derived |-> base[r].by, tx |-> r]

\* (Mutant: no unique constraint on dataset and version.)
AnyVersion(c) == {}

\* uq_schema_contract_dataset_id_version_no: the rows that conflict with c.
SameVersion(c) ==
    {x \in contract : x.dataset = c.dataset /\ x.version = c.version}

Blockers(r) ==
    {t \in Request \ {r} :
        \/ /\ pc[r] = "insert"
           /\ \/ \E x \in SameVersion(NextContract(r)) : x.tx = t
              \/ <<target[r], t>> \in deleting
        \/ /\ pc[r] = "delete"
           /\ \/ \E c \in contract : c.dataset = target[r] /\ c.tx = t
              \/ <<target[r], t>> \in deleting}

Goto(r, label) == pc' = [pc EXCEPT ![r] = label]

\* (Mutant: a transaction that is left open keeps its rows as they are.)
LeftOpen(T, r) == T

Settled(T, r) == {x \in T : x.tx # r}
                 \cup {[x EXCEPT !.tx = Committed] : x \in {y \in T : y.tx = r}}
Undone(T, r)  == {x \in T : x.tx # r}

\* rmtree(ignore_errors=True): what it cannot remove stays, and nobody knows.
Discard(d) == files' = [files EXCEPT ![d] = @ \cap Stuck]

Rollback(r) ==
    /\ dataset' = Undone(dataset, r) /\ source' = Undone(source, r)
    /\ contract' = Undone(contract, r) /\ audit' = Undone(audit, r)
    /\ deleting' = {x \in deleting : x[2] # r}

-----------------------------------------------------------------------------
(* IngestService.commit: files, then rows, then the log.                   *)

\* The upload is copied verbatim, or refused before anything is written.
Store(u) ==
    /\ pc[u] = "idle"
    /\ \/ Goto(u, "stored") /\ files' = [files EXCEPT ![u] = @ \cup {"source"}]
       \/ Goto(u, "refused") /\ UNCHANGED files
    /\ UNCHANGED <<rows, deleting, locals>>

\* normalize_file writes the Parquet file.
Normalize(u) ==
    /\ pc[u] = "stored"
    /\ Goto(u, "normalized")
    /\ files' = [files EXCEPT ![u] = @ \cup {"data"}]
    /\ UNCHANGED <<rows, deleting, locals>>

\* (Mutant: the row is committed before the rest of the dataset is there.)
InsertDatasetAlone(u) ==
    /\ pc[u] = "normalized"
    /\ Goto(u, "dataset")
    /\ dataset' = dataset \cup {[id |-> u, tx |-> Committed]}
    /\ UNCHANGED <<files, source, contract, audit, deleting, locals>>

\* DatasetRepository.create: only now are the counts and the hash known.
InsertDataset(u) ==
    /\ pc[u] = "normalized"
    /\ Goto(u, "dataset")
    /\ dataset' = dataset \cup {[id |-> u, tx |-> u]}
    /\ UNCHANGED <<files, source, contract, audit, deleting, locals>>

InsertSource(u) ==
    /\ pc[u] = "dataset"
    /\ Goto(u, "source")
    /\ source' = source \cup {[id |-> u, tx |-> u]}
    /\ UNCHANGED <<files, dataset, contract, audit, deleting, locals>>

\* Inference reads the file back and decides every column's type.
InsertFirst(u) ==
    /\ pc[u] = "source"
    /\ Goto(u, "contract")
    /\ \E columns \in [Column -> Type] :
          contract' = contract \cup
              {[dataset |-> u, version |-> 1, columns |-> columns,
                by |-> u, derived |-> None, tx |-> u]}
    /\ UNCHANGED <<files, dataset, source, audit, deleting, locals>>

LogUpload(u) ==
    /\ pc[u] = "contract"
    /\ Goto(u, "sent")
    /\ audit' = audit \cup
          {[action |-> "created", dataset |-> u, by |-> u, tx |-> u]}
    /\ UNCHANGED <<files, dataset, source, contract, deleting, locals>>

\* An exception inside the try block: the files are discarded, the
\* transaction rolled back.
Compensate(u) ==
    /\ pc[u] \in {"stored", "normalized", "dataset", "source"}
    /\ Discard(u)
    /\ Rollback(u)
    /\ Goto(u, "failed")
    /\ UNCHANGED locals

-----------------------------------------------------------------------------
(* override_schema.                                                        *)

\* open_dataset: by one query, or 404.
Locate(r) ==
    /\ pc[r] = "idle"
    /\ Goto(r, IF target[r] \in Seen(r) THEN "located" ELSE "refused")
    /\ UNCHANGED <<files, rows, deleting, locals>>

\* (Mutant: the columns named are not compared with the contract's.)
ReadLatestOnly(r) ==
    /\ pc[r] = "located"
    /\ \/ \E c \in Contracts(r, target[r]), e \in Wish :
             /\ \A x \in Contracts(r, target[r]) : x.version <= c.version
             /\ base' = [base EXCEPT ![r] = c]
             /\ edit' = [edit EXCEPT ![r] = e]
             /\ Goto(r, "insert")
       \/ /\ Contracts(r, target[r]) = {}
          /\ Goto(r, "refused")
          /\ UNCHANGED <<base, edit>>
    /\ UNCHANGED <<files, rows, deleting, target>>

\* latest_for_dataset, then override.apply: without a contract a 404, and
\* nothing to change, an unknown column or a repeated one a 422.
ReadLatest(r) ==
    /\ pc[r] = "located"
    /\ \/ \E c \in Contracts(r, target[r]), e \in Wish :
             /\ \A x \in Contracts(r, target[r]) : x.version <= c.version
             /\ IF DOMAIN e \subseteq Column /\ DOMAIN e # {}
                  THEN /\ base' = [base EXCEPT ![r] = c]
                       /\ edit' = [edit EXCEPT ![r] = e]
                       /\ Goto(r, "insert")
                  ELSE Goto(r, "refused") /\ UNCHANGED <<base, edit>>
       \/ /\ Contracts(r, target[r]) = {}
          /\ Goto(r, "refused")
          /\ UNCHANGED <<base, edit>>
    /\ UNCHANGED <<files, rows, deleting, target>>

\* (Mutant: the row refers to no dataset.)
InsertNextUnbound(r) ==
    /\ pc[r] = "insert" /\ Blockers(r) = {}
    /\ IF SameVersion(NextContract(r)) = {}
         THEN /\ contract' = contract \cup {NextContract(r)}
              /\ Goto(r, "log")
              /\ UNCHANGED <<dataset, source, audit, deleting>>
         ELSE Rollback(r) /\ Goto(r, "failed")
    /\ UNCHANGED <<files, locals>>

\* SchemaContractRepository.create: an equal version or a deleted dataset
\* fails the request.
InsertNext(r) ==
    /\ pc[r] = "insert" /\ Blockers(r) = {}
    /\ IF target[r] \in Seen(r) /\ SameVersion(NextContract(r)) = {}
         THEN /\ contract' = contract \cup {NextContract(r)}
              /\ Goto(r, "log")
              /\ UNCHANGED <<dataset, source, audit, deleting>>
         ELSE Rollback(r) /\ Goto(r, "failed")
    /\ UNCHANGED <<files, locals>>

LogOverride(r) ==
    /\ pc[r] = "log"
    /\ Goto(r, "sent")
    /\ audit' = audit \cup
          {[action |-> "corrected", dataset |-> target[r], by |-> r, tx |-> r]}
    /\ UNCHANGED <<files, dataset, source, contract, deleting, locals>>

-----------------------------------------------------------------------------
(* delete_dataset.                                                         *)

\* locate, then the files go at once.
DiscardFiles(r) ==
    /\ pc[r] = "idle"
    /\ IF target[r] \in Seen(r)
         THEN Discard(target[r]) /\ Goto(r, "delete")
         ELSE UNCHANGED files /\ Goto(r, "refused")
    /\ UNCHANGED <<rows, deleting, locals>>

\* DELETE: waits for whoever holds the row; no row left is a 404.
DeleteRow(r) ==
    /\ pc[r] = "delete" /\ Blockers(r) = {}
    /\ IF target[r] \in Seen(r)
         THEN deleting' = deleting \cup {<<target[r], r>>} /\ Goto(r, "sent")
         ELSE UNCHANGED deleting /\ Goto(r, "refused")
    /\ UNCHANGED <<files, rows, locals>>

-----------------------------------------------------------------------------
(* The end of a request.                                                   *)

Commit(r) ==
    /\ pc[r] = "sent" /\ r \in Upload \cup Override
    /\ dataset' = Settled(dataset, r) /\ source' = Settled(source, r)
    /\ contract' = Settled(contract, r) /\ audit' = Settled(audit, r)
    /\ Goto(r, "done")
    /\ UNCHANGED <<files, deleting, locals>>

\* (Mutant: the contracts of a deleted dataset stay.)
CommitDeleteAlone(r) ==
    /\ pc[r] = "sent" /\ r \in Delete
    /\ dataset' = dataset \ {[id |-> target[r], tx |-> Committed]}
    /\ source' = source \ {[id |-> target[r], tx |-> Committed]}
    /\ audit' = audit \cup
          {[action |-> "deleted", dataset |-> target[r], by |-> r, tx |-> Committed]}
    /\ deleting' = deleting \ {<<target[r], r>>}
    /\ Goto(r, "done")
    /\ UNCHANGED <<files, contract, locals>>

\* (Mutant: the deletion is not logged.)
CommitDeleteUnlogged(r) ==
    /\ pc[r] = "sent" /\ r \in Delete
    /\ dataset' = dataset \ {[id |-> target[r], tx |-> Committed]}
    /\ source' = source \ {[id |-> target[r], tx |-> Committed]}
    /\ contract' = {c \in contract : c.dataset # target[r] \/ c.tx # Committed}
    /\ deleting' = deleting \ {<<target[r], r>>}
    /\ Goto(r, "done")
    /\ UNCHANGED <<files, audit, locals>>

\* The rows go with the dataset (ON DELETE CASCADE), the event stays.
CommitDelete(r) ==
    /\ pc[r] = "sent" /\ r \in Delete
    /\ dataset' = dataset \ {[id |-> target[r], tx |-> Committed]}
    /\ source' = source \ {[id |-> target[r], tx |-> Committed]}
    /\ contract' = {c \in contract : c.dataset # target[r] \/ c.tx # Committed}
    /\ audit' = audit \cup
          {[action |-> "deleted", dataset |-> target[r], by |-> r, tx |-> Committed]}
    /\ deleting' = deleting \ {<<target[r], r>>}
    /\ Goto(r, "done")
    /\ UNCHANGED <<files, locals>>

\* A statement or the commit fails where no handler compensates.
Fail(r) ==
    /\ pc[r] \in IF r \in Upload THEN {"contract", "sent"} ELSE Running
    /\ Rollback(r)
    /\ Goto(r, "failed")
    /\ UNCHANGED <<files, locals>>

\* The process dies: PostgreSQL rolls back, the files stay.
Crash(r) ==
    /\ pc[r] \in Running
    /\ Rollback(r)
    /\ Goto(r, "crashed")
    /\ UNCHANGED <<files, locals>>

-----------------------------------------------------------------------------

UploadStep(u) ==
    \/ Store(u) \/ Normalize(u) \/ InsertDataset(u) \/ InsertSource(u)
    \/ InsertFirst(u) \/ LogUpload(u) \/ Commit(u)

OverrideStep(r) ==
    Locate(r) \/ ReadLatest(r) \/ InsertNext(r) \/ LogOverride(r) \/ Commit(r)

DeleteStep(r) == DiscardFiles(r) \/ DeleteRow(r) \/ CommitDelete(r)

Next ==
    \/ \E u \in Upload : UploadStep(u) \/ Compensate(u)
    \/ \E r \in Override : OverrideStep(r)
    \/ \E r \in Delete : DeleteStep(r)
    \/ \E r \in Request : Fail(r) \/ Crash(r)

Spec == Init /\ [][Next]_vars

\* A started handler keeps running; nothing need arrive and nothing need fail.
FairSpec ==
    /\ Spec
    /\ \A u \in Upload : WF_vars(pc[u] # "idle" /\ UploadStep(u))
    /\ \A r \in Override : WF_vars(pc[r] # "idle" /\ OverrideStep(r))
    /\ \A r \in Delete : WF_vars(pc[r] # "idle" /\ DeleteStep(r))

-----------------------------------------------------------------------------
(* Properties.                                                             *)

Stored(d) == [id |-> d, tx |-> Committed]

\* Whether a deletion has got as far as the files of d.
Discarding(d) ==
    \E r \in Delete : target[r] = d /\ pc[r] \notin {"idle", "refused"}

\* A dataset is complete the moment anybody sees it (INV-2): with its row come
\* its files, its source, its first contract and its event, and the files stay
\* until a deletion asks for them (IngestService.commit).
CompleteAtOnce ==
    \A d \in Dataset : Stored(d) \in dataset =>
        /\ Stored(d) \in source
        /\ \E c \in contract : c.dataset = d /\ c.version = 1 /\ c.tx = Committed
        /\ [action |-> "created", dataset |-> d, by |-> d, tx |-> Committed] \in audit
        /\ files[d] = File \/ Discarding(d)

\* No correction is lost: what a committed override set is what the newest
\* contract says, or a later override's choice (override.apply; the unique
\* constraint on dataset and version).
CorrectionsSurvive ==
    \A c \in contract : c.tx = Committed /\ c.by \in Override =>
        \A n \in contract :
            n.dataset = c.dataset /\ n.tx = Committed /\ n.version >= c.version =>
                \A col \in DOMAIN edit[c.by] :
                    \/ n.columns[col] = edit[c.by][col]
                    \/ \E o \in contract :
                          /\ o.dataset = c.dataset /\ o.tx = Committed
                          /\ o.version > c.version /\ o.version <= n.version
                          /\ o.by \in Override /\ col \in DOMAIN edit[o.by]

Gone == {e.dataset : e \in {x \in audit : x.action = "deleted"}}

\* Every committed contract has the event of the request that made it.
ContractsAreLogged ==
    \A c \in contract : c.tx = Committed =>
        [action |-> IF c.by \in Override THEN "corrected" ELSE "created",
         dataset |-> c.dataset, by |-> c.by, tx |-> Committed] \in audit

\* What a committed event says was made is there, unless its dataset's deletion
\* is on record as well.
EventsAreTrue ==
    \A e \in audit : e.tx = Committed /\ e.dataset \notin Gone =>
        /\ Stored(e.dataset) \in dataset
        /\ \E c \in contract :
              c.dataset = e.dataset /\ c.by = e.by /\ c.tx = Committed

\* A dataset whose deletion is on record is gone, by one deletion, with all
\* files that can be removed.
DeletionsAreTrue ==
    \A e \in audit : e.action = "deleted" =>
        /\ Stored(e.dataset) \notin dataset /\ Stored(e.dataset) \notin source
        /\ \A c \in contract : c.dataset # e.dataset
        /\ files[e.dataset] \subseteq Stuck
        /\ \A x \in audit : x.action = "deleted" /\ x.dataset = e.dataset => x = e

\* The log agrees with the rows, both ways: every committed contract has its
\* event; what an event says was made is there, so that nothing goes without a
\* deletion on record; and what is on record as deleted is gone and stays gone
\* (AuditRepository.record in the same transaction; bytes first,
\* IngestService.delete_dataset).
LogAgrees == ContractsAreLogged /\ EventsAreTrue /\ DeletionsAreTrue

\* Every request that starts ends: what uploads, overrides and deletions wait
\* for is never each other, so no deadlock detector is needed.
EveryRequestEnds ==
    \A r \in Request : pc[r] # "idle" ~> pc[r] \in Ended

\* Read-then-insert is as good as atomic: the committed contracts are a
\* SchemaHistory, every version made from the one before it.
Versions ==
    {[dataset |-> c.dataset, version |-> c.version, columns |-> c.columns,
      edit |-> IF c.by \in Override THEN edit[c.by] ELSE None]
        : c \in {x \in contract : x.tx = Committed}}

History == INSTANCE SchemaHistory WITH history <- Versions, gone <- Gone

HistorySpec == History!Spec
=============================================================================
