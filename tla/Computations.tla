---------------------------- MODULE Computations ----------------------------
(***************************************************************************)
(* The path every number on the screen takes: a request opens a dataset,   *)
(* asks ToolRunner for a result, and the result becomes a row of           *)
(* `computation` that other requests find by its fingerprint.              *)
(*                                                                         *)
(* Each request is one PostgreSQL transaction (api/dependencies.py,        *)
(* repositories/connection.py) under READ COMMITTED: a statement sees the  *)
(* committed rows and its own.  One action is one statement of a handler,  *)
(* with the code around it up to the next await.  A statement that has to  *)
(* wait for another transaction is an action that is not yet enabled.      *)
(* The response is sent before the transaction commits: `get_connection`   *)
(* commits when the dependency is closed, and FastAPI (>= 0.118) closes it *)
(* after the response.                                                     *)
(***************************************************************************)
EXTENDS Naturals, FiniteSets

CONSTANTS
    Ask,         \* POST .../ask requests
    Profile,     \* GET .../profile requests
    Delete,      \* DELETE /datasets/... requests
    Dataset,     \* dataset ids
    Call,        \* a tool with its normalised arguments, `table` left out
    ProfileCall, \* the call the profile route makes
    TableCall,   \* the calls whose result carries `sql`: a table to read from
    Tool,
    ToolOf,      \* the tool a call runs
    MaxSteps,    \* MAX_STEPS of the planner: calls of one turn
    MaxVersion,  \* bound of the model: contract versions of one dataset
    Base,        \* the `table` argument "dataset"
    Committed    \* the transaction of a row everybody sees

Reader  == Ask \cup Profile
Request == Reader \cup Delete
Tx      == Reader \cup {Committed}   \* whose a row is
Version == 1..MaxVersion

ASSUME RequestAssumption ==
    /\ Ask \cap Profile = {} /\ Reader \cap Delete = {}
    /\ Committed \notin Request
ASSUME CallAssumption ==
    /\ ProfileCall \in Call /\ TableCall \subseteq Call
    /\ ToolOf \in [Call -> Tool]
ASSUME BoundAssumption ==
    /\ MaxSteps \in Nat \ {0} /\ MaxVersion \in Nat \ {0}
    /\ Base \notin Reader \X (1..MaxSteps)

\* A uuid4: the n-th one a request draws, so no two draws are equal.
Id == Reader \X (1..MaxSteps)

\* What is hashed: the tool and its arguments (`table` is one of them), the
\* dataset and the contract.  The hash is taken to be injective; `parents` is
\* the fingerprint of the computation `table` names, so it adds nothing.
Fingerprint ==
    [call: Call, dataset: Dataset, version: Version, table: Id \cup {Base}]

\* A step of a turn: the id the reader is shown, for the question it answers.
Step == [ref: Id, fp: Fingerprint]

VARIABLES
    dataset,      \* committed rows of table `dataset`
    bytes,        \* datasets whose Parquet file is in the object store
    version,      \* version_no of the newest contract of a dataset
    deleting,     \* <<dataset, request>>: row deleted, not yet committed
    computation,  \* rows of table `computation`, in-flight ones included
    toolVersion,  \* rows of table `tool_version`, in-flight ones included
    conversation, \* rows of table `conversation_turn`, likewise
    audit,        \* committed DATASET_DELETED events, <<dataset, request>>
    pc,           \* the statement a request has reached
    target,       \* the dataset a request is about
    bound,        \* the contract version a request read
    fp,           \* the fingerprint being looked up or computed
    steps,        \* the steps of the turn so far
    rounds,       \* rounds of the planner's loop used
    minted        \* uuids drawn by a request

rows == <<computation, toolVersion, conversation>>
store == <<dataset, bytes, version, deleting, audit>>
locals == <<target, bound, fp, steps, rounds, minted>>
vars == <<rows, store, pc, locals>>

Ended   == {"done", "refused", "failed"}
Running == {"opened", "turn", "resolve", "find", "ensure", "create",
            "record", "reply", "delete", "sent"}

TypeOK ==
    /\ dataset \subseteq Dataset /\ bytes \subseteq Dataset
    /\ version \in [Dataset -> Version]
    /\ deleting \subseteq Dataset \X Delete
    /\ computation \subseteq [id: Id, fp: Fingerprint, tx: Tx]
    /\ toolVersion \subseteq [tool: Tool, tx: Tx]
    /\ conversation \subseteq [turn: Ask, dataset: Dataset, version: Version,
                               steps: SUBSET Step, tx: Tx]
    /\ audit \subseteq Dataset \X Delete
    /\ pc \in [Request -> {"idle"} \cup Running \cup Ended]
    /\ target \in [Request -> Dataset]
    /\ bound \in [Request -> Version]
    /\ fp \in [Request -> Fingerprint]
    /\ steps \in [Request -> SUBSET Step]
    /\ rounds \in [Request -> 0..MaxSteps]
    /\ minted \in [Request -> 0..MaxSteps]

FingerprintOf(c, d, v, t) == [call |-> c, dataset |-> d, version |-> v, table |-> t]

\* Every dataset was ingested and has its first contract; its file may
\* already be missing, the state `data_present: false` reports.
Init ==
    /\ dataset = Dataset /\ bytes \in SUBSET Dataset
    /\ version = [d \in Dataset |-> 1]
    /\ deleting = {} /\ audit = {}
    /\ computation = {} /\ toolVersion = {} /\ conversation = {}
    /\ pc = [r \in Request |-> "idle"]
    /\ target \in [Request -> Dataset]
    /\ bound = [r \in Request |-> 1]
    /\ fp = [r \in Request |-> FingerprintOf(ProfileCall, target[r], 1, Base)]
    /\ steps = [r \in Request |-> {}]
    /\ rounds = [r \in Request |-> 0]
    /\ minted = [r \in Request |-> 0]

-----------------------------------------------------------------------------
(* READ COMMITTED, unique indexes and foreign keys.                        *)

Visible(r) == {c \in computation : c.tx \in {r, Committed}}

\* (Mutant: a cache beside the database shows rows before they commit.)
FoundInProcess(r, f) == {c \in computation : c.fp = f}

\* ComputationRepository.find and .within.
Found(r, f)     == {c \in Visible(r) : c.fp = f}
Within(r, i, d) == {c \in Visible(r) : c.id = i /\ c.fp.dataset = d}

\* (Mutant: conversation_turn has no foreign key to dataset.)
HeldByComputations(t, d) == \E c \in computation : c.tx = t /\ c.fp.dataset = d

\* A row whose foreign key names d keeps d's row locked FOR KEY SHARE.
HoldsKeyShare(t, d) ==
    \/ \E c \in computation  : c.tx = t /\ c.fp.dataset = d
    \/ \E e \in conversation : e.tx = t /\ e.dataset = d

\* (Mutant: no unique index on what is inserted.)
NoUniqueIndex(r, t) == FALSE

\* What a statement waits for: the end of a transaction inserting the same
\* unique key,
WaitsForInsert(r, t) ==
    \/ /\ pc[r] = "ensure"
       /\ [tool |-> ToolOf[fp[r].call], tx |-> t] \in toolVersion
    \/ /\ pc[r] = "create"
       /\ \E c \in computation : c.fp = fp[r] /\ c.tx = t

\* of one deleting the row its foreign key names,
WaitsForDelete(r, t) ==
    /\ pc[r] \in {"create", "record"} /\ <<target[r], t>> \in deleting
    /\ pc[r] = "create" => Found(r, fp[r]) = {}

\* and, for a DELETE, of whoever holds or deletes the row.
WaitsForRow(r, t) ==
    /\ pc[r] = "delete"
    /\ HoldsKeyShare(t, target[r]) \/ <<target[r], t>> \in deleting

Blockers(r) ==
    {t \in Request \ {r} :
        WaitsForInsert(r, t) \/ WaitsForDelete(r, t) \/ WaitsForRow(r, t)}

\* (Mutant: a transaction that is left open keeps its rows as they are.)
LeftOpen(T, r) == T

\* The rows of T after r commits, and after r is rolled back.
Settled(T, r) == {x \in T : x.tx # r}
                 \cup {[x EXCEPT !.tx = Committed] : x \in {y \in T : y.tx = r}}
Undone(T, r)  == {x \in T : x.tx # r}

Goto(r, label) == pc' = [pc EXCEPT ![r] = label]
AfterRun(r)    == IF r \in Ask THEN "turn" ELSE "reply"

-----------------------------------------------------------------------------
(* A reader's request up to its first tool.                                *)

\* open_dataset: authorise by one query, or answer 404.
Open(r) ==
    /\ pc[r] = "idle"
    /\ Goto(r, IF target[r] \in dataset THEN "opened" ELSE "refused")
    /\ UNCHANGED <<rows, store, locals>>

\* The newest contract, read by a second statement, and handle.exists():
\* no contract is a 404, no file a 409.  The profile route names its tool.
Bind(r) ==
    /\ pc[r] = "opened"
    /\ \/ /\ target[r] \in dataset /\ target[r] \in bytes
          /\ bound' = [bound EXCEPT ![r] = version[target[r]]]
          /\ fp' = [fp EXCEPT ![r] =
                      FingerprintOf(ProfileCall, target[r], version[target[r]], Base)]
          /\ Goto(r, IF r \in Ask THEN "turn" ELSE "find")
       \/ /\ ~(target[r] \in dataset /\ target[r] \in bytes)
          /\ Goto(r, "refused")
          /\ UNCHANGED <<bound, fp>>
    /\ UNCHANGED <<rows, store, target, steps, rounds, minted>>

-----------------------------------------------------------------------------
(* The planner's loop, seen from the database.                             *)

\* The model proposes a call.  The planner refuses a call already run in the
\* turn; `table` may be any id the model writes.
Propose(r) ==
    /\ pc[r] = "turn" /\ rounds[r] < MaxSteps
    /\ rounds' = [rounds EXCEPT ![r] = @ + 1]
    /\ \E c \in Call, t \in Id \cup {Base} :
          /\ ~ \E s \in steps[r] : s.fp.call = c /\ s.fp.table = t
          /\ fp' = [fp EXCEPT ![r] = FingerprintOf(c, target[r], bound[r], t)]
          /\ Goto(r, IF t = Base THEN "find" ELSE "resolve")
    /\ UNCHANGED <<rows, store, target, bound, steps, minted>>

\* A proposal _check refuses costs a round and touches nothing.
Reject(r) ==
    /\ pc[r] = "turn" /\ rounds[r] < MaxSteps
    /\ rounds' = [rounds EXCEPT ![r] = @ + 1]
    /\ UNCHANGED <<rows, store, pc, target, bound, fp, steps, minted>>

\* The model narrates, or the turn stops without an answer.
Close(r) ==
    /\ pc[r] = "turn"
    /\ Goto(r, "record")
    /\ UNCHANGED <<rows, store, locals>>

-----------------------------------------------------------------------------
(* ToolRunner.run.                                                         *)

\* A tool that declines goes back to the planner, or is the route's 422.
Declined(r) == Goto(r, IF r \in Ask THEN "turn" ELSE "refused")

\* (Mutant: the id is looked up among the turn's own steps, not in the table.)
ResolveFromSteps(r) ==
    /\ pc[r] = "resolve"
    /\ IF \E s \in steps[r] : s.ref = fp[r].table /\ s.fp.call \in TableCall
         THEN Goto(r, "find") ELSE Declined(r)
    /\ UNCHANGED <<rows, store, locals>>

\* _resolve: the named computation, inside this dataset, with a table.
Resolve(r) ==
    /\ pc[r] = "resolve"
    /\ LET parents == Within(r, fp[r].table, target[r])
       IN  IF \E p \in parents : p.fp.call \in TableCall
             THEN Goto(r, "find") ELSE Declined(r)
    /\ UNCHANGED <<rows, store, locals>>

\* The cache lookup hits: the stored computation is the answer.
FindHit(r) ==
    /\ pc[r] = "find"
    /\ \E c \in Found(r, fp[r]) :
          steps' = [steps EXCEPT ![r] = @ \cup {[ref |-> c.id, fp |-> c.fp]}]
    /\ Goto(r, AfterRun(r))
    /\ UNCHANGED <<rows, store, target, bound, fp, rounds, minted>>

\* It misses and the tool runs at once, without an await in between: it
\* reads the file and returns a result, or declines.
FindMiss(r) ==
    /\ pc[r] = "find" /\ Found(r, fp[r]) = {}
    /\ \/ target[r] \in bytes /\ Goto(r, "ensure")
       \/ Declined(r)
    /\ UNCHANGED <<rows, store, locals>>

\* ToolVersionRepository.ensure: INSERT ... ON CONFLICT DO NOTHING, which
\* waits for a transaction that is inserting the same key.
Ensure(r) ==
    /\ pc[r] = "ensure" /\ Blockers(r) = {}
    /\ LET tool  == ToolOf[fp[r].call]
           known == \E v \in toolVersion : v.tool = tool
       IN  toolVersion' = IF known THEN toolVersion
                          ELSE toolVersion \cup {[tool |-> tool, tx |-> r]}
    /\ Goto(r, "create")
    /\ UNCHANGED <<computation, conversation, store, locals>>

\* ComputationRepository.create: whoever loses the race inserts nothing and
\* still returns the record it built, with the id it drew.
Create(r) ==
    /\ pc[r] = "create" /\ Blockers(r) = {}
    /\ Found(r, fp[r]) # {} \/ target[r] \in dataset
    /\ LET id == <<r, minted[r] + 1>>
       IN  /\ computation' = IF Found(r, fp[r]) # {} THEN computation
                   ELSE computation \cup {[id |-> id, fp |-> fp[r], tx |-> r]}
           /\ steps' = [steps EXCEPT ![r] = @ \cup {[ref |-> id, fp |-> fp[r]]}]
    /\ minted' = [minted EXCEPT ![r] = @ + 1]
    /\ Goto(r, AfterRun(r))
    /\ UNCHANGED <<toolVersion, conversation, store, target, bound, fp, rounds>>

-----------------------------------------------------------------------------
(* The end of a reader's request.                                          *)

\* ConversationRepository.record, then the response.
Record(r) ==
    /\ pc[r] = "record" /\ Blockers(r) = {} /\ target[r] \in dataset
    /\ conversation' = conversation \cup
          {[turn |-> r, dataset |-> target[r], version |-> bound[r],
            steps |-> steps[r], tx |-> r]}
    /\ Goto(r, "sent")
    /\ UNCHANGED <<computation, toolVersion, store, locals>>

\* The profile route answers with the computation's id beside every number.
Reply(r) ==
    /\ pc[r] = "reply"
    /\ Goto(r, "sent")
    /\ UNCHANGED <<rows, store, locals>>

\* The dependency is closed and the transaction commits.
Commit(r) ==
    /\ pc[r] = "sent" /\ r \in Reader
    /\ computation' = Settled(computation, r)
    /\ toolVersion' = Settled(toolVersion, r)
    /\ conversation' = Settled(conversation, r)
    /\ Goto(r, "done")
    /\ UNCHANGED <<store, locals>>

\* The transaction is rolled back and all its rows go.
Rollback(r) ==
    /\ computation' = Undone(computation, r)
    /\ toolVersion' = Undone(toolVersion, r)
    /\ conversation' = Undone(conversation, r)
    /\ deleting' = {x \in deleting : x[2] # r}
    /\ Goto(r, "failed")
    /\ UNCHANGED <<dataset, bytes, version, audit, locals>>

\* The dataset went while the request ran: the foreign key is violated.
Orphaned(r) ==
    /\ pc[r] \in {"create", "record"} /\ Blockers(r) = {}
    /\ target[r] \notin dataset
    /\ pc[r] = "create" => Found(r, fp[r]) = {}
    /\ Rollback(r)

\* The process or its connection dies, or a statement fails.
Lost(r) == pc[r] \in Running /\ Rollback(r)

\* A file removed since handle.exists() makes the engine raise what neither
\* the planner nor the route catches.
ReadFails(r) ==
    /\ pc[r] = "find" /\ Found(r, fp[r]) = {} /\ target[r] \notin bytes
    /\ Rollback(r)

\* Transactions that wait for each other: PostgreSQL aborts one of them.
Deadlocked(r) ==
    \E S \in SUBSET {x \in Request : Blockers(x) # {}} :
        /\ r \in S
        /\ \A x \in S : Blockers(x) \cap S # {}
        /\ \A x \in S : \E y \in S : x \in Blockers(y)

DeadlockAbort(r) == pc[r] \in Running /\ Deadlocked(r) /\ Rollback(r)

-----------------------------------------------------------------------------
(* Deleting a dataset, and the requests that change what others read.      *)

\* locate, then IngestService.delete_dataset removes the files at once.
DiscardBytes(r) ==
    /\ pc[r] = "idle"
    /\ IF target[r] \in dataset
         THEN bytes' = bytes \ {target[r]} /\ Goto(r, "delete")
         ELSE UNCHANGED bytes /\ Goto(r, "refused")
    /\ UNCHANGED <<rows, dataset, version, deleting, audit, locals>>

\* (Mutant: the number of rows deleted is not looked at.)
DeleteRowAnyway(r) ==
    /\ pc[r] = "delete" /\ Blockers(r) = {}
    /\ deleting' = deleting \cup {<<target[r], r>>}
    /\ Goto(r, "sent")
    /\ UNCHANGED <<rows, dataset, bytes, version, audit, locals>>

\* DELETE FROM dataset: waits for every transaction that holds the row, and
\* a row that is gone by then is a 404.
DeleteRow(r) ==
    /\ pc[r] = "delete" /\ Blockers(r) = {}
    /\ IF target[r] \in dataset
         THEN /\ deleting' = deleting \cup {<<target[r], r>>}
              /\ Goto(r, "sent")
         ELSE Goto(r, "refused") /\ UNCHANGED deleting
    /\ UNCHANGED <<rows, dataset, bytes, version, audit, locals>>

\* The deletion commits with its audit event; ON DELETE CASCADE takes the
\* computations and the turns of the dataset along that it can see.
CommitDelete(r) ==
    /\ pc[r] = "sent" /\ r \in Delete
    /\ dataset' = dataset \ {target[r]}
    /\ computation' = {c \in computation :
                         c.fp.dataset # target[r] \/ c.tx # Committed}
    /\ conversation' = {e \in conversation :
                         e.dataset # target[r] \/ e.tx # Committed}
    /\ deleting' = deleting \ {<<target[r], r>>}
    /\ audit' = audit \cup {<<target[r], r>>}
    /\ Goto(r, "done")
    /\ UNCHANGED <<bytes, version, toolVersion, locals>>

BeingDeleted(d) == \E t \in Delete : <<d, t>> \in deleting

\* A schema override commits the next contract version (Datasets has
\* the request's own statements).
OverrideSchema(d) ==
    /\ d \in dataset /\ ~BeingDeleted(d) /\ version[d] < MaxVersion
    /\ version' = [version EXCEPT ![d] = @ + 1]
    /\ UNCHANGED <<rows, dataset, bytes, deleting, audit, pc, locals>>

\* (Mutant: the answers a forgotten turn cites are deleted with it.)
ForgetAnswers(e) ==
    /\ e.tx = Committed /\ e.dataset \in dataset /\ ~BeingDeleted(e.dataset)
    /\ conversation' = conversation \ {e}
    /\ computation' = {c \in computation : ~ \E s \in e.steps : s.fp = c.fp}
    /\ UNCHANGED <<toolVersion, store, pc, locals>>

\* Forgetting a question deletes its turn and nothing else.
Forget(e) ==
    /\ e.tx = Committed /\ e.dataset \in dataset /\ ~BeingDeleted(e.dataset)
    /\ conversation' = conversation \ {e}
    /\ UNCHANGED <<computation, toolVersion, store, pc, locals>>

-----------------------------------------------------------------------------

ReaderStep(r) ==
    \/ Open(r) \/ Bind(r) \/ Propose(r) \/ Reject(r) \/ Close(r)
    \/ Resolve(r) \/ FindHit(r) \/ FindMiss(r) \/ Ensure(r) \/ Create(r)
    \/ Record(r) \/ Reply(r) \/ Commit(r) \/ Orphaned(r) \/ ReadFails(r)

DeleteStep(r) == DiscardBytes(r) \/ DeleteRow(r) \/ CommitDelete(r)

Next ==
    \/ \E r \in Reader : ReaderStep(r)
    \/ \E r \in Delete : DeleteStep(r)
    \/ \E r \in Request : Lost(r) \/ DeadlockAbort(r)
    \/ \E d \in Dataset : OverrideSchema(d)
    \/ \E e \in conversation : Forget(e)

Spec == Init /\ [][Next]_vars

\* A started handler keeps running and PostgreSQL looks for deadlocks; a
\* request need not arrive and nothing need fail.
Progress(r) ==
    pc[r] # "idle" /\
    IF r \in Reader THEN ReaderStep(r) ELSE DeleteStep(r)

FairSpec ==
    /\ Spec
    /\ \A r \in Request : WF_vars(Progress(r)) /\ WF_vars(DeadlockAbort(r))

-----------------------------------------------------------------------------
(* Properties.                                                             *)

\* One question has one answer: no two rows, in flight or committed, have the
\* same fingerprint, and no two have the same id (uq_computation_fingerprint;
\* INV-6).
OneAnswerPerQuestion ==
    \A a, b \in computation : a.fp = b.fp \/ a.id = b.id => a = b

\* Nothing outlives its dataset: every computation and every turn, committed
\* or in flight, belongs to a dataset that is there (FR-B.6, the cascades).
NothingOutlivesItsDataset ==
    /\ \A c \in computation : c.fp.dataset \in dataset
    /\ \A e \in conversation : e.dataset \in dataset

\* Chains do not break: the table a computation reads is a computation of the
\* same dataset, visible to whoever sees the child (ToolRunner._resolve).
ParentsAreStored ==
    \A c \in computation : c.fp.table # Base =>
        \E p \in computation :
            /\ p.id = c.fp.table /\ p.fp.dataset = c.fp.dataset
            /\ p.fp.call \in TableCall /\ p.tx \in {c.tx, Committed}

\* Every figure a logged turn cites was kept: the answer to each of its steps
\* is in the table for whoever sees the turn, whichever request computed it
\* (ComputationRepository.create, ConversationRepository.forget).
CitedAnswersAreKept ==
    \A e \in conversation : \A s \in e.steps :
        \E c \in computation : c.fp = s.fp /\ c.tx \in {e.tx, Committed}

\* A dataset is deleted once: two requests never both report and record the
\* deletion of the same dataset (DatasetRepository.delete, rowcount).
DeletedOnce ==
    \A x, y \in audit : x[1] = y[1] => x = y

\* Every request that starts is answered, refused or fails: no set of
\* transactions waits for each other forever (one transaction per request,
\* ON CONFLICT waits, the dataset row's locks).
EveryRequestEnds ==
    \A r \in Request : pc[r] # "idle" ~> pc[r] \in Ended

\* The cache is the abstract one: what is committed is kept as it is for as
\* long as its dataset exists, and goes with it (ComputationRepository.find:
\* no expiry, no eviction; the immutability trigger; the cascade).
Kept == {<<c.fp, c.id>> : c \in {x \in computation : x.tx = Committed}}

Cache == INSTANCE AnswerCache
             WITH Question <- Fingerprint, Answer <- Id,
                  kept <- Kept, gone <- Dataset \ dataset

CacheSpec == Cache!Spec

-----------------------------------------------------------------------------
(* The inductive invariant behind the properties above.                    *)

\* Where each kind of request can be.
Places ==
    /\ \A r \in Ask     : pc[r] \notin {"reply", "delete"}
    /\ \A r \in Profile : pc[r] \notin {"turn", "resolve", "record", "delete"}
    /\ \A r \in Delete  : pc[r] \in {"idle", "delete", "sent"} \cup Ended

\* A turn draws at most one id per round, a profile one; no id is drawn twice.
Draws ==
    /\ \A r \in Ask :
          /\ minted[r] <= rounds[r]
          /\ pc[r] \in {"resolve", "find", "ensure", "create"} =>
                minted[r] < rounds[r]
    /\ \A r \in Profile :
          pc[r] \in {"idle", "opened", "find", "ensure", "create"} =>
                minted[r] = 0
    /\ \A c \in computation : c.id[2] <= minted[c.id[1]]

\* What a request asks, ran and wrote is about the dataset it opened.
OwnDataset ==
    /\ \A r \in Request : fp[r].dataset = target[r]
    /\ \A r \in Request : \A s \in steps[r] : s.fp.dataset = target[r]
    /\ \A e \in conversation : \A s \in e.steps : s.fp.dataset = e.dataset

\* A row under deletion is still there, one request deletes it, and nobody
\* else holds it.
DeletionIsExclusive ==
    /\ \A x \in deleting : x[1] = target[x[2]] /\ pc[x[2]] = "sent" /\ x[1] \in dataset
    /\ \A x, y \in deleting : x[1] = y[1] => x = y
    /\ \A x \in deleting :
          /\ \A c \in computation  : c.fp.dataset = x[1] => c.tx = Committed
          /\ \A e \in conversation : e.dataset = x[1] => e.tx = Committed
    /\ \A r \in Delete : pc[r] = "sent" => <<target[r], r>> \in deleting
    /\ \A x \in audit : x[1] \notin dataset

\* The table a question names was found, and is still visible to whoever asks.
ParentFound ==
    \A r \in Reader :
        /\ pc[r] \in {"find", "ensure", "create"}
        /\ fp[r].table # Base /\ target[r] \in dataset
        => \E p \in Within(r, fp[r].table, target[r]) : p.fp.call \in TableCall

\* The answers a turn has collected stay visible to it.
StepsAreKept ==
    \A r \in Reader :
        pc[r] \in {"idle"} \cup Running /\ target[r] \in dataset =>
            \A s \in steps[r] : Found(r, s.fp) # {}

IInv ==
    /\ TypeOK /\ Places /\ Draws /\ OwnDataset
    /\ OneAnswerPerQuestion /\ NothingOutlivesItsDataset
    /\ DeletionIsExclusive /\ DeletedOnce
    /\ ParentFound /\ ParentsAreStored
    /\ StepsAreKept /\ CitedAnswersAreKept
=============================================================================
