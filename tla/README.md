# Verification of datacanvas

TLA+ specifications of datacanvas, the TLC configurations that
check them on small instances, and the theorems TLAPS proves about them. Paths
are relative to the repository; `app/` is `src/backend/app/`.

## 1. The system and its parts

datacanvas takes a table (CSV, TSV, Parquet, XLSX or JSON), infers a schema, and answers questions
about it. A FastAPI process serves a browser client; PostgreSQL keeps accounts,
datasets, schema contracts, computations and logs; Parquet files lie in an
object store; DuckDB runs every query; a chain of language-model providers
proposes which tools to run.

| Component | State | Operations | Talks to |
|---|---|---|---|
| API (`app/api`) | none of its own; one database transaction per request | the route handlers | everything below |
| Authorised access (`app/authz/data_access.py`) | none | `open_dataset`, `open_account_for_ingest`, `discard_dataset` | repositories, object store |
| Accounts (`app/auth`, `repositories/identity.py`) | users, sessions, reset tokens, login attempts, policies | register, login, logout, revoke, change password, reset, authenticate | mailer, audit log |
| Ingest (`app/ingest`) | staged file, then a stored Parquet file and rows | preview, commit, delete | object store, repositories, schema inference |
| Schema contracts (`app/schema`, `repositories/schema.py`) | versioned, immutable contracts per dataset | infer, override | ingest, engine |
| Tools and computation cache (`app/tools`, `repositories/execution.py`) | rows of `computation`, `tool_version` | resolve, find, execute, create | engine, contracts |
| Planner (`app/llm/planner.py`) | one turn: steps, refusals, tokens | propose, check, run, narrate, verify | cascade, tools, privacy gate |
| Provider cascade (`app/llm/cascade.py`, `factory.py`) | the pinned provider | pin, propose | providers |
| Privacy gate (`app/llm/privacy.py`) | the account's mode | render, groups, rows, statistic | planner |
| Conversation log (`repositories/conversation.py`) | rows of `conversation_turn` | record, forget, history | computations |
| Engine (`app/storage`) | none; reads Parquet | page, statistics, reports | object store |
| Expressions (`app/expressions`) | none | parse, analyse | tools |
| Browser client (`src/frontend`) | pages, uploads, boards | fetch, upload, ask, override | API |

What makes each of them hard, and correct:

* **Requests interleave at every `await`.** A handler is a sequence of SQL
  statements in one READ COMMITTED transaction; between two of them any other
  request may commit. Correctness rests on unique indexes with `ON CONFLICT DO
  NOTHING`, foreign keys with `ON DELETE CASCADE`, and `rowcount` checks.
* **A response is sent before its transaction commits**, since FastAPI 0.118
  closes `yield` dependencies after the response.
* **Files and rows are two stores.** Bytes are written before rows and removed
  before rows; nothing makes the two atomic.
* **The model proposes anything.** The planner bounds rounds, retries and
  tokens, checks every call, and grounds every number it shows.
* **Sessions and tokens outlive the statement that checked them.** Login,
  password change and reset each read, decide and write.
* **One question is answered by several pieces of code.** What counts as a
  number or a date is written for inference, for corrections, for the profile
  cards and for the column panel; a file is parsed by one reader for its preview
  and by another for its commit; a histogram is computed twice. They must agree.
* **Facts travel beside the data.** Whether rows were computed, which column
  counts a group, whether an order was chosen: no tool can see these in a table,
  each has to pass them on, and the privacy gate relies on them.

## 2. Modules

### Computations

`Computations.tla` models the path of every number: `open_dataset`, the contract
lookup, the planner's loop as the database sees it, `ToolRunner.run` with
`_resolve`, `find`, `execute`, `ensure` and `create`, the conversation log, the
end of the transaction, and everything that runs beside it: `DELETE` of the
dataset, schema overrides, forgetting a turn.

| In the module | In the code |
|---|---|
| a request `r` and `pc[r]` | a handler and the statement it has reached |
| `computation`, `toolVersion`, `conversation` | rows; `tx` says whose uncommitted row it is |
| `Visible(r)` | what a statement of `r` sees under READ COMMITTED |
| `Blockers(r)` | the transactions the next statement of `r` waits for: an equal key being inserted, a referenced row being deleted, a row held FOR KEY SHARE |
| `Create` | `ComputationRepository.create`: a committed conflict inserts nothing and the record built is returned all the same |
| `Commit`, `Rollback` | the end of `transaction()` |
| `Lost` | a crash, a cancelled request, a failing statement |
| `DeadlockAbort` | PostgreSQL aborting one transaction of a cycle |
| `DiscardBytes`, `DeleteRow`, `CommitDelete` | `IngestService.delete_dataset`, the DELETE, the cascade |

A call is a model value: what matters is which fingerprint it leads to and
whether its result is a table. Results, narratives and durations are left out.
Hashing is injective and uuids never collide. An action is one SQL statement
with the code up to the next `await`; `tool.execute` has no `await`, so the tool
runs in the action of the failed lookup. Statements that would wait are actions
that are not enabled.

`AnswerCache.tla` is what the table promises: an answer stays the answer to its
question for as long as its dataset exists. `CacheSpec` is the claim that
`Computations` implements it, with `kept` the committed rows and `gone` the
deleted datasets.

### Datasets

`Datasets.tla` models the life of a dataset in two stores: `files` in the object
store, which nothing rolls back, and rows of `dataset`, `source_file`,
`schema_contract` and `audit_event`, which the end of the transaction commits
or undoes. An upload's dataset is named after the upload, since
`IngestService.commit` draws its uuid first.

| In the module | In the code |
|---|---|
| `Store`, `Normalize` | `write_stream` and `normalize_file`: the two files |
| `InsertDataset`, `InsertSource`, `InsertFirst`, `LogUpload` | the four statements of `IngestService.commit`, in order |
| `Compensate` | its `except` block: discard the files, then roll back |
| `Fail` | a failure nobody compensates: the audit insert, the commit, any statement of the other handlers |
| `Locate`, `ReadLatest`, `InsertNext`, `LogOverride` | `open_dataset`, `latest_for_dataset` with `override.apply`, `SchemaContractRepository.create`, the event |
| `Corrected`, `NextContract` | `override.apply`: untouched columns carried over, version plus one |
| `SameVersion` | the unique constraint on dataset and version |
| `DiscardFiles`, `DeleteRow`, `CommitDelete` | `delete_dataset`: files at once, the row, the cascade |
| `Discard` | `rmtree(ignore_errors=True)`: what it cannot remove stays, silently |

A contract is its dataset, its version and a type per column; inference is an
arbitrary first typing. What an override asks for ranges over every set of named
columns, known or not, and every type; what `apply` refuses is a refused
request.

`SchemaHistory.tla` is what the contracts promise: the versions of a dataset are
one chain, each made from the newest by an edit, in which nothing is
overwritten, until the dataset is withdrawn for good. `HistorySpec` is the claim
that `Datasets` implements it although an override reads the newest version in
one statement and writes the next in another.

### Accounts

`Accounts.tla` models one address: its registration, its sessions and its reset
links, and the eight kinds of request about them. Rows of other addresses are
never read or locked by these statements.

| In the module | In the code |
|---|---|
| `row[x]` | a `user_session` or `password_reset_token`: absent, inserted but not committed, good, or over (`revoked_at`, `used_at`) |
| `holder[x]`, `ending` | the transaction that has updated a committed row, and whether it ends it or only touches it |
| `hash`, `draft[r]` | the committed `password_hash`, and the one a transaction has written |
| `Take` | `UPDATE ... WHERE revoked_at IS NULL`, one row at a time: a row another transaction holds is waited for and looked at again |
| `Touch` | `SessionRepository.touch`, which every signed-in request runs first and which does not ask whether the session is still good |
| `Journal`, `PoolTimeout` | `_journal_failure`: committed on a second connection of the same pool, or a timeout |
| `Deadlocked`, `DeadlockAbort` | transactions that wait for each other's rows; PostgreSQL fails one |
| `RaiseCost`, `Rehash` | the hasher's parameters after a restart, and the rewrite a login then does |

A session or a link may expire at any time, so expiry is a choice made where the
code compares the clock. The windows of the two rate limits are a choice of
which earlier attempts still count. `known` records what was good when a request
began, for `WhatWasGoodEnds` only.

### Copilot

`Copilot.tla` models one turn: the planner's loop (`run_turn`) over a ladder of
providers (`Cascade`), narrowed by `pin` to the vendor that answered first. The
ladder is built by `Layers` from every order of vendors and every number of
keys, in local and in cloud mode. A provider is an environment: asked, it
proposes a call or answers, is unavailable with or without a wait, or refuses. A
call is valid or not, and its tool accepts or declines it. One action is the
code between two awaits.

| In the module | In the code |
|---|---|
| `order`, `ladder` | `llm_cascade`, and the list `layers` makes of it: a rung is the place of its vendor in that order and the number of the account, so that a set of rungs has the list's order |
| `First`, `Asking` | the head of the list, and the client whose turn it is in this walk |
| `Identity` | what a client calls itself: a vendor that is named twice is there twice under one identity |
| `Pin` | `Cascade.pin`: the first rung of that identity and the other accounts of its vendor; alone, the client itself |
| `heard`, `Pause` | the failures of this walk, and whether one of them asked for an acceptable wait |
| `Reject`, `Checks` | `_check` and its feedback |

`Computations` sees the same turn from the database: there the provider's part
is an arbitrary proposal, here the runner's part is an arbitrary outcome.

### Columns

What every surface shows of a column, over a file that never changes and a
contract that does. Four modules, each extending the one before:

| Module | Models |
|---|---|
| `Cells` | cells, `column_statistics` of the engine, `infer` of `schema/inference.py`, `conforming_count` of `schema/override.py` |
| `Figures` | the card of the Profile tab (`storage/profile.py`) and the panel (`storage/column_profile.py`): rankings, histograms, curves, the rug, calendars, narratives |
| `Reports` | missingness, duplicates, type consistency, cardinality, outliers (`storage/reports.py`), the crosstab |
| `Columns` | `Upload` stores a file and infers version 1 of its contract, `Override` corrects one column; the properties |

A text is a record of what the queries tell apart about it: the pattern it
matches, the number or hour it reads as, its place in the alphabet, its length
and words. What the code divides is kept as an exact numerator, so that no
rounding hides a lost value. What a query filters or sorts is given by places, as
in `Tables`, so that it can be reasoned about. The calendar's sizes are constants. `IndexError`
is the outcome of a card that indexes past its edges.

### Tables

`Tables.tla` models a chain of the tools that make tables: `filter_rows`,
`derive_column`, `limit_rows`, `sort_rows`, `select_columns`, `sample_rows`,
`aggregate` and `bin_column`, each reading the dataset or the table the last one
stored, and what the planner renders of it under each privacy mode. A table
carries `derived`, `size` and `ordered`, as `ToolRunner._resolve` and
`tools/tables.py` pass them on. Ghost fields say what is really so: `of`, the
records a row stands for; `rank`, the place a sort gave it; `made` and `counts`,
what a column holds. No action reads a ghost to decide what the code decides.

A filter and a derived column are modelled by what their expressions compute:
a comparison with a number, and a copy or a constant. A name is a sequence of
words, so that a made name never equals a given one by accident. Rows are chosen
by their places: `InOrder` is the ways to put a set of places in an order, which
is one way when the order is total, and a group is the set of the places of its
rows. A sum of numbers is the number of their units (`Total`). Written so, no
definition recurses over rows.

### Ingest

`Dialects.tla` is how a head of bytes is read (`ingest/text.py`,
`ingest/dialect.py`): encodings tried in order, a character the cut went through
trimmed off, delimiters scored by how many rows agree, a header recognised.
`Ingest.tla` is an upload from its preview to its table:

| In the module | In the code |
|---|---|
| `file.seen` | what the first megabyte holds: whole lines and the start of one |
| `PreviewUpload`, `Build` | `preview_upload`, `preview.build`: the lenient reader over the head |
| `CorrectForm` | the page, which sends the dialect back with a field changed |
| `Commit`, `Merged` | `_inspect` and `_dialect_from_form` |
| `CreateDataset`, `NormalizeText`, `NormalizeOwn` | `_commit` and the strict, streaming readers of `normalize_file`, which let no name occur twice (`UniqueNames`) |
| `LoadSample` | `load_sample`, which always takes its sample for a prefix |
| `Rejected`, `Failed` | a 422, and an exception nobody catches |

The page always sends a slice of the file as if it were the file, which is why
`Build` is told that it saw everything. Lines are sequences of symbols: letters,
digits, delimiters, and characters that take two bytes in UTF-8.

## 3. Runs

| Run | Instance | Shows |
|---|---|---|
| `race` | two questions of two rounds, a deletion, one dataset; fairness | `OneAnswerPerQuestion`, `ParentsAreStored`, `CitedAnswersAreKept`; `Computations` implements `AnswerCache`; `EveryRequestEnds` though transactions deadlock over fingerprints and readers and the deletion wait for each other |
| `deletion` | a question, a profile, overrides, two deletions | `DeletedOnce`, `NothingOutlivesItsDataset` |
| `lifecycle` | an upload, two overrides, two deletions; crashes, failures, a file that cannot be removed; fairness | `CompleteAtOnce`, `CorrectionsSurvive`, `LogAgrees`; `Datasets` implements `SchemaHistory`; `EveryRequestEnds` without any deadlock detector |
| `sign_in` | two registrations, two logins, a link, two confirmations, two connections; failures | `AccountsAreComplete`, `RefusalsAreOnRecord`, `LinksWorkOnce`, `WhatWasGoodEnds` |
| `sessions` | a registration, a login, two links, a change, a logout | `WhatWasGoodEnds` over each other's row locks |
| `accounts_end` | a registration, a login, a change, a revocation, a visit, two connections; fairness | `EveryRequestEnds` through deadlocks and an exhausted pool |
| `turn` | two cloud vendors with up to two keys, and a local one; three proposals; fairness | who is asked and shown what, when a turn waits, that it ends |
| `columns` | columns of up to five cells over fifteen kinds, pairs of columns, every type for each | `InferredTypesFit`, `SurfacesAgree`, `EveryValueIsDrawn`, `CurvesReachTheEnd`, `ReportsAddUp` |
| `tables` | two datasets of three and four records, chains of three calls | `ComputedRowsAreMarked`, `RankingsKeepTheirOrder`, `ShownGroupsAreLarge`, `EveryRecordIsCounted` |
| `ingest` | files of up to two of eight lines and of three of four, three encodings, four other formats, cuts after or inside each line but the first | `PreviewForetells`, `EncodingsKeepTheText`, `UnsplitLinesAreRefused` |
| `profile_opens` | as `columns` | a column whose only number is spelled in two ways has a card that ends in an `IndexError` |
| `cuts_are_not_encodings` | as `ingest` | a UTF-8 file whose first megabyte ends inside a character is proposed as cp1252 |

**Bounds, and why they are enough.**

* `Computations`: one dataset, since no statement about one dataset waits for or
  reads another's rows except through `tool_version`, which all share. Two calls
  give a chain (a table, and a call that reads it) and opposite insertion
  orders; two rounds per turn are the least with which two turns can chain or
  deadlock.
* `Datasets`: one upload, as datasets share nothing; two overrides are the least
  that race for a version, two deletions the least that race for a row, and two
  columns with two types the least with which one correction can undo another
  or leave a column alone. `LogAgrees` reads the log both ways: every committed
  contract, of an upload or of an override, has its event; what an event says was
  made is there unless a deletion is on record, so a deletion without its event
  shows at once; and what is on record as deleted is gone, once.
* `Accounts`: `PoolSize` 2 lets any two requests overlap and lets failed logins
  exhaust the pool; one password is enough for the runs about rows, because
  which hash is stored decides only who is refused, and a login that precedes
  the registration is refused anyway; limits of 1 are reached by the second
  request.
* `Copilot`: two cloud vendors with two keys give a sibling account, another
  vendor and the local model; `MaxSteps` 3 with `MAX_ARG_RETRIES` 2 (the code's)
  ends turns by steps and by rejections; waits of 0, 1 and 3 with a maximum of
  2 are no wait, an accepted one and one that is too long.

* `Columns`: a text of each pattern, two spellings of one number, a day and its
  midnight, a day that does not exist, and cells that are null, blank or padded
  are every case a query branches on; five cells give every quartile and outlier
  a place, and reach the limits, which are set to one to four so that rankings,
  curves and buckets are cut. One correction follows the inferred
  contract. `SurfacesAgree` compares card, panel, outlier scan, consistency and
  cardinality reports and `conforming_count`, for every type; where the code
  disagrees with itself the property states by how much: a column declared boolean
  counts its 1s and 0s in the panel and nowhere else (`Digits`), and the
  cardinality report counts more distinct values than the panel exactly if a text
  is stored both with and without spaces (`StoredTwice`).
* `Tables`: three calls are the least with which a fact about a table can be lost
  by one tool after another established it and be used by a third; `K_ANONYMITY`
  2 and tables of three and four rows give groups on both sides of the limit.
  `EveryRecordIsCounted` asks the same of groups and of bands, with and without the
  rows that have no value: disjoint, covering what was read, sizes that add up to
  its rows. A band must also be one of those asked for and count exactly the values
  between its edges. Two mutants break it: the greatest value in a band of its own,
  and rows without a value left out although they were asked for.
* `Ingest`: a header and two rows let rows disagree with the header and with each
  other; `MAX_ROWS` 2 is passed by one row and one symbol is enough to tell
  encodings apart. `EncodingsKeepTheText` covers files of any length, those longer
  than the first megabyte included, with one exception: a page upload whose first
  megabyte ends inside a character, which `cuts_are_not_encodings` refutes.

Requests, and other interchangeable values, are symmetric in the safety runs of
the database modules; runs with a liveness property use no symmetry. Deadlock
checking is off because all requests may have ended, a chain of calls may stop
and an upload is answered once.

**Fairness.** `FairSpec` assumes that a started handler takes its next step when
it can (the event loop and the database serve it), that PostgreSQL breaks a
deadlock (`deadlock_timeout`), that the connection pool gives up after its
timeout, and that a provider answers or times out (every client has an HTTP
timeout). It assumes nothing about requests arriving, about crashes, failures,
overrides or restarts.

**Other disagreements.** Two findings have a run of their own; these are
reached by the same modules, or were met while reading the code they model, and
are recorded here:

* `execution.py:112` returns the record it was given when a conflict inserted
  nothing, so the loser of a race shows, logs and cites an id under which no row
  exists; `execution.py:88` says losing one "costs nothing" and
  `conversation.py:90` that a displayed figure must resolve. The answer is kept
  under the winner's id (`CitedAnswersAreKept`).
* `ingest/service.py:168` writes the audit event after the try block and the
  commit follows the handler, so a failure of either leaves files behind;
  `ingest/service.py:17` says every failure the code can see is handled.
* `auth/service.py:301` says every other session is revoked. A login that has
  verified the old password and not yet inserted its session opens it after the
  change has revoked the others.

* `routes_datasets.py:634` says a log entry exists for every answer the reader
  saw. The response is sent before `get_connection` commits
  (`dependencies.py:70`), so `Lost` after `Record` loses the entry of an answer
  that was seen.
* `execution.py:89` calls the race of two inserts harmless. The inserts of a turn
  are one transaction, so two turns that reach two fingerprints in opposite
  orders deadlock, and one fails (`race` fires `DeadlockAbort`).
* `ingest/service.py:189` says a failure leaves rows pointing at missing files.
  `delete_prefix` ignores errors, so a removal that fails is followed by the
  deletion of the rows: files without rows.
* `auth/service.py:297` requires the current password. The hash is read, checked
  and overwritten without a lock or a comparison, so a change whose session was
  revoked while it waited in `Touch` can replace a password it was never given.
* `auth/service.py:205` rehashes after the cost was raised; a login that verified
  the old password can so overwrite the one a change has just committed.
* `auth/service.py:320` records a rejected current password in the transaction
  that the 401 rolls back.
* `auth/service.py:388` journals a failed login so that it survives the 401; a
  pool filled by such logins lets each of them time out uncounted.
* `auth/password_reset.py:110` lets every earlier link die; two requests that
  overlap leave two good links. `password_reset.py:138` says a failure leaves the
  link spent; it is rolled back and stays good.
* `llm/cascade.py:21` walks the ladder twice; a turn pinned to a vendor with one
  account asks a bare client, which never waits.
* `storage/profile.py:156` treats columns of 0 and 1 declared boolean as such;
  `type_consistency` and `conforming_count` count neither as conforming. A person
  who declares such a column boolean is told that no value fits, and the panel then
  shows that all do. `SurfacesAgree` states the difference.
* `column_profile.py` keeps a curve's last point beside the sampled ones: 121
  points of a concentration curve, 401 of the rug, one above each constant. The
  cardinality report counts distinct untrimmed texts, every other surface
  trimmed ones, which `SurfacesAgree` states too. A column of days and moments is inferred as text.
* `tools/tables.py` gives a derived column that reuses a name of the contract the
  contract's type again. Its size column is chosen by name, which the docstring
  near `tables.py:195` says it is not; `next(...)` over the three names fails
  when all are taken. A group key or a derived column named like a count is read
  as a size, which is why `ShownGroupsAreLarge` assumes `SizeIsCounted`. Rows
  without a value fall into the last band although `bin_column.py:112` promises
  them one of their own; `EveryRecordIsCounted` pins down that they are in no
  other.
* `formats.py:84` says the commit sees the whole workbook; `_inspect` sniffs a
  head of a megabyte, and the archive's directory is at its end, so a larger
  workbook is refused at commit too. Previews of Parquet, XLSX and JSON files
  beyond a megabyte are rejected, and the page then offers no commit.
* `normalize.py:7` says a file that cannot be read is refused; transcoding, the
  schema of a scan and the first rows after it are read outside the try block,
  and `_commit` catches `IngestRejected` alone (`routes_datasets.py:1036`).
* A file of a header alone is stored although its preview notes that committing
  will refuse it. `_reject_unsplit_rows` compares with the width of `column_1`,
  so a headerless file of two columns read with the wrong delimiter is accepted
  as one column. Polars renames repeated CSV headers before
  `_reject_duplicate_columns` sees them. `PARSE_TIMEOUT_SECONDS` is not used.
* `llm/planner.py:1067` gives up after the third rejection and says two. A call
  without an id is answered with the tool's name (`planner.py:1079`), which
  matches no id in the transcript.

## 4. Proofs

Each `...Proofs` module proves about one component, for every value of the
constants: any number of requests of each kind, any bounds and limits. The
argument is the same in each: the safety properties are not inductive alone,
`IInv` strengthens them, `Init => IInv` and `IInv /\ [Next]_vars => IInv'` are
proved action by action, and every property follows from it.

### ComputationsProofs

* `TypeCorrect`: types, and that a turn draws no more ids than it has rounds;
* `InductiveInvariant`: `Spec => []IInv`, and from it `OneAnswer`, `NoOrphans`,
  `ChainsHold`, `CitationsHold` and `DeletionIsOnce`;
* `CacheIsImplemented`: `Spec => CacheSpec`.

`IInv` adds: where requests can
be (`Places`); that ids are drawn in order (`Draws`), so a fresh one is in no
row; that a request's questions are about its own dataset (`OwnDataset`); that a
row under deletion is held by nobody else (`DeletionIsExclusive`), which is what
the key-share lock gives; that the table a request resolved (`ParentFound`) and
the answers it collected (`StepsAreKept`) stay visible to it. The last two are
why a citation holds after a race: the loser saw the winner's row committed
before its own insert returned.

### DatasetsProofs

* `TypeCorrect`, `InductiveInvariant`, and from it `DatasetsAreComplete`
  (`CompleteAtOnce`), `NoCorrectionIsLost` (`CorrectionsSurvive`) and
  `TheLogIsTrue` (`LogAgrees`);
* `HistoryIsImplemented`: `Spec => HistorySpec`, with one lemma per kind of step:
  the commit of an upload opens a history, the commit of an override extends it,
  the commit of a deletion withdraws it, every other step stutters.

`IInv` adds: whose uncommitted rows exist (`DatasetRows`, `SourceRows`,
`ContractRows`, `AuditRows`), which is what a commit publishes; that one deletion
at a time holds a row and nobody inserts a contract meanwhile (`DeletingRows`);
which files are there at each step (`FilesInStep`); that the contract an override
has read is still stored while its dataset is (`BasesAreStored`), although nobody
holds it; and that versions have no gap and only the newest can be uncommitted
(`VersionsInOrder`). The last two are the whole argument of the refinement: two
overrides that read the same version write the same next one, the unique index
lets one through, and whoever commits extends what it read.

`LogAgrees` has three parts, each kept for its own reason. `ContractsAreLogged`:
the event is in the transaction of the contract, so a commit publishes both.
`EventsAreTrue`: only a cascade removes a contract, and the commit of a deletion
publishes its own event. `DeletionsAreTrue`: an id is never used again.

### AccountsProofs

* `TypeCorrect`, `InductiveInvariant`, and from it `OneCompleteAccount`
  (`AccountsAreComplete`), `RefusalsAreKept` (`RefusalsAreOnRecord`),
  `OneResetPerLink` (`LinksWorkOnce`) and `NothingGoodIsLeft`
  (`WhatWasGoodEnds`).

`IInv` adds: the state of the row a request makes, from where the request is
(`RowStates`), and that a row being ended is good until the commit; whose
registration the account's rows are (`AccountRows`); that whoever uses a link
holds its row, marked, until it commits (`LinkIsHeld`), which makes a second use
wait and then find it over; that what was good can only become over
(`KnownStayKnown`); and that what a request set out to end it has ended or has
still to take (`SessionsAreSwept`, `LinksAreSwept`). The last holds across the
rows of others because a row another transaction holds is waited for: when
`Touch` of a signed-in request commits, the row is good again and is taken; when
it was ended, it is over.

### CopilotProofs

* `TypeCorrect`: shapes, and that a turn asks for no more than `MaxSteps`
  proposals; `InductiveInvariant`; and from it `TheTurnStaysWithItsVendor`
  (`OneVendorPerTurn`), `EveryCallRunsOnce` (`NoCallRunsTwice`),
  `NothingIsKeptFromTheModel` (`ModelSeesEverything`) and `NoNeedlessWait`
  (`WaitsAreAskedFor`).

The types rest on a lemma about the order of rungs (`FirstIsOne`, from
`LeastNumber` of `OrderLemmas`) and one about `Pin`
(`PinIsALadder`). `IInv` adds: once a turn is pinned every rung that is left is
of the vendor in its label (`OneVendor`), and before that there is nothing to
replay; in local mode the ladder is all local (`LocalOnly`); a call that is about
to run has not run (`RunsOnce`); the transcript is one exchange behind the
proposals while one is at work (`Transcript`). `ToldMore` and `ToldAsBefore` say
what one more exchange does to the account the transcript gives of the calls.

### TablesProofs

* `TypeCorrect`, `InductiveInvariant`, and from it `RowsOfTheFile`
  (`ComputedRowsAreMarked`), `OrderIsKept` (`RankingsKeepTheirOrder`),
  `GroupsAreLarge` (`ShownGroupsAreLarge`) and `NothingIsLost`
  (`EveryRecordIsCounted`), for chains of any length over any datasets.

`IInv` says that the stored table is `Sound`: rows have a cell per column
(`Typed`); two rows stand for different records, and for some (`Apart`); without
the mark a row is one record (`Single`); a column a tool counted holds, in every
row, no more than the records the row stands for (`Counted`); a ranking has
rising ranks (`Ranked`). One exception is needed: a
lone row may stand for no record at all, since an aggregate without keys of an
empty table makes a row. Counting such rows again gives a size of 1 for 0 records,
so `Counted` allows a size of 1, and `GroupsAreLarge` needs `K_ANONYMITY` above 1.

`SourceIsSound` is about what a call reads, and each tool has a lemma that it
stores a sound table of a sound one. `aggregate` and `bin_column` share
theirs: their groups are disjoint (`AlikeIsPartition`), each stands for at least
as many records as it has rows (`StandingIsLarge`), so a table with a row per group
is sound (`SummaryIsSound`), and its counts add up to the rows by a one-to-one
correspondence of units and rows (`SummaryAddsUp`, `SummaryAccounts`). The band of
a value rises with it (`BandRises`, from `QuotientRises` of `OrderLemmas`), so what
lies between the least and the greatest value of a band is in that band
(`BandHoldsItsValues`). That `bin_column` finds a
free name for its edges is a pigeonhole argument (`FreeIsAName`).

`OrderLemmas` holds what several modules need of orders: numbers have a least
one, finitely many a greatest, counting a finite set without repetition reaches
all of it, and what puts at each place an element with that many before it lists
the set in order (`PlacesAreOrdered`).

### ColumnsProofs

* `InductiveInvariant`, and from it `InferredTypesHold` (`InferredTypesFit`),
  `SurfacesCountTheSame` (`SurfacesAgree`), `DrawingsAreComplete`
  (`EveryValueIsDrawn`), `CurvesAreComplete` (`CurvesReachTheEnd`) and
  `ReportsAreComplete` (`ReportsAddUp`), for files of any columns over any texts.

The steps are few and the files many. `IInv`: nothing is uploaded yet, or the
contract has a type for each column (`Typed`) and one nobody corrected has the
type and confidence inferred from its cells (`Inferred`). The rest is about what
the queries compute. A definition by an order, a filter or a sum yields what it
should for every input without an induction over it: a sum is the size of a set
of units, an order is fixed by how many come before each, and a property of
every prefix has a least counterexample. In the order they are used:

* *Orders.* What is sorted or picked is in order and loses nothing
  (`PlacesInOrder`), so a ranking lists each value once and its counts fall.
* *Types.* A text has one pattern, so the counts of the patterns add up, the
  numbers and moments of a column are those of the patterns that read as one, and
  an inferred type is one that all values have.
* *Surfaces.* The numbers of a consistency finding, of `conforming_count` and of a
  panel are sizes of sets of cells; of a column declared boolean the panel's is the
  others' and, apart from them, the 1s and 0s. Cells tell apart at least what their
  texts do, and more only if two of them hold one text.
* *Buckets.* Each value falls into one bucket, the greatest into the last, and
  the sizes of disjoint parts that cover a set add up to it. Histograms, the
  strip, calendars and cycles are such parts; a ranking with its others is too.
* *Words.* Words of all rows laid end to end are counted place by place; every
  pair of words begins with one, so a pair is never more frequent.
* *Curves.* Thinning by steps keeps the last rank and one rank more than points at most; a
  quantile rises with its place and stays between the least and the greatest; as
  the quartiles are inside the fence somebody is, so the whiskers are values.
* *Reports.* Rows with one key are a class; one row of each class is left when the
  redundant ones are dropped; the cells of a crosstab are disjoint parts of the
  complete rows, and are all of them when no level was left out.

### IngestProofs

* `TypeCorrect`, `InductiveInvariant`, and from it `PreviewIsKept`
  (`PreviewForetells`), `EncodingsKeepText` (`EncodingsKeepTheText`) and
  `UnsplitLinesRefused` (`UnsplitLinesAreRefused`), for files of any lines over any
  symbols, cut anywhere.

Here too `IInv` says little and the lemmas about the readers much. `IInv`: the
form holds what the preview of this file proposed, but for the field somebody
changed (`Proposed`); the answer is what the form asks for (`Answered`). The
lemmas, in the order they are used:

* *Cells.* A set of places has an n-th one (`NthIsOne`), so a line splits into one
  cell more than it has delimiters (`SplitIsCells`); decoding makes no delimiter
  and loses none (`LineAsRead`, `DecodedIsText`), so a text has as many cells as
  the bytes it was read from.
* *Tables.* `polars` tells repeated names apart (`DedupedIsInjective`), and what the
  strict reader does not reject holds its text cell by cell (`FrameIsTable`).
* *Detection.* A commonest width, a best score and so a delimiter always exist
  (`CommonestIsOne`, `BestIsOne`, `DelimiterIsDetected`), whatever was cut.
* *Encodings.* A cut leaves half a symbol at the end of the last line only
  (`CutIsAtTheEnd`), and only if it goes through a character (`CutInside`); a
  reader that knows it has a prefix trims it. So UTF-8 is recognised in every file
  but a page upload cut inside a character (`Utf8IsRecognised`), whatever lies beyond
  the cut. The page sends a prefix and does not say so: that is the finding, and the
  one exception of the theorem.
* *Unsplit lines.* A table of one column read from lines that each hold another
  delimiter is those lines, and so holds at least as many delimiters as cells
  (`LinesAreCells`, by an injection of cells into places).
* *Two readers.* What the strict reader of the preview accepts raises none of the
  errors the streaming one leaves unhandled, and is what it stores
  (`StrictIsStored`); what only the lenient one can show, it refuses
  (`TextIsForetold`).

### What the proofs rest on

* `Computations`: the kinds of requests are disjoint, `ToolOf` gives every call a
  tool, the bounds are positive, and `Base` is no id.
* `Datasets`: uploads, overrides and deletions are disjoint, and none of them is `Committed`
  or `None`; columns are names.
* `Accounts`: the kinds of requests are disjoint, none is `Committed`, and no request,
  password or hash is `None`; bounds are numbers.
* `Copilot`: `None` is no vendor and no call; a call `_check` refuses is not one
  a tool declines; bounds are numbers.
* `Tables`: a record has a cell per column and a type per name, names are not
  empty, `NoValue` is no number, the words the tools use are words, limits are positive and `K_ANONYMITY`
  is more than 1 (5 in `llm/privacy.py`).
* `Ingest`: delimiters are symbols, differ, and are neither accents nor marks of a
  cut; the comma is one; the first megabyte ends between two symbols or, in UTF-8,
  inside one; no dialect, value of a
  field or cell is the absent value; limits are positive.
* `Columns`: a file is some columns of one length; the words that read as boolean
  are true or false, and besides them only integers may (1 and 0); numbers and moments are integers, and two texts differ in
  their place in the alphabet; bounds are positive, there are two buckets or more,
  a curve has more points than its head and a cloud holds the terms listed.

Each is checked by TLC for its instances. Before it was proved, `IInv` was checked
by TLC on the instances of `sign_in` (340,873 states) and `sessions` (1,373,710)
for `Accounts`, of `turn` (202,245) for `Copilot`, of `tables` (35,686) for `Tables`,
of `ingest` (72,330) for `Ingest` and of `columns` (12,003) for `Columns`.

### What is only model-checked

* Liveness (`EveryRequestEnds`, `TurnsEnd`): fairness and ENABLED are outside
  what TLAPS proves here.
* The two claims the code does not keep, `ProfileOpens` and the encoding of a cut
  file, have a run that refutes them; the properties proved leave out those cases
  by name (a card that ends in an `IndexError`, a page upload cut inside a
  character).

Every safety property of a passing run is a theorem. The runs check the
properties the theorems name on small instances, except that the types and
`IInv` of `Computations` are proved only.

## 5. What is not modelled

The table of components in `PROJECT.json` lists every part. Left out:

* wiring and formatting (`api/app.py`, `schemas.py`, `manifest.py`), the sending
  of mail and the drawing of tokens, migrations, configuration, provider
  diagnosis and the client's markup: no state, or none the server keeps;
* the expression language: a tokeniser, a parser and a type checker without
  state. Its recursion over text is an algorithm for a test of inputs, and
  `Tables` takes what an expression computes as given;
* prompts, the rendering of single statistics and the check of a narrative
  against the steps (`validate_narrative`): text;
* in `Figures`, moments of a distribution and counts nothing else depends on; in
  `Ingest`, quotes, blank lines, UTF-16 and 32, column limits and the physical
  types of Parquet files; in `Tables`, equal-count bands and plots; `get_rows`;
* what a page does with answers that arrive late.

## 6. Plan

1. `Computations`, `Datasets`, `Accounts`, `Copilot`, `Columns`, `Tables`,
   `Ingest` and the modules they rest on (done).
2. `ComputationsProofs`, `DatasetsProofs`, `AccountsProofs`, `CopilotProofs`,
   `TablesProofs`: every property of these five but liveness, and both refinements
   (done).
3. `IngestProofs` and `ColumnsProofs`: every property of `Ingest` and of `Columns`
   (done).

The number of runs and properties stays as it is: a new property replaces a
shallower one.
