# A verification project for eCatalogus

eCatalogus is a Django application that catalogues medieval liturgical
manuscripts. Several sites run it, each with its own database, and exchange
reference data over HTTP: the *ETL* of `src/etlapp`. That exchange is the part of
the system that is concurrent, distributed and stateful. Around it, the pages from
which staff run it, import tables and start analyses, and the public API through
which content arrives, are programs of callbacks, queued tasks and transactions of
their own. These specifications are about both.

The modules are TLA+, checked with TLC on small instances; the theorems in the
`*_proofs` modules are proved with TLAPS for every value of the constants.
`PROJECT.json` lists the components, the runs, the theorems, which lines of the
source each definition models, the hazards the properties are aimed at, and for
every property a mutation of the code that it detects.

## 1. The system

### Topology

A site is an instance in `scripts/config/instance_registry.toml`. `ecatalogus` is
the canonical master; `mpl`, `canon-missae`, `corpus-liturgicum` and `eclla` are
its children, and `limbo` is a child of `mpl`, which relays. A site may also pull
from the sites in its `source_peers`: `ecatalogus` from `mpl`, `mpl` from
`limbo`. Tables fall into three categories (`etlapp/model_categories.py`):

| category | edited | replicated |
|---|---|---|
| `main` (controlled vocabularies) | on the master only (`main_guard.py`) | one way, from the parent |
| `shared` (Hands, Bibliography, Contributors, Watermarks) | everywhere | either way, with versions and conflicts |
| `ms` (manuscripts and their records) | everywhere | as packages, on request |

### Components

| component | state | operations | what makes it correct |
|---|---|---|---|
| Shared replication (`services.py`, `signals.py`) | rows with `version` and `entry_date`, `DeletedRecord`, the pull in progress, the decisions of a conflict workflow | create, edit, delete; export, deleted list, import; resolve, close | no tombstone is lost, versions count edits, an import does what the operator decided, the workflow ends |
| Main replication and refresh cascade (`services.py`, `views.py`) | rows, tombstones, a nest of pulls over several sites | save, delete; pull with refresh, import, fail, time out | copies move forward, deleted rows stay deleted, the cascade is bounded, what follows a refresh is current, copies converge |
| Import of an export (`services.py`) | the transaction: tables left, pending records, deletions | select and expand, order, passes, store, delete | the database stays consistent, no live row is lost, nothing is given up, repeated pulls converge |
| Editorial guard (`main_guard.py`) | none | refuses writes to `main` | only the master edits |
| ETL operator page (`etl_sync.js`) | `etlConflictWorkflow`, `etlActiveConflict`, `etlPendingOperations` | pull, answer, import a package, close, poll | decisions go where they were made, the page says what happened and stops waiting |
| ETL task queue (`tasks.py`, `views.py`, Celery) | queued and running tasks, their results | queue or fall back, retry, succeed, fail, die | one report per request, never "done" of what was not done |
| CSV importer (`importer.js`, `indexerapp/views.py`) | `data`, the table on display, requests in flight, rows stored | read a file, send, check rows, save rows, answer | nothing stored of a refused file, success means all rows, what is sent is what is shown |
| Corpus analysis runs (`analysisapp`, `corpus_analysis.js`) | status of a run; the run selected and polled, what the page awaits | start, queue or run inline, end, fail, die; list, select, poll, draw | the page learns of the end of a run |
| Public API imports (`apiv1`) | rows of a manuscript with sequence numbers, the open transaction | validate, replace or append, number, commit | all or nothing, numbers after what was there, requests end |
| Peer registry and settings | configuration | read at start-up | a parent for every slave |
| Authentication, schema, URL routes | none | token check, request descriptions | - |
| Push endpoint | none of its own | import of a body the caller supplies | as for the import; nothing in the repository calls it |
| Manuscript packages and media (`services.py`) | what an export has read, the open import, the media files | export table by table, import, write files, fail | a package arrives whole, with its files, and repeated ones converge |
| UUID columns, shadow keys | derived columns | filled on save | each agrees with what it is derived from |
| Digital page numbers (`signals.py`) | copies of `Content.digital_page_number` in six tables | save receivers | - |
| Catalogue models and admin | rows | data entry | keys and constraints hold |
| Analysis mathematics | none | pure functions | - |
| AI assistant, Zotero client | a query record; none | calls to external services | - |
| Catalogue views, templates, read-only API | none of their own | rendering | - |

The components interact through HTTP requests (a pull is two requests to the peer,
three with the refresh, and the refresh is a pull at the peer; the pages post, poll
and list), through the broker and its result backend, through database rows (the
receivers of `signals.py` run inside every `save` and `delete`, and the import goes
round them with `QuerySet.update`), and through foreign keys (a record of a
manuscript protects the rows it references from being deleted).

### What is hard

* **Interleaving.** A pull is not serialised with editors, with other pulls, or
  with the peer's own edits between the two requests. An admin form writes back all
  fields as they were when it was opened.
* **Two clocks and a counter.** `entry_date` (auto_now) is copied by an import,
  `deleted_at` (auto_now_add) is local, and `version` is raised by a receiver that
  the import does not trigger.
* **A workflow that repeats itself.** Each answer to a conflict runs the whole pull
  again, against a peer that has moved on, with lists that live in a page.
* **A cascade.** A refresh request holds a chain of nested pulls; any of them can
  fail, conflict or time out, and a caller can give up on one that goes on.
* **Order within an import.** Records come sorted by `entry_date`, not by what they
  refer to, and deletions come after rows; rows protect each other, cascade to each
  other, and may have unique names.
* **Requests that outlive their answers.** A page loses a connection while the
  handler goes on; a broker takes a message and still raises; a task is retried, or
  is lost with its worker.
* **Global variables across awaits.** The pages are async functions over one state
  each: answers arrive in another order than they were asked for.
* **Where a transaction is, and where it is not.** The bulk import has one around
  everything, the CSV import one around each row.

`PROJECT.json` "hazards" has the full list with the line at which each bites.

## 2. Modules

    MainCatalogue                         what replication of `main` promises
        ^  INSTANCE ... WITH, in EtlMain
    EtlMain        <- MCEtlMain           `main` down a chain of relays
        ^-- EtlMain_proofs
    EtlShared      <- MCEtlShared         `shared` between peers
        ^-- EtlShared_proofs
    EtlImport      <- MCEtlImport         one pull, from the inside
        ^-- EtlImport_proofs
    PullRequest                           what the ETL page promises of a request
        ^  INSTANCE ... WITH, in EtlPage
    EtlPage        <- MCEtlPage           the page, its handlers and the queue
        ^-- EtlPage_proofs
    TableImporter  <- MCTableImporter     the CSV importer and the import views
        ^-- TableImporter_proofs
    CorpusPage                            analysis runs and their page
        ^-- CorpusPage_proofs
    ContentImport  <- MCContentImport     bulk imports of content
        ^-- ContentImport_proofs
    ManuscriptPackage <- MCManuscriptPackage   the package of a manuscript
        ^-- ManuscriptPackage_proofs

Four models look at the ETL of tables, at four grains, and one at that of
manuscripts. An import is one transaction, but it reads what others commit meanwhile and
locks only what it writes. `EtlShared` opens it row by row, since there the row that is
read decides. `EtlMain` takes it as one atomic step: every record is written over
whatever is there. `EtlImport` opens the transaction and holds everything else
still. `EtlPage` takes a whole pull as one step, done by a handler or by a worker,
and opens what happens around it. `ManuscriptPackage` opens the export, which
has no transaction, and the import row by row. A definition whose comment begins "Variant:" stands
before the definition it varies: it is the mutation that shows that a property is
sensitive to the code, and is used nowhere else.

### EtlShared

| state | code |
|---|---|
| `row[n][u]` | a row: its `version`, its `entry_date`, and instead of its fields the set of edits they carry |
| `tomb[n][u]` | `DeletedRecord.deleted_at` |
| `cited[n]` | rows that a manuscript record references with `on_delete=PROTECT` |
| `form[n][u]` | a change form: what was read, and once submitted the version the receiver chose |
| `op[n]` | a pull: its peer, `since`, the two responses, `force_remote_uuids`, `keep_local_uuids` |
| `txn[n]` | the import's transaction: the rows as it has read them (`read`), which of them it has dealt with (`checked`), the one it is to write next (`due`), those it has written and so locked (`written`) |
| `overridden` | history only: rows an operator has forced, or that were saved between an import's reading and its writing of them |

Submitting a form is two actions, as in the code: the `pre_save` receiver reads the
stored row and chooses the version (`SubmitForm`), the `UPDATE` follows
(`WriteForm`), and anything may happen in between. So is the import of a row:
`CheckRow` is the `SELECT` with the conflict check (`services.py:1197`-`1213`),
`UpdateRow` the `UPDATE` (`1241`), without a lock between them, so that a form may be
saved or a row deleted there. From then to the commit the row is locked (`Unlocked`):
others who would write it wait. A pull is `StartPull` (the
export), `FetchDeleted`, these two for each record, and at the end the deletions with the
commit (`Import`); or `StopOnConflict` at a record, or `ImportFails` where the row has gone
or come since it was read. What the transaction has written is seen by nobody before the
commit, so that `row` changes there. `Resolve` starts the pull again
with one more decision. `Conflicting` is `_check_shared_conflict`: a lower version,
or the same version and another row. A pull of `main` preloads `shared` without
`since` and without decisions, which is the category "main" of this module. What a
queue and a page make of the pull is `EtlPage`'s subject.

### EtlMain and MainCatalogue

A row of `main` is abstracted to its `entry_date`, which an import copies. A pull is
a stack of frames, `job[p][h]`: frame 0 is what an operator started, frame `h + 1`
serves the refresh request of frame `h` at the peer. `Ask` is
`_request_peer_upstream_refresh` together with `ETLUpstreamRefreshView` at the
peer, `Remaining` the depth that is passed on, `Over` the answer that lets the
caller go on. `Proceed` reads without a refresh, `GiveUp` after an HTTP error,
`TimeOut` is a socket that was not answered. `fresh` records whether every relay on
the way said it had refreshed; `seen`, history only, what the master had when the
operator asked.

`MainCatalogue` says what readers of a copy may rely on: a copy changes only towards
newer saves of the master, never backwards, and what it deleted stays deleted.
`EtlMain` implements it under the mapping `newest <- saved`, `copy <- row`,
`gone <-` the tombstones (property `ReplicasMoveForward`).

### EtlImport

Tables are numbers in the alphabetical order of their names, because the code breaks
ties by name; `Placed` and `Before` are `_get_category_models_in_dependency_order`
and `Expanded` is `expand_category_model_selection`. The steps of the transaction
are actions: `NextTable`, `ImportRow`, `PutOffRow`, `RefuseRow`, `EndPass` (another
pass, or give up), `BeginDeletions`, `DeleteRow`, `EndCategory` (from the preload to
what was asked for) and `Commit`. Foreign keys into the row's own table are CASCADE
and all others PROTECT, as in the models concerned. The peer stands still; where
the instance starts is any consistent state in which no row is its own ancestor, as
is the peer's, so every history of additions, renamings, moves and deletions at the
peer is covered.

### EtlPage and PullRequest

| state | code |
|---|---|
| `workflow` | `etlConflictWorkflow`: peer, category and the two lists of decisions |
| `active` | `etlActiveConflict`, and for the properties the peer it is with |
| `pending` | `etlPendingOperations` |
| `kind[o]`, `at[o]`, `outcome[o]` | an operation in the page: a pull, an answer or a package; awaiting its response or polling; what was displayed |
| `request[o]`, `srv[o]` | what was posted, and the handler that has it |
| `task[o]`, `tries[o]` | the queued task as the result backend shows it, its retries; a result is kept only while the page polls it |
| `differs[p]` | rows on which a pull from `p` would stop now |
| `ordered` | history only: the rows of which the operator has said, in the workflow under way, that the remote one applies; it ends with the workflow |
| `mandate[o]` | history only: `ordered` as it was when the answer `o` was posted |
| `carried` | history only: operations that were committed |

An operation passes through the page, the handler and perhaps a task, which do not
wait for each other. `LoseAnswer` ends it in the page alone: a connection or a
gateway has timed out, and the handler goes on. `FallBack` is
`_queue_or_run_etl_task` when `apply_async` raises: the broker may or may not have
the message, so the pull may be run twice. `Retry` is `self.retry` after any
exception, a conflict included, and `WorkerDies` loses a task, before its commit or
after: messages are acknowledged before they are run, so nobody runs it again and its
status stays PENDING. `updateConflictWorkflowFromPayload` and the three ways a
continuation ends are `Completed`, `Failed` and `Stopped`. The Import buttons of
packages are not always disabled while the page is busy (`StartPackage`); everything
else is (`Idle`).

`PullRequest` is the promise behind the page, in terms of what the operator sees: a
request gets at most one report, and the report is "done" only if the request has
been carried out. A report of a failure promises nothing: the request may have been
or may yet be carried out. `EtlPage` implements it (property `OneReport`).

### TableImporter

| state | code |
|---|---|
| `data`, `tableName` | the globals of `importer.js`: the file last read, and whether `sanitizeImportRow` has deleted its ids |
| `shown`, `errorInfo`, `loading` | the table drawn, the text in `error-info`, `loading-info` |
| `waiting` | requests whose answer the page will hear |
| `request[s]`, `phase[s]`, `next[s]` | what was posted, which loop of the view it is in, at which row |
| `stored`, `notations`, `removed` | rows, music notations, and as history the rows that went |

A file is the table its columns name, what its validation makes of it (valid,
invalid, or an exception), and for each row what the view will make of it: stored,
refused by the first loop, or failing in `save`. `ReadFile` is the reader's callback:
`data` is replaced first, and the table is drawn only if the file is valid. `Send`
posts `data`. `CheckRow` and `SaveRow` are the two loops of `import_content` and
`import_data`, one row a step, each saved by itself; `Succeeded` reloads the page.

### CorpusPage

| state | code |
|---|---|
| `status[r]`, `exec[<<r, x>>]` | `AnalysisRun.status`; the executions of a run by the request that starts it and by a worker |
| `listed`, `run`, `manifest`, `timer` | `corpusAnalysisState`: the runs as listed, the one selected, `pollTimer` |
| `says`, `panel` | the text of `corpusStatus`, the report drawn |
| `waiting` | the functions at an `await`: for a start, a list, a poll, a manifest or a report, of which run, and what `corpusStartRun` polls after it |
| `broken` | history only: a `fetch` was rejected, and with it the functions that awaited it |

Every answer may come in any order. `SelectRun` is `corpusSelectRun` up to its await
and `ManifestAnswered` the rest of it. `Tick` is the callback of the interval, which
does not wait for the answer of the one before. `PollAnswered` clears whatever timer
is set, and not only its own. `MakeDirsFails` is an exception between `running` and
the `try` block. `Start` is `AnalysisRunStartView` with `_dispatch`: the run is queued,
or executed by the request when Celery is off or `apply_async` raises, which it may do
after the broker took the message; then both execute it, and a run that is done becomes
running once more. A manifest that one execution has written stays (`Written`).

### ContentImport

| state | code |
|---|---|
| `content` | the committed rows of the manuscript: who wrote each, and its `sequence_in_ms` |
| `phase[r]`, `items[r]`, `replace[r]` | a request: how far, its rows, its mode |
| `victims[r]`, `deleted[r]`, `next[r]`, `written[r]` | what `QuerySet.delete` has read, what the open transaction has deleted, `next_sequence`, what it has inserted |
| `form`, `saves` | an editor's request, which reads a row and writes it later |
| `base[r]` | history only: the rows there when the request arrived, less those saved since |

Statements read what is committed when they start, and their own changes (READ
COMMITTED, which is Django's default with MySQL). Rows that an open transaction has
deleted are locked: other deletions and saves of them wait. An editor's save of a row
that is gone meanwhile inserts it again, as `Model.save` does.

### ManuscriptPackage

| state | code |
|---|---|
| `src`, `dst` | the rows of the tables of category `ms` at the two sites: for each what it refers to within the category, and its file |
| `media` | the files under `MEDIA_ROOT` at the destination, its own or the source's |
| `phase[p]`, `left[p]`, `got[p]`, `files[p]` | a pull: reading tables, storing rows, writing files; the tables not read yet, `included_records` with what was serialized, `media_files` |
| `todo[p]`, `written[p]` | the import: records it has not come to yet; rows it has written, and so locked |
| `outcome[p]` | what the operator was told |
| `moved`, `imported` | history only: pulls during which the source has changed; rows as an import left them |
| `crossed[p]` | history only: rows that others changed at the destination after the import of `p` had passed them |

`ReadTable` is one round of the loop of `build_manuscript_export_payload`: a table with
a key to Manuscripts is searched by it, any other by the rows included so far
(`Found`). Editors at the source save and delete between two rounds. Rows are imported
one by one in dependency order (`ImportRow`, `Due`): a row that is there just so is passed
over after a plain `SELECT` (`services.py:1234`-`1238`), any other is written and so
`Locked` until the transaction ends. Others may change or delete what was only read,
the rows that were passed over as well as the related objects. `Refuse` undoes the
transaction when a related object is `Missing`, which is looked up row by row. `WriteFile`
is one round of `_import_media_files`, inside the transaction and yet for good: `Fail`
rolls rows back and leaves the files. A deletion also waits for the rows that refer to
what it deletes (`DeleteHere`): the keys of the tables are SET_NULL (`Deleted`), and the
database checks them. The `SELECT` and the write of one row are one step here, unlike in
`EtlShared`: no check stands between them, so a save in between is overwritten as it would
be a moment before.

## 3. Runs

| run | instance | bounds | shows |
|---|---|---|---|
| `SharedOneRow` | 2 sites pulling from each other, 1 row, both categories | 4 saves or deletions by users, `since` empty or 2 | the safety properties of `EtlShared` |
| `SharedWorkflow` | child and parent, 2 rows | 3 saves | `AskedOnce` and, under fairness, `WorkflowEnds` |
| `MainChain` | master, relay, leaf, 1 row, 1 pull at a time | depth 2, 4 saves, `since` empty or 2 | safety, refinement, convergence |
| `MainLoop` | two sites that are each other's parent | depth 2, room for 4 hops | what any registry and overlapping pulls leave of safety: `HopsBounded`, `CopiesFollow`; `PullsEnd` |
| `ImportTables` | RiteNames, Sections (self-reference), a shared table with unique names; 5 rows | 1 reference a row, 1 name | consistency, also when names clash, no loss, no giving up, what each full pull brings and takes away, convergence |
| `PageQueue` | the ETL page with 2 peers, one with 2 rows and one with the first of them, both categories, a queue | 2 operations under way at once, 1 retry | the page's state, its reports, and that it stops waiting |
| `ImporterPage` | 6 files, one for each way an import can go; 1 manuscript, 1 formula stored before | 2 requests | what is stored, what is sent, the loading text |
| `CorpusRuns` | 3 runs, of which 1 ended before and 1 may be executed twice (`Twice`) | 2 requests awaited, 2 clicks | that the page learns of the end of a run |
| `ContentBulk` | 2 requests, 2 rows there before, an editor | lists of 0 or 2 rows, 2 edits | all or nothing, numbers, requests end |
| `Packages` | 4 tables like Manuscripts, Content, Decoration and DecorationSubjects, a row each; 2 pulls of the manuscript at once | 1 edit at either site, 1 file name | packages are whole and have their files, reasons for refusal, convergence |
| `ImporterPartial` | as `ImporterPage` | 1 request | *violation*, finding 1 |
| `ContentRetry` | 2 requests by callers who ask first, no row there before | lists of 0 or 2 rows | *violation*, finding 2 |

**Why the bounds are enough.** The rows of a category are independent except for
the operator's decisions, which is what the second row of `SharedWorkflow` is for,
and for references, which are `EtlImport`'s subject. The conflict check compares two
copies of a row, so two sites with three or four saves give each relation of two
versions and two payloads (lower, equal and the same, equal and different, higher
and concurrent), a stale form on top of an import, and a deletion followed by a
re-import and another deletion. `since = 2` falls between saves. In the chain, three
sites are the longest the registry has; depth 2 lets a refresh run through the whole
chain, and `MaxHops` of `MainLoop` is above the depth so that a refresh that did not
stop would be seen. The tables of `ImportTables` have all kinds of reference the
order must deal with: to another table of the category whose name sorts later, to
another category, and to the table itself. With one name, a row of its shared table
clashes with any other: what is there under the name of a deleted row, or of a row
that was created after it. `MaxClock` bounds what users do; pulls
are unbounded. Forms are opened only while each open one can still be saved within that
bound (`OpenForms`), so that the bound never stops a save half-way.

In `PageQueue` the number of operations is unbounded: the bound is on those of which
something is under way, and with two of them an answer that was given up can still
be running while the next one is, and a package can be imported beside a pull. Two
rows let a workflow have a decision about one while it asks about the other. One
retry tells the last try from those before it. The second peer has a row that the first
has too, so that a list made with one could be used with the other. In `ImporterPage` two requests can
store the same id, fail in either loop, and answer while the other is running. In
`CorpusRuns` there is a run that has ended, one that the page polls and one started
after it; with two awaited answers any two of a poll, a list, a manifest and a report, of
different runs, overtake each other. The first run that is started may be executed twice,
the other is there to be selected meanwhile. In `ContentBulk` two imports meet at the same rows to replace, at
the same highest number, and at a row an editor has open. The tables of `Packages`
have each kind of key there is within `ms`: to the manuscript, to another table that
has one too, and, in a table that has none, to a row that is found first; every
initial combination of references is tried, those to rows of no manuscript included.
One edit is enough to tear a package, to change or delete what one brought, or to do so
behind an import that has passed it; the second pull changes rows behind the first as well. A file
of the destination's own may have the name of the one in the package; that a file may
be missing at the source (`Lost`) is covered by the proofs.

**Type invariants** are proved in all eight modules (`TypeCorrect`), so TLC checks only
that of `EtlShared`, in `SharedOneRow`. `ImportTables` also evaluates `InstanceAssumption`:
its tables satisfy the hypotheses of the theorems about `EtlImport` (section 6).

**Symmetry** is not used: the sites have different parts, and the liveness and
refinement properties would not allow it.

**Deadlock** is checked in the ETL runs: a site (or an operator) can always start a
pull, except when one is under way, and that one can always go on. It is not checked (`CHECK_DEADLOCK
FALSE`) in `CorpusRuns`, `ImporterPage`, `ImporterPartial`, `ContentBulk` and
`ContentRetry`, where people stop after a bounded number of clicks, sends or requests
and everything really rests. That nothing rests too early there is what `ProgressEnds`,
`LoadingEnds` and `RequestsEnd` say.

**Fairness.** `EtlShared`: a peer that is asked again and again answers some time
(SF on `FetchDeleted`, because `FetchFails` competes with it for the state), a
request handler runs to its end (WF on `ImportStep`, which contains the failure and the
conflict), and an operator who sees a conflict answers or closes it (WF on `Attended`).
That an import fails each time because its row has gone or come takes a user each time,
and what users do is bounded. `EtlMain`: each frame
goes on (WF on `Refresh` and on `Read`, both of which contain the failure and time-out
steps, so nothing is assumed to succeed). `CopiesConverge` takes it as a premise, not
as fairness, that full pulls succeed again and again at every site. `EtlImport`: a
transaction goes on, and full pulls of `main` are started again (SF, because a pull
can only start when none is running). `EtlPage`: of each operation, whatever is under
way goes on: the handler, the task, the polling; nothing is assumed to succeed, no
worker to stay alive and no operator to act. `TableImporter`: a handler goes to its
next row, and the browser calls back when a response is there. `CorpusPage`: a worker
takes what is queued and what it runs ends, though it may die at any time; the server
answers what it is asked; the interval fires; and since a poll is repeated every 2.5
seconds, it is not refused every time (SF). `ContentImport`: a request that has been
received is worked on, and a wait for a lock is not cut short. `ManuscriptPackage`
assumes none: `PackagesConverge` has as its premise that pulls commit again and again.
No fairness is assumed of what users edit.

## 4. The properties, and what could break them

Replication:

* `StampIdentifiesRow`: two copies with one `entry_date`, in a database or in flight,
  are the same row. `_check_shared_conflict` compares `entry_date` among the fields, so
  an import that re-stamped or re-versioned what it copies would break it.
* `DeletionsRecorded`: whatever goes has a tombstone, and no tombstone is removed or
  re-dated.
* `CitedRowsExist`: PROTECT holds against staff and against announced deletions.
* `VersionCountsEdits`: the counter is at least the number of edits of the payload,
  with stale forms, saves that race an import, and deletions under an open form. It
  holds until an operator forces a row with `apply_remote`, or an import overtakes a save
  it has not seen: either brings a version and payload that later saves may combine with
  an older form.
* `ImportRespectsDecisions`: a commit changes an existing row only to a version higher than
  that of the row it had read, or on the operator's order, or because the peer announced
  its deletion. The row it replaces is the one it had read, or one saved since: the read
  takes no lock (see the known divergences).
* `AskedOnce`, `WorkflowEnds`: no row is asked about twice, or forced and kept at once;
  no workflow goes on for ever.
* `RefreshedPullIsCurrent`: a pull whose relays all reported a refresh brings what the
  master had when the operator asked. It holds while pulls do not meet at a site.
* `ReplicasMoveForward`, `CopiesConverge`: the refinement above, and equal copies in
  the end, with partial pulls and skipped deletions made up for.
* `HopsBounded`, `PullsEnd`: no refresh goes further than its depth, no pull hangs.
* `CopiesFollow`: what is left where nothing is assumed of the registry and pulls overlap
  at a site. A copy can then go back to an older state, but it gets no state newer than
  the master's last save, and loses a row only if the master has deleted it.
* `LocalConsistent`, `LiveRowsStay`, `NothingMissing`: of `EtlImport`, for full pulls and
  for pulls of one table. A clash of names refuses the transaction as a whole.
* `BringsSelected`: a pull that commits has brought the tables asked for, those they
  depend on (`Expanded`), and `shared` where they refer to it, as the peer has them:
  nothing is skipped when a record has to wait for a later pass.
* `FullPullsShrink`, `FullPullsConverge`: deletions are tried once each, in the order of the tables, so
  a deleted row may outlive a pull because another deleted row still refers to it. Each
  full pull takes at least one away; only rows that manuscripts hold on to and names that
  are taken keep the copies from becoming equal.

Packages of manuscripts:

* `WholePackage`: a commit leaves every row that belongs to the manuscript as it is at
  the source, when that has not changed while it was pulled; with another pull that
  writes the same rows, and whatever was there before. Excepted are only rows that the
  import did not write, because they were as they should be, and that others changed
  before its commit (`crossed`). It rests on the order in which
  tables are read, because tables without a key to the manuscript are found through
  others.
* `RefusedForAReason`: such a package is refused only if one of its rows refers to a
  row outside its manuscript, which no import here can cure, or if an editor at the
  destination deleted one of its rows behind the import, which had found it there. The
  order in which either end takes the tables is never the reason.
* `FilesArrive`: a row that came with a package has the source's file, although files
  are no part of the transaction, pulls fail between two of them, and uploads take
  names.
* `PackagesConverge`: torn packages, which may be committed, are made up for.

The ETL page and the queue:

* `ConflictHasWorkflow`: the conflict on display belongs to the workflow that the next
  answer posts. Continuations of several operations write both, and only the disabled
  controls keep them apart.
* `BusyWhileRunning`: the counter is exact, whichever of its many ends an operation
  takes; an end too few leaves the page disabled for good, one too many enables it
  while a workflow is under way.
* `RowsReplacedOnOrder`: no list of decisions outlives its workflow or is used with another
  peer: a row that differs is replaced only by an answer in whose workflow the operator had
  last said, of this row and this peer, that the remote one applies. `ordered` is emptied
  when the workflow is closed, answered or replaced by another; an answer that is already
  posted acts on what was ordered until then (`mandate`), also behind a lost connection.
* `OneReport`: the refinement of `PullRequest`, with fallbacks that run twice.
* `PageHearsBack`: the page stops waiting, except for a task lost with its worker,
  which `pollETLTask` polls for ever.

The CSV importer:

* `CheckedBeforeStored`, `SuccessMeansStored`: nothing before all rows passed, and
  "Data sent successfully!" only when each is stored, with two requests in flight and
  content being deleted.
* `SendsShownOrWarned`: what is posted is what the table shows, or there is a text;
  except for files whose validation throws, where neither is touched.
* `ReplacedOnDemand`: rows are replaced only by imports that were sent with ids,
  however often the same `data` is sent.
* `LoadingEnds`: the loading text of a posted request goes.

Analysis runs:

* `InProgressIsWatched`: while the page says that a run is in progress, a timer polls
  or an answer that changes the text is on its way. Late polls clear the timer of other
  runs, lists and manifests select and overwrite; it holds unless a fetch was rejected.
* `ProgressEnds`: the text does not stay for ever, except for runs that nobody works on
  any more though their row says they are in progress, and after a rejected fetch.

Bulk imports:

* `NothingLeftBehind`, `ReplacedTogether`: "the old rows are deleted and the new ones
  written together, or not at all", next to other imports and editors.
* `NumberedAfter`: rows without a number come after every row that was there when the
  request arrived. (Two imports at once may give the same numbers: the documentation
  does not promise otherwise.)
* `RequestsEnd`: imports that wait for each other's rows do not wait for ever.

## 5. Findings

Each is a run in which TLC finds a property violated that the repository states.

1. `ImporterPartial`: the import views announce "Importing none if there is an error in
   any row" (`indexerapp/views.py:3149`, `3325`, `3465`), but the loop that saves is not
   in a transaction: when `save` raises at a row, those before it stay. Likewise the
   first loop of `import_content`, which checks, saves music notations.
2. `ContentRetry`: `INTEGRATION_ANSWERS.md:402-405` tells callers to look at the summary
   after a time-out before they send again, as a write "either completed or left nothing
   behind". It may also be still running, with nothing visible yet: callers who do as
   they are told store their content twice.

### Known divergences

Seen in the code while modelling; no run is kept for these.

* Conflict detection compares counters (`services.py:1465`). Two edits at one site
  against one at the other give the incoming record the higher version, and it replaces
  the local edit unasked, which `main_guard.py:8-10` gives as the hazard that `shared`
  does not share with `main`.
* The import of a shared row reads it without a lock (`services.py:1197`), checks it for a
  conflict (1207) and updates it (1241). A save that is committed in between is overwritten,
  by a version that may be lower or the same, and nobody is asked: the transaction does not
  prevent it under READ COMMITTED, and nothing calls `select_for_update`. What is saved at
  the row afterwards counts on from the version that came, so that the counter may fall
  behind the edits of the payload. `ImportRespectsDecisions` and `VersionCountsEdits` hold
  but for this.
* A row of a package that is at the destination just so is passed over and not locked
  (`services.py:1234`), nor is a related object (1326). An editor, or an older pull, may
  change it before the commit: the pull reports success and the manuscript is not whole. An
  editor may delete it before a row that refers to it is looked at: the package is refused,
  though nothing is wrong with it. The next pull makes up for either (`PackagesConverge`).
* An answer whose connection was lost goes on in its handler when the operator has closed
  the conflict: the row is replaced after Close (`etl_sync.js:649`, `79`), as it was ordered
  when the answer was posted.
* A pull of `main` imports `shared` first and can stop on its conflict
  (`services.py:888`), although only `shared` is meant to; `resolve_shared_conflict`
  accepts no decision for it (`services.py:1034`).
* A refresh that is not answered in time raises `TimeoutError`, which is neither
  converted by `fetch_remote_etl_json` nor a `ValueError` (`services.py:946-948`): the
  pull ends, where the comment says it reads what the relay has.
* Two pulls at a relay are not serialised (`services.py:833`): the one that read first
  may commit last, after the relay has reported its refresh. A copy can go back until the
  next pull; `CopiesFollow` is what still holds.
* Rows are stored before deletions are applied (`services.py:702`), and names are
  unique. A vocabulary entry that was deleted and created again under its name, or two
  entries that swapped names, cannot be received, now or later.
* `Hands` (shared) refers to `TimeReference` (main, `models.py:1588`), and `main` preloads
  `shared`: a site that has neither row can pull neither category first. It is the only
  reference a pull can be given up for (`GivenUpOnlyForMain`), and pulling the table of
  the `main` rows by itself is the way out (`NeverMissing`).
* A conflict of a queued pull is an exception to `self.retry` (`tasks.py:69`): it fails as
  a text after its retries, and the conflict panel of the page does not open.
* A file at the destination with the name of one in a package is overwritten
  (`services.py:1768`), whosever it is, and also when the pull then fails and its rows
  are rolled back.
* `importer.js` replaces `data` before it is validated (109) and draws the table after
  (187-196): when validation throws, the table and the text of the file before remain,
  and Send posts the new one.
* `execute_run` "Raises only after recording the failure on the run" (`pipeline.py:57`),
  but the directories of the run are made before its `try` block (67).
* `apply_async` may raise when the broker has taken the message (`analysisapp/views.py:148`):
  the request and a worker execute the run, a run that was `done` is `running` again, and
  both write the same artifacts. The page then says that it is in progress; that it hears
  of the end all the same is `ProgressEnds`.
* The reports of `corpus_analysis.js` are drawn when they arrive (279-280): one that was
  asked for before another run was selected is drawn over the other run's.

## 6. Proofs

The theorems assume the ASSUMEs of their module (types of the constants, `None` apart
from other values, files and lists as the page produces them): any number of sites, rows,
pulls, operations, requests and runs, any topology, unbounded clocks. Three theorems about
`main` also assume `Routes`, and five about `EtlImport` `TablesAcyclic`, both below. 51
theorems are listed in `PROJECT.json`; in each module `TypeCorrect` comes first, with the
facts that make `TypeOK` inductive. Liveness cannot be proved, but the part of it that is
about single steps can: that something grows or gets less with every step and never the
other way (a "safety half"), so that only fairness is left to TLC.

`EtlShared_proofs`

* `TypeCorrect`: `EditTypeOK` and `ReplicateTypeOK` have one step for each action.
* `DeletionsAreRecorded`, an action property: `Buried` never changes a tombstone and
  gives one to every row that goes; only `Delete` and `Import` remove rows.
* `TransactionsAreConsistent`: what an import goes by holds until it commits, although
  others go on. `TxnInv` says, of each row it has dealt with, that what it read is what is
  stored, or that it was saved or deleted since; of a row it is to write, that what it read
  is no conflict with what the peer sent; and of a row it has written, that it neither comes
  nor goes, for which the locks are needed. A save since is known by its `entry_date`, for
  which `StampedByNow` below is needed.
* `CitedRowsStay`: not inductive with `TypeOK` alone. The case that matters is `Import`,
  whose `Removed` leaves cited rows out; that `Imported` never drops a row needs `TxnInv`.
* `NeverAskedTwice`: not inductive as it stands. `DecisionInv` adds that the lists
  `force` and `keep` of a running pull are disjoint and that its decision belongs to
  the row asked about.
* `ImportsRespectDecisions`, an action property, from `TxnInv`: a row that was written,
  was neither forced nor kept and was no conflict when it was read has a higher version
  than what was read, and what is stored is that, or was saved since.
* `StampsIdentifyRows`: not inductive as it stands, as a new save must get a stamp no
  copy has. `StampedByNow` adds that no copy, stored or in flight, is stamped later
  than the clock; `CopiesStep` states what any step may do to the set of copies: keep
  them, or add one with the new stamp.
* `VersionsCountEdits`: `Counts` adds what open and submitted forms may yet write
  (`FormCounts`): what a form was read from counts against the row that is stored now,
  what it will write against the version it was given. Imports keep it because, by
  `TxnInv`, they replace what is stored only by a higher version, unless they are ordered to
  or overtake a save, and then the row is `overridden`.

* `AnswersNeverLost`, the safety half of `WorkflowEnds`: `Decided`, the rows a workflow
  has asked about, only grows while it lasts, and by each conflict. So it stops
  at most once for each row, however the peer changes meanwhile. `Answered` is the
  invariant: a pull that was repeated carries an answer.

`EtlMain_proofs`

* `TypeCorrect`; `OverType` is the lemma about frames that end.
* `RefreshesEnd`: `HopsBounded`, for any topology, from `DepthLeft`: the depth a frame
  carries and its hop add up to at most `Depth`. It is what makes parents that name
  each other harmless.
* `CopiesFollowMaster`, for any registry and overlapping pulls: `FollowInv`, that no
  database and nothing in flight (`Carried`) is ahead of the master, or knows of a deletion
  that the master has no tombstone for. It holds without an order of pulls because it
  speaks of the master alone, which no import changes.
* `PullsDescend`, the safety half of `PullsEnd`, for any registry: each step of a frame
  lowers its `Rank`, and no step of another raises it. There is no way back in a pull.
* `ReplicationImplements`, `RefreshBringsCurrent` and `FullPullsMakeEqual` take the
  assumption `Routes(Site)`: the
  master is the only site without a parent, a site pulls from its parent only, and no two
  frames are ever at one site, `Site[p][h]` being where hop `h` of pull `p` takes place.
  The chain of `MainChain` is the case `Site[p1] = <leaf, relay, master>`; pulls in
  different branches of a tree, of any height, are another. Without the last clause an
  export of one pull can be stored after a later one of another, and the copy goes back.
* `ReplicationImplements`: `CatalogueInv` relates the databases and what is in flight.
  `DataInv`: no copy is ahead of its parent's, and a row deleted at a site is deleted
  above it. `Sound`: what a frame has read is no newer than at its peer (or gone there),
  no older than here, and not buried here. That the peer may change while a frame
  works, because the frame it had asked for goes on after its caller gave up, is
  `StaysSound`: the peer moves forward only. `ImportAdopts` says what an import does to
  its site in those terms; with it saves map to `Publish`, deletions to `Withdraw`,
  imports to `Adopt`, everything else to a stutter.
* `RefreshBringsCurrent`: `Current` says that the peer of a frame that is marked fresh has
  at least what the operator saw, and so has what it read from there; `Paired`, that a
  frame that waits, waits for a frame with the same `since`, so that the answer is about
  the rows it is going to read. Both stay true because no site goes back (`StepIsLater`).

* `FullPullsMakeEqual`, the safety half of `CopiesConverge`: an import of all that the peer
  has, if it stands still, leaves the copy equal to it but for rows that the peer has
  deleted and local records refer to. By `CatalogueInv` a row that is here and
  not at the peer has a tombstone there.

`EtlImport_proofs`: three invariants, each resting on the one before. `IInv` is about the
databases:

* `DatabaseInv`: what the transaction sees is consistent at every moment, which the
  order of its steps must preserve: a row is stored only when what it refers to is
  there and its name is free, and a deletion takes with it what it cascades to.
* `NoLiveRowLost`: a cascade takes rows that refer to a deleted one. That no live row is
  among them needs `ArrivalInv`, that deletions begin when every row of the peer has
  arrived as it is there, so that what still refers to a deleted row is deleted too
  (`PeerInv`), and `SelectionInv`, that the tables of a pull are of one category.

`OrderInv` is about the order in which tables and rows come. Its theorems assume
`TablesAcyclic`, that no table depends on itself through others of its category, which is
so of the keys in `indexerapp/models.py` (`main`: `EditionContent` on `Formulas`, on
`Traditions`, on `LiturgicalGenres`, and the like; `shared`: `Watermarks` on
`Contributors`). Self-references are allowed.

* The rounds of the dependency order: `PlacedIsChain` brings the recursive function
  `Placed` back to its equation, and `RoundInduction` is induction over its rounds, by a least counterexample
  because the library's induction cannot be used. `PlacedAll`: every table is placed;
  `SameRound` and `FirstIsFree`: the table taken next depends on no table left.
* `GivenUpOnlyForMain`: when a pass brings nothing (`StuckPass`), of the records that wait
  one refers to no other of them, because no row is its own ancestor; what it lacks is in
  no table of its category that is still to come, and not in `shared`, so it is a `main`
  row that a `shared` one refers to. `NeverMissing`: where those have come once
  (`MainRowsHere`), no pull is given up.
* `CommitBringsSelected`: `SharedFirstInv`, that `shared` is complete before `main` begins.

`KeptInv` is about what deletions leave.

* `EveryFullPullShrinks`, the safety half of `FullPullsConverge`: of the deleted rows that
  are still here one is referred to by no other (`LooseExists`), and `SweepInv` says that
  while deletions go on such a row is gone or its turn is still to come. It assumes that some
  `main` table refers to `shared` (`EditionContent` does), since otherwise a full pull
  leaves `shared` alone, and finitely many rows.
* `UpToDateStays`, `RefusedOnlyForName`, `OnlyFromPeer`, `EqualStays`: what has been
  reached is not lost, by whatever pulls come later; a pull leaves each row as it was or as
  the peer has it, and is refused only for a name that another row has at the peer.

`EtlPage_proofs`

* `BusyIsExact`: by counting; a step of a running operation to its end takes one off.
* `ConflictIsAnswerable`: `PageInv`. An operation that waits is worked on (`Attended`), of
  the running ones at most one is not a package (`OneAtATime`, from `BusyWhileRunning` and
  the disabled controls), and its request is with the peer of the workflow (`Held`).
* `ReplacedOnOrder`: `Ordered` has three parts. `ListsOrdered`: the rows in the workflow's
  list were ordered, from its peer, the one on display is not among them, and while a first
  pull is under way there are none. `Mandated`: what an
  answer under way may replace is in its mandate, and only answers have one. `StillOrdered`:
  while the page waits for an answer, what it was posted with is still what is ordered, so
  that the lists it brings back are too.
* `PageImplementsRequest`: with `Reported` every step is an `Ask`, a `Proceed` or a
  stutter of `PullRequest`.
* `ReportsAreNearing`, the safety half of `PageHearsBack`. `Left` counts what the handler,
  the task with its retries and the page can still do; each step of an operation lowers it,
  also where the handler runs what was queued as well. `Polled`: what is polled is a task.

`TableImporter_proofs`

* `NothingOfRefused`, `SuccessIsComplete`, `ReplacesOnDemand`: `Stepwise` says which rows of
  a request have been stored at each row of each loop.
* `SendsShown`: `InStep`, that without a text the table shows `data`.
* `AnswersAreNearing`, the safety half of `LoadingEnds`: each step of a handler lowers
  `RowsLeft`, no other request raises it, and what the page waits for was posted (`Awaited`).

`CorpusPage_proofs`

* `ProgressIsWatched`: inductive with `TypeOK`, one case for each continuation.
* `ProgressIsNearing`, the safety half of `ProgressEnds`. `AskedInv` relates the row of a
  run to its executions and says that what a list says of a run stays true enough, however
  old the list: a run that exists stays, and one that was done has its manifest, even while
  it is executed once more. `StepsLeft` counts what both executions can still do.

`ContentImport_proofs`

* `FailureLeavesNothing`: `OwnRows`, that until it is stored only a request's own
  transaction has rows of it: not the editor's form either, which could insert it again.
* `StoredTogether`: `FoundAndDeleted` follows what a replacing request has found, through
  what it has read, to what it has deleted.
* `NumbersFollow`: `Numbered`, that `next` is above what was found and stays.
* `WorkGoesOn`, the safety half of `RequestsEnd`. `NobodyStuck`: a request can go on, or
  waits for one that can. There is no circle of waiting because locks are held only past
  the deletion (`StuckInv`), after which a request needs no other's rows, and a number to
  go on with exists because those in use are bounded. `Nearer`: each statement lowers
  what a request has left (`Todo`), and nothing others do raises it. TLC has confirmed
  that `CanWork` is `ENABLED Work`, which the prover cannot reason about.

`ManuscriptPackage_proofs`

* `FilesCome`: `FileInv` says of rows that were imported and of rows in hand alike that
  their file is there, or still to be written; a file of the source stays (`TheirsStay`).
* `PackagesAreWhole`, `RefusalsAreEarned`: `PackageInv`. While the source stands still,
  what was read is as it is there, belongs to the manuscript, and is all that belongs in
  the tables read so far (`Complete`). That `ReadTable` keeps this is `ReadComplete`: by
  `InOrder` the rows of the next table make nothing belong that was passed over.
  `PassedInv` is about the import: a row it has passed and not written is as it is in the
  package, or was changed by others since, who can change only what is not locked.

**Only model-checked:** the liveness properties. Of each the safety half is proved, and TLC
adds what fairness makes of it; of `PackagesConverge` that half is `PackagesAreWhole`: a
package exported in peace is whole when it is committed. Every safety property of a passing
run is stated by a theorem.

## 7. Not modelled

* Presentation. Most of the frontend by far draws what the server sends: DataTables (a
  vendored library, half of the lines of JavaScript), the pages of a manuscript, the
  lists with their filters, charts and maps. It keeps no state that another step could
  find stale, except where a page of section 2 is concerned. The specifications
  therefore cover a small share of the lines of the repository.
* Many-to-many links. The version receiver compares concrete fields only, so an edit
  of a Watermark's authors is exported without a new version. `DO_NOTHING` keys
  (`AttributeDebate`) and `since` in `EtlImport`, numeric ids of Formulas and RiteNames.
* Names of rows in `EtlMain`, fields of rows in `EtlShared`: payloads are abstract. What
  the columns of a CSV file must contain is the fate of a row in `TableImporter`; how
  names are resolved to rows in a bulk import is the outcome of its validation in
  `ContentImport`.
* The escape hatch `ETL_ALLOW_MAIN_EDITS`, settings and their precedence, the token
  check, the push endpoint (the same import with a body no code here sends).
* Digital page numbers: a number that is cleared or moved leaves its copies behind
  (`signals.py:197`), and nothing in the code promises that they agree, so there is
  nothing to check.
* Of packages: many-to-many links, references to `main` and `shared` rows (which are
  refused when the row is missing, as within the category), keys that are CASCADE
  (`ContentTopic`), the public export without files. The pages of manuscripts and their
  traditions; the creation of one manuscript through the API.
* Numerical analysis, language models, Zotero: out of reach, or not this program's.

## 8. Plan

Done: `EtlShared`, `EtlMain` with `MainCatalogue`, `EtlImport` for full exports,
`EtlPage` with `PullRequest`, `TableImporter`, `CorpusPage`, `ContentImport`,
`ManuscriptPackage`, and the proofs of section 6, among them what `main` keeps when pulls
of one site overlap (`CopiesFollow`). Left, in this order:

1. `EtlImport` with `since`, where a child that moved before that date is missing from
   the export while its old parent is deleted; `DO_NOTHING` keys, many-to-many links and
   numeric ids.
2. The other continuations of the corpus page: the picker of manuscripts and the tabs.

## 9. Running

    tlc -workers 2 -config SharedOneRow.cfg MCEtlShared.tla
    tlapm EtlShared_proofs.tla

The module of each run is in `PROJECT.json`. The longest runs, `PageQueue` (1.1
million states), `CorpusRuns`, `ImportTables`, `ImporterPage`, `Packages` (1 million) and
`SharedOneRow` (2.1 million), take one to three minutes each, every other run less.
