# Discovery Lab in TLA+

This directory is a verification project for Discovery Lab: TLA+ modules
translated from the code, TLC configurations that check them on small instances,
and TLAPS proofs of the results that matter most. Paths are relative to the
repository root; line numbers are those of the commit the project was written for.

## The system

Discovery Lab turns uploaded research sources into evidence with exact citations.
A FastAPI service stores uploads, runs a small ingestion graph over a source
(parse, extract, verify) and keeps the results in a relational database. A Next.js
workbench shows them, and PowerShell scripts run and seed a development set-up.

| Component | State it keeps | Operations | What makes it correct |
|---|---|---|---|
| Source processing, `services/discovery.py` | `sources.status`, segments, runs, run steps, evidence | `upload_source`, `process_source` and its helpers | one active run per key, evidence published once and atomically, fail closed, statuses backed by runs, true answers, every request answered |
| Ingestion graph and runner, `agent_harness/ingestion_graph.py`, `services/ingestion_runner.py` | in-memory artifacts of one request | nodes parse, extract, verify; the check of the report | only exactly replayed citations get through |
| Relational schema, `db/models.py` | the tables | constraints: partial unique index on active runs, unique ordinals, immutable rows | what holds whatever the sessions do |
| Application blob store, `services/storage.py` | one file per content hash, temporary files | `put`, `get` | never a partial destination, idempotent puts, no bytes lost under a committed row |
| Ingestion blob store, `ingestion/blob_store.py` | one file per digest, written in place | `put_bytes`, `read_bytes`, `contains` | one owner, no torn file taken for a blob |
| Parsers and citations, `ingestion/parsers.py`, `verification.py`, `models.py` | none (pure) | parse, narrow a locator, replay it | a replayed locator is the quote |
| Extractors, `ingestion/extractors.py`, `agent_harness/openai_responses.py` | a lazily built client | `extract` | context budget, schema errors become model errors |
| Read queries, `services/discovery.py` | none | lists, evidence context | latest revision and run, totals, context window |
| HTTP layer, `api/`, `main.py` | singletons in `app.state` | routes, error mapping | one session per request |
| Web workbench, `apps/web/components`, `apps/web/lib/api.ts` | React state, request counters | connect, select, load, upload | a late answer never shows under another selection |
| Insights, `apps/web/lib/insights.ts` | none (pure) | claims and opportunities from evidence | every claim cites what it counts |
| Process manager, `scripts/dev.ps1` | PID files, child processes | start, stop, status | one set of children, none killed by mistake |
| Seed script, `scripts/seed-helphub.ps1` | a state file | resume or create, upload, process | a rerun duplicates nothing it knows of; "ready" is true |
| Offline evaluation, `evaluation/source_to_evidence.py` | none (pure) | judge the cases of a dataset on a run's drafts | a passing case is true of the source |
| Translations, demo data | none | - | - |

How they interact. A request opens a session of its own (`api/dependencies.py`
14-17); sessions meet only in the database, under READ COMMITTED, and in the blob
directory. `process_source` is a synchronous endpoint (`api/routes.py` 305-313),
so calls run concurrently in the thread pool, and several server processes may
share the database and the directory. The graph runs inside the request and
reads the blob twice more, before parsing and before verifying. The workbench and
the seed script are clients that time out, retry and restart.

What is hard. `process_source` commits three times at most (the RUNNING run, the
outcome or the failure) and works outside a transaction in between. It acts on a
check and on a source row that may be stale by then; a unique index and a second
read resolve the races. Two runs of one source under two profiles are not
excluded by the index and meet in the segments and in the source's status.
Processes die, statements fail and reads fail at any point. Offsets go through four
hands (parser, narrowing, replay, the reader's view), relative to a document, a page or a
segment. Rows become visible in another order than they are listed in. The full list of
hazards, each with its line and the properties for it, is `hazards` in
`PROJECT.json`.

## Modules

| Module | What it models |
|---|---|
| `SourceProcessing` | `process_source` step by step for concurrent requests, and the upload as one step |
| `SourceProcessing_proofs` | its invariants, proved |
| `IngestionLedger` | the abstract promise: a key is free, busy or published, and published once |
| `LedgerRefinement`, `LedgerRefinement_proofs` | the refinement mapping, and the proof that processing implements the ledger |
| `BlobStore`, `BlobStore_proofs` | `LocalBlobStore.put`/`get` of `services/storage.py` by file operations, composed with the rows of `upload_source` |
| `ExclusiveBlobStore`, `ExclusiveBlobStore_proofs` | `LocalBlobStore` of `ingestion/blob_store.py` for one digest |
| `Workbench`, `Workbench_proofs` | the React state of `discovery-workbench.tsx` and its pending requests |
| `Citations` | the parsers, `narrow_locator` and `replay_locator` as operators over texts |
| `Extraction`, `Extraction_proofs` | the extractors and the verifier, on top of `Citations`; what narrowing and replaying promise |
| `Evaluation` | the verdicts of the offline evaluation |
| `EvidencePath`, `EvidencePath_proofs` | composes these three: from the bytes of a source to the passage a reader sees |
| `ReadQueries` | the lists of the API and a client that pages through them |
| `SeedScript`, `SeedScript_proofs` | `seed-helphub.ps1` and what the API commits for it, composed with the reader of `ReadQueries` |
| `MCSourceProcessing`, `MCBlobStore`, `MCExclusiveBlobStore`, `MCWorkbench`, `MCEvidencePath`, `MCSeedScript` | instances for TLC |

### SourceProcessing

A *key* is a source and an ingestion profile. `input_hash` hashes the source's
revision, its content hash and the profile; `upload_source` is the only writer of
revisions and writes one per source, so the key determines the hash. Profiles
differ between server processes (configuration, installed versions).

The database is `sourceStatus`, `segments`, `runStatus`, `stepStatus`, `evidence`.
A request creates one run at most, so runs bear the names of requests. The other
variables are the local state of a request: `pc`, the `Source.status` its session
holds (`loaded`), how many graph nodes returned (`stage`), the extraction result,
the segment rows flushed but not committed (`staged`), the exception in flight and
the answer. An action is what happens between two points where another session can
act: a statement, a commit, a file read or a graph node.

- `LoadSource`, `CheckActive`, `StartRun`, `StartCompetes`, `RereadCompeting`:
  lines 285-378. `StartRun` and `StartCompetes` are the two outcomes of the commit
  under the partial unique index (`db/models.py` 226-233).
- SQLAlchemy writes a column only if the value changed. The session keeps what it
  loaded (`expire_on_commit=False`, `db/session.py` 16), so `StartRun` writes
  `PROCESSING` only if `loaded` is something else, and `MarkRunFailed` likewise
  after `ReloadSource` (a rollback expires the rows).
- `ReadAndParse`, `Extract`, `Verify`: the graph and the checks after it. The
  parser is the constant `Parse`, a set of segments or a failure for each key. The
  extractor returns any member of `Extractions` or raises a model error. Each node may also
  raise an exception that `_failed_step_for` does not list ("other"): a blob or a page of a PDF that
  cannot be read, no client, a result that breaks its schema. A draft
  quotes a segment exactly or altered; `duplicated` says that two drafts share an id.
- `QuerySegments` and `FlushSegments`: lines 449-502. The flush waits for another
  open transaction that inserted rows of the same revision
  (`uq_segments_revision_ordinal`) and fails if such rows are committed by then.
- `PersistEvidence` is the second check and the evidence rows added to the session;
  they are written by `CommitRun`, which commits everything together. `ReportRun` is
  the read after the commit, still inside the try block.
- `Rollback`, `ReloadSource`, `MarkRunFailed`: the except clause (420-434) and
  `_mark_run_failed`. `FailedOrdinal` is `_failed_step_for`.
- `StartFails`, `PublishFails`, `MarkFails`: a database error at each of these
  places (`DbMayFail`). A publishing commit that took effect and then raised is
  `CommitRun` followed by `PublishFails`; a first commit that did so leaves the
  same database as `StartRun` followed by `Crash`.
- `Crash` (`MayCrash`): the process dies, or a BaseException passes the except
  clauses.

### The ledger

`IngestionLedger` has no requests, sessions or runs: `Begin`, `Abandon` and
`Publish` of a key. `LedgerRefinement` maps a key to what its active run says and
to the evidence of all its runs. The property `ImplementsLedger` says that locks,
rollbacks, drift checks and races of processing are invisible from outside.

### BlobStore

An upload checks, looks for the destination, writes a temporary file in two steps,
links it, removes it, re-reads the destination and commits its row. A removal that itself
raises leaves the file and ends the upload ("littered"). Uploads race in
several server processes (within one, the asynchronous upload endpoint runs them
one after another, but the runner's `put` calls of process requests run in threads).
`Fetch` is the `get` of `process_source`. File operations are atomic and durable: the
model has process crashes, no power failures. For the uploads in `Faulty` write,
link, removal, re-read or the commit may raise.

### ExclusiveBlobStore

`put_bytes` creates its target with O_EXCL, fills it in place and removes it if an
exception passes, unless the removal raises too; others compare with what they find. The application uses this class
in the evaluation and in tests; the service uses `services/storage.py`.

### Workbench

A step is an event handler, or the code between two awaits, which JavaScript runs to its
end. Connecting, the three kinds of loads, `createStudy` and `handleFile` are requests that
are answered in any order, fail or time out (`lib/api.ts` 302-336 turns every outcome into one
of the two). A handler keeps what it read before an await: `handleFile` its study,
`createStudy` the mode.

A counter is compared with one number only, the one its request took, so a pending request
carries `current`, cleared by every increment. That makes the state finite without a bound on
the number of requests. `liveEvidence.of` is the study the list was loaded for; lists of
sources and runs are abstracted to the studies their entries are of. `stray` is a history
variable: the loads that were last asked for another study than the selected one.

- `Connect`, `ConnectAnswered`, `ConnectFails`: 378-430. The first connection (410-430) is the
  same pair with nothing else pending. An answer lists the studies of some moment since it was
  asked, newest first (`existing` is in that order, `services/discovery.py` 140); the first is selected.
- `SelectStudy`, `SelectEvidence`, `ReloadContext`, `RefreshEvidence`, `RefreshStudyData`,
  `RetryRuns`, `CreateStudy`, `StartUpload`: the user's events, with the conditions under which
  their controls are rendered. Evidence can be clicked while it reloads: the claims view lists it.
- `EvidenceAnswered`, `EvidenceFails`, `ContextAnswered`, `ContextFails`, `StudyDataSettled`,
  `UploadAnswered`, `ProcessAnswered`, `UploadFails`, `CreateStudyAnswered`, `CreateStudyFails`:
  the code after each await.

Assumed: React renders between two events. Left out: unmounting, and the double effect of
development mode.

### Citations, Extraction, Evaluation

Pure code, as operators. A text is a sequence of characters and an offset counts them from 0. A
document holds what the readers under the parsers see in its bytes: the decoded text, the rows of
`csv.reader`, the pages of PyMuPDF, which may differ between versions of that library.

- `TextSegments`, `CsvSegments`, `PdfSegments`, `ParserFor`, `SegmentsOf`: `ingestion/parsers.py`
  34-269. The separator of blocks is the regular expression of line 56, as the maximal gaps it
  matches. A table is refused as the code refuses it (headers, widths, empty rows).
- `NarrowLocator`, `ReplayLocator`: 272-350. A text and a page replay by offsets, a row
  by the rendering of its cells.
- `SelectQuote`, `DemoDrafts`: `extractors.py`. `ContextPayload`, `Binds`, `BoundDraft`:
  `openai_responses.py` 115-227; the budget is a recursive function over the segments.
  `Draft` has the identity of `EvidenceDraft.create`, which leaves out the offset.
- `CitationCheck` is `CitationVerifier.verify`; `CitationsAccepted` the check in the runner.
- `Verdict` and its parts: the kinds of cases of `source_to_evidence.py`. The state of the graph and the
  profile, in whose JSON an injected text must not occur, are any pair of texts of `Controls`.

SHA-256 values are only compared, so the hash of a thing is the thing.

### EvidencePath

One revision of a source and its runs, one after another, each under the configuration of
the process that serves it (extractor, limits, library). `Parse`, `ExtractDemo`, `AskModel`,
`Bind`, `AnswerEnds`, `Verify`, `Check` are the graph and the runner, `Persist` the
segments and evidence rows, `Rerun` another request, `ReadContext` the response
of `api/routes.py` 355-485, `Evaluate` a case of the evaluation. `Bind` takes any proposal: any
segment or none, a piece of the document or an invention, at any offset. A PDF that opens and has a page
that cannot be read fails with an error of its own ("page"), which no except clause of the parser sees. How requests
interleave is left to `SourceProcessing`, which leaves the contents to this module.

### ReadQueries and SeedScript

The tables are sequences of rows by `created_at`, which is the start of the writing transaction:
a row that is committed late appears behind younger ones (`Overtaken`). A list is the set of a study's
positions in its table, and a page those with as many newer ones as its offset and limit say. The reader reads a page,
the steps of the runs in it or the total in separate statements, and turns pages by offset.

`SeedScript` is a start of the script, over and over: `Resume` or `Discover`, `CreateStudy`,
`Upload`, `Process`, each with the call it sends and the answer it waits for, and `Save` after
each answer. `Die` is the end at any point: an exception of a call, the 60 s of its client,
or the process killed, which in `Save` may leave a file that cannot be read. A call outlives its
client: `calls` holds every call that is being served, by the start that sent it, and
`ServeCreate`, `ServeUpload`, `ServeProcess`, `Publish`, `FailRun` serve them whoever waits.
`ApiStops` forgets them, and leaves a RUNNING run behind. `process_source` is taken to its
commits here. `lost` is a history variable: the uploads whose answer never got into the file.

Assumed: one start of the script at a time. A state file of another API says as little as a
missing one. One evidence row stands for those of a run, which share `created_at`.

## Runs

| Run | Instance | Shows |
|---|---|---|
| `SourceProcessing` | 3 requests, 1 source, 2 profiles, crashes, fairness | one publication per key, true answers, final runs, `PROCESSED` stands, requests are not all refused, every request that lives is answered and every run of one finishes |
| `SourceProcessingLedger` | 3 requests, 2 drifting profiles, all extractions, unlisted exceptions, crashes | fail closed, statuses are backed, failures of the first two steps are recorded where they happened, and processing implements the ledger |
| `SourceProcessingFaults` | 3 requests, 3 profiles, failing parses, all faults | the unique index holds, citations resolve and segments are immutable whatever fails |
| `BlobStore` | 3 uploads, 2 contents, one faulty upload, crashes, fairness | no partial destination, bytes of all rows, idempotent puts, no temporary file left, uploads end |
| `ExclusiveBlobStore` | 5 calls, raising writes, kills | one owner, nothing left behind, what was stored stays readable |
| `Workbench` | 2 studies, 3 items, 1 upload at a time | what is shown belongs to the selection (stray loads excepted), spinners end, connected it lists and selects studies of the API only |
| `EvidencePath` | all texts of up to 4 characters, chosen longer ones, tables, pages and misnamed files; 4 configurations; 2 runs | segments partition the source, an answer is published exactly when every claim holds, the context keeps its budget, a reader sees the quote in its place, evaluations are honest |
| `SeedScript` | 2 fixtures, 2 starts, an API stop or a foreign study, or a reader with pages of one row | fixtures are duplicated only by uploads cut off, a study reported as seeded is processed, lists lose no row and show no false progress |
| `SourceProcessingStuck`, `...Steps`, `...Twice`, `WorkbenchStray` | the smallest that show it | the disagreements below |

Bounds. Races of processing are between two requests of one key (the index), two of one
source under different keys (segments, status), or a third that retries after a
failure; three requests cover each. No property relates two sources, and no two sources share
a row, so one source is enough. Two segments tell equal, smaller and drifting parses apart. The
parses of `MCParseDrift` and `MCParseFails` and the five results of `MCExtractions` cover each
outcome of the checks. Where interleavings are what matters, the parse is stable and the
extraction good (`MCParseStable`, `MCGoodExtractions`). Requests are symmetric: no
definition names one. Runs with liveness properties use no symmetry. A behaviour of the server has
finitely many requests (`Requests`, `Uploads`, `Writers` bound them), and stutters in `AllDone` or
`Quiet` when all are over, so deadlock is checked. The three passing runs have 721,048, 1,161,990 and
7,111,090 distinct states.

In `Workbench` one study has no evidence or two items, the other one item: enough for a late
answer of another study, of another item of the same study, and for an empty list. `MaxPending`
makes the user wait while three loads are pending; selecting a study sends two, so the loads of
three selections overlap (5,751,280 states). The proofs use no bound.

In `EvidencePath` (608,810 states) four characters are a letter, a blank and the two that end
lines: `MaxLength = 4` holds every block separator with a character around it, the longer texts
two separators, sentence ends and repeated quotes. The tables have rows that are blank, repeat or
break, tickets that repeat, and headers that are blank, repeat or have no account; the cases ask for tickets that are
there, missing or blank. `MCControls` has a pair that no text is in, one with a text of a case in the state and one in the
profile. TLC also evaluates what the theorems suppose of the documents and cases (`TextsAssumption`). `EvidenceLimit` gives an answer of a model two
claims where the documents are small, enough for two of one identity, and one elsewhere.
`MaxRuns = 2` lets a second configuration reuse the segments or find that they drifted. The
configurations have limits that cut and limits that do not, and two versions of the library.

In `SeedScript` (4,680,314 states) `Bounds` has three behaviours instead of one product: two starts and a stop of
the API, two starts and a study of another client, one start and a reader. A second start
meets everything the first left behind; a third could only add more of the same. `PageLimit` 1
makes every row a page of its own, `Overtaken = 1` lets each row appear behind one younger row,
`StudiesLimit` 2 can push the script's study off its list. `FailedAfter = {2}` is the
failure with the highest progress.

Fairness. `FairSpec` gives each request weak fairness on its own steps: a thread
runs on unless it waits, the model call returns or times out in its client, and the
database grants a lock once the holder's transaction ends. Weak fairness is enough
since a waiting INSERT stays enabled after the other transaction is over: committed
segments are never removed. Faults are never fair. The workbench has a safety property in
place of liveness: a spinner stands for a pending request (`SpinnersAreBacked`), and every
request settles, since `request` aborts it.

### Disagreements between code and documents

Each is a run that TLC finds violated, and an entry of `findings`.

1. `SourceProcessingStuck`: after a crash a run stays RUNNING, and its key can
   never be processed again. `docs/system-architecture.md` 167 describes a rebuild or rerun
   (`RunsAreRecovered`).
2. `SourceProcessingSteps`: an exception that `_failed_step_for` does not list (a blob or a page that
   cannot be read, no client, a result that breaks its schema) is recorded as a failure of
   `verify_citations`, with parsing and extraction SUCCEEDED though they did not return.
3. `SourceProcessingTwice`: if the read after the publishing commit fails, the
   published run is marked FAILED, and a retry publishes the same evidence again.
4. `WorkbenchStray`: an upload that ends after another study was selected loads the lists of
   its own study over those of the selected one, sources and runs when it failed (which is what the run
   shows), and evidence too when it succeeded.

These delimit what holds. `EvidenceOncePerKey`, `FailClosed`, `FinishedRunsAreFinal`,
`AnswersHold`, `SourceStatusBacked` and the refinement are stated for `~DbMayFail`,
and `RunsFinish` excepts requests that crashed. `EarlyFailuresAreLocated` is about runs that do not put their
failure on `verify_citations`, the default of 2; of a run that does, the record says nothing for certain.
`EvidenceOfSelection` and `SourcesOfSelection` except loads asked for another study than the selected one
(`stray`, while the last load of that kind is such a one): those of 4 and those of the retry beside the runs,
below; the violated `OnlySelectionIsShown` has no exception. `SelectionIsListed` is about a connected
workbench.

Further limits and disagreements, for which there is no run.

- A killed writer of `ingestion/blob_store.py` leaves a partial file that `contains` reports,
  though line 100 says that it must not masquerade; `CleanedUp` excepts killed calls.
- The seed script reports a study it found through the API as complete if it has enough sources
  and any evidence (239-245): its second source may be unprocessed. `ReadyMeansProcessed` is
  about studies it seeded, by the file or from the start.
- After `ApiStops` a run stays RUNNING (1 above), so each further start of the script gets a
  conflict at that source, though `README.md` 123 says that it can just be run again.
- `createStudy` checks the mode before it sends its request, and not when the answer comes
  (`discovery-workbench.tsx` 583, 591): if a reconnect fails in between, the new study is listed among the samples and
  selected under the banner "Demo preview · showing built-in HelpHub sample data" (`apps/web/lib/i18n.ts` 60). The
  model has these behaviours; TLC finds them against the claim that a preview lists samples only, without any upload.
  The next connection puts it right (`SelectionIsListed`).
- While a reconnect that selected another study loads its evidence, an item of the former one is still on display,
  and the retry beside its runs (1072) loads the former one's sources and runs (`RetryRuns`). It takes a second study,
  a reconnect and a failed load of the runs, and no upload.
- `_evaluate_csv_group_case` compares the number of rows with that of tickets (160, `all_rows_found`): two rows of one ticket
  can stand for a missing one. `EvaluationHonest` says that a missing ticket goes unnoticed only then or in the next case. It counts accounts by `row.get("account_id")`, so in a table without that column
  all rows have one account, none. A quote
  cut short by the extractor's limit is no JSON, and ends the evaluation ("raised").
- Blocks are separated by line feeds, each with a carriage return before it or not, and blanks (`parsers.py` 56); a
  carriage return elsewhere between two line feeds is no part of a separator, though `str.strip` takes it for
  white space. `BlankLineIn` says so.
- The context of the model counts omitted segments but not truncated ones, and a claim may cite a segment
  that was not shown. The integrity rate of a report is always 1: a draft that fails ends the run.
- Sources and runs are listed with a total read before the rows, evidence with one read after. A client
  that stopped by a total of sources could miss rows; the reader of `ListsAreHonest`, any client of
  the API that goes through a list by offset, stops at a page that is not full. The repository's own
  clients read first pages only.

- `ProcessedStands` is about sources used under one profile: with two, the later outcome wins,
  which is what the code does. A retry that loaded the source while PROCESSING (365) writes no
  status, so the source may be FAILED while the retry's run is RUNNING; `SourceStatusBacked`
  therefore asks of a FAILED source only that some run failed.
- An `AnswersHold` answer with `kind = "succeeded"` may name another request's run: that
  is the early return on a SUCCEEDED run.
- `StoredIsReadable` excepts digests for which a call raised: a writer whose fsync raises removes
  a complete file that another call has already returned as stored.
- `ContextOfActive` says nothing while evidence loads: a reconnect keeps the old list and context
  but not the selected item, so an item may stand beside the passage of another until the new list comes.

## Proofs

TLAPS proves, for any sets of sources, profiles, segments and requests, any parser and any
set of extraction results, and likewise for the other modules. Assumptions on constants are their
types and what is said below.

- `TypeCorrect`; `OneActiveRun` with all faults. For the second the inductive
  invariant is the index itself: only `StartRun` makes a run active, and it is guarded.
- `ProcessingFailsClosed`, `EvidenceOnce` (`~DbMayFail`): an invariant ties the run's
  status to the position of its request. In the try block before the commit, and in the
  except clause, the run is RUNNING and has no evidence; when `reporting` it is SUCCEEDED.
  Evidence implies SUCCEEDED, SUCCEEDED implies active, and there is one active run.
- `FinalRuns`, `AnswersRemainTrue` (`~DbMayFail`): a request acts on its own run only, and
  only while it is RUNNING; a run answered to another request was SUCCEEDED or just named.
- `CitationsAlwaysResolve`, `ImmutableSegments` (all faults): the invariant says what a
  request knows about the segments at each position. From `citing` on, either the committed
  segments are what it parsed, or there are none and it has flushed what it parsed;
  two requests of one source never both hold flushed rows. Without this the commit could
  merge two parses.
- `StatusIsBacked`, `ProcessedIsKept` (`~DbMayFail`): the stale `loaded` value is the
  point. The invariant says that a status implies a run of that kind, and what a session
  that loaded `PROCESSING` or `FAILED` may skip when it writes.
- `ProcessingRefinesLedger` (`~DbMayFail`): initial states map to initial states;
  `StartRun` maps to `Begin`, `MarkRunFailed` to `Abandon`, `CommitRun` to `Publish`,
  all other steps to stuttering, using the invariants above.
- `WholeBlobs`, `BytesOfSources`, `IdempotentPuts` for `BlobStore`: only a complete
  temporary file is linked, and from the link or a successful look on the file is whole.

- All six properties of the run `Workbench`, for any studies, lists and number of pending requests:
  at most one request of a kind is current; a current request and the flags of its kind belong
  together (`EvidenceInv`, `DataInv`, `ContextInv`); and while the list stands, the current
  context request is about the item on display. The item on display is computed from the list and the
  selected id, so each step that changes either must be shown to bring its own context. `SelectionListed`
  rests on the database only growing, and on what a connect lists being a part of it.

- `SomebodyIsServed` (all faults): who is turned away met a run of another request of the key, runs are
  never deleted, and a request that has a run is not turned away.
  `EarlyFailuresLocated` (all faults): what the record of a run says is tied to the nodes its request has
  returned from, at every position, rollbacks included. A failure is put on parsing after the graph
  returned only if the source is empty or drifted, and once segments are stored a drift stays one.
- `BlobTypes`, `NoTempFiles`; `ExclusiveTypes`, `SingleOwner`, `NothingLeftBehind`, `StoredReferences`: the
  invariant of `ExclusiveBlobStore` says that a file being filled or removed has one call at it, and
  what that call will do to it.
- `QuotesReplay`: a quote that is exact in its segment narrows to a locator that replays to the quote, for
  any document whose texts are sequences of characters (`Readable`), any offset and each kind of
  document. It rests on lemmas about slices of slices, and on the span of a trimmed page.
  `BoundDraftsVerified` and `DemoQuotesVerified` follow: the check that binds a proposal, the cut of the
  demo and the verifier agree everywhere, so the verifier never refuses what was bound.
- All six properties of `EvidencePath`, for documents, limits, answers and runs of any number and size.
  They suppose that texts are sequences of characters (`TextsAre`), that groups of tickets are finite
  (`CasesAre`, for the last) and the bounds configurations are refused without
  (`ConfigurationsAssumption`). The invariants: until a run fails its segments are those of the document
  and its drafts pass the verifier (`PathInv`, with `PathTypes`); a bound draft is one proposal, whose
  claim is so in the source, and a refused one claims what is not (`AnswerInv`); no two accepted drafts
  have one identity, and the demo's are what it makes of the segments (`IdentitiesInv`); the rows of a
  run are those of its drafts (`RowsInv`); evidence cites segments that are stored (`DraftsCite`,
  `ReaderInv`); a verdict is of accepted drafts (`VerdictInv`).
  - `OnlyDuplicatesRefused` and `SoundAnswersPublished`: an answer whose claims all bind is refused only
    for two claims with one identity; it is published in full if and only if it is sound.
  - `SegmentsArePartition`: segments are numbered by the places of their blocks, rows or pages, and a
    number is how many come before. A separator has a blank line and a blank line is in a separator,
    whichever gap of the text it is found in.
  - `BudgetIsKept`: what is consumed of the budget is a recursive function, shown to exist and compared
    with the characters shown, counted as a set; the segments shown are the first ones since no later
    one fits a budget that is used up.
  - `ContextsReplay`: without its white space (`Ink`) a text is the concatenation of its parts' ink, so
    quote, rest of the segment and neighbours, joined with blank lines, have the ink of the source
    between the first start and the last end.
  - `EvaluationIsHonest`: the drafts of a table are of different rows, so a group is matched in full
    when two maps, from drafts to rows and from rows to tickets, are one to one and onto; accounts are
    counted as singletons. It holds for whatever texts the state and the profile are.
- `UploadsAreNotRepeated` for `SeedScript`: the load of a fixture is its sources in a study and the
  uploads of it that are sent and not yet served, whoever waits. `LoadInv` bounds it by one more than
  `lost`; while the file has a study and no source of the fixture, by `lost` itself, but for the upload
  that is going on. So the script may upload. `ListsHold` for `ReadQueries`: a row that was there when
  the client began and that it has not seen is behind at least as many rows as its offset (`ReaderInv`),
  since rows are only added.
- `ReadyIsReady` for `SeedScript`, with any number of fixtures, starts, stops and studies, and whoever
  reads. The inductive invariant ties four parties together: the tables (a source has one active run,
  which is what its status and evidence say), the calls (a call that is being served has a run of its
  own; an answer is so when it is given and stays so), the script (the one call of its start is about
  the fixture it is at; all fixtures before are processed), and the two memories, `$State` and the file,
  which say nothing of a source that is not so. Without the calls of dead starts it is not inductive:
  they still change the tables that the next start reads.

Three formulations changed because a proof failed, and TLC found the counterexample on an instance made
for it: `SegmentsCoverSource` took a lone carriage return for white space in a blank line;
`EvaluationHonest` passed over tables without a column of accounts and tickets that are blank. It now
also judges groups that fail.

Sums, filters and joins are recursive definitions. The prover has no induction over an operator, so
their lemmas are proved by the least counterexample (`WellFoundedInduction`, or a minimum in `Nat`), and
sums are turned into cardinalities of sets of characters.

Only model-checked: the liveness properties `RequestsAreAnswered`, `RunsFinish` and `UploadsEnd` (fairness is
out of the prover's reach), and the runs that show a disagreement. Every invariant, action property and refinement
that a passing run checks is a theorem.

## Not modelled

Wording, timestamps, hashes as strings and logging are abstracted: equal inputs have equal hashes. Of the
workbench, the choice of the run timeline beside an item and everything that is only presentation.

- Insights (`lib/insights.ts`): which claims and opportunities there are is decided by tables of
  keywords and by wording; there is no state and no order to go wrong.
- The process manager (`dev.ps1`, `launch.ps1`): what it does depends on the process table and the
  job control of Windows, which the scripts only query; a model would be of Windows.
- The HTTP layer, apart from responses that compute something: decoding of requests, schemas and
  the mapping of errors to status codes hold no state.
- The readers underneath the parsers (UTF-8, `csv.reader`, PyMuPDF) are inputs; the provider's client
  is any answer or an error.
- Power failures: `services/storage.py` links without fsync, and what survives depends on the file system.
- Translations and demo data are data.

## Plan

What is left, most useful first:

1. The process manager's PID files, if an abstraction of the process table can be agreed on.
2. An upload of the workbench composed with `SourceProcessing`: the client gives up after 30 s
   while the server goes on. The same race is in `SeedScript`; the workbench would add that nothing polls.
3. Write-back and power failures beneath `BlobStore`.
4. That `EvidencePath`, run by run, is what `SourceProcessing` abstracts to its constants `Parse` and `Extractions`: a
   refinement between the two.
