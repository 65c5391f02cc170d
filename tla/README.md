# Verification of LearnLoop Agent

LearnLoop turns learning material into supplements of Notion pages.  A source
is ingested, a model proposes a supplement, a person reviews it, an accepted
supplement is appended to the page's `AI Supplement Zone`, and the page is
indexed again so that question answering can retrieve it.  This directory
holds TLA+ models of the parts of that pipeline where the order of steps
matters, TLC runs that explore them on small instances, and theorems about
them that TLAPS checks for every instance.

Paths below are relative to the package directory `src/src/`, unless they
start with `docs/`.

## 1. The system

Two kinds of operating-system process run the same code: the FastAPI server
and the RQ workers.  The code of one process is synchronous between two
`await`s, so one process serves one call at a time up to its next request to
Notion, Telegram or a model; two processes interleave at every interaction
with PostgreSQL, Redis or Notion.  Operators also run scripts by hand.

| Component | State it keeps | Operations | Talks to |
| --- | --- | --- | --- |
| supplement review (`orchestrators/supplement_review_orchestrator.py`) | `change_requests.status`, `target_notion_page_id` | accept, reject, edit later, change target | writer, page index, unit of work, audit |
| Notion writer (`tools/notion_api_writer_client.py`, `notion_writer_tool.py`) | the page in Notion: zone, date, topic and section blocks | find identity, create containers, append section, verify | Notion API |
| Notion reader (`tools/notion_api_reader_client.py`) | none | page object, block tree, page list | Notion API |
| page index (`orchestrators/notion_page_index_orchestrator.py`, `repositories/notion_*`, `chunk_repository.py`) | pages, blocks, chunks, vectors | prepare snapshot, persist under the page lock | reader, embedding, unit of work |
| full and incremental index (`orchestrators/notion_full_index_orchestrator.py`, `notion_incremental_index_orchestrator.py`, `telegram_sync_orchestrator.py`) | audit row of the run | loop over pages, stop or go on after a failure | page index, audit |
| workflow run audit (`services/workflow_run_service.py`) | `workflow_runs` | start, mark succeeded, mark failed, reconcile | every orchestrator, operator |
| API idempotency (`app/api_idempotency.py`) | `api_idempotency_records` | claim, complete, replay | every mutating HTTP route |
| Telegram update ledger, queue and worker (`services/telegram_update_idempotency.py`, `queue/`, `worker/telegram.py`) | `telegram_update_ledger`, RQ jobs | claim, enqueue, run, retry, mark, replay | gateway, RQ |
| Telegram gateway (`orchestrators/telegram_gateway_orchestrator.py`) | none of its own | commands, callbacks, replies, settling of media groups | every other component |
| Telegram session stores (`services/telegram_session_store.py` and the index and sync stores) | upload sessions, one-shot callback tokens, confirmations, all with a time to live | see section 2 | gateway, ingestion |
| outcome recovery (`services/telegram_recovery.py`) | none | inspect, resend preview, reconcile | ledger, audit |
| supplement proposal (`orchestrators/supplement_propose_orchestrator.py`) | creates `change_requests` | propose, validate, repair, duplicate check | model provider, retriever |
| source ingestion (`orchestrators/*_ingestion_orchestrator.py`) | `source_documents` | PDF, URL, YouTube, screenshots, chat text | parsers, OCR |
| source grounding (`services/screenshot_quality.py`) | none | judge titles, summaries, concepts and notes against OCR text, choose a repair or a fallback title | proposal |
| question answering and retrieval (`orchestrators/qa_orchestrator.py`, `rag/`) | none | retrieve, rank, answer | index, model provider |
| page hierarchy (`services/notion_hierarchy.py`) | none | tree, listing, breadcrumbs, picker of the indexed pages | gateway |
| embeddings (`services/embedding_batch_service.py`) | none | bounded batches, accepted responses, retry | embedding provider |
| operator views (`services/cost_budget.py`, `workflow_observability.py`, `metrics.py`, `readiness_service.py`) | none | cost and budgets, stale runs, readiness | `workflow_runs`, probes |
| parsers, OCR, providers, HTTP routes, logging, bot transport, scripts, migrations | none of interest | input and output | |

The properties that make each component correct, in one line each:

- **review**: accepted comes from pending only, rejected is final, the target of
  a decided request is fixed, and accepted content is in the index for good.
- **Notion writer**: a retried accept appends its section once, as a whole, below
  one zone and one toggle of its date, and nothing else on the page is touched.
- **page index**: an index is never replaced by one read before an append that
  has been accepted; it is of one reading, not older in any part than its stamp
  says, and each of its texts is found by its own vector.
- **update ledger, queue, worker**: an update has one owner, its work is done at
  most once per attempt, a button is carried out by one press, and a success is
  never claimed without the work.
- **upload session**: a batch is closed as it was claimed, shown once, worked on
  by one process, ingested once and proposed once, and its preview is delivered
  by one worker at a time.
- **outcome recovery**: only committed work is turned into a success.
- **workflow run audit**: a run that has ended is not reopened; an operator's
  verdict on a stale run stands.
- **API idempotency**: a key runs its mutation once, and every later answer is
  the first one.
- **confirmations of `/index` and `/sync`**: one run comes of a confirmation, over
  the pages it was given for, and its row and the reply say what became of them.
- **proposal**: nothing is persisted that has not passed the validation.
- **source grounding**: what is accepted is said by the source, every refusal has a
  reason that the repair can work on, and more source never hurts.
- **question answering**: an answer rests on chunks of the pages asked about, and
  the run says how it came about.
- **page hierarchy**: every indexed page is listed once and can be selected,
  whatever the parents are, and a stale button selects nothing else.
- **operator views**: the views agree on cost, budgets, stale runs and readiness.

What is hard here: four stores (PostgreSQL, Redis, RQ and Notion) that share no
transaction; a long call to Notion or a model between the read of a status and
the write that relies on it; jobs that are retried after part of their effect is
committed; answers that are lost after the effect; locks of two kinds taken in
one transaction; keys that expire.

## 2. State and operations in the code

**`change_requests`** has the status (pending, accepted, rejected) and the target
page.  `_execute_review_action` reads the row, checks the status and dispatches;
an accept appends to Notion and prepares a snapshot *before* it opens the final
transaction, which locks the row, revalidates the status, takes the page's
advisory lock, checks that the snapshot is not stale and commits the index with
the status.  A reject updates the row by primary key; a change of target locks
it.

**Notion** holds the page.  `append_to_ai_supplement_zone` looks for the identity
of the request, creates the missing containers (one PATCH each) and appends the
section (one PATCH).

**The index of a page** is its row, blocks, chunks and vectors, replaced as a
whole in one transaction under `lock_page_for_reindex`.  What it is made of is read
before: the page object with its `last_edited_time`, then the children of each
block, one request after the other, then the vectors, one batch after the other.

**The confirmation of `/index` or `/sync`** is a record under a Redis key, and each of
its buttons a one-shot token.  A press claims its token, then the record; a full
index is queued as a job where there is a queue, any other is run by the press.
The run is a `workflow_runs` row, and each page is committed on its own.

**`telegram_update_ledger`** has a row per `update_id` (running, succeeded, failed,
with the reason and the `workflow_runs` row).  `enqueue_webhook` claims it and
enqueues a job; `process_telegram_webhook_job` runs the update and closes the row.  Whoever
closes it reads it without a lock and writes the columns that differ from what it read.

**The upload session** is a JSON record under one Redis key, changed by one
operation at a time under a lock of its own.  Its state goes collecting, settled,
awaiting_target, processing, proposal_created or failed ("settling" is read by
the store but assigned nowhere); flags on the side claim the settle job, the
picker, the receipt and the preview.

## 3. Modules

| Module | What it is | Code |
| --- | --- | --- |
| `ReviewPipeline` | review actions, append, snapshot preparation and the final transaction as interleaved processes | review and page index orchestrators, writer, unit of work |
| `ReviewLifecycle` | the abstract promise: decide a request once, accepted content is searchable | implemented by `ReviewPipeline` |
| `ReviewPipelineProofs` | its theorems, and those about the blocks of `NotionZone` | |
| `NotionZone` | the blocks of a page, the containers and lookups of an append, what is reported of it (operators) | writer client, block paths |
| `MCReviewPipeline` | the symmetry set of its runs; `NotionZone` after every sequence of a few accepts | |
| `TelegramUpdates` | updates and presses of a button: deliveries, claim, queue, attempts, ledger and run rows, recovery | gateway, ledger service, worker, recovery |
| `TelegramUpdatesProofs` | its theorems | |
| `MCTelegramUpdates` | the constraint of its run | |
| `UploadSession` | one upload session and the calls that race for it | session store, gateway, Telegram ingestion |
| `UploadLifecycle` | the abstract promise: collect, close, one process at work, ingest once, propose once | implemented by `UploadSession` |
| `UploadSessionProofs` | its theorems | |
| `PageTree` | the tree of indexed pages and the picker that walks it (operators) | notion hierarchy |
| `MCUploadSession` | `UploadSession` with its picker, and `PageTree` over every index of four pages | |
| `ApiIngestion` | one Idempotency-Key on one ingestion route: claim, request, audit row, answer, replay | idempotency middleware and service, the ingestion orchestrators, run service |
| `KeyedMutation` | the abstract promise: a key is held once, stores once, has one answer | implemented by `ApiIngestion` |
| `ApiIngestionProofs` | its theorems | |
| `SupplementProposal` | one proposal: duplicate checks, generation, bounded repairs and fallback title, the two writes | proposal orchestrator, screenshot judge, proposal schema |
| `SupplementProposalProofs` | its theorems, and what they come to for the texts of `SourceGrounding` | |
| `SourceGrounding` | the judge of screenshot proposals, on sets of words (operators) | screenshot judge |
| `SourceGroundingProofs` | its theorems | |
| `MCSupplementProposal` | `SupplementProposal`, and `SourceGrounding` over a small vocabulary | |
| `IndexSessions` | one confirmation of `/index` or `/sync` and the run that comes of it | index and sync session stores, gateway, full and incremental index, run service |
| `ConfirmedIndex` | the abstract promise: nothing before the owner confirms, one run over the pages confirmed | implemented by `IndexSessions` |
| `IndexSessionsProofs` | its theorems | |
| `OperatorViews` | cost, budgets, stale runs, readiness, as each view computes them (operators) | cost budget, observability, metrics, readiness |
| `MCIndexSessions` | `IndexSessions`, and `OperatorViews` over every table of a few rows | |
| `EmbeddingBatches` | the plan of bounded batches and which responses are accepted | embedding batch service |
| `PageIndex` | pages that people edit, read section by section, embedded and indexed | reader, page index, chunks, repositories |
| `Knowledge` | questions answered from that index while it is replaced; extends `PageIndex` | question answering, retriever, chunk repository |
| `KnowledgeProofs` | its theorems, and those about `EmbeddingBatches`, `PageTree` and `Retrieval` | |
| `Retrieval` | chunks of a page, their ranking by words, citations, duplicates (operators) | chunker, block paths, retriever, question answering, duplicate checker |
| `MCKnowledge` | the outline of its run; the plan over pages of up to five texts, and `Retrieval` over pages of up to three blocks and small tables | |

**`ReviewPipeline`.**  `status` and `target` are the row, `rowLock` and `pageLock`
its locks, `version` and `stamp` the page in Notion (content as the number of
edits, and `last_edited_time`), `section` where a request was appended, `index`
the snapshot the committed index was made of.  A reviewer's accept is `StartAccept`,
`FindIdentity`, `CreateContainers`, `AppendSection`, `VerifyAppend`, `ReadMeta`,
`ReadBlocks`, `LockRequest` (or `RefuseAccept`), `LockPage` (or `RefuseStale`) and
`CommitAccept`; a reject, a change of target and the indexing of a page are
sequences of the same kind.  `Abort` may end a call at any step: an error, a
timeout, a dead process, or the answer of a PATCH that Notion applied and that
was lost.  A person may edit the page at any time (`UserEdit`).

**`NotionZone`.**  What `ReviewPipeline` counts as edits are here the blocks that an
append adds: a page is the sequence of its blocks in the order of their creation,
`Stages` are the page before the first PATCH of an append and after each, `Found` is
what a retry, the verification and the audit report of a request that is on the page.
`MCReviewPipeline` forms every page that up to three accepts of two requests leave, each
of which may break off at any stage, from a page without a zone and one whose owner has
a toggle of that name elsewhere; the assumptions of the module are checked over all of them.

**`TelegramUpdates`.**  `ledger`, `run`, `work` are the ledger row, the workflow run
of each attempt and how often the business work has been committed.  A delivery
goes `Deliver`, `Insert`, `Enqueue`; an attempt `Start`, `Work`, `Reply`, `Audit`,
`MarkSucceeded` or `FailRun`, `FailLedger`; `Retry` and `WorkerDies` are RQ.  The
business work is one step that commits or not: the commands differ only inside it.
Two updates may press one operator button (`Presses`): such an attempt first looks the
button up (`Resolve`) and then takes its `token` out of Redis (`Claim`), whose answer may be
lost; without the token it is refused (`RefusePress`).  An operator inspects a failed
delivery and then closes ledger and run in one transaction, or fails to send the preview again
(`Inspect`, `Reconcile`).  The ledger has three closers: the request whose enqueue failed or
lost its answer, the attempts of the job, and an operator.  Each reads the row in one step
(`ReadToRefuse`, `ReadToClose`, `ReadToReconcile`; `read` is what its open transaction has read)
and writes it in a later one (`WriteLedger`), where SQLAlchemy's flush updates the columns whose
new value is not the one read (`Column`), by primary key and whatever the row holds by
then.  The insert of a claim is one step, the primary key decides.  `result_json` is not modelled.

**`UploadSession`.**  `session` is the Redis record; `due` the queued settle jobs by
version; `pc` and `arg` what a worker does next; `claimed`, `pickers`, `ingests`
and `proposals` record what was done for the session, and nothing reads them.  One
operation of the store is one action (`Upsert` with its caller, `ClaimSettle`,
`ClaimSettled`, `ClaimPicker`, `ClaimReceipt`, `AwaitTarget`, `ClaimTarget`, `ClaimRetry`,
`RecordSource`, `Record`, `Fail`, `ClaimPreview`, `CompletePreview`); the version that
the gateway reads back after its claim, the enqueue, the picker, the ingestion, the
proposal and the delivery are steps between them.  `preview_sent` is left out: it
is written with the delivery status and says the same.  A single upload is a group
of one photo whose picker is `ShowPicker`.

**`PageTree`.**  The index gives each page a parent that need not be indexed, may be the
page itself, or may lead back to it; pages are numbered in the order of their sort key.
`CycleMembers` climbs from each page once, `Tree` cuts what it finds, `Listing`, `Breadcrumb` and
`Split` are what `/pages` shows, `View`, `Accepts` and `Leads` are the picker.  `MCUploadSession`, whose
target is chosen from it, checks its six assumptions over every index of four pages.

**`ApiIngestion`.**  `record` is the row of the key in `api_idempotency_records`, `run`
the `workflow_runs` row of each call, `documents` the calls whose source document is
committed.  A call goes `Send`, `Lookup`, `Insert` in the middleware; the owner of the
key goes on with `Accept` (or `Refuse`), `Start`, `Parse` (or `ParseFails`), `Commit`,
`MarkSucceeded` (or `MarkFailed`), `Complete`, `Reply`; the others are told what
`Replay` says.  Each write has a second action in which it raises, with or without
having been applied: the claim is then a 503, a raise before the run is open leaves
the route as an exception that is stored as a 500 (`CompleteException`), a raise of the
commit fails the run, a raise of the audit is a 503 over a committed document, and an
answer that cannot be stored is not given.  The six routes differ in one place: whether there is a source to parse
(`Parsed`).

**`SupplementProposal`.**  `proposal`, `duplicate`, `attempted`, `succeeded` and `tokens` are
locals of the call; `run` with `evidence`, and `stored`, are its `workflow_runs` and
`change_requests` rows; `by`, `asked`, `usage` and `raised` are histories that nothing
reads but properties and a mutant.  A call goes `Accept` (or `Refuse`), `Start`, `Load`,
`EarlyMiss` (or `EarlyMatch`, which leaves the provider out), `Generate`, then, for a
screenshot, `RepairTitle` (or `RepairTitleFails` and `Fallback`) and one of `RepairSummary`
and `RepairBody`, then `LateMiss` (or `LateMatch`), `Persist`, `MarkSucceeded`; an error goes to
`MarkFailed`.  A part is reduced to what the judge finds in it (`Titles`, `Qualities`)
and the bounds and the language of the whole to `Forms`; `Verdict` is the judge with its
order of checks.  The two handlers that differ are those of a validation error, which
writes the repair flags into the row, and of any other error, which does not (`failure`).

**`SourceGrounding`.**  The judge compares words; how text is cut into them and brought to a
canonical form is left out, so a text is the set of what the judge finds in it (numbers,
identifiers, words, runs of Chinese), and the vocabularies of the module are sets.  The
operators are its decisions: `TitleAnalysis` and the fallback title, `Supported`,
`BoundedContext`, `Evidence`, `ClaimReason`, `Matched`, `Duplicate`, and `Judge` with its order of checks and
`RepairScope`.  `MCSupplementProposal` maps a proposal to the qualities that `SupplementProposal` keeps
of it and checks that its `Verdict` is this `Judge` (`VerdictIsJudgement`), and ten more facts.

**`IndexSessions`.**  `session` and `live` are the Redis record and whether its key has not
expired, `buttons` how many tokens of each kind are live, `run` the `workflow_runs` rows,
`jobs` the queued jobs, `committed` the pages whose index has been replaced, `told` what the owner
was told; the last two are histories.  The command is `Offer`, a toggle of a page `Toggle`; a
press claims its token (`Press`) and goes on with `Cancel` or `Confirm`; then `Start` opens the run
and either `MarkQueued` and `Enqueue` (or `QueueRaises`, `CloseRefused`, `Refuse`) hand it to a job, or the
call runs it: `Discover`, `IndexPage` for each page (or `PageFails`), `Succeed` or `Fail`, and, where the
call answers the owner, `ReadCounts` and `Complete`.  An operator reads a stale run and writes a
verdict in two steps (`ReadStale`, `WriteVerdict`).  `Break` ends a call at any step, and a lost answer
is a fault of the step it belongs to.  The two kinds differ where the code does: a full
index discovers its pages in the run, a sync before it is offered.

**`OperatorViews`.**  A table of runs is a sequence of rows with the time of their start and
their two costs.  `DailySummary`, `PeriodSummary` and `WorkflowSummary` are the sums of `/cost`, the operator
API and the metrics; `ShownStale`, `ListedStale`, `Reconcilable` and `Metrics` are the four places
that say which runs are stale; `Checks` and `StatusChecks` are readiness and what `/status` shows of it.
`MCIndexSessions` compares them over every table of a few rows.

**`PageIndex`, `EmbeddingBatches`, `Knowledge`.**  `version` and `place` are the blocks in Notion (how
often a block was changed, below which section it is), `began` the versions with which a
page got each of its stamps, `index` the row, blocks, chunks and vectors of each page.  An
indexer goes `StartIndex`, `ReadMetadata`, `ReadSection` for each section, `Prepare`, `Embed` for each batch
(or `EmbedFails`, which may repeat it) and `Persist`, with the guard of the stamp and the unique
keys of `notion_blocks`.  `Plan` is how texts become batches, `Valid` which responses are taken.
A question goes `Ask`, `EmbedQuestion`, `Compare` (or `CompareFails`), `Match`, `Answer`, `Succeed` or `Fail`; `ask` is
what the call knows, `run` its row, `reply` what was answered.  A failed statement aborts
the transaction of the session (`aborted`), in which PostgreSQL refuses the next.

**`Retrieval`.**  `ChunksOf` goes through the blocks of a page in reading order and cuts before
headings, before toggles, and where a line does not fit; `Path` is the path of a block.
`LexicalScore` and `Ranked` are the ranking that a question falls back to, in whole numbers;
`Cited` are its citations; `DuplicateOf` is the chunk that a proposal repeats.  A word is a
value, and only words of ASCII letters and digits are tokens; difflib's ratio is a parameter.
`MCKnowledge` states what they keep: every line of a page is in one chunk in its order and no
chunk is cut short, a chunk that has the question in it is found, more words of a question do
not rank lower, each path is cited once with its best score, and a known text is reported
whatever else is indexed.

## 4. Runs

| Run | Instance | What it shows |
| --- | --- | --- |
| `ReviewOnePage` | 1 request, 1 page, 2 reviewers, 1 indexer, 5 edits | types, the row lock, accepted content stays indexed, refinement of `ReviewLifecycle` |
| `ReviewRaces` | 2 requests, 2 pages, 2 reviewers, 2 edits a page, fair | decisions hold; every call returns |
| `ReviewRetry` | 1 reviewer, 1 indexer, 6 edits, stamps that may stand still | a retried accept appends once |
| `UpdateDeliveries` | 3 updates of which 2 press one button, 2 deliveries, 1 operator, 1 retry, fair | one owner, bounded work, one carrying out of a button, a success that is backed although closes mix, jobs end |
| `UploadSession` | 2 photos, 2 workers, 1 fault, fair | one picker, one delivery, current batch, refinement of `UploadLifecycle`, the batch is offered, work ends |
| `ApiIngestion` | 2 calls, 2 payloads, 6 routes, 3 faults, fair | one document per key, no answer for another payload, truthful audit rows, refinement of `KeyedMutation`, a key is answered |
| `SupplementProposal` | 1 call, every verdict, 2 faults, fair | only supported parts are stored, repairs are bounded, the row tells who wrote what at what cost, the run is closed |
| `IndexSessions` | 2 pages, 2 workers, 2 runs, 2 live buttons of a kind, 1 fault, fair | one run over the confirmed pages, a row and replies that say what became of them, refinement of `ConfirmedIndex`, the run ends |
| `Knowledge` | a page of 3 sections and one of 1, 1 block changed or moved once, 1 indexer, 1 question, 1 lost audit | an index of one reading that is not older than its stamp, each text found by its own vector, and answers, runs and reasons that agree |
| `LateReject` | violation | an accepted request becomes rejected |
| `StoredFitsSchema` | violation | a repaired proposal is stored that no accept can read |
| `VectorFallback` | violation | the lexical fallback reads in the transaction that the vector query has aborted |

The operators of `NotionZone`, `Retrieval`, `PageTree`, `SourceGrounding`, `OperatorViews` and `EmbeddingBatches` change no state.
Their facts are the `ASSUME`s of `MCReviewPipeline`, `MCUploadSession`, `MCSupplementProposal`, `MCIndexSessions` and
`MCKnowledge`, which TLC evaluates over the bounded inputs these modules list before each of
their runs.

**Bounds.**  `MaxVersion` of `ReviewPipeline` bounds the edits of a page; an accept
makes at most two, so five leave room for two accepts and an edit of a person
between any two of their steps, and six for the retries of `ReviewRetry`.  Two
processes are what every race in this code takes (a lock has a holder and one
that waits), two requests and two pages what a deadlock or a change of target
takes.  `UpdateDeliveries` takes one retry instead of the two of the queue policy, and leaves
out the states in which the two deliveries carry unrelated updates (`Related`), which share
no state, and, when they are two presses of one button, those with an operator at work or a
request that refuses beside its job (`OnlyJobs`): two presses share the token and no ledger row,
and each mixing of closes takes one update.  The theorems cover any number of
each, so what the retries add is an attempt that follows a failed one, and two deliveries
are what the insert race and two presses of a button take.  A new photo is what moves the settle version, so with two
photos `MaxVersion` 2 of `UploadSession` never blocks a claim; two workers make
every pair of calls race, and one fault shows what a crash leaves behind.
`MaxSessions` is one in the run; the theorems cover sessions that follow one
another under a key, with settle jobs of an earlier one still queued.  Two calls of
`ApiIngestion` are an owner and one that loses the insert, replays or conflicts; two
payloads are what a conflict takes, and three faults what it takes that an exception
leaves the route of an owner and cannot be stored while another request fails.  The theorems cover any number of calls.
Two faults of `SupplementProposal` are a commit that raises and a run that cannot be closed
after it; a reply reports one token or none, so a sum that loses a reply shows.
Two pages of `IndexSessions` are what a partial failure takes, two workers and two live
buttons a confirmation that races with another or with a cancel, and a second run exists to
be opened by mistake; `MaxButtons` stands for the tokens of pickers that have been replaced.
One fault is enough for each of its kinds; that two in a row do no more harm to the
safety properties is what the theorems say.
Three sections of `Knowledge` are what two batches take with two inputs each (`MaxInputs`), and a
request that is repeated has two attempts; a text has one byte for its title and one for the
block, so `MaxBytes` 3 lets two texts fill a batch.  One block that is changed or moved once while a page is
read, and again indexed, is what an index of two readings takes; `TopK` 1 makes the
nearest chunk a choice.

**Deadlock.**  `ReviewRaces`, `UpdateDeliveries`, `UploadSession`, `ApiIngestion`,
`SupplementProposal`, `StoredFitsSchema` and `IndexSessions` switch the check off because their systems stop: all edits are spent and nobody has
to call, all deliveries are done, the session has ended.  That no call hangs is `EveryCallReturns`.

**Fairness.**  `ReviewPipeline` assumes strong fairness of each process's next step
(never of an abort or of a call): PostgreSQL grants a lock to the first that waits,
Notion requests have transport timeouts, jobs have job timeouts.  `TelegramUpdates`
assumes that requests, jobs and the queue go on; no worker has to die and nothing
has to fail.  `UploadSession` assumes weak fairness of a worker's next step and
strong fairness of the start of a queued settle job, because RQ's queue is first in
first out; its two liveness properties are stated for behaviours without a fault,
as a fault does leave a batch uncollected or a session processing until the key
expires (section 7).  `ApiIngestion` assumes weak fairness of the next step of a request
that has been sent: handlers and their parsers have timeouts.  Nobody has to send one,
and no write has to raise.  `SupplementProposal` assumes weak fairness of the next step of
a call: a request to the provider times out after 60 seconds (`providers/llm.py:132`).
`IndexSessions` assumes weak fairness of a worker's next step and strong fairness of the start of
a queued job, for the reason given for settle jobs; nobody has to press a button, and
`ConfirmedIndexEnds` excepts a fault, and for the session the expiry of its key.  `Knowledge` states no
liveness.

## 5. Findings

Each is a run of its own that TLC finds violated.

- **`LateReject`** (`AcceptedIsFinal`): a reject reads pending, an accept commits, and
  the UPDATE of the reject by primary key overwrites accepted.
  `docs/02-workflows.md` draws the transitions from pending only.
- **`StoredFitsSchema`**: repaired and fallback parts are put into the proposal by
  `model_copy`, which does not validate, and the judge knows neither the bound of a title
  (a fallback title joins up to twelve terms of the source) nor the total with the target
  path.  `docs/02-workflows.md:86` has every repaired or fallback proposal pass the same schema
  before it is stored; an accept that cannot parse the proposal fails for good.
- **`VectorFallback`** (`FallbackAnswers`): an error of the vector query is caught
  (`repositories/chunk_repository.py:279-281`) and the lexical candidates are read through the same
  session, whose transaction PostgreSQL has aborted; the question fails, while
  `docs/05-rag-design.md:65` has the retriever use lexical ranking.

Read in the code and not given a run of their own:

- *Review.*  An accept that fails after the append leaves the content on the page, and the
  next indexing makes it searchable before it is accepted (`supplement_review_orchestrator.py:447`,
  `docs/13-telegram-operator-contract.md:101`).  The target may change between the append and
  the final transaction, which revalidates the status only (`:501`).  An older snapshot with an
  equal `last_edited_time` replaces a newer one.
- *Notion zone.*  An accept that breaks off before its section leaves an empty topic toggle,
  and the retry makes another.  The lookup by path then reports the lines and the count of
  the first toggle at that path, as it does when two requests share topic and date
  (`ReportsOwnSection`).  The client counts one block too many (`CountsOneMore`); its own test
  asserts 8 for 7 blocks, and the verification replaces the count.  The check that an identity
  belongs to another change request cannot fail for the API client, which returns the id
  that was passed in.
- *Telegram.*  A worker that dies after the ledger is closed has its work repeated by the
  retry, which does not read the ledger (`telegram_gateway_orchestrator.py:345`,
  `docs/13-telegram-operator-contract.md:148`); a completed job can leave a running ledger row; an
  update that is marked failed is retried when its audit row cannot be closed.  Closes of one
  ledger row that overlap mix their columns (`telegram_update_ledger_repository.py:21-53`):
  an operator who reconciles the run of a first attempt while a second is marked failed
  leaves a row that says succeeded and names the failed run, and so does a request that marks
  the update failed for a lost enqueue answer, with no run at all.  No document says which run such a
  row names, and `docs/runbooks/incident-recovery.md:5` has the operator pause the workers first,
  which the script does not enforce; `SucceededIsBacked` therefore asks for a succeeded run of the
  update and not for the one the row names.  Accept and
  reject buttons are not consumed by a one-shot claim although
  `docs/13-telegram-operator-contract.md:109` says mutation callbacks are.  A cancel is answered
  "cancelled" whatever state the session is in (`telegram_index_orchestrator.py:321`,
  `telegram_sync_orchestrator.py:171`).  A worker that is alive overwrites the verdict of an operator,
  and the other way round (`docs/08-observability.md:54`).  The recovery script may report
  that no Telegram action was taken after it has sent the preview.
- *Ingestion and proposal.*  The URL and YouTube routes never check the 200,000 characters of
  `docs/02-workflows.md:63`; a run that fails because the provider failed during a repair does
  not record the repair flags; a title repair that leaves the proposal over its bounds is
  flagged as a success.
- *Source grounding.*  The title analysis casefolds words before it tests them for capitals
  (`screenshot_quality.py:1520-1551`, `1626-1632`), and one of its reasons can never be given
  (`EveryRefusalExplained`); a second check of bounded context is dead (`2324-2329`); bounded
  context strips any label; the first Chinese of a source may unground a claim
  (`FirstChineseMayUnground`); repeated notes in Chinese are never found (`ChineseNotesMayRepeat`).
- *Retrieval.*  A text that follows a toggle is in the toggle's chunk and is cited at its path,
  because only a heading or a toggle starts a chunk (`TextAfterToggleIsMisfiled`,
  `rag/chunker.py:63-76`).  Tokens are ASCII, so without vectors a question in Chinese finds only the
  chunks that have it word by word, and a proposal in Chinese is a duplicate only to the letter
  (`OtherScriptsMatchExactly`, `services/duplicate_checker.py:118-120`).  A chunk with the words of a question may
  rank above a longer one with the question itself (`VerbatimMayRankLower`).
- *Operator views.*  `/cost` for one workflow calls a budget unknown when the known part
  already exceeds it (`UnknownHidesExcess`); the listing of stale runs leaves out those that are
  just old enough, which the other three places have (`StaleViewsAgree`).

## 6. Proofs

TLAPS proves the following for every value of the constants.

- **`ReviewPipelineProofs`**: `TypeCorrect`, `LockedRequestStaysPending`,
  `DecisionsAlwaysHold`, and, for stamps that move with every edit,
  `AcceptedStaysIndexed` and `PipelineImplementsLifecycle`.  The inductive invariant
  adds to the types what each step knows (`LocalsOK`), that locks are held by
  processes in their transaction (`LocksOK`), and that a snapshot past the staleness
  check covers every append made before it was read (`IndexInv`); without the last
  the commit of an index could lose an accepted section.  `OnlyOverlapAppendsTwice` says that
  a section is appended twice only if two calls are about to append it at one time, and
  `OneReviewerAppendsOnce` that this never happens with one reviewer.  Its
  invariant `AppendInv` is that where a call is past its look for the identity, the page has no section
  of that request yet, which another call past its own look would break.
  About the blocks of `NotionZone` it proves `AppendsStayBelowZone`, `ContainersAreShared`,
  `SectionsAreWhole`, `SectionsAreKept` and `ClientCountsOneMore`, for every page that is formed as
  appends form it (`Formed`), that an accept with an identity of its own is run on
  (`OwnIdentity`).  That the first block of a title is one block follows from the
  total order of the positions on a page.
- **`TelegramUpdatesProofs`**: `TypeCorrect`, `UpdateHasOneOwner`,
  `SucceededIsAlwaysBacked`, `WorkStaysBounded`.  The invariant ties each job to the
  request that claimed its row, the work of an update to the attempts of that one
  job, and each step of an attempt to the state of its own workflow run; what an
  operator read stays true because no step undoes work or reopens a run
  (`NothingUndone`).  `OutcomeInv` has no conjunct that relates two columns of a ledger row: a status, a
  reason and a named run are each right by themselves, which is all that survives a close
  that writes some of them (`Written`).  `PressInv` says that an attempt of a press is at its work only with
  the token taken and no press carried out; without it two presses that have both resolved
  the button would both work.  Both settings of `HasQueue` are covered; the run takes TRUE.
- **`UploadSessionProofs`**: `TypeCorrect`, `PickerSentOnce`, `DeliveredByOne`,
  `BatchIsCurrent`, `SessionImplementsLifecycle`.  The invariant `IInv` has a part per
  claim: a scheduled batch is the one its version was claimed for (`BatchInv`), the
  worker about to send the picker is the only one and none has been sent
  (`PickerInv`), one worker at most is working, the session is then processing, and
  its step tells what has been committed (`WorkInv`).  The last is what the
  refinement needs: a session that may be retried has a source and no proposal.
- **`ApiIngestionProofs`**: `TypeCorrect`, `KeyExecutesOnce`, `OkIsAlwaysStored`,
  `RunsTellTruth`, `RequestsImplementKey`.  The invariant `IInv` says what the record
  holds in each status (`RecordInv`), that the calls at an owner's step are one, that
  the record then runs with its payload (`OwnerInv`), that a document exists only once
  its owner is past the commit (`DocumentInv`), what a pending or given outcome says of
  the record (`OutcomeInv`), and how each step of a call relates its run to its document
  (`RunInv`).  `OwnerInv` is what the insert race would break: with two owners neither
  the one document nor the one answer would hold.
- **`SupplementProposalProofs`**: `TypeCorrect`, `StoredGrounded`, `RepairsAreBounded`,
  `EvidenceIsTrue`, `ProposalRunsTellTruth`.  The invariant `IInv` says that the proposal
  past the last judgement has passed it as a whole, or is a duplicate (`DraftInv`), for which purposes the
  provider has been asked (`AskedInv`), how the flags relate to who wrote the parts
  (`FlagsInv`), that the counted tokens are the reported ones (`CostInv`) and what the rows
  hold (`RowsInv`).  `StoredGrounded` follows from `DraftInv`, and `RepairsAreBounded` needs
  `AskedInv`, as the steps that ask are reached from several places.
  `SupplementProposal` only keeps of a text whether it passes; `VerdictIsJudgement` says that what it
  makes of that is the verdict of `SourceGrounding` on the texts, and `StoredTextsAreGrounded`
  that whatever texts a stored proposal of a screenshot is kept of (`Keeps`), they are grounded in the
  source, duplicates excepted.  That follows from `DraftInv` by the invariant `StoredIsJudged`.
- **`IndexSessionsProofs`**: `TypeCorrect`, `RowsTellTruth`, `OwnerReadsTruth`, `SessionImplementsConfirmed`.
  The right to work for a session is one thing that moves: a call at one of the steps of
  `Holding` has it, or a queued job (`HolderInv`).  On it rest that a run is opened before and closed
  after its pages (`StageInv`, `OneRun`), that what a call has counted is what has been
  committed (`PagesInv`), what the row says once nobody holds the right (`RowInv`), and what the call that
  answers has read from it (`RepliesInv`).  Without `HolderInv` two calls could index for one
  session and each row would lack the pages of the other.
- **`KnowledgeProofs`**, for any outlines, blocks, indexers and questions: `StampsCoverContent`.  The
  invariant says of each reading that it covers what its page had, when it got the stamp that was
  read first, in the sections read so far (`Covers`, `JobInv`); as versions only grow this survives
  every edit, and `Persist` hands it to the index (`IndexInv`).
  `PlansAreSound` says of every plan of batches that it has each text once, in order, and within the
  limits of one request.  On it rest `TypeCorrect` and `IndexAlwaysWhole`: a reading that is being
  embedded has exactly the vectors of the batches it is past, each at its place (`WorkInv`), so that what is
  committed has a vector of its own for each section.  `AnswersAlwaysTellTruth` needs of each
  question what it knows (the candidates it has drawn, the step that failed) and what it has said of it
  (`AskInv`).  `Plan` is recursive: that it is a function at all and what it computes is by
  induction over numbers, for which the module proves `SetInduction` and `RecursionExists` about sets
  of numbers, from the least element of each, as theorems with an operator for a parameter cannot be used.
  Of the tree of a finite index (`PageTree`), whatever its parents are and in whatever order
  the climbs start, it proves `CyclesAreFound`, `TreesAreForests`, `EveryPageSelectable`
  and `StaleButtonsAreSafe`.  A climb that leaves no cycle returns to a page of its way before
  it has taken as many steps as there are pages (two of more steps than pages are at one page); a page that could not be reached from the root
  would be in a set of pages that is closed under the parent, the smallest part of which is a
  cycle, and cycles have been cut (`Forest`).
  Of `Retrieval` it proves `ChunksHoldTheText`, by induction over the blocks of a page: what is cut so far
  is well cut (`WellCut`), and the open chunk is of the section of the block that comes next
  (`Ready`), without which a chunk might be cited at the section before it or end too soon;
  and `DuplicatesAreReported`, for any way of measuring the likeness of two texts.
- **`SourceGroundingProofs`**: ten theorems about the judge for every vocabulary, source, title
  and claim: `EveryRefusalExplained`, `EligibilityAgrees`, `MoreSourceSupportsTitles`, `NothingNewPasses`,
  `MoreSourceGroundsClaims`, `AcceptedIsGrounded`, `FallbackIsJudged`, `AllowlistGroundsTitles`, `VerbatimPasses`
  and `NotesDiffer`.  The first assumes that None is no reason, in its statement.  The proofs are by the
  order of the checks.

Assumptions: the ones the modules name (`ConstantsAssumption`, `PagesAssumption`,
`LimitsAssumption`, `AskersAssumption`, `ZoneAssumption`, and `StampsCountEdits` where a theorem states it);
of the pages, that there are some and finitely many.

Only model-checked are: liveness, and anything about ENABLED, as the prover has no rules
for them; the facts about `OperatorViews`; of `Retrieval`, ranking and citations; of `NotionZone`,
what is reported of an append (`ReportsOwnSection`); of `PageTree`, the listing of the pages, the
breadcrumbs and the messages they are split into.

## 7. Assumptions of the models, and what is not modelled

- Nobody deletes an appended section from Notion; people only edit.
- `update_id` is always present.
- A process is an operating-system process; asyncio tasks of one process
  interleave at the same points.
- The transaction that loses its connection rolls back.  A commit whose answer is
  lost is modelled for Notion, the queue, the pages of `IndexSessions` and the rows of
  `ApiIngestion`, `SupplementProposal`, `IndexSessions` and `Knowledge`.
- RQ runs a job again when its worker died and retries are left.
- Blocks of Notion are below one section of one level in `PageIndex`, and a section is one
  chunk; one that is deeper or longer is read and embedded the same way, and split as in `Retrieval`.
- In `Retrieval` a path is the blocks on it, so two blocks of one text differ, and a question
  is in a text as a sequence of words, where the code compares characters.
- A confirmed session whose call breaks off stays processing until its key expires, and its
  run stays running until an operator closes it (`ConfirmedIndexEnds` excepts both).
- Two accepts that look for a container or an identity before either appends it append
  it twice (`tools/notion_api_writer_client.py:80`): Notion has no transaction, and nothing in the
  code would prevent it.  Only two calls that overlap there do (`OnlyOverlapAppendsTwice`), so
  `RetryAppendsOnce` is run with one reviewer, and `NotionZone` is for accepts that follow one another.
- A key expires only while no call works on it: jobs end after 180 seconds, the key
  lives for 600 after its last write.
- After a fault an upload session may stay collecting with its settle job lost
  (`orchestrators/telegram_gateway_orchestrator.py:1628`) or processing
  (`orchestrators/telegram_ingestion_orchestrator.py:415`); only its expiry ends that.
- A key is a header and a fingerprint of the body; requests without a key are not
  constrained by the code and not modelled.  The mutating routes of `supplement` and
  `notion` pass the same middleware; what they do behind it is `ReviewPipeline`.
- A key whose owner dies, or whose claim or answer raises after it was applied, stays
  in progress: `KeyIsAnswered` says so by its exception (`Lost`).

Not modelled, because they are pure input and output: parsing, OCR, prompts and provider
requests; HTTP routing, logs and redaction; the bot transport (one request per call, its
failures are steps of its callers); the wording of replies and the parsing of their
arguments; scripts and migrations, which are run by hand; synthetic data (a predicate on
identifiers).  Prices and token counts are numbers given to `OperatorViews`.  The score that mixes
words with stored vectors is not used by question answering (`qa_orchestrator.py:184`).
A batch of Telegram photos is one source in one transaction, and is ingested in one step; the
retries and pages of one read of Notion are one read.

## 8. Plan

All that was planned stands:

1. `ReviewPipeline` with `ReviewLifecycle` and its proofs: the core of the system.
2. `TelegramUpdates` and its proofs: the entry of every Telegram command, with one-shot buttons.
3. `UploadSession` with `UploadLifecycle` and its proofs, and the picker of `PageTree`.
4. `ApiIngestion` with `KeyedMutation` and its proofs: keys, runs and documents.
5. `SupplementProposal` and its proofs, and the judge of `SourceGrounding` with its own.
6. `IndexSessions` with `ConfirmedIndex` and its proofs: confirmations, runs and operators.
7. `PageIndex`, `EmbeddingBatches` and `Knowledge` with the proofs about stamps, batches, answers and the page tree.
8. `NotionZone` and `OperatorViews`: what an append adds, and what operators are shown.

9. `Retrieval`: what a page is cut into, what is found of it and how it is cited.

What could follow: proofs about the breadcrumbs and messages of `PageTree`; two writers on one zone.
