# Formal models of the RAG agent

TLA+ modules for the parts of this repository whose correctness depends on what
happens *between* two lines of code: concurrent requests and workers over one
database, a stream with two coroutines and a client that can leave, a circuit breaker
shared by every call in flight, refresh tokens that two tabs rotate, a chat whose
answers arrive after the user has gone elsewhere, memories that one turn forgets while
another restates them, files that a row outlives. The algorithms in between (chunking,
fusion, prompt budgets, tool calls) are modelled as functions, checked over all small
inputs and proved for all. Each module is translated from the source file it names;
`PROJECT.json` maps each definition to the lines it stands for, each property to a
mutation of the code that it would catch, and each known hazard to the properties that
cover it.

Paths below are relative to the repository; `backend/app/` is left out where it
is clear.

    tlc -workers 2 -config MCBreaker.cfg MCBreaker.tla      # one model-checking run
    tlapm IngestionProofs.tla                               # one proof module

## 1. The system and its parts

A FastAPI service answers questions about a user's documents over a server-sent
event stream. Documents are uploaded, queued on SQS, and ingested (parsed,
chunked, embedded, written to PostgreSQL/pgvector) by a worker or, failing the
queue, by the API process itself. A chat turn retrieves passages, runs a
LangGraph loop of generation and tools, streams the answer, saves it, and then
folds old messages into a rolling summary. A React client drives both.

| Component | State it keeps | Operations | Meets | What is hard |
|---|---|---|---|---|
| Circuit breaker `services/resilience.py` | state, failure and success counts, opening time; per process | `_before_call`, `record_*`, `call`, `acquire` | every provider client | reports that arrive long after the state they were admitted in |
| Provider clients `services/llm.py`, `embeddings.py`, `reranker.py`, `http.py` | streamed fragments, retry count | stream, post with retries | breaker, providers | what each failure reports; abandoned streams |
| Ingestion `services/ingestion.py` | `documents.status`, `chunks` | `ingest_document`, `delete_document` | database, parser, embedder | two runs of one document; deletes and requeues meanwhile |
| Documents API `api/routes/documents.py` | rows, background tasks | upload, reingest, remove | queue, ingestion, blobs | look-then-insert; enqueue that half fails |
| Queue and worker `services/queue.py`, `worker.py`, `infra/terraform/queue.tf` | SQS messages, receive counts, DLQ | publish, receive, settle, heartbeat, redrive | ingestion | crash between any two steps; duplicate delivery |
| Agent graph `agent/graph.py`, `state.py` | `AgentState` | prepare, retrieve, generate, tools, routing | provider, tools, queue of frames | loop bounds; failing in the middle of a stream |
| Turn runner `agent/runner.py`, `core/sse.py`, `api/routes/chat.py` | frame queue, task, saved message | drain, save, title, post-turn | graph, client, database | two coroutines, a bounded queue, disconnects at awaits and at yields |
| Conversation `services/memory.py`, `api/routes/conversations.py` | messages, ordinals, summary and its mark | save question and answer, load, fold, delete | runner | overlapping turns of one conversation |
| Long-term memory `services/memory.py`, `api/routes/memories.py` | memories, salience, use counts | recall, extract, forget | embedder, turns | look up, load, then insert or reinforce; counting in a transaction that lasts as long as the answer |
| Sessions `services/auth.py`, `api/routes/auth.py`, `frontend/src/api/auth.ts` | refresh-token families; the browser's storage | register, login, refresh, logout | client, database | rotation under concurrency, lost answers, two tabs |
| Account flows `api/routes/account.py`, `services/email.py` | one-time tokens | verify, forgot, reset | sessions | reset against a refresh in flight |
| Quotas `api/deps.py` | none (counts rows) | check | every request | counted before the row it counts |
| Retrieval `services/retrieval.py`, `reranker.py` | none | dense and sparse search, fusion, rerank, cut | database, reranker | one leg failing inside a shared transaction |
| Context and citations `services/context.py`, `tokens.py`, `agent/prompts.py`, `tools/registry.py` | none | fit passages and history, number sources | graph | numbering that starts again in every tool |
| Chunking, parsing, OCR `services/chunking.py`, `parsing.py`, `ocr.py` | none | split | ingestion | boundary cases of sizes and overlap |
| Blobs `services/storage.py` | objects keyed by content and name | store, delete | documents API | written and deleted in no transaction with the row; a key that two rows share |
| Chat client `frontend/src/hooks/`, `frontend/src/api/stream.ts` | shown messages, stream, polls | send, stop, select, upload, poll | all of the API | answers to requests that are no longer wanted |
| Configuration, health, logging, migrations, infrastructure, evaluation, benchmarks | — | — | — | no protocol of their own |

What makes them correct, in one line each:

- *Breaker*: trips and closes exactly on runs of reports, and never stays open for
  ever.
- *Ingestion*: a search sees one complete build of a document or nothing;
  statuses always have an owner; deleted passages do not come back.
- *Service*: through queue outages, crashes and redeliveries an accepted document
  keeps a job, and is forgotten in three ways only, each the fault of one process.
- *Files*: a document keeps its file as long as its row, whatever its user uploads
  and removes around it.
- *Memories*: what is forgotten stays forgotten, what is restated is not stored
  twice, a use is never invented.
- *Turn*: one terminal frame and nothing after it; what is saved is what was
  shown and what was reported; every turn ends.
- *Conversation*: ordinals without gaps, each answer after its question, a
  summary that accounts for exactly the messages its mark claims.
- *Sessions*: what was ended stays ended; a client that hears its answers is never
  taken for a thief; signing out leaves no token behind; one mailed link works.
- *Chat client*: the list shows what is selected, an answer gets its own tokens,
  nobody polls for a chip that is gone, as far as requests under way and shared
  handles allow.
- *Algorithms*: no sentence is lost or cut by chunking; a search degrades to what
  is left of it; a prompt fits its window as long as its labels do; calls run as they
  were written; a source keeps its number.

## 2. Modules

| Module | Models | State ↔ code |
|---|---|---|
| `CircuitBreaker` | the breaker class, any number of calls in flight | `state`, `failures`, `successes` are `BreakerStats`; `elapsed` is `now - opened_at`; `call[c]` is a call between `_before_call` and its report; `badRun`, `goodRun` are history |
| `ProviderCalls` | how each client reports the end of a call | `Report` of `CircuitBreaker`: `GenerationReport` for `llm.py`, `CallReport` for what is wrapped in `CircuitBreaker.call` |
| `Library` | abstract: what ingestion promises to a search | a document is new, live or gone; it offers the passages of one build or none; builds are published whole |
| `Ingestion` | `ingest_document`, `delete_document` and the API's writes, over `documents` and `chunks` | `row` is the status column, `chunks` the builds with rows in the table, `counted` who wrote `chunk_count`; `pc[t]` is where an execution is, the statements of a replacement and of a delete one by one; `seen` is what its DELETE can see and then has deleted, `holder` who has the row locked, `WaitsFor` what a statement waits for |
| `IngestionService` | API requests, SQS with its DLQ, workers, background tasks; EXTENDS `Ingestion` | `req`, `msg`, `handling`, `executor` add who holds which job, and `shared` which message two workers had at a time; `lost` is history, with the cause |
| `AgentTurn` | the graph task and `run_turn` over their bounded queue, and the client | `node`, `step`, `parts`, `answer`, `pending`, `failure` are the graph's; `Exhausted` is the turn budget's; `queue` is the `asyncio.Queue`; `runner` is where the generator is suspended; `shown`, `terminals` what the client received; `saved` the message row |
| `Conversation` | the transactions of overlapping turns on one conversation | `rows` with their ordinals, `summary` (the ordinals it accounts for), `through` is `summarized_through`; `lock` is an open UPDATE of the conversation row |
| `Sessions` | one account's refresh tokens and mailed links on the server, and the browsers and tabs that hold a token | `row` is `refresh_tokens` in insertion order, `link` is `one_time_tokens`, `verified` the user's column; `req` has every request with the step of its handler; `storage` is `localStorage`, `flight` is `inFlightRefresh`, `busy` a pending sign-in or sign-out, `screen` the status of `useAuth`; `closed`, `late`, `by`, `stray`, `gone` are history |
| `Uploads` | the attachments of the prompt box and their polling; several may be of the same bytes, and so of one document | `chip` is what is shown of a file, `doc` the server's status of a document, `upload` and `chain` the upload of a file and the poll it started; `slot` is `timers.current`, one handle per document; `mishaps` is history |
| `ChatClient` | one tab's chat; EXTENDS `Uploads` | `selected`, `streaming`, `loading` are the hook's state; `base`, `answers`, `text` what the message list shows; `buffer`, `target`, `handle` are `bufferRef`, `assistantIdRef`, `abortRef`; `stream` is where each `send` is; `lateEnd`, `crossed` are history |
| `Memories` | recall, extraction and deletion of one user's long-term memories under overlapping turns | `live`, `content`, `useCount` are the table; `stage[t]` is where a turn is; `recalled` are the rows its graph has updated and so locked; `match` is what a lookup found, `image` what the session's identity map holds of it, `added` the pending inserts; `request[f]` is a DELETE between its look and its commit; `uses`, `known`, `missed` are history |
| `Blobs` | the stored file of a document and its row | `store` is the bucket, `rows` the documents, `post[p]` and `removal[r]` where an upload and a removal are; `overlaps` is history |
| `Chunking` | `chunk_document` as functions over blocks of words | `doc` is the argument, the blocks of a parsed document |
| `Retrieval` | fusion, the faults of both legs, `rerank` with its retries, fallback and exceptions, the relevance cut, as functions | `search` has what the two legs find, the fault that strikes, and how the reranker replies: not at all, with an error, with what is no JSON, or with any indices and scores |
| `ContextWindow` | `build_messages` with its five budgets, as functions over token counts | `prompt` has the sizes of the arguments, a passage's label apart from its text |
| `Lists` | two things Python does to lists: filtering and a stable sort | – |
| `ToolCalls` | from streamed fragments to calls, results, numbered sources and the next request, for both provider APIs | `slots` is the accumulator, `pending`, `messages`, `sources` are the agent state; `written`, `heard` say what the model writes and what has arrived; `ran` is history |

`*Proofs` modules hold the theorems, `MC*` modules and their `.cfg` files the
instances for TLC. Composition: `IngestionService` extends `Ingestion`, whose
actions its steps call, and implements it; `Ingestion` implements `Library`;
`ProviderCalls` instantiates the breaker's parameter. `AgentTurn` leaves saving
to success or failure, and `Conversation` leaves the inside of a turn out: they
share the steps "save the question", "save the answer or error" and "upkeep".
`ChatClient` interleaves the chat with `Uploads`, which its clicks clear; the
server it talks to is any order of answers. `Sessions` composes server and
browsers. `Memories` meets a turn at its recall, its commit and its upkeep only,
and `Blobs` meets the documents API at the file; what becomes of the row meanwhile
is `IngestionService`'s. `MCAlgorithms` extends these two and the four algorithm
modules and lets one run cover them: each initial state has a topic, and only that
topic's part moves. The inputs of `Chunking`, `Retrieval` and `ContextWindow` are
variables (`doc`, `search`, `prompt`) that grow from state to state, so that a run can
enumerate them and a theorem can speak of any.

How atomicity was chosen. The backend is one event loop per process, so a stretch
without an `await` is one step. Every PostgreSQL transaction commits as one step, and
a SELECT whose result is used after another transaction could have committed is a step
of its own (READ COMMITTED). A breaker method runs under its lock and is one step.
Where transactions wait for each other, a step is a statement. The replacing
transaction of ingestion takes its snapshot when its DELETE begins, then deletes,
updates the row, and inserts at the flush before its COMMIT (autoflush is off);
`delete_document` deletes the chunks it loaded, then the row, then what came in
between, by the cascade. Each statement waits for what another open transaction has
deleted or locked. These waits form cycles: of two replacements, of which one has the
row and is to insert over passages that the other, waiting for the row, has deleted;
or of a replacement and a delete. `DeadlockVictim` and `RemoveFails` are what
PostgreSQL does about them, and which transaction of a cycle it aborts is left open.

Deliberate abstractions, where a reader may look for more:

- A build's passages are one element of `chunks`, deleted, inserted and locked as a
  unit; that the set is whole or absent is what the unique index, the foreign key and
  the single commit give.
- The breaker's counters saturate at their thresholds, since the code only ever
  asks whether they were reached; `reset` and the statistics are left out.
- The status, sources, tool-call and tool-result frames of a graph node are one
  "note" frame; a generation is a sequence of tokens labelled with its round.
- A disconnect ends the generator where it is: CancelledError at an await,
  GeneratorExit at a yield. The two are handled differently by the code.
- A memory is named by the turn and the candidate that could add it; of its text
  only which contents are near duplicates of each other is kept, and which of
  several near ones the lookup returns is left open. Salience orders what recall
  returns, so that is left open too.
- A document in `Blobs` is named by the upload that inserted it; documents of one
  user and content are the same row, as the unique index has it.
- A summary is the set of ordinals whose messages it accounts for.
- Sessions: a request is one record and each of its commits a step; a handler
  whose single UPDATE decides (logout, replay, reset) is one step, one that reads a
  row and writes at its end (refresh, reset, verify) is two. An answer is sent
  after the commit. Whether FastAPI finishes a dependency with `yield` before or
  after it sends the response depends on its version, and `pyproject.toml` asks for
  0.115 or later only; were it after, a client could present a token whose row is
  not there yet and be refused, which is not modelled. Expiry is an outcome of a
  look at the token, access tokens expire whenever a tab refreshes, and an account
  exists from the start (registration is a sign-in to a new one).
- Chat client: a handler runs to its end; an abort rejects the fetch or the read it
  belongs to at once. A token is named by its stream.
- Attachments: the server's ingestion of a document is any change of its status.
- Chunking counts a word as a token and separators as none. Texts in
  `ContextWindow` are their token counts, with the margins of the code; a label has any
  length. Scores in `Retrieval` are small numbers, fusion scores exact fractions.
- The nearest memory is found whenever there is one near enough. An HNSW index
  (`models.py:312-318`) may miss it, and would then let an extraction store a
  duplicate that `NoNeedlessDuplicate` does not excuse.
- The title, `last_message_at`, chunk contents, prompt text and wire formats are
  data that no property tells apart.

## 3. Model-checking runs

| Run | Instance | Distinct states | Question |
|---|---|---|---|
| `breaker` | 3 calls, thresholds 3 and 2, recovery 2 ticks, the LLM's reports | 1 163 | Do counters, trips and recoveries mean what they say, with reports from calls admitted before the last outage? |
| `ingestion` | 1 document, 3 runs and a delete, statement by statement, faults, crashes, requeues | 144 437 | Is every search answered from one whole build? Is no status abandoned? Does every run end, although locks form cycles? Does it implement `Library`? |
| `service` | 2 requests and a delete, 1 message, 2 workers, 2 runs, 2 ids for one file, faults, redelivery during a run | 734 151 | Is every step of the service one of `Ingestion`? Is a document lost in no way but three? |
| `service_settles` | 1 request, 1 message, 1 worker, 3 runs, 2 receives, faults | 113 920 | Is an accepted document settled in the end, or its alarm raised, or its job lost in one of the three ways? |
| `turn` | 3 rounds, queue of 2, up to 2 tokens per round, faults, disconnects | 11 271 | One terminal frame, saved as shown and told, and an end to every turn? |
| `conversation` | 3 overlapping turns, window of 2, faults, a delete | 91 906 | Ordinals, answers and summary consistent under every interleaving? |
| `sessions` | 2 tabs of one browser, 3 requests of any kind, an old session or none, lost requests and answers, failing handlers, reloads | 230 955 | Ended for good? Never one's own thief? Nothing left behind? One link? Does the check of a tab end? |
| `chat_client` | 1 conversation and 2 questions (new ones among them), 1 load per conversation, 1 attachment; 2 attachments of the same bytes in a quiet tab | 273 540 | Does the list show what is selected, an answer its own tokens? Do polls serve a chip, and does a chip settle? |
| `algorithms` | six topics: 3 blocks, with pages or without; legs of 3 and the reranker's answers; 4 parts, with labels of the usual length and too long ones; 2 generations of 2 calls; 2 turns of 2 candidates and 1 deletion, faults; 4 uploads and 2 removals, faults | 1 195 195 | Is everything kept, told and fitted; do calls run as written and sources keep their numbers; does what is forgotten stay so; does a document keep its file? |

Runs that show a disagreement between the code and what it says of itself; each
checks one property and ends in a counterexample, without any fault in it:

| Run | The text | What the code does |
|---|---|---|
| `ingestion_redelivery` | `queue.py:12-14`: reprocessing converges on the same result | of two overlapping runs the later one fails on `uq_chunk_ordinal` and marks a complete document failed |
| `turn_last_step` | README, The agent loop: the last step withholds the tools and forces an answer | `route_after_generate` stops at the same count at which `generate` would withhold them, so no generation ever goes without tools |
| `conversation_gap` | `memory.py:3-5`: everything older than the verbatim turns is in the summary | the fold counts from the last answer, the window from the next question: the oldest unfolded message is in neither |

Other disagreements met while modelling. The models contain the code's behaviour,
and no run is spent on them:

- README (Resilience) counts rate limits as success; that is true of `llm.py`, but
  what is wrapped in `CircuitBreaker.call` (embeddings, reranker, web search)
  reports an exhausted 429 as a failure (`ProviderCalls!CallReport`). For one client
  alone a property would restate a row of the table, so there is none.
- README's "a queue outage costs throughput, not documents" has three exceptions, which
  `NoLostDocument` names: see below.
- `retrieval.py:134` says that either leg failing degrades the search. A dense leg that
  fails in the database has aborted the transaction, and the sparse leg with it
  (`SparseRows`); only a failing embedding leaves the sparse leg.
- `reranker.py:46-48` prefers a degraded answer to none. An answer of status 200 that is
  no JSON raises (`http.py:67`; `rerank` catches other errors only), and so does an
  index before the first candidate, which passes `reranker.py:75-79`; the search then
  fails as a whole and is caught in `graph.py:134` or `registry.py:153`. Indices that
  repeat are kept too: a passage can come twice, and out of order (`Raises`,
  `Collected`).
- `context.py:7-8` ranks recent turns above retrieved passages. `build_messages` fits the
  passages first and gives the history what they leave (`HistoryBudget`).
- `useUploads.ts:54` keys timers by document, and the server has one document for the
  same bytes. Of two chips of one document each arms a timer and overwrites the other's
  handle; removing one stops the polling of both; and an answer from before a reingest
  can show "failed" and be the last one (`Arm`, `RemoveFile`, `TickAnswered`).
- `runner.py:109` stops the graph on a disconnect; only a cancellation at
  `queue.get` does, at a `yield` the graph runs on.
- The upkeep's UPDATE holds the conversation row during a model call, and the next
  question updates that row: its latency is in the user's path.
- `api/auth.ts:126` calls the session "genuinely over" when a refresh fails; a lost
  connection ends it too (`RefreshFails`).
- A second click on a verification link gets a 400, although the handler is
  documented as idempotent; two resets that read one link before either commits
  both pass, although README calls links single use (`ReadLink`, `ResetPassword`).
- `resend_verification` needs a `CurrentUser`, which `require_email_verification`
  denies to exactly those who need a new link (`NoLinkNeeded`).
- The question of a turn is saved before the history is loaded, and so is twice in
  its prompt. `fetch_neighbors` has no caller. No caller passes a `TurnBudget` on.
- `README.md:562` and `memory.py:9` let a contradiction set `superseded_by`;
  no code writes that column. `models.py:299` says that salience decays and is boosted
  on recall: only extraction raises it, and nothing lowers it.
- Two candidates of one extraction that are near each other are both stored: the
  session does not flush between them (`db/session.py:26`), so the lookup sees neither.
  The same holds of extractions that overlap. `NoNeedlessDuplicate` allows exactly
  these and a match that is deleted between lookup and load.
- Recall counts uses in the transaction of the whole turn: their rows stay locked
  until the answer is complete, and a request to forget one of them waits that long.
- A document loses its file to the removal of another user's document of the same
  content and name, or to a removal that overlapped its upload (`storage.py:42`);
  an upload under a second filename leaves a file without a row (`FilesKept`).
- The page range of a text that joins an image's passage can miss pages
  (`PagesCover` excepts it). Tool results are appended without fitting the window
  again, so `PromptFits` is about the first request of a turn. `[i] label` may be
  longer than the 20 tokens that are reserved for it, a title and a URL by any amount
  (`context.py:164`): what the margins absorb is `LabelRoom`, and beyond it a prompt is
  too long, which the code logs and sends.
- Every tool text numbers its passages from 1 (`registry.py:185, 205`), while the list
  of sources goes on: two texts of one turn show different sources as `[1]`.
  `SourcesStand` is about the list and the offset of each text, not about that.

### The properties

*Breaker.* `StreakExact`: while closed, `failures` is exactly the current run of
reported failures, so a recovery leaves nothing behind. `TripJustified`,
`CloseJustified`: closed→open and half-open→closed only on full runs of reports (of
any calls, whenever admitted). `ReachesProbe`: an open circuit gets to probe, although
every late failure restarts its clock. `RecoversWhenHealthy`: under continuing
traffic, once failures stop the circuit closes for good.

*Ingestion.* `OneBuild`, `ReadyIsBuilt` (a ready document offers exactly the
passages its `chunk_count` counts), `NoAbandonedStatus` (an
in-progress status has a run on it, or one that crashed or failed to record its
failure), `RunsEnd` (no run waits for ever: locks do form cycles, PostgreSQL breaks
them, and nobody waits for a lock of their own or one that is never released; the run
that is aborted marks its document failed, a ready one among them),
`ImplementsLibrary` (refinement; passages that outlive their document would break it,
so `NoOrphanChunks` is a theorem and no invariant of the run).

Type invariants are proved, or part of a proved invariant, for every value of the
constants, and no run checks them on top.

*Service.* `ImplementsIngestion` (refinement). `NoLostDocument`: an unsettled document
has a request, a message, a DLQ entry or a run that stands for it, unless it lost a job
in one of three ways (`Causes`): "died", an API process stopped between its commit and
its handing over, or during an inline run; "unrecorded", an inline run of a living
process failed and could not record that either, as the database may be down as well;
"shared", a message was redelivered during its run, and of the two workers one deleted
it while the other's run was about to crash. `SettlesOrAlarms`: in the end a document is
settled, in the DLQ, or has lost a job in one of these ways. That a user has one row per
content is the unique index (`models.py:219`) and a guard of `UploadInsert`; no property
repeats it.

*Files.* `FilesKept`: the file of a document that has its row is there, unless a
removal of another document took it: another user's, or one that was under way
during the upload. Earlier and later uploads and removals of the same content by the
same user do it no harm, although all of them name one key.

*Memories.* `ForgottenStays`: what a request to forget selected is never written back
by an extraction that had loaded it (its UPDATE meets no row and the extraction is
rolled back). `NoNeedlessDuplicate`: of two live memories that say the same, the newer
was added by an extraction that could not have known the older, or whose match was
deleted before it was loaded. `CountsHonest`: concurrent counting loses uses and never
invents one; a memory that was used has a count.

*Turn.* `NothingAfterTheEnd`, `AnswerWasShown` (the answer that is saved from the
graph's state is the end of what was streamed through the queue), `SavedAsTold`,
`TurnEnds`. At most one terminal frame is what holds; README's "exactly one" does
not: a database failure while saving the question or titling ends the response
without any (`Open`, `Title`), which the model contains and the property allows.

*Conversation.* `Gapless`, `AnswerFollowsQuestion` (a question that takes the place
reserved for an answer makes that answer disappear; it never makes it answer
another question), `SummaryExact` (two upkeeps that start from one summary and
commit in any order leave text and mark in agreement).

*Sessions.* `EndedStaysEnded`: after a logout, a replay, a sign-out everywhere or a
reset, a live token of an ended family comes only from a refresh that had read its
token before (such a token exists: the UPDATE cannot see the row that the refresh
is about to insert). `ReplayExplained`: a tab's refresh is refused as a replay only
if the session was ended, another tab or browser rotated that token, or the tab
missed the answer to its own rotation; a tab that hears its answers is safe.
`NothingLeftBehind`: where nobody is signed in the storage is empty, unless a refresh
was answered after its tab had signed out. `OneWorkingLink`: two links of one purpose
work at the same time only if the newer was asked for before the older was
committed. `CheckingEnds`: no tab stays at its check.

*Chat client.* `OwnStream`: text belongs to its answer, and the refs to the one stream
that runs; the exception it names is a stream that was stopped while it waited for a
token refresh and ends later, when its `finally` resets the refs of the next one.
`ShownIsSelected`: once nothing loads, the list is the selected conversation's and
contains the answer that streams; the exception is a load that was answered after
another click (the hook keeps no sequence number). `PollsForSomeone`: a document is
polled for a chip that is shown, unless one was removed while a request for the document
was under way, whose answer arms a timer again, or two polls of it overwrote each other's
handle, which a removal then cannot clear. `ChipSettles`: if its document does not stay
in progress for ever, a chip ends ready, failed or removed, unless a poll failed, which
is the last one, or another chip of the same document was removed.

*Algorithms.* `PassagesKept`: every sentence up to the target stands whole, under its
own heading and under no other, pieces stay under twice the target, and the pages a
passage is cited with cover the words that are new in it. `SearchDegrades`: without
one leg the other's order (without a database nothing), without the reranker the
fusion's; what both legs found comes first; whatever the reranker answers, a weak
passage only where no strong one is, best first and none twice as long as it has one
result for each; and a search raises only on an answer that cannot be read or that
points before the first passage. `PromptFits`: a prompt with a history or a summary
fits; one without does unless its fixed parts are too long or its labels exceed their
share by more than `LabelRoom`; and the history has no gap. `CallsAsWritten`: whatever
the order of the fragments, what runs is what the model wrote, and the next request
shows each call with exactly one result. `SourcesStand`: no source changes its number,
and the numbers of one text are shifted together.

### Bounds, and why they are enough

- *Breaker*: with thresholds 3 and 2, three calls admitted while closed can
  report in every later state, and a run of failures or successes can be split
  between them; two ticks separate "just opened" from "may probe".
- *Ingestion*: interference on one document is pairwise (a DELETE waits for and sees
  earlier runs), and a cycle is of two transactions and the passages of a third; three
  runs and a delete give each kind. Documents do not interact, and the theorems hold
  for any number of both.
- *Service*: two requests are an upload and a second upload or a reingest, in every
  order with a delete; one message and the inline fallback give a job that
  runs twice at the same time, two workers a job taken over after a crash or during
  its run; `MaxReceives = 2` gives one redelivery before the DLQ. A message can be
  redelivered at any time of its run: the heartbeat ends with one failed extension
  (`worker.py:161`), and cannot fire while parsing blocks the event loop. Ids are
  interchangeable, so rows take the first one first and the delete is of that one
  (`InOrder`, `FirstDeleted`); what follows a lost job is left out (`NothingLost`, a
  CONSTRAINT), because its document is excused from then on. The theorems need none
  of the three.
- *Turn*: three rounds give a first, a middle and a last one; a queue of two is
  full in the middle of a generation, which 512 places are in production for
  long answers and nobody reading.
- *Conversation*: with a window of 2 the summary starts at the second turn, and the
  third one meets the upkeeps of the first two in every order. The ordinals
  reach 6.
- *Sessions*: every hazard is between two or three requests: two refreshes of one
  token and what came of them, a refresh and what ends its session, two requests for
  a link and one that uses it. Two tabs of one browser share the storage, which two
  browsers do not; the theorems hold for any number of all three.
- *Chat client*: two questions give a stream and its successor; the three
  conversations they can be in (one from before, two new ones) give a selection,
  another one and a late load. Attachments interact by their document only, and with
  the chat by `clear` only, so two of the same bytes are for a tab in which nothing
  else is under way, and a document that fails and the deletion of a conversation for
  states of their own (`Apart`, a CONSTRAINT of the run). The theorems hold without it.
- *Algorithms*: three blocks give a group, its neighbour and a return to the first
  heading; texts of 1, 3, 4, 6 words around a target of 3 give every case of
  splitting, packing and folding. Legs of three passages with a `k` of 2 give every
  order of ranks, of which up to four candidates go to a reranker with a limit of 3;
  its indices are in range, out of it, negative, repeated and before the first. The
  window of 6 000 is crossed by each part alone and by sums of them, and by two labels
  of 1 200. Two calls of two fragments give every mixture; `MaxRounds = 2` gives
  numbers that go on. All these properties are proved for inputs of any size.
- *Memories*: duplicates and lost uses are between two turns, or one and a request to
  forget; two candidates and three contents, two of them near each other, give a
  restatement of what is stored and one within an extraction. The theorems hold
  for any number.
- *Files*: uploads of the same user, key and content, of another filename and of
  another user, against two removals; three of the four uploads could be the same.

CHECK_DEADLOCK is off where the modelled actors finish (a turn closed, every
request made); the breaker never stops and is checked for deadlock.

### Fairness, and why the code justifies it

- *Breaker*: the clock runs, and a call in flight ends, since every client has a
  request timeout. `RecoversWhenHealthy` assumes in addition, in the property
  and not in the specification, that callers keep coming and are not all
  abandoned before they succeed.
- *Ingestion*: a run or a delete that was started is not suspended for ever (the event
  loop is fair, and every external call has a timeout), and PostgreSQL looks for
  deadlocks. Nothing is assumed about faults, crashes or the API's users.
- *Service*: a worker that is up polls, works and settles; SQS expires and
  redrives; a request that arrived is served. Users owe nothing.
- *Turn*: the event loop runs every coroutine that can go on. Nothing makes the
  client leave or stay. `TurnEnds` allows one other outcome, named `Stuck`: the
  client left at a yield, the queue is full and nobody drains it, so the graph
  waits for room and the generator for the graph.
- *Conversation* has no liveness property: a turn that overlaps may be refused.
- *Sessions*: the server serves what reached it, `fetch` settles (an answer, or a
  rejection), and React runs the effect of a tab that checks. Nobody has to click.
- *Chat client*: a request is answered or fails, and a timer fires. Of ingestion nothing
  is assumed: it may lose a document or leave it to the DLQ (`SettlesOrAlarms`), and a
  chip of such a document is polled for ever. `ChipSettles` says what follows if it does
  not. Streams owe nothing.
- *Algorithms* have no liveness property.

## 4. Proofs

Checked by TLAPS for every value of the constants (any number of calls,
thresholds, documents, runs, requests, workers, rounds, queue places, turns; any
window), from the named assumptions in the modules only: thresholds and bounds
are positive, `Report` maps to outcomes, `NoRun` is not a run, every browser has a
tab, conversations from before are not numbers, a search has finitely many URLs,
there is something to remember and being near is mutual. The only other hypotheses are
the inputs of the algorithms, see below.

| Module | Theorems | Argument |
|---|---|---|
| `CircuitBreakerProofs` | `TypeOKHolds`, `StreakExactHolds`, `TripJustifiedHolds`, `CloseJustifiedHolds` | `BreakerInv` adds `CountedInARow`: what a half-open circuit has counted was reported in a row. Without it a closing step could not be tied to `goodRun`; the action properties then follow from the invariant before the step and the effect of a report |
| `IngestionProofs` | `TypeOKHolds`, `OneBuildHolds`, `ReadyIsBuiltHolds`, `NoOrphanChunksHolds`, `NoAbandonedStatusHolds`, `IngestionImplementsLibrary` | the invariants are inductive together; `CommitEffect` is the heart: a commit that meets no conflict sees every passage it did not write, and leaves its own alone. The refinement maps a commit to `Publish`, a delete to `Withdraw`, everything else to a stutter |
| `IngestionProofs`, the service | `ServiceImplementsIngestion`, `NoLostDocumentHolds` | each step either calls one action of `Ingestion` or leaves its variables alone, given types. All theorems about `Ingestion` therefore hold of the service. `NoLostDocument` needs `DutyInv`: `Held` says that a worker holds one message, which only a shared one is held by two of, that it executes one run, of the document of its message, and that a message it holds is deleted only if it was shared and its document has lost the job; `AllSecured` that an unsettled document has a request about to schedule it, a message whose run has not recorded its outcome yet, a run at work, or has lost a job. One lemma per action passes the duty from one holder to the next |
| `IngestionProofs`, the files | `BlobsInvariant`, `FilesKeptHolds` | `BlobInv`: an upload between its file and its row remembers every removal under way (`Covered`), and so does a row that took the place of one that a removal has selected (`Selected`, with `OneRow` and `RowsDone`); `StoredKept` extends the property to uploads that have stored their file and not yet their row: without that, `InsertDocument` would have nothing to start from |
| `AgentTurnProofs` | `SavedAsToldHolds`, `NothingAfterTheEndHolds`, `AnswerWasShownHolds` | `TurnInv` adds that the loop is bounded (`LoopBounded`), that no error frame is ever queued by the graph (`NoErrorQueued`), and what each place of the runner knows about terminals and message (`RunnerKnows`). `AnswerInv` relates the two ends of the queue: what was shown, followed by the tokens still in the queue, ends with the graph's current answer (`Streamed`), and nothing follows the sentinel (`Ordered`); the lemmas about suffixes and about `Carries`, the tokens a queue holds, are stated for every sequence |
| `MemoryProofs`, the conversation | `GaplessHolds`, `AnswerFollowsQuestionHolds`, `SummaryExactHolds` | `ConversationInv` adds `Reserved` (the place an asking turn has read is a real or the next one), `Standing` (a turn between question and answer has its question in the table as long as the conversation exists) and `FoldExact` (what an upkeep is about to write is the first `mark` messages) |
| `SessionsProofs` | `TypeOKHolds`, `EndedStaysEndedHolds`, `ReplayExplainedHolds`, `NothingLeftBehindHolds`, `OneWorkingLinkHolds` | `SessionsInv` adds that families are named by tokens there are (`Named`), that a refresh between its read and its commit is marked as soon as its family is closed (`Overtaken`), and what requests present and browsers hold (`RequestsOK`, `Held`). `ReplayExplained` needs `ReplayInv` on top: a token still on its way has been neither stored nor presented (`Grants`), a tab waits for its one refresh (`Flights`), and a rotation that its tab has heard of is forgotten there (`Forgotten`) |
| `ChatClientProofs` | `TypeOKHolds`, `OwnStreamHolds`, `ShownIsSelectedHolds`, `PollsForSomeoneHolds` | `Own`: at most one stream runs, and all refs and pending tokens are its; `Listed` adds what a new chat shows before it has a name; `Waited`: what can arm a timer is for a document with a chip that is shown, or excused, and a timer that no handle clears is one of two |
| `MemoryProofs`, the memories | `MemoriesInvariant`, `ForgottenStaysHolds`, `NoNeedlessDuplicateHolds`, `CountsHonestHolds` | `MemoryInv`: only a saved extraction's candidates are live (`OnlyBorn`), so nothing deleted can come back; a candidate is added at most once and in its turn (`InOrder`), and only where nothing it had known was near (`AddsNews`); counts are honest for rows, deleted ones too, and for what each session has loaded (`AllHonest`), since a session writes back what it read long before |
| `ToolCallsProofs` | `CallsAsWrittenHolds`, `SourcesStandHolds` | `ToolInv`: at every moment of a stream a slot has the fragments that were heard, in their order, and no two slots are one call (`Accumulated`); what is pending is what was written; the messages hold each call that ran once and one later result of it (`Replayed`); all names are older than the generation under way, so its own are new (`Named`); and no number has two sources. It rests on what `AlgorithmProofs` says of flattening (`FlattenPlaces`: where each element stands) and sorting (`Sortable`: that it is possible) |
| `AlgorithmProofs`, prompts | `PromptFitsHolds` | `Fitting`: what the passages taken so far have cost, 20 tokens more each than their texts have, is within their budget, and only the one that is cut exceeds it, by its mark; what a block has beyond that is its labels less those 20 tokens each (`BlockWithin`, `BlockFits`), for which `LabelRoom` is left. The history and the summary are fitted into what the block as it is has left, so a prompt that is too long has neither. `Picking`: the messages taken are all those after some place that have text, in order, and within their budget. |
| `AlgorithmProofs`, searches | `SearchDegradesHolds` | The stable sort is a sort: its places are a permutation, in the order of the scores, equals in theirs (`SortedIs`). A leg that is alone keeps its order, because what is at an earlier place scores more; what both legs found scores more than what one did, while ranks are below `k`. The answer of the reranker is a filter, a sort and a cut, whose parts are places of the part before (`Picked`); its indices name candidates, counted from either end, or the search raises |
| `AlgorithmProofs`, passages | `PassagesKeptHolds`, `NoWordLost` | Every loop has an invariant of its own, and each layer hands the next one what it needs. Sentences stand in their text and gather every word (`CutAt`, `Gathered`); hard splits and fillings hold each part (`Packs`, `Held`). A piece may be as long as the target and a tail, and the tail is short because what stands between two blank lines of a piece is (`Short`). The pieces say where their words are from, either new from a page they tell or carried over from the piece before, and their pages go up (`Packed`); groups do the same for whole blocks (`Grouped`). Joining small pieces keeps all of it, except for an image's passage (`Assembled`). `PassageIds` turns words into the block they are from |

The algorithms have no state that moves. Their theorems say that the property holds in
every state whose input is one that there can be: `search \in Searches`, `prompt \in
Prompts`, `doc \in Documents`. A document's blocks have words that no other block has,
which only serves to tell where a word is from, and its pages go up or there are none,
as a parser emits them (PDF and the other formats). A search's legs name a passage
once each, and nothing is assumed of the reranker's answer; of a prompt nothing is
assumed. The states of the `algorithms` run all have such inputs. Each loop of these
modules is a recursive function, not an operator and not a fold: the library's
induction takes an operator as a parameter, which no installed prover can instantiate.
`NatSets` gives induction from facts about finite sets alone, `LoopExists` that a loop
with a typed body has a function, and `Upto` the induction over its passes.

Every invariant and every action property that a passing run checks is stated by a
theorem. Only model-checked is liveness under fairness (`ReachesProbe`,
`RecoversWhenHealthy`, `RunsEnd`, `SettlesOrAlarms`, `TurnEnds`, `CheckingEnds`,
`ChipSettles`), which is outside the prover's reach, as is `ENABLED` and so fairness and
deadlock freedom themselves.

## 5. Not modelled, and why

Left out of modelled components: quotas (`deps.py:147`: counted when the request
arrives, before the row they count is there; the overshoot is bounded by the requests
in flight and nobody relies on the limit being exact); the heartbeat's timing (a
message can be redelivered during any run, see the bounds) and malformed or batched
messages; back-off times; tokens, seconds and calls of a turn budget, which no caller
passes on; the salience of memories, on which no step depends; the frame parser,
renaming and the memory panel of the client; what SQLAlchemy does to two operations on
one session (`graph.py:290`), of which `AgentTurn` has the outcome, a node that fails.

Not modelled at all: what parsers, OCR, models and the reranker compute (steps that
succeed or fail); rendering;
logging, configuration, health probes; migrations, whose constraints are modelled
where they matter; Terraform resources other than the queue; evaluation and
benchmark tooling.

## 6. Plan

1. Batches of messages in a worker, and the visibility timeout as a clock, which would
   bound the redeliveries that a working heartbeat allows.
2. Larger instances of `sessions` (two browsers, four requests) and `chat_client`
   (two loads of one conversation at once) outside the regular runs.
