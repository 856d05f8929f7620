# Formal models of chatbot-react-python-nodejs

TLA+ modules for the parts of this repository whose correctness depends on the
order of events: concurrent requests over one database, retries, faults in the
middle of a turn, the clock. TLC checks them on small instances; TLAPS proves
the invariants, action properties and refinements that TLC checks for every
value of the constants. Only liveness rests on TLC alone.

    tlc -workers 2 -config TurnsCore.cfg MCChatTurns.tla      # likewise the other runs
    tlapm ChatTurnsProofs.tla

`PROJECT.json` has the runs, the source lines of every definition (`map`), the
hazards with their lines, the mutants that show each property can fail, the
findings and the theorems.

## 1. The system

| component | state | operations | interacts with |
|---|---|---|---|
| chat turns (`services/chat_service`, `unified_chat_service`, `tool_chat_service`, `db/chat`, `db/identity`) | sessions, messages, summaries, guest quota; one transaction per request | complete, stream, canned answers, create and delete session | callers, providers, tools, frontend |
| rate limiter (`middleware/rate_limit`) | a deque of grant times per bucket | `check` | every HTTP request |
| caller identity (`core/caller`, `auth_service`) | guests, users, tokens | resolve, mint, link | chat turns, documents |
| unified streaming (`unified_chat_service`, `chat_stream_adapter`, NDJSON in `routers/chat`) | frames of one response | start, delta, tool and retrieval frames, end, error | chat turns, agent, frontend |
| agent runtime (`ai/agent`) | scratchpad, plan, step results, event queue | plan, run steps, reflect, finalise | tools, providers |
| tools (`ai/tools`) | registry | validate, authorise, execute with timeout and retry | agent, tool chat |
| knowledge (`knowledge_service`, `ai/documents`, `db/documents`) | documents, chunks, upload slots | ingest, delete, list | vector store, quota |
| retrieval (`ai/rag`) | none | retrieve, build a context within a token budget | knowledge, chat |
| providers (`providers`, `core/retry`) | none | complete, stream, retry | all answers |
| frontend chat page (`ChatPage`, `useChatStream`, `chatReducer`) | transcript, refs of the running request, session list | send, stop, retry, switch, delete | both backends |
| Node.js backend (`backend-nodejs`) | none | complete, stream without persistence | frontend |

How they meet: a request passes the rate limiter; FastAPI dependencies open one
PostgreSQL transaction and resolve the caller in it; the router starts the
service; the service checks the quota, resolves the session, appends the
question, calls the provider (directly, through tools or through the agent),
appends the answer, charges the quota, perhaps summarises; the dependency
commits after the response has been sent. The frontend keeps its own transcript
and continues with the session id it was told, and retries with the
`client_message_id` of the failed turn.

What is hard about it:

* concurrent requests of a guest, and of a user and the guest linked to them,
  over the same rows, ordered only by two row locks that are held during the
  provider call;
* check-then-act over a provider call: quota, default session, latest summary;
* where the transaction ends: after the answer was sent, in the middle
  (`_commit` on the error path, in denials and canned answers), or not at all;
* answers that end in many ways: completed, polled disconnect, provider
  failure, cancellation of a stream or of an NDJSON completion, an exception in
  the tool loop;
* retries under one key, answered from what the first attempt left;
* midnight between two readings of the quota window;
* waiting: everybody waits for rows somebody holds.

## 2. Modules

    ChatTurns ── ChatTurnsLog (refines TurnLog) ── MCChatTurns (instances)
        └── ChatTurnsProofs ── ChatTurnsLogProofs
    RateLimiter ── RateLimiterProofs
    AgentRun (refines FrameProtocol) ── AgentRunProofs
    UnifiedStream (refines FrameProtocol) ── UnifiedStreamProofs
    StreamConsumer ── StreamConsumerProofs     (the page)
    SessionSwitch ── SessionSwitchProofs       (the page)
    Chunking ── Ingestion (refines UploadLedger) ── IngestionProofs

### ChatTurns — how a turn is persisted

State. `owner`, `nextSeq`, `messages`, `summaries`, `quota` are the committed
tables. What a request wrote and has not committed is `txn[r]`: nobody else sees
it (READ COMMITTED). `guestHolder` is the lock `touch` takes on the guest row
while the caller is resolved, `rowHolder` the lock of `SELECT ... FOR UPDATE` in
`allocate_seq`; both go when the transaction ends. `window` is the UTC day,
`lastSid` the id generator. `pc`, `req`, `outcome` say where each request is,
what it asked, how it ended; `answer` is the row a replay sent back;
`announced` the session ids clients have been told.

Actions, in the order of a turn:

| action | code |
|---|---|
| `Begin` | `get_current_caller`, `resolve_guest_caller` (`touch` waits for the row) |
| `CheckQuota` | `_maybe_check_quota`, `QuotaService.check` |
| `ResolveSession` | `_resolve_session` |
| `FindPrior`, `FindReply` | the idempotency lookup of `prepare_stream` and the three `complete_chat` |
| `AppendUser` | `allocate_seq` and `add_message(role="user")`, with the unique index and the vanished session |
| `AnswerComplete`, `AnswerFails` | `complete_chat` (plain, tools, agent) |
| `StreamCompletes`, `StreamStops` | the ends of a stream and what each persists |
| `Abandoned` | an answer cut off with nothing stored, whose transaction commits all the same: a stream or an NDJSON completion (`run_chat`, `chat_ndjson_response`) cancelled when its client leaves, a tool loop that raises in a stream |
| `AnswerCanned` | `_guest_denial_response`, `_empty_corpus_response` |
| `DenyStream`, `PersistStatic` | `_stream_guest_denial`: two transactions |
| `Commit`, `Abort` | the two exits of `get_optional_session`; `Abort` is also a crash |
| `Open`, `DeleteLookup`, `DeleteRow` | `create_session`, `delete_session` |
| `Midnight` | `_utc_window` |

An action covers the code between two points at which another request can act on
what it reads or writes. Reads of rows the request has locked, and its own
writes, are not separated. The summary's provider call takes no step of its own:
the row lock excludes everyone who could change what was read before it.

Abstracted: text, titles, usage rows and timestamps; provider, model and the
features of an answer (a tool loop or an agent run is the part between
`AppendUser` and the answer); the read-only endpoints. Guests are resolved
identities, see section 7.

### TurnLog and ChatTurnsLog — what clients are promised

`TurnLog` is what persistence is for: a session is a log of entries. A turn joins
one log in one step, the question and its answer right behind it, or the question
alone when its answer was cut off; an answer may be repeated once behind what came
later (a denied stream stores its denial twice, section 4). A key is in a log
once, a summary covers a growing prefix that ends with a complete answer, and a
deletion takes all. `ChatTurnsLog` maps the messages of a session, in the order of
their numbers (`EntriesOf`), to the entries and states `ImplementsTurnLog`. It has
no condition: every end of a request is a step of the log or none. What a log
with cut-off questions does to the look-up at `prior.seq + 1` is the matter of
`turns_replay`.

### RateLimiter — the HTTP limiter

`events` is the deque; `granted` (all grants) and `retryAt` (the promise of the
last 429) are history. `check` has no suspension point between reading the clock
and appending, because nobody holds the lock across an await, so it is one step.
Time is integer ticks, `Tick` to the second, to see sub-second rounding.

### FrameProtocol, UnifiedStream, AgentRun — what a response sends

`FrameProtocol` is the contract of `POST /api/v1/chat/stream`: tool and retrieval
frames, one start, deltas, one end or error, nothing after. Its variable `view`
is what the client has seen. The two producers update `view` with `Receive`,
which turns an illegal frame into the phase `broken`; that they implement the
protocol (`ImplementsFrames`) is therefore a statement about their order of
steps, not about their types.

`UnifiedStream` is one response without the agent: `ChatService.stream_chat` and
`UnifiedChatService.stream_execute`. A generator suspends at each `yield` and each
call to the outside. Straight runs of frames and stores are put into `todo` when
their path is entered and leave it one by one (`Yields`, `Stores`, `StoreFails`);
the rest is in `pc`: routing (`Replays`, `Denies`, `Proceeds`), retrieval, the tool
loop (`LoopHead`, `AskAnswers`, `CallsTool`, `ToolReturns`, `BatchEnds`) and the
streamed answer (`Polls`, `Chunk`, `StreamEnds`, `StreamBreaks`). `connected` is
whether the client is there, `noticed` whether a poll has found that it is not:
the two differ, and a loop that has noticed must stop asking. `denied` is whether
the authorizer refused a call of the batch: the response then ends with a fixed
text. Today's authorizer refuses no call of a user; `MayRefuse` admits one that does. `rows` are the
assistant messages stored, `dbUp` whether the transaction is still usable.

`AgentRun` is one streamed run with the agent: the executor's task and
`stream_agent_chat`, which meet in a queue. The executor has `exec` (where `run`
is), the two state machines of the code (`status` with `ValidTransitions`,
`iteration`, `reflections`), the plan with each call's attempts, and the
scratchpad `pad`. The reader handles one event at a time, polls the connection,
stores, and sends frames. Publishing to an unbounded queue never suspends, so the
code between two awaits is one step. `Cancelled` and `Torn` are cancellation
from outside. Configurations (tools, parallel, reflection, attempts, whether the
provider converts messages) are chosen in `Init` (`Modes`).

### StreamConsumer and SessionSwitch — the page

Both model callbacks and event handlers, which run to completion, over the refs
that React handlers share.

`StreamConsumer` has the fetches (`asked`), the bubbles and the refs of the
request the page thinks is running (`current`, `stream`, `pending`, `target`, the
two maps). The SSE hook and the completion hook each have one flag (`busy`) and one
`controller` for all their fetches; `transport` says which hook the page believes
to be at work. The page takes streaming to be enabled until `/api/health` has
answered (`HealthAnswers`), so a session may change hooks between two requests.
Every fetch may deliver frames, be refused, break, end, or have its body closed
without a terminal frame (`CutShort`) at any time after it was sent; `Send`, `Retry`,
`Stop` and `SignsIn` come in between. `overlap` and `left` are history: whether a
retry was made beside a running request, and which bubbles the code left waiting
(section 4).

`SessionSwitch` has the sessions of the server, the sidebar, the transcript shown,
`sessionLoadSeqRef` and the loads in flight, and one record for each handler that
awaits (`resume`, `creating`, `deleting`, `gen`). `world` fixes in `Init` whether
requests fail and whether the user acts while handlers are waiting (`Overlaps`):
some properties hold for a user who waits, and section 4 says what happens to one
who does not.

### Chunking, Ingestion, UploadLedger — documents

`Chunking` is `RecursiveChunker` as an operator on texts of two kinds of
characters. `Ingestion` is uploads and deletions, each one transaction: `docs` and
`used` (the counters) are committed, everything else is in `req[r]`, with the
counter rows it holds (`locks`). The steps of an upload are those of
`ingest_document`; each may raise (`Releases`, `Raises`), and `TimesOut` cancels
wherever it is, past the `except Exception` that gives the slot back. `Commits`
comes after the answer and may fail. `UploadLedger` is what a reader may rely on:
a document appears, ready, in one step that takes one slot of one day of its
owner, within the quota, or not at all; it disappears in one step.

## 3. Runs

| run | what it shows | states | time |
|---|---|---|---|
| `turns_core` | types, gap-free numbering, append-only messages, quota, one session per guest, summaries chain, exactly-once charging; a replay is the reply of the turn its key names, unless that was cut off | 736 000 | 80 s |
| `turns_denial` | the same numbering with denied streams; every request finishes; refinement of `TurnLog` with cut-off answers and denials | 123 000 | 130 s |
| `rate_limiter` | window bound, no needless refusal, truthful Retry-After | 327 000 | 40 s |
| `agent` | the conversation sent to the provider is paired; the queue ends with a terminal event; the state machine is not misused; the client is told what was stored; frame protocol; every run ends | 816 000 | 160 s |
| `unified_stream` | paired tool conversation; the terminal frame matches the store; what is stored was shown; nothing asked after the client is known to be gone; frame protocol; every response ends | 9 300 | 3 s |
| `stream_consumer` | text in the bubble of its own turn; a waiting bubble has a request that will tell it the end, or is one of those the code leaves; retry sends its own turn's request; generating ends | 60 000 | 10 s |
| `session_switch` | what is shown belongs to the active session; a deletion leaves the page on a session that exists; a loading transcript ends | 147 000 | 20 s |
| `ingestion` | the corpus is whole at every commit; refinement of `UploadLedger`; no request waits for ever; the chunker loses no sentence | 166 000 | 55 s |
| `turns_denial_quota`, `turns_replay`, `agent_rejecting`, `quota_dangling` | violation runs, section 4 | | seconds |

**Bounds of ChatTurns.** Three requests are enough for a conflict between two and a third that
sees, replays or overwrites what it left; every hazard in `PROJECT.json` needs at
most three. One guest and one user, the guest linked to the user, give all owner
relations (own, linked, foreign: the guest to the user's sessions). One key,
because two keys never meet. `MaxSessions` 2 in `turns_core` is a guest's session
and a user's, or two of the user's; 3 where a third could be made. `DailyQuota` 1 is the limit met at once;
`LastWindow` 2 is one midnight. `Threshold` 2 summarises every turn, 3 every
second one. No request is ever disabled by a bound except the one that would
insert a session beyond `MaxSessions`; it may still be aborted. `turns_denial` has no
`open` requests, so `Create` of `TurnLog` is met only in the proof of the refinement.

**RateLimiter** uses limits 2 and 1, a two-second window at half-second ticks, and
a clock that runs one and a half windows, so that a bucket fills, expires and
fills again; three kinds of bucket.

**AgentRun**: two iterations and two calls per plan are a batch, its retry and a
second plan; one reflection, two attempts of a provider call, one chunk (a second
chunk repeats the first). **UnifiedStream**: three rounds of two calls, so that the
last round, which may not call tools, is preceded by two that do; three chunks,
because the connection is polled between them. **StreamConsumer**: three turns and
three fetches are a turn, its retry and the next turn, or three turns over both
hooks: enough for a request that meets the refs which a refused, dropped or cut
short one left, and for an old, a new and a retried fetch to be alive together. **SessionSwitch**: two sessions at the
start and up to six made, two messages, two clicks on top of the auto-resume:
an interleaving of any two handlers with a stream. **Ingestion**: three requests of
two users with a quota of one, over one midnight: two compete for a slot while
the third deletes, or belongs to the other user; two chunks distinguish "some"
from "all embedded". The chunker is checked on all texts of up to seven
characters, sizes 1 to 3 and every overlap the settings allow.

Deadlock checking is on everywhere; a state in which everything is done stutters
explicitly. In ChatTurns it says little because a fault can always end a
waiting request; that nobody waits for ever is the liveness run's question.

**Fairness.** Weak fairness of the program's own steps only; the user, faults,
disconnection, the clock and cancellation are never fair.

* `turns_denial`: each request's own steps: a provider call is under
  `asyncio.wait_for`, a lock holder never waits for a lock another waiting request
  holds (guest row before session row), and a dependency always exits. A request
  that waits for a row needs no strong fairness because only finitely many
  requests compete in an instance.
* `agent`, `unified_stream`: the tasks of the event loop; every call to the outside is under a
  timeout and its retries are bounded; a provider sends finitely many chunks.
* `stream_consumer`, `session_switch`: every HTTP request is answered or breaks; one
  fairness condition for all responses is enough because only finitely many are
  outstanding.
* `ingestion`: each request's own steps; the pipeline is under `wait_for`.

## 4. Where the code and its documents disagree

With a run:

* `turns_replay`: an answer that was cut off leaves a question without reply: a
  cancelled stream, a tool loop that raised, or an NDJSON completion whose client
  left (`run_chat` catches `Exception` only, and `get_optional_session` commits after
  the cancelled response, `routers/chat.py:106`). A retry of it is
  answered with the message at `prior.seq + 1`, the next turn's *question*.
* `turns_denial_quota`: a denied guest stream charges the quota in a second
  transaction, after the lock that made check and charge atomic is gone.
* `agent_rejecting`: with Gemini or Anthropic, an agent run whose answer has to be
  streamed from the scratchpad fails although nothing outside failed: the
  scratchpad's message objects are not what these clients read
  (`llm_step.py:145`, `scratchpad.py:15`).
* `quota_dangling`: a retried answer shows its bubble as streaming before the
  server has answered; a refusal for the quota then dispatches no end for it, and
  it streams for ever, without a Retry button. The comment at `ChatPage.tsx:410`
  promises a login prompt instead of a dangling streaming message.

Met while modelling; the properties name them as exceptions:

* Turns. A retry of an interrupted stream replays the partial text
  (`chat_service.py:1068`; README.md:145 speaks of retrying interrupted streams).
  The start frame names a session that is not committed; a quick follow-up is
  refused with `session_not_found` (`routers/chat.py:142`). A denied guest stream
  stores the denial twice (`unified_chat_service.py:871`).
* Stream. When storing a canned answer fails after its start frame, the outer
  `except` sends a second start frame (`unified_chat_service.py:441`):
  `StoresMayFail` leaves the scope `static` out for that reason, so no property
  covers that hazard. Tool frames are sent only after the tool loop, so they do
  not announce progress (`:369`); the frame order allows that.
* Page, one request. Three ends of a request tell its bubble nothing: a refusal for
  the quota (`ChatPage.tsx:409`), one for the access token, and a body that closes
  without an end or error frame (`useChatStream.ts:45-46`: the loop ends, `finally`
  clears the flag, no callback runs, the refs stay). `left` collects the bubbles
  shown at that moment and `NoDanglingBubble` excepts exactly these. Retry is
  offered on a failed completion whose request was never stored. A retry beside a
  running request (`MessageBubble` does not disable Retry) makes the callbacks of
  one fetch read the refs of the other: text, requests and ends go to the wrong
  bubble, and the `finally` of the older fetch clears the controller of the newer,
  which Stop then no longer aborts (`useChatStream.ts:73-76`). The three safety
  properties are stated for pages without such a retry (`Alone`); the model has
  these steps, and `GeneratingEnds` is checked over them, but no property says that
  Stop reaches the running fetch: without an overlapping retry a controller
  has one fetch and the statement says nothing, with one it is false.
* Page, sessions. The composer stays enabled while a new chat is created or the
  first list is loading: the stream then ends on another session than the page.
  Selecting a session while the active one is being deleted, with a failing
  refresh, leaves `isTranscriptLoading` set for ever: the deletion advanced the
  counter without a load of its own (`ChatPage.tsx:703`). A retried first turn is
  sent without its session and opens a second one (`:530`; `split`). A deletion
  that succeeded, followed by a failing list or create, leaves the page on the
  deleted session and says it could not be deleted.
* Documents. The failure path marks a document `failed` and gives its slot back,
  and the exception then rolls all of that back with the rest: nobody ever sees a
  failed document, and the release, which takes the window of the moment and
  not that of the reservation, has no effect. `tests/test_knowledge_service.py:136`
  sees the row because its session is not rolled back. The answer to an upload is
  sent before the commit: a refresh of the page may miss it, and a failing
  commit is reported to nobody (`Commits`). The chunker may emit a chunk that lies
  within the one before it, when a short segment is followed by a long one.

## 5. Proofs

Every invariant, action property and refinement of the passing runs is a theorem
of the specification, for all values of the constants that the modules' `ASSUME`s
admit: callers, keys and `NoOne` distinct, bounds positive, requests only of the
shapes the router lets through, at least one user. Two theorems have a further
hypothesis, in their statements and here: `QuotaRespected` (no denied guest
streams) and `StreamImplementsFrames` (the stores of canned answers do not fail);
each excludes a disagreement that section 4 describes. The bounds
of the models (`MaxSessions`, `MaxFetches`, `MaxChunks`, ...) are arbitrary
numbers in the proofs.

Hardly any of the properties is inductive. What is added to each is below; TLC
checked the added invariants on the runs' instances before they were proved.

### ChatTurns — who may write what

`ChatTurnsProofs`:

* `TypeCorrect` — `TypeOK` is inductive together with the clause that a request
  past session resolution knows its session.
* `GuestHasOneSession` — the property alone is not inductive: two requests could
  both be about to commit a new session. The invariant adds `LockInv` (an
  admitted request of a guest, outside the second transaction of a denial,
  holds the guest's row) and `SessionInv` (ids are handed out once; a
  transaction that creates a guest's session knows that the guest has none).
* `QuotaRespected` — under `NoDenials`. `QuotaInv` adds three facts to `LockInv`:
  nothing is charged to a day that has not begun; a guest whose turn has passed
  the check still has room *today* (`RoomAfterCheck`, true again after midnight
  because the new day is uncharged); a turn about to commit its charge has room
  on the day it was charged to (`RoomToCommit`). They survive other requests
  because `GuestLockExcludes`: no second request of the guest is past the check.
  `NoDenials` excludes guest streams with a toggle on: with them the property is
  false (`turns_denial_quota`).
* `ChargedForAnswersOnly` — `ChargedExactlyOnce`, with no hypothesis: denials
  included, what is charged is what was answered. `BillInv` counts the finished
  requests (finitely many have begun) and says where a charge is carried before
  its commit. The total over the windows is a recursive function; that it has
  the values its equation gives, and grows by one with a commit, is shown by
  taking the least window where it would not (`SumsExist`, `OneMoreSpent`).

`ChatTurnsLogProofs`, about what a session contains:

* `NumberedWithoutGaps`, `SummariesAreAChain`, `OnlyAppended` — from `LogInv`:
  while a request holds the session row, the rows in its transaction continue
  the stored ones (`Extends`) and its summary continues the stored chain
  (`Continues`), although `Latest` was read before a provider call. The two
  events that change the tables are `CommitStores` and a deletion.
* `ReplaysAreOwnReplies` — with no hypothesis. `ReplayInv` says that a stored
  question is followed by the reply of the same request unless that request was
  cut off (`StoredPaired`), and that between the two look-ups of a retry the
  question it has found is still there or its session is gone (`FoundInv`,
  `Known`).
* `TurnsAreALog` — the refinement of `TurnLog`, with no hypothesis. `TurnsInv` adds
  to `LogInv` that a stored message is of a request that has ended or of a denied
  stream between its two transactions (`WritersDone`), and that the denial such a
  stream will repeat is in its log once (`DenialInv`). What a step does to
  the tables is one block of messages in one session (`CommitsABlock`); each kind of
  block has its lemma: `TurnIsAppend`, `CutOffIsAppend`, `AgainIsRepeat`,
  `NothingIsCreateOrStutter`, `DropIsDeleteOrStutter`.

### RateLimiter

For any limits, window and clock resolution: `WindowRespected`,
`OnlyFullBucketsRefuse` and `RetryAfterIsHonest`. `WindowInv` says that the deque
is the tail of all grants and that what was dropped has expired (`IsTail`); the
lemmas `DropTail` and `AppendTail` are the two things `check` does to it. 
`DequeInv` adds, for Retry-After, that a deque never holds more than the limit or
a time that has not come, and that the last refusal waits for its oldest entry.

### AgentRun

`AgentRunProofs`, for any iterations, attempts, reflections, calls and chunks. The
executor and the adapter meet only in the queue, so what the client will see
depends on the order of the events in it:

* `TransitionsAreValid` needs only that `status` follows the place of the run
  (`StatusInv`).
* `ConversationIsPaired` — `PadInv`: the conversation is paired, except while the
  last plan is being executed.
* `AlwaysToldTheEnd` — `ClosingInv`: a sentinel in the queue is behind a terminal
  event, or the reader no longer reads.
* `AgentImplementsFrames` — `OpenInv`: there is an assignment of sets of open calls
  to the positions of the queue, from those the client has seen started to
  those the executor is running, which every event respects; and nothing is told
  of tools behind the first token (`OrderInv`).
* `TerminalIsTrue` — `ReaderInv`.

### UnifiedStream

`UnifiedStreamProofs`, for any rounds, calls, chunks and failing stores.
`Course` says for every place of the generator what is still in `todo`, what the
client has seen and what is stored: an end frame is ahead only behind a complete
message, an error frame only when there is none. With it go `ConversationIsPaired`,
`TerminalIsTrue`, `StoredTextWasShown`, `GoneClientCostsNothing` and
`StreamImplementsFrames`. The last assumes `"static" \notin StoresMayFail`: when
storing a canned answer fails, the code sends a second start frame (section 4).

### StreamConsumer and SessionSwitch

`StreamConsumerProofs`, for any turns, fetches and kinds of refusal. As long as no
retry was made beside a running request (`Alone`), `AloneInv` says that only the
last fetch is in flight and only its hook busy with it (`OneFetch`); that the refs
describe that fetch while it runs (`Serving`, `Served`), whereas between
requests they may hold anything an earlier one left; that text and requests are
those of the bubble's turn (`OwnTurn`); and that a streaming bubble is the one of
the running fetch or was left by the code (`NoneLeft`). From it:
`TextStaysInItsTurn`, `NoBubbleDangles`, `RetriesAreOfOwnTurn`.

`SessionSwitchProofs`, for any sessions, messages and clicks. For a user who waits
(`~Overlaps`), `WaitInv` says that one handler is at work at a time (`OneTask`,
`OneLoad`), that a message is stored in one session (`OneHome`) which is the active
one when the message is shown (`ShownHome`, `GenHome`), and, when no request fails,
that the active session exists (`Alive`). From it: `TranscriptIsOfActive`,
`DeletedIsLeft`. The conditions are those of the properties themselves; section
4 says what happens without them.

### Ingestion and Chunking

`IngestionProofs`, for any users, requests, quota, days and chunks:

* `UploadsAreAtomic` — every upload or deletion is one step of `UploadLedger` or
  nothing. The invariant says for each place of a request what it has done so
  far (`Progress`), and that the locks of a user's requests are disjoint
  (`LocksExclude`). The core is `HoldsSlot`: from its reservation on, an upload
  has exactly one slot of one day, holds the lock of that day's counter row,
  and the committed count is below the quota. It survives the commits of others
  because they change only counters they have locked, and midnight because the
  slot stays with the day of the reservation. The two cases of `CommitCases` are
  `Store` and `Remove`; every other step leaves the tables alone (`OnlyCommits`).
* `CorpusAlwaysWhole` — from the same invariant.
* `EveryTextIsCovered` — what TLC checks of the chunker on texts of up to seven
  characters holds of every text, size and overlap; `WholeTextsAreEmbedded` is
  the property of the run, an instance of it. `Chunks` is a recursive function
  on positions that calls itself further to the right. That a function with its
  equation exists (`CuttingExists`), and that all its values are cut as they
  should be (`PiecesAreFair`), is shown by taking the last position where it
  would fail (`Backwards`, from the least-number principle): the induction is
  over a set of positions, not over an operator.

### Only model-checked

The six liveness properties (`EveryRequestFinishes`, `EveryRunEnds`,
`EveryResponseEnds`, `GeneratingEnds`, `LoadingEnds`, `EveryRequestEnds`): fairness and
ENABLED are outside the prover's reach. The violation runs are TLC's as well.

## 6. Plan

All components of section 2 have their safety proved. What would add most next:

1. Callers: minting of guests inside an uncommitted transaction, tokens, linking;
   composed with ChatTurns' assumption of resolved callers.
2. The page with overlapping retries: which bubble each callback reaches when
   two fetches share the refs, as an abstract specification of a page that keeps
   one record per fetch.
3. The measures behind the liveness properties (a request waits only for one that
   is ahead of it in the order of the locks) as invariants, which could be proved.
4. The context budget of retrieval against a reference definition.

## 7. Not modelled

* Caller identity: `core/caller` mints a guest in a transaction whose token the
  client already holds when it commits; passwords and tokens are left out.
  ChatTurns begins with a resolved caller and the row lock that resolving takes.
* Memory growth of the rate limiter's table of buckets, which nothing bounds.
* The Node.js backend (stateless), prompts, logging, configuration parsing, offline
  evaluation, rendering, deployment files, file-format parsers.
* The provider HTTP clients and the vector search are external: they answer, fail
  or time out; ranking and similarity are not modelled.
* The documents page: two refreshes may resolve in the wrong order and leave the
  older list (`DocumentsPage.tsx:38`); its list carries nothing to order responses by.
* Text, titles, usage rows, timestamps, token counts.
