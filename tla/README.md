# Reelingo server: verification project

Reelingo is an Express/TypeScript server for chat with media generation. Users
send a message and read the turn as server-sent events; a turn ends with a text
reply or with a queued image or video generation, which background workers
carry out. State is in PostgreSQL (through Prisma) and in a directory of files.
This directory holds TLA+ specifications of that program, configurations that
model-check them with TLC, and proofs checked by TLAPS. Line numbers below are
in the repository at the commit the modules were written from.

## 1. The system

| Component | State | Operations | Interacts with | Correct when |
|---|---|---|---|---|
| Generation workers (`ai-generation.worker.ts`, `process-ai-generation.use-case.ts`, `ai-generation.prisma-repository.ts`) | rows of `ai_generations` (status, `updated_at`, result), lease and stored keys of the worker, files | poll and claim, renew, generate, store, complete, fail, clean up, start, stop | provider, file storage, other processes' workers, chat turn (producer), readers | one owner, one result, results readable, no forgotten file, every row settled |
| Chat turn (`message.controller.ts`, `send-message`, `create-message`, `generate-assistant-response`, `message.prisma-repository.ts`) | chat run (status, version, result), messages, state of the request's stream | store message, claim run, stream deltas, commit reply or generation, fail run, report | chat client, event stream, generation queue | events ordered and after their commit, one answer, run settled |
| Event stream (`server-sent-event-stream.ts`) | idle / open / closed, chain of pending writes, heartbeat timer | sendJson, end, close | HTTP response, chat turn | writes in order, nothing after the end, ends for a closed client |
| Response polling (`get-message-response`, `getResponse`) | none | read run, generation, result | chat turn, workers | never contradictory, never goes back, suffices to learn the end |
| Assets (`use-cases/assets`, `asset.prisma-repository.ts`, `local-asset.storage.ts`) | rows of `assets`, `message_assets`, files | upload, list, read, delete unused, attach | message creation, workers | row implies file, attached assets stay |
| Sessions (`use-cases/auth`, `jwt.service.ts`, `token-revocation.prisma-store.ts`, `authenticate.middleware.ts`) | users, `revoked_keys`, tokens held by clients | login, refresh, logout, authenticate | every request | a refresh token works once, a logout is final |
| Gemini media generation (`gemini.provider.ts`) | outputs and failures of a batch | image batches, video polling | workers | partial success kept, stops when aborted |
| Remote chat agent (`remote-ai-agent.client.ts`, `reelingo-ai/`) | line buffer, result | write and read an NDJSON stream | chat turn | result only from one complete stream |
| Recent logs (`recent-log-store.ts`) | ring buffer | write, list | admin endpoint | newest first, at most capacity |
| Cursor pagination (`cursor.ts`, list queries) | cursor held by the client | page | all lists | no row twice, no old row missed |
| Language negotiation (`language.ts`) | none | resolve | error messages | best supported language |
| Server lifecycle (`server.ts`) | shutdown flag | start, shut down | all | ends, in-flight media left for recovery |
| Projects, conversations, profiles | rows | single conditional statements | their lists | ownership, listed at the right place |

What is hard here: workers of several processes that only share rows and clocks;
leases that expire under a worker; transactions whose outcome is unknown to
their caller; files and rows that cannot be written atomically; a request whose
answer is a stream, so that an error may come when it is too late for an HTTP
error; clients that stall, disconnect, reload and poll; responses read in
several statements; and a process that may die between any two steps.

## 2. Modules

| Module | Models | Role |
|---|---|---|
| `GenerationQueue` | what the workers promise | abstract specification |
| `GenerationWorker` | workers, rows, files, clocks, failures | detailed; implements `GenerationQueue` |
| `TimelyWorker` | the same with bounded delays and fairness | lease timing and liveness |
| `ChatTurn` | request handler, chat run, event stream as seen by the handler | detailed |
| `MediaTurn` | `ChatTurn` + `GenerationQueue` + polling clients | composition |
| `AnswerDelivery` | what the transports between agent and browser promise | abstract specification |
| `AgentStream` | agent service, its NDJSON stream and reader, event stream with backpressure and heartbeats | detailed; implements `AnswerDelivery` |
| `MediaBatch` | one generation at the provider: batches of images, a polled video, the completion text | detailed |
| `Assets` | uploads, reads, attachments and deletions of one user's assets | detailed |
| `Sessions` | login, refresh, logout and authentication of one person | detailed |
| `LogWindow` | the newest entries | abstract specification |
| `RecentLogs` | circular array of log entries and its filters | detailed; implements `LogWindow` |
| `CursorPaging` | a client that scrolls one of four lists among writers | detailed |
| `MC...` | the instances that TLC checks | – |
| `...Proofs` | theorems, section 4 | – |

`GenerationWorker` takes `MediaBatch` for one step with an outcome (`Generate` or
`GenerateError`), and `ChatTurn` takes the transports of `AgentStream` for single
steps: a publish that waits (`At`), and an answer or an error (`Respond`,
`RespondError`). `ChatTurn` and the workers meet in `MediaTurn`, where the workers
are the abstract queue, which section 4 proves that they implement.

### GenerationWorker

A worker is the loop of `AiGenerationWorker.run` around
`ProcessNextAiGenerationUseCase.execute`. Its place in `process()` is `pc`: idle
(between polls), generating (the provider calls), storing (one file per output),
completing and committing (before and after the unlocked SELECT of
`completeClaim`), discarding (claim lost), cleanup (the catch clause), failing
and rejecting (`failClaim`, of the catch clause and of `claimNext` for a row that
does not parse). `job` holds what lives in memory: row, claim version, the
lease's `lost` flag and the stored keys.

`status` and `updatedAt` are the row. There is no owner column: the version a
worker read at its last claim or renewal is compared with `updated_at`
(`Matches`). The database clock is `now`; the worker's own clock, used for
`staleBefore`, may be off by `Skew`. Each SQL statement is one atomic action; the
transaction of `completeClaim` is two, because its first SELECT takes no lock.
While a `created_at` of a pending row only orders rows, `updatedAt` stands for it.

`Faults` chooses what may go wrong: the process dies, is stopped, a statement
fails, a claim's or renewal's answer is lost, a commit's answer is lost, a file
cannot be deleted. `MaxFaults` and `MaxTime` bound the runs. Not in the model:
what the provider does (an answer of 1..`MaxOutputs` media or an error at any
time, see `MediaBatch`) and the contents of files and messages.

### TimelyWorker

The safety runs let any amount of time pass between any two steps. Liveness and
the lease need timing: here time passes only while every worker waits (`Pass`),
renewals fire every `RenewEvery` ticks, and ages, not dates, are kept (`Age`
shifts all timestamps when the clock is at its bound), so that time never ends.

Fairness: the event loop runs what is ready and Node timers fire (`WF` of
`Process` and `RenewClaim`); provider calls end because of `generationTimeoutMs`;
a stopped process is started again some time (`WF` of `Start`, an assumption about
the deployment: without any server nothing settles); time goes on. No fairness is
assumed of failures, nor of submissions.

### ChatTurn

`pc` names the next step of the handler: create, announce, claim, start,
respond, complete, queued, completed, end; fail (`failChat`), report (the
controller's catch clause). `run` and `outcome` are the durable state, `stream`
the state of `ServerSentEventStream`, `sent` what was written to the response.
Each `await observer.publish` waits for the response to take more data: after a
write the client may be `slow`, and the handler goes on when it drains or is
gone (`At`). A disconnected client does not stop the turn, as in the code.

`claimChat` can also answer NOT_FOUND, BUSY or COMPLETED and reclaim failed or
stale runs. In the server as wired its only caller is the request that has just
created the run, so these answers do not occur and are not modelled; for the
same reason no version is needed to tell claims apart.

### MediaTurn

A turn that commits a generation performs `Queue!Submit` in the same step.
Workers are the actions of `GenerationQueue`, justified by the theorem
`WorkersImplementQueue`. `getResponse` reads the run, then its relations: Prisma issues
one SELECT per relation, without a transaction, unless the `relationJoins`
preview feature is on, and `schema.prisma` does not enable it.

### Assets

`row` and `linked` are the tables `assets` and `message_assets`, `file` the
directory. A requester sends one request after another; `pc` is the next
statement or file operation of its use case, `arg` the assets it names. Row and
file of an asset share a name because a storage key is a random UUID written to
one row only.

PostgreSQL matters here. The DELETE of `deleteUnusedOwnedByIds` selects its rows
in the snapshot in which it starts (`SelectUnused`) and removes them later
(`DeleteRows`): it waits for rows that a foreign key check has locked
(`Unlocked`), skips rows that are gone, and fails as a whole when a row has a
link that the snapshot did not show (`Restricted`). `ownsAllAssets` takes no
lock. `Promise.all` starts all deletions of files at once, and the ones left
run on after the first error (`Unlink` after `Respond`). Clients only name
assets they were told of (`Known`), by an answered upload or by a listing.

Left out: the cursor and the kind filter of listings, other users (every
statement has a condition on the user), and generated media, which
`GenerationWorker` stores.

### Sessions

`issued` holds the claims of all tokens ever issued: an access and a refresh
token share one entry, a *pair*; the first pair of a session names it. `revoked`
is `revoked_keys` with the expiry of each key. `now` is the server's clock in
ticks, `Second` ticks long is a second, the precision of `exp`. Clients may
present any token they have ever had, any number of times, from any connection:
that covers lost answers, retries and replayed tokens.

Left out: signatures and the check of Google's token (an unverified login has
no effect), and users other than one, whose rows no request of his touches.

### AgentStream

Three programs in a row. The chat route of `reelingo-ai` writes one JSON line per
part of the answer, then a terminal event (`Say`, `Finish`). `RemoteAiAgentClient`
reads chunks, cuts them into lines and consumes these one at a time, under one
timeout (`Fetch` to `ConsumeError`, `Fire`). The handler passes parts on through
`ServerSentEventStream`: `queue` is the chain of `pendingWrite`, its first frame in
`write()`, perhaps waiting for "drain" (`stalled`); `awaited` tells how much of it
the handler waits for. A chunk is any number of complete lines; a line cut in the
middle stays on the wire until it is complete or the body ends. `Faults` lets the
service refuse, die between or within lines, or write lines that are not expected.

Left out: prompts, tools and payloads; the transactions around the answer.

### MediaBatch

`requests` holds what became of each request to Gemini. Images go out in batches of
`Concurrency` that are awaited by `Promise.allSettled`; a video is one request whose
operation is polled (`Sleep`, `Wake`, `Polled`) and downloaded into a temporary
directory. The signal of the worker and the provider's timeout abort at any moment
(`Stop`); the code looks at it only between batches and around the delay. A request
fails in one of two ways. It is rejected, with an error of which
`classifySingleProviderError` finds the type (`Rejection`). Or it is answered
without usable media ("withheld": no bytes, wrong bytes, no video, an operation that
is done with an error): the code then throws an `Error` of its own, without the code
or status of the answer, and that is of type unknown (`Reported`).
`FailureExplained` therefore speaks of rejected requests only. Whether the Gemini
SDK rejects with textual codes, which alone make a failure "blocked", is not decided
here; the classification is modelled for all errors it distinguishes. The completion
text is asked for at the same time and may fail alone (`Tell`, `Join`).

### RecentLogs

`entries`, `nextIndex`, `size` and `nextId` are the fields of `RecentLogStore`. A
line is what the early exits of `write` and the filters look at; lines are written
or dropped (`Write`, `Drop`), and a listing is one step (`List`), because neither
awaits anything. Redaction and the conversion of values are left out.

### CursorPaging

A row has a time and a random identifier. A write takes its time when it begins
and becomes visible when it commits (`Begin`, `Commit`): writes appear late, and
two of one row may commit in the opposite order. `NextPage` is the query (limit + 1
rows behind the cursor) with `createCursorPage`. The four lists differ in what
moves a row: projects are listed by `updated_at`, which every rename sets;
conversations by their newest message; messages and assets never move, and assets
are deleted. The times are milliseconds in the database and in the cursor,
`Stored` and `Encoded`.

One clock stamps all rows in the model. In the code `updated_at` of a project is
stamped by the server process and the others by PostgreSQL; in no list are both
compared.

Left out: other users and the ownership checks before a query, which look at
columns nobody changes.

## 3. Runs

| Run | Properties | Shows |
|---|---|---|
| `worker_safety` | `UniqueOwner`, `OneResult`, `ResultsReadable` | two workers, one row, every failure but a commit with a lost answer: one owner, one result, readable |
| `worker_queue` | `NoOrphanedFiles`, `ImplementsQueue` | two rows, one malformed, also commits with lost answers: no path of `process()` forgets a file; implements `GenerationQueue` |
| `worker_liveness` | `LeaseKept`, `EverySubmissionSettles` | leases hold under clock skew, every row is settled |
| `worker_lost_commit` | `ResultsReadable`, violated | a commit with a lost answer loses its files |
| `media_turn` | `EventOrder`, `EventsDurable`, `AnsweredOnce`, `NoStrandedRun`, `AlwaysExplained`, `NeverTakenBack`, `EveryTurnEnds`, `PollingSuffices` | a turn, two workers and a polling client, with two failures and a client that stalls or leaves: events follow their commit, one answer, responses to polls never contradict each other and suffice |
| `media_torn_poll` | `CompletedHasMessage`, violated | a response that is completed without its message |
| `assets_safety` | `AssetsIntact`, `DeletionsHonest`, `AttachmentsKept`, `FilesAccountedFor` | two requesters, two assets, two kinds of failure |
| `sessions` | `OneLiveRefresh`, `SessionNeverExtended`, `LogoutFinal` | racing refreshes never split a session, logouts hold, the clock runs past the end of the session |
| `agent_stream` | `OneEventWaits`, `QuietAfterEnd`, `ImplementsDelivery`, `HandlerEnds`, `TimeoutStopsAgent` | an answer of two parts with every failure of the agent and the connection: delivered in order, once, at the client's pace, and ended truthfully |
| `media_batch` | `KeepsSuccesses`, `NothingLeftBehind`, `FailureExplained`, `PollsBackOff`, `StopsAsking`, `AlwaysAnswered` | up to two batches of images, or a video: successes survive failures, what is reported of a failure is what a request was rejected with, nothing runs on, the worker gets an answer |
| `admin_logs` | `NewestMatching`, `ImplementsWindow` | the array wraps twice; filters hide nothing |
| `paging` | `NothingSkipped`, `NothingRepeated`, `NoEmptyPage`, `ScrollingEnds` | all four lists, three rows, up to six writes around the reader |

The type invariant of a component is proved (section 4) and therefore not part of
its run.

Bounds. Two workers are enough for every race over one row: an owner, and one that
takes over; three keys let both store while a result exists. `MaxTime` is more than
twice the lease, so that a row is claimed, lost, claimed again and the first worker
comes back late. Two failures combine any two kinds. In the timely run the clock
shifts, so its bound only has to exceed lease plus skew. Turns only meet in a crash,
which ends all of them, so one is enough; two deltas are one more than the shortest
repetition. Each race over an asset or a session is between two requests; two assets
let one deletion name a good and a bad one; two pairs are a session and its refresh,
or two sessions. In `Assets` and `Sessions`, `MaxFaults` bounds the kinds of failure
in a run, each of which may happen any number of times. `SessionTtl` is no multiple
of `Second`, so that rounding shows, and `MaxTime` lies beyond it. In `agent_stream`
two parts can be swapped or repeated, and two heartbeats stand before and behind a
frame. In `media_batch` four outputs are two batches of two, and five polls reach
the ceiling of the delay, after which they are alike (the assumption
`CeilingReached`, which TLC evaluates). Seven lines fill three slots more than
twice. In `paging` three rows and pages of one or two make up to three pages; a
millisecond has two ticks, so that different moments share a time. For safety the
theorems lift these bounds wherever section 4 has one.

Fairness. Workers: see `TimelyWorker`. `MediaTurn`: a handler that is not stalled
goes on (its steps are continuations of the event loop, its awaited calls have
timeouts), and a client polls until it may stop, which is what `docs/chat.md` asks
of it. `AgentStream`: handler, writer and timer of the server run; neither the
agent nor the client owes anything, and `HandlerEnds` says so in its premise.
`MediaBatch`: each request has a timeout, and so has the whole, which is why even a
video that is never done is answered. `CursorPaging`: the client goes on
scrolling; writers may do what they like.

Deadlock is checked in `worker_liveness` only; elsewhere the clock, the failures
or the requests run out, which is not a fault of the system.

### Where code and documents differ

Two runs show a violation:

1. A lost COMMIT answer makes the worker delete the files of a completed
   generation (`process-ai-generation.use-case.ts:169-187`).
2. A response may show a completed generation with no assistant message, where
   `docs/chat.md:259-263` tells clients to stop polling.

The models contain more disagreements, which their properties exempt by name:

- An error of `failChat` leaves the run processing although `docs/chat.md:351-352`
  promises that it is marked failed (`NoStrandedRun`, "internal").
- An asset deleted between the ownership count and the insertion of its link turns
  the documented 404 into a server error (`message.prisma-repository.ts:77`,
  `docs/chat.md:77-79`). An asset attached while a deletion is under way is not
  skipped (`docs/chat.md:295-297`): the deletion fails as a whole
  (`DeleteRestricted`).
- Two first logins of one person race for the unique `google_id`, and one fails
  with a server error (`login-with-google.use-case.ts:22`, `README.md:324-326`);
  the same happens to a new Google identity with the address of an older account,
  because `users.email` is unique too.
- A request verified before its session expired, but looked up afterwards, is
  served although the session was logged out, because `exists()` ignores expired
  keys (`token-revocation.prisma-store.ts:66`); `LogoutFinal` ends there.
- The generation timeout between two batches drops the images that succeeded
  (`gemini.provider.ts:273`), although `docs/chat.md:131-133` lets a generation
  succeed with at least one; a temporary directory that cannot be removed drops the
  video (`KeepsSuccesses`).
- An answer the reader rejects leaves the body of the agent's response neither
  read nor cancelled (`remote-ai-agent.client.ts:127`), although
  `reelingo-ai/rule.md:72-74` asks for cancellation; `TimeoutStopsAgent` covers the
  timeout only.
- The agent's timeout does not bound the handler: a write to a client that stays
  connected without reading is not interrupted, and heartbeats pile up behind it
  (`server-sent-event-stream.ts:132`; `HandlerEnds`, `EveryTurnEnds`).
- Two overlapping renames of a project may move it towards the end of the list, so
  that a scrolling client sees it twice (`NothingRepeated`).
- `MediaGenerationFailureType` has a type for what the provider blocked, with codes
  such as "image_safety", but a reason that comes in an answer is never read: `operation.error` is dropped
  (`gemini.provider.ts:342-344`), and an image without bytes is an `Error` without a
  code (`gemini.provider.ts:86-96`). Both are reported as unknown, and a blocked image
  beside one that was rejected for its rate as retryable (`FailureExplained`).
- A completion text is written for the number of outputs that was asked for, not
  the number that was made (`process-ai-generation.use-case.ts:121`).
- A crash between storing a file and committing its row leaves a file nothing
  collects, and `revoked_keys` only grows.

## 4. Proofs

All theorems hold for every value of the constants that satisfies the named
assumptions of the module, in particular for any number of workers, rows, requests,
turns, failures and lines, and any clock.

| Module | Theorems |
|---|---|
| `GenerationWorkerProofs` | `TypeCorrect`; `OneOwner`: `UniqueOwner`; `OneResultAlways`: `OneResult`; `ReadableResults`: `ResultsReadable` unless "commit" is among the failures; `NoOrphans`: `NoOrphanedFiles`; `WorkersImplementQueue`: `Spec => Queue!Spec`; `LeaseAlwaysKept`: `TimelySpec => []LeaseKept` of `TimelyWorker` |
| `MediaTurnProofs` | `MediaTypeCorrect`; `EventsInOrder`, `EventsStayTrue`, `OneAnswer`, `NoRunStranded`, `RunsExplained`: the invariants of `media_turn`; `NothingTakenBack`: `NeverTakenBack` |
| `AssetsProofs` | `AssetsTypeCorrect`, `AssetsStayIntact`, `DeletionsTrue`, `AttachmentsStay`, `FilesStayAccounted`: all invariants of `assets_safety` |
| `SessionsProofs` | `SessionsTypeCorrect`, `OneChain`, `FixedLifetimes`, `LogoutIsFinal`: all properties of `sessions` |
| `MediaBatchProofs` | `MediaBatchTypeCorrect`, `SuccessesKept`, `CallsEndClean`, `FailuresExplained`: all invariants of `media_batch`; `AbortedAsksNothing`: `StopsAsking`; `PollsGrowRarer`: `PollsBackOff` |
| `AgentStreamProofs` | `StreamTypeCorrect`; `StreamWaitsForClient`: `OneEventWaits`; `StreamEndsQuietly`: `QuietAfterEnd`; `StreamImplementsDelivery`: `Spec => Delivery!Spec` |
| `RecentLogsProofs` | `RecentLogsTypeCorrect`, `ConsecutiveAlways`; `ListingsAreNewest`: `NewestMatching`; `RecentLogsImplementWindow`: `Spec => Window!Spec` |
| `CursorPagingProofs` | `PagingTypeCorrect`, `PagingSkipsNothing`, `PagingRepeatsNothing`, `PagingAnnouncesRows`: all invariants of `paging` |

### GenerationWorker

The assumption that matters is `Skew <= Lease`: versions are clock readings, and two
claims of one row differ because a reclaim needs a version older than the lease.

`UniqueOwner` is not inductive. `ClaimInv` strengthens it: no version is in the
future of the clock or of the row (`Versions`), and two workers engaged with the
same row hold different versions (`Distinct`). A claim writes `now` over a version
that is strictly older; a renewal writes `now` over the worker's own. `CalmStep`
factors out the many steps that touch neither rows nor versions.

`OneResult` needs that only the step that completes a row writes its message,
which is guarded by `Matches`, that is by status "processing". For
`ResultsReadable` and `NoOrphanedFiles` the invariant adds the ownership of keys:
the keys of two attempts are disjoint, an attempt's keys belong to no message,
and every stored file is accounted for. A lost commit breaks exactly the second
part, hence the hypothesis of `ReadableResults`.

For the refinement, `ClaimInv` makes the owner that the mapping chooses unique
(`TheOwner`), so that the owner after a step follows from what each worker owns
then (`NextOwner`). `QueueStep` goes through the actions: taking a row is `Take`, or
`Strand` or `Release` when the answer is lost; whatever makes a worker give up or
lose its claim is `Release`; the guarded updates are `Complete` and `Fail`, whose
worker still trusts its claim (`Trusting`); all else stutters.

### TimelyWorker

The last part of `GenerationWorkerProofs`, and the only one that cites the
assumptions about delays. `Distinct` fails here: once the clock stands at its bound, `Age` lets the versions of
dead claims run together. `LeaseKept` is proved with the weaker `Ahead` instead: a
worker that relies on its claim has the newest version of it. Its row is then
matched by nobody else (`OnlyKeeper`) and is too young to be stale on any clock
(`NobodyKeeps`, where `RenewEvery <= Lease - Skew` is needed), and time passes only
while all such workers have renewed recently (`Renewed`), so `Age` never touches the
bottom of a version that matters.

### MediaTurn

`MediaInv` has five parts per turn. `Answer` says which event was written last at
every step of the handler; it ties only an open stream to the step, since a client
that left has an arbitrary prefix. `Progress` says what the database holds then, if
no transaction failed. `Queued` ties the queue to the committed outcome. `Read` and
`Told` compare a poll under way and the last response with the database: both are at
most as far along, in the order of statuses (`Rank`), and the response never
exceeds what the poll under way has already read. Database steps only move forward
(`DatabaseStep`), which preserves all of these comparisons.

### Assets and Sessions

`AssetsInv`: a request removes files only after their rows, and those of an answered
deletion are gone (`Deleting`); the assets of uploads under way overlap neither one
another nor what is being or has been deleted, because identifiers are fresh
(`Exclusive`); the rows a transaction has linked stay until it commits, because of
the lock of the foreign key (`Attaching`). `Tidy` adds what `FilesAccountedFor`
needs.

`OneLiveRefresh` is inductive together with the types and with `Rooted` (a session
is named by a pair of it): consuming a token moves the session from "a token is
unused" to "a refresh is under way", issuing the next pair moves it back, and all
other steps are `Quiet`. `FixedLifetimes` rests on rounding being monotone and
idempotent. `LogoutIsFinal` uses `LogoutInv`: a key with the end of the session as
its expiry is in the table until then, whichever token the logout came with,
because all pairs have the same end.

### AgentStream

`OneEventWaits` is a part of `Chain`. `StreamInv` adds four parts to the types.
`Chain`: the handler waits for the only frame of the chain that is no heartbeat,
since each of its publishes awaits the one before; heartbeats may pile up on both
sides of it. `Respond` ties agent and reader to the handler: before the agent
accepts there is no answer, and while it answers it has not said all of it.
`Ending`: the terminal event is the one that the verdict calls for, it is the last
one written, and the socket ends only with an empty chain. `NoneLost` carries the
refinement: as long as the client is there, each part the agent has said is written,
or is the one on its way through the chain, or is on the lines not yet consumed, in
order and once (`Carries`).

The mapping reads the delivered parts off the frames written (`PartsOf`), the
terminal event too (`Closing`), and whether the answer is whole off the lines
(`Whole`). `Say` and `Finish` move the agent of `AnswerDelivery`, the end of the
response its server, `Write` its client and the loss of the connection or the end of
the response its leaving (`DeliveryAgent`, `DeliveryOver`, `DeliveryWrite`,
`DeliveryLeave`); all other steps leave what it sees as it was (`DeliveryHidden`). A
written part is the next one by `NoneLost`; and an answer is accepted only when no
line is left and nothing is on its way, where `Carries` says that all its parts are
written, hence before its terminal event.

### MediaBatch, RecentLogs, CursorPaging

`MInv` says which requests may be under way in which phase, when the directory
exists, and what was promised at the end; `StopsAsking` is proved of the single
steps, most of which start nothing (`NothingStarted`).

`PollsBackOff` compares two delays that are each rounded, capped and jittered by a
tenth either way. Before the ceiling a delay grows by half, which outweighs the
jitter of both (`DelayGrows`: nine tenths of three halves exceed eleven tenths);
from the ceiling on, one may fall below the other by the jitter alone
(`DelayAtCeiling`). `Math.round` adds half a millisecond to that, which is why the
property allows for it: without the term `+ 5` it is false, for example, for an
interval of 2 and a ceiling of 6.

`StoreInv` says that the entry written k writes ago is in slot `IndexBack(k)` with
the number it must have; the lemmas about remainders show that one write shifts all
of them by one. `NewestMatching` is about a listing, which is a loop over the
entries: `Collected` is the invariant of that loop (it has taken the first matches,
as many as the limit lets it, and all of them if fewer), and `CollectValue` its
value at the end; `Filled` says that the loop sees every stored entry.

`PagingInv` splits the rows in two: those that stayed in place are shown or behind
the cursor (`StillToCome`), and no shown row is behind it unless it moved there
(`NotAgain`). Both need the cursor to be the exact position of the last row, hence
times in whole milliseconds (`Exact`).

### Recursive functions

`Collect`, `Power` and `PartsOf` are recursive functions. The library's rules for
induction and for such definitions take an operator, which the provers cannot
instantiate. The proofs use sets and functions instead: `SetInduction` (a set that
holds 0 and, with n, n + 1 holds all numbers) follows from the well-foundedness of
`Nat`, and with it a function with the defining equations is shown to exist before
it is unfolded (`CollectFunction`, `PowerFunction`, `PartsFunction`).

### Only model-checked

Liveness, which is beyond the prover: `EverySubmissionSettles`, `EveryTurnEnds`,
`PollingSuffices`, `HandlerEnds`, `TimeoutStopsAgent`, `AlwaysAnswered`,
`ScrollingEnds`. `EverySubmissionSettles` is checked with rows that parse; of a row
that does not, `worker_queue` shows that a failing `failClaim` only returns it to the
queue. All other properties of the passing runs are theorems as well,
`ResultsReadable` under the hypothesis that its run satisfies too: no lost commits.

## 5. Not modelled

- Language negotiation: a stateless choice among weighted languages.
- Server lifecycle: wiring and shutdown. For a worker shutdown is `Stop`; a chat
  turn that outlives the ten seconds is ended as by `Crash`.
- Configuration: the numeric relations it enforces or suggests are assumptions of
  `GenerationWorker` and `TimelyWorker`.
- HTTP presentation, DTOs, OpenAPI text, error formatting: stateless conversions.
- Database schema: its unique keys and foreign keys are in the actions that meet
  them.
- Branches that cannot be reached as the parts are wired: a text provider that is not
  registered (`AiService.generateText`), more outputs than a message may have assets
  (`process-ai-generation.use-case.ts:127`; a provider returns at most the number it
  was asked for), a turn without its message
  (`generate-assistant-response.use-case.ts:112`), and an observer that throws
  (`message.controller.ts:61-67`; a closed stream drops frames without an error).
- `SKIP LOCKED`, because a claim is one step, and the `updatedAt` that completing a
  row stamps, because nothing reads it of a settled row.
- Profiles: single statements with an ownership condition. Projects and
  conversations are modelled as far as their lists show them.

## 6. Plan

The plan of the project has been carried out but for two items: language
negotiation and the shutdown sequence, which have little behaviour of their own.
What would add most beyond it is a shared database clock for `ChatTurn` once
`claimChat` gets a second caller: its answers BUSY and COMPLETED and the reclaiming of
stale runs do not occur today.
