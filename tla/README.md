# Formal models of the OpenWOP SDKs

TLA+ models, TLC runs and TLAPS proofs for the OpenWOP client SDKs
(TypeScript, Python and Go, the 1.x and the v2-only 2.x generation). They are
kept next to the code: a module is changed when the code it models is, and
`PROJECT.json` names, for every definition, the source lines it stands for.

```
tlc -workers 2 -config SseSafety.cfg MCSseResume     # runs
tlc -workers 2 -config Program.cfg MCProgram
tlapm SseResume_proofs.tla                           # the proofs of a module
```

## 1. The system

The SDKs are libraries. A program embeds one, and the SDK talks HTTP to an
OpenWOP host. The stream readers keep state across connections. The REST clients
keep none, but the programs they are made for do: a program repeats a call whose
answer was lost, and feeds the answer of one poll into the next, so what a call
must guarantee is a statement about several calls, the network and the host. In
the other direction a host delivers webhooks to a program, which judges them with
the receiver helpers. Gates and a publishing workflow decide what users install.

| Component | State it keeps | Operations | Interacts with |
|---|---|---|---|
| SSE readers, 2.x (`sse.ts`, `sse.py`, `go/v2/sse.go`) | resume cursor, highest sequence yielded, attempts failed in a row, the delay the host asked for; per connection: age, frames seen, pending id/event/data | subscribe to a run's events, subscribe to host events, abort | host and network below; the consumer's loop or channel above |
| Reasoning subscription (`event-helpers.ts`) | the `stopped` flag, an abort controller | subscribe with callbacks, unsubscribe | the TypeScript run-event reader; the consumer's callbacks, which may throw or unsubscribe |
| SSE readers, 1.x | pending id/event/data of one connection | subscribe, abort | host |
| REST clients, 2.x and 1.x (`client.*`) | configuration only; the program keeps the idempotency key of a call and the position of a poll loop | the operations of `path-manifest.json` (2.x), the 1.x paths | host and network; a program that repeats calls |
| Webhook receiver helpers | none; the program keeps the secret | read headers of a family, verify, sign | a host that delivers and redelivers; two clocks; `webhooks.register` |
| Wire form of ids | none | project, unproject | every path the clients build |
| Registry helpers (1.x) | none | fetch node and pack manifests | registry |
| Run helpers, event guards, parse-refusal, cost, envelope directives | none | predicates and reshaping | callers |
| Generated registries and generators | tables | generate, `--check` | vendored corpus |
| Gates and publishing (`scripts/`, `.github/workflows/`) | the registries' published versions and dist-tags | check, publish on a tag | npm, PyPI |

### What is hard here, and what makes each part correct

* **SSE readers.** A subscription outlives its connections. Host, proxy or
  network may end a connection at any byte; the reader must decide whether the
  run is over, whether to reconnect and from where, and when to give up; the
  consumer may abort at any point. Correct means: events in order, none twice,
  none lost; a reconnect that asks for exactly what is missing; a clean end only
  at the terminal event; an error only after the allowed attempts; and an end
  at all.
* **Reasoning subscription.** A detached task and a consumer that can
  unsubscribe from anywhere. Correct means: no event skipped because a callback
  failed, silence after the unsubscribe, the connection given up.
* **REST clients.** A repeated mutation must not happen twice, a refusal must be
  the truth about every try, and what a proxy answers must not be taken for the
  host's word. A poll loop must hand over every event once and stop at the end.
* **Webhook receiver.** Steps of the verification in the right order, a window
  between two clocks, one header family per delivery, a secret that may arrive
  after the first delivery. Correct means: nothing stale or altered is accepted,
  everything timely and whole is.
* **Event guards.** Two protocol majors with different names for one event, two
  packages with copies of one guard.
* **Wire ids.** One path segment, and what a link carries (projected or
  percent-encoded) read back as the id it stands for.
* **Publishing.** Tags of two majors on any commits, their jobs interleaved and each
  of them liable to break, gates that see different parts of a commit, dist-tags that
  must not move back.

`PROJECT.json` lists each of these hazards at the line where it bites.

## 2. Modules

| Module | Models |
|---|---|
| `EventDelivery` | abstract: what following a run promises, by stream or by polling |
| `SseResume`, `MCSseResume` | the three 2.x readers, the host and the network; scenario sets |
| `SseResume_proofs`, `SseDelivery_proofs` | theorems: order, completeness and resumption; how a subscription ends, and that it implements `EventDelivery` |
| `ReasoningSubscription`, `ReasoningSubscription_proofs` | `subscribeToAgentReasoning` above `EventDelivery` and a server that may close early; theorems |
| `TypedEvents` | the 19 event guards, the protocol's schemas of the payloads they look at, the 2.x list of event types, what was renamed between the majors |
| `ReasoningOfRun` | the reasoning helper over the log of a host of either major, through the guards |
| `RestOperations` | every operation of both TypeScript clients as a shape |
| `RestClient`, `RestClient_proofs` | the request pipeline, a program that repeats calls, the network, a host with idempotency keys; theorems |
| `RunStatus` | statuses of a run and `isTerminalRunStatus` |
| `PollSession` | the poll loop and the host's event log; it implements `EventDelivery` |
| `WireId`, `WireId_proofs` | `projectId` and `unprojectId`; theorems |
| `ParseRefusal` | `parseRefusal` and its vendor parsers |
| `Program`, `MCProgram`, `Program_proofs` | a program that makes a call and follows the run it started: `RestClient` and `PollSession` composed; `MCProgram` adds the pure helpers; theorems about polling and about both |
| `WebhookReceiver`, `WebhookReceiver_proofs` | receiver, host, network, two clocks, changing secret; theorems |
| `Gates` | the verdicts of `scripts/` as predicates of a commit |
| `Release`, `Release_proofs` | commits, tags, the jobs of `publish.yml`, npm and PyPI; theorems |

```
   ReasoningOfRun --- TypedEvents           Program
         |                                 /       \
 ReasoningSubscription            RestClient       PollSession       WebhookReceiver
         |                             |            /     \
   EventDelivery  <-- implemented -----|-----------+   RunStatus     Release
         |            by               |                                |
     SseResume                   RestOperations                       Gates
```

`SseResume` and `PollSession` implement `EventDelivery`, and
`ReasoningSubscription` is built on `EventDelivery` instead of on the reader: the
stack is verified in two halves that meet in one small specification. `handed`
counts what the consumer was given, so that a repetition is a step of its own. The
specification has one, `Repeat`, and at most once: a reader that was told where to
resume has seen no sequence yet, so if its host sends the event at that position
again (`again`), in front of all others, the duplicate guard lets it pass. Polling
has no such host: there `again` is FALSE.

### SseResume and the code

The three readers are one algorithm, so there is one module. The record `scn`,
fixed by `Init`, says which SDK runs, on which channel (`updates`: run events,
`values`: snapshots, `host`: host events), with or without reconnect, from which
`lastEventId`, and what host and network may do. `scn.sdk` selects the operator
where the SDKs differ: `TsFinalFlush`/`PyFinalFlush`/`GoFinalFlush`,
`TornTails` (Python and Go read an unterminated last line, TypeScript drops it),
`Decodes` (Python and Go have no snapshot decoder), `AbortNoticed`, `StopsHere`,
`SendCancelled` (Go sends on a channel and selects on the context).

| State | TypeScript | Python | Go |
|---|---|---|---|
| `cursor`, `maxSequence`, `failures`, `established` | the same names | `cursor`, `max_sequence`, ... | the same names; `established` once `streamSSE` has returned |
| `framesSeen` | `frames > 0` | `frames > 0` | `frames > 0` |
| `failure` | `failure` | `failure` | `failure`, `readErr` |
| `old` | `lived >=` 15 s, on the host channel 1 s, from before the `fetch` | the same | from when the answer is there |
| `pendingId`, `pendingData` | `pendingId`, `pendingData.length > 0` | `pending_id`, ... | `pendingID`, ... |
| `outNext .. outEnd`, `terminal` | the documents `flush` returned and `yield` has not handed out | the loop over `_flush_event` | the loop over `sendOne` |
| `stopped` | `signal.aborted`, or the consumer left its loop | the consumer closed the generator | `ctx.Err() != nil` |
| `pc` | where the generator is | | where the goroutine is |

Control flow, in the order the code runs it: `StartConnect` (top of the loop),
`ConnectOk` / `ConnectError` / `ConnectAborted`, `ReadId` / `ReadData` /
`ReadBlank` (the lines of a frame in any order, and the blank line that flushes
it), `Yield` / `SendCancelled` / `Delivered`, `BodyEnds` (clean, with the final
flush) or `BodyBreaks` (read error or abort), `Decide` (end, count, give up) and
`Wait`. `Yield` is one step per document, so that an abort, or a consumer that
leaves, can come between two documents of a batch. In Go "yielded" means sent on
the buffered channel.

Events are numbers 0..`Last`, the last one terminal. A frame is its id, the
range of documents in it and whether it is an `event: batch`. JSON that does not
parse appears only where it arises, as the torn last line of a body: torn data is
data that is not there, a torn id is a smaller number or empty.

`HostLogs`, `HostSends`, `HostSendsEphemeral`, the answer inside `ConnectOk` and
the conditions of `BodyEnds` are the host and the network as the readers expect
them (events.md as quoted in the sources): events are numbered without gaps; a
host resumes behind the cursor, or (`resends`) repeats the event at the cursor;
it does not close an opted-in stream without a frame before the floor unless the
run is over, but a proxy may (`quick`); `cuts` says which kinds of end may fall
inside a frame. Every adverse move counts against `MaxFaults`.

`FloorPasses` is the clock. It runs while a connection is read, and in TypeScript
and Python also while it is being made (`ClockRuns`): they take `openedAt` before the
`fetch`, whereas Go's inner loop takes the time again once it has the response
(`sse.go:418`). That a host answers later than the floor is an adverse move like any
other, except in scenarios that are `slow`, where it may happen to every connect.

### ReasoningSubscription and the code

One action per step of the async function: what `for await` receives
(`StreamYields`, `StreamEnds`, `StreamAborts`, `StreamFails`), the `stopped` test
and the choice of callback (`Dispatch`), a callback that settles well or badly,
the inner catch (`ReportReturns`, `ReportThrows`), the announcement of the end and
the outer catch. Callbacks are the consumer's code: while `pc` is `handler`,
`report`, `end` or `last` one of them runs, and `Unsubscribe` may come from inside
it. `callback` assigns each event to the callback its type guard selects.

The stream is `EventDelivery`'s with one step more. The reader below ends without an
error in front of the terminal event when reconnection is off, or when a young and
silent connection is closed (finding 3), and `onEnd` is documented for both ("server
closed or run reached terminal status"): `ServerCloses`, after which `status` is
`closed`.

### ReasoningOfRun, TypedEvents and the code

A payload is the record of its fields' kinds, a guard the fields it tests and
their kinds, with the event types it answers for. `PayloadSchemas` is what the
protocol's schema requires of each payload (`src/schemas/v2/run-event-payloads.schema.json`), not
what the packages declare: `AgentReasoningDeltaPayload` has `sequence: number`
(`types.ts:947`), which is wider than the schema's integers from 0 and than what the
guard accepts. `ReasoningOfRun` chooses the log
of a host of major `Major`: `TypeOn` gives an event the name `event-codemap.json`
has for it. `callback`, free in `ReasoningSubscription`, becomes what `CallbackOf`
(the if-chain of the loop) makes of each event.

### RestOperations, RestClient and the code

`RestOperations` has one table per namespace of either client, one entry per
method, and an entry is a *shape*: does the method change state on the host
(`writes`), does it take `MutationOptions` (`offers`) and turn them into headers
(`sends`), which statuses does it catch and turn into `null` or `false`
(`absent`, `missing`), and what does it do with the body of a success (`answer`).
Both `#request` implementations take the same steps, so `RestClient` is one module
over all the shapes.

| Action | Code |
|---|---|
| `Send` | `#mutationHeaders`, `#request` up to `fetch`; the program calls again when it got no clear answer |
| `Receive` | `#request` from `res.text()` on, and the method's `catch`: `Outcome` is `Success` or `Failure` |
| `ConnectionBreaks` | `fetch` or `res.text()` rejects; the request may still reach the host, at any later time |
| `ProxyAnswers` | something on the way answers with a page (502, 404, 501, or a portal's 200), or 200 with nothing |
| `HostReplays`, `HostIsBusy`, `HostRejectsDuplicate`, `HostStarts`, `HostSucceeds`, `HostRefuses` | the host, external: `Idempotency-Key` and `OpenWOP-Dedup` as the clients' comments describe them |
| `ClaimLapses` | a run is over, or its claim on the scope has become stale (`errors.json`, `run_already_active`): from then on dedup does not hold back another |

A result is `value`, `undefined`, `null`, `true`, `false`, or one of the
exceptions: `refused` (an envelope), `busy` (409 in flight), `opaque` (no
envelope), `garbled` (no JSON in a 2xx), `typeError` (a field read of `undefined`),
`network`.

### PollSession, RunStatus, Program and the code

`PollSession` is the loop the comment of `runs.pollEvents` describes: `Poll` puts
the position into the query (`QueryParameter`: only `undefined` is left out),
`HostAnswers` returns everything behind it with the log's highest sequence,
`ReceivePage` takes the next position from the answer (2.x: `lastSequence`; 1.x: the
last event received), `Handle` and `Finish` are the program. The module's
specification is called `PollSpec`, so that `Program` can extend it beside
`RestClient`. `gen` is the client's
generation, `judge` whether the program looks at the answer's flag or gives the
status to `isTerminalRunStatus`. `PollBreaks` loses a poll or its answer.
`engine` says that the host shows an unfinished run under its engine's own names
(`EngineStatuses`: `planned` and `executing`, which `run-helpers.ts:24-25` lists).
`isTerminalRunStatus` is true of them, so what polling promises is said of programs
that go by the flag and of hosts that use the protocol's names only (`Promised`);
`PollByStatus.cfg` shows what happens otherwise.

`Program` joins the two: the host logs events from when it has carried out
`runs.create`, perhaps long before the program learns of it, and the program
polls once it has the document.

### WireId, ParseRefusal and the code

Both are functions. `WireId` works on bytes, by a recursive function on the segment, with
`HEX_PAIR`, `PASSTHROUGH` and the decoder's refusal of malformed UTF-8.
`ParseRefusal` keeps the fields the vendor parsers read and their order, and one
they do not read: the header of `parse-refusal.ts` counts `end_turn` with safety
markers in the content among the signals, no parser looks for it, and the responses
that carry no other signal (`Unseen`) are excluded by name from what is checked.

### WebhookReceiver and the code

`readWebhookHeaders` and `verifyWebhookSignature` are operators with the code's
order of steps; `Receive` is the program's handler around them. `receiver` is the
package (`1.x`: three header families, no algorithm check; `2.x`, with Python
alike: two; `go`: two, and a window of zero is the default), `option` the
program's freshness window, `host` what the host signs with, up to a scheme yet
to come. Time is the age of a delivery. `Register` and `Registered` are
`webhooks.register` and its answer; between them the host may deliver already.
`NetworkFails` loses a delivery or alters it: a header dropped, the body parsed
and printed again, the timestamp replaced. What is signed is the body as text and
the timestamp as a number, so "unaltered" means the same text and number: a second
spelling of either is not told apart.

### Gates, Release and the code

A commit is what the gates look at (see the head of `Gates`). Commit actions are
what maintainers do, one thing each, so that any step can be forgotten: `Revendor`
takes any of the vendored files over and leaves the others (`vendored-sync.yml` looks
at pull requests only, and `publish.yml` does not repeat it), `Misname` points an
entry of the expectations file's `symbols` at another method, which the parity check
believes. `PushTag` is `on.push.tags` with `resolve`, on any commit;
`Preflight`, `NpmView`, `NpmPublish` and `PyPublish` are the jobs, where
`npm view` and `npm publish` are two steps. A job can go wrong at any step
(`Breaks`, and `Uploads` after the registry has the package), and nothing repeats it.
Of Go, the tag is the release: its job publishes nothing, and no other waits for it.

## 3. Runs

| Run | Shows |
|---|---|
| `SseSafety.cfg` | all SDKs, channels and misbehaviours: `NeverReyields`, `NoEventLost`, `ResumesExactly`, `EndsAtTerminal`, `GivesUpLate` |
| `SseDelivery.cfg` | `KeepsDeliveryPromise`: the reader implements `EventDelivery`, from any start, with hosts that do or do not re-send it; `Completes`: a run subscription ends; `Cancels`: an aborted one ends on any channel |
| `SseTornFrame.cfg` | violated: `YieldsEachEvent` |
| `SsePyFinalFlush.cfg` | violated: `NeverReyieldsAnEvent` |
| `SseQuietClose.cfg` | violated: `ResumesUntilTerminal` |
| `SseSlowResume.cfg` | violated: `EndsFinishedRun` |
| `Reasoning.cfg` | `NothingSkipped`, `QuietAfterStop`, `StopReleases` |
| `Reasoning2Names.cfg` | violated: `DispatchesReasoning` |
| `Program.cfg` | every operation of both clients: `AtMostOnce`, `OneRun`, `RefusalIsFinal`, `ValueIsReal`; the run followed: `FollowsItsRun`, `PollKeepsPromise` (implements `EventDelivery`), `RunIsFollowed`; the helpers' laws: `RunIdSurvives`, `RunLinkSurvives`, `EventsAreRecognised`, `RunRefusalIsFound`, `RunCategoryIsWorst` |
| `PollByStatus.cfg` | violated: `CompletesWithRun` |
| `Webhook.cfg` | `AcceptedIsFresh`, `TimelyIsAccepted`, `EventArrives` |
| `Release.cfg` | `PublishedIsWhole`, `LatestIsFinal`, `GoodTagIsReleased` |

**Where the code departs from its documentation.** The six violated runs state
a sentence of the documentation without the conditions the passing properties
carry:

1. A body that ends cleanly between a frame's id line and its data lines (a proxy
   that cuts a chunked response properly) makes all three readers move the
   cursor over an event they never yield. Go does so after read errors too.
2. The Python reader's final flush has no duplicate guard: with a host that
   repeats the event at the cursor, an event is yielded twice.
3. A stream closed silently within 15 s ends the iterator without an error, also
   on the first connection, although only a terminal run is meant.
4. The converse, for TypeScript and Python: the time a connect takes counts toward
   the 15 s, so a finished run whose host answers each resume later than that closes
   as an old stream, which is no failure, and is resumed for ever. Go ends.
5. The 2.x reasoning helper asks for `agent.reasoning.delta`, the 1.x name; a 2.x
   host sends `agent.reasoning-delta`, which the package's own
   `KNOWN_RUN_EVENT_TYPES` lists, and `onDelta` is never called.
6. `isTerminalRunStatus` is true of `planned` and `executing`: a program that polls
   until it is stops early and misses the rest of the run.

The safety run therefore states its properties under `LosslessEnds` and
`NoRepetition`, which exclude exactly the scenarios of findings 1 and 2, and
`EndsAtTerminal` under `~quick`, which excludes 3; `Completes` leaves out `slow`
scenarios for 4. All of these scenarios are still in the state space of the run for
its other properties, with those of 4 in the safety run. That the conditions are the
right ones is proved for all findings but 4 (section 4).

What the models made explicit without being a contradiction:

* `AtMostOnce` is said of operations that pass the key on, and 1.x
  `userAgents.create` takes a key that never becomes a header (`UserAgents1`).
* Without a key, a retried `delete` that returns `false` says nothing about the try
  before it. With one, a refusal does, but `null` and `false` do not: the client makes
  them of the status alone, so a gateway's own 404 page reads like an absent document.
* `dedup` is no key: once the first run is over, or its claim stale, a retry without
  a key starts a second run (`OneRun` counts the runs that hold the scope).
* A callback that fails "doesn't tear down the stream", but `onError` itself is not
  protected: if it throws, the stream ends (`BadHandlerKeepsStream`, `HandlersKeepStream`).
* `sequence: number` is wider than what the delta's guard accepts (`TypedEvents`).
* `end_turn` with safety markers is listed as a refusal and not detected (`Unseen`).
* In TypeScript the parity gate takes a method for present when any namespace has one
  of that name, and in every language it trusts the hand-written `symbols` map
  (`HasMethods`); that the vendored files are those of the pinned release is asked on
  pull requests and not when publishing, so `PublishedIsWhole` speaks of the files in the commit.

**Bounds.** *Readers.* Three events and frames of up to two of them give a batch
followed by a single event, a duplicate in the first half of a batch, and a
terminal event alone and inside a batch. One allowed attempt (`MaxAttempts = 1`)
makes "one failure", "two in a row" and "one, a frame, one" distinct with three
adverse moves (`MaxFaults = 3`), enough for a drop, a failed reconnect and a
re-sent event in one behaviour. The run on slow resumes uses two. The reasoning run has
three events, every assignment of callbacks to events, every choice of callbacks
passed and every starting position; `Reasoning2Names.cfg` takes `Major = 2`.

*Program.* All shapes of both clients; one call, because calls share nothing (the
proofs are for any set of them); three tries and three faults, so that the first
request can arrive after the third; three events, one broken poll; ids of up to
five characters of seven kinds (a letter, two hex digits, `/`, `~`, `%`, one of two
bytes) with a slash among them, so that an id can hold a complete escape and something beside it.

*Webhook.* A window of one second, clocks up to two apart, so that a delivery can
be too old, too new and just inside on both sides; delays of one more than is
normal; two registrations for a secret that changes under a delivery; two faults.

*Release.* A history of a pre-release and what followed it: the final version on the
same or the next corpus release, or a commit that has taken the vendored files of the
next one over and no more, which is one step from breaking, keeping or mending every gate.
From there two events (`MaxEvents = 2`): a commit and a tag, or two tags of any form
and version on any of the commits, whose jobs interleave and break. Two corpus
releases, a 1.x version, a 2.x one and its pre-release. The proofs are for any number of events.

**Deadlock** is not checked: a subscription ends, a quiet host channel may stay
silent for ever, a finished task does nothing more, a program that has its answer
is done, and so is a workflow when its jobs are.

**Fairness.** `SseResume!LiveSpec` assumes that the reader itself runs on
(`Client`: a generator being pulled, a goroutine with a consumer), that the host
logs its next event, answers a connect, sends what it has logged and closes the
stream of a run that is over, and that a signal makes a pending fetch or read
fail, which is the contract of `fetch` and of `http.Request` contexts. Adverse
moves are bounded, so "the network behaves in the end" is part of the model and
needs no fairness. A connect that takes longer than the floor is one of them;
in `slow` scenarios it is not bounded, and `Completes` does not speak of those.
Nothing is assumed of the consumer's abort.
The reasoning helper needs its callbacks to settle and an aborted stream to
return, which `Cancels` shows of the reader.
`Program` assumes that the host runs what it started and answers polls, and that
the program goes on polling and handling; nothing is assumed of the REST call: a
program need not get its run. `WebhookReceiver` assumes that the host delivers
until it is acknowledged (a real host may give up after many attempts and keep the
delivery as a dead letter, `client.ts:790`, where the program can still fetch its
record; `MaxFaults` losses are taken to be fewer than that), that `webhooks.register` is answered and that a delivery
on its way arrives unless a (bounded) fault takes it. `Release` assumes that each job
that can start is run, to its end or until it breaks, and nothing of the maintainers.

**Mutants.** Every property of a passing run has a mutated definition in the
model (a guard left out, a counter off by one, a cursor that moves early, a
header sent on the first try only, a parameter tested for truth instead of
presence, a page believed for its status, a dist-tag without its major) that makes TLC find it violated.

## 4. Proofs

For every value of the constants, under the named assumptions of the modules
(`SseAssumption`, `RestAssumption`, `RunAssumption`, `ProgramAssumption`,
`WireAssumption`, `WebhookAssumption`: natural numbers, scenarios or operations of the right shape):

| Theorem | Says |
|---|---|
| `SseResume_proofs`: `TypeCorrect` | `Spec => []TypeOK` |
| `OrderedDelivery` | `Spec => []NeverReyields` |
| `LosslessDelivery` | `Spec => []NoEventLost` |
| `ExactResumption` | `Spec => []ResumesExactly` |
| `SseDelivery_proofs`: `LateGivingUp` | `Spec => []GivesUpLate` |
| `EndingAtTerminal` | `Spec => []EndsAtTerminal` |
| `DeliveryIsKept` | `Spec /\ Promised => KeepsDeliveryPromise`, a refinement |
| `NoEventIsSkipped` | `Spec => [](LosslessEnds => YieldsEachEvent)` |
| `NoEventIsReyielded` | `Spec => [](NoRepetition => NeverReyieldsAnEvent)` |
| `CleanEndIsTerminal` | `Spec => [](Decodes /\ LosslessEnds /\ ~scn.quick => ResumesUntilTerminal)` |
| `ReasoningSubscription_proofs`: `CallsOnlyGiven`, `HandsOverAll`, `StaysQuiet` | the three safety properties of the reasoning helper |
| `HandlersKeepStream` | `Spec => []("onError" \notin given => BadHandlerKeepsStream)` |
| `FirstMajorIsDispatched` | `Major = 1 => (RunSpec => []DispatchesReasoning)` |
| `RestClient_proofs`: `TypeCorrect` | `Spec => []TypeOK` |
| `KeyedOnce`, `DedupedOnce` | `Spec => []AtMostOnce`, `Spec => []OneRun` |
| `RefusalsAreFinal`, `ValuesAreReal` | `Spec => []RefusalIsFinal`, `Spec => []ValueIsReal` |
| `Program_proofs`: `PollTypesHold` | `PollSpec => []PollTypeOK` |
| `PollingDelivers` | `PollSpec => PollKeepsPromise`, a refinement |
| `RunDelivers`, `CallsStaySafe` | polling's promise and the safety of the calls, for the composition |
| `TheRunIsFollowed` | `ProgramSpec => []FollowsItsRun` |
| `RunIdsSurvive`, `RunLinksSurvive` | `ProgramSpec => []RunIdSurvives`, `ProgramSpec => []RunLinkSurvives` |
| `TypedEventsAreRecognised` | `ProgramSpec => []EventsAreRecognised` |
| `RefusalsAreFound` | `ProgramSpec => []RunRefusalIsFound` |
| `WorstOfAnyList`, `WorstIsReported` | the pick from any list of ratings; `ProgramSpec => []RunCategoryIsWorst` |
| `WireId_proofs`: `AnyIdSurvives` | the two laws of wire ids, for every tenant-bound id |
| `WebhookReceiver_proofs`: `TypeCorrect` | `Spec => []TypeOK` |
| `AcceptedAreFresh`, `TimelyAreAccepted` | `Spec => []AcceptedIsFresh`, `Spec => []TimelyIsAccepted` |
| `Release_proofs`: `LatestStaysFinal`, `WholePackagesOnly` | `Spec => []LatestIsFinal`, `Spec => []PublishedIsWhole` |

`Release` needs no assumption: its bounds only guard actions.

### The readers

None of the reader's properties is inductive. `IInv` adds, in five parts:

* `OrderInv`, the duplicate guard's invariant on run streams: everything yielded
  is at or below `maxSequence`, everything still to be yielded lies above what
  was and at or below `maxSequence`. It carries order without any assumption on
  the host.
* `WireInv`, what the parser holds of a frame whose lines it has read, and that
  nothing waits to be yielded outside `deliver`.
* `PlaceInv`, the position: while a connection is read the host stands at the
  cursor, or one behind when it re-sends, and the frame on the wire starts no
  later than behind the cursor. So a flush moves the cursor over exactly the
  events it hands out.
* `CoverInv`, the cursor's promise: all up to it has been yielded or is queued.
* `RisingInv`, order on the channels without sequences, where it rests on the
  position alone.

`Cancelled` is the one state in which the position means nothing: a cancelled Go
reader flushes what it has of a frame and then stops (`CancelledForGood`). Each
part has a lemma that every step preserves it, with one case per action; the
flush, which five actions share, has lemmas of its own (`FlushTypes`,
`OrderFlush`, `FrameMoves`, `LosslessEnd`).

`SseDelivery_proofs` builds on that invariant, one addition per theorem; TLC checked
each addition on the scenarios of the runs before it was proved.

* `AttemptInv` relates the counter of the code, `failures`, to `barren`, what it is
  meant to count: the attempts in a row that failed and brought no frame. The two
  differ. `failures` lags behind by the attempt `Decide` has not judged yet, and may
  run ahead while a frame has been seen, because only `Decide` resets it.
  `GivesUpLate` speaks of the one step in which they meet.
* `EndInv` says why a clean end is a true one. Either the terminal document was
  handed over (`TerminalInv`: it is the last of the queue, or has been yielded), or
  the stream was silent and closed young (`SilentInv`): then the host closed it
  because the run is over, so the cursor is the last event's, and `CoverInv` says
  that the event has been yielded.
* `PromiseInv` ties the three positions together, which `IInv` only orders: the queue
  starts right behind the consumer, or with the consumer's own position while that may
  still come again (`MayRepeat`); the cursor is where the consumer will be when
  the queue is empty; and the duplicate guard is at the cursor once it has seen a
  document. With it each `Yield` is a `Deliver` or the one `Repeat`, each end a
  `Complete`, `Fail` or `Stop`, and every other step a stutter.
* `GapInv` says that each event yielded is the one after the event yielded before. It
  needs `PromiseInv` at every `Yield`.

`Promised` is the hypothesis of the refinement, and it is what `SseDelivery.cfg`
gives its scenarios: run events, reconnection on, no silent early close by a proxy
(finding 3) and no cut inside a frame that moves the cursor over an event (finding 1).
Each condition is about `scn`, which no step changes.

### The reasoning helper

`HandledInv` says, for each place of the task, which of the events that arrived have
been handed over. Which those are follows from the stream alone (`StreamInv`): as many
as `handed` counts, up to `delivered`, beginning behind the starting position or with
it. `ReasoningOfRun` adds the log: `LogInv` says that an event's callback is what the
if-chain makes of it, and `RunIsRead` that its specification is the helper's with that.

### What the documentation says, and when it is so

Each violated run checks a sentence of the documentation. For each of them but one a
theorem says under which condition it is true; together they say what the finding is
about and that nothing else is wrong with the sentence.

| Finding | True by | As long as |
|---|---|---|
| 1, events skipped | `NoEventIsSkipped` | no connection ends inside a frame: cleanly for any reader, by an error for Go (`LosslessEnds`) |
| 2, an event repeated | `NoEventIsReyielded` | the reader is not Python's, or no body ends cleanly inside a frame (`NoRepetition`) |
| 3, a clean end that is none | `CleanEndIsTerminal` | no proxy closes a young and silent stream, `LosslessEnds`, and the decoder knows the channel's documents (`Decodes`) |
| 4, a finished run resumed for ever | not proved: liveness (`Completes`) | not every connect takes longer than the floor |
| 5, deltas not dispatched | `FirstMajorIsDispatched` | the host speaks the first major |
| 6, an early end of polling | `PollingDelivers` | the program goes by the answer's flag, or the host shows no engine statuses (`Promised`) |

`HandlersKeepStream` does the same for "one bad handler doesn't tear down the stream":
it is so as long as no `onError` was given that could throw.

### The REST client

`AtMostOnce` rests on what is in flight, so `IInv` adds four parts to the types:

* `TagInv`: every request of a keyed call, on the wire or being worked on, carries
  the key, and the same for dedup. It is where the client comes in: `Send` takes
  the headers from the options, the same for every try.
* `KeyInv`: the host works on at most one request of a keyed call, on none once it
  keeps an answer, and what was carried out has a kept success.
* `RunInv`: for dedup, without a key: the runs that were started and still hold the
  scope (`done - lapsed`), and the request being worked on, are one together.
* `AnswerInv`: an answer on its way, and what the client made of it, are the
  host's: a refusal told to a keyed call is the kept one, a document of a mutation
  means that it was carried out. Lemmas on `Outcome` (`ValueIsJson`,
  `RefusedIsRefusal`) say what a result lets one conclude about the answer.

A kept refusal and a kept success exclude each other, and no gateway's page is an
envelope, so `RefusalIsFinal` follows from `KeyInv` and `AnswerInv` together.

### The poll loop

`PollingDelivers` maps `handled` to `handed` and `outcome` to `status`, under `Promised`
(no step changes what it is about). `PlaceInv`
(what is in hand starts behind the last event handled and reaches to the
position), `ReplyInv` (so does an answer on its way) and `EndInv` (the end is seen
only in an answer that reaches to the terminal event) make each `Handle` a
`Deliver`, each `Finish` a `Complete`, a broken poll that is given up a `Fail`, and
all else a stutter.

### The program

A step of `Program` is a step of the session (`SessionSteps`) and a step of the
REST client (`RestSteps`), one of the two a stutter, so `ProgramSpec` implies both
specifications (`ProgramIsBoth`) and every theorem about either carries over.
`FollowsItsRun` needs both at once: `HeldInv` says that a program with anything of a
poll in hand has the document of its run, `RunIsKept` that no late answer takes it
away again, and `ValueIsReal` and `AtMostOnce` say what that document
proves about the host: the run was started by this call, and with a key it is the
only one the call started.

### Wire ids

`projectId` and `unprojectId` are recursive over a sequence, so their laws need
induction. The library's induction theorems take a predicate as a parameter, which
the provers cannot instantiate; a *set* of numbers is a value like any other, and in
a set that misses a number one is missed first (`SetInduction`, `Climb`, from the
well-founded order of the naturals). On that rest three facts:

* `FlattenLays`: the pieces of a projection lie one after the other, piece `n` where
  `at` says, and nothing else lies between them (`Laid`).
* `ReadingExists`: the recursion of `unprojectId`, from the end of the segment to its
  front, has a solution.
* `EncodedComesBack`: read from the end of piece `n` on, the segment gives the bytes
  after the `n`-th. Going down from the last piece, an escaped byte is an escape
  (`EscapeIs`: its two digits give the byte), and a byte left as it is must not look
  like one.

That last condition is where the two forms differ. In a projection every `~` is
escaped. In an old link `~` stays, but `%` does not, and a digit at the start of a
piece is a byte of the id (`DigitWasKept`), so what looks like an escape is one the
id has itself, which `LinkSurvives` excludes. `EncodesToWireForm` says that the
segment is recognised: it has no `/`, and the id's `/` is an escape in it. Ids are
any sequences of bytes that hold a `/` and decode (`TenantBound`; the model's decoder
knows characters of one or two bytes); those of TLC's
run are among them whatever their length (`BoundIdIs`).

### The other helpers

`SchemasPassGuards` compares the table of the guards with that of the payload schemas:
every field a guard asks for is one the schema requires, of a kind the guard accepts. `MarksAreFound` goes through the three vendor parsers of
`parseRefusal`: each finds a signal exactly where its vendor's mark is, and the first
one found is reported; `Unseen` responses are set aside.

`extractGeminiHighestRiskCategory` is a left fold over a list, which the community
modules define by a recursive function on sets of places. `PicksExist` builds that
function for the places up to `n + 1` from the one up to `n`, by `Climb` again, and
`WorstStep` carries the invariant (`WorstOf`) from one place to the next, so that
`WorstOfAnyList` is about lists of any length; TLC's run has lists of up to two.

### The webhook receiver

`AcceptedIsFresh` speaks of the step just taken, so it is inductive with the
types; the work is in `ValidPassed`, which reads off a verdict of `valid` that
every earlier return was not taken. `TimelyIsAccepted` is the converse:
`TimelyPasses` goes through the same returns for a delivery that is whole and in
time, and rests on `WholeFamilyIsRead` (in whatever order the families are tried, a
whole one is found) and `ReadFamilyIsWhole` (what is found is whole, and its
signature can be read).

### Publishing

`RelInv` follows a commit into a registry:

* `TypeInv`: every commit is a `Package`. The lemmas `EditKeeps`,
  `RevendoredIsPackage` and `CommitIsPackage` show it of each thing a maintainer
  does.
* `RunInv`: a green preflight speaks of the commit the tag named, which no later
  commit replaces, and `npm view` was asked about a package of the tag's version.
* `PublishedInv`: what a registry has as 2.x comes from a commit that passed, also when
  the job that sent it broke afterwards.

`PassedIsWhole` then shows, of any package, that the checks make it whole by the files
in its own commit, up to what the parity check cannot see: methods whose symbol is
misnamed, and TypeScript methods with a namesake. Nothing is assumed of what was merged.
`LatestIsFinal` follows from `RunInv`: between `npm view` and `npm publish` the
dist-tag and the version still agree.

**Only model-checked:** liveness (`Completes`, `Cancels`, `StopReleases`,
`RunIsFollowed`, `EventArrives`, `GoodTagIsReleased`), which is out of the prover's
reach. Every invariant, action property and refinement of the passing runs is also
proved.

## 5. Not modelled

* **Reconnect timing** (backoff, `retry:`, `Retry-After`): floating-point
  milliseconds in two languages and integer durations in the third, without state.
  The readers' models say when a wait happens, not how long it is.
* Of the readers: request headers and URLs, authentication, the letters of a line
  (comments, unknown fields, carriage returns), frame sizes, documents that are
  JSON but misshapen.
* **The 1.x SSE readers**: one connection, no cursor, no guard and nothing that
  lives across connections.
* **The Python and Go REST clients**: the operations are the same, but an absent
  surface or an empty body is reported differently in each; they need shapes and
  an `Outcome` of their own. Their wire-id code and 1.x webhook helpers likewise.
* Of the REST clients: URLs and queries other than the poll's position, header
  values, `traceparent`, the types of documents; `userAgents` and `workspace`
  only as shapes.
* **Registry helpers, error-code tables, cost attribution, envelope directives,
  browser stubs**: reads without state, vendored lists restated, or reshaping of a
  few lines, where a model would only repeat the code.
* **What the generators print**: a rendering of JSON Schema as TypeScript, Python
  or Go, recursive over data. Modelled is that what is committed is what they
  produce.
* Of the gates: compilers, linters, unit tests, and how unions are found in the
  text. Of publishing: jobs run again by hand, tag formats, provenance, and the Go job,
  which publishes nothing (users take the tag).
* **Documents behind the terminal event** in one frame: the terminal one is the last
  of the log here.

Next, if the project goes on: shapes of the Python and Go clients, and an `Outcome`
for each; a refinement that puts `ReasoningSubscription` directly on `SseResume`.
