# Agent Framework for JavaScript: TLA+ models and proofs

This directory holds TLA+ models of the parts of this repository whose
correctness depends on order: the Responses server of `packages/agentserver`,
in which requests, handlers, storage and shutdown run against each other; the
MCP connection, which several callers share; tool approval with the
function-calling loop of `packages/core`, where what a human decides must hold
over turns that fail or are left; the runs of an agent, on its own and behind
the two hosting protocols; the memory and the skills that concurrent runs
share; and the three provider clients, whose streams must fold into what they
would have answered at once and whose transcripts must be accepted again.
Everything is translated from the source; `PROJECT.json` maps each definition
to the lines it stands for.

## 1. The system

The repository is a monorepo of eight packages (paths below are under
`src/packages/`). An *agent* (core) drives a *chat client* (openai, anthropic,
foundry) through a *function invocation loop* (core), with *history* and
*context providers* around it, and may use *MCP* servers as tools or an *A2A*
agent as its remote end. *agentserver* is an HTTP host, independent of the agent
framework: it runs any handler behind the OpenAI-style Responses protocol.
*foundry/hosting* is the handler that puts an agent into that host.

| component | state it keeps | operations | interacts with | what is hard |
|---|---|---|---|---|
| Responses server (`agentserver/src/server.ts`, `background-driver.ts`) | `#draining`, `#claims`, one tracker and one abort per turn | `POST /responses`, `drain()` | handler (async iterable), store, routes | several awaits between the claim of an id and its run; late writes of a run whose id has been freed; shutdown |
| DELETE, cancel and GET routes (`resource-routes.ts`, `wait.ts`) | none: they act on claims, runs and the store | `DELETE /responses/{id}`, `POST …/cancel`, `GET …` | registry, run, store, timer | a cancel that gives up on its run after a grace and writes beside it; a delete that races with a run's own writes |
| Background event feed (`background-run.ts`) | buffer with a moving base, followers, `overflowed`, `finished` | `deliver`, `finish`, `follow` | the run (producer), SSE responses (consumers) | absolute cursors into a window that is trimmed while a consumer is suspended |
| Foreground answers (`foreground.ts`, `terminal.ts`, `sse.ts`) | one generator chain per response | pull, persist before terminal, wind down on abort | handler, store, socket | teardown from two sides |
| Response lifecycle (`lifecycle.ts`) | the tracked response, three flags | fold and repair an event stream | handler | handlers that break the protocol |
| Response stores (`store/*.ts`) | records, replay logs, aliases; a queue per id | `put`, `putEvents`, `delete`, `get`, `history` | file system, several servers | generation fences, owner partition, aliases, eviction, crash |
| Invocations server (`invocations.ts`) and its handler (`foundry/src/hosting/invocations.ts`) | sessions by key, a queue per key, one body per call | one turn, keep-alive, cancel | agent, HTTP | a lock that is released by a body; eviction of a session in use; a read that a keep-alive leaves pending |
| Server plumbing (`http.ts`, `node.ts`, `ids.ts`, `validation.ts`, …) | none across requests | conversions, validation | everything | – |
| Agent run (`core/src/agent`) | `AgentSession` | `run`, `runStream`, continuation | providers, client, middleware | order of providers and history over failures and continuation tokens |
| Function loop (`core/src/client/function-*.ts`) | rounds and budgets of one run | call tools, release a round for approval, settle with a service | chat client, tools, approval layer | limits, approval round trips, who holds the transcript |
| Tool approval (`core/src/client/tool-approval.ts`, `core/src/middleware/tool-approval-middleware.ts`) | pending and auto-approved slots in the session | hold back, bind decisions, replay | session, function loop | call ids reused over turns; a failing model call after slots were emptied |
| Middleware (`core/src/middleware`) | one pipeline per call | `next()` | agent, client, functions | `next()` called twice or late |
| Response stream (`core/src/streaming`) | one source, iterator and result promise | iterate, await, finalise | client | two consumers of one source |
| History (`core/src/context`, `core/src/node/file-history-provider.ts`) | messages; a file and a queue per session | load, append | file system | torn appends, concurrent runs |
| Message types and folding (`core/src/types`) | none | coalesce updates into messages | clients | order and merging |
| Structured output, JSON schema, telemetry (`core/src/client`, `core/src/tools`, `core/src/observability`) | spans | wrap a call | client | span ends exactly once |
| Skills (`core/src/skills`, `mcp/src/skills.ts`) | cached loads by tenant | load, share, refresh, evict | agent, MCP server | a shared load that fails, is aborted or is older than the one that took its place |
| MCP connection (`mcp/src/connection.ts`) | `#client`, `#connecting`, `#generation` | request, reconnect, close | transport | concurrent connects, close while reconnecting |
| MCP skills and content (`mcp/src`) | none | conversion | MCP server | – |
| OpenAI and Anthropic clients (`openai/src`, `anthropic/src`) | state of one stream | read events or a whole answer, build requests from transcripts | provider service | partial tool calls, hosted calls and their results, pauses, reasoning that must go back as it came |
| A2A agent (`a2a/src`) | task and context in the session, continuation | send, stream, resubscribe | remote agent | a task that belongs to another session, artifacts that are told twice |
| Foundry hosting (`foundry/src/hosting`) | session snapshots, approvals, consent, mirror of stored responses | one hosted turn; put, delete, replay | agent, agentserver, storage service | snapshot saved after the terminal event; a write whose answer is lost; several sandboxes |
| Foundry memory (`foundry/src/memory`) | search and update anchors | search, update | memory service | concurrent runs of one session |
| Foundry client, meta package, samples | none | thin wrappers | service | – |

The list with the status of each component is `components` in `PROJECT.json`;
what is hard to test in each of them, at its line, is `hazards`.

### What makes each core component correct

* *Server.* One turn at a time per id; an id is always given back; a shutdown
waits for every turn it can see and lets none start behind it; a turn has one
verdict and the store, its caller and every later reader agree with it; a
terminal status is told only when the response can be read back; a
cancellation that was answered is final.
* *Feed.* A consumer gets every event once, in order, up to the terminal event;
only a consumer that is more than the cap behind may lose some; memory is
bounded by the cap whatever consumers do; a replay log is the whole stream.
* *Store.* A call takes effect at one moment, its check with its write; a log
exists only below its own response; a delete takes log and aliases along.
* *Lifecycle.* Whatever a handler does, the wire carries created, in_progress,
output and exactly one terminal event.
* *Foreground stream.* The turn is offered to the store once, before its
terminal event; the claim is given back behind the handler's end and behind
that attempt, whichever of consumer and abort signal tears the stream down.
* *MCP connection.* Callers share one live client; nobody is handed a dead one,
nobody closes the connection another caller works on, and every call ends.
* *Tool approval and function loop.* A call that needs a human runs after a yes
to that very call, and once; a request that was shown stays open until it is
answered, whatever becomes of its turn; what the model is sent has a result
behind each call; a turn leaves no call that nobody will run.
* *Agent run.* An exchange is stored once, whole, by whichever run ends it; a
later run reads exchanges whole; providers hear of the end of a run once, all of
them before its caller is told of a success.
* *Hosted turn.* What later turns replay of a turn is what the agent said in it;
a decision on a request that was told counts; a turn goes on where the last
one on its lineage stopped.
* *Invocations.* Turns of a session follow one another, none waits for ever, and
a body carries all of its own turn's text.
* *Memory.* What a run takes up is of its scope, what an update goes on from is
of its own past, what was sent last is what a wait waits for.
* *Skills.* A list is the tenant's own and as new as asked; a good load is
shared; a failure is not cached.
* *Clients.* A streamed answer folds into the awaited one; the next request, also
of a session restored from storage, carries what the service needs.
* *Foundry store.* What was reported as stored has been held by the service; a
replay is of the turn the service answered with.

## 2. Modules

```
ResponseContract <--refined by-- ResponsesServer <--proved about-- ResponsesServer_proof
                                       ^ instantiated by MCServer

run by TLC             the modules of its run              proved about by
----------             ----------------------              ---------------
MCStream    EXTENDS    BackgroundRun, ForegroundStream     Streams_proof
                       FileStore,
                       which refines AtomicStore           Stores_proof
                       McpConnection                       McpConnection_proof
MCTurns     EXTENDS    Lifecycle, AgentRun,
                       HostedTurn, Invocations             Turns_proof
                       MemoryStore                         Stores_proof
                       MemoryProvider, Skills              Providers_proof
MCClients   EXTENDS    FoundryStore                        Stores_proof
            INSTANCE   ResponsesClient, MessagesClient, A2A, which use Updates
MCToolApproval         ToolApproval,
                       which EXTENDS ApprovalScan          ToolApproval_proof

SequenceLemmas, about sequences of any kind, serves Turns_proof and Stores_proof
```

`ResponsesServer` composes what interacts in the server: registry, turns,
routes, drain and the per-id store queue. The modules around it look inside one
part that it takes as one step: `Lifecycle` is what stands behind
`EmitPrefix`/`EmitItem`/`HandlerTerminates`, `BackgroundRun` the feed a streamed
run writes into, `ForegroundStream` the streamed foreground turn, whose claim
and drain it carries itself, `MemoryStore` the store with aliases and eviction,
`FileStore` the one that the server takes by default, `FoundryStore` the one that
a service keeps. `HostedTurn` is the handler that
Foundry puts behind the server, `AgentRun` what such a handler, or a program,
runs; `ToolApproval` is the loop inside a run, and the three clients are what
that loop calls.

`MCStream`, `MCTurns` and `MCClients` put several such parts into one run of
TLC: a behaviour belongs to one part (`part`, `client`), chosen in the initial
state, and the variables of the others never change. They add nothing to the
parts; a part is checked as it would be alone, and each of these modules'
properties is the part's own. A part with theorems is extended, so that what the
run checks is the very definition that is proved, and the assumptions of its
theorems are evaluated on every run. Modules that are extended together prefix
what each has of the same kind (`AgentInit`, `HostedNext`, `InvokedSpec`,
`StoreDone`, `ForegroundFairSpec`), and their variables differ; the three clients
have no theorems and are instances.

Definitions that end a comment "Deviation" are the mutated forms
`PROJECT.json` names under `mutants`: each is a way the code could plausibly be
wrong, and a property must notice it.

*Atomicity.* JavaScript runs to completion: between two awaits on the store,
the handler, a server or a timer a step is uninterrupted, and the continuation
of a call runs in the microtasks that follow its settlement. One action is the
code between two such awaits. Where the code looks, awaits and acts (the
router's check and the claim's, DELETE's look-up and its drop, the cancel and
its grace), the model has two actions.

### ResponsesServer

| variable | code |
|---|---|
| `draining`, `drainWait`, `drained` | `#draining`, the list of claims `drain()` awaits, its promise |
| `claims` | `#claims`; a turn stands for its `IdClaim` and for its generation (a UUID) |
| `stage`, `phase` | how far `#createResponse`, `#createClaimed` and `startBackground`/`collectResponse` have come, and the flags of `enforceLifecycle` |
| `status`, `items` | the tracked response: status and number of output items |
| `cancelRequested` | `run.cancelRequested` |
| `wire` | the terminal status the turn's own caller was given |
| `record`, `log`, `queue` | the store: response, replay log, and the writes issued for an id that have not taken effect |
| `cancel`, `delete` | one cancel and one DELETE request: how far it is and the run it works on |

Actions: `Receive`, `Claim`, `Start`, `SetupFails` (admission); `EmitPrefix`,
`EmitItem`, `HandlerTerminates`, `HandlerThrowsEarly` (the handler);
`RunEnds`, `CollectEnds` (wind-down); `ApplyPut`, `RejectPut`,
`ApplyPutEvents`, `ApplyDelete` (the store and the continuation that awaited
it); `DeleteArrives`, `CancelArrives`, `GraceEnds`, `Drain`, `DrainEnds`.

*The store.* The provider serialises the writes of one id, so `queue` is a
sequence per id; a write takes effect some time after it was issued, and with
`StoreFails` it may fail instead. Reads are not queued. That a write takes effect
at one moment together with its check is what `FileStore` shows of the default
store. Several servers stand here for servers that were given one provider; what
becomes of an id when each has a provider of its own is in section 6.

*Left out here:* turns that name a conversation (`MemoryStore`), streamed
foreground turns (`ForegroundStream`), history resolution, the replay routes
(they only read), a crash of the process, wording and telemetry.

### ResponseContract

Per turn one verdict, at most one answer, and per id at most one filed turn
with that turn's verdict. `ResponsesServer` implements it under the mapping
`verdict <- Verdict`, `told <- wire`, `filed <- record`; the verdict of a turn
is "cancelled" from the moment a cancel is accepted, otherwise what its handler
reached.

### ForegroundStream

One streamed, stored foreground turn: the handler behind `enforceLifecycle`
(`source`), the `numbered` generator of `streamResponse` (`writer`), `windDown`
(`teardown`), the `TerminalPersister` (`attempted`, `puts`, `settled`), the SSE
body and its one buffered event (`body`, `told`), the claim that
`releaseSignals` settles (`claimed`) and the `drain()` that waits for it. The
two generators queue `return()` behind a pending pull; that is what makes the
teardown from the consumer and the one from the abort signal meet at every
point. Assumed: the handler's own cleanup does not throw. Turns with
`store: false` are left out.

### Lifecycle

`created`, `inProgress`, `terminated` are the generator's flags, `tracked` the
tracker's response, `wire` and `told` what leaves the generator, `held` the
event that waits while its missing prefix is sent. The handler may emit any
event in any order, end, throw, or be left. Restrictions: a lifecycle event
that is not terminal carries only a status that is not terminal, and a resource
a handler carries has no item twice.

### BackgroundRun

`delivered`, `base` and `buffer` are `#delivered`, `#base`, `#buffer`; `at`,
`index`, `after`, `closing` are a subscriber's generator, its cursor and
starting sequence number; `overflowed` and `driver` the run. `Deliver`,
`StoreLog`, `Finish` are the producer, `Follow`, `Yield`, `CaughtUp`, `Leave` a
subscriber. A `yield` suspends inside the inner loop, so a trim may happen
between two reads of one subscriber.

### McpConnection

`client`, `connecting`, `generation` are the private fields; `conn` and
`watched` the state of each client that was made and whether its `onclose` is
set; `call`, `on`, `gen`, `try` one caller inside `#request`. `Resume` is the
continuation of all callers that share one attempt. The default
`shouldReconnect` is taken, abort signals are left out, and a client that
nothing refers to any more gives its name back, so that a finite set of names
bounds the connections alive at one time, not the number ever made.

### ApprovalScan and ToolApproval

`ApprovalScan` has the pure part of `tool-approval.ts` and of
`resolveInboundApprovals`: operators on a transcript, a sequence of calls,
results, requests and decisions. The code makes one pass with maps from ids to
occurrences; the operators say of each position what that pass ends with
(`Opens`, `Settles`, `Unbound`, `BoundTo`, `Actionable`, `Decided`,
`Unanswered`, `Stripped`).

`ToolApproval` is a session and its turns.

| variable | code |
|---|---|
| `pending`, `autoApproved` | the two slots of `sessionApprovalStore` |
| `history`, `managed` | the transcript of the history provider; `serviceSessionId` is set |
| `keeps`, `owed` | external: a service that keeps the conversation, the calls it has no result for |
| `pc`, `input`, `messages`, `iteration`, `errors` | where `loop` is, what it was called with and sends next, its two budgets |
| `calls`, `todo`, `results`, `deferred`, `refused`, `asking` | one call of `runInvocationRound` or of `resolveInboundApprovals` |
| `handled` | the updates that have passed `withToolApproval` |
| `hand`, `ended`, `reply` | the caller: the requests it can answer, how its last turn ended, what it got |
| `made`, `answers`, `runs` | what happened to each call, for the properties |
| `muddled` | auxiliary, read by properties only: the ids of which the store and the transcript have known different calls (`Apart`) |

`Send` is `agent.run` down to the first await: slots emptied, decisions bound,
held-back calls approved, what goes back to the caller sorted out. `Invoke`
is one call (`invokeOne` and the middleware around it), `FinishReplay` and
`FinishRound` what follows a batch, `Ask` the request to the model and what is
done with the calls it makes, in four alternatives (`FinalAnswer`,
`ReleaseAsApprovals`, `HandToCaller`, `StartRound`), `Fail` and
`MiddlewareFails` the two ways a turn fails. `End` is the end of every turn: the
`finally` of the approval layer and `afterRun` of the history provider. A
streaming caller may stop at any update (`Cut`): the turn then counts as over
and is stored, unlike one that fails. Calls of a batch are invoked in any order,
which covers serial and concurrent execution.

Assumed of a provider: a call has an id of its own within a response, and an
id comes again only after its call was answered. Left out: text, requests of
provider-hosted tools, other requests for user input, `terminate()` without a
request, `maxInvocations`, replayed histories that a caller assembles itself.

### AgentRun

Runs of one agent on one session, two of which may overlap. Two providers stand
for the list of them: the history provider, whose append may fail, and one
behind it (`notified` and `later` count what each was told). `run` is what a run
is doing and has seen, `token` the continuation token the caller holds of each
exchange, `file` and `queue` the transcript and the operations that wait for it
(`fileChains`), `conversation` the session's `serviceSessionId`. `Start` and
`ResumeRun` are the two ways into `runStream` and `run`, `Read` the history
before the run, `Pull`, `End`, `ReturnAll`, `Break` and `Fail` the source and
its reader, `OnResult` what each of its ends leads to, `AppendLine` one line of
the transcript, `Deliver` and `FinalResponse` what the caller is given, `Crash`
a death of the process, which may tear the line being written. External: the
chat client, whose resumed operation sends the rest of an answer or, with
`Replay = "all"`, all of it. Left out: two consumers that iterate over one
stream at a time, `asTool`, structured output, the middleware around a run.

### HostedTurn

A turn is its number and names the turn it continues, or all of them when the
conversation has an id. `turns` holds the turns so far (each with its `line`,
the turns it continues), `snapshots` the saved sessions by turn, `approvals` the
approval storage. `BeginTurn`, `AskConsent`, `RunAgent`, `SayContent`, `Tell`
and `FinallyKeep` are the handler up to the session, up to the agent, one
content of the agent, the terminal event and the `finally`; `Abandon` is a
caller that leaves. `Push`, `Extend`, `CanExtend`, `CloseItem` are the cutting
of contents into output items, `Replayed` and `Messages` what the items of an
earlier turn are replayed as, `Issued`, `Resolved` and `Decidable` the approval
storage. Families of contents that the code treats alike are represented by one:
search, image and shell calls by code and its result. Assumed: the caller waits
for the end of the stream (otherwise its next turn races the save,
`handler.ts:445`); a call that the provider runs over MCP is answered before the
next (`output.ts:404-405` joins fragments whatever their id); a code run is
answered at once; ids have the form of the protocol; the reasoning of one id is
not split; a consented call stays unanswered in the transcript. Turns on one
conversation that overlap are last-write-wins in the code and excluded here; a
failing approval storage skips the save of the session and is excluded as well.
Left out: the security partition, the toolbox, the hosted context, usage.

### Invocations

`sessions` is the map in its order, `locks` the tail of each key's queue, `turn`
a request: where its run is, what its run said, what the stream of the handler
(`inner`) and the body (`text`) have read ahead, and what was told. `Arrive`,
`StartTurn`, `Refuse`, `Answer` are the handler; `BeginRun`, `Ask`, `Say`,
`LastUpdate`, `RunEnds` the run behind a streamed answer; `PullBody`, `Settle`,
`KeepAlive`, `Wake`, `Cancel` the two streams; `Drain` the shutdown. A client
reads or cancels, it does not stall for ever. Left out: the get and cancel
handlers, headers, telemetry.

### MemoryStore

`responses`, `aliases`, `aliasIdsFor`, `logs` are the four maps, the first and
the last in their order, `claims` and `work` the server's turns as far as they
use them. `Write` and `Link` are the two puts of `persistSnapshot`, `Finish` the
replay log, `DeleteNamed` the route with the provider below it. A map in its
order is a sequence; `With`, `Without` and `Oldest` are what is put, deleted and
evicted. Reads have no state. The writes of a run and of the cancel route follow
one another; the alias of a service-linked store is not modelled.

### MemoryProvider

`memory` is the state of each session, `call` what a run's calls of the provider
have come to (`Leaves` when they are over), `updates` what the service was sent,
`pendingId` the provider's own field, `waiter` a `whenUpdatesCompleted`. `Begin`
to `Search` are `beforeRun`, `Ends`, `Arrives`, `Updated`, `UpdateFails`
`afterRun` and its answer, `Extract` the service. External: the memory service.
Calls that manage stores are left out.

### Skills

`loads` are the calls of the source, `entries` the cache, `asks` the runs.
`BeforeRun` finds or starts a load, `ReadIndex` is the answer of the MCP server
(a catalogue, none, or a refusal), `Resume` what the waiters of a load get,
`Abort` the abort of a run, `Tick` a refresh interval. `Built` keeps each entry
that `buildSkill` can use at its place in the index. The pipeline is
`dedupe(cache(aggregate([server, own])))` or the server alone. Left out: the
tools of a skill and their cached bodies, frontmatter, the directory source.

### FileStore and AtomicStore

`filed` and `events` are the two files of an id, `chain` the queue of each
provider and id (`#pending`), `progress` how far each call is. Each read, write
or removal that `file.ts` awaits is an action: `PutReads`, `PutWrites`,
`PutEventsReads`, `PutEventsReadsLog`, `PutEventsWrites`, `DeleteReads`,
`DeleteRemoves`; `Fails` is an access that throws, `ProcessEnds` a process that
dies with its providers and leaves its files. A replacement is one step, which
is what write-then-rename gives. `AtomicStore` is what `provider.ts` asks of a
store: each call takes effect, with its check, at one moment. It leaves two
things open, that a delete takes the log away before the record, and that a call
which fails or is lost has had no effect but that. Left out: files of another
shape or torn by hand, paths.

### FoundryStore

One response id in a service that two sandboxes write. `Put`, `Create`,
`Update`, `Check`, `Mirror` are a put with its retries and the reconciliation of
a refused update, `Delete` to `DropRecord` a delete, `PutEvents` the replay log,
`Get`, `GetMirror`, `GetEvents` a replay, `Crash` a sandbox that dies, with or
without its files. `WellWritten` says what is known of the writes: the service
gives no item id twice, so two writes that agree in what is compared are one, or
have no output. The routes that read history are left out. An outcome that
was applied and whose answer was lost may be reported as a failure, which is
safe.

### Updates

Contents, updates and the fold of `coalesce.ts` and `response.ts`, as
operators: a text is a sequence of tokens, so that concatenation is `\o` and
nothing is spelled out. `Coalesced`, `MergeUpdates`, `ResponseToUpdates` and
`Restored` (what serialisation keeps) are what the clients are checked against.
Older transcripts without a payload type are not modelled.

### ResponsesClient, MessagesClient, A2A

Each is a conversation: `Ask` (`Send`) builds a request from the transcript,
`Consume` (`Deliver`) reads one event, `Finish` what the last one leaves,
`Answer` the caller's results and approvals. What a provider may answer is a
small set of items, one of each form the parser tells apart.

* OpenAI: `StreamContents` and `StateAfter` are `parseStreamEvent`, `ToInput`
  the request, `Resume` a connection that is lost in the middle of a background
  response that is stored: the response is retrieved by its token and read from
  its first event again, into a fresh fold. Assumed of the service: items are
  announced empty and streamed one after the other, arguments come in at least
  one delta, ids are used once, an encrypted payload comes when it was asked
  for. The groups of the compaction strategy are not modelled.
* Anthropic: `Flushed`, `Closes` and `ParseBlock` are the block state machine,
  `ToMessages` the request. Citations are not modelled; a code call in the
  legacy form of `tool_use` is restored as a `server_tool_use`, and a bash or
  editor call that is still pending as a plain code execution, both left out.
* A2A: `Observed`, `UpdatesFromTask`, `UpdateFromStatus` are `convert.ts`,
  `ReadLink` and `Written` `session.ts`. Two sessions share their partition, as
  a tool with `propagateSession` makes them; their runs do not overlap.
  Artifacts come one after the other, `append` is ignored.

## 3. Runs

| run | instance | question |
|---|---|---|
| `server` | one id: a streamed background turn with either another one or a collected foreground turn, a cancel, a DELETE, `drain()`, failing store | contract, claims, persist-before-terminal, replay log, drain |
| `server_live` | a background and a foreground turn, cancel, DELETE, failing store, fairness | every turn and every drain ends; an accepted cancel is answered |
| `stream` | 2 subscribers, a cap of 2 under a stream of 5; one streamed foreground turn with everything that can tear it down; the file store with one id, 2 owners with a put, a putEvents and a delete each, failures, a crash; an MCP connection with 2 callers, 4 client names, 2 calls of `close()` | what is followed and logged is whole, followers end; recorded once and first, released at last; the store's calls are atomic; the shared connection is live, nobody else's, and calls end |
| `approval` | 4 turns, 2 calls, 2 ids, a tool of each kind, budgets of 1, failures and abandoned turns, both keepers of the transcript | consent, of the call and of the id, open requests, well-formed requests, no call left over |
| `clients` | OpenAI: 2 items of 12 forms, 2 requests; Anthropic: 2 groups of blocks; A2A: a session and its child, 3 runs; Foundry store: 2 sandboxes, a delete, a crash, a retry | streamed is awaited, requests are sendable, restored is replayed; accepted is held, replay is of the turn |
| `turns` | 3 runs and a crash; 3 hosted turns and 3 contents; 4 handler events; 3 turns of the memory store, a cap of 1, a DELETE; 3 requests of 2 sessions, a cap of 1; 2 runs over 2 sessions and 2 scopes; 3 runs over 2 tenants | what an agent's turns store, replay, tell and remember |
| `resumed_twice`, `abandoned_early`, `released_early`, `policy_passed`, `consent_moved`, `sent_twice` | small instances | comments of the source the code does not keep, section 6 |

*Bounds of the server.* One id suffices per server because nothing relates two
ids except `drain()`, which waits for a set. Two turns on an id are the least
that compete for a claim and for a generation; `PairSpec` lets the second be of
either kind in one run. One output item tells an empty output from a non-empty
one. The feed needs a cap smaller than the stream by more than one and two
subscribers of different speed. Four lifecycle events are a full protocol run or
any four violations of it. Four client names let two callers hold two lost
clients while two more are made. `MaxItems`, `MaxDelivered`, `MaxEvents` of
`Lifecycle`, `MaxCloses` and the sets of requests are the only bounds on
counters; `MaxEvents` of `BackgroundRun` is the code's own cap. In `approval`
two calls make a batch that can be answered in parts, or two occurrences of one
id; four turns are a request, an answer, another answer or a failure, and a turn
that replays what they left (`MaxTurns`, `MaxCalls`). Both budgets are the
code's own. With two calls of one id and two turns an id can already be muddled
(see below), and within these bounds `ConsentOfItsCall`, the property of
`consent_moved`, is violated: the states that matter to `ConsentOfItsId` and
`NoMoreRunsThanYeses` are reached. In the file store each owner makes one call
of each kind; two puts that compete, a log written between them and a delete on
either side are the cases the queue must separate, and more calls of a kind only
repeat them.

*Bounds of the turns.* Three runs are an exchange, its resumption and a run that
reads what they stored; two chunks let a suspension fall between them; one crash
tears one line. Three hosted turns make a lineage that branches; three contents
are two fragments with something between them. Three requests are one at work,
one behind it and one that evicts, on two keys over a cap of one session
(`MaxTexts` two texts are one read ahead and one on its way; `MaxStreams` one
body at a time, for the queue makes the others wait). Three turns of the memory
store and a cap of one let an id be evicted and taken again by another owner;
`"a"` is an id and a conversation at once. What can go wrong in `MemoryProvider`
relates two runs, each with a first and a later part; two sessions and two
scopes make each pair. Three runs over the skills are the one that starts a
load, the one that shares or replaces it and the one that asks later; one tick
of the clock makes the first load old. Runs, requests and turns are symmetric
where no property orders them (`Perms`).

*Bounds of the clients.* Two items, or groups of blocks, make every pair of
forms meet in one answer; a second request carries what the first brought, and
for Anthropic a third is built and only sent. Two attempts are a call and its
retry, which is where an outcome becomes ambiguous; a turn that
is written twice, one without output and one of the other sandbox, all in one
second, are what `sameTurn` must tell apart.

*What consent means of an id that is used again.* All runs and theorems of
`ToolApproval` are over `Spec`, which excludes nothing. The code correlates by
call id, and there are two situations in which the store and the transcript know
different calls of an id: a request is `Overshadowed` when its turn failed, so
that only the store has it, while the transcript has something of another call
with that id; a call that is held back is `Orphaned` when the transcript has a
request of another call with that id, and the turn that answered this request
has lost the result. Both need a model that uses an id again and a turn that
fails or is left. From then on the id is in `muddled`. `OnlyWithConsent` and
`AnAnswerCounts` speak of the calls whose id is not, and so does of
`WellFormedRequest` the part that speaks of each call. For every id, the muddled
ones included, `ConsentOfItsId` and `NoMoreRunsThanYeses` say what still holds:
a yes for each run, although perhaps to another call of the id. That the yes
need not be to that very call, against what `tool-approval.ts` says, is what
`consent_moved` shows. `WellFormedRequest` further exempts a call that a turn
left open, cut short or for the caller (`LeftOpen`), and a call that the
transcript itself has twice, which is the finding of `sent_twice`. `SmoothSpec`,
of `policy_passed` and `sent_twice`, has no failures and no abandoned turns, so
that their counterexamples are sessions in which nothing went wrong.

*What the properties of the turns exempt.* Each exemption is a named set or flag
of the model and a case in which the code does not promise more, or does not
keep it, and section 6 names it: an exchange that a crash cut short
(`CutShort`), the artifact that the snapshot of a resumed A2A task repeats, a
client that hung up while its run was at work (`hurried`), an alias that was
written after its response was gone (`late`), a session of which two runs
overlapped (`overlapped`), two writes without output in one second (`Alike`).

*Deadlock.* Deadlock checking is on in every run but `server_live` and those of
`ToolApproval`, whose session may rest after any turn: `Quiescent` (`Finished`,
`Done`) is enabled only when every request was answered, every turn is over and
every server has drained, so a state in which something hangs is a deadlock.
Modules that share a run name it apart (`AgentDone`, `HostedDone`,
`InvokedDone`, `StoreDone`, `ForegroundDone`, `FilesDone`). `server_live`
switches it off because `ServerSpec` promises nothing of the handler, whose
silence is not an error there.

*Fairness.* `ServerFairness`: writes of the store take effect or fail, timers
fire and continuations run (the event loop runs every settled promise).
`EveryTurnEnds` and `DrainEndsEventually` state their further hypothesis, that
a started handler ends (`HandlerFairness`), in the property itself; `drain()`
waits for handlers and says so. `CancelIsAnswered` needs no fairness of the
handler, which is the point of the grace. In `stream` the run and the pulls of a
subscriber that reads are fair, and the handler of a streamed turn, its cleanup
and the store are, the client is not; attempts and requests over the MCP
connection settle and continuations run, `close()` is never forced; of the file
store only safety is checked. `turns`, `clients` and `approval` check safety, and
that nothing hangs.

*Mutants.* Each property of a passing run has one under `mutants`: a dropped
guard, a missing reset, a swapped order in one definition, under which the same
run must find that property violated.

## 4. Proofs

Every theorem holds for all values of the constants, from the named assumptions
in the modules (sentinels differ from data, bounds are naturals, requests are
records with the fields they need). Each proof module has the same shape:
an inductive invariant `IInv`, `Init => IInv`, one lemma per action,
`IInv /\ [Next]_vars => IInv'`, and the properties from it.

* `ResponsesServer_proof`: `ClaimsAreLive`, `ExclusiveTurn`, `DrainedIsQuiet`,
  `NoOrphanLog`, `CancelIsFinal`, `ToldIsStored`, `LogIsKept`,
  `NoGapInAnswers`, and that the server implements `ResponseContract`
  (`KeepsContract`). `IInv` says who waits for each queued write, that each turn
  has at most one in the queue and that a DELETE is behind the puts of the run it
  found (`QueueInv`), that a turn at work holds its id unless a cancelled one was
  dropped (`HeldAtWork`), what a cancel and a decision mean for a turn
  (`TurnInv`, `RequestInv`), that both what is filed and what is on its way to be
  filed is the verdict (`FiledInv`), and whom a drain waits for (`DrainInv`). For
  the action properties every step is first shown to be one of five kinds
  (`EveryStep`): it is silent, decides, tells, files or forgets.
  `NoGapInAnswers` needs more (`GapInv`): a background run whose end is decided
  can be read back or its caller knows that it cannot, and a DELETE that comes
  behind the put of a run had found that run, so that it takes the claim along
  with the record. This is where `AloneAtStore` is assumed, one server on a
  store: a DELETE through another server has no run to find and takes the record
  from under it, so the id is for a while neither claimed there nor stored. With
  several servers the code does not promise more.
* `Streams_proof`: all safety properties of the feed, and of the foreground
  stream its safety property, `RecordedOnceFirst`. Those of the feed are not
  inductive: that a subscriber never reads outside the window depends on where
  cursors may be when a trim happens. `IInv` adds that the buffer is exactly the
  tail of the stream from `base` on (`WindowIsTail`), that nothing is trimmed
  below the cap (`CapInv`, `ReplayInv`), where cursors may be (`CursorInv`) and
  what a subscriber that ended has seen (`EndInv`). `StreamsAreWhole` is the
  property the run checks, `StreamIsWhole`. `ForegroundInv` says who may offer
  the turn to the store: the writer, with its attempt, or the teardown, of a
  source that is closed while nothing was attempted, and never both
  (`OfferInv`).
* `Turns_proof`, of the repaired event stream: all its safety properties.
  `EventsInv` ties the three flags to the wire (`FlagsInv`), says what may be
  held (`HeldInv`), when the generator is over (`EndedInv`), and that the tracked
  output keeps each reported item exactly once (`OutputInv`).
  `StreamTellsTheResource` puts them together into the property the run checks,
  `TellsTheResource`.
* `ToolApproval_proof`: `EndsOnAnAnswer` and, of `WellFormedRequest`, its first
  part, `ReadableRequest`, under `Spec`, for any number of turns and calls, any
  tools, any budget of iterations and errors, and any finite set of call ids
  (`IdsAssumption`). The second needs most of what is known of a turn: a result
  is sent twice only if a call was executed twice, and that depends on which
  requests and decisions the transcript still has. `ApprovalInv` says which
  calls there are and what the variables are made of (`MadeInv`, `TypeInv`),
  that a service which keeps the conversation has all of it (`KeeperInv`), what
  is empty between the stages of a turn (`StageInv`), that a call of a batch is
  still to run, has its result or waits for a human, and that neither it nor any
  call which waits has been answered (`BatchInv`), that the transcript has each
  result once, behind its call, and no request behind a result of its call, and
  that what is held back was never shown (`HistoryInv`), and what the next
  request holds (`MessagesInv`). `AnsweredNeverRuns`, of the same invariant, is
  about steps: a call whose result is in the transcript never runs again. Before
  that come lemmas about the operators of `ApprovalScan` for a transcript of any
  length: what `At` picks, that `Rebound` keeps every other item in its order
  and binds a decision to a call on record, that `Decided` has at most one
  decision of an id. `At` and `FlattenSeq` are recursive functions; where an
  induction would stand, the proof takes the least number for which a claim
  fails (`LeastNat`).
* `ToolApproval_proof`, of a human's answers: `OnlyWithConsent` and
  `AnAnswerCounts`, as general as the above, with the assumption that no tool is
  both free and one that needs approval (`KindsAssumption`). `ConsentInv(id)`
  is, of the calls of one id, what the transcripts say of them (`TraceInv`), and
  that a call which needs approval has run, or is about to, at most once per
  yes, unless the caller cut a turn between the call and its result
  (`CountInv`). The last is what consent comes to. It is not inductive alone: a
  decision names an id, and the code binds it to the latest request of that id,
  so what matters is that this request is the one the human saw. Therefore
  `TraceInv` says that behind a request nothing of an older call of its id is
  left to come (`Ordered`, `Follows`), that the slots have one call of an id
  (`PendInv`), what the caller holds and what of it is open (`HandInv`,
  `OpenInv`), that the decisions on record were made by the human who was asked
  (`AnswerInv`), and where the calls of a turn under way stand towards the
  transcript (`InputInv`, `LiveInv`, `MsgInv`, `OwedInv`, `AutoInv`). The steps
  which end a turn are treated together (`Leaves`). The invariant of the
  specification, `ClearInv`, has `ConsentInv(id)` for each id that is not
  muddled: the steps of one id do not disturb another, and a step that would
  leave an id overshadowed or orphaned puts it in `muddled` (`MarkInv`). Both
  situations must be exempt: an orphaned call, once released, breaks `LiveInv`,
  for the store then has the older request of its id.
* `ToolApproval_proof`, of every id, muddled or not: `ConsentOfItsId`. `YesInv`
  says that each yes in the transcript, in a turn's input or being acted on has
  a yes of the human to a call of its id, and that a gated call whose turn to
  run has come is of such an id; the code reaches it only through a decision,
  however that was bound.
* `McpConnection_proof`: the safety properties of the connection. `IInv` adds
  that nothing has closed or lost the client of an attempt somebody still awaits
  (`AwaitedIsFresh`), that nobody waits for what is cached already
  (`CachedIsResumed`), and that all waiters of the attempt under way connected
  for the current generation (`WaitersAgree`, `SharedIsCurrent`).
* `Turns_proof`, of an agent that a program runs: `StoredOnce`,
  `ReplaysWholeExchanges`, `ToldOnce`, for any number of runs, chunks and
  crashes. `ToldInv` counts what the first and the last provider have been told
  at each stage of a run. Of an exchange there may be at any time lines in the
  file, a token, a run and an operation in the queue of the file; `AgentInv`
  says that what the last three may still write is not in the file yet
  (`PendingInv`, `TokenInv`), that one run at a time is about an exchange
  (`BegunInv`), that the answer to the last question in the file is what the
  head of the queue writes (`FileInv`, `OrderInv`), and that whoever was
  answered has its exchange there (`AnsweredInv`). `StoredOnce` assumes `Replay
  = "rest"`, a service that sends a resumed run what is left: with one that
  sends all of it chunks are stored twice, which is the finding of
  `resumed_twice`.
* `Turns_proof`, of a hosted turn: `DecisionsCount`, from `HostedBase` (turns
  come one after another, what is decided is of earlier ones, and the requests
  kept are those of turns that told of theirs or ended), and
  `ContinuesTheConversation`, from `ContinuesInv` (what a session remembers is
  the turns it continues and itself, and so is the snapshot it leaves). The
  latter assumes `~EarlyAbandon`: a caller that leaves at one of the first two
  events leaves a turn without a snapshot, which is the finding of
  `abandoned_early`.
* `Turns_proof`, of the Invocations protocol: `TurnsStayApart`, for any number of
  requests, keys and sessions. The tails in `locks` and the `behind` of the
  requests make a queue of each key; the invariant says that there is an order of
  arrival in which the tail is last and everybody waits for one before it
  (`QueueInv`), so that nobody waits in a circle and one holds the session. It
  adds how a body and its stream may end (`StreamInv`), that what was told, what
  the body and what the stream hold are together what the run said (`TextInv`),
  and that the session of who works is in the map (`SessionInv`), which is what
  an eviction could break.
* `Stores_proof`, of the memory store: `LeadsToTheResponse`, for any number of
  ids, conversations, owners, turns and any cap. `StoreInv` says that an id is
  once in a map (`MapInv`), that a log is below its response, that the index is
  the aliases turned round (`AliasInv`), and that an alias which is not `late`
  leads to the response of its own turn, which is what a deletion must keep.
* `Stores_proof`, of the store in files: `FilesAreAtomic`, that `FileStore`
  implements `AtomicStore`, and `LogsHaveRecords`, for any calls, ids, owners and
  providers of which no two have calls for one id (`OneProviderEach`; without it
  both are lost, section 6). `FilesInv` says that a
  call past its first read is at the head of its chain (`Turn`) and that what it
  has read still stands (`StillStands`): a put still may replace what is filed, a
  putEvents still finds its generation, a delete still finds its own record, and
  no log once it has removed it. That is what makes the write the moment of the
  whole call.
* `Stores_proof`, of the Foundry store: `AcceptedIsHeld` and `ReplayIsOfTheTurn`,
  for any number of sandboxes, writes, attempts, deletes and crashes. The
  assumption is `WellWritten` of section 2, about what the sandboxes write.
  What was accepted is not enough to induct on: `IInv` adds that a write that is
  about to be mirrored is accounted for (`WriteInv`), that every record in a
  mirror is, that no log is without a record and that a delete has dropped the
  log when it comes to the record (`MirrorInv`), and that a reader past the
  fence holds the generation of the answer (`ReaderInv`). Most steps touch one
  sandbox's files only; `Aside` treats them all.
* `Providers_proof`, of the skills: `SkillsAreItsOwn`, for any number of runs and
  isolation keys and any length of time. `SkillsIInv` says that the cache
  holds the newest load of a key, or that every load of the key has failed or is
  out of date (`EntryInv`), that a run has started at most one load and has not
  heard of one whose failure is still cached (`SkillsRunInv`), and what a load
  that is done holds (`SkillInv`). This is why an eviction must compare what it
  evicts: without that `EntryInv` is lost.
* `Providers_proof`, of the memory: `RemembersItsOwn`, for any number of runs,
  sessions and scopes. The assumption is `Named`, that no session or scope is
  called as the missing one is. `MemoryIInv` says that what the memory of a
  session, a run under way and an update carry is of the scope to which the
  session is pinned (`MemoryInv`, `MemoryRunInv`, `UpdateInv`), and, of a session
  whose runs have never overlapped, that one run is under way at most and that
  the memory knows the newest update that was told (`PastInv`); `ProfileInv` adds
  that a session which has no profile yet has had no answer. Steps that move one
  run and its own session are treated together (`Goes`).
* `SequenceLemmas`: what `RemoveAt`, `Append` and an EXCEPT at one place leave
  of a sequence. They are stated for sequences of any set, and say of each
  position of the one where it is in the other.

What stays with TLC, and why:

* Liveness under fairness, everywhere.
* `RepliesAreReplayed` of `HostedTurn`, `StreamedIsAwaited`, `RequestIsSendable`
  and `RestoredIsReplayed` of the clients: each compares two folds over the same
  contents, so a proof is an induction over data, once per form of content.
* `NoMoreRunsThanYeses` of `ToolApproval`, which sums over the calls of an id,
  and of `WellFormedRequest` that a call goes out with its result and once,
  which relates what a request was built from to all that earlier turns left in
  the transcript. `AnsweredNeverRuns` is the part of both that is proved.

Theorems that name no property of a run (`MemoryIsBounded`, `CancelHolds`,
`LiveClaims`, `AnsweredNeverRuns`, ...) are about conjuncts of the inductive
invariants, or weaker than a property that is run; `KeptLog` (`LogIsKept`),
`ConnectsEnd` (`CloseEndsConnects`) and `LogsHaveRecords` (`LogHasItsRecord`) are
properties that are proved and not run, and so are the type invariants.

## 5. Plan

Done: the server with its contract, feed, foreground stream, lifecycle and
stores; the MCP connection; tool approval; the runs of an agent; hosting behind
both protocols; memory and skills; the three clients with the folding of
updates; the proofs of section 4.

Next, in the order of what matters most:

1. Liveness of `Invocations` and of `AgentRun` under the fairness of the event
   loop and of a client that reads.
2. Overlap: two consumers of one stream, overlapping turns of one conversation
   in `HostedTurn`, overlapping runs of two A2A sessions.
3. Middleware pipelines and the tools of a skill inside the loop of
   `ToolApproval`.

## 6. Where the code and its comments differ

Each of these is a run that must find its property violated; the quotes are in
`findings`.

* `resumed_twice`: a resumed stream is replayed by the service from its start,
  behind the updates that the token carried: the first half comes twice.
* `abandoned_early`: a caller that leaves at one of the first two events of a
  hosted turn leaves a response no later turn can follow.
* `released_early`: a client that cancels its body while the run is asked for
  an update releases the session under that run.
* `consent_moved`: turns that failed leave the request of one call in the
  transcript and that of a later call of the same id in the store; the yes to the
  first is rebound to the second, which runs.
* `sent_twice`: a call that a middleware deferred is in the transcript raw and
  once more as its answer replayed it; from the next turn on the model is sent
  both.
* `policy_passed`: a call that a `toolApprovalMiddleware` rule would stop, in
  one round with a call of an `always_require` tool, is approved by the
  framework.

Found with these models and not run:

* Of `FileStore`: two servers that were given no store have a provider each over
  the same directory (`server.ts:196`), with a queue each (`file.ts:75`): a put
  of one owner replaces what another one's has just stored, against
  `provider.ts:83-84`. This is `FileStore` without `OneProviderEach`.
* Of `ResponsesServer`: a cancelled run whose response was deleted is not waited
  for by a `drain()` that starts later (`server.ts:211-223` says all are); a
  write issued while a DELETE is on its way to the store stores the deleted
  response again (`resource-routes.ts:199-202`).
* Of `ForegroundStream`: a shutdown can end the body of a client that still
  reads without any terminal event (`foreground.ts:112-114`); an abort while the
  terminal state is being stored settles the claim, and lets `drain()` go on,
  before the put is done (`foreground.ts:87`; `background-run.ts:212-214` says
  otherwise).
* Of `A2A`: a run that is resumed when its task has an artifact gets it from the
  snapshot that opens the stream and from the one that closes it
  (`convert.ts:310`, against `agent.ts:119-121`); `StreamedIsAwaited` exempts it.
* Of `AgentRun`: an `afterRun` that throws, as when the history cannot be
  appended, leaves the providers behind it without the end of the run
  (`agent.ts:753`).
* Of `McpConnection`: a connection that `close()` ended is opened again by the
  retry of a call that was under way (`connection.ts:282`; 237-238 says caching
  the result "would resurrect a connection the caller believes is gone").
* Of `ToolApproval`: with a service that keeps the conversation, a batch that is
  answered in two parts loses the results of the first part
  (`function-invocation.ts:767`); a caller that stops reading between a replayed
  call and its result leaves a decision without a result in the transcript, and
  the next turn runs the call again (`Interrupted`, in `OnlyWithConsent`); a
  middleware that defers a call which was already approved gets the old yes
  replayed, whatever the human answers then; held-back calls are given up with a
  turn that fails (`tool-approval.ts:364`); when a turn that answered a first
  call and failed had held back a free call of the same id, the next turn puts
  the first request back into the store beside the replay, and if a policy then
  defers the free call and that turn fails too, the answer to the new request is
  bound to the call that was answered before; a decision that an abandoned turn
  left behind is taken for the answer to a later request of its id, and the
  answer that the caller gives to that is dropped (`tool-approval.ts:271`,
  against line 291).
* Of `MemoryStore`: a response that is deleted or evicted between the two puts
  of `persistSnapshot` (`server.ts:686-700`) leaves an alias that no cap bounds
  and that still serves the conversation; of an id that is both a response and
  an alias a DELETE removes the alias only and answers that the response is gone
  (`memory.ts:193`).
* Of `FoundryStore`: two turns without output, created in one second, cannot be
  told apart, neither by the reconciliation nor by the replay
  (`response-store.ts:272`).
* Of `MemoryProvider`: with `failureMode` continue a profile search that fails
  overwrites the profile that a concurrent one has found (`provider.ts:217`);
  `whenUpdatesCompleted` returns on an update that was superseded while the one
  in its place is under way; the pending update is the provider's, and an answer
  out of order makes it an older one.
* Of `Skills`: a load works with the context of the run that started it, so the
  abort of that run fails every run that shares the load (`source.ts:66`, 155);
  a source that fails inside an aggregate is cached as a list without its skills
  and reported to the starter only; a run that asks between the failure of a
  load and its eviction, in one microtask, still gets the failure.

Observed while modelling: an item a handler emits after its cancel was answered
is shown on the cancelled response (`resource-routes.ts:247-251`); while a run
whose response could not be stored winds down, GET answers with its terminal
status (`terminal.ts:47`); a second connect can start beside one that `close()`
has disowned, both under way at a time (`connection.ts:228-237`).

## 7. Not modelled

Structured output, JSON schemas and telemetry are conversions and spans without
state beyond one call. The HTTP adaptation, id minting, request validation and
error texts of the server plumbing, the request options and error mapping of
the clients, the content conversion of MCP and the Foundry client and
conversation wrappers have no order that could go wrong. Middleware pipelines
are modelled as far as a policy uses them. Samples, scripts and the meta package
re-export or show the rest.
