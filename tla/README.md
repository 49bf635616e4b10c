# A TLA+ model of the ByteBrew engine

ByteBrew is an engine for LLM agents written in Go (`src/engine`), with an
admin UI and a chat widget. This project models the parts of the engine in
which several goroutines, requests or database transactions meet, checks them
with TLC on small instances and proves the most important results with TLAPS
for instances of any size.

Paths below are relative to `src/engine/internal` unless they begin with
`src/`. `PROJECT.json` maps each definition to the lines it models.

## Inventory

### How the parts work together

A client posts a message. `ChatHandler` calls the chat adapter, which creates
or finds the session in the `SessionRegistry`, subscribes to its events,
enqueues the message and asks the `Processor` to run a loop for the session.
The loop takes one message at a time and executes a turn: the agent engine
calls the LLM and the tools and publishes events, which the registry copies
to all subscribers; the adapter forwards them to the client as server-sent
events. `PROCESSING_STOPPED` ends the stream, after which the adapter stops
the loop and removes the session.

A turn takes the agent's definition from the agent registry and its LLM client
from the model cache. Both are filled from tables that the HTTP API, the admin
tools of the built-in assistant, a template fork or a configuration import
change while turns run; whoever changes a row has to see to it that the copy in
memory follows.

Inside a turn, the supervisor's spawn tools start further agents in the
`AgentPool`, each in a goroutine of its own, and wait for them. A schema's
relations say which agent may delegate to which; such a delegated run goes
through the lifecycle manager, which keeps the exchanges of persistent agents,
or through the dispatcher, which wraps it in a task packet. Agents work on
engine tasks, rows of a PostgreSQL table that agents' tools, the HTTP API and
the pool change concurrently. MCP tools are calls over a transport to an
external server; they pass through a circuit breaker, one per server, shared by
all sessions.

### Components

| Component | State | Operations | Hard behaviour | Module |
|---|---|---|---|---|
| Circuit breaker, registry, tool wrapper (`service/resilience`, `infrastructure/tools/circuit_breaker_tool_wrapper.go`) | state, failures in the window, time opened, breakers by name | AllowRequest, RecordSuccess, RecordFailure, State, Get, Reset | calls in flight across state changes, time | `CircuitBreaker` |
| Session registry (`infrastructure/flowregistry`) | sessions, message queue, subscribers, reply channels, cancel function | CreateSession, Subscribe, PublishEvent, EnqueueMessage, Cancel, RegisterAskUser, RemoveSession | bounded buffers, channels closed under senders, lookup and use under different locks | `SessionRuntime` |
| Session processor (`service/sessionprocessor`) | active loops, turns, per-turn context | StartProcessing, StopProcessing, processMessage, RequestConfirmation | deferred cleanup by session id racing a successor, timeouts | `SessionRuntime` |
| Chat adapter and handler (`app/chat_http_adapter.go`, `delivery/http/chat_handler.go`) | one goroutine and stream per request | Chat | teardown after "done", client disconnects | `SessionRuntime` |
| Agent pool (`service/agent`) | agents, session contexts, interrupt contexts, subtasks, run rows | Spawn, RestartAgent, StopAgent, WaitForAgent, WaitForAllSessionAgents, NotifyUserMessage, RemoveSession | a session removed at any point of an agent's life, background row updates, waiting | `AgentPool` |
| Engine tasks (`domain/engine_task.go`, `configrepo/task_repository.go`, `taskrunner/engine_task_manager_adapter.go`) | rows: status, time stamps, parent | create, subtask, status, assign, edit, cancel | read-modify-save of whole rows, a recursive transaction | `EngineTasks` |
| MCP client over server-sent events (`infrastructure/mcp`, `service/mcp/connector.go`) | pending requests and their channels, connection, endpoint, streams | Connect, Send, readSSE, reconnect, Close | answers racing reconnection, timeouts and Close; a send with the lock held | `McpTransport` |
| Models (`configrepo/llm_provider_repository.go`, `app/model_service_http_adapter.go`, `infrastructure/llm/model_cache.go`) | rows with a default flag, bindings of agents, cached clients | create, update, patch, delete, SetDefault, backfill, Get, Invalidate | one default among racing promotions, a client cached from an old row | `ModelCatalog` |
| Schemas and delegation (`app/http_adapters_schema.go`, `configrepo/agent_relation_repository.go`, admin tools) | schemas, relations, agents, sessions | create, update, delete, fork of schemas; create, rewire, delete of relations; deletion of agents | a cycle check and an insert in different statements, whole-row updates | `SchemaGraph` |
| Agent definitions and agent registry (`infrastructure/agentregistry`, `app/agent_manager_http_adapter.go`, capability service, import) | the agent's row with its capability; what the registry was loaded from | create, patch, put, delete, import, restore, reload, GetForContext | a load that began before a change and ends after it | `AgentConfig`, `RegistryPromise` |
| Lifecycle manager, dispatcher, spawner (`service/lifecycle`, `app/lifecycle_adapter.go`) | instances, contexts of persistent agents, task packets | ExecuteTask, Dispatch, Spawn, FinishTask, Reset | one persistent instance executing twice, settings edited meanwhile | `Lifecycle` |
| Task executor and worker (`service/task`, `taskrunner/task_executor.go`) | queue | Submit, Execute | started, but nothing outside the tests calls Submit | not modelled |
| Event store, agent engine, LLM clients, most tools, shell, LSP, knowledge, memory, HTTP API, UI | see `PROJECT.json` | | mostly I/O and text, or single statements | not modelled |

What makes each of the modelled parts correct:

* *Circuit breaker*: it opens exactly when the threshold is reached by
  consecutive failures inside the window, whoever reports them; an open
  breaker closes only by way of a probe and always gets to one.
* *Session*: a chat sees its own turn and nothing else; an accepted message is
  answered; no event is sent on a closed channel; one loop per session; a
  guarded tool runs only when the user agreed.
* *Agent pool*: no wait is left behind, whatever happens to the agent or the
  session; what a wait reports is final and was announced first; the limit on
  running agents holds for those with a row; a subtask is completed by the
  agent that answered it, unless the database refuses.
* *Engine tasks*: columns agree; the tree is bounded; cancels do not wait for
  each other; an ended task stays ended.
* *MCP transport*: one connection at a time; a tool call is made again only
  when the server refused its session; every call returns, whatever happens to
  the connection.
* *Models*: one default, handed over and never just dropped; a cached client is
  as new as its row.
* *Schemas*: no cycle of delegation; an update changes what it was asked to.
* *Agent definitions*: the registry does not lack a change whose request has
  returned; a partial update changes what it names.
* *Lifecycle*: an exchange is kept until its context is cleared; the manager
  fails no run its agent answered without a cause.

## Modules

### CircuitBreaker

One resource name with every breaker object ever created for it: `Reset`
empties the registry, tool wrappers keep the breaker they captured. Every
method runs under `cb.mu`, so `AllowRequest`, `RecordSuccess` and
`RecordFailure` are one step each; the tool call between them is not, so calls
admitted in one state report in another. `Observe` is `State()` (and a
snapshot), which changes open to half-open as a side effect. Time is kept as
ages that stop growing at the constant they are compared with, which makes the
state space finite without bounding time. `recent` is a history variable: the
last outcomes, independently of what the breaker keeps.

### SessionRuntime and ChatPromise

One session id and several chats that use it. An entry of the registry is
named after the chat that created it, and so is a loop after the chat that
started it; a removed entry lives on as long as somebody holds it, which is
where the interesting behaviour is. `SubscribeLookup` and `SubscribeAttach`
are separate steps since the code uses two locks; so are the lookup and the
send of EnqueueMessage (`EnqueueLookup`, `EnqueueMessage`) and of
SendAskUserReply (`SendAskUserReply`, `ReplyArrives`), which send after the
locks are released. The other methods that take a session id (PublishEvent,
RegisterAskUser, Cancel and the like) are one step each, which leaves out a
removal or replacement of the entry between their lookup and their work under
the entry's lock. Turn steps follow
`processMessage` including its early returns and its deferred calls
(`TurnCleanup`), which go by session id and so may hit another loop's turn.
What the LLM and the tools do is external: a turn publishes, may ask for a
confirmation and returns or fails. `ClientPolicy` says when a client sends
again: after the end of its previous stream (`waitEOF`), after "done"
(`waitDone`), or at any time (`any`).
`ChatPromise` is what a chat looks like to a client that waits: a message is
sent, events of its turn are carried to the client, the turn is over, "done" is
read, the stream ends, and only then the next message is sent.

### AgentPool

One session, its agents and the tool calls that spawn and wait for them. An
agent's goroutine goes through running, marking, settling its subtask, telling
the client and closing its completion channel as separate steps, between which
`StopAgent`, `CancelTurn` and `RemoveSession` may come. The row of an agent may
fail to be saved; `UpdateRun` writes it from a background goroutine, in any
order. Contexts are numbered; a context is done when it is no longer the
current one. CompleteTask and FailTask may fail, which is only logged; the
history variable `unsettled` remembers the agents this happened to. Interrupts
(`NotifyUserMessage`, the claim, the cleanup that reads under one lock and
deletes under another) follow `interrupt_manager.go`.

### EngineTasks

The rows, and requests that read a row, change their copy and save all its
columns. One step is one statement, except where nobody can tell (the walk up
the parents, which never change). `Cancel` is a transaction under read
committed: rows it has saved are locked for other savers and invisible to
readers until `CancelCommit`. `Fail` is an error or a cancelled context
anywhere in a request. The walk of `cancelRecursive` is depth first; the model
may visit the tasks it has found in any order, which includes that one. That a
transaction is undone as a whole is taken from PostgreSQL, and no property
tests it.

### McpTransport

One server: the connector, one goroutine per request, one reader per stream. A
section under `t.mu` is one step and the lock appears only as `sending`, the
channel a reader blocks on while it holds it; `t.cancel` is not guarded by the
lock in the code, so its reads and writes are steps of their own. A reader that
finds its stream ended or its endpoint refused calls `reconnect`, as does a
request whose session the server has forgotten; `reconnectMu` queues them.
`doSend` goes through registering its channel, reading the URL, posting and
waiting, and each wait may time out. The server is external: it opens a session
per stream, answers an accepted request at most once (an error status being an
answer) and may drop a stream at any time. Since `isSessionError` looks for the
word "session" in any error, the server may answer so to any request, on an
open stream as well, and before or after it has run the call; `misled`
remembers the calls it ran first.

### ModelCatalog

The models table with its partial unique index on the default
(`src/engine/migrations/add-models-is-default.yaml`), the agents' bindings, and
`ModelCache`. PUT and PATCH of a model may change its kind; PUT of an agent
accepts the id of a model that is not there and then binds none. A request is a
sequence of statements; the two of `SetDefault` run in one transaction under
read committed, with the rows it has touched locked and the selection made
before the wait checked again after it. A row's other columns are a revision
number, and so is a cached client, so that "the cached client is out of date"
can be stated. `unexplained` remembers the models for which the code itself
leaves an old client behind.

### SchemaGraph

Schemas, relations and the agents they refer to. A request looks up its row,
lists the edges for the cycle check, and writes, in separate statements; the
flags `rowRaced` and `edgeRaced` record that another write came in between. A
fork writes the relations of a template; those shipped in
`src/engine/schema-templates.yaml` have one or none, between two agents, and so
have the forks of the model. `reachable` is the breadth-first search of the
cycle check, compared by the assumption `ReachableIsPath` with the definition
of a path: TLC evaluates it in every graph of the instance, and
`SearchFindsPaths` proves it for all. The agents are those of `Lifecycle`:
`AgentIds` declares them for both. Names the two modules would share are longer
here (`GraphSpec`, `AfterStep`), so that one proof module can extend both.

### AgentConfig and RegistryPromise

The agent's row, its capability, and the registry the runtime reads. Committed
changes are numbered, so what a registry was loaded from is a number. In
single-tenant mode `Load` reads outside its lock and replaces the contents; in
multi-tenant mode a change drops the tenant's registry and the next chat loads
it with the manager's lock held. A request with a tenant id in its context
calls InvalidateTenant, which does nothing in single-tenant mode
(`agentregistry/manager.go:117`): the agent service reloads afterwards
all the same (`HTTPAgentRefresh`), the capability service does not
(`InvalidateNothing`). `refreshed` is the last change whose request did refresh
the registry and has returned. `RegistryPromise` is the abstract cache: a
change that was acknowledged is never missing from it. `AgentConfig` implements
it under the mapping of `Promise` (in the per-tenant mode; in the other mode
the mapping asks for nothing).

### Lifecycle

The runs of one chat session: a call of the spawn tool is routed by the
agent's setting at that time, an instance is taken or made, marked ready and
running, the agent answers or fails, and the manager stores the exchange and
finishes the instance, in the order of `manager.go`. A run dispatched for a
task uses the task's id for its session, and so do the runs nested in it;
`Dispatch` has no caller outside the tests. Runs nest and several may
be under way for one agent. Between any two looks at an instance another run
may change it.

`MC*.tla` extend these modules with symmetry sets for TLC; `*_proofs.tla` hold
the theorems.


## Runs

Passing:

| Run | Checks | Shows |
|---|---|---|
| `circuit_breaker` | TypeOK, ClosedHasNoStreak, OpensOnlyOnStreak, OpenNeverClosesDirectly, OpenEventuallyProbes | AC-RESIL-09 to 11 hold with three callers in flight, resets and the clock at any point |
| `session_sequential` | KeepsChatPromise, AcceptedIsAnswered | a client that waits for the end of each stream gets its own turn, "done" when that is over and then the end, although the previous loop is still winding down |
| `session_concurrent` | TypeOK, SubscribersOpen | two chats on one session in any order, with all buffers of size one: no event is sent on a closed channel, and no subscriber's buffer holds more than its capacity |
| `agent_pool` | TypeOK, DoneIsSignalled, WithinLimit, CompletionRecorded | two agents on one subtask, restarted, stopped, cancelled and removed anywhere, while their rows are updated late: one slot is given once among the agents with a row, every goroutine leaves its channel closed, and an answer completes the subtask unless CompleteTask fails |
| `agent_pool_waits` | NeverReportsRunning, ReportedIsAnnounced, WaitsEnd | two waiting calls, of either kind, end once their agent is cancelled or the user interrupts, and report what was announced |
| `engine_tasks` | TypeOK, RowsConsistent, DepthBounded, NoWaitCycle | two requests on a tree of three tasks |
| `mcp_transport` | TypeOK, OneLiveConnection, RunAgainOnlyIfRefused, CloseSettlesPending, EverySendReturns | connecting, a tool call, dropped streams, session errors before and after the call was run, lost and late answers, reconnections and Close in any order |
| `model_catalog` | TypeOK, AtMostOneDefault, StaleClientsExplained, DefaultHandedOver | two administrators' requests at once and a turn, from every consistent state of the tables |
| `schema_graph` | GraphTypeOK, CheckedEdgesAcyclic, UnnamedFieldsKept | two callers change relations, schemas and agents; the search of the cycle check is right on every graph |
| `agent_config` | TypeOK, StaleOnlyIfOvertaken, RegistryKeepsPromise, UnnamedFieldsKept | two callers use every interface that writes an agent or a capability while chats load the registry |
| `lifecycle` | TypeOK, ManagerErrorExplained, NoExchangeLost | nested and parallel runs of two agents whose settings are edited |

One run shows a violation, a finding in `PROJECT.json`: in `session_confirm`
the removal of a session closes the reply channel on which
`RequestConfirmation` waits, and the empty string received from it counts as
the user's consent (ConfirmedByUser).

Every property of a passing run has a mutant: a plausible bug in one mapped
definition that makes TLC report the property.

### Bounds

* `CircuitBreaker`: three callers and a threshold of two, so that late
  failures alone can reach the threshold while the breaker is open (one caller
  opens it, two report late). Window and interval of two ticks distinguish
  "inside", "at the edge" and "past". One breaker object: breakers share
  nothing, and the theorems are for any number.
* `SessionRuntime`: two chats make every pair of chat, entry and loop meet.
  `SubscriberBuffer` is 4 where a property is about answers, the number of
  events a turn with `TurnEvents = 1` sends at most; it is 1 in
  `session_concurrent`, so that events are dropped all the time. `SSEBuffer`
  is 1 or 2, so that the forwarding goroutine blocks.
* `AgentPool`: one turn and two calls; `MaxCtx = 2` allows one context to
  replace another. The limit is checked with two agents, one slot and a
  subtask, without waiting calls, which take no part in it; the waits with one
  agent, for which both calls may wait, and without storage, which takes no
  part in them.
* `EngineTasks`: three tasks and two levels: a root, its children and one
  attempt to go deeper. Two requests: the properties are about pairs, and
  NoWaitCycle is stated for sets of any size. `Targets` are the transitions
  that neither assignment nor cancel makes; `needs_input` and `failed` change
  no column that another target does not, and are covered by the theorem.
* `McpTransport`: the two requests of the handshake and then one tool call. The
  connector makes them one after the other, so one request is in flight at a
  time and its retry overlaps only with the reconnections of readers; that the
  retries of two tool calls overlap is covered by the theorems and not by the
  run, hence not for EverySendReturns. Two attempts, so that one fails and
  another follows; three connections, the first and two that replace it. When
  they are used up the server is down, a case of its own.
* `ModelCatalog`: three models of two kinds, one bound agent. Two requests run
  at once and `MaxOps = 2` starts no third, but the initial states are all
  consistent tables, so that nothing has to be built up first. One turn: a
  second would only install what the first could.
* `SchemaGraph`: three agents and three relations, the shortest cycle that no
  pair of edges makes; two schemas, so that edges of one are not edges of the
  other; two callers and three requests, two racing and one whose effect they
  see.
* `AgentConfig`: two clients and three requests: a change, another that races
  it, and a load or reload that overlaps both. One bit per group of columns is
  enough to say who wrote it last.
* `Lifecycle`: three runs of two agents are a run, one nested in it and one
  beside it; one edit changes an agent's setting between two looks at it.

Deadlock is not checked where the system may stop: chats end, agents finish,
nobody is obliged to send or to edit. It is checked for the circuit breaker,
whose clock never stops, and for the tasks.

### Fairness

* `CircuitBreaker`: the clock only. A tool call may never return, and
  OpenEventuallyProbes holds all the same.
* `SessionRuntime`: goroutines that can run are scheduled; a turn returns (the
  engine bounds its steps and every blocking call takes the turn's context);
  a client reads what it is sent. Nobody has to send, reply or cancel.
* `AgentPool` (`LiveSpec`): goroutines that can run are scheduled. `Execute`
  is not assumed to return by itself, only to give up once its context is
  done.
* `McpTransport` (`FairSpec`): one weak fairness condition on all steps of the
  client together: while a goroutine can run or a timer is due, some such step
  is taken. The server never has to answer, to accept or to keep a stream.
* The others state no liveness; circular waiting among cancels is excluded by
  the invariant NoWaitCycle, and a writer's wait for a lock in `ModelCatalog`
  and `AgentConfig` is a guard.

### Refinement

`SessionRuntime` implements `ChatPromise` when clients wait (`waitEOF`). The
mapping takes the phase of a chat from what its client has read, whether the
turn of its message is over and whether it was sent (`PhaseOf`), and, for what
waits to be carried, the message each event in the subscriber's channel belongs
to. A turn that publishes is `Publish`, one that ends is `Answer` whether or
not its last event finds room, the forwarding goroutine is `Carry`; registry,
loop and teardown stutter. StreamIsOwnTurn, the invariant a reader may look for
first, is a part of it. TLC checks it in `session_sequential`, and it is
proved.

`AgentConfig` implements `RegistryPromise`, the promise of a cache to those who
write behind it: what was acknowledged to a writer is in what a reader gets.
The mapping takes the number of the last committed change for `written`, of the
last one whose request has dropped the tenant's registry for `acked`
(`refreshed`; nothing in the other mode), and of the last one the registry has
seen for `cached`. Dropping the registry of a tenant is an
acknowledgement, loading it again a refresh of the cache; all other steps
stutter or write. TLC checks it in `agent_config`, and it is proved.

## Proofs

The theorems hold for all values of the constants that satisfy the named
assumptions of the modules: sets of any size that do not contain the null
value, and positive capacities and thresholds, as in the constants of the code
and in `DefaultCircuitBreakerConfig`, the only configuration in use.

* `CircuitBreaker_proofs`: `SpecTypeOK`, `SpecFailuresBelowThreshold` (a
  breaker that keeps as many failures as its threshold has opened),
  `SpecOpenNeverClosesDirectly`. Invariant `IInv`: the types, that a caller
  past `Get` holds a breaker (`HeldInv`), and FailuresBelowThreshold, which
  the type of `failureCountAtOpen` rests on. `SpecClosedHasNoStreak` and
  `SpecOpensOnlyOnStreak` relate what the breaker counts to what happened:
  `HistoryInv` says that the failures of a closed breaker are the last outcomes
  of `recent`, one for one and with the same ages, and that the outcome before
  them is a success or too old to count (`Tracks`). Trimming drops the expired
  failures, which are the first ones since the list is in the order of time
  (`ExpiredPrefix`).
* `SessionRuntime_proofs`: `SpecSubscribersOpen`, `SpecTypeOK`,
  `SpecStreamIsOwnTurn`, `SpecKeepsChatPromise`. SubscribersOpen is not
  inductive: an entry may be removed between the two halves of `Subscribe`.
  `SubInv` adds that a chat is subscribed only to the entry it looked up
  (`SubscribedToOwnEntry`, `AttachHasEntry`) and that its channel is not closed
  before it has subscribed (`ClosedAfterSubscribe`), so that the one who closes
  it also removes it from the only entry that has it. For the types,
  `SendHasEntry` says that a chat about to send has looked an entry up. The
  last two are about clients that wait for the end of a stream, and rest on
  `OwnTurnInv`: the one chat that has begun and not ended owns the registered
  session (`AloneInv`) and sends into that one (`SendsToOwn`); a message is
  unsent, in the queue of its own entry, with one loop, or finished, however
  late the loops of earlier chats are (`MessageInv`); so what is published
  reaches the chat it belongs to only, and "done" is published when the message
  is finished (`StreamInv`). For `ChatPromise`, `DoneInv` adds that the stream
  of a chat ends on "done" only, which its client reads before the end.
* `AgentPool_proofs`: `SpecDoneIsSignalled`, `SpecNeverReportsRunning`,
  `SpecReportedIsAnnounced`, `SpecWithinLimit`, `SpecCompletionRecorded`,
  `SpecTypeOK`. `PoolInv` relates the place of
  an agent's goroutine to its status, its membership in the pool and its
  channel (`AgentInv`), a call to the agent it spawned (`CallInv`) and the
  channel to the announcement (`AnnounceInv`). `SpecWithinLimit` needs in
  addition that the row of a running agent that was saved says "running" and
  that no late update of it is under way (`RowInv`), and a cardinality
  argument on the set of running agents. `SpecCompletionRecorded` needs
  `TaskInv`: a subtask leaves "pending" with its first agent and stays
  "in_progress" until that agent, if it is the only one, settles it, which it
  has done when it is past that step and not in `unsettled`. `RestType`
  completes the type invariant.
* `EngineTasks_proofs`: `SpecTypeOK`, `SpecRowsConsistent`, `SpecTreeInv`,
  `SpecDepthBounded`, `SpecNoWaitCycle`. A save writes a
  copy read many steps before, so `IInv` demands consistency of all copies and
  uncommitted rows too (`AllConsistent`), and that a request between read and
  write has a task (`LoadedInv`). DepthBounded says how the walk of
  `validateParent` ends, not where it leads. `TreeInv` says that tasks can be
  given levels below MaxTaskDepth, and that a request which has passed the
  check has a level left for its subtask; that the walk counts levels is by
  induction on its length, drawn from the well-foundedness of < on the
  naturals. NoWaitCycle rests on `LockInv`: a cancel locks a part of the tree
  from the top down and two cancels no task in common, so a locked task it runs
  into is the top of the other's part, and waiting leads to ever lower levels.
* `AgentConfig_proofs`: `SpecTypeOK`, `SpecStaleOnlyIfOvertaken`,
  `SpecRegistryKeepsPromise`, `SpecUnnamedFieldsKept`. Few actions touch the
  registry (`RegistrySteps`); all others are `Neutral`: they may commit a
  change and move one client on, and it is enough to show once that such a step
  keeps the invariant. `LoadInv` says that whoever loads for a tenant holds the
  lock under which changes are acknowledged, so that a load has seen all that
  is acknowledged while it runs; `ReloadInv` says the same of a reload, unless
  another was installed since it read. UnnamedFieldsKept is a property of
  writes, but what is written was read earlier: `FieldsInv` says that until a
  request writes, its copy agrees with the row in the fields it does not name,
  unless the row was written meanwhile.
* `McpTransport_proofs`: `SpecTypeOK`, `SpecOneLiveConnection`,
  `SpecRunAgainOnlyIfRefused`, `SpecCloseSettlesPending`,
  `SpecDeliverNeverBlocks` (the send to a response channel under `t.mu` always
  finds room, for a server that answers at most once). The invariant
  says that only the connection `t.cancel` belongs to may be live, and none
  while a reconnection dials (`OwnerInv`, `LiveInv`); that how often a request
  was executed follows from where it is, and that one on its way to the server
  was not run yet or was refused by a session error after its only run
  (`RunInv`, `Refused`); and that its response is in
  one place only, on a stream, with a reader or in the channel (`ChanInv`,
  `AnswerInv`), so that the channel of size one never gets a second.
* `ModelCatalog_proofs`: `SpecTypeOK`, `SpecAtMostOneDefault`,
  `SpecDefaultHandedOver`, `SpecStaleClientsExplained`. `PhaseInv` says what a
  request may be doing at each of its steps and that only the transaction of
  SetDefault holds locks. `StaleInv` extends StaleClientsExplained from the
  clients in the cache to those a Get has built and not yet installed: each is
  up to date, or belongs to the case the property excludes, or the request that
  changed the row is still on its way to Invalidate.
* `Delegation_proofs` is about two modules: how a delegated run goes, and which
  agent may delegate to which.
  * Lifecycle: `SpecTypeOK`, `SpecManagerErrorExplained`, `SpecNoExchangeLost`.
    `AloneInv` says that a run which never shared its
    instance is the only one on it and finds it in a state that fits its own
    place; `QuietInv`, that a persistent instance is finished only while some
    run is about to make it ready again. All steps after an instance was
    obtained have one form (`Shape`), and the frame lemmas are proved once for
    it.
  * SchemaGraph: `SpecGraphTypeOK`, `SpecCheckedEdgesAcyclic`,
    `SpecUnnamedFieldsKept`, `SearchFindsPaths`. The assumption
    `ReachableIsPath` is not used; for a finite set of agents it is what
    `SearchFindsPaths` says. `SchemaInv` relates a request to the tables it has
    read: unless another request has written since, the row it holds is the row
    of its schema, and its edge still closes no cycle (`RequestsOK`). The
    latter is said by `Apart`: some set of agents contains the target, not the
    source, and is left by no other edge. That form survives the steps of
    others, since removing edges leaves such a set closed and adding one sets
    `edgeRaced`; and it gives the step of the insert, since a cycle through the
    new edge would have to leave the set (`AcyclicExtends`). `OwnedInv`, that a
    relation belongs to a schema that is there, is what lets a fork start from
    a graph without edges. That a search without success leaves its agents
    apart (`UnreachableIsApart`) is an induction over its levels: a level whose
    queue is empty is closed, and one whose queue is not has visited more
    agents than there were levels before it (`Searched`), which the last one
    cannot.

Only model-checked:

* The liveness properties OpenEventuallyProbes, AcceptedIsAnswered, WaitsEnd
  and EverySendReturns: TLAPS does not reason about fairness or ENABLED.

Every other property of a passing run is a theorem.

## Known behaviours

The models have these; no run but `session_confirm` states a property of them,
because the code has no caller that could notice, because no text of the
repository promises anything else, or because a property that excludes exactly
this case says more.

Circuit breaker
* The half-open state admits every request, not the "one probe request" of
  the comment (`service/resilience/circuit_breaker.go:81`): nothing counts the
  calls admitted. The first outcome decides, the others are recorded against
  the state it led to.

Sessions
* A subscriber's full buffer drops the event (`session_registry.go:182`). If
  the event is `PROCESSING_STOPPED`, the stream never closes by itself.
* A message sent on "done", before the stream has ended, may be lost: the
  teardown of the previous chat (`chat_http_adapter.go:150`) removes the
  session that accepted it. Hence `waitEOF` in `session_sequential`.
* The deferred calls of a finished turn or loop go by session id. They clear
  the cancel function, the pool registration or the active entry of a
  successor (`processor.go:224`, `:217`, `:137`), after which Cancel and
  StopProcessing miss the running turn, and a third chat starts a second loop.
* Two chats with one id may both find no session and both create one
  (`chat_http_adapter.go:115`). The second entry replaces the first, and a chat
  that has subscribed to the first waits for ever. A message, too, may go into
  an entry that was removed or replaced since it was looked up.
* SendAskUserReply sends after it has released the entry's lock
  (`session_registry.go:299`). If RemoveSession closes the channel in between,
  the send panics in the goroutine of the caller; it has no caller in this
  commit.

Agent pool
* The status of a stopped agent is overwritten by `markFailed` after its
  waiters were told "stopped" (`agent_events.go:112`).
* RemoveSession drops running agents from the pool. `markFailed` then returns
  early, so that the subtask stays in_progress and its row stays "running"
  and takes a slot of the limit (`agent_events.go:108`, `agent_pool.go:435`).
* A restarted agent that completes leaves its subtask failed if the first
  attempt failed: `failed` has no way back, and the error is only logged
  (`agent_pool.go:524`, `engine_task_manager_adapter.go:310`).
* A failed Save is logged and the agent runs uncounted, so the limit does not
  apply to it; a failed count refuses the spawn (`agent_pool.go:431`, `:448`).
* A failed CompleteTask or FailTask is logged and the goroutine goes on: the
  client is told that the agent ended, and the subtask stays in_progress
  (`agent_events.go:38`).
* The cleanup of a wait deletes the interrupt context and the claim on a
  reading of `hasRunning` that may be stale (`agent_pool.go:803-814`): a later
  interrupt misses the context, and two waiting calls may both become the
  responder of one message. `NotifyUserMessage` has no caller in this commit.

Engine tasks
* A request that read a task before it ended saves it back as active
  (`task_repository.go:142`): an ended task may become active again.
* A subtask whose parent was validated before a cancel and inserted after the
  cancel has read its subtasks stays active under a cancelled parent
  (`task_repository.go:244`), although Cancel "cancels a task and all its
  non-terminal subtasks" (`:189`). SetTaskStatus with "cancelled" does not
  cascade at all.

MCP transport
* Close during a call closes its channel; Send then returns neither a response
  nor an error (`sse_transport.go:245`).
* A session error makes Send reconnect and post the request again, whatever
  the server did with it before (`sse_transport.go:132`, `:424`): a server that
  runs a tool call and then answers with an error that mentions a session runs
  it twice. One that both sends the response on the stream and returns such an
  error is outside the model: its second response could find the channel full,
  and the reader would block with `t.mu` held.
* A failed Connect drops the client without closing it: a stream that was open
  stays open with its reader. Close in the middle of a reconnection leaves the
  new stream open as well.
* A reader whose reconnection fails exits; nothing reconnects until a later
  request is refused for its session.

Models
* The backfill after a new default binds agents that another request has bound
  meanwhile (`model_service_http_adapter.go:168`), which its comment (`:143`)
  excludes.
* PUT of an agent with a `model_id` that does not exist, or not any more, is
  accepted and leaves the agent without a model
  (`agent_manager_http_adapter.go:147-152`, `:454-459`).
* A model stops being the default without a successor when it is deleted or
  its kind changes.
* The cache keeps an old client if the Get that made it read the row before
  the update and stored it after the Invalidate, and in the further cases
  `unexplained` lists.

Schemas
* Two requests that each pass the cycle check may together close a cycle; the
  admin tools do not check at all.
* PATCH of a schema and the first relation of a schema write back the whole
  row as it was read. An agent's deletion is five statements, without a
  transaction. The entry agent of a schema need not be an agent of it.

Agent definitions
* The record of the admin tools carries neither the policy columns nor, on an
  update, the MCP servers: what was set there is lost (`agent_tool.go:233`).
* When linking MCP servers or knowledge bases fails, the row is written, the
  caller gets an error and the registry is not refreshed
  (`agent_repository.go:153`, `agent_manager_http_adapter.go:211`).
* The comment on the capability service says that "every mutation triggers
  registry invalidation" (`http_adapters_capability.go:18`). In single-tenant
  mode, when the request carries a tenant id (any API token, the tenant
  header), it calls InvalidateTenant, which then does nothing (`:29`): the
  registry keeps the capability as it was until somebody else reloads it.
  StaleOnlyIfOvertaken is about the changes whose request did reload.
* Template forks, relations, backfills and seeds write agents or what belongs
  to them without a refresh. In multi-tenant mode the single registry is nil,
  and import and reload do not reach the registries of the tenants.
* `admin_update_capability` never succeeds: it writes an empty type, which the
  CHECK of the table refuses (`migrations/001_initial_schema.yaml:693`).

Lifecycle
* Two runs of a persistent agent at once may find its instance in a state that
  the manager refuses; ManagerErrorExplained says exactly when. An instance
  that was spawned and blocked is adopted when the agent becomes persistent.
* The chain of ancestors that the adapter checks for cycles
  (`lifecycle_adapter.go:59`) begins with the first spawned agent: a spawned
  agent may still spawn the agent whose turn is running.
* `Dispatch` has no caller outside the tests; the contexts of persistent agents
  have no compactor in this build.

## Not modelled

`PROJECT.json` lists every component with the reason. In short: the inside of
a turn (LLM, tools, prompt assembly) is external and appears as the ways it
can end; rendering, logging and conversion are left out; tenants do not
interact; process crashes are not modelled (sessions and agents live in
memory, and what is left in `agent_runs` is cleaned before any agent starts);
the task executor, the cron scheduler and the orchestrator have no caller that
would start them; the stdio and HTTP transports of MCP share only `Client`
with the modelled one; the language server client, shell sessions and
background processes wrap one external process each.

## Plan

Done: the modules above with their runs; theorems about all nine components,
among them every safety and action property the passing runs check, and the
refinement of both abstract specifications. Next:

1. The executor and worker of background tasks, once something outside the
   tests submits to them.
2. The stdio and HTTP transports of MCP beside the SSE one, behind one abstract
   transport.
