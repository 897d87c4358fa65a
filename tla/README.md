# vurs in TLA+

A verification development for vurs, a Java server (about 16,600 lines under
`src/src/net/vurs`) that learns activities and concepts from short texts, with
a push client for its pages (`src/media/js`) and an environment that pages are
read in without a browser (`src/resources/js`). The modules here model its
concurrent and distributed core; TLC checks them on small instances, and TLAPS
proves the central theorems for every instance. Line numbers in the modules
and below are those of the source files.

## The system

| component | state it keeps | operations | what is hard | what makes it correct | status |
|---|---|---|---|---|---|
| Concept farmers (`ConceptFarmer`, `ConceptFarmerThread`) | the `conceptlink` table as a job queue: state, owner, time of claim; per thread the batch in hand | `acquireJobs` (three statements), `processLink`, `save`, `start`, `stop` | no transaction around select, claim and collect; crashes; lost statements; slow claims overtaken | every link is finished in the end; the states mean what they say; the model is not trained with a page more often than can be accounted for | modelled, proved |
| Consistent hashing ring (`ClusterRing`) | an array in an `AtomicReference` | `add`, `remove`, `rescale`, `findPosition` | lock-free copy on write; probing; growing and shrinking | each call takes effect once and whole; probing ends; a key moves only to or from the node that comes or goes | modelled, proved |
| Remote calls (`ClusterProtocol`, `socket/*`, `GraphProtocol`) | seven kinds of queue between six kinds of thread; cached connections; futures | `getConnection`, `send`, `handle`, `process`, `respond` | lost wake-ups, limits that throw, messages in pieces, one-shot readers | a call is answered, once, with the server's answer; nothing vanishes without a reason | modelled, proved |
| Membership (`ClusterHeartbeat`) | per peer and layer: when it was last heard, when it came up; the rings | send and sweep, receive, discovery, failure | tables of tables changed by two threads; datagrams; two clocks | a live peer is on the ring, a dead one comes off it | modelled, proved |
| Layers (`ClusterLayerManager`, `LayerProtocol`) | active layers | activate, deactivate by remote call | repeated and reordered calls; a second farmer | a layer is announced while it runs | planned |
| Operations and transactions (`Operation`, `Transaction`, `TransactionService`) | the state and result of each operation, its dependencies | `execute`, `getResult`, `bind` | recursion through dependencies; exceptions between states | an operation runs at most once, after what it depends on | modelled (partly), proved |
| Entities on SQL, Cassandra, HBase (`Manager`, `Node`, `Entity`, `conn/*`) | created, dirty fields, key; rows | create, get, save, delete, query | failed statements, proxies, stale entities | what was saved is what is stored | SQL modelled (partly), proved; Cassandra planned |
| Connection pool (`ConnectionPool`) | idle and all connections | acquire, release, shutDown | concurrent use | a connection has one user | modelled (partly), proved |
| Service start-up (`ServiceManager`) | services not yet loaded | setup, load, postInit | cyclic dependencies; servers that start together | every service is loaded after those it needs; a start ends | modelled (partly), proved |
| Badges (`BadgeController`, `LogicalBadge`) | badges earned, definitions | earn, define | read, check, then insert | one definition of a badge; a badge is earned once | defining modelled, proved; earning planned |
| Users, pings, activities (`logic/controller/*`) | rows and columns in two stores | register, login, create | several stores, no rollback | one user to a name | registration modelled, proved; the rest planned |
| DMOZ import (`DMOZConceptSource`) | the batch being built | buildTree, buildLinks | restart; the last batch | every entry is stored | planned |
| Language processing (`nlp/*`) | none | ngrams, skipGram, permute | boundary lengths | the grams are those of the definition | planned (algorithms only) |
| Push client (`cometd.js`, `ajax()` of `jquery-1.3.2.js`) | status, session, message queue, batch count, backoff, scheduled send; the transport's requests, envelopes and long poll, each request's timer | handshake, connect, publish, batch, disconnect; every answer, failure and timer | retries, aborted requests whose timers live, answers that come when their request is forgotten | it never waits for nothing; each message is accounted for and in order; one poll to a session | modelled (partly) |
| Page environment (`env.js`): timers, threads | `$timers`, the running flags, the lock of `sync()`, requests | setTimeout, setInterval, clear, `wait()`, `send()`, `abort()` | a timer chosen under a lock and run without; event loops within each other; a thread that keeps the lock | a function runs once; nothing is left behind; the lock comes back | modelled (partly), proved |
| Page environment: DOM, HTML, CSS, events, parser; page libraries (`jquery.js`, `readability.js`, jQuery UI) | the document | the W3C interfaces, selectors, scoring | -- | what those interfaces say | not modelled |
| Web views, schema generators, utilities, push extensions | none of their own | -- | -- | -- | not modelled |

How they interact. `ServiceManager` loads the services. `ClusterService` owns
one `ClusterHeartbeat` and the protocols; the heartbeat's receiver thread adds
discovered nodes to the rings and its sending thread removes those that fell
silent. A protocol asks the ring for the node of a key and its connection pool
for a connection, and sends; `LayerProtocol` switches layers on and off at
other nodes, one of which starts and stops the concept farmer there. The
farmers meet only in the database. Every access to a store is an `Operation`
bound to the thread's `Transaction`, which groups operations and gives no
atomicity: the tables are MyISAM. A page's push client talks to the servlet
that `BayeuxListener` registers with, a library's. `env.js` stands for a browser
to the page scripts, `jquery.js` and `readability.js` among them; nothing in the Java source
loads it yet, so its caller is modelled as any page.

The behaviours that are hard to test are listed in `PROJECT.json` under
`hazards`, each at its line, with the properties that watch it.

## Modules

| module | models |
|---|---|
| `ConceptFarmer` | the farmer threads over the table |
| `ConceptFarmerProofs` | its invariant and five theorems |
| `RingBag` | what a ring promises: a bag of positions, changed by whole nodes |
| `ClusterRing` | the array, the compareAndSet and the retry; implements `RingBag` |
| `SocketRpc` | one server, its clients, and all threads and queues between |
| `ClusterHeartbeat` | the two threads of the heartbeat and what they know of one peer |
| `ClusterProofs` | the invariant of the heartbeat and two theorems, the invariant of the ring and three |
| `Operation` | one thread's operations, their dependencies, its transaction |
| `ConnectionPool` | the pool of connections; `Operation` composes it |
| `SqlEntity` | entity objects over one SQL table |
| `StoreProofs` | the invariants of `Operation` and six theorems, the invariant of `SqlEntity` and three |
| `Registration` | concurrent requests to register, each with an entity of `SqlEntity` |
| `RegistrationProofs` | its invariant and three theorems |
| `Startup` | starts of servers: the order of services, the badge's definition over `SqlEntity` |
| `ServerProofs` | the invariants of `SocketRpc` and three theorems, the invariant of `Startup` and three |
| `Cometd` | the page's object, its long-polling transport and the jQuery requests, against a server and a network |
| `CometdProofs` | its invariants, the types, that the page never waits for nothing, and that it drops no message without a word |
| `CometdWireProofs` | over `CometdProofs`: that the page has one long poll on the wire, and that its messages leave it in order |
| `Envjs` | timers, event loops and request threads around one lock |
| `EnvjsProofs` | its invariants and three theorems |
| `MC...` | the small instances TLC checks |

### ConceptFarmer

`state`, `stateOwner` and `overdue` are the columns of a row; `overdue` stands
for `stateTime < now - PROCESSING_TIMEOUT`, which is all the code asks of the
time. A thread's `pc` follows `run()`: `SelectFree`, `ClaimFree` and
`CollectMine` are the three statements of `acquireJobs()`, each atomic in the
database and separate from the others; `FetchPage` and `TrainModel` are
`processLink()`, split where other threads can see a difference; `SaveLink` is
`save()`, an UPDATE by id of the one dirty field. A statement that fails
(`Suffer("sql")`) is what `SQLConnection` makes of it: an empty result or no
row changed. `StartFarmer` and `StopFarmer` are `ConceptFarmer`; a second start
forgets the first thread. `Crash` ends a server, `Abandoned` and `Overtaken`
let the thirty minutes pass over the claim of a dead and of a living thread.
`claimed`, `tries`, `lost` and `learned` are history.

Bounds: one node with two threads, as after a second activation or a restart (a
thread's node matters to start, stop and crash alone), two links of which one
is blank, so that the threads always meet, batches of one; `Budget` limits
crashes, lost statements and overtaken claims to one of each. Fairness: weak for each thread's `Round` -- the loop has no blocking call
but the page's, which is given an outcome -- and for `Abandoned`, the passing
of time. A thread that is overtaken is bounded by `Budget`: were every claim
overtaken for ever, nothing would drain.

### ClusterRing

`array` is the array as a function on its slots; `oldRing[t]` is the array a
call has read, and `fresh[t]` says whether `ringRef` still holds that very
array, for `compareAndSet` compares references, and two arrays of equal
contents are not the same. `Call` reads, `Swap` is a compareAndSet that
succeeds, `Retry` one that fails, with the recursive call that follows. The
new array is computed from what was read by `WithNode` and `WithoutNode`, so
growing, probing and shrinking are functions and can be checked on their own.
The densities are compared in integers.

The hash is taken to be a natural number. In the code one hash in 2^32 is not:
`Math.abs(Integer.MIN_VALUE)` is negative, and so is its remainder, with which
`add()` (line 50) and `findPosition()` (line 103) would look at a negative slot and
throw, before anything has changed.

Bounds: at most `MaxOccupied` slots are taken when an `add()` begins. With 6
the array of 12 grows to 24 (a node's three positions make up to 9, and the
density is reached on the way in the smaller arrays), and empty rings shrink to
one slot and grow again.

### SocketRpc

One server is enough: the client's side of a connection and the server's side
share nothing with those of other servers. A message is its request, on its
way out and, echoed by `onRequest()`, back; `At(p)` is the calls at the place `p`, one of
`Places`, and `NoneTwice` says that no queue holds one of them twice. The
length of a message and its pieces are abstracted to whether an end has read
its one length byte (`requestRead`, `replyRead`): `expected` is never reset, so
an end reads one message, or (at most `MaxTorn` times) a first piece of one.
`Stranded` lists the places from which no message returns.

`Others` are connections of nodes that are not modelled: they are connecting
already, take a handler each, and never call.

Bounds: three calls of two clients beside one such connection; the queues are cut to one or two places so
that they fill, `SocketWorker`'s batch to one or two; one refused connection.
Fairness: weak for every thread. An IO thread visits each connection in turn
and does both directions, hence `ReadReply` and `WriteRequest` separately.

### ClusterHeartbeat

What a node knows of a peer is in two tables of inner maps. Their `get()` makes
and stores a missing inner map, and the sweep takes an empty one out again, so
a thread may hold a map that is in no table any more: the inner maps are
therefore identities (`MapIds`, contents in `maps`), and `heard`, `live`,
`putInto`, `lastHeard` and `liveTimes` say who holds which. A step is one access
to a table or an inner map. The peer's clock numbers its starts and beats;
`old` is the beat up to which NODE_TIMEOUT has passed at the receiver, advanced
by `Age` at any time, so that the two clocks need not agree. Beats are lost,
overtaken and delivered late. `ring` counts how often the peer was added to the
ring of BaseLayer (`ClusterRing` models what an addition does).

There are interleavings that part the tables from the ring for good. `mishaps`
records which kind has happened, and `Ghosting` and `Hiding` name the kinds that
each property must except; the properties say that these are all:
  - `ReattachLive` puts back the map of the other table: line 158 passes
    `lastHeardTimes` where the live times were taken out;
  - the failure of one layer takes the peer off the rings of all layers, while
    the live time of another layer keeps its next beat from being a discovery;
  - a last heard time put into a map that the sweep has just detached is lost,
    and a peer added with it stays on the ring when it dies;
  - a restart within the timeout, or a peer that runs several layers, is
    discovered more than once, and its positions are added each time.

Bounds: `MaxTime` starts and beats of the peer, which is enough for a beat that
overtakes another, a death, and a restart whose beats meet the old ones; one
switched layer, one outage. Fairness: weak for each of the two threads, whose
steps do not block, and for `Age`.

### Operation and ConnectionPool

A thread asks an operation for its result, `execute()` runs the operations it
depends on, then its own `op()`, then those that come after. The recursion is
kept as a stack: `top` runs, `caller` leads down; `phase`, `left` and `at` are the
locals of each `execute()`. The dependencies are any graph with at most
`MaxEdges` edges, cycles included, drawn in `Init`, since they are declared before
the first call; the one made for a `PrefetchableOperation` is added by `Begin`,
as `generateAutomaticDependencies()` does when a transaction begins an operation. `Throw` is an exception: it
leaves everything on the stack in its state, marked "stuck", for nothing in the
code resets it. An `op()` on a store is split at the pool: `Acquire`, then the
statement and `release()`. Other threads have transactions of their own and
share only the pool.

Bounds: three operations, one of them prefetching, any two edges, one
connection that cannot be made, one other thread. Two edges make a cycle, a
diamond's half and a chain; a third adds no new pair of neighbours. Fairness:
weak for the thread inside a call; nobody is obliged to call.

### SqlEntity

Several objects may stand for one row, because nothing is cached: an object has
a key, the values it shows (`map`), those to be saved (`dirty`), and `created`,
by which `save()` chooses INSERT or UPDATE. `node` tells proxies, which fetch on
first use, from loaded objects. Null is what `getDirty()` takes for "not dirty",
so setting a field to null is never saved. A statement that fails changes
nothing; one whose answer is lost has changed the table and is reported like
the first. `inserted`, `unanswered`, `missed` and `overtaken` are history: they let
the properties say exactly when a row may be doubled or an object be wrong:
  - an insert without an answer throws in `setKey(null)`, leaves the object
    dirty and uncreated, and the next save inserts again;
  - an update that reports no row sets `created` to false and forgets the dirty
    values, so that the next save inserts a second row with only the fields set
    since. Where it leaves out what the object shows the row holds the default
    (`GapsAreBlank`).

Bounds: two objects, two rows ever, two fields of two values, one of them
unique, one fault. Two objects are enough for one to be stale, two rows for a
doubled one and for a refused unique value.

### Registration

`register()` is three statements: a query for the name, an insert of the user
with his name and e-mail, an update of his password. Each request owns one
object of `SqlEntity`, instantiated over the user table, and every step that
touches it is an action of that module; `pc` says where in `register()` and
`UserLogic.create()` the request is. A query that fails finds nobody, as
`SQLConnection.query()` has it; the unique key then refuses the insert, whose missing
key throws. A request ends "existing" when the name was there, "registered", or
"failed" by an exception or the end of the server. `NoHalfUser` lists who leaves
a user without a password, him who asked for the empty one included; nothing completes him later, for the next request
for his name finds him existing.

Bounds: three requests (two that meet and one that finds what they left), two
names, two passwords and the empty one, two faults.

### Startup

`needs` is the graph of fields: which services a service has fields for, drawn
from `Graphs`. A start goes through `setupServices()`: `CheckNeeds` looks for circles
as the code does, between pairs (and a service with itself), `Load` initialises
any service that is ready -- they come in the order of a hash table -- and
`PostInit` ends it. The one service whose own initialisation is followed is
NeighbourhoodService: its badge controller asks every logical badge for its
definition, and `LogicalBadge.initDefinition()` is a query, then the creation and
save of an `Entity<BadgeDefinition>`, whose steps are those of `SqlEntity`
(INSTANCE). An exception there is logged and the start goes on. `late`,
`blind` and `unsaved` record who was overtaken between query and insert, whose query
failed -- a failed query reads as an empty one -- and whose insert failed:
only that, or an insert without an answer, may leave a server that is up without a
definition of its badge (`AwardsStored`).

Bounds: three starts, which are as many servers or restarts, any of which may
stop anywhere; three services in four graphs: a row, a tree, a circle of two
(the start exits) and a circle of three (it does not notice); one statement
that fails or is not answered. Fairness: weak for a start's own steps, for its
thread does nothing else. A server that stops has ended.

### Cometd

A script runs to its end before the next event, so a step is a turn of the
browser's loop, and the functions of `cometd.js` are operators on the record
`page`, chained as the code chains them: `HandleFailure` lets the request go,
gives up the next envelope, and passes each message to `Failure`; `Connect` calls
`SendMessages`, which calls `LongpollSend`, which may throw. `threw` is a JavaScript
exception: the rest of the turn does not happen. A request is a slot: its
messages, whether it is the long poll, what became of it (`xhr`), and whether its
own timer is set -- the two are independent, for `abort()` clears the one and not
the other. `Poll` is jQuery's look for an answer, `GivenUp` and `Expire` are timers,
`Due` is the one send that may be scheduled. Timers come in any order. The server's side is what
`cometd.js` sees of it: sessions granted, ended, forgotten, and advice.

The properties say what holds and name, through `why`, which accidents they
except. All of the following were met as counterexamples, and removing the
name from the exception brings them back: a garbled answer ends the turn
before anything is scheduled; an answer that arrives when its request has been
reset, or the failure of an envelope that was given up, is handled like any other though
the request is listed no more (`stray`); `handshake()` does not cancel a
scheduled connect (`overtaken`); a batch that ends during a disconnect leaves the
queue to a later session (`kept`); a `send()` that throws fails twice (`throws`).

Bounds: two messages, two connections (one of them the long poll's), a backoff
of one step, five requests alive at once (a turn happens only if two slots are
free, as no turn makes more than two), and any three events out of eleven kinds,
each at most twice: the first handshake, and two accidents or calls that meet,
such as a disconnect with answers still on their way and another handshake. No
fairness: all its properties are of safety, `NeverStuck` being the part of
progress that can be said without a clock.

### Envjs

Rhino's `sync()` locks the object its function is called on, which is the global
object throughout, so there is one lock, reentrant. `stack[t]` holds a thread's
calls of `Envjs.wait()`, for a timer's function may call `wait()` again; `Top(t).pc`
says where the innermost one is: `Select` chooses a timer under the lock, `Run`
marks it and calls its function without, `ClearOnce` and `Rearm` follow.
A request's thread (`Acquire`, `Connected`, `Handled`, `Break`) keeps the lock from
its connection to the end of its own event loop, so the page's loop stops at
its next access to a timer. What a page's functions do is any sequence of
`SetTimer`, `ClearTimer`, `Wait`, `Send` and `Abort`. Of time, only whether a timer is
due is kept, and an event loop may take any that is, or sleep on any if none is,
which is more than the code does: it takes the earliest. The code numbers timers
on and on; `SetTimer` gives a number again when nobody has to do with it any more
(`Unused`), and its history begins anew, so that timers can be set without end.

A request's thread that has got the lock gives it back when its event loop ends,
and that ends when no timer is left. So `LockReturned` has two exceptions: an
interval that nobody clears, and functions that set another timer each time they
run. Either keeps `wait()` (6323-6393) going, and the lock of line 1405 taken, for ever;
without its premise, that a request's thread sets timers only finitely often, TLC finds a
chain of timers that each set the next.

Bounds: the page's thread and one request, which is enough for the race on a
timer, since two requests exclude each other (the proof takes any number); two
timers at a time, two nested event loops, one cleared timer whose number has not
come back. Fairness: weak for threads, for
requests (a connection ends, with or without an answer) and for time; strong
for a page function's return, because it may call `wait()` any number of times
before, which disables the return again and again without refusing it.

## Runs

A type invariant is checked as the first conjunct of a stronger one where there
is one (`ProbesEnd`, `OneCopy`, `Watched`, `ShowsItsRow`, `NoHalfUser`), and proved where
there are proofs.

| run | configuration | shows |
|---|---|---|
| `concept_farmer` | one node, two threads, two links (one blank), limit 1, a crash, a lost statement, an overtaken claim | `WaitingIsUntouched`, `ProcessedIsLearned`, `EveryPassIsPaidFor`, `SettledForGood`; `Drained`, `StopIsObeyed`. Double training is possible and is exactly accounted for |
| `cluster_ring` | 12 slots, three nodes with colliding positions, one adder, one remover | `RingIsBag` (refinement), `ProbesEnd`, `KeysStay` |
| `socket_rpc` | three calls of two clients, another node's connection, two workers, one request that kills its worker, queues of one and two | `OneCopy`, `OneConnection`; `AnsweredOrStranded`: these are all the ways a call is lost |
| `socket_rpc_one` | one call, the code's own limits | violation: `EveryCallIsAnswered` fails, see below |
| `heartbeat` | two layers, three starts or beats, a switched layer, an outage | `Watched`, `Findable`: but for the named interleavings, a peer on the ring can be missed and one off it can be found |
| `heartbeat_live` | one layer, four starts or beats | `DeadIsSwept`: a peer that stays down leaves the ring |
| `operations` | three operations, any two dependencies, a prefetch, exceptions, another thread at the pool | `RunsOnce`, `DependenciesMet`, `Tracked`, `PrefetchAfterOwner`, `OneUser`, `CallsReturn` |
| `sql_entity` | two objects, two rows, a unique field, a fault | `ShowsItsRow`, `OneRowEach`, `GapsAreBlank` |
| `registration` | three requests, two names, two faults | `OneOwner`, `RegisteredCanLogin`, `NoHalfUser` |
| `cometd` | two messages, two connections, any three events | `NeverStuck`, `Accounted`, `OneLongpoll`, `InOrder`, and `PageTypeOK`, which holds the limit of connections and the count of batches |
| `envjs` | the page and a request, two timers at a time, two nested loops, a clear | `OnceEach`, `ClearedStays`, `NothingLeft`, `LockReturned` |
| `startup` | three starts, three services, four graphs, a fault | `InOrder`, `OneCreator`, `AwardsStored`, `StartsEnd` |

Deadlock is checked for the ring. The farm ends when all its
threads have stopped or died, the calls end when each was made, the peer of the
heartbeat may stay down, the operations are all done, the objects used, the requests ended, the page
has disconnected, the page's threads are done, the starts have ended: those runs
do not check it.

### What was found

`socket_rpc_one`: `SocketWorker` starts its thread before it has any request.
If the thread finds the queue empty, it waits without looking again, and
`process()` may add the request and notify before the wait begins. The request
is never served. `ClusterTest` waits for the answer of exactly such a call.

## Proofs

`ConceptFarmerProofs` proves, for any links, threads, nodes, limit and number
of misfortunes, the type invariant, `WaitingIsUntouched`, `ProcessedIsLearned`,
`EveryPassIsPaidFor` and the action property `SettledForGood`. None of the
invariants is inductive alone; `IInv` adds
  - `Hands`: what a thread holds agrees with its place in `run()` (nothing is
    selected except between statements 1 and 2, a link is in process only in a
    batch, and only then can the outcome be PROCESSED);
  - `BlankWait`: a blank link is never claimed, for statement 1 excludes it;
  - `Ledger`: tries, claims and lost saves balance for each thread and row,
    counting the pass that a row in hand will still cost.
The proof has a step for every action and, below it, one for every conjunct the
action can disturb; `SettledForGood` follows from the invariant and `StepSettled`.
The assumption is `FarmerAssumption` alone.

`ClusterProofs` holds two components, since what `ClusterHeartbeat` counts as an addition
or a removal is a call of `ClusterRing`. Of the heartbeat it proves, for any layers, beats,
starts, switches and outages, `Watched` and `Findable`. Neither says anything of the
moments within a step of `onHeartbeat()` or of the sweep; `IInv` does:
  - `Numbered`, `Holds`: starts and beats are above 0, which stands for null, and each
    thread holds the inner maps its place in the code says;
  - `Unheld`: a map that no table and no thread holds is empty, as a new one must be;
  - `Apart`: the two tables never share an inner map, unless line 158 has put the
    wrong one back;
  - `Heard`, `Lived`: `Watched` and `Findable` at every place of the two threads, with
    what is still to be put and still to be taken out.
The assumption is `HeartbeatAssumption`.

Of the ring it proves, for any nodes, any hash function and any number of threads,
`ProbesEnd`, `KeysStay`, and that the ring implements `RingBag`. The array's operations
are recursive functions on slots, so their lemmas go by induction: `Induction` is
derived from the library's well-foundedness of `<` on the naturals, which is a fact and
takes no operator, and `Recursion` derives from it that a function defined by
`f[i] = step(f[i-1])` exists (`Repeats`). Then
  - `Round`: probing from anywhere meets every slot within one round, so `Placing` takes
    one free slot if there is one;
  - `RescaleCounts`: the entries of a smaller or larger array find room one after the
    other, and each address keeps the number it had;
  - `Adding`, `WithNodeIs`: when a position is placed there is room, because the array
    is doubled at a density of 90 per cent; `WithoutNodeIs`: half of an array that is
    less than a quarter full has room for all, and at least one slot;
  - `OwnerIs`, `KeyGoes`: the owner of a key is the nearest entry, so an array of the
    same length that differs in one node's entries gives a key to another owner only if
    that node is one of the two.
The state's invariant is `RInv`: arrays are arrays, and a fresh array is the ring's. The
assumption is `RingAssumption`; the bound `MaxOccupied` may be any number.

`ServerProofs` holds a server's calls and its start. Of the calls it proves `OneConnection` -- inductive together with the rule
that a cached connection is never taken out of the cache -- and
`AnswersAreServed`, by following an answer back from the future to the wire,
the mailbox and `onRequest()`; no run checks the latter, which the proof covers. It
proves `OneCopy` in the form `Copied`: every call that is sent is at one place, and no place
holds it twice. Each of the steps that hand a call on moves it from one place to
another, and the lemmas on places say that such a move leaves the count as it was.
The assumption is `RpcAssumption`.

`StoreProofs` holds the operations and the entities they work on. Of `Operation` it proves, for any operations, any dependencies and any number of
connections and threads, the types, `RunsOnce`, `Tracked`, `PrefetchAfterOwner` and, with an
invariant of its own (`PoolInv`), `OneUser`. `OpsInv` joins to `Tracked`
  - `Phases`: state, phase and the count of calls agree, so that an operation
    with an outcome has left `execute()` and a pending one never entered it;
  - `Owned`: the operation made to prefetch is a dependency of its owner alone,
    exists only from the owner's beginning, and waits only in its post phase;
  - `After`: it is not asked before the owner's `op()` has returned.
There is a lemma for each kind of step that enters, leaves or abandons an
`execute()`. `DependenciesMet` is about the step in which `op()` runs: what the operation
has passed over in its list of dependencies must have succeeded, still be on the stack, or
be stuck. For that `DInv` gives each operation on the stack its depth
(`Stacked`: callers lie below, nothing leaves but from the top) and says of those already
asked how they stand (`Relied`): one that was on the stack when it was asked, in a circle,
lies below the one that asks and so is there still. The assumption is
`OperationAssumption`.

Of `SqlEntity` it proves, for any objects, fields, values and number of faults, `ShowsItsRow`,
`OneRowEach` and `GapsAreBlank`. `IInv` joins to the types
  - `Unused`: an object whose node was not yet made or fetched has nothing;
  - `Known`: keys are those the table has given, and a created object has one;
  - `Unsaved`: an object that never had a row has yet to save all that it shows, so its
    insert writes everything;
  - `Shown`: what a created object shows and has not to save is in its row, but for
    later writes of others, or was left out by an insert after a missed update and is
    then the default there;
  - `Counted`: the rows it inserted, but for the one it has (`Spare`), are no more than its
    unanswered inserts and the updates that reported none.
The assumption is `SqlAssumption`.

`RegistrationProofs` proves `OneOwner`, `RegisteredCanLogin` and `NoHalfUser` for any
number of requests. `IInv` says that keys are given in order (`Past`), that names are
unique (`Distinct`), what each object is about to save (`Pending`), and that a
request past its insert owns a row (`Owned`), its alone (`Apart`), that no
other statement changes (`Safe`). For `NoHalfUser`, `HInv` adds the types of the entity
objects, what each object is at each stage of its request (`Stages`), and whose request
each row without a password is (`Half`). The assumption is `RegistrationAssumption`.

`EnvjsProofs` proves, for any number of requests, timers and nested event loops,
`OnceEach`, `ClearedStays` and `NothingLeft`. `IInv` adds to the types
  - `Nested`: of the calls of `wait()` within each other only the innermost is
    anywhere but in a timer's function;
  - `Exclusive`: a request's thread that is on its way holds the lock;
  - `Made`: only timers that were made are in the table, were run or cleared,
    and what a thread has cleared it has not chosen;
  - `Spent`: what has run once is in nobody's reach again: no longer in the table
    or still marked as running, and chosen by no request's thread after another's.
The lemmas `TopIsSet`, `CallIsPushed` and `CallIsPopped` say what the three changes
of a stack do; then there is a lemma for each part of the invariant, with a step
for every action. For `NothingLeft`, `LInv` adds that a timer is marked as running by somebody
who runs it (`Flagged`), that a request's thread ends its outermost loop only when no timer is
left (`Draining`), and that, once the page's `wait()` has found none, the timers are those of the
request that has the lock, which therefore finds none either when it ends (`Settled`). The assumption is `EnvjsAssumption`.

`CometdProofs` proves `PageTypeOK` for any number of messages, requests, connections and
steps of the backoff and any budget of misfortunes. Two of its conjuncts are not plain
types: the requests that are not long polls leave a connection free, and `_batch` stays
within -1 and 1. Neither is inductive, since `maxConnections` is only respected if a request
that ends is on one list and once. `Wired` is the invariant: what is dated is of this time
(`Dated`), and `W` holds of the page:
  - the two lists are without doubles and apart, and what is on `_envelopes` was not sent;
  - only long polls are no member of them, and the long poll the transport remembers calls
    back, but for an answer that is not JSON;
  - every request that calls back is `Formed`: it has one meta message or a batch in the
    order of its numbers, and an answer echoes its messages and names a session that was
    given.
A turn is a chain of functions on the record `page`, so `W` is an operator on records. It
takes the request whose end the chain deals with, which is neither free nor listed. For
each function of the chain one lemma says what it changes and one that it keeps `W`
(`WDisconnect`, `WTransportSend`, `WQueueSend`, `WReceived` and so on). `handleResponse()` and
`handleFailure()` are folds over the messages of an envelope: `ReceiveOne` and `ReceiveBatch`,
`FailureOfOne` and `FailureOfBatch` say what the folds come to, by induction along the
messages (`UpTo`); a batch only tells the application of its messages, so a single answer
is all that can change more. The lemmas `Wired...` are for the actions.

`PageNeverStuck` says that a page that is neither disconnected nor in a phase of its own
waits for something that will come. `N`, defined beside its lemmas, strengthens it along
the same chains: somebody calls back (a request in flight or timed, an envelope that waits
for a connection, a send that is due), or the hand the chain is in does. One lemma for each
function of the chain (`N...`) says that it hands this duty on, and one for each action
(`Awaits...`) that the turn ends with it.

`PageAccounts` says that no message is dropped without a word. `Traced` strengthens it:
a message that is not lost is in exactly one place (`Place`) -- the queue, the messages in
hand between two functions of the chain, or one request that calls back or is in hand --
unless the application was told of it; and it was told at most once before the request
ends that has it, twice only once a send has thrown, when `transportSend()` has told of
what a request still has. Told counts are thus kept together with where the message is,
or they would not be inductive. `Timed` is needed with it: a request that has a connection has
its timer, so that `abort()` of the connection leaves it calling back. The lemmas `A...`
and `B...` go along the chain, `Traced...` are for the actions.

`PagePollsOnce`, in `CometdWireProofs`, says that no two long polls of a session are on the wire, and none without
a session but after a request that got out of hand. `Rounds` strengthens it by `Once`, which
has two parts:
  - `Apart`: long polls on the wire that have a session have different ones, none has a
    session that the server has yet to grant, and while one has the page's session the
    page owes no other. A new handshake's session is larger than every session given, so
    that a poll of an earlier session, which nobody called back, does no harm;
  - `Round`: unless a request was overtaken, stray or thrown, the page waits for one thing
    at most, a handshake, a long poll or a send that is due. Without it a late answer to
    an old handshake could give the page a session again that is being polled.
A function of the chain mostly takes rounds away: it ends requests or adds a doubt. That is a
relation of the record before and after, transitive, which carries both parts along
(`Lesser...`, `Goes...`); only `Connect`, `Handshake`, and `Receive` of an answer to one of
them need more (`Apart...`, `Round...`). `Once...` and `Rounds...` are for the turns and the
actions.

`PageSendsInOrder`, in the same module, says that messages leave the page in the order in
which they were published, unless a request was stray or a batch was kept. That a step does
not send an older message after a newer one says nothing of the next step, so `Ordered`
strengthens it by what has yet to be sent:
  - `Tidy`: what is queued comes after all that was sent, and an envelope waits only while the
    connections for it are taken, so that nothing goes past it. A request that has just ended
    and whose connection is not yet handed on is counted with them (`k`), or the middle of
    `complete()` would break it;
  - `Lined`: the envelopes are in order, after what was sent and before the queue;
  - `Held`: while there is a queue a batch or a handshake is open, so that `publish()` appends
    to it and never goes past it. That is what `endBatch()` of a disconnecting page breaks.
`Lapses` relates the record before and after a function that sends nothing (some envelopes at
the front are dropped, or all, or the queue), `Follows` one that sends; both are transitive
and carry the three parts along (`Lapses...`, `Follows...`). What is in hand is sent before
the envelopes (`First`), by `SendNext`, or behind them (`Behind`). `Heeds...` and `Ordered...`
are for the turns and the actions. A stray request gives no connection back when it
ends, so that `complete()` takes the first envelope and queues it behind the others, which
breaks `Lined`: the exception is needed in the invariant as it is in `InOrder`. The step that
does this still sends nothing out of order. The assumption of the theorems about the page is `CometdAssumption`.

Of the start `ServerProofs` proves, for any services, fields between them and number of
starts, `InOrder`, `OneCreator` and `AwardsStored`. `StartInv` adds `Shape`, what the
proof needs of the types, `Looked` (who looked in vain saw nothing, who is about
to save saves a definition) and `Stored` (what a start has inserted or found is a
definition, and one past NeighbourhoodService that has none is `unsaved` or has an
unanswered insert). `OneCreator` is inductive with these: a start that inserts without
being overtaken saw an empty table, which is then what every earlier creator
must have left. The assumption is `StartupAssumption`.

Only model-checked: liveness (`Drained`, `StopIsObeyed`, `AnsweredOrStranded`,
`DeadIsSwept`, `CallsReturn`, `LockReturned`, `StartsEnd`), which the proof system does
not treat.

## Not modelled

  - The DOM of `env.js`, its elements, style sheets and parser, `jquery.js`,
    `jquery-1.3.2.js` beyond `ajax()`, jQuery UI and `readability.js`: by far the
    largest files beside the Java source, of third parties, sequential, and for the most part
    accessors, tables and text. Of them only the tree's mutations and the event
    dispatch carry a state that several calls can bring into disorder (below).
  - Web views, schema generators, entity definitions, utilities: requests are
    mapped to methods by reflection; no state of their own.
  - HBase: a thin layer over a client library.
  - Layers: the remote side is not finished in the source. `hintNode()` has no caller and
    would throw before it sends.
  - In the modelled components: subscriptions, listeners, extensions and the
    other transport of the push client; synchronous requests and `wait(n)` of the
    page environment; what the services other than NeighbourhoodService do when
    they start; earning a badge; `shutDown()` of the pool; lists as fields of
    entities.

## Plan

Done: the farmers, the ring, remote calls, membership, operations with the pool,
entities on SQL, registration, start-up with the badge's definition, the push
client, the page environment's timers and threads. Next, the most important
behaviour first:
  1. `Pings`: a ping written to several column families without a rollback, over
     a store whose client reports success whatever happens, writes to a quorum
     and reads from one replica; the job queued at the end. Property: what an
     index refers to is stored, or a write of it was lost. Of the badges only
     what their definitions become: no badge can be earned by what the code
     stores, because a definition without a parent is read back with the proxy
     of an entity 0 for one (`BadgeController`, line 130), and the one logical
     badge refuses every ping.
  2. `CassandraEntity`: delta lists, columns under new time UUIDs, deletions.
  3. `DomTree` and `DomEvents`: the tree of `env.js` under insertions, moves and
     removals -- `insertBefore()` with an earlier sibling of the same parent goes by an
     index from before the removal -- and listeners by node and phase.
  4. `Cometd`: subscriptions that outlive a session, and the acknowledgements of
     `AckExtension`.
  5. `Layers`: activation over the heartbeat's active layers and the farmers, with
     the rings of layers, which can be empty.
  6. Algorithms: n-grams, skip-grams and permutations, the import's batches, the
     binary codec of lists.
