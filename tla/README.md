# emitio in TLA+

emitio collects log lines on many machines and answers queries about them
where they are. An **agent** (`emitio/`) receives lines on UDP, stores them in
SQLite files and serves a gRPC API on a connection that it dials itself, to an
**edge** (`edge/`). The edge keeps a map of connected agents and forwards
queries to them; a command line client (`eio/`) and a web app (`app/`) ask the
edge. `api/` is a separate prototype over ORC files.

## Parts, state, interaction

| part | source | state | operations | talks to |
|---|---|---|---|---|
| agent storage | `emitio/pkg/storages` | map URI -> blockset, blocks (in-memory count, lastSeq, lastAt over a SQLite file), two kinds of lock | Write, Read, URIs, Watch, Close, load at start | called by ingestion and by the query service, in goroutines of theirs |
| agent ingestion | `emitio/pkg/ingresses`, `Server.Run` | one goroutine pair and channel per ingress | receive, write | storage |
| agent query service | `emitio/pkg/server.go` | map of transformers | MakeTransformer, Read (with tail), Info | storage, JavaScript VM, gRPC stream |
| script transformer | `emitio/pkg/transformers`, `emitio/transform` | blocks of the C heap, the value stack of a JavaScript heap made for one call | Transform | called by the query service for every batch; runs a client's script in Duktape |
| agent listener | `emitio/pkg/listeners/reverse.go` | one connection at a time | dial, hand to Accept, wait for its close | network, gRPC server |
| edge listener | `edge/pkg/listener.go` | the connection being made a client | Accept, Close | network, gRPC client |
| edge registry | `Server.Run` in `edge/pkg/server.go` | map of nodes, one goroutine per node | add, delete, Nodes | edge listener |
| edge queries | rest of `edge/pkg/server.go` | none of its own | Read, MakeTransformer, Info; WebSocket `read`, `readNode` | registry, agents |
| clients | `eio/cmd/eio`, `app/src` | last offset and accumulator; reducer state | poll, sum; dispatch | edge |

What is hard here: goroutines that meet in two layers of locks in the storage;
a process that may die between any two database statements and must find its
blocks again; counts and seqs kept outside the database; connections whose two
ends learn of a failure at different times; goroutines that only a `Close` or a
context ends; streams that are cancelled together; a client's script that may
return anything, in a process shared by all clients. `PROJECT.json` lists each of
these hazards at its line.

What makes each part correct:

- storage: what was acknowledged stays, once, whole and findable; no block
  exceeds its size; a read sends rows in order, once, and all of them; calls
  return; a restart succeeds.
- tunnel: one connection in use per agent; the edge lists what it serves and
  no connection for ever that the agent has closed; the agent comes back; it can
  be stopped. (The edge's `Run` does not come back when it is stopped: nothing ends
  `srv.Serve(s.http)`, `edge/pkg/server.go:341`.)
- queries: a reply's accumulator, rows and offset belong together; the good end
  means that everything came; the answers of several nodes do not disturb each
  other; every goroutine of a query ends.
- transformer: a call answers with all the strings the script returned, or with
  an error; every block of C memory is freed once; one client's script does not
  disturb the calls of others. The code gives this only as long as no error text of a
  script is longer than the buffer for it (`transform.c:28`, `34`).
- ingestion: lines of one ingress are stored in order and without a gap; it never
  stops silently; a stop ends everything and closes the sockets.

## Modules

| module | models | checked by | proved in |
|---|---|---|---|
| `Store` | agent storage with the file resolver | `MCStore` | `StoreProofs` |
| `DurableLog` | what the storage promises: a log of records per URI (abstract) | `MCStore` | `StoreLogProofs` |
| `StoreLog` | that `Store` implements `DurableLog`: the refinement mapping | `MCStore` | `StoreLogProofs` |
| `Links` | what the tunnel promises to the gRPC servers at its ends: one connection of an agent at a time, listed once (abstract) | `Tunnel` | `TunnelProofs` |
| `Tunnel` | agent listener, edge listener, edge registry, the network between | itself | `TunnelProofs` |
| `Follower` | what a client is promised that follows the log of an agent (abstract) | `NodeRead` | `FollowerProofs` |
| `NodeRead` | one query to one agent: `readNode`, the edge's proxy, the agent's `Read`, the storage's `Read` and `Watch` | itself | `NodeReadProofs`, `FollowerProofs` |
| `ScriptCalls` | what a handler is promised of a call of a client's script (abstract) | `Transformer` | `TransformerProofs` |
| `Transformer` | `JS.Transform`, `TransformIn`, the C function `transform` | `MCTransformer` | `TransformerProofs` |
| `FanOut` | one query to all nodes: the handler `read` | itself | `FanOutProofs` |
| `Ingest` | UDP ingresses and `Server.Run` | itself | `IngestProofs` |

Four modules are shown to implement an abstract specification, by `INSTANCE`:
`Store` (through `StoreLog`), `Tunnel`, `NodeRead` and `Transformer`. The
modules are composed by what one shows of another: `Ingest` writes to a storage
whose Writes return and keep what they acknowledge (`WritesReturn`,
`AckedReachable` of `Store`); `NodeRead` scans one that gives records upwards,
possibly not all of them (`ReadsInOrder`); `NodeRead` transforms each batch in
one step that succeeds, fails or ends the process, which is what `Transformer`
shows of a call (`ServesCalls`, `OnlyUnreadableEnds`) while the C heap is sound;
a node of `NodeRead` and `FanOut` is a connection that `Tunnel` provides
(`ProvidesLinks`), which may die at any time; a leg of `FanOut` reads a stream
of `NodeRead`, replies and then a status.

An operator named `X_Fault` next to `X` is `X` with a plausible fault in the
code; no action uses it. `PROJECT.json` pairs each checked property with the
variant that violates it.

### Store

A process is a goroutine in `SQLite.Write` or `SQLite.Read`; `pc` says which
statement comes next: `lookup` (the map, under `SQLite.l`), `table` and
`sentinel` (the two statements of `newBlock`), `append` and `rest` (the
transaction of `block.write`, without or after a rollover), `stored` (that
transaction is committed, and `Write` has not yet returned: `WriteReturns`),
`scan` and `send` (the loop of `Read`). An action is what a goroutine does
between two points at which another goroutine or a crash can be seen. `disk` is
durable; the map, the locks and the blocks in memory are lost with the process.
`blk[f]` is the struct a block keeps about its file: the code decides rollovers
on its `count` and skips blocks on its `lastSeq`, and neither is read from the
database after opening. Seqs are not stored: a file's rows follow its base,
which the sentinel row sets. `CreateTableFails`, `SentinelFails`, `WriteFails`,
`ReadFails` and `ScanCut` are the error paths (the context ended, or SQLite
failed); `leaked` are the files whose failed INSERT left a transaction open.
`Crash`, `Close`, `Boot` and `BootRefused` are the life of the process. Age is a
choice: `MayBeAged` holds where `maxAge` may have passed, `MustBeAged` where it
has certainly (1970). `from`, `acked`, `must` and `got` record what was asked,
promised and seen.

Left out: `URIs`, the memory resolver, `Watch` (in `NodeRead`), transient errors
of `openBlock` at start (only a file cut short refuses it), rows stamped with
the time 0 (which `block.read` filters with the sentinel), and file names too
long for the file system. Two concurrent agents on one directory are not considered.

### DurableLog and StoreLog

`DurableLog` has no files, blocks, locks or bounds. A Write adds all its records
to the log of its URI in one step (`WriteStores`) and returns nil in a later one;
one that returns an error has added none; one that never returns, because the
process ended, has added all of them or none; a Read gives records of its URI, none
twice; a process that ends takes only its calls with it, and the next one finds
the same logs. `StoreLog` maps `Store` to it: the log of a URI is what a reader
can reach, that is the rows of the blocks in its blockset while the storage is up,
and the rows of its files while it is not. So `Boot` is a step that changes
nothing of the log only if the blocks it finds are exactly those that were in the
map, and a rollover, both statements of a new block and the creation of a blockset
are stutters; `Commit` is `WriteStores`, and a crash after it takes nothing back.
`acked` is the same variable on both sides. That a Read gives all
records in its range is not promised, because the code does not do that (finding
`reads`).

### Tunnel

`run[a]` is where `Reverse.run` is (`dial`, `shake`, `offer`, `wait`, `ended`),
`mine[a]` the connection it is busy with, `done` the connections whose
`onClose` ran, `held` those a gRPC server has accepted. A connection has a
state at each end, `near` and `far`: an end finds out by itself that the other
closed, and the agent's end that the link is `lost`. `wconn.Close` is two steps, because it closes
`done` before the connection. On the edge `lrun`, `next` and `giving` are
`listener.run`; `cc` is the gRPC client, which calls `dialer` a first time for
the connection and a second time when that has failed, or when a GOAWAY told it to
leave (`goaway`), and closes itself then;
`loop`, `adding`, `nodes` and `waiting` are `Server.Run`. The handshake of the
agent returns once the edge's client uses the connection, since the TLS server
side runs on its first read or write. `GoAway` is the `GracefulStop` of an agent
that is cancelled: the edge drops the node while the agent's end is still open. The
edge's end of a connection whose link died finds that out (`DeathNoticed`) or never
does.

External, modelled by what the code needs of them: gRPC (the server closes each
accepted connection once when its transport ends or it is stopped; the client
dials again, when its transport failed or was told to leave, until it is
closed), TCP and TLS, the kernel that closes the connections of a dead process,
the finalizer of a connection that nothing refers to, whoever starts a process.

`Links` sees of this what the two gRPC servers see. A connection is nothing,
`provided` (accepted by the agent's server), `leaving` (a GOAWAY has reached the
edge) or `over` at the agent, and nothing, `listed` (in `nodes`) or `past` at
the edge. An agent makes a connection only when each one before is over; one
leaves the list only when it is over at the agent, the agent takes its leave or
the link is dead; and it is overlooked only while the edge stops. `AgentEnd`,
`EdgeEnd` and `EdgeState` are the mapping, `ProvidesLinks` the property. The
handshake, the hand-overs between `run`, `onClose` and the server on one side,
and between `listener.run`, `dialer` and the accept loop on the other, are
stutters or one step of it.

### NodeRead

Four goroutines in a row: `hpc` is `readNode`, `ppc` the edge's `Server.Read`,
`apc` the agent's, `spc` the one of `SQLite.Read`. `down` and `up` are the gRPC
streams between the first three: at most `Window` replies on their way and a
status at the end (`downEnd`, `upEnd`); the channel from the last is a rendezvous,
`Take`. `pos`, `acc` and `out` are `start`, `acc` and `out` of the agent's `Read`. A
record is its seq; an accumulator is the sequence of the records that went into
it, a row the record it was made of, so that one can see of each what it stands
for. gRPC 1.9.1, the version locked in `Gopkg.lock`, sends a returned `io.EOF` as
the status `OutOfRange` (`StatusOf`), which is what the handlers test for.
`SendStops`, `ProxyStops` and `FlushFails` are ends by context, `LinkDies`,
`AgentCrashes`, `TransformFails`, `ScanFails` and `ClientLeaves` the faults.
`given` and `produced` record what went into the transformer and came out of it.
The client keeps what it received and may ask again from there (`Ask`).

`Follower` has no goroutines, streams, statuses or faults: there is a log that
grows, and a client that now and then gets more of it with the rows made of
that, together with the offset from which to ask on. `Follows` maps `stored` and
`have` to themselves. What is between the two, over all queries of the client, is
a stutter, and so is whatever a failure loses: it was not received and will be
asked for again.

Left out: the limits of a request, which the agent ignores; the map of
transformers, where every query has an entry of its own; two queries at once,
which share nothing but the records.

### Transformer

A caller is a gRPC handler in the agent's `Read`. `pc` walks through
`JS.Transform` up to the call of `transform` (`eval`, `copy`), through
`transform` (`method`, `args`, `call`, `result`, `first`, `second`, `line`) and
back (`from`, `failed`, `return`). `stack` is the value stack, in the order of
the source's comments (`[global, transform]`), `out` the struct `transform`
fills, `ti` the one that `TransformIn.in` points to, which decides what `Free`
frees. `blocks` is the C heap shared by all callers: a block is named by its
call, the struct and pointer it belongs to, and its index; `misfreed` records a
free of what is not allocated. A value of a script is what `transform` can tell
of it: type, text, `length` and items. `Cut` is what `strdup` and `C.GoString`
keep of a string with a NUL in it. `Trap` stands for a property whose getter
throws: outside `duk_pcall` that is `sandbox_fatal`, the end of the process
(`Ends`). A getter may also spin, as the script itself may (`Spins`). The length
of the second item may be negative, if it is a `Proxy` of an array: then `make`
panics in `From`. `Overruns` is the `sprintf` of a text longer than the block of
the error buffer. It writes over what lies next to it in the C heap that all
callers share, so from there on the heap is not `sound`: every call that runs or
begins is `wild` and may answer anything (`WildReturns`), and the process may
end at any time (`WildEnds`).

`ScriptCalls` is this as the handler sees it. While the memory is sound a call
runs, its script returns a value, and a value of the right shape (`WellShaped`:
at least two items, a string and an array of strings, no item trapped) is
answered by `AnswerTo` it, and is neither refused nor the end of the process;
every other one is refused, ends all or damages the memory (`Damage`), after
which nothing is promised to any call (`AnswersAnyhow`). `Phase` and `Answered`
are the mapping, `ServesCalls` the property: as long as no error text overruns
its block, nothing that one call leaves on its stack, in the C heap or in its
structs disturbs the answer to another or to a later one. One client whose
script throws a long text takes that promise from all others; that is what the
code does, and the model says so.

External: Duktape (a script may leave anything under `transform`; a call returns
any of a set of values, throws, or never ends) and the C library. Memory
allocation does not fail.

### FanOut

`leg[n]` is the goroutine of a node, `got[n]` the replies it has received,
`writer` and `taken` the goroutine that writes to the WebSocket; `Offer` is the
rendezvous between the two; `cancelled` is the errgroup's context. Nothing closes
the channel in the code: when every leg has ended normally, or there is no node,
the handler waits for ever. `Quiet` names that state; in it the client has been
shown all that the nodes said (`WaitIsComplete`), and a request that was
cancelled ends (`CancelEnds`). The request has neither a
URI nor an end, so an agent of this repository answers it with no row; the module
is checked for agents that do answer.

### Ingest

`recv[i]` and `closer[i]` are the two goroutines of an ingress, `loop[i]` the one
of `Server.Run` that takes its messages. `Done(i)` is the ingress's context: its
own errgroup's (`ended`) or its parent's (`cancelled`). `Arrive` is the kernel,
which may drop a datagram; one of length 0 (`Blank`) is read and skipped
(`ReadBlank`). `Server.Run` returns on cancellation without consuming
the channel or calling the ingress's `Wait`, which `ingresser.go:10-13` asks of a
caller; `StopEnds` shows that the ingresses end anyway.

## Runs

| run | what it shows | bounds |
|---|---|---|
| `restart` | the storage invariants through rollovers, a failed statement, two stops; no call waits for one that waits itself (`NoWaitChains`); the storage implements `DurableLog`, with a crash between the commit and the return of a Write | 2 writers, 1 reader, 1 URI, blocks of 2, batches of 1 or 2, 3 writes, read batches of 1 |
| `race` | creation of blocksets under contention; every Write returns | 2 writers, 1 reader, 2 URIs, 2 writes, a fault, a stop; no symmetry |
| `links` | tunnel invariants; an agent returns, nodes whose agent closed leave, a cancelled agent stops, with a GOAWAY first or without; the tunnel implements `Links` | 1 agent, 3 connections, any two of a dead link, a vanished peer, a failed Accept, crashes and stops on either side; no symmetry |
| `query` | a query's replies are consistent, its end is true, its goroutines end; a client that goes on from its replies is a `Follower` | 2 queries, 3 records, batches of 1 or 2, windows of 1, 2 faults |
| `answers` | the fan-out loses, repeats and reorders nothing, and ends after a failure; a handler that waits for ever has shown all | 2 nodes, 2 replies each, 2 faults |
| `scripts` | a call implements `ScriptCalls`: whole answers to good results, errors to others; it frees what it allocates, and ends; all until an error text overruns its block | 2 callers, 2 calls, 3 strings of which one has a NUL, 2 inputs, results of every shape that `transform` tells apart |
| `messages` | ingestion is in order, never silent, and stops | 2 ingresses, 2 messages each, 2 faults |
| `startup`, `reads`, `handshake`, `lines`, `watch` | the findings below | the smallest that show them |

Three writes of at most 2 records fill a block, overfill it and roll it over;
with two stops a block is opened twice, once empty and once with rows; two
writers meet at every lock, and a third process beside them is the reader. Three
connections allow an agent to come back after each of two faults; that two
agents do not disturb each other is proved (`TunnelProofs`). Two calls of the
transformer meet in the C heap, which is all they share. `MCTransformer` gives
the results by what each of the tests in `transform` refuses: a value without
items, too few of them, a wrong first or second item, a wrong or missing line,
and a property that throws at each place where one is read. Three records in
batches of at most two give a query two batches, of which either may make no
row; two faults are one in each of two queries, or a second one during the
clean-up of the first. Two nodes and two ingresses are one that fails and one
that is disturbed. Symmetry is used in safety runs only. Deadlock is checked in
every run: `Rest` and `Quiet` name the states in which the system may be idle.

Fairness. A goroutine that can run does, and `sync.Mutex` and `sync.RWMutex`
starve nobody; a lock is enabled again and again while others hold it in
between, hence strong fairness of `WriterStep` and `ReaderStep`. The consumer of
a `Read` owes nothing (`Send` is not fair), no call has to be made, no fault has
to happen and no process is restarted. In `Tunnel` retries and goroutines are
weakly fair; faults are bounded, so the network is quiet in the end. The agent's
end of a dead link fails in the end, because its gRPC server pings by default
and a handshake has sent something; the edge's end need never (`DeathNoticed` is
not fair), because `listener.go:102-107` asks for no keep-alive. So
`GoneNodesLeave` excepts the nodes of dead links, and an agent that comes back
may be listed beside what it was. That a GOAWAY is sent or arrives is not
assumed either. In `NodeRead`, `FanOut`, `Ingest` and `Transformer` each
goroutine is weakly fair: a blocked `select` goes on once one of its cases stays
ready. That includes writing to the client: a WebSocket write is assumed to
return, well or not. A script owes nothing: a call that spins (`Spins`) stays
for ever, which `CallsEnd` excepts, as nothing in `js.go` bounds the time of a
script, and nothing is assumed of a call in a heap that is not sound.
`Reconnects` and `ShutdownEnds` except what the code does not recover from: a
peer that vanished during the handshake (finding `handshake`) and an edge whose
`listener.run` ended with a failed Accept.

### Findings

- `startup`: `newBlock` is two statements. A crash or a cancelled context
  between them leaves a table without its sentinel row, and `NewSQLite` fails on
  that directory from then on (`sqlite_block.go:28-36`, `51-56`,
  `sqlite_resolver.go:98-101`).
- `reads`: `lastSeq` of a block in use never advances, and `blockset.read` skips
  blocks by it: a `Read` of more than one batch loses the rest of a block
  written since start-up (`sqlite_blockset.go:25`).
- `handshake`: `tconn.Handshake()` has no deadline and no context
  (`reverse.go:60-61`): a peer that vanishes then holds the agent for ever.
- `lines`: the transformer's input is made with a length and appended to
  (`emitio/pkg/server.go:123`, `133`): one empty line precedes every record's, and
  scripts that parse each line fail.
- `watch`: `blockset.wait` locks the Locker of a `sync.Cond` that has none
  (`sqlite_blockset.go:49`): a query with tail ends the agent.

## Proofs

The proof modules assume only the named assumptions on the constants
(`StoreAssumption`, `TunnelAssumption`, `NodeReadAssumption`, `FanOutAssumption`,
`IngestAssumption`, `TransformerAssumption`) and hold for every value of them, the
bounds included.

`StoreProofs`. `IndInv` is the inductive invariant: the types; in-memory counts
equal to what is on disk while the storage is up; files without a sentinel row
are empty; a file under construction belongs to one goroutine; a rollover holds
`blockset.l` and a creation `SQLite.l` to the end. One lemma per action shows
that it is kept. `BlockBound` is not inductive without `CountsMatch` (the guard
`Full` reads the count) nor `OneBlockset` without `LocksHeld`. From `IndInv`
follow `TypeCorrect`, `BlocksBounded` and, as an action property,
`BlocksetsOnlyGrow`. `AckedStaysReachable` needs more: files and blocksets only
grow while the process lives (`Grows`), what a Write has stored and not yet
acknowledged is in a block of the blockset (`Committed`), and `Boot` finds every
finished file. `NoWaitChains` follows with `MapHeld` beside `IndInv`: whoever
holds `SQLite.l` is in one of the two statements of a creation and not in a
rollover. `LocksHeld` says the same of `blockset.l`, and that a creation holds
`SQLite.l`; `MapHeld` is the other direction (`WaitsAreShort`).

`StoreLogProofs`. `LogInv`, beside `IndInv`, has three parts. `RowsPublished`: a
file with rows is in the blockset of its URI while the storage is up, so no row
is out of a reader's reach. `CallsNumbered`: the records of a Write that runs
carry a number that no other call carries and, until they are stored, no row;
without it `StoredOnce` and `BatchAtomic` say nothing of the rows that a step
adds. `ReadsTracked`: what a Read has sent and what it holds are rows of its
range, from the start it was called with, in order and below the seq where it
goes on. From these follow `BatchAtomic`, `StoredOnce` and `ReadsInOrder`. Each
action is first shown to be of one of a few kinds (`GoesOn`, `Stores`,
`GivesUp`, `Finishes`, `Offers`, a start, a stop), and the invariant and the
refinement are then proved per kind. `ReachableIs` says that the log of
`StoreLog` is the records of all files of a URI, whether the storage is up or
not: with it a restart and a rollover are seen to leave the logs alone, and
`Refines` states `Spec => Implements`.

`TunnelProofs`. `InHand` says that the connection of an agent that may be in use
is the one `Reverse.run` holds, which gives `OneLinkEach`; `ClientKept` says
that a client that still connects is in the hands of `listener.run`, of the
accept loop or in `nodes`, which gives `LiveAreListed`. For the refinement
(`LinksProvided`) three more invariants are needed. `AgentHands`: a connection
is given to the gRPC server once and while it is open. `EdgeHands`: a connection
is in one pair of hands of the edge, has a client from `dialer` on, and is
listed once. `Causes`: a client that has given up did so because the agent
closed its end, the agent told it to leave or the link is dead, which is why no
connection leaves the list while it still works. Each action is then shown to be
a step of `Links` or a stutter.

`NodeReadProofs`. `Wire` is all replies between the agent and a client that
waits, as one sequence: the one in the handler's hand, the stream to it, the one in
the proxy's hand, the stream to that. `Chain` says that each reply fits the one
before it, the first one what the client has; `Completes` that what the agent has
not yet flushed follows the last. A step then moves the border between two parts
of the sequence, takes its head, adds to its end, or cuts it where a connection
died, in which case nobody expects the rest. `CutAtOffset` is kept when a head
that fits is taken. `Upwards` is what the storage hands over, `Stages` which
goroutine runs with which. `GoodEnd` follows a status `OutOfRange` from the agent
to `readNode` and is why `EndIsComplete` holds: the agent ends so only when the
storage came to the end, and a scan that was cut short closes the same channel only
when the stream is gone.

`FollowerProofs` adds two invariants to these. `Replied`: every reply on the wire or
in a hand has rows and names the last record it accounts for. `Sourced`: what the
transformer was given is in the log, and every row was made of one of them. With
`CutAtOffset` before and after the step in which the client reads a reply,
that step is a `Receives` of `Follower`, and all others are stutters
(`FollowsLog`).

`IngestProofs`. `Accounted` says of each message read that it is stored, in the
hand of one of the two goroutines, or cut off; and a message may be cut off only
when the context is done and one of the goroutines has ended. `Reasons` says why
each goroutine may have started or ended. From the two follow `StoredInOrder`,
`NoneLost` and `RunsUntilStopped`.

`FanOutProofs`. `InHand` says of every reply received that it is shown, in the
writer's hand or in its leg's, unless the context is done and the leg or the
writer has ended, and that the writer holds the next reply of its node. The
latter is what `InOrder` lacks to be inductive, and the exception is why: a
cancelled leg drops its reply while the other goroutines go on. `FaultsCounted`
gives `CutOnlyByFault`. `NotBegun` and `NoneLeft` say when goroutines exist;
they are parts of the invariant and nothing more, as `Return` waits for the
group. `WaitsWithAll` proves `WaitIsComplete` from these and `SaidAll`: unless
the request was cancelled, a leg has ended only after its node's last reply.

`TransformerProofs`. All of it is about a sound heap; `Places` says that in one
that is not no call runs of which anything is claimed. `BlocksKept` says that a
running call has allocated exactly what its place in the code says, and that
whatever else is allocated was copied from a result that was refused; with
`CallsDistinct` (calls have blocks of their own) it gives `FreedOnce` and
`OnlyRefusedLeaks`. `StackShape` gives the depth of the value stack and what
lies on its top at each place, and `ResultCopied` how much of the result has
been copied; without the first the second is not inductive, since the loop reads
whatever lies on top. From the two follow `AnswerIsResult` and
`OnlyUnreadableEnds`. `CallsServed` is the refinement: with `LongEnough` (from
`result` on, the value read is one of the script's, and from `first` on it has
two items) each refusal is at a test that the value fails, and the answer of a
call that comes to its end is `AnswerTo` the result.

Model-checked only: all liveness (`WritesReturn`, `GoneNodesLeave`, `Reconnects`,
`ShutdownEnds`, `QueryEnds`, `CancelEnds`, `StopEnds`, `CallsEnd`), which is out
of the prover's reach. Every invariant, every action property and every
refinement of the passing runs is proved. The inductive invariants were checked on
the runs before they were proved; where they are long, the runs keep only the
properties that follow from them.

## Plan

Done: the modules of the model; the safety of every one of them, proved; four
refinements (`DurableLog`, `Links`, `Follower`, `ScriptCalls`), checked and
proved. Left to do:

1. The fan-out and the ingestion as implementations of specifications of their own:
   one client that sees an interleaving of all nodes' streams, and a log that is
   fed in the order in which an ingress reads.
2. `NodeRead` with several queries that share the map of transformers, should
   entries ever be removed from it.
3. The two missing parts of the storage's life: `URIs` beside racing creations, and
   blocks that can be locked by a second process on the same directory.

## Not modelled

- `MemoryStore`: with `memory://` the number of databases depends on when the pool
  inside `database/sql` opens another connection to `:memory:`, which is not code
  of this repository (`sqlite_resolver.go:152`).
- The polling client in `eio`: it speaks an older protocol, which no server in the
  repository answers.
- The web app: a mock whose effects answer with constants.
- `api`: a loop over rows of an ORC file that fills buckets, without interaction.
- Duktape itself. Its C wrapper is `Transformer`; `duktape.h` and `duk_config.h` are
  vendored declarations and build options, most of the C in the repository,
  and hold no behaviour to translate.
- Metrics, flag parsing, React views, deployment: no state that other parts read.
