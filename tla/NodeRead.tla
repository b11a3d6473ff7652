------------------------------ MODULE NodeRead ------------------------------
(***************************************************************************)
(* One query to one agent, from the WebSocket of a client to the storage:  *)
(*                                                                         *)
(*   Server.readNode  <- down <-  Server.Read  <- up <-  Server.Read  <-   *)
(*   (edge, HTTP)                 (edge, gRPC)           (agent, gRPC)     *)
(*                                                                         *)
(*   <- channel <-  SQLite.Read                                            *)
(*                  (agent, storage)                                       *)
(*                                                                         *)
(* Every stage is a goroutine of its own that ends by itself, because the  *)
(* stage before it ended, or because the one after it did (its context is  *)
(* done).  The client may ask again from where its last reply ended, with  *)
(* the accumulator of that reply.  Queries share nothing but the stored    *)
(* records, which other goroutines append, so one at a time is modelled.   *)
(* What the storage gives for a range is Store's subject: here it is any   *)
(* runs of consecutive seqs, upwards.                                      *)
(*                                                                         *)
(* X_Fault is X with a plausible fault in the code it stands for.  Nothing *)
(* here uses it; each shows that a property notices such a fault.          *)
(***************************************************************************)
EXTENDS Integers, Sequences, SequencesExt

CONSTANTS
    Ends,        \* the end a client may ask for
    Tails,       \* whether it may ask to tail: a subset of BOOLEAN
    BatchSize,   \* batchSize of the agent's Server.Read (256)
    Blank,       \* the empty line
    Window,      \* replies a gRPC stream holds before Send waits
    MaxStored, MaxAsks, MaxFaults  \* bounds, for TLC

ASSUME NodeReadAssumption ==
    /\ Ends \subseteq Nat /\ Tails \subseteq BOOLEAN
    /\ BatchSize \in Nat \ {0} /\ Window \in Nat \ {0}
    /\ Blank \notin Int
    /\ {MaxStored, MaxAsks, MaxFaults} \subseteq Nat

VARIABLES
    stored,      \* the seqs below it are stored under the URI
    node,        \* "up" or "down": the connection the client's node id names
    \* the client
    client,      \* "here", or "gone" from its WebSocket
    have,        \* what it has received so far: rows, and the last reply's rest
    end, tail,   \* of its request
    \* the edge's HTTP handler, readNode
    hpc, hhold,  \* where it is; the reply it is about to write
    cause,       \* the status that ended its stream
    down, downEnd,  \* its stream: replies, then a status
    \* the edge's gRPC handler, Server.Read
    ppc, phold,
    up, upEnd,   \* its stream from the agent
    \* the agent's gRPC handler, Server.Read
    apc, pos, acc, out,
    lines,       \* the lines it last gave to the transformer
    \* SQLite.Read on the agent
    spc, spos, chunk,
    scanned,     \* how it ended: "end" of the range, "cut" by its context, "error"
    \* what was given to the transformer, and what it made, for the properties
    given, produced,
    asks, faults \* bounds

envVars     == <<stored, node>>
clientVars  == <<client, have, end, tail>>
handlerVars == <<hpc, hhold, cause>>
downVars    == <<down, downEnd>>
proxyVars   == <<ppc, phold>>
upVars      == <<up, upEnd>>
agentVars   == <<apc, pos, acc, out, lines>>
scanVars    == <<spc, spos, chunk, scanned>>
ghostVars   == <<given, produced>>
countVars   == <<asks, faults>>
edgeVars    == <<handlerVars, downVars, proxyVars>>
vars == <<envVars, clientVars, handlerVars, downVars, proxyVars, upVars, agentVars,
          scanVars, ghostVars, countVars>>

NoReply == [rows |-> <<>>, acc |-> <<>>, offset |-> -1]

\* Nothing of a query runs any more.
HandlerEnded == hpc \in {"idle", "done"}
ProxyEnded   == ppc \in {"idle", "ended"}
AgentEnded   == apc \in {"idle", "ended", "panicked"}
ScanEnded    == spc \in {"idle", "done"}
Ended == HandlerEnded /\ ProxyEnded /\ AgentEnded /\ ScanEnded

OneFault == faults < MaxFaults /\ faults' = faults + 1

Init ==
    /\ stored = 0 /\ node = "up"
    /\ client = "here" /\ have = NoReply /\ end = 0 /\ tail = FALSE
    /\ hpc = "idle" /\ hhold = NoReply /\ cause = "open"
    /\ down = <<>> /\ downEnd = "open"
    /\ ppc = "idle" /\ phold = NoReply
    /\ up = <<>> /\ upEnd = "open"
    /\ apc = "idle" /\ pos = 0 /\ acc = <<>> /\ out = <<>> /\ lines = <<>>
    /\ spc = "idle" /\ spos = 0 /\ chunk = <<>> /\ scanned = "open"
    /\ given = <<>> /\ produced = <<>>
    /\ asks = 0 /\ faults = 0

-----------------------------------------------------------------------------
(***************************************************************************)
(* The client, and what the others do meanwhile.                           *)
(***************************************************************************)
\* A WebSocket is upgraded and the request read from it: a first one, or one
\* that goes on after the last reply received.
Ask ==
    /\ Ended /\ asks < MaxAsks /\ asks' = asks + 1
    /\ end' \in Ends /\ tail' \in Tails
    /\ client' = "here" /\ hpc' = "make" /\ cause' = "open"
    /\ pos' = have.offset + 1 /\ acc' = have.acc
    /\ given' = have.acc /\ produced' = have.rows
    /\ down' = <<>> /\ downEnd' = "open" /\ up' = <<>> /\ upEnd' = "open"
    /\ out' = <<>> /\ chunk' = <<>> /\ scanned' = "open"
    /\ ppc' = "idle" /\ apc' = "idle" /\ spc' = "idle"
    /\ UNCHANGED <<envVars, have, hhold, phold, lines, spos, faults>>

ClientLeaves ==
    /\ ~HandlerEnded /\ client = "here" /\ OneFault
    /\ client' = "gone"
    /\ UNCHANGED <<envVars, have, end, tail, edgeVars, upVars, agentVars, scanVars,
                   ghostVars, asks>>

\* Another goroutine writes a record.
Stores ==
    /\ stored < MaxStored /\ stored' = stored + 1
    /\ UNCHANGED <<node, clientVars, edgeVars, upVars, agentVars, scanVars,
                   ghostVars, countVars>>

\* The agent's connection dies.  What was on its way may be lost from some
\* point on; what has arrived is still read.
ConnectionLost ==
    /\ node' = "down"
    /\ \E n \in 0 .. Len(up) :
        /\ up' = SubSeq(up, 1, n)
        /\ upEnd' \in IF n = Len(up) /\ upEnd # "open" THEN {upEnd, "error"} ELSE {"error"}
LinkDies ==
    /\ node = "up" /\ OneFault
    /\ ConnectionLost
    /\ UNCHANGED <<stored, clientVars, edgeVars, agentVars, scanVars, ghostVars, asks>>

\* The agent's process ends, and with it its goroutines.
AgentGone(label) ==
    /\ ConnectionLost
    /\ apc' = IF AgentEnded THEN apc ELSE label
    /\ spc' = IF ScanEnded THEN spc ELSE "done"
    /\ scanned' = IF ScanEnded THEN scanned ELSE "cut"
    /\ chunk' = <<>>
    /\ UNCHANGED <<stored, clientVars, edgeVars, pos, acc, out, lines, spos, ghostVars,
                   asks>>
AgentCrashes == node = "up" /\ OneFault /\ AgentGone("ended")

\* The agent has connected again, and is listed under a new node id.
NodeReturns ==
    /\ node = "down" /\ Ended
    /\ node' = "up"
    /\ UNCHANGED <<stored, clientVars, edgeVars, upVars, agentVars, scanVars, ghostVars,
                   countVars>>

-----------------------------------------------------------------------------
(***************************************************************************)
(* readNode, the HTTP handler of the edge.                                 *)
(***************************************************************************)
\* The edge's MakeTransformer and the agent's, which only keeps the script: a
\* bad one fails the first batch.
HandlerMakes ==
    /\ hpc = "make" /\ node = "up"
    /\ hpc' = "call"
    /\ UNCHANGED <<envVars, clientVars, hhold, cause, downVars, proxyVars, upVars,
                   agentVars, scanVars, ghostVars, countVars>>
HandlerCannot ==
    /\ hpc = "make"
    /\ \/ node = "down" /\ UNCHANGED faults
       \/ OneFault
    /\ hpc' = "done" /\ cause' = "error"
    /\ UNCHANGED <<envVars, clientVars, hhold, downVars, proxyVars, upVars,
                   agentVars, scanVars, ghostVars, asks>>

HandlerReads ==
    /\ hpc = "call"
    /\ hpc' = "recv" /\ ppc' = "lookup"
    /\ UNCHANGED <<envVars, clientVars, hhold, cause, downVars, phold, upVars,
                   agentVars, scanVars, ghostVars, countVars>>

HandlerRecvs ==
    /\ hpc = "recv" /\ down # <<>>
    /\ hhold' = Head(down) /\ down' = Tail(down)
    /\ hpc' = "write"
    /\ UNCHANGED <<envVars, clientVars, cause, downEnd, proxyVars, upVars,
                   agentVars, scanVars, ghostVars, countVars>>

\* conn.WriteJSON.  To a client that has left it may still succeed.
HandlerWrites ==
    /\ hpc = "write"
    /\ have' = IF client = "gone" THEN have
               ELSE [hhold EXCEPT !.rows = have.rows \o hhold.rows]
    /\ hpc' = "recv"
    /\ UNCHANGED <<envVars, client, end, tail, hhold, cause, downVars, proxyVars, upVars,
                   agentVars, scanVars, ghostVars, countVars>>
HandlerWriteFails ==
    /\ hpc = "write" /\ client = "gone"
    /\ hpc' = "done" /\ cause' = "error"
    /\ UNCHANGED <<envVars, clientVars, hhold, downVars, proxyVars, upVars,
                   agentVars, scanVars, ghostVars, countVars>>

\* The end of the stream, good or bad: the WebSocket is closed.
HandlerReturns ==
    /\ hpc = "recv" /\ down = <<>> /\ downEnd # "open"
    /\ hpc' = "done" /\ cause' = downEnd
    /\ UNCHANGED <<envVars, clientVars, hhold, downVars, proxyVars, upVars,
                   agentVars, scanVars, ghostVars, countVars>>

-----------------------------------------------------------------------------
(***************************************************************************)
(* Server.Read of the edge.                                                *)
(***************************************************************************)
ProxyOpens ==
    /\ ppc = "lookup" /\ node = "up"
    /\ ppc' = "recv" /\ apc' = "call"
    /\ UNCHANGED <<envVars, clientVars, handlerVars, downVars, phold, upVars,
                   pos, acc, out, lines, scanVars, ghostVars, countVars>>

\* The handler returns an error.  gRPC (v1.9.1) sends io.EOF, the end of the
\* agent's stream, as the status OutOfRange.
StatusOf_EndIsNil(err) == IF err = "EOF" THEN "EOF" ELSE "error"
StatusOf(err) == IF err = "EOF" THEN "OutOfRange" ELSE "error"
ProxyReturns(err) ==
    /\ ppc' = "ended" /\ downEnd' = StatusOf(err)
    /\ UNCHANGED <<envVars, clientVars, handlerVars, down, phold, upVars,
                   agentVars, scanVars, ghostVars, countVars>>
ProxyCannot == ppc = "lookup" /\ node = "down" /\ ProxyReturns("error")
ProxyEnds == ppc = "recv" /\ up = <<>> /\ upEnd # "open" /\ ProxyReturns(upEnd)

ProxyRecvs ==
    /\ ppc = "recv" /\ up # <<>>
    /\ phold' = Head(up) /\ up' = Tail(up)
    /\ ppc' = "send"
    /\ UNCHANGED <<envVars, clientVars, handlerVars, downVars, upEnd,
                   agentVars, scanVars, ghostVars, countVars>>
ProxySends ==
    /\ ppc = "send" /\ Len(down) < Window
    /\ down' = Append(down, phold)
    /\ ppc' = "recv"
    /\ UNCHANGED <<envVars, clientVars, handlerVars, downEnd, phold, upVars,
                   agentVars, scanVars, ghostVars, countVars>>

\* The HTTP handler has returned, which ends the context of both streams.
ProxyStops ==
    /\ ~ProxyEnded /\ hpc = "done"
    /\ ppc' = "ended"
    /\ UNCHANGED <<envVars, clientVars, handlerVars, downVars, phold, upVars,
                   agentVars, scanVars, ghostVars, countVars>>

-----------------------------------------------------------------------------
(***************************************************************************)
(* Server.Read of the agent.                                               *)
(***************************************************************************)
\* The context of the agent's stream is done.
StreamGone == ppc = "ended" \/ node = "down"
ContextDone == StreamGone \/ AgentEnded

\* The transformer is found, and SQLite.Read starts its goroutine.
AgentReads ==
    /\ apc = "call"
    /\ apc' = "fetch" /\ spc' = "scan" /\ spos' = pos
    /\ UNCHANGED <<envVars, clientVars, edgeVars, upVars, pos, acc, out, lines,
                   chunk, scanned, ghostVars, countVars>>

\* input: make([]string, n), to which n lines are appended.
Input(batch) == [i \in 1 .. Len(batch) |-> Blank] \o batch

\* The rows a script may make of a batch: one of each of some of its records.
RowsOf(batch) ==
    {rows \in UNION {[1 .. n -> ToSet(batch)] : n \in 0 .. Len(batch)} :
        \A i, j \in DOMAIN rows : i < j => rows[i] < rows[j]}

\* start, after a batch
After(batch) == Last(batch) + 1

\* A batch comes from the channel, and the transformer makes rows of some of
\* its records.
Take ==
    /\ apc = "fetch" /\ spc = "send"
    /\ \E rows \in RowsOf(chunk) :
        /\ out' = out \o rows
        /\ produced' = produced \o rows
    /\ pos' = After(chunk)
    /\ lines' = Input(chunk)
    /\ acc' = acc \o chunk
    /\ given' = given \o chunk
    /\ apc' = "flush"
    /\ spc' = "scan" /\ chunk' = <<>>
    /\ UNCHANGED <<envVars, clientVars, edgeVars, upVars, spos, scanned, countVars>>

\* flush, which sends nothing when there is no row.
FlushNothing ==
    /\ apc = "flush" /\ out = <<>>
    /\ apc' = "fetch"
    /\ UNCHANGED <<envVars, clientVars, edgeVars, upVars, pos, acc, out, lines, scanVars,
                   ghostVars, countVars>>
Flush_OffsetNext ==
    /\ apc = "flush" /\ out # <<>>
    /\ IF StreamGone THEN UNCHANGED up
       ELSE /\ Len(up) < Window
            /\ up' = Append(up, [rows |-> out, acc |-> acc, offset |-> pos])
    /\ out' = <<>> /\ apc' = "fetch"
    /\ UNCHANGED <<envVars, clientVars, edgeVars, upEnd, pos, acc, lines, scanVars,
                   ghostVars, countVars>>
Flush_KeepsRows ==
    /\ apc = "flush" /\ out # <<>>
    /\ IF StreamGone THEN UNCHANGED up
       ELSE /\ Len(up) < Window
            /\ up' = Append(up, [rows |-> out, acc |-> acc, offset |-> pos - 1])
    /\ apc' = "fetch"
    /\ UNCHANGED <<envVars, clientVars, edgeVars, upEnd, pos, acc, out, lines, scanVars,
                   ghostVars, countVars>>
Flush ==
    /\ apc = "flush" /\ out # <<>>
    /\ IF StreamGone THEN UNCHANGED up
       ELSE /\ Len(up) < Window
            /\ up' = Append(up, [rows |-> out, acc |-> acc, offset |-> pos - 1])
    /\ out' = <<>> /\ apc' = "fetch"
    /\ UNCHANGED <<envVars, clientVars, edgeVars, upEnd, pos, acc, lines, scanVars,
                   ghostVars, countVars>>

AgentReturns(err) ==
    /\ apc' = "ended"
    /\ upEnd' = IF StreamGone THEN upEnd ELSE err
FlushFails ==
    /\ apc = "flush" /\ out # <<>> /\ StreamGone
    /\ AgentReturns("error")
    /\ UNCHANGED <<envVars, clientVars, edgeVars, up, pos, acc, out, lines, scanVars,
                   ghostVars, countVars>>

\* The script fails on a batch; the goroutine of SQLite.Read is left behind.
TransformFails ==
    /\ apc = "fetch" /\ spc = "send" /\ OneFault
    /\ spc' = "scan" /\ chunk' = <<>> /\ lines' = Input(chunk)
    /\ AgentReturns("error")
    /\ UNCHANGED <<envVars, clientVars, edgeVars, up, pos, acc, out, spos, scanned,
                   ghostVars, asks>>

\* The channel is closed: the error of wait, the end of the stream, or Watch.
AgentEnds_ErrorIgnored ==
    /\ apc = "fetch" /\ spc = "done" /\ ~tail
    /\ AgentReturns("EOF")
    /\ UNCHANGED <<envVars, clientVars, edgeVars, up, pos, acc, out, lines, scanVars,
                   ghostVars, countVars>>
AgentEnds ==
    /\ apc = "fetch" /\ spc = "done" /\ (scanned = "error" \/ ~tail)
    /\ AgentReturns(IF scanned = "error" THEN "error" ELSE "EOF")
    /\ UNCHANGED <<envVars, clientVars, edgeVars, up, pos, acc, out, lines, scanVars,
                   ghostVars, countVars>>
AgentWatches ==
    /\ apc = "fetch" /\ spc = "done" /\ scanned # "error" /\ tail
    /\ apc' = "watch"
    /\ UNCHANGED <<envVars, clientVars, edgeVars, upVars, pos, acc, out, lines, scanVars,
                   ghostVars, countVars>>

\* blockset.wait locks the Locker of a sync.Cond that was never given one: a
\* panic that nothing recovers.
WatchPanics == apc = "watch" /\ AgentGone("panicked") /\ UNCHANGED faults

-----------------------------------------------------------------------------
(***************************************************************************)
(* SQLite.Read.                                                            *)
(***************************************************************************)
\* A batch is a run of consecutive seqs out of one block.
ScanGives ==
    /\ spc = "scan" /\ spos < end
    /\ \E from \in spos .. end - 1, n \in 1 .. BatchSize :
        /\ from + n <= end /\ from + n <= stored
        /\ chunk' = [i \in 1 .. n |-> from + i - 1]
        /\ spos' = from + n
    /\ spc' = "send"
    /\ UNCHANGED <<envVars, clientVars, edgeVars, upVars, agentVars, scanned, ghostVars,
                   countVars>>
ScanReturns(how) ==
    /\ spc' = "done" /\ scanned' = how /\ chunk' = <<>>
    /\ UNCHANGED <<envVars, clientVars, edgeVars, upVars, agentVars, spos, ghostVars, asks>>
ScanEnds == spc = "scan" /\ ScanReturns("end") /\ UNCHANGED faults
ScanFails ==
    /\ spc = "scan"
    /\ \/ ContextDone /\ UNCHANGED faults
       \/ OneFault
    /\ ScanReturns("error")

\* The select on ctx.Done while the batch waits: no error is returned.
SendStops_WaitsOn == spc = "send" /\ ContextDone /\ UNCHANGED vars
SendStops ==
    /\ spc = "send" /\ ContextDone
    /\ ScanReturns("cut") /\ UNCHANGED faults

-----------------------------------------------------------------------------
HandlerStep ==
    \/ HandlerMakes \/ HandlerCannot \/ HandlerReads \/ HandlerRecvs
    \/ HandlerWrites \/ HandlerWriteFails \/ HandlerReturns
ProxyStep == ProxyOpens \/ ProxyCannot \/ ProxyEnds \/ ProxyRecvs \/ ProxySends \/ ProxyStops
AgentStep ==
    \/ AgentReads \/ Take \/ FlushNothing \/ Flush \/ FlushFails
    \/ AgentEnds \/ AgentWatches \/ WatchPanics
ScanStep == ScanGives \/ ScanEnds \/ SendStops \/ ScanFails

\* No query runs and the bounds allow no further one.
Rest == Ended /\ asks = MaxAsks /\ UNCHANGED vars

Next ==
    \/ Ask \/ ClientLeaves \/ Stores \/ LinkDies \/ AgentCrashes \/ NodeReturns
    \/ HandlerStep \/ ProxyStep \/ AgentStep \/ ScanStep
    \/ TransformFails
    \/ Rest

Spec == Init /\ [][Next]_vars

\* Goroutines that can run do; the client takes what is written, or leaves.
Fairness ==
    WF_vars(HandlerStep) /\ WF_vars(ProxyStep) /\ WF_vars(AgentStep) /\ WF_vars(ScanStep)
FairSpec == Spec /\ Fairness
-----------------------------------------------------------------------------
(***************************************************************************)
(* Properties.                                                             *)
(***************************************************************************)

\* The type invariant: the values every variable may take.
Reply == [rows : Seq(Nat), acc : Seq(Nat), offset : Int]
ClientType ==
    /\ stored \in Nat /\ node \in {"up", "down"} /\ client \in {"here", "gone"}
    /\ have \in Reply /\ end \in Nat /\ tail \in BOOLEAN
EdgeType ==
    /\ hpc \in {"idle", "make", "call", "recv", "write", "done"} /\ hhold \in Reply
    /\ cause \in {"open", "OutOfRange", "error"}
    /\ down \in Seq(Reply) /\ downEnd \in {"open", "OutOfRange", "error"}
    /\ ppc \in {"idle", "lookup", "recv", "send", "ended"} /\ phold \in Reply
    /\ up \in Seq(Reply) /\ upEnd \in {"open", "EOF", "error"}
AgentType ==
    /\ apc \in {"idle", "call", "fetch", "flush", "watch", "ended", "panicked"}
    /\ pos \in Nat /\ acc \in Seq(Nat) /\ out \in Seq(Nat)
    /\ lines \in Seq(Nat \cup {Blank})
    /\ spc \in {"idle", "scan", "send", "done"} /\ spos \in Nat /\ chunk \in Seq(Nat)
    /\ scanned \in {"open", "end", "cut", "error"}
    /\ given \in Seq(Nat) /\ produced \in Seq(Nat)
    /\ asks \in Nat /\ faults \in Nat
TypeOK == ClientType /\ EdgeType /\ AgentType

\* s is what t holds up to offset n, and t is in strictly increasing order.
UpTo(s, t, n) ==
    /\ IsPrefix(s, t)
    /\ \A i \in DOMAIN t : i <= Len(s) <=> t[i] <= n
    /\ \A i, j \in DOMAIN t : i < j => t[i] < t[j]

\* What a client has is a consistent cut: the accumulator and the rows stand for
\* exactly the records up to last_offset, each once, through any number of
\* queries that went on from the last reply and any way in which the ones
\* before were cut short.
CutAtOffset ==
    /\ UpTo(have.acc, given, have.offset)
    /\ UpTo(have.rows, produced, have.offset)

\* Four goroutines, two streams, a channel, all their ways to end and any number
\* of queries come to the client as a Follower of the log: each reply it reads
\* brings records it has not had, with their rows, up to the offset it names.
Feed == INSTANCE Follower
Follows == Feed!Spec

\* The status readNode takes for the end of the data (OutOfRange) reaches it
\* only if the storage came to the end of the range, and every row went out
\* before: no context that ends, error or dead link on the way passes for it.
EndIsComplete ==
    hpc = "done" /\ cause = "OutOfRange" /\ client = "here" =>
        scanned = "end" /\ have.rows = produced

\* A query ends in all its four goroutines, whatever fails and whoever leaves:
\* none waits for ever for the next one to take something, or the one before
\* to offer it.
QueryEnds == ~Ended ~> Ended

\* Every line the transformer gets is a record, as scripts/bucket-reducer.js:9
\* takes for granted (".map(line => JSON.parse(line))").
LinesAreRecords == \A i \in DOMAIN lines : lines[i] # Blank

\* sqlite.go:115: "Watch allows the caller to block until either their context
\* expires or a value > seq is available from storage."
WatchWaits == apc # "panicked"
=============================================================================
