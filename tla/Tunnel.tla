------------------------------- MODULE Tunnel -------------------------------
(***************************************************************************)
(* How an agent is reached.  The agent dials out to the edge and serves    *)
(* gRPC on the connection it dialed (emitio/pkg/listeners/reverse.go); the *)
(* edge accepts it, makes a gRPC client of it (edge/pkg/listener.go) and   *)
(* lists it as a node until it dies (Server.Run in edge/pkg/server.go).    *)
(*                                                                         *)
(* Each end of a connection sees the other end close, or the link between  *)
(* them die, at a moment of its own.  The gRPC library, TLS, TCP and the   *)
(* supervisors that restart a process are external: they are modelled by   *)
(* what these files need of them.                                          *)
(*                                                                         *)
(* X_Fault is X with a plausible fault in the code it stands for.  Nothing *)
(* here uses it; each shows that a property notices such a fault.          *)
(***************************************************************************)
EXTENDS Integers, FiniteSets

CONSTANTS
    Agents,       \* agent processes
    MaxConns,     \* how many TCP connections can be made, for TLC
    MaxCuts, MaxStalls, MaxErrors, MaxCrashes, MaxStops, \* faults of each kind, for TLC
    MaxFaults,    \* and in all
    Nil

Conns == 1 .. MaxConns

ASSUME TunnelAssumption ==
    /\ Nil \notin Agents \cup Conns
    /\ MaxConns \in Nat
    /\ {MaxCuts, MaxStalls, MaxErrors, MaxCrashes, MaxStops, MaxFaults} \subseteq Nat

VARIABLES
    \* the agent: Reverse, and the gRPC server that accepts from it
    run,        \* agent -> where Reverse.run is, or "down": no process
    mine,       \* agent -> the connection Reverse.run is busy with
    done,       \* connections whose wconn.onClose has closed the done channel
    cancelled,  \* agents whose context is cancelled
    serving,    \* agents whose grpcServer.Serve has not returned
    held,       \* connections a gRPC server has accepted and not closed
    \* the network
    owner,      \* connection -> the agent that dialed it, Nil before
    near, far,  \* connection -> its state at the agent's and the edge's end
    lost,       \* connections whose link is dead
    goaway,     \* connections on which a GOAWAY has reached the edge's client
    stalled,    \* handshakes whose peer vanished without a trace
    \* the edge: listener, and Server.Run
    lrun,       \* where listener.run is, or "down": no process
    next,       \* the connection its accept goroutine has sent it
    giving,     \* the connection whose client it offers on listener.ch
    stopping,   \* the context of Server.Run is cancelled
    loop,       \* where the accept loop of Server.Run is
    adding,     \* the connection whose client the loop has received
    cc,         \* connection -> its grpc.ClientConn
    nodes,      \* Server.nodes, by connection (each gets a uuid of its own)
    waiting,    \* connections with a goroutine that will delete their node
    left        \* fault -> how many more may happen

agentVars == <<run, mine, done, cancelled, serving, held>>
netVars   == <<owner, near, far, lost, goaway, stalled>>
lisVars   == <<lrun, next, giving, stopping>>
srvVars   == <<loop, adding, nodes, waiting>>
vars == <<run, mine, done, cancelled, serving, held,
          owner, near, far, lost, goaway, stalled,
          lrun, next, giving, stopping, loop, adding, cc, nodes, waiting, left>>

Init ==
    /\ run = [a \in Agents |-> "dial"]
    /\ mine = [a \in Agents |-> Nil]
    /\ done = {} /\ cancelled = {} /\ serving = Agents /\ held = {}
    /\ owner = [c \in Conns |-> Nil]
    /\ near = [c \in Conns |-> "none"]
    /\ far = [c \in Conns |-> "none"]
    /\ lost = {} /\ goaway = {} /\ stalled = {}
    /\ lrun = "accept" /\ next = Nil /\ giving = Nil /\ stopping = FALSE
    /\ loop = "accept" /\ adding = Nil
    /\ cc = [c \in Conns |-> "none"]
    /\ nodes = {} /\ waiting = {}
    /\ left = [cut |-> MaxCuts, stall |-> MaxStalls, error |-> MaxErrors,
               crash |-> MaxCrashes, stop |-> MaxStops, all |-> MaxFaults]

Spend(fault) ==
    /\ left[fault] > 0 /\ left["all"] > 0
    /\ left' = [left EXCEPT ![fault] = @ - 1, !["all"] = @ - 1]

-----------------------------------------------------------------------------
(***************************************************************************)
(* Reverse.run: dial, offer on the channel, wait until the connection is   *)
(* closed, and again.                                                      *)
(***************************************************************************)
Goes(a, label) == run' = [run EXCEPT ![a] = label]

\* The edge's socket is open until listener.run returns.
Listening == lrun \in {"accept", "give"}

\* d.DialContext connects; the edge's kernel queues the connection for Accept.
Connect(a) ==
    /\ run[a] = "dial" /\ a \notin cancelled /\ Listening
    /\ \E c \in Conns :
        /\ owner[c] = Nil /\ \A b \in 1 .. c - 1 : owner[b] # Nil
        /\ owner' = [owner EXCEPT ![c] = a]
        /\ near' = [near EXCEPT ![c] = "open"]
        /\ far' = [far EXCEPT ![c] = "queued"]
        /\ mine' = [mine EXCEPT ![a] = c]
    /\ Goes(a, "shake")
    /\ UNCHANGED <<done, cancelled, serving, held, lost, goaway, stalled, lisVars, srvVars,
                   cc, left>>

\* tconn.Handshake returns once the edge's transport has answered.
HandshakeOK(a) ==
    /\ run[a] = "shake" /\ far[mine[a]] = "open" /\ mine[a] \notin lost
    /\ Goes(a, "offer")
    /\ UNCHANGED <<mine, done, cancelled, serving, held, netVars, lisVars, srvVars,
                   cc, left>>

\* Handshake has no deadline and no context: only the fate of the connection
\* ends it.  backoff.RetryNotify then dials again, unless the context is done.
HandshakeFails(a) ==
    /\ run[a] = "shake" /\ mine[a] \notin stalled
    /\ far[mine[a]] = "closed" \/ mine[a] \in lost
    /\ near' = [near EXCEPT ![mine[a]] = "closed"]
    /\ mine' = [mine EXCEPT ![a] = Nil]
    /\ Goes(a, IF a \in cancelled THEN "ended" ELSE "dial")
    /\ UNCHANGED <<done, cancelled, serving, held, owner, far, lost, goaway, stalled, lisVars,
                   srvVars, cc, left>>

\* The dialer returns because its context is done; run closes r.ch.
DialCancelled_RetriesForever(a) ==
    /\ run[a] = "dial" /\ a \in cancelled /\ Listening
    /\ Goes(a, "ended")
    /\ UNCHANGED <<mine, done, cancelled, serving, held, netVars, lisVars, srvVars,
                   cc, left>>
DialCancelled(a) ==
    /\ run[a] = "dial" /\ a \in cancelled
    /\ Goes(a, "ended")
    /\ UNCHANGED <<mine, done, cancelled, serving, held, netVars, lisVars, srvVars,
                   cc, left>>

\* r.ch <- conn, received by Accept in grpcServer.Serve.
Provide(a) ==
    /\ run[a] = "offer" /\ a \in serving
    /\ held' = held \cup {mine[a]}
    /\ Goes(a, "wait")
    /\ UNCHANGED <<mine, done, cancelled, serving, netVars, lisVars, srvVars, cc, left>>

\* ctx.Done is chosen while a connection is offered: nobody closes it.
OfferCancelled(a) ==
    /\ run[a] = "offer" /\ a \in cancelled
    /\ Goes(a, "ended")
    /\ UNCHANGED <<mine, done, cancelled, serving, held, netVars, lisVars, srvVars,
                   cc, left>>

\* <-done, and around the loop.
Redial_BeforeDone(a) ==
    /\ run[a] = "wait"
    /\ Goes(a, "dial") /\ mine' = [mine EXCEPT ![a] = Nil]
    /\ UNCHANGED <<done, cancelled, serving, held, netVars, lisVars, srvVars, cc, left>>
Redial(a) ==
    /\ run[a] = "wait" /\ mine[a] \in done
    /\ Goes(a, "dial") /\ mine' = [mine EXCEPT ![a] = Nil]
    /\ UNCHANGED <<done, cancelled, serving, held, netVars, lisVars, srvVars, cc, left>>

WaitCancelled(a) ==
    /\ run[a] = "wait" /\ a \in cancelled
    /\ Goes(a, "ended")
    /\ UNCHANGED <<mine, done, cancelled, serving, held, netVars, lisVars, srvVars,
                   cc, left>>

(***************************************************************************)
(* wconn.Close, called once by the gRPC server when a connection's         *)
(* transport is finished: onClose first, then the connection itself.       *)
(***************************************************************************)
Finished(c) == far[c] = "closed" \/ c \in lost \/ owner[c] \in cancelled

\* GracefulStop of an agent that is cancelled: the edge's client is told to
\* leave, while the connection goes on with the calls it has.  Stop, 5 s later,
\* waits for nothing.
GoAway(c) ==
    /\ c \in held /\ owner[c] \in cancelled
    /\ far[c] = "open" /\ c \notin lost \cup goaway
    /\ goaway' = goaway \cup {c}
    /\ UNCHANGED <<agentVars, owner, near, far, lost, stalled, lisVars, srvVars, cc, left>>

OnClose_NotCalled(c) ==
    /\ c \in held /\ Finished(c)
    /\ near' = [near EXCEPT ![c] = "closed"]
    /\ UNCHANGED <<agentVars, owner, far, lost, goaway, stalled, lisVars, srvVars, cc, left>>
OnClose(c) ==
    /\ c \in held /\ Finished(c)
    /\ held' = held \ {c}
    /\ done' = done \cup {c}
    /\ UNCHANGED <<run, mine, cancelled, serving, netVars, lisVars, srvVars, cc, left>>

ConnClose(c) ==
    /\ c \in done /\ near[c] = "open"
    /\ near' = [near EXCEPT ![c] = "closed"]
    /\ UNCHANGED <<agentVars, owner, far, lost, goaway, stalled, lisVars, srvVars, cc, left>>

(***************************************************************************)
(* The agent's process.                                                    *)
(***************************************************************************)
\* SIGINT, or a failure that cancels the errgroup's context.
Cancel(a) ==
    /\ run[a] # "down" /\ a \notin cancelled /\ Spend("stop")
    /\ cancelled' = cancelled \cup {a}
    /\ UNCHANGED <<run, mine, done, serving, held, netVars, lisVars, srvVars, cc>>

\* Accept reports that r.ch is closed, and Serve returns the error.
ServeReturns(a) ==
    /\ run[a] = "ended" /\ a \in serving
    /\ serving' = serving \ {a}
    /\ UNCHANGED <<run, mine, done, cancelled, held, netVars, lisVars, srvVars, cc, left>>

\* The kernel closes whatever a process leaves open.
AgentGone(a) ==
    /\ Goes(a, "down")
    /\ mine' = [mine EXCEPT ![a] = Nil]
    /\ cancelled' = cancelled \ {a}
    /\ serving' = serving \ {a}
    /\ held' = {c \in held : owner[c] # a}
    /\ near' = [c \in Conns |-> IF owner[c] = a THEN "closed" ELSE near[c]]
    /\ UNCHANGED <<done, owner, far, lost, goaway, stalled, lisVars, srvVars, cc>>
AgentExits(a) == run[a] = "ended" /\ a \notin serving /\ AgentGone(a) /\ UNCHANGED left
AgentCrashes(a) == run[a] # "down" /\ Spend("crash") /\ AgentGone(a)

AgentStarts(a) ==
    /\ run[a] = "down"
    /\ Goes(a, "dial") /\ serving' = serving \cup {a}
    /\ UNCHANGED <<mine, done, cancelled, held, netVars, lisVars, srvVars, cc, left>>

-----------------------------------------------------------------------------
(***************************************************************************)
(* The network.                                                            *)
(***************************************************************************)
LinkDies(c) ==
    /\ near[c] = "open" /\ c \notin lost /\ Spend("cut")
    /\ lost' = lost \cup {c}
    /\ UNCHANGED <<agentVars, owner, near, far, goaway, stalled, lisVars, srvVars, cc>>

\* The peer of a handshake vanishes when all that was sent is acknowledged:
\* without keep-alives the agent's kernel never finds out.
PeerVanishes(a) ==
    /\ run[a] = "shake" /\ mine[a] \notin lost /\ Spend("stall")
    /\ lost' = lost \cup {mine[a]}
    /\ stalled' = stalled \cup {mine[a]}
    /\ UNCHANGED <<agentVars, owner, near, far, goaway, lisVars, srvVars, cc>>

-----------------------------------------------------------------------------
(***************************************************************************)
(* listener.run and listener.cc on the edge.                               *)
(***************************************************************************)
\* l.l.Accept, in a goroutine of its own.
EdgeAccepts(c) ==
    /\ lrun = "accept" /\ next = Nil /\ far[c] = "queued"
    /\ far' = [far EXCEPT ![c] = "taken"]
    /\ next' = c
    /\ UNCHANGED <<agentVars, owner, near, lost, goaway, stalled, lrun, giving, stopping,
                   srvVars, cc, left>>

\* listener.run returns: the socket is closed, with what it had queued, then ch.
ListenerReturns ==
    /\ lrun' = "ended" /\ next' = Nil /\ giving' = Nil
    /\ far' = [c \in Conns |-> IF far[c] = "queued" THEN "closed" ELSE far[c]]
    /\ UNCHANGED <<agentVars, owner, near, lost, goaway, stalled, stopping, srvVars>>
AcceptFails ==
    /\ lrun = "accept" /\ next = Nil /\ Spend("error")
    /\ ListenerReturns /\ UNCHANGED cc
AcceptCancelled ==
    /\ lrun = "accept" /\ stopping
    /\ ListenerReturns /\ UNCHANGED <<cc, left>>
GiveCancelled ==
    /\ lrun = "give" /\ stopping
    /\ ListenerReturns /\ UNCHANGED <<cc, left>>
\* grpc.DialContext returns the error of a context that is done.
ClientRefused ==
    /\ lrun = "accept" /\ next # Nil /\ stopping
    /\ ListenerReturns /\ UNCHANGED <<cc, left>>

\* grpc.DialContext returns a client that connects in the background.
MakeClient ==
    /\ lrun = "accept" /\ next # Nil /\ ~stopping
    /\ cc' = [cc EXCEPT ![next] = "open"]
    /\ lrun' = "give" /\ giving' = next /\ next' = Nil
    /\ UNCHANGED <<agentVars, netVars, stopping, srvVars, left>>

\* The client's first call of dialer gets the connection.
FirstDial(c) ==
    /\ cc[c] = "open" /\ far[c] = "taken"
    /\ far' = [far EXCEPT ![c] = "open"]
    /\ UNCHANGED <<agentVars, owner, near, lost, goaway, stalled, lisVars, srvVars, cc, left>>

\* The agent's end is closed, or the client has closed itself.
TransportFails(c) ==
    /\ far[c] = "open"
    /\ (near[c] = "closed" /\ c \notin lost) \/ cc[c] = "closed"
    /\ far' = [far EXCEPT ![c] = "closed"]
    /\ UNCHANGED <<agentVars, owner, near, lost, goaway, stalled, lisVars, srvVars, cc, left>>

\* A dead link is noticed here only if something is sent on it: the edge asks
\* neither TCP nor gRPC for keep-alives.
DeathNoticed(c) ==
    /\ far[c] = "open" /\ c \in lost
    /\ far' = [far EXCEPT ![c] = "closed"]
    /\ UNCHANGED <<agentVars, owner, near, lost, goaway, stalled, lisVars, srvVars, cc, left>>

\* The client dials again, when its transport has failed or it is told to
\* leave; it closes itself instead, and closes done.
SecondDial_OnlyFails(c) ==
    /\ cc[c] = "open" /\ (far[c] = "closed" \/ c \in goaway)
    /\ UNCHANGED vars
SecondDial(c) ==
    /\ cc[c] = "open" /\ (far[c] = "closed" \/ c \in goaway)
    /\ cc' = [cc EXCEPT ![c] = "closed"]
    /\ UNCHANGED <<agentVars, netVars, lisVars, srvVars, left>>

\* A connection that nothing refers to any more is closed by its finalizer.
Collected(c) ==
    /\ far[c] = "taken" /\ cc[c] = "none" /\ next # c
    /\ far' = [far EXCEPT ![c] = "closed"]
    /\ UNCHANGED <<agentVars, owner, near, lost, goaway, stalled, lisVars, srvVars, cc, left>>

(***************************************************************************)
(* Server.Run on the edge.                                                 *)
(***************************************************************************)
\* s.rgrpc.Accept receives from listener.ch.
Give ==
    /\ lrun = "give" /\ loop = "accept"
    /\ adding' = giving /\ loop' = "add"
    /\ lrun' = "accept" /\ giving' = Nil
    /\ UNCHANGED <<agentVars, netVars, next, stopping, nodes, waiting, cc, left>>

\* s.nodes[id] = cc, under s.m, and the goroutine that waits.
AddNode ==
    /\ loop = "add"
    /\ nodes' = nodes \cup {adding}
    /\ waiting' = waiting \cup {adding}
    /\ adding' = Nil /\ loop' = "accept"
    /\ UNCHANGED <<agentVars, netVars, lisVars, cc, left>>

\* wait() returned: delete(s.nodes, id).
RemoveNode_WithoutWait(c) ==
    /\ c \in waiting
    /\ nodes' = nodes \ {c} /\ waiting' = waiting \ {c}
    /\ UNCHANGED <<agentVars, netVars, lisVars, loop, adding, cc, left>>
RemoveNode(c) ==
    /\ c \in waiting /\ cc[c] = "closed"
    /\ nodes' = nodes \ {c} /\ waiting' = waiting \ {c}
    /\ UNCHANGED <<agentVars, netVars, lisVars, loop, adding, cc, left>>

\* The accept loop ends when the listener has shut down.
LoopEnds_ActiveIgnored ==
    /\ loop = "accept" /\ lrun = "ended"
    /\ loop' = "add" /\ nodes' = nodes \cup {adding}
    /\ UNCHANGED <<agentVars, netVars, lisVars, adding, waiting, cc, left>>
LoopEnds ==
    /\ loop = "accept" /\ lrun = "ended"
    /\ loop' = "ended"
    /\ UNCHANGED <<agentVars, netVars, lisVars, adding, nodes, waiting, cc, left>>

\* SIGINT: the context is cancelled, and the last goroutine of Run closes the
\* listener.  The nodes stay until each has left by itself.
StopEdge ==
    /\ lrun # "down" /\ ~stopping /\ Spend("stop")
    /\ stopping' = TRUE
    /\ UNCHANGED <<agentVars, netVars, lrun, next, giving, srvVars, cc>>

\* A crash, or the second SIGINT.
EdgeCrashes ==
    /\ lrun # "down" /\ Spend("crash")
    /\ lrun' = "down" /\ next' = Nil /\ giving' = Nil /\ stopping' = FALSE
    /\ loop' = "accept" /\ adding' = Nil /\ nodes' = {} /\ waiting' = {}
    /\ cc' = [c \in Conns |-> IF cc[c] = "open" THEN "closed" ELSE cc[c]]
    /\ far' = [c \in Conns |-> IF far[c] = "none" THEN "none" ELSE "closed"]
    /\ UNCHANGED <<agentVars, owner, near, lost, goaway, stalled>>

EdgeStarts ==
    /\ lrun = "down" /\ lrun' = "accept"
    /\ UNCHANGED <<agentVars, netVars, next, giving, stopping, srvVars, cc, left>>

-----------------------------------------------------------------------------
\* The steps the processes take by themselves.
AgentStep(a) ==
    \/ Connect(a) \/ HandshakeOK(a) \/ HandshakeFails(a) \/ DialCancelled(a)
    \/ Provide(a) \/ OfferCancelled(a) \/ Redial(a) \/ WaitCancelled(a)
    \/ ServeReturns(a) \/ AgentExits(a)
ConnStep(c) ==
    \/ OnClose(c) \/ ConnClose(c)
    \/ FirstDial(c) \/ TransportFails(c) \/ SecondDial(c) \/ Collected(c)
    \/ RemoveNode(c)
ListenerStep ==
    \/ \E c \in Conns : EdgeAccepts(c)
    \/ AcceptCancelled \/ GiveCancelled \/ ClientRefused \/ MakeClient
    \/ Give
LoopStep == AddNode \/ LoopEnds
Disturbance ==
    \/ \E a \in Agents : Cancel(a) \/ AgentCrashes(a) \/ PeerVanishes(a)
    \/ \E c \in Conns : LinkDies(c)
    \/ AcceptFails \/ StopEdge \/ EdgeCrashes

\* The agent is listed as a node whose connection works from end to end.
Linked(a) ==
    /\ run[a] = "wait" /\ near[mine[a]] = "open" /\ far[mine[a]] = "open"
    /\ mine[a] \notin lost \cup done
Reached(a) == Linked(a) /\ mine[a] \in nodes

\* Every agent is connected, or cannot be: no connection is left to make, the
\* edge does not listen, its handshake has stalled.
Quiet ==
    /\ \A a \in Agents :
        \/ Linked(a) /\ (stopping \/ mine[a] \in nodes)
        \/ run[a] = "dial" /\ (\A c \in Conns : owner[c] # Nil)
        \/ run[a] = "dial" /\ lrun = "ended"
        \/ run[a] = "shake" /\ mine[a] \in stalled
    /\ UNCHANGED vars

Next ==
    \/ \E a \in Agents : AgentStep(a) \/ AgentStarts(a)
    \/ \E c \in Conns : ConnStep(c) \/ GoAway(c) \/ DeathNoticed(c)
    \/ ListenerStep \/ LoopStep \/ EdgeStarts
    \/ Disturbance
    \/ Quiet

Spec == Init /\ [][Next]_vars

\* Goroutines that can run do, retries go on for ever, and TCP and TLS answer
\* unless a fault says otherwise.  An agent finds out that a link is dead, for
\* its gRPC server pings (every two hours by default) and a handshake has sent
\* something; the edge need not.  Nothing restarts a process that is down.
Fairness ==
    /\ \A a \in Agents : WF_vars(AgentStep(a))
    /\ \A c \in Conns : WF_vars(ConnStep(c))
    /\ WF_vars(ListenerStep) /\ WF_vars(LoopStep)
FairSpec == Spec /\ Fairness
-----------------------------------------------------------------------------
(***************************************************************************)
(* Properties.                                                             *)
(***************************************************************************)

\* The type invariant: the values every variable may take.
MaybeConn == Conns \cup {Nil}
AgentType ==
    /\ run \in [Agents -> {"dial", "shake", "offer", "wait", "ended", "down"}]
    /\ mine \in [Agents -> MaybeConn]
    /\ done \subseteq Conns /\ held \subseteq Conns
    /\ cancelled \subseteq Agents /\ serving \subseteq Agents
NetType ==
    /\ owner \in [Conns -> Agents \cup {Nil}]
    /\ near \in [Conns -> {"none", "open", "closed"}]
    /\ far \in [Conns -> {"none", "queued", "taken", "open", "closed"}]
    /\ lost \subseteq Conns /\ goaway \subseteq Conns /\ stalled \subseteq Conns
EdgeType ==
    /\ lrun \in {"accept", "give", "ended", "down"}
    /\ next \in MaybeConn /\ giving \in MaybeConn /\ adding \in MaybeConn
    /\ stopping \in BOOLEAN
    /\ loop \in {"accept", "add", "ended"}
    /\ cc \in [Conns -> {"none", "open", "closed"}]
    /\ nodes \subseteq Conns /\ waiting \subseteq Conns
    /\ left \in [{"cut", "stall", "error", "crash", "stop", "all"} -> Nat]
TypeOK == AgentType /\ NetType /\ EdgeType

\* An agent never has two connections in use at once: Reverse.run dials again
\* only when the gRPC server has closed the one before, or its handshake
\* failed.  Otherwise the edge would list one agent as two live nodes and an
\* HTTP read over all nodes would count its records twice.
OneLink ==
    \A c, d \in Conns \ done :
        near[c] = "open" /\ near[d] = "open" /\ owner[c] = owner[d] => c = d

\* While the edge is not shutting down it forgets no connection it serves: a
\* live transport belongs to a listed node, or to a client on its way from
\* listener.run to the node map, unless its agent has told the edge to leave.
LiveIsListed ==
    lrun # "down" /\ ~stopping =>
        \A c \in Conns :
            far[c] = "open" /\ c \notin goaway => c \in nodes \cup {giving, adding}

\* What makes the two inductive.  Reverse.run has in hand the one connection of
\* its agent that may be in use; a client that still connects is in exactly one
\* pair of hands between listener.run and the wait goroutine of Server.Run.
InHand ==
    /\ \A a \in Agents :
        /\ run[a] \in {"dial", "down"} => mine[a] = Nil
        /\ run[a] \in {"shake", "offer", "wait"} => mine[a] \in Conns /\ owner[mine[a]] = a
    /\ \A c \in Conns \ done :
        near[c] = "open" => owner[c] \in Agents /\ mine[owner[c]] = c
ClientKept ==
    /\ lrun # "give" => giving = Nil
    /\ loop # "add" => adding = Nil
    /\ lrun = "give" => giving \in Conns
    /\ loop = "add" => adding \in Conns
    /\ \A c \in Conns : far[c] = "open" => cc[c] = "open" \/ c \in goaway
    /\ lrun = "down" => \A c \in Conns : cc[c] # "open"
    /\ ~stopping => \A c \in Conns : cc[c] = "open" => c \in nodes \cup {giving, adding}
IndInv == TypeOK /\ InHand /\ ClientKept

\* Reverse, listener and Server.Run together provide the two gRPC servers with
\* Links: never a second connection for an agent before the first is finished,
\* and each is listed once, for as long as both ends and the link last and the
\* agent does not take its leave.
AgentEnd ==
    [c \in Conns |-> IF c \in done \/ near[c] = "closed" THEN "over"
                     ELSE IF c \in goaway THEN "leaving"
                     ELSE IF c \in held THEN "provided" ELSE "none"]
EdgeEnd ==
    [c \in Conns |-> IF c \in nodes THEN "listed"
                     ELSE IF cc[c] = "closed" /\ c \notin {giving, adding} THEN "past"
                     ELSE "none"]
EdgeState == IF lrun = "down" THEN "down" ELSE IF stopping THEN "stopping" ELSE "up"
Network == INSTANCE Links WITH who <- owner, agentEnd <- AgentEnd, edgeEnd <- EdgeEnd,
                               edge <- EdgeState, dead <- lost
ProvidesLinks == Network!Spec

\* The node of an agent that has closed its end of the connection, or died,
\* is deleted in the end, unless the link died first: then the edge may never
\* notice (edge/pkg/listener.go:102 asks for no keep-alive).
GoneNodesLeave ==
    \A c \in Conns : c \in nodes /\ near[c] = "closed" ~> c \notin nodes \/ c \in lost

\* An agent that runs is listed by a running edge again and again, whatever
\* links, agents and edges died before.  Two places of the code have no way
\* out: a handshake with a peer that vanished (reverse.go:61), and
\* listener.run after one failed Accept (listener.go:69).
Reconnects ==
    \A a \in Agents :
        []<>(Reached(a) \/ run[a] = "down" \/ a \in cancelled \/ mine[a] \in stalled
               \/ lrun \in {"ended", "down"} \/ stopping)

\* An agent whose context is cancelled stops, unless it is in such a handshake:
\* Reverse.run closes its channel from wherever else it is, "so that accept
\* will return an error" (reverse.go:106, 117), and Serve returns.
ShutdownEnds == \A a \in Agents : a \in cancelled ~> run[a] = "down" \/ mine[a] \in stalled

\* reverse.go:21: "When the connection is closed either remotedly or locally,
\* the connection is re-established and re-provided over Accept()", here with
\* an edge that runs.
ReProvided ==
    \A a \in Agents :
        run[a] = "wait" /\ mine[a] \in done ~>
            \/ run[a] = "wait" /\ mine[a] \notin done
            \/ run[a] = "down" \/ a \in cancelled
            \/ lrun \in {"ended", "down"} \/ stopping
=============================================================================
