---------------------------- MODULE TunnelProofs ----------------------------
(* What Tunnel guarantees for every set of agents, any number of           *)
(* connections and any number of faults.                                   *)
EXTENDS Tunnel, TLAPS

USE TunnelAssumption
USE DEF Conns, MaybeConn, agentVars, netVars, lisVars, srvVars, Goes

LEMMA InitIndInv == Init => IndInv
<1> SUFFICES ASSUME Init PROVE IndInv
    OBVIOUS
<1>1. AgentType /\ NetType
    BY DEF Init, AgentType, NetType
<1>2. EdgeType
  <2>1. left \in [{"cut", "stall", "error", "crash", "stop", "all"} -> Nat]
    BY DEF Init
  <2>. QED
    BY <2>1 DEF Init, EdgeType
<1>3. InHand /\ ClientKept
    BY DEF Init, InHand, ClientKept
<1>. QED
    BY <1>1, <1>2, <1>3 DEF IndInv, TypeOK

LEMMA SpendType ==
    ASSUME EdgeType, NEW fault \in {"cut", "stall", "error", "crash", "stop"}, Spend(fault)
    PROVE  left' \in [{"cut", "stall", "error", "crash", "stop", "all"} -> Nat]
<1> DEFINE one == [left EXCEPT ![fault] = left[fault] - 1]
<1>1. left' = [one EXCEPT !["all"] = one["all"] - 1] /\ left[fault] > 0 /\ left["all"] > 0
    BY DEF Spend
<1>2. left \in [{"cut", "stall", "error", "crash", "stop", "all"} -> Nat]
    BY DEF EdgeType
<1>3. left[fault] \in Nat /\ left["all"] \in Nat
    BY <1>2
<1>4. left[fault] - 1 \in Nat /\ left["all"] - 1 \in Nat
    BY <1>1, <1>3
<1>5. one \in [{"cut", "stall", "error", "crash", "stop", "all"} -> Nat]
    BY <1>2, <1>4
<1>6. one["all"] = left["all"]
    BY <1>2
<1>. QED
    BY <1>1, <1>4, <1>5, <1>6

-----------------------------------------------------------------------------
(***************************************************************************)
(* The agent's steps leave the edge alone, but for Connect, which queues.  *)
(***************************************************************************)
LEMMA EdgeSame ==
    ASSUME IndInv, UNCHANGED <<far, goaway, lisVars, srvVars, cc>>,
           left' \in [{"cut", "stall", "error", "crash", "stop", "all"} -> Nat]
    PROVE  EdgeType' /\ ClientKept'
BY DEF IndInv, TypeOK, EdgeType, ClientKept

LEMMA ConnectKeeps ==
    ASSUME IndInv, NEW a \in Agents, Connect(a)
    PROVE  IndInv'
<1>1. PICK c \in Conns :
        /\ owner[c] = Nil
        /\ owner' = [owner EXCEPT ![c] = a]
        /\ near' = [near EXCEPT ![c] = "open"]
        /\ far' = [far EXCEPT ![c] = "queued"]
        /\ mine' = [mine EXCEPT ![a] = c]
    BY DEF Connect
<1>2. /\ run[a] = "dial" /\ run' = [run EXCEPT ![a] = "shake"]
      /\ UNCHANGED <<done, cancelled, serving, held, lost, goaway, stalled, lisVars, srvVars,
                     cc, left>>
    BY DEF Connect
<1>3. TypeOK'
  <2>1. AgentType' /\ NetType'
    BY <1>1, <1>2 DEF IndInv, TypeOK, AgentType, NetType
  <2>2. EdgeType'
    BY <1>2 DEF IndInv, TypeOK, EdgeType
  <2>. QED
    BY <2>1, <2>2 DEF TypeOK
<1>4. InHand'
  <2>1. mine[a] = Nil /\ a # Nil
    BY <1>2 DEF IndInv, InHand
  <2>2. ASSUME NEW b \in Agents
        PROVE  /\ run'[b] \in {"dial", "down"} => mine'[b] = Nil
               /\ run'[b] \in {"shake", "offer", "wait"} =>
                    mine'[b] \in Conns /\ owner'[mine'[b]] = b
    BY <1>1, <1>2, <2>1 DEF IndInv, TypeOK, AgentType, NetType, InHand
  <2>3. ASSUME NEW d \in Conns \ done', near'[d] = "open"
        PROVE  owner'[d] \in Agents /\ mine'[owner'[d]] = d
    BY <1>1, <1>2, <2>1, <2>3 DEF IndInv, TypeOK, AgentType, NetType, InHand
  <2>. QED
    BY <2>2, <2>3 DEF InHand
<1>5. ClientKept'
  <2>1. \A d \in Conns : far'[d] = "open" => far[d] = "open"
    BY <1>1 DEF IndInv, TypeOK, NetType
  <2>. QED
    BY <1>2, <2>1 DEF IndInv, ClientKept
<1>. QED
    BY <1>3, <1>4, <1>5 DEF IndInv

\* The other steps of Reverse.run and Serve, and the agent's end of a close.
LEMMA AgentKeeps ==
    ASSUME IndInv, NEW a \in Agents,
           \/ HandshakeOK(a) \/ HandshakeFails(a) \/ DialCancelled(a) \/ Provide(a)
           \/ OfferCancelled(a) \/ Redial(a) \/ WaitCancelled(a) \/ ServeReturns(a)
           \/ Cancel(a) \/ AgentStarts(a) \/ PeerVanishes(a)
    PROVE  IndInv'
<1> USE DEF HandshakeOK, HandshakeFails, DialCancelled, Provide, OfferCancelled, Redial,
        WaitCancelled, ServeReturns, Cancel, AgentStarts, PeerVanishes
<1>1. left' \in [{"cut", "stall", "error", "crash", "stop", "all"} -> Nat]
  <2>1. CASE Cancel(a) \/ PeerVanishes(a)
    BY <2>1, SpendType DEF IndInv, TypeOK
  <2>2. CASE UNCHANGED left
    BY <2>2 DEF IndInv, TypeOK, EdgeType
  <2>. QED
    BY <2>1, <2>2
<1>2. EdgeType' /\ ClientKept'
    BY <1>1, EdgeSame
<1>3. AgentType'
  <2>1. run' \in [Agents -> {"dial", "shake", "offer", "wait", "ended", "down"}]
    BY DEF IndInv, TypeOK, AgentType
  <2>2. mine' \in [Agents -> MaybeConn]
    BY DEF IndInv, TypeOK, AgentType
  <2>3. held' \subseteq Conns
    <3>1. CASE Provide(a)
      <4>1. mine[a] \in Conns
        BY <3>1 DEF IndInv, InHand
      <4>2. held' = held \cup {mine[a]}
        BY <3>1
      <4>. QED
        BY <4>1, <4>2 DEF IndInv, TypeOK, AgentType
    <3>2. CASE UNCHANGED held
      BY <3>2 DEF IndInv, TypeOK, AgentType
    <3>. QED
      BY <3>1, <3>2
  <2>4. done' \subseteq Conns /\ cancelled' \subseteq Agents /\ serving' \subseteq Agents
    BY DEF IndInv, TypeOK, AgentType
  <2>. QED
    BY <2>1, <2>2, <2>3, <2>4 DEF AgentType
<1>4. NetType'
  <2>1. run[a] = "shake" => mine[a] \in Conns
    BY DEF IndInv, InHand
  <2>2. CASE HandshakeFails(a)
    BY <2>2 DEF IndInv, TypeOK, NetType
  <2>3. CASE PeerVanishes(a)
    BY <2>1, <2>3 DEF IndInv, TypeOK, NetType
  <2>4. CASE UNCHANGED netVars
    BY <2>4 DEF IndInv, TypeOK, NetType
  <2>. QED
    BY <2>2, <2>3, <2>4
<1>5. InHand'
  <2>1. ASSUME NEW b \in Agents
        PROVE  /\ run'[b] \in {"dial", "down"} => mine'[b] = Nil
               /\ run'[b] \in {"shake", "offer", "wait"} =>
                    mine'[b] \in Conns /\ owner'[mine'[b]] = b
    <3>1. CASE b = a
      BY <3>1 DEF IndInv, TypeOK, AgentType, InHand
    <3>2. CASE b # a
      BY <3>2 DEF IndInv, TypeOK, AgentType, InHand
    <3>. QED
      BY <3>1, <3>2
  <2>2. ASSUME NEW c \in Conns \ done', near'[c] = "open"
        PROVE  owner'[c] \in Agents /\ mine'[owner'[c]] = c
    <3>1. c \in Conns \ done /\ near[c] = "open"
      BY <2>2 DEF IndInv, TypeOK, NetType
    <3>2. owner[c] \in Agents /\ mine[owner[c]] = c
      BY <3>1 DEF IndInv, InHand
    <3>3. CASE HandshakeFails(a)
      BY <2>2, <3>2, <3>3 DEF IndInv, TypeOK, AgentType, NetType, InHand
    <3>4. CASE Redial(a)
      BY <3>1, <3>2, <3>4 DEF IndInv, TypeOK, AgentType, InHand
    <3>5. CASE UNCHANGED <<mine, owner>>
      BY <3>2, <3>5
    <3>. QED
      BY <3>2, <3>3, <3>4, <3>5
  <2>. QED
    BY <2>1, <2>2 DEF InHand
<1>. QED
    BY <1>2, <1>3, <1>4, <1>5 DEF IndInv, TypeOK

LEMMA AgentGoneKeeps ==
    ASSUME IndInv, NEW a \in Agents, AgentExits(a) \/ AgentCrashes(a)
    PROVE  IndInv'
<1>1. AgentGone(a)
    BY DEF AgentExits, AgentCrashes
<1>2. left' \in [{"cut", "stall", "error", "crash", "stop", "all"} -> Nat]
    BY SpendType DEF AgentExits, AgentCrashes, IndInv, TypeOK, EdgeType
<1>3. EdgeType' /\ ClientKept'
    BY <1>1, <1>2, EdgeSame DEF AgentGone
<1>4. AgentType' /\ NetType'
    BY <1>1 DEF AgentGone, IndInv, TypeOK, AgentType, NetType
<1>5. InHand'
  <2>1. ASSUME NEW b \in Agents
        PROVE  /\ run'[b] \in {"dial", "down"} => mine'[b] = Nil
               /\ run'[b] \in {"shake", "offer", "wait"} =>
                    mine'[b] \in Conns /\ owner'[mine'[b]] = b
    BY <1>1 DEF AgentGone, IndInv, TypeOK, AgentType, InHand
  <2>2. ASSUME NEW d \in Conns \ done', near'[d] = "open"
        PROVE  owner'[d] \in Agents /\ mine'[owner'[d]] = d
    BY <1>1, <2>2 DEF AgentGone, IndInv, TypeOK, AgentType, NetType, InHand
  <2>. QED
    BY <2>1, <2>2 DEF InHand
<1>. QED
    BY <1>3, <1>4, <1>5 DEF IndInv, TypeOK

LEMMA CloseKeeps ==
    ASSUME IndInv, NEW c \in Conns, OnClose(c) \/ ConnClose(c) \/ LinkDies(c)
    PROVE  IndInv'
<1> USE DEF OnClose, ConnClose, LinkDies
<1>1. left' \in [{"cut", "stall", "error", "crash", "stop", "all"} -> Nat]
    BY SpendType DEF IndInv, TypeOK, EdgeType
<1>2. EdgeType' /\ ClientKept'
    BY <1>1, EdgeSame
<1>3. AgentType' /\ NetType'
    BY DEF IndInv, TypeOK, AgentType, NetType
<1>4. InHand'
    BY DEF IndInv, TypeOK, AgentType, NetType, InHand
<1>. QED
    BY <1>2, <1>3, <1>4 DEF IndInv, TypeOK

-----------------------------------------------------------------------------
(***************************************************************************)
(* The edge's steps leave the agents and their ends alone.                 *)
(***************************************************************************)
LEMMA AgentSame ==
    ASSUME IndInv, UNCHANGED <<agentVars, owner, near, lost, stalled>>
    PROVE  AgentType' /\ InHand'
BY DEF IndInv, TypeOK, AgentType, InHand

LEMMA EdgeConnKeeps ==
    ASSUME IndInv, NEW c \in Conns,
           \/ EdgeAccepts(c) \/ FirstDial(c) \/ TransportFails(c) \/ DeathNoticed(c)
           \/ SecondDial(c) \/ Collected(c) \/ RemoveNode(c)
    PROVE  IndInv'
<1> USE DEF EdgeAccepts, FirstDial, TransportFails, DeathNoticed, SecondDial, Collected,
        RemoveNode
<1>1. AgentType' /\ InHand'
    BY AgentSame
<1>2. NetType' /\ EdgeType'
  <2>1. NetType'
    BY DEF IndInv, TypeOK, NetType
  <2>2. cc' \in [Conns -> {"none", "open", "closed"}] /\ UNCHANGED <<left, stopping, loop>>
    BY DEF IndInv, TypeOK, EdgeType
  <2>3. next' \in MaybeConn /\ nodes' \subseteq Conns /\ waiting' \subseteq Conns
    BY DEF IndInv, TypeOK, EdgeType
  <2>4. UNCHANGED <<lrun, giving, adding>>
    OBVIOUS
  <2>. QED
    BY <2>1, <2>2, <2>3, <2>4 DEF IndInv, TypeOK, EdgeType
<1>3. ClientKept'
  <2> USE DEF IndInv, TypeOK, NetType, EdgeType, ClientKept
  <2>1. CASE EdgeAccepts(c) \/ FirstDial(c)
    BY <2>1
  <2>2. CASE TransportFails(c) \/ DeathNoticed(c) \/ Collected(c)
    <3>1. \A d \in Conns : far'[d] = "open" => far[d] = "open"
      BY <2>2
    <3>2. UNCHANGED <<goaway, lisVars, srvVars, cc>>
      BY <2>2
    <3>. QED
      BY <3>1, <3>2
  <2>3. CASE SecondDial(c)
    BY <2>3
  <2>4. CASE RemoveNode(c)
    BY <2>4
  <2>. QED
    BY <2>1, <2>2, <2>3, <2>4
<1>. QED
    BY <1>1, <1>2, <1>3 DEF IndInv, TypeOK

\* GoAway is the one step of an agent that the edge's client learns of at once.
LEMMA GoAwayKeeps ==
    ASSUME IndInv, NEW c \in Conns, GoAway(c)
    PROVE  IndInv'
<1> USE DEF GoAway
<1>1. AgentType' /\ InHand'
    BY AgentSame
<1>2. NetType' /\ EdgeType'
    BY DEF IndInv, TypeOK, NetType, EdgeType
<1>3. ClientKept'
    BY DEF IndInv, ClientKept
<1>. QED
    BY <1>1, <1>2, <1>3 DEF IndInv, TypeOK

LEMMA ListenerReturnsKeeps ==
    ASSUME IndInv,
           \/ AcceptFails \/ AcceptCancelled \/ GiveCancelled \/ ClientRefused
    PROVE  IndInv'
<1>1. ListenerReturns /\ UNCHANGED cc /\ (lrun = "accept" \/ stopping)
    BY DEF AcceptFails, AcceptCancelled, GiveCancelled, ClientRefused
<1>2. left' \in [{"cut", "stall", "error", "crash", "stop", "all"} -> Nat]
    BY SpendType DEF AcceptFails, AcceptCancelled, GiveCancelled, ClientRefused,
        IndInv, TypeOK, EdgeType
<1>3. AgentType' /\ InHand'
    BY <1>1, AgentSame DEF ListenerReturns
<1>4. NetType' /\ EdgeType'
    BY <1>1, <1>2 DEF ListenerReturns, IndInv, TypeOK, NetType, EdgeType
<1>5. ClientKept'
    BY <1>1 DEF ListenerReturns, IndInv, TypeOK, NetType, EdgeType, ClientKept
<1>. QED
    BY <1>3, <1>4, <1>5 DEF IndInv, TypeOK

LEMMA ServerKeeps ==
    ASSUME IndInv,
           \/ MakeClient \/ Give \/ AddNode \/ LoopEnds \/ StopEdge \/ EdgeStarts
    PROVE  IndInv'
<1> USE DEF MakeClient, Give, AddNode, LoopEnds, StopEdge, EdgeStarts
<1>1. left' \in [{"cut", "stall", "error", "crash", "stop", "all"} -> Nat]
    BY SpendType DEF IndInv, TypeOK, EdgeType
<1>2. AgentType' /\ InHand'
    BY AgentSame
<1>3. NetType' /\ EdgeType'
  <2>1. NetType'
    BY DEF IndInv, TypeOK, NetType
  <2>2. cc' \in [Conns -> {"none", "open", "closed"}]
    BY DEF IndInv, TypeOK, EdgeType
  <2>3. nodes' \subseteq Conns /\ waiting' \subseteq Conns
    BY DEF IndInv, TypeOK, EdgeType, ClientKept
  <2>. QED
    BY <1>1, <2>1, <2>2, <2>3 DEF IndInv, TypeOK, EdgeType
<1>4. CASE MakeClient
  <2>1. giving = Nil /\ next \in Conns
    BY <1>4 DEF IndInv, TypeOK, EdgeType, ClientKept
  <2>. QED
    BY <1>2, <1>3, <1>4, <2>1 DEF IndInv, TypeOK, EdgeType, ClientKept
<1>5. CASE Give
    BY <1>2, <1>3, <1>5 DEF IndInv, TypeOK, ClientKept
<1>6. CASE AddNode
    BY <1>2, <1>3, <1>6 DEF IndInv, TypeOK, ClientKept
<1>7. CASE LoopEnds
    BY <1>2, <1>3, <1>7 DEF IndInv, TypeOK, ClientKept
<1>8. CASE StopEdge
    BY <1>2, <1>3, <1>8 DEF IndInv, TypeOK, ClientKept
<1>9. CASE EdgeStarts
    BY <1>2, <1>3, <1>9 DEF IndInv, TypeOK, ClientKept
<1>. QED
    BY <1>4, <1>5, <1>6, <1>7, <1>8, <1>9

LEMMA EdgeCrashesKeeps ==
    ASSUME IndInv, EdgeCrashes
    PROVE  IndInv'
<1>1. left' \in [{"cut", "stall", "error", "crash", "stop", "all"} -> Nat]
    BY SpendType DEF EdgeCrashes, IndInv, TypeOK
<1>2. AgentType' /\ InHand'
    BY AgentSame DEF EdgeCrashes
<1>3. NetType' /\ EdgeType'
    BY <1>1 DEF EdgeCrashes, IndInv, TypeOK, NetType, EdgeType
<1>4. ClientKept'
    BY DEF EdgeCrashes, IndInv, TypeOK, NetType, EdgeType, ClientKept
<1>. QED
    BY <1>2, <1>3, <1>4 DEF IndInv, TypeOK

LEMMA StutterKeeps ==
    ASSUME IndInv, UNCHANGED vars
    PROVE  IndInv'
<1>1. EdgeType' /\ ClientKept'
    BY EdgeSame DEF vars, IndInv, TypeOK, EdgeType
<1>2. AgentType' /\ InHand'
    BY AgentSame DEF vars
<1>3. NetType'
    BY DEF vars, IndInv, TypeOK, NetType
<1>. QED
    BY <1>1, <1>2, <1>3 DEF IndInv, TypeOK

-----------------------------------------------------------------------------
LEMMA NextIndInv == IndInv /\ [Next]_vars => IndInv'
<1> SUFFICES ASSUME IndInv, [Next]_vars PROVE IndInv'
    OBVIOUS
<1>1. ASSUME NEW a \in Agents, AgentStep(a) \/ AgentStarts(a)
      PROVE  IndInv'
    BY <1>1, ConnectKeeps, AgentKeeps, AgentGoneKeeps DEF AgentStep
<1>2. ASSUME NEW c \in Conns, ConnStep(c) \/ GoAway(c) \/ DeathNoticed(c) PROVE IndInv'
    BY <1>2, CloseKeeps, EdgeConnKeeps, GoAwayKeeps DEF ConnStep
<1>3. CASE ListenerStep
    BY <1>3, EdgeConnKeeps, ListenerReturnsKeeps, ServerKeeps DEF ListenerStep
<1>4. CASE LoopStep \/ EdgeStarts
    BY <1>4, ServerKeeps DEF LoopStep
<1>5. CASE Disturbance
    BY <1>5, AgentKeeps, AgentGoneKeeps, CloseKeeps, ListenerReturnsKeeps, ServerKeeps,
       EdgeCrashesKeeps DEF Disturbance
<1>6. CASE Quiet \/ UNCHANGED vars
    BY <1>6, StutterKeeps DEF Quiet
<1>. QED
    BY <1>1, <1>2, <1>3, <1>4, <1>5, <1>6 DEF Next

\* The inductive invariant of the tunnel: whose hands every connection and
\* every client is in, on both sides (Reverse.run, listener.run, Server.Run).
THEOREM Inductive == Spec => []IndInv
<1>1. Init => IndInv
    BY InitIndInv
<1>2. IndInv /\ [Next]_vars => IndInv'
    BY NextIndInv
<1>. QED
    BY <1>1, <1>2, PTL DEF Spec

\* Every variable keeps its type: the places in Reverse.run, listener.run and
\* the accept loop, the two ends of each connection, and the maps.
THEOREM TypeCorrect == Spec => []TypeOK
<1>1. IndInv => TypeOK
    BY DEF IndInv
<1>. QED
    BY <1>1, Inductive, PTL

\* No agent ever has two connections in use: Reverse.run has the one in hand
\* that may be (reverse.go run and wconn.Close).
THEOREM OneLinkEach == Spec => []OneLink
<1>1. IndInv => OneLink
    BY DEF IndInv, InHand, OneLink
<1>. QED
    BY <1>1, Inductive, PTL

\* An edge that is not shutting down lists every connection it serves, or is
\* about to, until the agent tells it to leave (listener.run, Server.Run).
THEOREM LiveAreListed == Spec => []LiveIsListed
<1>1. IndInv => LiveIsListed
    BY DEF IndInv, ClientKept, LiveIsListed
<1>. QED
    BY <1>1, Inductive, PTL

-----------------------------------------------------------------------------
(***************************************************************************)
(* Tunnel implements Links.  Added to IndInv is how each end hands a       *)
(* connection on: to the gRPC server once and while it is open, from       *)
(* listener.run to the node map once and with its client.                  *)
(***************************************************************************)
AgentHands ==
    /\ \A a \in Agents : run[a] \in {"shake", "offer"} =>
          near[mine[a]] = "open" /\ mine[a] \notin done \cup held
    /\ \A c \in held : near[c] = "open" /\ c \notin done
    /\ \A c \in goaway : c \in held \cup done \/ near[c] = "closed"
    /\ \A c \in done : owner[c] # Nil
    /\ \A c \in Conns : owner[c] = Nil <=> near[c] = "none"
EdgeHands ==
    /\ next # Nil => far[next] = "taken" /\ cc[next] = "none"
    /\ \A c \in Conns :
        /\ far[c] \in {"none", "queued"} => cc[c] = "none"
        /\ far[c] = "none" <=> owner[c] = Nil
        /\ cc[c] = "closed" => far[c] = "closed" \/ c \in goaway
    /\ \A c \in nodes : cc[c] # "none"
    /\ giving # Nil => cc[giving] # "none" /\ giving \notin nodes /\ giving # adding
    /\ adding # Nil => cc[adding] # "none" /\ adding \notin nodes
    /\ waiting \subseteq nodes
    /\ lrun = "down" => loop # "add" /\ ~stopping
\* A client dies only of its connection, or because it is told to leave.
Causes ==
    \A c \in Conns : c \in nodes \cup {giving, adding} /\ far[c] = "closed" =>
        near[c] = "closed" \/ c \in lost \cup goaway
Hands == AgentHands /\ EdgeHands /\ Causes

LEMMA InitHands == Init => Hands
BY DEF Init, Hands, AgentHands, EdgeHands, Causes

LEMMA ConnectHands ==
    ASSUME IndInv, Hands, NEW a \in Agents, Connect(a)
    PROVE  Hands'
<1>1. PICK c \in Conns :
        /\ owner[c] = Nil
        /\ owner' = [owner EXCEPT ![c] = a]
        /\ near' = [near EXCEPT ![c] = "open"]
        /\ far' = [far EXCEPT ![c] = "queued"]
        /\ mine' = [mine EXCEPT ![a] = c]
    BY DEF Connect
<1>2. /\ run' = [run EXCEPT ![a] = "shake"]
      /\ UNCHANGED <<done, held, lost, goaway, lisVars, srvVars, cc>>
    BY DEF Connect
<1>3. a # Nil /\ c \notin done /\ c \notin held /\ cc[c] = "none" /\ near[c] = "none"
    BY <1>1 DEF Hands, AgentHands, EdgeHands
<1>4. AgentHands'
    BY <1>1, <1>2, <1>3 DEF IndInv, TypeOK, AgentType, NetType, InHand, Hands, AgentHands
<1>5. EdgeHands'
    BY <1>1, <1>2, <1>3 DEF IndInv, TypeOK, NetType, EdgeType, Hands, EdgeHands
<1>6. Causes'
    BY <1>1, <1>2, <1>3 DEF IndInv, TypeOK, NetType, EdgeType, Hands, EdgeHands, Causes
<1>. QED
    BY <1>4, <1>5, <1>6 DEF Hands

LEMMA AgentStepHands ==
    ASSUME IndInv, Hands, NEW a \in Agents,
           \/ HandshakeOK(a) \/ HandshakeFails(a) \/ DialCancelled(a) \/ Provide(a)
           \/ OfferCancelled(a) \/ Redial(a) \/ WaitCancelled(a) \/ ServeReturns(a)
           \/ Cancel(a) \/ AgentStarts(a) \/ PeerVanishes(a)
    PROVE  Hands'
<1> USE DEF HandshakeOK, HandshakeFails, DialCancelled, Provide, OfferCancelled, Redial,
        WaitCancelled, ServeReturns, Cancel, AgentStarts, PeerVanishes
<1>1. UNCHANGED <<done, owner, far, goaway, lisVars, srvVars, cc>>
    OBVIOUS
<1>2. AgentHands'
  <2> USE DEF IndInv, TypeOK, AgentType, NetType, InHand, Hands, AgentHands
  <2>1. CASE HandshakeOK(a) \/ DialCancelled(a) \/ OfferCancelled(a) \/ WaitCancelled(a)
    <3>1. \A b \in Agents : run'[b] \in {"shake", "offer"} => run[b] \in {"shake", "offer"}
      BY <2>1
    <3>2. UNCHANGED <<mine, done, held, goaway, owner, near>>
      BY <2>1
    <3>. QED
      BY <3>1, <3>2
  <2>2. CASE HandshakeFails(a)
    BY <2>2
  <2>3. CASE Provide(a)
    <3>1. mine[a] \in Conns /\ near[mine[a]] = "open" /\ mine[a] \notin done
      BY <2>3
    <3>2. \A b \in Agents : run'[b] \in {"shake", "offer"} => mine[b] # mine[a] /\ run[b] = run'[b]
      BY <2>3
    <3>. QED
      BY <2>3, <3>1, <3>2
  <2>4. CASE Redial(a) \/ AgentStarts(a)
    <3>1. \A b \in Agents : run'[b] \in {"shake", "offer"} =>
              run[b] \in {"shake", "offer"} /\ mine'[b] = mine[b]
      BY <2>4
    <3>2. UNCHANGED <<done, held, goaway, owner, near>>
      BY <2>4
    <3>. QED
      BY <3>1, <3>2
  <2>5. CASE ServeReturns(a) \/ Cancel(a) \/ PeerVanishes(a)
    BY <2>5
  <2>. QED
    BY <2>1, <2>2, <2>3, <2>4, <2>5
<1>3. EdgeHands'
    BY <1>1 DEF Hands, EdgeHands
<1>4. lost \subseteq lost' /\ \A c \in Conns : near[c] = "closed" => near'[c] = "closed"
    BY DEF IndInv, TypeOK, NetType
<1>5. Causes'
    BY <1>1, <1>4 DEF Hands, Causes
<1>. QED
    BY <1>2, <1>3, <1>5 DEF Hands

LEMMA AgentGoneHands ==
    ASSUME IndInv, Hands, NEW a \in Agents, AgentGone(a)
    PROVE  Hands'
<1> USE DEF AgentGone
<1>1. a # Nil
    OBVIOUS
<1>2. AgentHands'
    BY <1>1 DEF IndInv, TypeOK, AgentType, NetType, InHand, Hands, AgentHands
<1>3. EdgeHands'
    BY DEF Hands, EdgeHands
<1>4. \A c \in Conns : near[c] = "closed" => near'[c] = "closed"
    OBVIOUS
<1>5. Causes'
    BY <1>4 DEF Hands, Causes
<1>. QED
    BY <1>2, <1>3, <1>5 DEF Hands

LEMMA ConnHands ==
    ASSUME IndInv, Hands, NEW c \in Conns,
           \/ ConnStep(c) \/ GoAway(c) \/ DeathNoticed(c) \/ LinkDies(c) \/ EdgeAccepts(c)
    PROVE  Hands'
<1> USE DEF IndInv, TypeOK, AgentType, NetType, EdgeType
<1>1. CASE OnClose(c) \/ ConnClose(c) \/ LinkDies(c)
  <2> USE DEF OnClose, ConnClose, LinkDies
  <2>1. CASE OnClose(c)
    <3>1. near[c] = "open" /\ owner[c] # Nil
      BY <2>1 DEF Hands, AgentHands
    <3>2. \A a \in Agents : run[a] \in {"shake", "offer"} => mine[a] # c
      BY <2>1 DEF Hands, AgentHands
    <3>. QED
      BY <2>1, <3>1, <3>2 DEF Hands, AgentHands, EdgeHands, Causes
  <2>2. CASE ConnClose(c)
    <3>1. AgentHands'
      <4>1. c \notin held /\ near[c] = "open" /\ owner[c] # Nil
        BY <2>2 DEF Hands, AgentHands
      <4>2. \A a \in Agents : run[a] \in {"shake", "offer"} => mine[a] # c
        BY <2>2 DEF Hands, AgentHands
      <4>3. \A d \in Conns : d # c => near'[d] = near[d]
        BY <2>2
      <4>4. \A a \in Agents : run[a] \in {"shake", "offer"} => mine[a] \in Conns
        BY DEF InHand
      <4>5. near'[c] = "closed" /\ UNCHANGED <<run, mine, done, held, goaway, owner>>
        BY <2>2
      <4>6. \A a \in Agents : run[a] \in {"shake", "offer"} =>
                near'[mine[a]] = "open" /\ mine[a] \notin done \cup held
        BY <4>2, <4>3, <4>4 DEF Hands, AgentHands
      <4>7. \A d \in held : near'[d] = "open" /\ d \notin done
        <5>1. \A d \in held : near[d] = "open" /\ d \notin done /\ d # c /\ d \in Conns
          BY <4>1 DEF Hands, AgentHands
        <5>. QED
          BY <4>3, <5>1
      <4>8. \A d \in Conns : owner[d] = Nil <=> near'[d] = "none"
        BY <4>1, <4>3, <4>5 DEF Hands, AgentHands
      <4>9. \A d \in done : owner[d] # Nil
        BY DEF Hands, AgentHands
      <4>10. \A d \in goaway : d \in held \cup done \/ near'[d] = "closed"
        BY <4>3, <4>5 DEF Hands, AgentHands, NetType
      <4>. QED
        BY <4>5, <4>6, <4>7, <4>8, <4>9, <4>10 DEF AgentHands
    <3>2. EdgeHands'
      BY <2>2 DEF Hands, EdgeHands
    <3>3. Causes'
      BY <2>2 DEF Hands, Causes
    <3>. QED
      BY <3>1, <3>2, <3>3 DEF Hands
  <2>3. CASE LinkDies(c)
    BY <2>3 DEF Hands, AgentHands, EdgeHands, Causes
  <2>. QED
    BY <1>1, <2>1, <2>2, <2>3
<1>2. CASE \/ FirstDial(c) \/ TransportFails(c) \/ DeathNoticed(c) \/ SecondDial(c)
           \/ Collected(c) \/ EdgeAccepts(c)
  <2> USE DEF FirstDial, TransportFails, DeathNoticed, SecondDial, Collected, EdgeAccepts
  <2>1. AgentHands'
    BY <1>2 DEF Hands, AgentHands
  <2>2. CASE FirstDial(c)
    <3>1. EdgeHands'
      BY <2>2 DEF Hands, EdgeHands
    <3>2. Causes'
      BY <2>2 DEF Hands, Causes
    <3>. QED
      BY <2>1, <3>1, <3>2 DEF Hands
  <2>3. CASE TransportFails(c) \/ DeathNoticed(c)
    <3>1. EdgeHands'
      <4>1. far[c] = "open" /\ UNCHANGED <<goaway, owner, lisVars, srvVars, cc>>
        BY <2>3
      <4>2. far'[c] = "closed" /\ \A d \in Conns : d # c => far'[d] = far[d]
        BY <2>3
      <4>3. /\ next # Nil => next \in Conns /\ next # c
            /\ c \in Conns /\ owner[c] # Nil
        BY <4>1 DEF Hands, EdgeHands
      <4>4. next' # Nil => far'[next'] = "taken" /\ cc'[next'] = "none"
        BY <4>1, <4>2, <4>3 DEF Hands, EdgeHands
      <4>5. \A d \in Conns :
              /\ far'[d] \in {"none", "queued"} => cc'[d] = "none"
              /\ far'[d] = "none" <=> owner'[d] = Nil
              /\ cc'[d] = "closed" => far'[d] = "closed" \/ d \in goaway'
        <5>1. \A d \in Conns :
                /\ far[d] \in {"none", "queued"} => cc[d] = "none"
                /\ far[d] = "none" <=> owner[d] = Nil
                /\ cc[d] = "closed" => far[d] = "closed" \/ d \in goaway
          BY DEF Hands, EdgeHands
        <5>. QED
          BY ONLY <4>1, <4>2, <4>3, <5>1
      <4>6. /\ \A d \in nodes' : cc'[d] # "none"
            /\ giving' # Nil => /\ cc'[giving'] # "none" /\ giving' \notin nodes'
                                /\ giving' # adding'
            /\ adding' # Nil => cc'[adding'] # "none" /\ adding' \notin nodes'
            /\ waiting' \subseteq nodes'
            /\ lrun' = "down" => loop' # "add" /\ ~stopping'
        BY <4>1 DEF Hands, EdgeHands
      <4>. QED
        BY ONLY <4>4, <4>5, <4>6 DEF EdgeHands
    <3>2. near[c] = "closed" \/ c \in lost \cup goaway
      BY <2>3 DEF Hands, EdgeHands
    <3>3. Causes'
      BY <2>3, <3>2 DEF Hands, Causes
    <3>. QED
      BY <2>1, <3>1, <3>3 DEF Hands
  <2>4. CASE SecondDial(c)
    <3>1. EdgeHands'
      <4>1. /\ far[c] = "closed" \/ c \in goaway
            /\ cc[c] = "open" /\ UNCHANGED <<far, goaway, owner, lisVars, srvVars>>
        BY <2>4
      <4>2. cc'[c] = "closed" /\ \A d \in Conns : d # c => cc'[d] = cc[d]
        BY <2>4
      <4>. QED
        <5>1. \A d \in Conns : cc'[d] = "none" <=> cc[d] = "none"
          BY <4>1, <4>2
        <5>2. /\ next' # Nil => far'[next'] = "taken" /\ cc'[next'] = "none"
              /\ giving' # Nil => /\ cc'[giving'] # "none" /\ giving' \notin nodes'
                                  /\ giving' # adding'
              /\ adding' # Nil => cc'[adding'] # "none" /\ adding' \notin nodes'
              /\ waiting' \subseteq nodes' /\ \A d \in nodes' : cc'[d] # "none"
              /\ lrun' = "down" => loop' # "add" /\ ~stopping'
          BY <4>1, <5>1 DEF Hands, EdgeHands
        <5>3. \A d \in Conns :
                /\ far'[d] \in {"none", "queued"} => cc'[d] = "none"
                /\ far'[d] = "none" <=> owner'[d] = Nil
                /\ cc'[d] = "closed" => far'[d] = "closed" \/ d \in goaway'
          <6>1. \A d \in Conns :
                  /\ far[d] \in {"none", "queued"} => cc[d] = "none"
                  /\ far[d] = "none" <=> owner[d] = Nil
                  /\ cc[d] = "closed" => far[d] = "closed" \/ d \in goaway
            BY DEF Hands, EdgeHands
          <6>. QED
            BY ONLY <4>1, <4>2, <5>1, <6>1
        <5>. QED
          BY ONLY <5>2, <5>3 DEF EdgeHands
    <3>2. Causes'
      BY <2>4 DEF Hands, Causes
    <3>. QED
      BY <2>1, <3>1, <3>2 DEF Hands
  <2>5. CASE Collected(c)
    <3>1. EdgeHands'
      BY <2>5 DEF Hands, EdgeHands
    <3>2. c \notin nodes \cup {giving, adding}
      BY <2>5 DEF Hands, EdgeHands
    <3>3. Causes'
      BY <2>5, <3>2 DEF Hands, Causes
    <3>. QED
      BY <2>1, <3>1, <3>3 DEF Hands
  <2>6. CASE EdgeAccepts(c)
    <3>1. EdgeHands'
      <4>1. /\ far[c] = "queued" /\ next' = c
            /\ UNCHANGED <<lrun, stopping, giving, goaway, owner, srvVars, cc>>
        BY <2>6
      <4>2. far'[c] = "taken" /\ \A d \in Conns : d # c => far'[d] = far[d]
        BY <2>6
      <4>3. cc[c] = "none" /\ owner[c] # Nil
        BY <4>1 DEF Hands, EdgeHands
      <4>4. \A d \in Conns :
              /\ far'[d] \in {"none", "queued"} => cc[d] = "none"
              /\ far'[d] = "none" <=> owner[d] = Nil
              /\ cc[d] = "closed" => far'[d] = "closed" \/ d \in goaway
        <5>1. \A d \in Conns :
                /\ far[d] \in {"none", "queued"} => cc[d] = "none"
                /\ far[d] = "none" <=> owner[d] = Nil
                /\ cc[d] = "closed" => far[d] = "closed" \/ d \in goaway
          BY DEF Hands, EdgeHands
        <5>. QED
          BY ONLY <4>2, <4>3, <5>1
      <4>. QED
        BY <4>1, <4>2, <4>3, <4>4 DEF Hands, EdgeHands
    <3>2. Causes'
      BY <2>6 DEF Hands, Causes
    <3>. QED
      BY <2>1, <3>1, <3>2 DEF Hands
  <2>. QED
    BY <1>2, <2>2, <2>3, <2>4, <2>5, <2>6
<1>3. CASE RemoveNode(c)
    BY <1>3 DEF RemoveNode, Hands, AgentHands, EdgeHands, Causes
<1>4. CASE GoAway(c)
  <2>1. /\ c \in held /\ goaway' = goaway \cup {c}
        /\ UNCHANGED <<run, mine, done, held, owner, near, far, lost, lisVars, srvVars, cc>>
    BY <1>4 DEF GoAway
  <2>2. AgentHands'
    <3>1. \A d \in goaway' : d \in held \cup done \/ near[d] = "closed"
      BY <2>1 DEF Hands, AgentHands
    <3>. QED
      BY <2>1, <3>1 DEF Hands, AgentHands
  <2>3. EdgeHands'
    BY <2>1 DEF Hands, EdgeHands
  <2>4. Causes'
    BY <2>1 DEF Hands, Causes
  <2>. QED
    BY <2>2, <2>3, <2>4 DEF Hands
<1>. QED
    BY <1>1, <1>2, <1>3, <1>4 DEF ConnStep

LEMMA EdgeStepHands ==
    ASSUME IndInv, Hands,
           \/ ListenerReturns /\ UNCHANGED cc
           \/ MakeClient \/ Give \/ AddNode \/ LoopEnds \/ EdgeStarts \/ StopEdge \/ EdgeCrashes
    PROVE  Hands'
<1> USE DEF IndInv, TypeOK, AgentType, NetType, EdgeType
<1>1. AgentHands'
    BY DEF ListenerReturns, MakeClient, Give, AddNode, LoopEnds, EdgeStarts, StopEdge,
           EdgeCrashes, Hands, AgentHands
<1>2. CASE ListenerReturns /\ UNCHANGED cc
  <2>1. EdgeHands'
    BY <1>2 DEF ListenerReturns, Hands, EdgeHands
  <2>2. Causes'
    <3>1. \A c \in Conns : far'[c] = "closed" => far[c] \in {"queued", "closed"}
      BY <1>2 DEF ListenerReturns
    <3>2. UNCHANGED <<near, lost, goaway, adding, nodes>> /\ giving' = Nil
      BY <1>2 DEF ListenerReturns
    <3>4. \A c \in Conns : c # Nil
      BY TunnelAssumption
    <3>5. \A c \in Conns : far[c] = "queued" => cc[c] = "none"
      BY DEF Hands, EdgeHands
    <3>6. \A c \in Conns : c \in nodes \/ c = adding => cc[c] # "none"
      BY <3>4 DEF Hands, EdgeHands
    <3>3. \A c \in Conns : far[c] = "queued" => c \notin nodes \cup {adding}
      BY <3>5, <3>6
    <3>. QED
      BY <3>1, <3>2, <3>3, <3>4 DEF Hands, Causes
  <2>. QED
    BY <1>1, <2>1, <2>2 DEF Hands
<1>3. CASE MakeClient
  <2>1. /\ next \in Conns /\ next # Nil /\ far[next] = "taken" /\ cc[next] = "none"
        /\ next \notin nodes /\ next # adding /\ lrun # "down"
    BY <1>3 DEF MakeClient, Hands, EdgeHands
  <2>3. EdgeHands'
    <3>1. /\ next' = Nil /\ giving' = next /\ lrun' = "give"
          /\ UNCHANGED <<far, goaway, owner, adding, nodes, waiting, loop, stopping>>
      BY <1>3 DEF MakeClient
    <3>2. cc'[next] = "open" /\ \A c \in Conns : c # next => cc'[c] = cc[c]
      BY <1>3, <2>1 DEF MakeClient
    <3>3. \A d \in Conns :
            /\ far'[d] \in {"none", "queued"} => cc'[d] = "none"
            /\ far'[d] = "none" <=> owner'[d] = Nil
            /\ cc'[d] = "closed" => far'[d] = "closed" \/ d \in goaway'
      BY <2>1, <3>1, <3>2 DEF Hands, EdgeHands
    <3>4. /\ \A d \in nodes : d \in Conns /\ cc'[d] # "none"
          /\ adding # Nil => adding \in Conns /\ cc'[adding] # "none" /\ adding \notin nodes
          /\ waiting \subseteq nodes
      BY <2>1, <3>2 DEF Hands, EdgeHands
    <3>. QED
      BY <2>1, <3>1, <3>2, <3>3, <3>4 DEF EdgeHands
  <2>2. Causes'
    BY <1>3 DEF MakeClient, ClientKept, Hands, EdgeHands, Causes
  <2>. QED
    BY <1>1, <2>2, <2>3 DEF Hands
<1>4. CASE Give \/ AddNode
  <2>1. EdgeHands'
    <3>1. CASE Give
      <4>1. giving # Nil /\ adding = Nil /\ lrun # "down"
        BY <3>1 DEF Give, ClientKept
      <4>. QED
        BY <3>1, <4>1 DEF Give, Hands, EdgeHands
    <3>2. CASE AddNode
      <4>1. adding # Nil
        BY <3>2 DEF AddNode, ClientKept
      <4>. QED
        BY <3>2, <4>1 DEF AddNode, Hands, EdgeHands
    <3>. QED
      BY <1>4, <3>1, <3>2
  <2>2. Causes'
    <3>1. nodes' \cup {giving', adding'} \subseteq nodes \cup {giving, adding, Nil}
      BY <1>4 DEF Give, AddNode
    <3>2. UNCHANGED <<far, near, lost, goaway>>
      BY <1>4 DEF Give, AddNode
    <3>3. Nil \notin Conns
      BY TunnelAssumption
    <3>. QED
      BY <3>1, <3>2, <3>3 DEF Hands, Causes
  <2>. QED
    BY <1>1, <2>1, <2>2 DEF Hands
<1>5. CASE LoopEnds \/ EdgeStarts \/ StopEdge
  <2>1. UNCHANGED <<far, near, owner, lost, goaway, next, giving, adding, cc, nodes, waiting>>
    BY <1>5 DEF LoopEnds, EdgeStarts, StopEdge
  <2>2. lrun' = "down" => loop' # "add" /\ ~stopping'
    BY <1>5 DEF LoopEnds, EdgeStarts, StopEdge, Hands, EdgeHands
  <2>3. EdgeHands'
    BY <2>1, <2>2 DEF Hands, EdgeHands
  <2>4. Causes'
    BY <2>1 DEF Hands, Causes
  <2>. QED
    BY <1>1, <2>3, <2>4 DEF Hands
<1>6. CASE EdgeCrashes
  <2>1. EdgeHands'
    BY <1>6 DEF EdgeCrashes, Hands, EdgeHands
  <2>2. Causes'
    BY <1>6 DEF EdgeCrashes, Causes
  <2>. QED
    BY <1>1, <2>1, <2>2 DEF Hands
<1>. QED
    BY <1>2, <1>3, <1>4, <1>5, <1>6

LEMMA NextHands == IndInv /\ Hands /\ [Next]_vars => Hands'
<1> SUFFICES ASSUME IndInv, Hands, [Next]_vars PROVE Hands'
    OBVIOUS
<1>1. ASSUME NEW a \in Agents, AgentStep(a) \/ AgentStarts(a)
      PROVE  Hands'
    BY <1>1, ConnectHands, AgentStepHands, AgentGoneHands DEF AgentStep, AgentExits
<1>2. ASSUME NEW c \in Conns, ConnStep(c) \/ GoAway(c) \/ DeathNoticed(c) PROVE Hands'
    BY <1>2, ConnHands
<1>3. CASE ListenerStep
    BY <1>3, ConnHands, EdgeStepHands
    DEF ListenerStep, AcceptCancelled, GiveCancelled, ClientRefused
<1>4. CASE LoopStep \/ EdgeStarts
    BY <1>4, EdgeStepHands DEF LoopStep
<1>5. CASE Disturbance
    BY <1>5, AgentStepHands, AgentGoneHands, ConnHands, EdgeStepHands
    DEF Disturbance, AgentCrashes, AcceptFails
<1>6. CASE Quiet \/ UNCHANGED vars
    BY <1>6 DEF Quiet, vars, Hands, AgentHands, EdgeHands, Causes
<1>. QED
    BY <1>1, <1>2, <1>3, <1>4, <1>5, <1>6 DEF Next

-----------------------------------------------------------------------------
(***************************************************************************)
(* The refinement, step by step.                                           *)
(***************************************************************************)
LEMMA InitLinks == Init => Network!Init
BY DEF Init, Network!Init, AgentEnd, EdgeEnd, EdgeState

\* The edge's part of the mapping knows nothing of the agents, and vice versa.
LEMMA SetOne ==
    ASSUME NEW S, NEW f, NEW g, NEW c \in S, NEW v,
           f = [d \in S |-> f[d]], g = [d \in S |-> g[d]],
           g[c] = v, \A d \in S : d # c => g[d] = f[d]
    PROVE  g = [f EXCEPT ![c] = v]
OBVIOUS

LEMMA SameAll ==
    ASSUME NEW S, NEW f, NEW g,
           f = [d \in S |-> f[d]], g = [d \in S |-> g[d]], \A d \in S : g[d] = f[d]
    PROVE  g = f
OBVIOUS

LEMMA EdgeEndSame ==
    UNCHANGED <<nodes, cc, giving, adding>> => EdgeEnd' = EdgeEnd
BY DEF EdgeEnd
LEMMA AgentEndSame ==
    UNCHANGED <<done, near, held, goaway>> => AgentEnd' = AgentEnd
BY DEF AgentEnd

LEMMA AgentLinks ==
    ASSUME IndInv, Hands, NEW a \in Agents, AgentStep(a) \/ AgentStarts(a) \/ AgentCrashes(a)
    PROVE  [Network!Next]_Network!ends
<1> USE DEF IndInv, TypeOK, AgentType, NetType
<1>1. CASE Connect(a)
  <2>1. PICK c \in Conns :
          /\ owner[c] = Nil
          /\ owner' = [owner EXCEPT ![c] = a]
          /\ near' = [near EXCEPT ![c] = "open"]
    BY <1>1 DEF Connect
  <2>2. mine[a] = Nil /\ UNCHANGED <<done, held, lost, goaway, lisVars, srvVars, cc>>
    BY <1>1 DEF Connect, InHand
  <2>3. \A d \in Conns : owner[d] = a => AgentEnd[d] = "over"
    <3>1. SUFFICES ASSUME NEW d \in Conns, owner[d] = a, d \notin done PROVE near[d] = "closed"
      BY DEF AgentEnd
    <3>2. a # Nil /\ near[d] # "none"
      BY <3>1 DEF Hands, AgentHands
    <3>3. near[d] # "open"
      BY <2>2, <3>1 DEF InHand
    <3>. QED
      BY <3>2, <3>3
  <2>4. near[c] = "none"
    BY <2>1 DEF Hands, AgentHands
  <2>5. c \notin held /\ c \notin done
    BY <2>1, <2>4 DEF Hands, AgentHands
  <2>6. AgentEnd' = AgentEnd
    BY <2>1, <2>2, <2>4, <2>5 DEF AgentEnd
  <2>7. EdgeEnd' = EdgeEnd /\ EdgeState' = EdgeState
    BY <2>2, EdgeEndSame DEF EdgeState
  <2>8. Network!Make(a, c)
    BY <2>1, <2>2, <2>3, <2>6, <2>7 DEF Network!Make
  <2>. QED
    BY <2>8 DEF Network!Next
<1>2. CASE Provide(a)
  <2> DEFINE c == mine[a]
  <2>1. /\ c \in Conns /\ owner[c] = a /\ near[c] = "open"
        /\ c \notin done /\ c \notin held /\ c \notin goaway
    BY <1>2 DEF Provide, InHand, Hands, AgentHands
  <2>2. held' = held \cup {c} /\ UNCHANGED <<owner, done, near, lost, goaway, lisVars, srvVars, cc>>
    BY <1>2 DEF Provide
  <2>3. EdgeEnd' = EdgeEnd /\ EdgeState' = EdgeState
    BY <2>2, EdgeEndSame DEF EdgeState
  <2> HIDE DEF c
  <2>4. AgentEnd[c] = "none" /\ AgentEnd' = [AgentEnd EXCEPT ![c] = "provided"]
    <3>1. AgentEnd[c] = "none"
      BY <2>1 DEF AgentEnd
    <3>2. AgentEnd'[c] = "provided"
      BY <2>1, <2>2 DEF AgentEnd
    <3>3. \A d \in Conns : d # c => AgentEnd'[d] = AgentEnd[d]
      BY <2>2 DEF AgentEnd
    <3>4. AgentEnd = [d \in Conns |-> AgentEnd[d]] /\ AgentEnd' = [d \in Conns |-> AgentEnd'[d]]
      BY DEF AgentEnd
    <3>. QED
      BY <2>1, <3>1, <3>2, <3>3, <3>4, SetOne
  <2>5. c \in Network!Made
    BY <2>1 DEF Network!Made
  <2>6. Network!Provide(c)
    BY <2>2, <2>3, <2>4, <2>5 DEF Network!Provide
  <2>. QED
    BY <2>1, <2>6 DEF Network!Next
<1>3. CASE HandshakeFails(a)
  <2> DEFINE c == mine[a]
  <2>1. c \in Conns /\ owner[c] = a
    BY <1>3 DEF HandshakeFails, InHand
  <2>2. near' = [near EXCEPT ![c] = "closed"]
    BY <1>3 DEF HandshakeFails
  <2>3. UNCHANGED <<owner, done, held, lost, goaway, lisVars, srvVars, cc>>
    BY <1>3 DEF HandshakeFails
  <2>4. EdgeEnd' = EdgeEnd /\ EdgeState' = EdgeState
    BY <2>3, EdgeEndSame DEF EdgeState
  <2> HIDE DEF c
  <2>5. AgentEnd' = [d \in Conns |-> IF d \in {c} THEN "over" ELSE AgentEnd[d]]
    BY <2>1, <2>2, <2>3 DEF AgentEnd
  <2>6. {c} \in SUBSET {d \in Conns : owner[d] = a}
    BY <2>1
  <2>7. Network!Finish(a)
    BY <2>3, <2>4, <2>5, <2>6 DEF Network!Finish
  <2>. QED
    BY <2>7 DEF Network!Next
<1>4. CASE AgentExits(a) \/ AgentCrashes(a)
  <2> DEFINE S == {d \in Conns : owner[d] = a}
  <2>1. /\ held' = {d \in held : owner[d] # a}
        /\ near' = [d \in Conns |-> IF owner[d] = a THEN "closed" ELSE near[d]]
        /\ UNCHANGED <<owner, done, lost, goaway, lisVars, srvVars, cc>>
    BY <1>4 DEF AgentExits, AgentCrashes, AgentGone
  <2>2. EdgeEnd' = EdgeEnd /\ EdgeState' = EdgeState
    BY <2>1, EdgeEndSame DEF EdgeState
  <2>3. AgentEnd' = [d \in Conns |-> IF d \in S THEN "over" ELSE AgentEnd[d]]
    BY <2>1 DEF AgentEnd
  <2>4. Network!Finish(a)
    BY <2>1, <2>2, <2>3 DEF Network!Finish
  <2>. QED
    BY <2>4 DEF Network!Next
<1>5. CASE \/ HandshakeOK(a) \/ DialCancelled(a) \/ OfferCancelled(a) \/ Redial(a)
           \/ WaitCancelled(a) \/ ServeReturns(a) \/ AgentStarts(a)
  <2>1. UNCHANGED <<done, near, held, goaway, owner, lost, lisVars, srvVars, cc>>
    BY <1>5 DEF HandshakeOK, DialCancelled, OfferCancelled, Redial, WaitCancelled,
                ServeReturns, AgentStarts
  <2>. QED
    BY <2>1, EdgeEndSame, AgentEndSame DEF EdgeState, Network!ends
<1>. QED
    BY <1>1, <1>2, <1>3, <1>4, <1>5 DEF AgentStep

LEMMA ConnLinks ==
    ASSUME IndInv, Hands, NEW c \in Conns,
           \/ ConnStep(c) \/ GoAway(c) \/ DeathNoticed(c) \/ EdgeAccepts(c) \/ LinkDies(c)
           \/ \E a \in Agents : mine[a] = c /\ PeerVanishes(a)
    PROVE  [Network!Next]_Network!ends
<1> USE DEF IndInv, TypeOK, AgentType, NetType, EdgeType
<1>1. CASE OnClose(c)
  <2>1. c \in held /\ owner[c] \in Agents
    BY <1>1 DEF OnClose, Hands, AgentHands
  <2>2. /\ held' = held \ {c} /\ done' = done \cup {c}
        /\ UNCHANGED <<near, owner, lost, goaway, lisVars, srvVars, cc>>
    BY <1>1 DEF OnClose
  <2>3. EdgeEnd' = EdgeEnd /\ EdgeState' = EdgeState
    BY <2>2, EdgeEndSame DEF EdgeState
  <2>4. AgentEnd' = [d \in Conns |-> IF d \in {c} THEN "over" ELSE AgentEnd[d]]
    BY <2>2 DEF AgentEnd
  <2>5. {c} \in SUBSET {d \in Conns : owner[d] = owner[c]}
    OBVIOUS
  <2>6. Network!Finish(owner[c])
    BY <2>2, <2>3, <2>4, <2>5 DEF Network!Finish
  <2>. QED
    BY <2>1, <2>6 DEF Network!Next
<1>2. CASE ConnClose(c)
  <2>1. /\ c \in done /\ near' = [near EXCEPT ![c] = "closed"]
        /\ UNCHANGED <<done, held, goaway, owner, lost, lisVars, srvVars, cc>>
    BY <1>2 DEF ConnClose
  <2>2. AgentEnd' = AgentEnd
    <3>1. \A d \in Conns : AgentEnd'[d] = AgentEnd[d]
      BY <2>1 DEF AgentEnd
    <3>2. AgentEnd = [d \in Conns |-> AgentEnd[d]] /\ AgentEnd' = [d \in Conns |-> AgentEnd'[d]]
      BY DEF AgentEnd
    <3>. QED
      BY <3>1, <3>2, SameAll
  <2>. QED
    BY <2>1, <2>2, EdgeEndSame DEF EdgeState, Network!ends
<1>3. CASE \/ FirstDial(c) \/ TransportFails(c) \/ DeathNoticed(c) \/ Collected(c)
           \/ EdgeAccepts(c)
  <2>1. UNCHANGED <<done, near, held, goaway, owner, lost, lrun, stopping, giving, srvVars, cc>>
    BY <1>3 DEF FirstDial, TransportFails, DeathNoticed, Collected, EdgeAccepts
  <2>. QED
    BY <2>1, EdgeEndSame, AgentEndSame DEF EdgeState, Network!ends
<1>4. CASE SecondDial(c)
  <2>1. /\ cc[c] = "open" /\ cc' = [cc EXCEPT ![c] = "closed"]
        /\ UNCHANGED <<done, near, held, goaway, owner, lost, lisVars, srvVars>>
    BY <1>4 DEF SecondDial
  <2>2. AgentEnd' = AgentEnd /\ EdgeState' = EdgeState
    BY <2>1, AgentEndSame DEF EdgeState
  <2>3. CASE c \in nodes \cup {giving, adding}
    <3>1. EdgeEnd' = EdgeEnd
      <4>1. \A d \in Conns : EdgeEnd'[d] = EdgeEnd[d]
        BY <2>1, <2>3 DEF EdgeEnd
      <4>2. EdgeEnd = [d \in Conns |-> EdgeEnd[d]] /\ EdgeEnd' = [d \in Conns |-> EdgeEnd'[d]]
        BY DEF EdgeEnd
      <4>. QED
        BY <4>1, <4>2, SameAll
    <3>. QED
      BY <2>1, <2>2, <3>1 DEF Network!ends
  <2>4. CASE c \notin nodes \cup {giving, adding}
    <3>1. EdgeState = "stopping"
      BY <2>1, <2>4 DEF EdgeState, ClientKept
    <3>2. EdgeEnd[c] = "none" /\ EdgeEnd' = [EdgeEnd EXCEPT ![c] = "past"]
      <4>1. EdgeEnd[c] = "none"
        BY <2>1, <2>4 DEF EdgeEnd
      <4>2. cc'[c] = "closed" /\ \A d \in Conns : d # c => cc'[d] = cc[d]
        BY <2>1 DEF IndInv, TypeOK, EdgeType
      <4>3. EdgeEnd'[c] = "past"
        BY <2>1, <2>4, <4>2 DEF EdgeEnd
      <4>4. \A d \in Conns : d # c => EdgeEnd'[d] = EdgeEnd[d]
        BY <2>1, <4>2 DEF EdgeEnd
      <4>5. EdgeEnd = [d \in Conns |-> EdgeEnd[d]] /\ EdgeEnd' = [d \in Conns |-> EdgeEnd'[d]]
        BY DEF EdgeEnd
      <4>. QED
        BY <4>1, <4>3, <4>4, <4>5, SetOne
    <3>3. Network!Overlook(c)
      BY <2>1, <2>2, <3>1, <3>2 DEF Network!Overlook
    <3>. QED
      BY <3>3 DEF Network!Next
  <2>. QED
    BY <2>3, <2>4
<1>5. CASE RemoveNode(c)
  <2>1. /\ c \in nodes /\ cc[c] = "closed" /\ nodes' = nodes \ {c}
        /\ UNCHANGED <<done, near, held, goaway, owner, lost, lisVars, loop, adding, cc>>
    BY <1>5 DEF RemoveNode, Hands, EdgeHands
  <2>2. AgentEnd' = AgentEnd /\ EdgeState' = EdgeState
    BY <2>1, AgentEndSame DEF EdgeState
  <2>3. c \notin {giving, adding} /\ (far[c] = "closed" \/ c \in goaway)
    BY <2>1 DEF Hands, EdgeHands
  <2>4. AgentEnd[c] \in {"leaving", "over"} \/ c \in lost
    BY <2>1, <2>3 DEF AgentEnd, Hands, Causes
  <2>5. EdgeEnd[c] = "listed" /\ EdgeEnd' = [EdgeEnd EXCEPT ![c] = "past"]
    <3>1. EdgeEnd[c] = "listed" /\ EdgeEnd'[c] = "past"
      BY <2>1, <2>3 DEF EdgeEnd
    <3>2. \A d \in Conns : d # c => (d \in nodes' <=> d \in nodes)
      BY <2>1
    <3>3. \A d \in Conns : d # c => EdgeEnd'[d] = EdgeEnd[d]
      BY <2>1, <3>2 DEF EdgeEnd
    <3>4. EdgeEnd = [d \in Conns |-> EdgeEnd[d]] /\ EdgeEnd' = [d \in Conns |-> EdgeEnd'[d]]
      BY DEF EdgeEnd
    <3>. QED
      BY <3>1, <3>3, <3>4, SetOne
  <2>6. Network!Unlist(c)
    BY <2>1, <2>2, <2>4, <2>5 DEF Network!Unlist
  <2>. QED
    BY <2>6 DEF Network!Next
<1>6. CASE LinkDies(c) \/ \E a \in Agents : mine[a] = c /\ PeerVanishes(a)
  <2>1. owner[c] # Nil
    <3>1. CASE LinkDies(c)
      BY <3>1 DEF LinkDies, Hands, AgentHands
    <3>2. CASE \E a \in Agents : mine[a] = c /\ PeerVanishes(a)
      BY <3>2 DEF PeerVanishes, InHand
    <3>. QED
      BY <1>6, <3>1, <3>2
  <2>2. lost' = lost \cup {c} /\ UNCHANGED <<done, near, held, goaway, owner, lisVars, srvVars, cc>>
    BY <1>6 DEF LinkDies, PeerVanishes
  <2>3. AgentEnd' = AgentEnd /\ EdgeEnd' = EdgeEnd /\ EdgeState' = EdgeState
    BY <2>2, AgentEndSame, EdgeEndSame DEF EdgeState
  <2>4. Network!LinkDies(c)
    BY <2>1, <2>2, <2>3 DEF Network!LinkDies, Network!Made
  <2>. QED
    BY <2>4 DEF Network!Next
<1>7. CASE GoAway(c)
  <2>1. /\ c \in held /\ c \notin goaway /\ goaway' = goaway \cup {c}
        /\ UNCHANGED <<done, near, held, owner, lost, lisVars, srvVars, cc>>
    BY <1>7 DEF GoAway
  <2>2. EdgeEnd' = EdgeEnd /\ EdgeState' = EdgeState
    BY <2>1, EdgeEndSame DEF EdgeState
  <2>3. AgentEnd[c] = "provided" /\ AgentEnd' = [AgentEnd EXCEPT ![c] = "leaving"]
    <3>1. near[c] = "open" /\ c \notin done
      BY <2>1 DEF Hands, AgentHands
    <3>2. AgentEnd[c] = "provided" /\ AgentEnd'[c] = "leaving"
      BY <2>1, <3>1 DEF AgentEnd
    <3>3. \A d \in Conns : d # c => AgentEnd'[d] = AgentEnd[d]
      BY <2>1 DEF AgentEnd
    <3>4. AgentEnd = [d \in Conns |-> AgentEnd[d]] /\ AgentEnd' = [d \in Conns |-> AgentEnd'[d]]
      BY DEF AgentEnd
    <3>. QED
      BY <3>2, <3>3, <3>4, SetOne
  <2>4. Network!Leave(c)
    BY <2>1, <2>2, <2>3 DEF Network!Leave
  <2>. QED
    BY <2>4 DEF Network!Next
<1>. QED
    BY <1>1, <1>2, <1>3, <1>4, <1>5, <1>6, <1>7 DEF ConnStep

LEMMA EdgeLinks ==
    ASSUME IndInv, Hands,
           \/ AcceptFails \/ AcceptCancelled \/ GiveCancelled \/ ClientRefused \/ MakeClient
           \/ Give \/ AddNode \/ LoopEnds \/ EdgeStarts \/ StopEdge \/ EdgeCrashes
    PROVE  [Network!Next]_Network!ends
<1> USE DEF IndInv, TypeOK, EdgeType
<1>0. AgentEnd' = AgentEnd /\ UNCHANGED <<owner, lost>>
    BY AgentEndSame DEF AcceptFails, AcceptCancelled, GiveCancelled, ClientRefused,
       ListenerReturns, MakeClient, Give, AddNode, LoopEnds, EdgeStarts, StopEdge, EdgeCrashes
<1>1. CASE AcceptFails \/ AcceptCancelled \/ ClientRefused
  <2>1. giving = Nil /\ giving' = Nil /\ lrun # "down" /\ lrun' # "down"
    BY <1>1 DEF AcceptFails, AcceptCancelled, ClientRefused, ListenerReturns, ClientKept
  <2>2. UNCHANGED <<nodes, cc, giving, adding, stopping>>
    BY <1>1, <2>1 DEF AcceptFails, AcceptCancelled, ClientRefused, ListenerReturns
  <2>. QED
    BY <1>0, <2>1, <2>2, EdgeEndSame DEF EdgeState, Network!ends
<1>2. CASE GiveCancelled
  <2> DEFINE c == giving
  <2>1. /\ c \in Conns /\ stopping /\ giving' = Nil /\ UNCHANGED <<nodes, cc, adding, stopping>>
        /\ lrun # "down" /\ lrun' # "down"
    BY <1>2 DEF GiveCancelled, ListenerReturns, ClientKept
  <2>2. EdgeState = "stopping" /\ EdgeState' = "stopping"
    BY <2>1 DEF EdgeState
  <2>3. c \notin nodes /\ c # adding
    BY <2>1 DEF Hands, EdgeHands
  <2>4. CASE cc[c] = "closed"
    <3>1. EdgeEnd[c] = "none" /\ EdgeEnd' = [EdgeEnd EXCEPT ![c] = "past"]
      BY <2>1, <2>3, <2>4 DEF EdgeEnd
    <3>2. Network!Overlook(c)
      BY <1>0, <2>2, <3>1 DEF Network!Overlook
    <3>. QED
      BY <2>1, <3>2 DEF Network!Next
  <2>5. CASE cc[c] # "closed"
    <3>1. EdgeEnd' = EdgeEnd
      BY <2>1, <2>3, <2>5 DEF EdgeEnd
    <3>. QED
      BY <1>0, <2>2, <3>1 DEF Network!ends
  <2>. QED
    BY <2>4, <2>5
<1>3. CASE MakeClient
  <2>1. /\ next \in Conns /\ cc[next] = "none" /\ cc' = [cc EXCEPT ![next] = "open"]
        /\ giving = Nil /\ giving' = next /\ next # adding
        /\ UNCHANGED <<nodes, adding, stopping>> /\ lrun # "down" /\ lrun' # "down"
    BY <1>3 DEF MakeClient, ClientKept, Hands, EdgeHands
  <2>2. EdgeEnd' = EdgeEnd
    BY <2>1 DEF EdgeEnd
  <2>. QED
    BY <1>0, <2>1, <2>2 DEF EdgeState, Network!ends
<1>4. CASE Give
  <2>1. /\ adding = Nil /\ adding' = giving /\ giving' = Nil
        /\ UNCHANGED <<nodes, cc, stopping>> /\ lrun # "down" /\ lrun' # "down"
    BY <1>4 DEF Give, ClientKept
  <2>2. EdgeEnd' = EdgeEnd
    BY <2>1 DEF EdgeEnd
  <2>. QED
    BY <1>0, <2>1, <2>2 DEF EdgeState, Network!ends
<1>5. CASE AddNode
  <2> DEFINE c == adding
  <2>1. /\ c \in Conns /\ c # Nil /\ nodes' = nodes \cup {c} /\ adding' = Nil
        /\ UNCHANGED <<lrun, stopping, giving, cc>> /\ loop = "add"
    BY <1>5 DEF AddNode, ClientKept
  <2>2. EdgeState' = EdgeState /\ EdgeState # "down"
    BY <2>1 DEF EdgeState, Hands, EdgeHands
  <2>3. c \notin nodes /\ cc[c] # "none" /\ far[c] # "none" /\ owner[c] # Nil
    BY <2>1 DEF Hands, EdgeHands
  <2>4. EdgeEnd[c] = "none" /\ EdgeEnd' = [EdgeEnd EXCEPT ![c] = "listed"]
    BY <2>1, <2>3 DEF EdgeEnd
  <2>5. Network!List(c)
    BY <1>0, <2>1, <2>2, <2>3, <2>4 DEF Network!List, Network!Made
  <2>. QED
    BY <2>1, <2>5 DEF Network!Next
<1>6. CASE LoopEnds
  <2>1. UNCHANGED <<nodes, cc, giving, adding, stopping, lrun>>
    BY <1>6 DEF LoopEnds
  <2>. QED
    BY <1>0, <2>1, EdgeEndSame DEF EdgeState, Network!ends
<1>7. CASE StopEdge \/ EdgeStarts
  <2>1. UNCHANGED <<nodes, cc, giving, adding>>
    BY <1>7 DEF StopEdge, EdgeStarts
  <2>2. EdgeEnd' = EdgeEnd
    BY <2>1, EdgeEndSame
  <2>3. CASE StopEdge
    BY <1>0, <2>2, <2>3 DEF StopEdge, EdgeState, Network!EdgeStops, Network!Next
  <2>4. CASE EdgeStarts
    <3>1. EdgeState = "down" /\ EdgeState' = "up"
      BY <2>4 DEF EdgeStarts, EdgeState, Hands, EdgeHands
    <3>. QED
      BY <1>0, <2>2, <3>1 DEF Network!EdgeStarts, Network!Next
  <2>. QED
    BY <1>7, <2>3, <2>4
<1>8. CASE EdgeCrashes
  <2> DEFINE S == {c \in Conns : EdgeEnd[c] = "none" /\ cc[c] # "none"}
  <2>1. /\ nodes' = {} /\ giving' = Nil /\ adding' = Nil /\ lrun # "down" /\ lrun' = "down"
        /\ cc' = [c \in Conns |-> IF cc[c] = "open" THEN "closed" ELSE cc[c]]
    BY <1>8 DEF EdgeCrashes
  <2>2. EdgeState # "down" /\ EdgeState' = "down"
    BY <2>1 DEF EdgeState
  <2>3. \A c \in Conns : EdgeEnd[c] = "listed" => cc[c] # "none"
    BY DEF EdgeEnd, Hands, EdgeHands
  <2>4. \A c \in Conns : EdgeEnd[c] = "past" => cc[c] = "closed"
    BY DEF EdgeEnd
  <2>5. EdgeEnd' = [c \in Conns |->
                       IF c \in S \/ EdgeEnd[c] = "listed" THEN "past" ELSE EdgeEnd[c]]
    <3>1. EdgeEnd' = [c \in Conns |-> IF cc[c] # "none" THEN "past" ELSE "none"]
      BY <2>1 DEF EdgeEnd
    <3>2. \A c \in Conns : EdgeEnd[c] \in {"none", "listed", "past"}
      BY DEF EdgeEnd
    <3>. QED
      BY <2>3, <2>4, <3>1, <3>2
  <2>6. S \in SUBSET {c \in Conns : EdgeEnd[c] = "none"}
    OBVIOUS
  <2> HIDE DEF S
  <2>7. Network!EdgeGone
    BY <1>0, <2>2, <2>5, <2>6 DEF Network!EdgeGone
  <2>. QED
    BY <2>7 DEF Network!Next
<1>. QED
    BY <1>1, <1>2, <1>3, <1>4, <1>5, <1>6, <1>7, <1>8

LEMMA StepLinks ==
    ASSUME IndInv, Hands, [Next]_vars
    PROVE  [Network!Next]_Network!ends
<1>1. ASSUME NEW a \in Agents, AgentStep(a) \/ AgentStarts(a) \/ AgentCrashes(a)
      PROVE  [Network!Next]_Network!ends
    BY <1>1, AgentLinks
<1>2. ASSUME NEW c \in Conns,
             ConnStep(c) \/ GoAway(c) \/ DeathNoticed(c) \/ EdgeAccepts(c) \/ LinkDies(c)
      PROVE  [Network!Next]_Network!ends
    BY <1>2, ConnLinks
<1>3. ASSUME NEW a \in Agents, PeerVanishes(a)
      PROVE  [Network!Next]_Network!ends
  <2>1. mine[a] \in Conns
    BY <1>3 DEF PeerVanishes, IndInv, InHand
  <2>2. PICK c \in Conns : c = mine[a]
    BY <2>1
  <2>. QED
    BY <1>3, <2>2, ConnLinks
<1>4. ASSUME NEW a \in Agents, Cancel(a)
      PROVE  [Network!Next]_Network!ends
  <2>1. UNCHANGED <<done, near, held, goaway, owner, lost, lisVars, srvVars, cc>>
    BY <1>4 DEF Cancel
  <2>. QED
    BY <2>1, EdgeEndSame, AgentEndSame DEF EdgeState, Network!ends
<1>5. CASE \/ AcceptFails \/ AcceptCancelled \/ GiveCancelled \/ ClientRefused \/ MakeClient
           \/ Give \/ LoopStep \/ EdgeStarts \/ StopEdge \/ EdgeCrashes
    BY <1>5, EdgeLinks DEF LoopStep
<1>6. CASE Quiet \/ UNCHANGED vars
  <2>1. UNCHANGED <<done, near, held, goaway, owner, lost, lisVars, srvVars, cc>>
    BY <1>6 DEF Quiet, vars
  <2>. QED
    BY <2>1, EdgeEndSame, AgentEndSame DEF EdgeState, Network!ends
<1>. QED
    BY <1>1, <1>2, <1>3, <1>4, <1>5, <1>6 DEF Next, ListenerStep, Disturbance

\* Reverse, listener and Server.Run provide Links: an agent's next connection
\* comes after its last one is over, and the edge lists each once, until it is
\* over at the agent, the agent takes its leave, or its link is dead.
THEOREM LinksProvided == Spec => ProvidesLinks
<1>1. IndInv /\ Hands /\ [Next]_vars => Hands'
    BY NextHands
<1>2. IndInv /\ Hands /\ [Next]_vars => [Network!Next]_Network!ends
    BY StepLinks
<1>. QED
    BY <1>1, <1>2, InitHands, InitLinks, Inductive, PTL DEF Spec, ProvidesLinks, Network!Spec
=============================================================================
