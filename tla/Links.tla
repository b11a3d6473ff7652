------------------------------- MODULE Links --------------------------------
(***************************************************************************)
(* What the tunnel promises to the two servers that use it.  An agent's    *)
(* gRPC server is provided with connections, one at a time: the next one   *)
(* is made when the one before is over.  The edge lists a connection at    *)
(* most once, and takes it off the list only when it is over at the agent, *)
(* the agent has taken its leave, or the link is dead; it overlooks one    *)
(* only while it stops.                                                    *)
(***************************************************************************)
CONSTANTS Agents, Conns, Nil

VARIABLES
    who,       \* connection -> the agent that made it, Nil before
    agentEnd,  \* connection -> "none", "provided", "leaving" or "over" at the agent
    edgeEnd,   \* connection -> "none", "listed" or "past" at the edge
    edge,      \* "up", "stopping" or "down"
    dead       \* connections whose link is dead
ends == <<who, agentEnd, edgeEnd, edge, dead>>

Made == {c \in Conns : who[c] # Nil}

Init ==
    /\ who = [c \in Conns |-> Nil]
    /\ agentEnd = [c \in Conns |-> "none"]
    /\ edgeEnd = [c \in Conns |-> "none"]
    /\ edge = "up" /\ dead = {}

Make(a, c) ==
    /\ who[c] = Nil
    /\ \A d \in Conns : who[d] = a => agentEnd[d] = "over"
    /\ who' = [who EXCEPT ![c] = a]
    /\ UNCHANGED <<agentEnd, edgeEnd, edge, dead>>

Provide(c) ==
    /\ c \in Made /\ agentEnd[c] = "none"
    /\ agentEnd' = [agentEnd EXCEPT ![c] = "provided"]
    /\ UNCHANGED <<who, edgeEnd, edge, dead>>

\* The agent takes its leave, but is not through with what the connection
\* still carries.
Leave(c) ==
    /\ agentEnd[c] = "provided"
    /\ agentEnd' = [agentEnd EXCEPT ![c] = "leaving"]
    /\ UNCHANGED <<who, edgeEnd, edge, dead>>

\* One connection of an agent is finished, or all are: its process is gone.
Finish(a) ==
    /\ \E S \in SUBSET {c \in Conns : who[c] = a} :
        agentEnd' = [c \in Conns |-> IF c \in S THEN "over" ELSE agentEnd[c]]
    /\ UNCHANGED <<who, edgeEnd, edge, dead>>

List(c) ==
    /\ edge # "down" /\ c \in Made /\ edgeEnd[c] = "none"
    /\ edgeEnd' = [edgeEnd EXCEPT ![c] = "listed"]
    /\ UNCHANGED <<who, agentEnd, edge, dead>>

Unlist(c) ==
    /\ edgeEnd[c] = "listed" /\ (agentEnd[c] \in {"leaving", "over"} \/ c \in dead)
    /\ edgeEnd' = [edgeEnd EXCEPT ![c] = "past"]
    /\ UNCHANGED <<who, agentEnd, edge, dead>>

\* A connection taken while the edge stops is never listed.
Overlook(c) ==
    /\ edge = "stopping" /\ edgeEnd[c] = "none"
    /\ edgeEnd' = [edgeEnd EXCEPT ![c] = "past"]
    /\ UNCHANGED <<who, agentEnd, edge, dead>>

EdgeStops == edge = "up" /\ edge' = "stopping" /\ UNCHANGED <<who, agentEnd, edgeEnd, dead>>
EdgeStarts == edge = "down" /\ edge' = "up" /\ UNCHANGED <<who, agentEnd, edgeEnd, dead>>

\* What the edge had listed, or had in hand, it has no more.
EdgeGone ==
    /\ edge # "down" /\ edge' = "down"
    /\ \E S \in SUBSET {c \in Conns : edgeEnd[c] = "none"} :
        edgeEnd' = [c \in Conns |->
                       IF c \in S \/ edgeEnd[c] = "listed" THEN "past" ELSE edgeEnd[c]]
    /\ UNCHANGED <<who, agentEnd, dead>>

LinkDies(c) ==
    /\ c \in Made /\ dead' = dead \cup {c}
    /\ UNCHANGED <<who, agentEnd, edgeEnd, edge>>

Next ==
    \/ \E a \in Agents : Finish(a) \/ \E c \in Conns : Make(a, c)
    \/ \E c \in Conns : Provide(c) \/ Leave(c) \/ List(c) \/ Unlist(c) \/ Overlook(c)
    \/ \E c \in Conns : LinkDies(c)
    \/ EdgeStops \/ EdgeStarts \/ EdgeGone

Spec == Init /\ [][Next]_ends
=============================================================================
