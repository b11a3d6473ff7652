------------------------------- MODULE FanOut -------------------------------
(***************************************************************************)
(* Server.read of the edge: one client's request to every node, answered   *)
(* on its WebSocket.  A goroutine per node, its leg, makes a transformer,  *)
(* opens a Read stream and offers every reply on an unbuffered channel to  *)
(* one writer.  They share an errgroup's context: the first error of any   *)
(* of them, or the writer's end, cancels the rest.                         *)
(*                                                                         *)
(* The streams are those of NodeRead: replies, then a status.  The request *)
(* names neither a URI nor an end, for which an agent of this repository   *)
(* has no reply; what is shown here holds for any number of them.          *)
(*                                                                         *)
(* X_Fault is X with a plausible fault in the code it stands for.  Nothing *)
(* here uses it; each shows that a property notices such a fault.          *)
(***************************************************************************)
EXTENDS Naturals, Sequences, FiniteSets

CONSTANTS
    Nodes,                 \* node ids
    MaxReplies, MaxFaults  \* bounds, for TLC

ASSUME FanOutAssumption == MaxReplies \in Nat /\ MaxFaults \in Nat

VARIABLES
    alive,     \* the nodes whose connection to the edge works
    total,     \* how many replies each node has for this request
    client,    \* "here", or "gone" from its WebSocket
    handler,   \* "nodes" before the node list is known, "wait" for the group, "done"
    leg,       \* where each node's goroutine is
    got,       \* the replies each has received; it offers the last of them
    writer,    \* where the writing goroutine is
    taken,     \* the reply it has taken off the channel
    shown,     \* the replies of each node that WriteJSON has accepted
    cancelled, \* the group's context is done
    faults     \* bounded by MaxFaults

envVars == <<alive, total, client>>
legVars == <<leg, got>>
writerVars == <<writer, taken, shown>>
vars == <<envVars, handler, legVars, writerVars, cancelled, faults>>

Nothing == [reply |-> 0]
OneFault == faults < MaxFaults /\ faults' = faults + 1

Init ==
    /\ alive = Nodes /\ total \in [Nodes -> 0 .. MaxReplies] /\ client = "here"
    /\ handler = "nodes"
    /\ leg = [n \in Nodes |-> "none"] /\ got = [n \in Nodes |-> 0]
    /\ writer = "none" /\ taken = Nothing /\ shown = [n \in Nodes |-> <<>>]
    /\ cancelled = FALSE /\ faults = 0

LegsEnded == \A n \in Nodes : leg[n] \in {"none", "ended"}
-----------------------------------------------------------------------------
(***************************************************************************)
(* What the others do.                                                     *)
(***************************************************************************)
NodeLeaves(n) ==
    /\ handler # "done" /\ n \in alive /\ OneFault
    /\ alive' = alive \ {n}
    /\ UNCHANGED <<total, client, handler, legVars, writerVars, cancelled>>

\* The context of a hijacked request is not done when the client leaves.
ClientLeaves ==
    /\ handler # "done" /\ client = "here" /\ OneFault
    /\ client' = "gone"
    /\ UNCHANGED <<alive, total, handler, legVars, writerVars, cancelled>>

-----------------------------------------------------------------------------
(***************************************************************************)
(* The handler.                                                            *)
(***************************************************************************)
\* The nodes listed now are asked; none that connects later is.
ListNodes ==
    /\ handler = "nodes"
    /\ handler' = "wait" /\ writer' = "select"
    /\ leg' = [n \in Nodes |-> IF n \in alive THEN "make" ELSE "none"]
    /\ UNCHANGED <<envVars, got, taken, shown, cancelled, faults>>
ListFails ==
    /\ handler = "nodes" /\ OneFault
    /\ handler' = "done"
    /\ UNCHANGED <<envVars, legVars, writerVars, cancelled>>

\* eg.Wait, and the deferred cancel.
Return ==
    /\ handler = "wait" /\ LegsEnded /\ writer = "ended"
    /\ handler' = "done" /\ cancelled' = TRUE
    /\ UNCHANGED <<envVars, legVars, writerVars, faults>>

-----------------------------------------------------------------------------
(***************************************************************************)
(* A leg.                                                                  *)
(***************************************************************************)
\* It moves on from one place to the next.
Goes(n, from, to) ==
    /\ leg[n] = from
    /\ leg' = [leg EXCEPT ![n] = to]

\* It returns an error, because the node has left since it was listed, because
\* the context is done, or because the node's answer is an error.
LegFails(n, from) ==
    /\ Goes(n, from, "ended")
    /\ \/ (n \notin alive \/ cancelled) /\ UNCHANGED faults
       \/ OneFault
    /\ cancelled' = TRUE
    /\ UNCHANGED <<envVars, handler, got, writerVars>>

Make(n) ==
    /\ Goes(n, "make", "open") /\ n \in alive
    /\ UNCHANGED <<envVars, handler, got, writerVars, cancelled, faults>>
MakeFails(n) == LegFails(n, "make")

Open(n) ==
    /\ Goes(n, "open", "recv")
    /\ UNCHANGED <<envVars, handler, got, writerVars, cancelled, faults>>
OpenFails(n) == LegFails(n, "open")

Recv(n) ==
    /\ Goes(n, "recv", "offer") /\ got[n] < total[n]
    /\ got' = [got EXCEPT ![n] = @ + 1]
    /\ UNCHANGED <<envVars, handler, writerVars, cancelled, faults>>

\* The status OutOfRange is the end of the node's answer, and no error.
RecvEnds_IsError(n) ==
    /\ Goes(n, "recv", "ended") /\ got[n] = total[n]
    /\ cancelled' = TRUE
    /\ UNCHANGED <<envVars, handler, got, writerVars, faults>>
RecvEnds(n) ==
    /\ Goes(n, "recv", "ended") /\ got[n] = total[n]
    /\ UNCHANGED <<envVars, handler, got, writerVars, cancelled, faults>>
RecvFails(n) == LegFails(n, "recv")

\* The channel is unbuffered: the writer takes the reply from the leg's hand.
Offer_OrDrops(n) ==
    /\ Goes(n, "offer", "recv")
    /\ IF writer = "select"
       THEN writer' = "write" /\ taken' = [node |-> n, reply |-> got[n]]
       ELSE UNCHANGED <<writer, taken>>
    /\ UNCHANGED <<envVars, handler, got, shown, cancelled, faults>>
Offer(n) ==
    /\ Goes(n, "offer", "recv") /\ writer = "select"
    /\ writer' = "write" /\ taken' = [node |-> n, reply |-> got[n]]
    /\ UNCHANGED <<envVars, handler, got, shown, cancelled, faults>>
OfferStops_WaitsOn(n) == leg[n] = "offer" /\ cancelled /\ UNCHANGED vars
OfferStops(n) ==
    /\ Goes(n, "offer", "ended") /\ cancelled
    /\ UNCHANGED <<envVars, handler, got, writerVars, cancelled, faults>>

-----------------------------------------------------------------------------
(***************************************************************************)
(* The writer.                                                             *)
(***************************************************************************)
\* conn.WriteJSON.  To a client that has left it may still succeed.
Write_SharedReply ==
    /\ writer = "write"
    /\ shown' = [shown EXCEPT ![taken.node] = Append(@, got[taken.node])]
    /\ writer' = "select" /\ taken' = Nothing
    /\ UNCHANGED <<envVars, handler, legVars, cancelled, faults>>
Write ==
    /\ writer = "write"
    /\ shown' = [shown EXCEPT ![taken.node] = Append(@, taken.reply)]
    /\ writer' = "select" /\ taken' = Nothing
    /\ UNCHANGED <<envVars, handler, legVars, cancelled, faults>>
WriteFails_GoesOn ==
    /\ writer = "write" /\ client = "gone"
    /\ writer' = "select" /\ taken' = Nothing
    /\ UNCHANGED <<envVars, handler, legVars, shown, cancelled, faults>>
WriteFails ==
    /\ writer = "write" /\ client = "gone"
    /\ writer' = "ended" /\ cancelled' = TRUE
    /\ UNCHANGED <<envVars, handler, legVars, taken, shown, faults>>
WriterStops ==
    /\ writer = "select" /\ cancelled
    /\ writer' = "ended"
    /\ UNCHANGED <<envVars, handler, legVars, taken, shown, cancelled, faults>>

-----------------------------------------------------------------------------
LegStep(n) ==
    \/ Make(n) \/ MakeFails(n) \/ Open(n) \/ OpenFails(n)
    \/ Recv(n) \/ RecvEnds(n) \/ RecvFails(n) \/ Offer(n) \/ OfferStops(n)
WriterStep == Write \/ WriteFails \/ WriterStops

\* Nothing closes the channel: once every leg has ended without an error, and
\* also when there was no node, the writer waits and the handler with it, the
\* client there or not.
Quiet ==
    /\ \/ handler = "done"
       \/ handler = "wait" /\ LegsEnded /\ writer = "select" /\ ~cancelled
    /\ UNCHANGED vars

Next ==
    \/ \E n \in Nodes : NodeLeaves(n) \/ LegStep(n)
    \/ ClientLeaves \/ ListNodes \/ ListFails \/ WriterStep \/ Return
    \/ Quiet

Spec == Init /\ [][Next]_vars

\* Goroutines that can run do; the client takes what is written, or leaves.
Fairness ==
    /\ \A n \in Nodes : WF_vars(LegStep(n))
    /\ WF_vars(WriterStep) /\ WF_vars(Return)
FairSpec == Spec /\ Fairness
-----------------------------------------------------------------------------
(***************************************************************************)
(* Properties.                                                             *)
(***************************************************************************)

\* The type invariant: the values every variable may take.
Taken == [node : Nodes, reply : Nat]
TypeOK ==
    /\ alive \subseteq Nodes /\ total \in [Nodes -> Nat] /\ client \in {"here", "gone"}
    /\ handler \in {"nodes", "wait", "done"}
    /\ leg \in [Nodes -> {"none", "make", "open", "recv", "offer", "ended"}]
    /\ got \in [Nodes -> Nat]
    /\ writer \in {"none", "select", "write", "ended"}
    /\ taken \in Taken \cup {Nothing} /\ (writer = "write" => taken \in Taken)
    /\ shown \in [Nodes -> Seq(Nat)]
    /\ cancelled \in BOOLEAN /\ faults \in Nat

Hand(b) == IF b THEN 1 ELSE 0
Offered(n) == Hand(leg[n] = "offer")
Writing(n) == Hand(writer = "write" /\ taken.node = n)
Accounted(n) == got[n] = Len(shown[n]) + Writing(n) + Offered(n)

\* Each node's replies are written as it gave them: in its order, from the
\* first one on and without a gap, also when the request is cut short.
InOrder == \A n \in Nodes : \A i \in DOMAIN shown[n] : shown[n][i] = i

\* Until the context is done no reply is lost between a node and the client:
\* what was received of it is written, or in the hand of its leg or the writer.
NoneDropped == ~cancelled => \A n \in Nodes : Accounted(n)

\* A node that has said all it had does not cut the others short: without a
\* fault nothing is cancelled.
CutOnlyByFault == faults = 0 => ~cancelled

\* When nothing is left but to wait, for the client or for ever (Quiet), every
\* node that was asked has said all it had and the client has been sent it.
WaitIsComplete ==
    handler = "wait" /\ LegsEnded /\ writer = "select" /\ ~cancelled =>
        \A n \in Nodes : leg[n] = "ended" => Len(shown[n]) = total[n]

\* The inductive invariant of FanOutProofs.  A leg that goes on, and the reply
\* the writer has taken, are accounted for after a cancellation too.
InHand ==
    /\ writer = "write" => taken.reply = Len(shown[taken.node]) + 1
    /\ \A n \in Nodes :
        ~cancelled \/ (leg[n] # "ended" /\ writer # "ended") => Accounted(n)
NoneLeft == handler # "wait" => LegsEnded /\ writer \in {"none", "ended"}
NotBegun == handler = "nodes" => writer = "none" /\ \A n \in Nodes : leg[n] = "none"
FaultsCounted ==
    cancelled \/ writer = "ended" \/ alive # Nodes \/ client = "gone" => faults > 0
IndInv == TypeOK /\ NotBegun /\ NoneLeft /\ InHand /\ FaultsCounted /\ InOrder

\* Once the context is done every goroutine of the request ends, whether it is
\* about to call, to receive, to offer or to write, and the handler returns.
CancelEnds == cancelled ~> handler = "done"
=============================================================================
