------------------------------- MODULE Ingest -------------------------------
(***************************************************************************)
(* From a datagram to a stored record, on the agent.  Each UDP ingress has *)
(* a receiver, which listens, reads and offers every message on an         *)
(* unbuffered channel, and a closer, which closes the socket when the      *)
(* ingress's context is done; both are in an errgroup of the ingress.  For *)
(* each, Server.Run has a goroutine that takes the messages and writes     *)
(* them to storage; these are in an errgroup of the server, whose context  *)
(* is the parent of all the ingresses' contexts.                           *)
(*                                                                         *)
(* Storage is what Store shows of it: a Write returns, and a record is     *)
(* stored when it returned nil.                                            *)
(*                                                                         *)
(* X_Fault is X with a plausible fault in the code it stands for.  Nothing *)
(* here uses it; each shows that a property notices such a fault.          *)
(***************************************************************************)
EXTENDS Naturals, Sequences, SequencesExt

CONSTANTS
    Ingresses,
    MaxSent, MaxFaults  \* bounds, for TLC

ASSUME IngestAssumption == MaxSent \in Nat /\ MaxFaults \in Nat

VARIABLES
    sent,      \* how many datagrams were sent to each ingress
    queue,     \* those the kernel holds for its socket, in order
    socket,    \* "none", "open" or "closed"
    read,      \* the messages its receiver has read
    recv,      \* where the receiver is
    offered,   \* the message it offers on the channel
    closer,    \* where the closer is
    result,    \* what the ingress's goroutines have returned: "nil" or "error"
    ended,     \* the ingresses whose own context is done
    loop,      \* where the goroutine of Server.Run is
    taken,     \* the message it is writing
    stored,    \* the messages written
    cancelled, \* the context of Server.Run is done
    run,       \* Server.Run: "runs", or returned "nil" or "error"
    failure,   \* a goroutine of Server.Run has returned an error
    faults     \* bounded by MaxFaults

netVars == <<sent, queue>>
ingressVars == <<socket, read, recv, offered, closer, result, ended>>
loopVars == <<loop, taken, stored>>
runVars == <<cancelled, run, failure>>
vars == <<netVars, ingressVars, loopVars, runVars, faults>>

OneFault == faults < MaxFaults /\ faults' = faults + 1
At(pc, i, from, to) == pc[i] = from /\ pc' = [pc EXCEPT ![i] = to]

Init ==
    /\ sent = [i \in Ingresses |-> 0] /\ queue = [i \in Ingresses |-> <<>>]
    /\ socket = [i \in Ingresses |-> "none"] /\ read = [i \in Ingresses |-> <<>>]
    /\ recv = [i \in Ingresses |-> "idle"] /\ offered = [i \in Ingresses |-> 0]
    /\ closer = [i \in Ingresses |-> "idle"] /\ result = [i \in Ingresses |-> "nil"]
    /\ ended = {}
    /\ loop = [i \in Ingresses |-> "start"] /\ taken = [i \in Ingresses |-> 0]
    /\ stored = [i \in Ingresses |-> <<>>]
    /\ cancelled = FALSE /\ run = "runs" /\ failure = FALSE /\ faults = 0

\* Contexts: an ingress's is done with its parent's.
Done(i) == cancelled \/ i \in ended
\* The channel of an ingress is closed when its receiver returns.
ChannelClosed(i) == recv[i] = "ended"
IngressOver(i) == recv[i] \in {"idle", "ended"} /\ closer[i] \in {"idle", "ended"}

-----------------------------------------------------------------------------
(***************************************************************************)
(* The network and the process's owner.                                    *)
(***************************************************************************)
\* A datagram arrives, a message or one of length 0.  It is lost if there is no
\* socket, or no room in it.
Blank == 0
Arrive(i) ==
    /\ sent[i] < MaxSent /\ sent' = [sent EXCEPT ![i] = @ + 1]
    /\ \/ UNCHANGED queue
       \/ /\ socket[i] = "open"
          /\ \E m \in {sent'[i], Blank} : queue' = [queue EXCEPT ![i] = Append(@, m)]
    /\ UNCHANGED <<ingressVars, loopVars, runVars, faults>>

\* An interrupt, or the failure of another part of the agent.
Cancel ==
    /\ ~cancelled /\ OneFault
    /\ cancelled' = TRUE
    /\ UNCHANGED <<netVars, ingressVars, loopVars, run, failure>>

-----------------------------------------------------------------------------
(***************************************************************************)
(* UDP.Ingress.                                                            *)
(***************************************************************************)
\* The receiver returns; its first error ends the context.
Returns(i, from, how) ==
    /\ At(recv, i, from, "ended")
    /\ result' = [result EXCEPT ![i] = IF @ = "error" THEN @ ELSE how]
    /\ ended' = IF how = "error" THEN ended \cup {i} ELSE ended

Listen_NoCloser(i) ==
    /\ At(recv, i, "listen", "read")
    /\ socket' = [socket EXCEPT ![i] = "open"]
    /\ UNCHANGED <<netVars, read, offered, closer, result, ended, loopVars, runVars, faults>>
Listen(i) ==
    /\ At(recv, i, "listen", "read")
    /\ socket' = [socket EXCEPT ![i] = "open"]
    /\ closer' = [closer EXCEPT ![i] = "wait"]
    /\ UNCHANGED <<netVars, read, offered, result, ended, loopVars, runVars, faults>>
ListenFails(i) ==
    /\ Returns(i, "listen", "error") /\ OneFault
    /\ UNCHANGED <<netVars, socket, read, offered, closer, loopVars, runVars>>

ReadFrom(i) ==
    /\ At(recv, i, "read", "offer") /\ socket[i] = "open"
    /\ queue[i] # <<>> /\ Head(queue[i]) # Blank
    /\ offered' = [offered EXCEPT ![i] = Head(queue[i])]
    /\ read' = [read EXCEPT ![i] = Append(@, Head(queue[i]))]
    /\ queue' = [queue EXCEPT ![i] = Tail(@)]
    /\ UNCHANGED <<sent, socket, closer, result, ended, loopVars, runVars, faults>>
\* Nothing to offer: the loop goes round.
ReadBlank(i) ==
    /\ recv[i] = "read" /\ socket[i] = "open"
    /\ queue[i] # <<>> /\ Head(queue[i]) = Blank
    /\ queue' = [queue EXCEPT ![i] = Tail(@)]
    /\ UNCHANGED <<sent, ingressVars, loopVars, runVars, faults>>
\* "use of closed network connection" is no error, another one is.
ReadEnds(i) ==
    /\ Returns(i, "read", "nil") /\ socket[i] = "closed"
    /\ UNCHANGED <<netVars, socket, read, offered, closer, loopVars, runVars, faults>>
ReadFails(i) ==
    /\ Returns(i, "read", "error") /\ socket[i] = "open" /\ OneFault
    /\ UNCHANGED <<netVars, socket, read, offered, closer, loopVars, runVars>>

OfferStops_Drops(i) ==
    /\ At(recv, i, "offer", "read")
    /\ UNCHANGED <<netVars, socket, read, offered, closer, result, ended, loopVars, runVars,
                   faults>>
OfferStops(i) ==
    /\ Returns(i, "offer", "nil") /\ Done(i)
    /\ UNCHANGED <<netVars, socket, read, offered, closer, loopVars, runVars, faults>>

CloseSocket_WaitsOn(i) == closer[i] = "wait" /\ Done(i) /\ UNCHANGED vars
CloseSocket(i) ==
    /\ At(closer, i, "wait", "ended") /\ Done(i)
    /\ socket' = [socket EXCEPT ![i] = "closed"] /\ queue' = [queue EXCEPT ![i] = <<>>]
    /\ UNCHANGED <<sent, read, recv, offered, result, ended, loopVars, runVars, faults>>

-----------------------------------------------------------------------------
(***************************************************************************)
(* Server.Run.                                                             *)
(***************************************************************************)
Start(i) ==
    /\ At(loop, i, "start", "select")
    /\ recv' = [recv EXCEPT ![i] = "listen"]
    /\ UNCHANGED <<netVars, socket, read, offered, closer, result, ended, taken, stored,
                   runVars, faults>>

\* The receiver's offer meets the loop's select.
Take(i) ==
    /\ At(loop, i, "select", "write")
    /\ At(recv, i, "offer", "read")
    /\ taken' = [taken EXCEPT ![i] = offered[i]]
    /\ UNCHANGED <<netVars, socket, read, offered, closer, result, ended, stored, runVars,
                   faults>>

\* The channel is closed: wait for the ingress, and return its error.
Closed(i) ==
    /\ At(loop, i, "select", "wait") /\ ChannelClosed(i)
    /\ UNCHANGED <<netVars, ingressVars, taken, stored, runVars, faults>>

\* A goroutine of the server's group returns; its first error ends the context.
LoopReturns(i, from, how) ==
    /\ At(loop, i, from, "ended")
    /\ failure' = (failure \/ how = "error") /\ cancelled' = (cancelled \/ how = "error")
    /\ UNCHANGED <<netVars, taken, run>>

\* eg.Wait of the ingress has the first error, and ends its context.
Waited_ErrorIgnored(i) ==
    /\ IngressOver(i) /\ LoopReturns(i, "wait", "nil")
    /\ ended' = ended \cup {i}
    /\ UNCHANGED <<socket, read, recv, offered, closer, result, stored, faults>>
Waited(i) ==
    /\ IngressOver(i) /\ LoopReturns(i, "wait", result[i])
    /\ ended' = ended \cup {i}
    /\ UNCHANGED <<socket, read, recv, offered, closer, result, stored, faults>>

LoopStops(i) ==
    /\ cancelled /\ LoopReturns(i, "select", "nil")
    /\ UNCHANGED <<ingressVars, stored, faults>>

Write(i) ==
    /\ At(loop, i, "write", "select")
    /\ stored' = [stored EXCEPT ![i] = Append(@, taken[i])]
    /\ UNCHANGED <<netVars, ingressVars, taken, runVars, faults>>
WriteFails_GoesOn(i) ==
    /\ OneFault /\ At(loop, i, "write", "select")
    /\ UNCHANGED <<netVars, ingressVars, taken, stored, runVars>>
WriteFails(i) ==
    /\ \/ cancelled /\ UNCHANGED faults
       \/ OneFault
    /\ LoopReturns(i, "write", "error")
    /\ UNCHANGED <<ingressVars, stored>>

\* eg.Wait of the server.
Return ==
    /\ run = "runs" /\ \A i \in Ingresses : loop[i] = "ended"
    /\ run' = IF failure THEN "error" ELSE "nil"
    /\ cancelled' = TRUE
    /\ UNCHANGED <<netVars, ingressVars, loopVars, failure, faults>>

-----------------------------------------------------------------------------
ReceiverStep(i) ==
    \/ Listen(i) \/ ListenFails(i) \/ ReadFrom(i) \/ ReadBlank(i) \/ ReadEnds(i)
    \/ ReadFails(i) \/ OfferStops(i)
LoopStep(i) ==
    \/ Start(i) \/ Take(i) \/ Closed(i) \/ Waited(i) \/ LoopStops(i)
    \/ Write(i) \/ WriteFails(i)

Over == run # "runs" /\ \A i \in Ingresses : IngressOver(i)

\* Everything has ended, or nothing arrives any more.
Quiet ==
    /\ \/ Over
       \/ \A i \in Ingresses : recv[i] = "read" /\ loop[i] = "select" /\ ~Done(i)
    /\ UNCHANGED vars

Next ==
    \/ \E i \in Ingresses : Arrive(i) \/ ReceiverStep(i) \/ CloseSocket(i) \/ LoopStep(i)
    \/ Cancel \/ Return \/ Quiet

Spec == Init /\ [][Next]_vars

\* Goroutines that can run do.
Fairness ==
    /\ \A i \in Ingresses :
        WF_vars(ReceiverStep(i)) /\ WF_vars(CloseSocket(i)) /\ WF_vars(LoopStep(i))
    /\ WF_vars(Return)
FairSpec == Spec /\ Fairness
-----------------------------------------------------------------------------
(***************************************************************************)
(* Properties.                                                             *)
(***************************************************************************)

\* The type invariant; each open socket has a goroutine that will close it.
Messages == Seq(Nat)
TypeOK ==
    /\ sent \in [Ingresses -> Nat] /\ queue \in [Ingresses -> Messages]
    /\ socket \in [Ingresses -> {"none", "open", "closed"}]
    /\ read \in [Ingresses -> Messages] /\ stored \in [Ingresses -> Messages]
    /\ recv \in [Ingresses -> {"idle", "listen", "read", "offer", "ended"}]
    /\ closer \in [Ingresses -> {"idle", "wait", "ended"}]
    /\ loop \in [Ingresses -> {"start", "select", "write", "wait", "ended"}]
    /\ offered \in [Ingresses -> Nat] /\ taken \in [Ingresses -> Nat]
    /\ result \in [Ingresses -> {"nil", "error"}] /\ ended \subseteq Ingresses
    /\ cancelled \in BOOLEAN /\ failure \in BOOLEAN /\ run \in {"runs", "nil", "error"}
    /\ faults \in Nat
    /\ \A i \in Ingresses : socket[i] = "open" <=> closer[i] = "wait"

\* What is stored of an ingress is what was read from its socket, in that
\* order, each message once, from the first one on and without a gap: also
\* when a write fails or the agent is stopped between two messages.
StoredInOrder == \A i \in Ingresses : IsPrefix(stored[i], read[i])

\* Until its context is done an ingress loses nothing it has read: a message is
\* stored, in the hand of Server.Run or in that of the receiver.
InHand(pc, where, message) == IF pc = where THEN <<message>> ELSE <<>>
NoneLost ==
    \A i \in Ingresses : ~Done(i) =>
        read[i] = stored[i] \o InHand(loop[i], "write", taken[i])
                            \o InHand(recv[i], "offer", offered[i])

\* Server.Run does not return while the agent is to go on: an ingress that
\* cannot listen or read is an error, which ends the context, never a silent
\* end of the reading.
RunsUntilStopped == [][run' # run => cancelled \/ Ingresses = {}]_vars

\* Once the context is done, by an interrupt or by the failure of any ingress
\* or write, every goroutine ends and every socket is closed.
StopEnds == cancelled ~> Over
=============================================================================
