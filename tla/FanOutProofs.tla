---------------------------- MODULE FanOutProofs ----------------------------
(***************************************************************************)
(* IndInv is an inductive invariant of FanOut, for any set of nodes and    *)
(* any number of replies and faults; the safety properties follow from it. *)
(***************************************************************************)
EXTENDS FanOut, TLAPS

\* A node that asks nothing of another leaves its account alone: one whose leg,
\* replies and place in the writer's hand are unchanged stays accounted for.
LEMMA SameAccount ==
    ASSUME NEW n, Accounted(n),
           got'[n] = got[n], shown'[n] = shown[n],
           leg'[n] = "offer" <=> leg[n] = "offer",
           (writer' = "write" /\ taken'.node = n) <=> (writer = "write" /\ taken.node = n)
    PROVE  Accounted(n)'
  BY DEF Accounted, Writing, Offered, Hand

\* At the start nothing runs and nothing is in any hand.
LEMMA InitInv == FanOutAssumption /\ Init => IndInv
  <1> SUFFICES ASSUME FanOutAssumption, Init PROVE IndInv
    OBVIOUS
  <1>1. TypeOK
    <2>1. total \in [Nodes -> Nat]
      BY DEF FanOutAssumption, Init
    <2>2. shown \in [Nodes -> Seq(Nat)]
      BY DEF Init
    <2> QED
      BY <2>1, <2>2 DEF Init, TypeOK
  <1>2. NotBegun /\ NoneLeft /\ FaultsCounted /\ InOrder
    BY DEF Init, NotBegun, NoneLeft, LegsEnded, FaultsCounted, InOrder
  <1>3. InHand
    BY DEF Init, InHand, Accounted, Writing, Offered, Hand
  <1> QED BY <1>1, <1>2, <1>3 DEF IndInv

-----------------------------------------------------------------------------
(***************************************************************************)
(* The nodes, the client and the handler.                                  *)
(***************************************************************************)
\* A step of the environment or the handler moves no reply.
LEMMA NodeLeavesKeeps ==
    ASSUME IndInv, NEW n \in Nodes, NodeLeaves(n)  PROVE IndInv'
  <1>1. TypeOK' /\ FaultsCounted'
    BY DEF IndInv, TypeOK, Taken, FaultsCounted, NodeLeaves, OneFault, legVars, writerVars
  <1>2. NotBegun' /\ NoneLeft' /\ InHand' /\ InOrder'
    BY DEF IndInv, NotBegun, NoneLeft, LegsEnded, InHand, InOrder, Accounted, Writing,
           Offered, NodeLeaves, legVars, writerVars
  <1> QED BY <1>1, <1>2 DEF IndInv

LEMMA ClientLeavesKeeps ==
    ASSUME IndInv, ClientLeaves  PROVE IndInv'
  <1>1. TypeOK' /\ FaultsCounted'
    BY DEF IndInv, TypeOK, Taken, FaultsCounted, ClientLeaves, OneFault, legVars, writerVars
  <1>2. NotBegun' /\ NoneLeft' /\ InHand' /\ InOrder'
    BY DEF IndInv, NotBegun, NoneLeft, LegsEnded, InHand, InOrder, Accounted, Writing,
           Offered, ClientLeaves, legVars, writerVars
  <1> QED BY <1>1, <1>2 DEF IndInv

LEMMA ListNodesKeeps ==
    ASSUME IndInv, ListNodes  PROVE IndInv'
  <1>1. TypeOK' /\ NotBegun' /\ NoneLeft' /\ FaultsCounted'
    BY DEF IndInv, TypeOK, Taken, NotBegun, NoneLeft, FaultsCounted, ListNodes, envVars
  <1>2. InHand'
    <2>1. writer = "none" /\ \A n \in Nodes : leg[n] = "none"
      BY DEF IndInv, NotBegun, ListNodes
    <2>2. \A n \in Nodes : leg'[n] # "offer"
      BY DEF ListNodes
    <2>3. \A n \in Nodes : Accounted(n)
      BY <2>1 DEF IndInv, InHand
    <2> QED
      BY <2>1, <2>2, <2>3, SameAccount DEF InHand, ListNodes
  <1>3. InOrder'
    BY DEF IndInv, InOrder, ListNodes
  <1> QED BY <1>1, <1>2, <1>3 DEF IndInv

LEMMA ListFailsKeeps ==
    ASSUME IndInv, ListFails  PROVE IndInv'
  <1>1. TypeOK' /\ FaultsCounted'
    BY DEF IndInv, TypeOK, Taken, FaultsCounted, ListFails, OneFault, envVars, legVars, writerVars
  <1>2. NotBegun' /\ NoneLeft' /\ InHand' /\ InOrder'
    BY DEF IndInv, NotBegun, NoneLeft, LegsEnded, InHand, InOrder, Accounted, Writing,
           Offered, ListFails, legVars, writerVars
  <1> QED BY <1>1, <1>2 DEF IndInv

\* The writer has ended, so nothing is owed for any leg but by the first case.
LEMMA ReturnKeeps ==
    ASSUME IndInv, Return  PROVE IndInv'
  <1>1. TypeOK' /\ NotBegun' /\ NoneLeft'
    BY DEF IndInv, TypeOK, Taken, NotBegun, NoneLeft, LegsEnded, Return, envVars, legVars,
           writerVars
  <1>2. InHand' /\ InOrder'
    BY DEF IndInv, InHand, InOrder, Return, legVars, writerVars
  <1>3. FaultsCounted'
    BY DEF IndInv, FaultsCounted, Return, envVars
  <1> QED BY <1>1, <1>2, <1>3 DEF IndInv

-----------------------------------------------------------------------------
(***************************************************************************)
(* A leg.                                                                  *)
(***************************************************************************)
\* A leg that goes on, or ends, with nothing in its hand before and after: all
\* accounts stand.
LEMMA LegMoves ==
    ASSUME IndInv, NEW n \in Nodes, NEW to \in {"open", "recv", "ended"},
           leg[n] \in {"make", "open", "recv"},
           leg' = [leg EXCEPT ![n] = to],
           cancelled' \in BOOLEAN, cancelled => cancelled',
           UNCHANGED <<envVars, handler, got, writerVars>>
    PROVE  NotBegun' /\ NoneLeft' /\ InHand' /\ InOrder'
  <1>1. leg \in [Nodes -> {"none", "make", "open", "recv", "offer", "ended"}]
    BY DEF IndInv, TypeOK
  <1>2. handler = "wait"
    <2>1. handler \in {"nodes", "wait", "done"}
      BY DEF IndInv, TypeOK
    <2> QED
      BY <2>1 DEF IndInv, NotBegun, NoneLeft, LegsEnded
  <1>3. NotBegun' /\ NoneLeft' /\ InOrder'
    BY <1>2 DEF IndInv, NotBegun, NoneLeft, InOrder, writerVars
  <1>4. \A m \in Nodes : Accounted(m) => Accounted(m)'
    BY <1>1 DEF Accounted, Writing, Offered, writerVars
  <1>5. InHand'
    BY <1>1, <1>4 DEF IndInv, InHand, writerVars
  <1> QED BY <1>3, <1>5

LEMMA LegFailsKeeps ==
    ASSUME IndInv, NEW n \in Nodes, NEW from \in {"make", "open", "recv"},
           LegFails(n, from)
    PROVE  IndInv'
  <1>1. TypeOK' /\ FaultsCounted'
    BY DEF IndInv, TypeOK, Taken, FaultsCounted, LegFails, Goes, OneFault, envVars,
           writerVars
  <1>2. NotBegun' /\ NoneLeft' /\ InHand' /\ InOrder'
    BY LegMoves DEF LegFails, Goes
  <1> QED BY <1>1, <1>2 DEF IndInv

LEMMA LegGoesKeeps ==
    ASSUME IndInv, NEW n \in Nodes, Make(n) \/ Open(n) \/ RecvEnds(n)
    PROVE  IndInv'
  <1>1. TypeOK' /\ FaultsCounted'
    <2>1. leg' \in [Nodes -> {"none", "make", "open", "recv", "offer", "ended"}]
      BY DEF IndInv, TypeOK, Make, Open, RecvEnds, Goes
    <2>2. UNCHANGED <<alive, total, client, handler, got, writer, taken, shown, cancelled,
                      faults>>
      BY DEF Make, Open, RecvEnds, envVars, writerVars
    <2> QED
      BY <2>1, <2>2 DEF IndInv, TypeOK, FaultsCounted
  <1>2. \E from \in {"make", "open", "recv"}, to \in {"open", "recv", "ended"} :
          leg[n] = from /\ leg' = [leg EXCEPT ![n] = to]
    BY DEF Make, Open, RecvEnds, Goes
  <1>3. UNCHANGED <<envVars, handler, got, writerVars, cancelled>> /\ cancelled \in BOOLEAN
    BY DEF IndInv, TypeOK, Make, Open, RecvEnds
  <1>4. NotBegun' /\ NoneLeft' /\ InHand' /\ InOrder'
    BY <1>2, <1>3, LegMoves
  <1> QED BY <1>1, <1>4 DEF IndInv

\* The reply received is the one the leg now offers.
LEMMA RecvKeeps ==
    ASSUME IndInv, NEW n \in Nodes, Recv(n)  PROVE IndInv'
  <1> USE DEF Recv, Goes
  <1>1. TypeOK' /\ FaultsCounted'
    BY DEF IndInv, TypeOK, Taken, FaultsCounted, envVars, writerVars
  <1>2. handler = "wait"
    BY DEF IndInv, TypeOK, NotBegun, NoneLeft, LegsEnded
  <1>3. NotBegun' /\ NoneLeft' /\ InOrder'
    BY <1>2 DEF IndInv, NotBegun, NoneLeft, InOrder, writerVars
  <1>4. \A m \in Nodes : Accounted(m) => Accounted(m)'
    <2> SUFFICES ASSUME NEW m \in Nodes, Accounted(m) PROVE Accounted(m)'
      OBVIOUS
    <2>1. CASE m = n
      BY <2>1 DEF IndInv, TypeOK, Accounted, Writing, Offered, Hand, writerVars
    <2>2. CASE m # n
      BY <2>2 DEF IndInv, TypeOK, Accounted, Writing, Offered, writerVars
    <2> QED BY <2>1, <2>2
  <1>5. InHand'
    BY <1>4 DEF IndInv, TypeOK, InHand, writerVars
  <1> QED BY <1>1, <1>3, <1>5 DEF IndInv

\* The reply goes from one hand to the other, and is the next one to be shown.
LEMMA OfferKeeps ==
    ASSUME IndInv, NEW n \in Nodes, Offer(n)  PROVE IndInv'
  <1> USE DEF Offer, Goes
  <1>1. TypeOK' /\ FaultsCounted'
    BY DEF IndInv, TypeOK, Taken, FaultsCounted, envVars
  <1>2. handler = "wait"
    BY DEF IndInv, TypeOK, NotBegun, NoneLeft, LegsEnded
  <1>3. NotBegun' /\ NoneLeft' /\ InOrder'
    BY <1>2 DEF IndInv, NotBegun, NoneLeft, InOrder
  <1>4. taken'.node = n /\ taken'.reply = got[n]
    OBVIOUS
  <1>5. \A m \in Nodes : Accounted(m) => Accounted(m)'
    <2> SUFFICES ASSUME NEW m \in Nodes, Accounted(m) PROVE Accounted(m)'
      OBVIOUS
    <2>1. CASE m = n
      BY <2>1 DEF IndInv, TypeOK, Accounted, Writing, Offered, Hand
    <2>2. CASE m # n
      BY <2>2 DEF IndInv, TypeOK, Accounted, Writing, Offered, Hand
    <2> QED BY <2>1, <2>2
  <1>6. got[n] = Len(shown[n]) + 1
    BY DEF IndInv, TypeOK, InHand, Accounted, Writing, Offered, Hand
  <1>7. InHand'
    BY <1>4, <1>5, <1>6 DEF IndInv, TypeOK, InHand
  <1> QED BY <1>1, <1>3, <1>7 DEF IndInv

\* The context is done, and a leg that has ended is owed nothing.
LEMMA OfferStopsKeeps ==
    ASSUME IndInv, NEW n \in Nodes, OfferStops(n)  PROVE IndInv'
  <1> USE DEF OfferStops, Goes
  <1>1. TypeOK' /\ FaultsCounted'
    BY DEF IndInv, TypeOK, Taken, FaultsCounted, envVars, writerVars
  <1>2. NotBegun' /\ NoneLeft' /\ InOrder'
    BY DEF IndInv, TypeOK, NotBegun, NoneLeft, LegsEnded, InOrder, writerVars
  <1>3. \A m \in Nodes \ {n} : Accounted(m) => Accounted(m)'
    BY DEF IndInv, TypeOK, Accounted, Writing, Offered, writerVars
  <1>4. InHand'
    BY <1>3 DEF IndInv, TypeOK, InHand, writerVars
  <1> QED BY <1>1, <1>2, <1>4 DEF IndInv

-----------------------------------------------------------------------------
(***************************************************************************)
(* The writer.                                                             *)
(***************************************************************************)
LEMMA WriteKeeps ==
    ASSUME IndInv, Write  PROVE IndInv'
  <1> USE DEF Write
  <1>1. taken \in Taken /\ taken.node \in Nodes /\ taken.reply \in Nat
    BY DEF IndInv, TypeOK, Taken
  <1>2. TypeOK' /\ FaultsCounted'
    BY <1>1 DEF IndInv, TypeOK, FaultsCounted, envVars, legVars
  <1>3. handler = "wait"
    BY DEF IndInv, TypeOK, NotBegun, NoneLeft
  <1>4. NotBegun' /\ NoneLeft'
    BY <1>3 DEF NotBegun, NoneLeft
  <1>5. taken.reply = Len(shown[taken.node]) + 1
    BY DEF IndInv, InHand
  <1>6. InOrder'
    BY <1>1, <1>5 DEF IndInv, TypeOK, InOrder
  <1>7. \A m \in Nodes : Accounted(m) => Accounted(m)'
    <2> SUFFICES ASSUME NEW m \in Nodes, Accounted(m) PROVE Accounted(m)'
      OBVIOUS
    <2>1. CASE m = taken.node
      <3>1. shown[m] \in Seq(Nat) /\ shown'[m] = Append(shown[m], taken.reply)
        BY <2>1, <1>1 DEF IndInv, TypeOK
      <3>2. Len(shown'[m]) = Len(shown[m]) + 1 /\ Len(shown[m]) \in Nat
        BY <3>1, <1>1
      <3>3. Writing(m) = 1 /\ Writing(m)' = 0
        BY <2>1 DEF Writing, Hand
      <3>4. Offered(m)' = Offered(m) /\ Offered(m) \in Nat /\ got'[m] = got[m]
        BY DEF Offered, Hand, legVars
      <3>5. got[m] = Len(shown[m]) + 1 + Offered(m)
        BY <3>3 DEF Accounted
      <3> QED
        BY <3>2, <3>3, <3>4, <3>5 DEF Accounted
    <2>2. CASE m # taken.node
      BY <2>2, <1>1 DEF IndInv, TypeOK, Accounted, Writing, Offered, Hand, legVars
    <2> QED BY <2>1, <2>2
  <1>8. InHand'
    BY <1>7 DEF IndInv, InHand, legVars
  <1> QED BY <1>2, <1>4, <1>6, <1>8 DEF IndInv

\* A writer that ends has been cancelled or cancels.
LEMMA WriterEndsKeeps ==
    ASSUME IndInv, WriteFails \/ WriterStops  PROVE IndInv'
  <1> USE DEF WriteFails, WriterStops
  <1>1. TypeOK' /\ NotBegun' /\ NoneLeft'
    BY DEF IndInv, TypeOK, NotBegun, NoneLeft, LegsEnded, envVars, legVars
  <1>2. FaultsCounted'
    BY DEF IndInv, FaultsCounted, envVars
  <1>3. cancelled' /\ writer' = "ended"
    OBVIOUS
  <1>4. InHand' /\ InOrder'
    BY <1>3 DEF IndInv, InHand, InOrder
  <1> QED BY <1>1, <1>2, <1>4 DEF IndInv

-----------------------------------------------------------------------------
(***************************************************************************)
(* The invariant and the properties.                                       *)
(***************************************************************************)
\* Every step of Server.read, its legs, its writer, its nodes and its client
\* keeps the invariant.
LEMMA NextInv == IndInv /\ [Next]_vars => IndInv'
  <1> SUFFICES ASSUME IndInv, [Next]_vars PROVE IndInv'
    OBVIOUS
  <1>1. ASSUME NEW n \in Nodes, NodeLeaves(n) PROVE IndInv'
    BY <1>1, NodeLeavesKeeps
  <1>2. ASSUME NEW n \in Nodes, LegStep(n) PROVE IndInv'
    BY <1>2, LegFailsKeeps, LegGoesKeeps, RecvKeeps, OfferKeeps, OfferStopsKeeps
       DEF LegStep, MakeFails, OpenFails, RecvFails
  <1>3. CASE ClientLeaves
    BY <1>3, ClientLeavesKeeps
  <1>4. CASE ListNodes
    BY <1>4, ListNodesKeeps
  <1>5. CASE ListFails
    BY <1>5, ListFailsKeeps
  <1>6. CASE WriterStep
    BY <1>6, WriteKeeps, WriterEndsKeeps DEF WriterStep
  <1>7. CASE Return
    BY <1>7, ReturnKeeps
  <1>8. CASE UNCHANGED vars
    BY <1>8 DEF vars, envVars, legVars, writerVars, IndInv, TypeOK, NotBegun, NoneLeft,
                LegsEnded, InHand, FaultsCounted, InOrder, Accounted, Writing, Offered
  <1> QED
    BY <1>1, <1>2, <1>3, <1>4, <1>5, <1>6, <1>7, <1>8 DEF Next, Quiet

\* The accounts of all replies stand in every state of Server.read.
THEOREM Inductive == Spec => []IndInv
  <1>1. Init => IndInv
    BY InitInv, FanOutAssumption
  <1> QED BY <1>1, NextInv, PTL DEF Spec

\* Each node's replies reach the client in its order and without a gap.
THEOREM RepliesInOrder == Spec => []InOrder
  <1>1. IndInv => InOrder
    BY DEF IndInv
  <1> QED BY <1>1, Inductive, PTL

\* While the request goes on no reply of any node is lost.
THEOREM RepliesKept == Spec => []NoneDropped
  <1>1. IndInv => NoneDropped
    BY DEF IndInv, InHand, NoneDropped
  <1> QED BY <1>1, Inductive, PTL

\* The end of one node's answer does not cut those of the others short.
THEOREM EndsApart == Spec => []CutOnlyByFault
  <1>1. IndInv => CutOnlyByFault
    BY DEF IndInv, FaultsCounted, CutOnlyByFault
  <1> QED BY <1>1, Inductive, PTL

\* A leg that has ended without an error has received its node's whole answer.
SaidAll == ~cancelled => \A n \in Nodes : leg[n] = "ended" => got[n] = total[n]

\* The handler is never left waiting before every node it asked has been
\* answered for in full: read, which nothing ends then but the client.
THEOREM WaitsWithAll == Spec => []WaitIsComplete
  <1>1. Init => SaidAll
    BY DEF Init, SaidAll
  <1>2. IndInv /\ SaidAll /\ [Next]_vars => SaidAll'
    <2> SUFFICES ASSUME IndInv, SaidAll, [Next]_vars PROVE SaidAll'
      OBVIOUS
    <2> USE DEF SaidAll, envVars, legVars, writerVars
    <2> leg \in [Nodes -> {"none", "make", "open", "recv", "offer", "ended"}]
        /\ got \in [Nodes -> Nat]
      BY DEF IndInv, TypeOK
    <2>1. ASSUME NEW n \in Nodes, NodeLeaves(n) PROVE SaidAll'
      BY <2>1 DEF NodeLeaves
    <2>2. ASSUME NEW n \in Nodes, LegStep(n) PROVE SaidAll'
      BY <2>2 DEF LegStep, Make, MakeFails, Open, OpenFails, Recv, RecvEnds, RecvFails, Offer,
                  OfferStops, LegFails, Goes
    <2>3. CASE ListNodes
      BY <2>3 DEF ListNodes
    <2>4. CASE ClientLeaves \/ ListFails \/ WriterStep \/ Return \/ UNCHANGED vars
      BY <2>4 DEF ClientLeaves, ListFails, WriterStep, Write, WriteFails, WriterStops, Return,
                  vars
    <2> QED
      BY <2>1, <2>2, <2>3, <2>4 DEF Next, Quiet
  <1>3. IndInv /\ SaidAll => WaitIsComplete
    <2> SUFFICES ASSUME IndInv, SaidAll, LegsEnded, writer = "select", ~cancelled,
                        NEW n \in Nodes, leg[n] = "ended"
                 PROVE  Len(shown[n]) = total[n]
      BY DEF WaitIsComplete
    <2>1. got[n] = Len(shown[n]) + Writing(n) + Offered(n) /\ got[n] = total[n]
      BY DEF IndInv, InHand, Accounted, SaidAll
    <2>2. Writing(n) = 0 /\ Offered(n) = 0
      BY DEF Writing, Offered, Hand
    <2>3. Len(shown[n]) \in Nat
      BY DEF IndInv, TypeOK
    <2> QED
      BY <2>1, <2>2, <2>3
  <1> QED BY <1>1, <1>2, <1>3, Inductive, PTL DEF Spec
=============================================================================
