---------------------------- MODULE IngestProofs -----------------------------
(***************************************************************************)
(* IndInv is an inductive invariant of Ingest, for any set of ingresses    *)
(* and any number of messages and faults; its safety properties follow.    *)
(***************************************************************************)
EXTENDS Ingest, SequenceTheorems, TLAPS

\* What has left the channel of an ingress, what its receiver offers, and that
\* nothing else was read, or something was lost: then the context is done, and
\* one of the two goroutines that pass messages on has ended for good.
Passed(i)  == stored[i] \o InHand(loop[i], "write", taken[i])
Offering(i) == InHand(recv[i], "offer", offered[i])
Kept(i) == read[i] = Passed(i) \o Offering(i)
Cut(i) ==
    /\ Done(i) /\ (recv[i] = "ended" \/ loop[i] = "ended")
    /\ \E rest \in Messages : read[i] = Passed(i) \o rest
Accounted(i) == Kept(i) \/ Cut(i)

\* Why a goroutine has started, and why it has ended.
Reasons(i) ==
    /\ socket[i] = "closed" => Done(i)
    /\ recv[i] = "ended" => Done(i)
    /\ i \in ended => result[i] = "error" \/ cancelled \/ loop[i] = "ended"
    /\ loop[i] = "start" => recv[i] = "idle"
    /\ loop[i] = "wait" => recv[i] = "ended"
    /\ loop[i] = "ended" => cancelled

IndInv == TypeOK /\ \A i \in Ingresses : Accounted(i) /\ Reasons(i)

-----------------------------------------------------------------------------
(***************************************************************************)
(* Sequences.                                                              *)
(***************************************************************************)
LEMMA Nothing ==
    ASSUME NEW s \in Messages
    PROVE  s \o <<>> = s
BY ConcatEmptySeq DEF Messages

LEMMA Regroup ==
    ASSUME NEW s \in Messages, NEW t \in Messages, NEW u \in Messages
    PROVE  (s \o t) \o u = s \o (t \o u)
<1>1. s \in Seq(Nat) /\ t \in Seq(Nat) /\ u \in Seq(Nat)
    BY DEF Messages
<1>. QED
    BY ONLY <1>1, ConcatAssociative, SMTT(30)

LEMMA Joined ==
    ASSUME NEW s \in Messages, NEW t \in Messages
    PROVE  s \o t \in Messages /\ IsPrefix(s, s \o t)
<1>1. /\ s \o t \in Seq(Nat) /\ Len(s \o t) = Len(s) + Len(t)
      /\ \A k \in 1 .. Len(s) + Len(t) :
            (s \o t)[k] = IF k <= Len(s) THEN s[k] ELSE t[k - Len(s)]
    BY ConcatProperties DEF Messages
<1>2. Len(s) \in Nat /\ Len(t) \in Nat
    BY LenProperties DEF Messages
<1>3. Len(s) <= Len(s \o t)
    BY <1>1, <1>2
<1>4. SubSeq(s, 1, Len(s)) = s
    BY SubSeqFull DEF Messages
<1>5. SubSeq(s \o t, 1, Len(s)) = s
    BY SubSeqOfConcat1, SubSeqFull, <1>2 DEF Messages
<1>. QED
    BY <1>1, <1>3, <1>4, <1>5 DEF IsPrefix, Messages

LEMMA HandsTyped ==
    ASSUME TypeOK, NEW i \in Ingresses
    PROVE  /\ stored[i] \in Messages /\ read[i] \in Messages
           /\ InHand(loop[i], "write", taken[i]) \in Messages
           /\ Offering(i) \in Messages /\ Passed(i) \in Messages
<1>1. stored[i] \in Messages /\ read[i] \in Messages /\ taken[i] \in Nat /\ offered[i] \in Nat
    BY DEF TypeOK
<1>2. InHand(loop[i], "write", taken[i]) \in Messages /\ Offering(i) \in Messages
    BY <1>1 DEF InHand, Offering, Messages
<1>. QED
    BY <1>1, <1>2, Joined DEF Passed

LEMMA SomethingPassed ==
    ASSUME TypeOK, NEW i \in Ingresses, Accounted(i)
    PROVE  \E rest \in Messages : read[i] = Passed(i) \o rest
BY HandsTyped DEF Accounted, Kept, Cut

-----------------------------------------------------------------------------
(***************************************************************************)
(* The types, and why goroutines end.                                      *)
(***************************************************************************)
LEMMA InitInv == IngestAssumption /\ Init => IndInv
<1>. SUFFICES ASSUME Init PROVE IndInv
    OBVIOUS
<1>1. TypeOK
  <2>1. /\ queue \in [Ingresses -> Messages] /\ read \in [Ingresses -> Messages]
        /\ stored \in [Ingresses -> Messages]
    BY DEF Init, Messages
  <2>2. /\ sent \in [Ingresses -> Nat] /\ offered \in [Ingresses -> Nat]
        /\ taken \in [Ingresses -> Nat] /\ faults \in Nat
    BY DEF Init
  <2>. QED
    BY <2>1, <2>2 DEF Init, TypeOK
<1>2. ASSUME NEW i \in Ingresses PROVE Accounted(i) /\ Reasons(i)
  <2>1. /\ stored[i] = <<>> /\ read[i] = <<>> /\ Passed(i) = <<>> \o <<>> /\ Offering(i) = <<>>
    BY DEF Init, Passed, Offering, InHand
  <2>2. <<>> \o <<>> = <<>>
    BY Nothing DEF Messages
  <2>. QED
    BY <2>1, <2>2 DEF Init, Accounted, Kept, Reasons
<1>. QED
    BY <1>1, <1>2 DEF IndInv

LEMMA ReceiverTypes ==
    ASSUME IngestAssumption, TypeOK, NEW i \in Ingresses, ReceiverStep(i)
    PROVE  TypeOK'
<1> USE DEF TypeOK, Messages, At, Returns, OneFault, netVars, loopVars, runVars
<1>1. CASE Listen(i)
    BY <1>1 DEF Listen
<1>2. CASE ListenFails(i)
    BY <1>2 DEF ListenFails
<1>3. CASE ReadFrom(i)
  <2>1. Head(queue[i]) \in Nat /\ Tail(queue[i]) \in Seq(Nat)
    BY <1>3 DEF ReadFrom
  <2>2. Append(read[i], Head(queue[i])) \in Seq(Nat)
    BY <2>1
  <2>. QED
    BY <1>3, <2>1, <2>2 DEF ReadFrom
<1>4. CASE ReadEnds(i)
    BY <1>4 DEF ReadEnds
<1>5. CASE ReadFails(i)
    BY <1>5 DEF ReadFails
<1>6. CASE OfferStops(i)
    BY <1>6 DEF OfferStops
<1>7. CASE ReadBlank(i)
  <2>1. Tail(queue[i]) \in Seq(Nat)
    BY <1>7 DEF ReadBlank
  <2>. QED
    BY <1>7, <2>1 DEF ReadBlank, ingressVars
<1>. QED
    BY <1>1, <1>2, <1>3, <1>4, <1>5, <1>6, <1>7 DEF ReceiverStep

LEMMA LoopTypes ==
    ASSUME IngestAssumption, TypeOK, NEW i \in Ingresses, LoopStep(i)
    PROVE  TypeOK'
<1> USE DEF TypeOK, Messages, At, LoopReturns, OneFault, netVars, ingressVars, loopVars, runVars
<1>1. CASE Start(i)
    BY <1>1 DEF Start
<1>2. CASE Take(i)
    BY <1>2 DEF Take
<1>3. CASE Closed(i)
    BY <1>3 DEF Closed
<1>4. CASE Waited(i)
    BY <1>4 DEF Waited
<1>5. CASE LoopStops(i)
    BY <1>5 DEF LoopStops
<1>6. CASE Write(i)
  <2>1. Append(stored[i], taken[i]) \in Seq(Nat)
    OBVIOUS
  <2>. QED
    BY <1>6, <2>1 DEF Write
<1>7. CASE WriteFails(i)
    BY <1>7 DEF WriteFails
<1>. QED
    BY <1>1, <1>2, <1>3, <1>4, <1>5, <1>6, <1>7 DEF LoopStep

LEMMA TypesStep ==
    ASSUME IngestAssumption, TypeOK, [Next]_vars
    PROVE  TypeOK'
<1> USE DEF TypeOK, Messages, OneFault, netVars, ingressVars, loopVars, runVars
<1>1. ASSUME NEW i \in Ingresses, Arrive(i) PROVE TypeOK'
  <2>1. sent[i] + 1 \in Nat /\ sent'[i] = sent[i] + 1
    BY <1>1 DEF Arrive
  <2>2. \A m \in {sent'[i], Blank} : Append(queue[i], m) \in Seq(Nat)
    BY <2>1 DEF Blank
  <2>3. sent' \in [Ingresses -> Nat]
    BY <1>1, <2>1 DEF Arrive
  <2>4. queue' \in [Ingresses -> Messages]
    <3>1. CASE queue' = queue
      BY <3>1
    <3>2. ASSUME NEW m \in {sent'[i], Blank}, queue' = [queue EXCEPT ![i] = Append(@, m)]
          PROVE  queue' \in [Ingresses -> Messages]
      BY <2>2, <3>2
    <3>. QED
      BY <1>1, <3>1, <3>2 DEF Arrive
  <2>5. UNCHANGED <<ingressVars, loopVars, runVars, faults>>
    BY <1>1 DEF Arrive
  <2>. QED
    BY <2>3, <2>4, <2>5
<1>2. ASSUME NEW i \in Ingresses, CloseSocket(i) PROVE TypeOK'
    BY <1>2 DEF CloseSocket, At
<1>3. CASE Cancel
    BY <1>3 DEF Cancel
<1>4. CASE Return
  <2>1. run' \in {"nil", "error"}
    BY <1>4 DEF Return
  <2>. QED
    BY <1>4, <2>1 DEF Return
<1>5. CASE Quiet \/ UNCHANGED vars
  <2>1. UNCHANGED vars
    BY <1>5 DEF Quiet
  <2>. QED
    BY <2>1 DEF vars
<1>. QED
    BY <1>1, <1>2, <1>3, <1>4, <1>5, ReceiverTypes, LoopTypes DEF Next

-----------------------------------------------------------------------------
\* A step changes the reasons of the ingress it is about, and the contexts of
\* others only in that it may end them.
LEMMA OthersReasons ==
    ASSUME NEW j \in Ingresses, Reasons(j), cancelled => cancelled',
           j \in ended' <=> j \in ended,
           socket'[j] = socket[j], recv'[j] = recv[j], result'[j] = result[j],
           loop'[j] = loop[j]
    PROVE  Reasons(j)'
BY DEF Reasons, Done

LEMMA ReasonsStep ==
    ASSUME TypeOK, \A i \in Ingresses : Reasons(i), [Next]_vars
    PROVE  \A i \in Ingresses : Reasons(i)'
<1>. TAKE j \in Ingresses
<1>. Reasons(j)
    OBVIOUS
<1>1. ASSUME NEW i \in Ingresses, ReceiverStep(i) PROVE Reasons(j)'
  <2> USE DEF TypeOK, At, Returns, loopVars, runVars
  <2>1. CASE i # j
    <3>1. /\ j \in ended' <=> j \in ended
          /\ socket'[j] = socket[j] /\ recv'[j] = recv[j] /\ result'[j] = result[j]
          /\ loop'[j] = loop[j] /\ cancelled' = cancelled
      BY <1>1, <2>1 DEF ReceiverStep, Listen, ListenFails, ReadFrom, ReadBlank, ReadEnds,
                        ReadFails, OfferStops, ingressVars
    <3>. QED
      BY <3>1, OthersReasons
  <2>2. CASE i = j
    <3>1. /\ recv[j] \notin {"idle", "ended"} /\ recv'[j] \in {"read", "offer", "ended"}
          /\ socket[j] = "closed" => socket'[j] \in {"open", "closed"}
          /\ socket'[j] = "closed" => socket[j] = "closed"
          /\ recv'[j] = "ended" => (result'[j] = "error" /\ j \in ended') \/ Done(j)
                                      \/ socket[j] = "closed"
          /\ j \in ended => j \in ended'
          /\ j \in ended' => j \in ended \/ result'[j] = "error"
          /\ result[j] = "error" => result'[j] = "error"
          /\ loop'[j] = loop[j] /\ cancelled' = cancelled
      BY <1>1, <2>2 DEF ReceiverStep, Listen, ListenFails, ReadFrom, ReadBlank, ReadEnds,
                        ReadFails, OfferStops, ingressVars
    <3>. QED
      BY <3>1 DEF Reasons, Done
  <2>. QED
    BY <2>1, <2>2
<1>2. ASSUME NEW i \in Ingresses, LoopStep(i) PROVE Reasons(j)'
  <2> USE DEF TypeOK, At, LoopReturns, ingressVars
  <2>1. CASE i # j
    <3>1. /\ j \in ended' <=> j \in ended
          /\ socket'[j] = socket[j] /\ recv'[j] = recv[j] /\ result'[j] = result[j]
          /\ loop'[j] = loop[j]
          /\ cancelled => cancelled'
      BY <1>2, <2>1 DEF LoopStep, Start, Take, Closed, Waited, LoopStops, Write, WriteFails,
                        runVars
    <3>. QED
      BY <3>1, OthersReasons
  <2>2. CASE i = j /\ ~Waited(i)
    <3>1. /\ socket'[j] = socket[j] /\ result'[j] = result[j] /\ ended' = ended
          /\ recv'[j] = "ended" => recv[j] = "ended"
      BY <1>2, <2>2 DEF LoopStep, Start, Take, Closed, LoopStops, Write, WriteFails
    <3>2. /\ loop'[j] = "wait" => recv'[j] = "ended"
          /\ loop[j] # "ended" /\ loop'[j] # "start"
      BY <1>2, <2>2 DEF LoopStep, Start, Take, Closed, LoopStops, Write, WriteFails,
                        ChannelClosed
    <3>3. /\ loop'[j] = "ended" => cancelled'
          /\ cancelled => cancelled'
      BY <1>2, <2>2 DEF LoopStep, Start, Take, Closed, LoopStops, Write, WriteFails,
                        runVars
    <3>. QED
      BY <3>1, <3>2, <3>3 DEF Reasons, Done
  <2>3. CASE i = j /\ Waited(i)
    <3>1. /\ socket'[j] = socket[j] /\ result'[j] = result[j] /\ recv' = recv
          /\ loop[j] = "wait" /\ loop'[j] = "ended" /\ ended' = ended \cup {j}
          /\ cancelled' = (cancelled \/ result[j] = "error")
      BY <2>3 DEF Waited
    <3>2. cancelled'
      BY <3>1 DEF Reasons, Done
    <3>. QED
      BY <3>1, <3>2 DEF Reasons, Done
  <2>. QED
    BY <2>1, <2>2, <2>3
<1>3. ASSUME NEW i \in Ingresses, CloseSocket(i) PROVE Reasons(j)'
  <2>1. /\ Done(i) /\ socket' = [socket EXCEPT ![i] = "closed"]
        /\ UNCHANGED <<recv, result, ended, loop, cancelled>>
    BY <1>3 DEF CloseSocket, loopVars, runVars
  <2>2. socket'[j] = "closed" => socket[j] = "closed" \/ Done(j)
    BY <2>1 DEF TypeOK
  <2>. QED
    BY <2>1, <2>2 DEF Reasons, Done
<1>4. ASSUME NEW i \in Ingresses, Arrive(i) PROVE Reasons(j)'
    BY <1>4, OthersReasons DEF Arrive, ingressVars, loopVars, runVars
<1>5. CASE Cancel \/ Return
    BY <1>5, OthersReasons DEF Cancel, Return, ingressVars, loopVars
<1>6. CASE Quiet \/ UNCHANGED vars
  <2>1. UNCHANGED vars
    BY <1>6 DEF Quiet
  <2>. QED
    BY <2>1, OthersReasons DEF vars, ingressVars, loopVars, runVars
<1>. QED
    BY <1>1, <1>2, <1>3, <1>4, <1>5, <1>6 DEF Next

-----------------------------------------------------------------------------
(***************************************************************************)
(* Where each message is.                                                  *)
(***************************************************************************)
LEMMA SameAccount ==
    ASSUME NEW j \in Ingresses, Accounted(j),
           read'[j] = read[j], Passed(j)' = Passed(j), Offering(j)' = Offering(j),
           Done(j) => Done(j)', recv[j] = "ended" => recv'[j] = "ended",
           loop[j] = "ended" => loop'[j] = "ended"
    PROVE  Accounted(j)'
<1>1. Kept(j) => Kept(j)'
    BY DEF Kept
<1>2. Cut(j) => Cut(j)'
    BY DEF Cut
<1>. QED
    BY <1>1, <1>2 DEF Accounted

LEMMA ReadFromAccounts ==
    ASSUME TypeOK, NEW i \in Ingresses, Accounted(i), ReadFrom(i)
    PROVE  Accounted(i)'
<1> DEFINE m == Head(queue[i])
           P == Passed(i)
<1>1. /\ recv[i] = "read" /\ recv'[i] = "offer" /\ offered'[i] = m
      /\ queue[i] # <<>> /\ read'[i] = Append(read[i], m)
      /\ UNCHANGED <<loop, taken, stored, ended, cancelled>>
    BY DEF ReadFrom, At, TypeOK, loopVars, runVars
<1>2. m \in Nat /\ <<m>> \in Messages
    BY <1>1 DEF TypeOK, Messages
<1>3. Offering(i) = <<>> /\ Offering(i)' = <<m>> /\ Passed(i)' = P /\ Done(i)' = Done(i)
    BY <1>1 DEF Offering, Passed, InHand, Done
<1>4. P \in Messages /\ read[i] \in Messages
    BY HandsTyped
<1>5. read'[i] = read[i] \o <<m>>
    BY <1>1, <1>2, <1>4, AppendIsConcat DEF Messages
<1> HIDE DEF m, P
<1>6. CASE Kept(i)
  <2>1. read[i] = P
    BY <1>3, <1>4, <1>6, Nothing DEF Kept, P
  <2>. QED
    BY <1>3, <1>5, <2>1 DEF Accounted, Kept
<1>7. CASE Cut(i)
  <2>1. PICK rest \in Messages : read[i] = P \o rest
    BY <1>7 DEF Cut, P
  <2>2. (P \o rest) \o <<m>> = P \o (rest \o <<m>>)
    BY <1>2, <1>4, Regroup
  <2>3. rest \o <<m>> \in Messages
    BY <1>2, Joined
  <2>4. Done(i)' /\ loop'[i] = "ended"
    BY <1>1, <1>3, <1>7 DEF Cut
  <2>. QED
    BY <1>3, <1>5, <2>1, <2>2, <2>3, <2>4 DEF Accounted, Cut
<1>. QED
    BY <1>6, <1>7 DEF Accounted

LEMMA OfferStopsAccounts ==
    ASSUME TypeOK, NEW i \in Ingresses, Accounted(i), OfferStops(i)
    PROVE  Accounted(i)'
<1>1. /\ recv'[i] = "ended" /\ Done(i) /\ read' = read /\ ended \subseteq ended'
      /\ UNCHANGED <<loop, taken, stored, cancelled>>
    BY DEF OfferStops, Returns, At, TypeOK, loopVars, runVars
<1>2. Passed(i)' = Passed(i) /\ Done(i)'
    BY <1>1 DEF Passed, InHand, Done
<1>. QED
    BY <1>1, <1>2, SomethingPassed DEF Accounted, Cut

LEMMA TakeAccounts ==
    ASSUME TypeOK, NEW i \in Ingresses, Accounted(i), Take(i)
    PROVE  Accounted(i)'
<1>1. /\ loop[i] = "select" /\ loop'[i] = "write" /\ recv[i] = "offer" /\ recv'[i] = "read"
      /\ taken'[i] = offered[i] /\ UNCHANGED <<read, stored>>
    BY DEF Take, At, TypeOK
<1>2. /\ Passed(i) = stored[i] \o <<>> /\ Offering(i) = <<offered[i]>>
      /\ Passed(i)' = stored[i] \o <<offered[i]>> /\ Offering(i)' = <<>>
    BY <1>1 DEF Passed, Offering, InHand
<1>3. Kept(i)
    BY <1>1 DEF Accounted, Cut
<1>4. stored[i] \in Messages /\ <<offered[i]>> \in Messages
    BY DEF TypeOK, Messages
<1>5. /\ stored[i] \o <<>> = stored[i]
      /\ (stored[i] \o <<offered[i]>>) \o <<>> = stored[i] \o <<offered[i]>>
    BY <1>4, Nothing, Joined
<1>. QED
    BY <1>1, <1>2, <1>3, <1>5 DEF Accounted, Kept

LEMMA WriteAccounts ==
    ASSUME TypeOK, NEW i \in Ingresses, Accounted(i), Write(i)
    PROVE  Accounted(i)'
<1>1. /\ loop[i] = "write" /\ loop'[i] = "select" /\ stored'[i] = Append(stored[i], taken[i])
      /\ UNCHANGED <<read, recv, offered, ended, cancelled, taken>>
    BY DEF Write, At, TypeOK, ingressVars, runVars
<1>2. Passed(i) = stored[i] \o <<taken[i]>> /\ Passed(i)' = stored'[i] \o <<>>
    BY <1>1 DEF Passed, InHand
<1>3. stored[i] \in Messages /\ taken[i] \in Nat /\ <<taken[i]>> \in Messages
    BY DEF TypeOK, Messages
<1>4. stored'[i] = stored[i] \o <<taken[i]>>
    BY <1>1, <1>3, AppendIsConcat DEF Messages
<1>5. stored'[i] \o <<>> = stored'[i]
    BY <1>3, <1>4, Joined, Nothing
<1>6. Passed(i)' = Passed(i) /\ Offering(i)' = Offering(i) /\ Done(i)' = Done(i)
    BY <1>1, <1>2, <1>4, <1>5 DEF Offering, InHand, Done
<1>. QED
    BY <1>1, <1>6, SameAccount

LEMMA WriteFailsAccounts ==
    ASSUME TypeOK, NEW i \in Ingresses, Accounted(i), WriteFails(i)
    PROVE  Accounted(i)'
<1>1. /\ loop[i] = "write" /\ loop'[i] = "ended" /\ cancelled'
      /\ UNCHANGED <<read, stored>>
    BY DEF WriteFails, LoopReturns, At, TypeOK, ingressVars
<1>2. Passed(i) = stored[i] \o <<taken[i]>> /\ Passed(i)' = stored[i] \o <<>>
    BY <1>1 DEF Passed, InHand
<1>3. PICK rest \in Messages : read[i] = Passed(i) \o rest
    BY SomethingPassed
<1>4. stored[i] \in Messages /\ <<taken[i]>> \in Messages
    BY DEF TypeOK, Messages
<1>5. (stored[i] \o <<taken[i]>>) \o rest = stored[i] \o (<<taken[i]>> \o rest)
    BY <1>4, Regroup
<1>6. <<taken[i]>> \o rest \in Messages
    BY <1>4, Joined
<1>7. stored[i] \o <<>> = stored[i]
    BY <1>4, Nothing
<1>8. read'[i] = Passed(i)' \o (<<taken[i]>> \o rest)
    BY <1>1, <1>2, <1>3, <1>5, <1>7
<1>9. Done(i)'
    BY <1>1 DEF Done
<1>. QED
    BY <1>1, <1>6, <1>8, <1>9 DEF Accounted, Cut

\* A step that does not pass a message of the ingress on.
PassesNothing(i) ==
    /\ read'[i] = read[i] /\ stored'[i] = stored[i]
    /\ offered'[i] = offered[i] /\ taken'[i] = taken[i]
    /\ recv[i] = "offer" <=> recv'[i] = "offer"
    /\ loop[i] = "write" <=> loop'[i] = "write"
    /\ recv[i] = "ended" => recv'[i] = "ended"
    /\ loop[i] = "ended" => loop'[i] = "ended"
    /\ ended \subseteq ended'
    /\ cancelled => cancelled'

LEMMA PassesNothingAccounts ==
    ASSUME TypeOK, NEW i \in Ingresses, Accounted(i), PassesNothing(i)
    PROVE  Accounted(i)'
<1>1. Passed(i)' = Passed(i) /\ Offering(i)' = Offering(i)
    BY DEF PassesNothing, Passed, Offering, InHand
<1>2. Done(i) => Done(i)'
    BY DEF PassesNothing, Done
<1>. QED
    BY <1>1, <1>2, SameAccount DEF PassesNothing

LEMMA ReceiverPassesNothing ==
    ASSUME TypeOK, NEW i \in Ingresses, NEW j \in Ingresses, ReceiverStep(i),
           i # j \/ (~ReadFrom(i) /\ ~OfferStops(i))
    PROVE  PassesNothing(j)
<1> USE DEF PassesNothing, TypeOK, At, Returns, loopVars, runVars
<1>1. CASE Listen(i)
    BY <1>1 DEF Listen
<1>2. CASE ListenFails(i)
    BY <1>2 DEF ListenFails
<1>3. CASE ReadFrom(i)
    BY <1>3 DEF ReadFrom
<1>4. CASE ReadEnds(i)
    BY <1>4 DEF ReadEnds
<1>5. CASE ReadFails(i)
    BY <1>5 DEF ReadFails
<1>6. CASE OfferStops(i)
    BY <1>6 DEF OfferStops
<1>7. CASE ReadBlank(i)
    BY <1>7 DEF ReadBlank, ingressVars
<1>. QED
    BY <1>1, <1>2, <1>3, <1>4, <1>5, <1>6, <1>7 DEF ReceiverStep

LEMMA LoopPassesNothing ==
    ASSUME TypeOK, NEW i \in Ingresses, NEW j \in Ingresses, Reasons(j), LoopStep(i),
           i # j \/ (~Take(i) /\ ~Write(i) /\ ~WriteFails(i))
    PROVE  PassesNothing(j)
<1> USE DEF PassesNothing, TypeOK, At, LoopReturns, ingressVars, runVars
<1>1. CASE Start(i)
    BY <1>1 DEF Start, Reasons
<1>2. CASE Take(i)
    BY <1>2 DEF Take
<1>3. CASE Closed(i)
    BY <1>3 DEF Closed
<1>4. CASE Waited(i)
    BY <1>4 DEF Waited
<1>5. CASE LoopStops(i)
    BY <1>5 DEF LoopStops
<1>6. CASE Write(i)
    BY <1>6 DEF Write
<1>7. CASE WriteFails(i)
    BY <1>7 DEF WriteFails
<1>. QED
    BY <1>1, <1>2, <1>3, <1>4, <1>5, <1>6, <1>7 DEF LoopStep

LEMMA AccountedStep ==
    ASSUME TypeOK, \A i \in Ingresses : Accounted(i) /\ Reasons(i), [Next]_vars
    PROVE  \A i \in Ingresses : Accounted(i)'
<1>. TAKE j \in Ingresses
<1>. Accounted(j) /\ Reasons(j)
    OBVIOUS
<1>1. ASSUME NEW i \in Ingresses, ReceiverStep(i) PROVE Accounted(j)'
  <2>1. CASE i # j \/ (~ReadFrom(i) /\ ~OfferStops(i))
    BY <1>1, <2>1, ReceiverPassesNothing, PassesNothingAccounts
  <2>2. CASE i = j /\ ReadFrom(i)
    BY <2>2, ReadFromAccounts
  <2>3. CASE i = j /\ OfferStops(i)
    BY <2>3, OfferStopsAccounts
  <2>. QED
    BY <2>1, <2>2, <2>3
<1>2. ASSUME NEW i \in Ingresses, LoopStep(i) PROVE Accounted(j)'
  <2>1. CASE i # j \/ (~Take(i) /\ ~Write(i) /\ ~WriteFails(i))
    BY <1>2, <2>1, LoopPassesNothing, PassesNothingAccounts
  <2>2. CASE i = j /\ Take(i)
    BY <2>2, TakeAccounts
  <2>3. CASE i = j /\ Write(i)
    BY <2>3, WriteAccounts
  <2>4. CASE i = j /\ WriteFails(i)
    BY <2>4, WriteFailsAccounts
  <2>. QED
    BY <2>1, <2>2, <2>3, <2>4
<1>3. ASSUME NEW i \in Ingresses, CloseSocket(i) \/ Arrive(i) PROVE Accounted(j)'
  <2>1. PassesNothing(j)
    BY <1>3 DEF CloseSocket, Arrive, At, PassesNothing, ingressVars, loopVars, runVars
  <2>. QED
    BY <2>1, PassesNothingAccounts
<1>4. CASE Cancel \/ Return \/ Quiet \/ UNCHANGED vars
  <2>1. PassesNothing(j)
    BY <1>4 DEF Cancel, Return, Quiet, vars, PassesNothing, ingressVars, loopVars, runVars
  <2>. QED
    BY <2>1, PassesNothingAccounts
<1>. QED
    BY <1>1, <1>2, <1>3, <1>4 DEF Next

-----------------------------------------------------------------------------
(***************************************************************************)
(* The theorems.                                                           *)
(***************************************************************************)
\* Each message that was read is stored, in one of two hands, or lost after the
\* context was done; goroutines end for a reason: udp.go, Server.Run.
THEOREM Inductive == Spec => []IndInv
<1>1. Init => IndInv
    BY InitInv, IngestAssumption
<1>2. IndInv /\ [Next]_vars => IndInv'
  <2>. SUFFICES ASSUME IndInv, [Next]_vars PROVE IndInv'
    OBVIOUS
  <2>1. TypeOK'
    BY TypesStep, IngestAssumption DEF IndInv
  <2>2. \A i \in Ingresses : Accounted(i)'
    BY AccountedStep DEF IndInv
  <2>3. \A i \in Ingresses : Reasons(i)'
    BY ReasonsStep DEF IndInv
  <2>. QED
    BY <2>1, <2>2, <2>3 DEF IndInv
<1>. QED
    BY <1>1, <1>2, PTL DEF Spec

\* Every variable keeps its type, and every open socket has a goroutine that
\* will close it.
THEOREM TypeCorrect == Spec => []TypeOK
<1>1. IndInv => TypeOK
    BY DEF IndInv
<1>. QED
    BY <1>1, Inductive, PTL

\* What is stored of an ingress is what was read from its socket, in order and
\* without a gap, also when a Write fails or the agent stops.
THEOREM StoredAsRead == Spec => []StoredInOrder
<1>1. IndInv => StoredInOrder
  <2>. SUFFICES ASSUME IndInv, NEW i \in Ingresses PROVE IsPrefix(stored[i], read[i])
    BY DEF StoredInOrder
  <2> DEFINE s == stored[i]
             h == InHand(loop[i], "write", taken[i])
  <2>1. s \in Messages /\ h \in Messages
    BY HandsTyped DEF IndInv
  <2>2. PICK rest \in Messages : read[i] = (s \o h) \o rest
    BY SomethingPassed DEF IndInv, Passed
  <2> HIDE DEF s, h
  <2>3. read[i] = s \o (h \o rest) /\ h \o rest \in Messages
    BY <2>1, <2>2, Regroup, Joined
  <2>4. IsPrefix(s, read[i])
    BY <2>1, <2>3, Joined
  <2>. QED
    BY <2>4 DEF s
<1>. QED
    BY <1>1, Inductive, PTL

\* Until its context is done an ingress loses nothing that it has read: every
\* message is stored, being written, or being offered on the channel.
THEOREM NothingLost == Spec => []NoneLost
<1>1. IndInv => NoneLost
    BY DEF IndInv, Accounted, Kept, Cut, Passed, Offering, NoneLost
<1>. QED
    BY <1>1, Inductive, PTL

\* Server.Run returns only once the agent is to stop: an ingress that cannot
\* listen or read ends the context with its error.
THEOREM RunsOn == Spec => RunsUntilStopped
<1>1. IndInv /\ [Next]_vars => (run' # run => cancelled \/ Ingresses = {})
  <2>. SUFFICES ASSUME IndInv, [Next]_vars, run' # run PROVE cancelled \/ Ingresses = {}
    OBVIOUS
  <2>1. Return
    BY DEF Next, Arrive, CloseSocket, Cancel, Quiet, ReceiverStep, Listen, ListenFails,
           ReadFrom, ReadBlank, ReadEnds, ReadFails, OfferStops, LoopStep, Start, Take, Closed,
           Waited, LoopStops, Write, WriteFails, LoopReturns, runVars, vars
  <2>2. \A i \in Ingresses : loop[i] = "ended" /\ Reasons(i)
    BY <2>1 DEF Return, IndInv
  <2>. QED
    BY <2>2 DEF Reasons
<1>. QED
    BY <1>1, Inductive, PTL DEF Spec, RunsUntilStopped
=============================================================================
