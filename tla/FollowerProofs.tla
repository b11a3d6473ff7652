--------------------------- MODULE FollowerProofs ---------------------------
(***************************************************************************)
(* NodeRead implements Follower: what a client gets of its queries is what *)
(* it would get of the log itself.  Added to IndInv are what a reply names *)
(* (Replied) and where the records and rows of the agent are from          *)
(* (Sourced).                                                              *)
(***************************************************************************)
EXTENDS NodeReadProofs

USE DEF envVars, clientVars, handlerVars, downVars, proxyVars, upVars, agentVars, scanVars,
        ghostVars, countVars, edgeVars

\* A reply has rows, and its offset is that of the last record it accounts for.
Named(r) == r.rows # <<>> /\ r.acc # <<>> /\ r.offset = Last(r.acc)
AllNamed(q) == \A k \in 1 .. Len(q) : Named(q[k])
Replied ==
    /\ AllNamed(up) /\ AllNamed(down)
    /\ hpc = "write" => Named(hhold)
    /\ ppc = "send" => Named(phold)
    /\ apc = "flush" => acc # <<>> /\ pos = Last(acc) + 1

\* Every element of s is one of t.
Among(s, t) == \A i \in DOMAIN s : \E j \in DOMAIN t : s[i] = t[j]
Sourced == Below(given, stored) /\ Below(chunk, stored) /\ Among(produced, given)

-----------------------------------------------------------------------------
(***************************************************************************)
(* Sequences of replies, and of seqs.                                      *)
(***************************************************************************)
LEMMA NamedTail ==
    ASSUME NEW q \in Seq(Reply), q # <<>>, AllNamed(q)
    PROVE  Named(Head(q)) /\ AllNamed(Tail(q))
<1>1. /\ Len(q) \in Nat /\ Len(q) # 0 /\ Head(q) = q[1] /\ Len(Tail(q)) = Len(q) - 1
      /\ \A k \in 1 .. Len(Tail(q)) : Tail(q)[k] = q[k + 1]
    BY HeadTailProperties, LenProperties, EmptySeq
<1>2. \A k \in 1 .. Len(Tail(q)) : k + 1 \in 1 .. Len(q)
    BY <1>1
<1>3. 1 \in 1 .. Len(q)
    BY <1>1
<1>. QED
    BY <1>1, <1>2, <1>3 DEF AllNamed

LEMMA NamedAppend ==
    ASSUME NEW q \in Seq(Reply), NEW r \in Reply, AllNamed(q), Named(r)
    PROVE  AllNamed(Append(q, r))
<1>1. /\ Len(q) \in Nat /\ Len(Append(q, r)) = Len(q) + 1
      /\ \A k \in 1 .. Len(q) : Append(q, r)[k] = q[k]
      /\ Append(q, r)[Len(q) + 1] = r
    BY AppendProperties, LenProperties
<1>. QED
    BY <1>1 DEF AllNamed

LEMMA NamedCut ==
    ASSUME NEW q \in Seq(Reply), NEW rest \in Seq(Reply), AllNamed(q \o rest)
    PROVE  AllNamed(q)
<1>1. /\ Len(q) \in Nat /\ Len(rest) \in Nat /\ Len(q \o rest) = Len(q) + Len(rest)
      /\ \A k \in 1 .. Len(q) : (q \o rest)[k] = q[k]
    BY Joined, LenProperties
<1>. QED
    BY <1>1 DEF AllNamed

LEMMA LastOfJoined ==
    ASSUME NEW s \in Seq(Nat), NEW t \in Seq(Nat), t # <<>>
    PROVE  s \o t # <<>> /\ Last(s \o t) = Last(t)
<1>1. /\ s \o t \in Seq(Nat) /\ Len(s \o t) = Len(s) + Len(t)
      /\ \A k \in 1 .. Len(t) : (s \o t)[Len(s) + k] = t[k]
    BY Joined
<1>2. Len(s) \in Nat /\ Len(t) \in Nat /\ Len(t) # 0
    BY LenProperties, EmptySeq
<1>3. Len(t) \in 1 .. Len(t) /\ Len(s \o t) # 0
    BY <1>1, <1>2
<1>. QED
    BY <1>1, <1>3, EmptySeq DEF Last

LEMMA AmongGrows ==
    ASSUME NEW p \in Seq(Nat), NEW w \in Seq(Nat), NEW g \in Seq(Nat), NEW c \in Seq(Nat),
           Among(p, g), Among(w, c)
    PROVE  Among(p \o w, g \o c)
<1>1. /\ Len(p) \in Nat /\ DOMAIN p = 1 .. Len(p) /\ Len(w) \in Nat /\ DOMAIN w = 1 .. Len(w)
      /\ Len(g) \in Nat /\ DOMAIN g = 1 .. Len(g) /\ Len(c) \in Nat /\ DOMAIN c = 1 .. Len(c)
    BY Seqs
<1>2. /\ DOMAIN (p \o w) = 1 .. Len(p) + Len(w)
      /\ \A k \in 1 .. Len(p) : (p \o w)[k] = p[k]
      /\ \A k \in 1 .. Len(w) : (p \o w)[Len(p) + k] = w[k]
    BY Joined
<1>3. /\ DOMAIN (g \o c) = 1 .. Len(g) + Len(c)
      /\ \A k \in 1 .. Len(g) : (g \o c)[k] = g[k]
      /\ \A k \in 1 .. Len(c) : (g \o c)[Len(g) + k] = c[k]
    BY Joined
<1>4. SUFFICES ASSUME NEW i \in 1 .. Len(p) + Len(w)
               PROVE  \E j \in DOMAIN (g \o c) : (p \o w)[i] = (g \o c)[j]
    BY <1>2 DEF Among
<1>5. CASE i <= Len(p)
  <2>1. i \in 1 .. Len(p)
    BY <1>1, <1>5
  <2>2. PICK j \in 1 .. Len(g) : p[i] = g[j]
    BY <1>1, <2>1 DEF Among
  <2>3. j \in 1 .. Len(g) + Len(c) /\ (p \o w)[i] = (g \o c)[j]
    BY <1>1, <1>2, <1>3, <2>1, <2>2
  <2>. QED
    BY <1>3, <2>3
<1>6. CASE i > Len(p)
  <2>1. i - Len(p) \in 1 .. Len(w) /\ Len(p) + (i - Len(p)) = i
    BY <1>1, <1>6
  <2>2. PICK j \in 1 .. Len(c) : w[i - Len(p)] = c[j]
    BY <1>1, <2>1 DEF Among
  <2>3. Len(g) + j \in 1 .. Len(g) + Len(c)
    BY <1>1, <2>2
  <2>4. (p \o w)[i] = (g \o c)[Len(g) + j]
    BY <1>2, <1>3, <2>1, <2>2
  <2>. QED
    BY <1>3, <2>3, <2>4
<1>. QED
    BY <1>1, <1>5, <1>6

\* Of two cuts of t the earlier is a prefix of the later one, and what the
\* later one has beyond it is between their offsets.
LEMMA TwoCuts ==
    ASSUME NEW a \in Seq(Nat), NEW b \in Seq(Nat), NEW t \in Seq(Nat),
           NEW o \in Int, NEW m \in Int, o <= m, UpTo(a, t, o), UpTo(b, t, m)
    PROVE  /\ IsPrefix(a, b)
           /\ \A i \in Len(a) + 1 .. Len(b) :
                 i \in 1 .. Len(t) /\ b[i] = t[i] /\ o < t[i] /\ t[i] <= m
<1>1. /\ Len(a) \in Nat /\ Len(b) \in Nat /\ Len(t) \in Nat
      /\ \A i \in 1 .. Len(t) : t[i] \in Nat
    BY Seqs
<1>2. /\ Len(a) <= Len(t) /\ \A k \in 1 .. Len(a) : a[k] = t[k]
      /\ \A i \in 1 .. Len(t) : i <= Len(a) <=> t[i] <= o
    BY Cut
<1>3. /\ Len(b) <= Len(t) /\ \A k \in 1 .. Len(b) : b[k] = t[k]
      /\ \A i \in 1 .. Len(t) : i <= Len(b) <=> t[i] <= m
    BY Cut
<1>4. Len(a) <= Len(b)
  <2>1. CASE Len(a) = 0
    BY <1>1, <2>1
  <2>2. CASE Len(a) # 0
    <3>1. Len(a) \in 1 .. Len(t) /\ t[Len(a)] \in Nat
      BY <1>1, <1>2, <2>2
    <3>2. t[Len(a)] <= o
      BY <1>1, <1>2, <3>1
    <3>3. t[Len(a)] <= m
      BY <3>1, <3>2
    <3>. QED
      BY <1>3, <3>1, <3>3
  <2>. QED
    BY <2>1, <2>2
<1>5. IsPrefix(a, b)
  <2>1. \A k \in 1 .. Len(a) : k \in 1 .. Len(b)
    BY <1>1, <1>4
  <2>2. \A k \in 1 .. Len(a) : a[k] = b[k]
    BY <1>2, <1>3, <2>1
  <2>. QED
    BY <1>4, <2>2, Prefix
<1>6. ASSUME NEW i \in Len(a) + 1 .. Len(b)
      PROVE  i \in 1 .. Len(t) /\ b[i] = t[i] /\ o < t[i] /\ t[i] <= m
  <2>1. i \in 1 .. Len(b) /\ i \in 1 .. Len(t) /\ ~(i <= Len(a)) /\ i <= Len(b)
    <3>1. \A x, y, z, j \in Int : y <= z /\ 0 <= x /\ x + 1 <= j /\ j <= y =>
              1 <= j /\ j <= z /\ ~(j <= x)
      OBVIOUS
    <3>2. i \in Int /\ Len(a) + 1 <= i /\ i <= Len(b)
      BY <1>1
    <3>. QED
      BY <1>1, <1>3, <3>1, <3>2
  <2>2. t[i] \in Nat /\ ~(t[i] <= o) /\ t[i] <= m
    BY <1>1, <1>2, <1>3, <2>1
  <2>3. o < t[i]
    BY <2>2
  <2>. QED
    BY <1>3, <2>1, <2>2, <2>3
<1>. QED
    BY <1>5, <1>6

-----------------------------------------------------------------------------
(***************************************************************************)
(* The invariants.                                                         *)
(***************************************************************************)
LEMMA LostReplied ==
    ASSUME TypeOK, Replied, ConnectionLost
    PROVE  AllNamed(up')
<1>1. PICK rest \in Seq(Reply) : up = up' \o rest
    BY LostKeeps
<1>2. up' \in Seq(Reply)
    BY LostTypes
<1>3. AllNamed(up' \o rest)
    BY <1>1 DEF Replied
<1>. QED
    BY <1>2, <1>3, NamedCut

LEMMA RepliedStep ==
    ASSUME IndInv, Replied, [Next]_vars
    PROVE  Replied'
<1> USE DEF OneFault
<1>0. /\ TypeOK /\ up \in Seq(Reply) /\ down \in Seq(Reply) /\ hhold \in Reply /\ phold \in Reply
      /\ acc \in Seq(Nat) /\ out \in Seq(Nat) /\ chunk \in Seq(Nat) /\ pos \in Nat
    BY DEF IndInv, TypeOK, EdgeType, AgentType
<1>1. ASSUME ConnectionLost PROVE AllNamed(up')
    BY <1>0, <1>1, LostReplied
<1>2. CASE Ask
    BY <1>2 DEF Ask, Replied, AllNamed
<1>3. CASE ClientLeaves \/ Stores \/ NodeReturns
    BY <1>3 DEF ClientLeaves, Stores, NodeReturns, Replied
<1>4. CASE LinkDies
    BY <1>1, <1>4 DEF LinkDies, Replied
<1>5. CASE AgentCrashes \/ WatchPanics
    BY <1>1, <1>5 DEF AgentCrashes, WatchPanics, AgentGone, Replied
<1>6. CASE HandlerRecvs
  <2>1. Named(Head(down)) /\ AllNamed(Tail(down))
    BY <1>0, <1>6, NamedTail DEF HandlerRecvs, Replied
  <2>. QED
    BY <1>6, <2>1 DEF HandlerRecvs, Replied
<1>7. CASE \/ HandlerMakes \/ HandlerCannot \/ HandlerReads \/ HandlerWrites
           \/ HandlerWriteFails \/ HandlerReturns
    BY <1>7 DEF HandlerMakes, HandlerCannot, HandlerReads, HandlerWrites, HandlerWriteFails,
                HandlerReturns, Replied
<1>8. CASE ProxyRecvs
  <2>1. Named(Head(up)) /\ AllNamed(Tail(up))
    BY <1>0, <1>8, NamedTail DEF ProxyRecvs, Replied
  <2>. QED
    BY <1>8, <2>1 DEF ProxyRecvs, Replied
<1>9. CASE ProxySends
  <2>1. AllNamed(Append(down, phold))
    BY <1>0, <1>9, NamedAppend DEF ProxySends, Replied
  <2>. QED
    BY <1>9, <2>1 DEF ProxySends, Replied
<1>10. CASE ProxyOpens \/ ProxyCannot \/ ProxyEnds \/ ProxyStops
    BY <1>10 DEF ProxyOpens, ProxyCannot, ProxyEnds, ProxyReturns, ProxyStops, Replied
<1>11. CASE Take
  <2>1. acc' = acc \o chunk /\ pos' = Last(chunk) + 1
    BY <1>11 DEF Take, After
  <2>2. chunk # <<>>
    BY <1>11 DEF Take, IndInv, Upwards
  <2>3. acc' # <<>> /\ Last(acc') = Last(chunk)
    BY <1>0, <2>1, <2>2, LastOfJoined
  <2>. QED
    BY <1>11, <2>1, <2>3 DEF Take, Replied
<1>12. CASE Flush
  <2> DEFINE r == [rows |-> out, acc |-> acc, offset |-> pos - 1]
  <2>1. r \in Reply /\ up' \in {up, Append(up, r)}
    BY <1>0, <1>12, ReplyTyped DEF Flush
  <2>2. Named(r)
    <3>1. out # <<>> /\ acc # <<>> /\ pos = Last(acc) + 1
      BY <1>12 DEF Flush, Replied
    <3>2. Last(acc) \in Nat
      BY <1>0, <3>1, Seqs, EmptySeq DEF Last
    <3>3. pos - 1 = Last(acc)
      BY <3>1, <3>2
    <3>. QED
      BY <3>1, <3>3 DEF Named
  <2> HIDE DEF r
  <2>3. AllNamed(up')
    BY <1>0, <2>1, <2>2, NamedAppend DEF Replied
  <2>. QED
    BY <1>12, <2>3 DEF Flush, Replied
<1>13. CASE \/ AgentReads \/ FlushNothing \/ FlushFails \/ AgentEnds \/ AgentWatches
            \/ TransformFails
    BY <1>13 DEF AgentReads, FlushNothing, FlushFails, AgentEnds, AgentWatches, TransformFails,
                 AgentReturns, Replied
<1>14. CASE ScanStep
    BY <1>14 DEF ScanStep, ScanGives, ScanEnds, ScanFails, SendStops, ScanReturns, Replied
<1>15. CASE UNCHANGED vars
    BY <1>15 DEF vars, Replied
<1>. QED
    BY <1>2, <1>3, <1>4, <1>5, <1>6, <1>7, <1>8, <1>9, <1>10, <1>11, <1>12, <1>13, <1>14, <1>15
    DEF Next, HandlerStep, ProxyStep, AgentStep, Rest

\* A client that asks again gives the agent a cut of what it had: the rows are
\* still those of the records.
LEMMA AskSourced ==
    ASSUME IndInv, Sourced, Ask
    PROVE  Sourced'
<1>1. /\ have.rows \in Seq(Nat) /\ have.acc \in Seq(Nat) /\ have.offset \in Int
      /\ given \in Seq(Nat) /\ produced \in Seq(Nat) /\ stored \in Nat
    BY ReplyTyped DEF IndInv, TypeOK, ClientType, AgentType
<1>2. /\ given' = have.acc /\ produced' = have.rows /\ chunk' = <<>> /\ stored' = stored
    BY DEF Ask
<1>3. /\ Len(have.acc) \in Nat /\ DOMAIN have.acc = 1 .. Len(have.acc)
      /\ DOMAIN have.rows = 1 .. Len(have.rows) /\ Len(have.rows) \in Nat
      /\ DOMAIN given = 1 .. Len(given) /\ DOMAIN produced = 1 .. Len(produced)
      /\ Len(given) \in Nat /\ Len(produced) \in Nat
    BY <1>1, Seqs
<1>4. /\ Len(have.acc) <= Len(given) /\ \A k \in 1 .. Len(have.acc) : have.acc[k] = given[k]
      /\ \A i \in 1 .. Len(given) : i <= Len(have.acc) <=> given[i] <= have.offset
    BY <1>1, Cut DEF IndInv, Kept, CutAtOffset
<1>5. /\ Len(have.rows) <= Len(produced)
      /\ \A k \in 1 .. Len(have.rows) : have.rows[k] = produced[k]
      /\ \A i \in 1 .. Len(produced) : i <= Len(have.rows) <=> produced[i] <= have.offset
    BY <1>1, Cut DEF IndInv, Kept, CutAtOffset
<1>6. Below(have.acc, stored)
    BY <1>3, <1>4 DEF Sourced, Below
<1>7. ASSUME NEW i \in 1 .. Len(have.rows)
      PROVE  \E j \in 1 .. Len(have.acc) : have.rows[i] = have.acc[j]
  <2>1. i \in 1 .. Len(produced) /\ produced[i] <= have.offset /\ have.rows[i] = produced[i]
    BY <1>3, <1>5
  <2>2. PICK j \in 1 .. Len(given) : produced[i] = given[j]
    BY <1>3, <2>1 DEF Sourced, Among
  <2>3. j <= Len(have.acc)
    BY <1>4, <2>1, <2>2
  <2>4. j \in 1 .. Len(have.acc)
    BY <1>3, <2>2, <2>3
  <2>. QED
    BY <1>4, <2>1, <2>2, <2>4
<1>8. Below(<<>>, stored)
    BY DEF Below
<1>. QED
    BY <1>2, <1>3, <1>6, <1>7, <1>8 DEF Sourced, Among

LEMMA SourcedStep ==
    ASSUME IndInv, Sourced, [Next]_vars
    PROVE  Sourced'
<1> USE DEF OneFault
<1>0. /\ TypeOK /\ given \in Seq(Nat) /\ produced \in Seq(Nat) /\ chunk \in Seq(Nat)
      /\ stored \in Nat /\ spos \in Nat
    BY DEF IndInv, TypeOK, ClientType, AgentType
<1>1. Below(<<>>, stored)
    BY DEF Below
<1>2. CASE Ask
    BY <1>2, AskSourced
<1>3. CASE Stores
  <2>1. \A t \in Seq(Nat) : Below(t, stored) => Below(t, stored + 1)
    BY <1>0, Seqs DEF Below
  <2>. QED
    BY <1>0, <1>3, <2>1 DEF Stores, Sourced
<1>4. CASE Take
  <2>1. PICK rows \in RowsOf(chunk) : produced' = produced \o rows
    BY <1>4 DEF Take
  <2>2. rows \in Seq(Nat) /\ Among(rows, chunk)
    BY <1>0, <2>1, RowsTyped DEF Among
  <2>3. Among(produced \o rows, given \o chunk)
    BY <1>0, <2>2, AmongGrows DEF Sourced
  <2>4. Below(given \o chunk, stored)
    <3>1. /\ Len(given) \in Nat /\ DOMAIN given = 1 .. Len(given)
          /\ Len(chunk) \in Nat /\ DOMAIN chunk = 1 .. Len(chunk)
      BY <1>0, Seqs
    <3>2. /\ DOMAIN (given \o chunk) = 1 .. Len(given) + Len(chunk)
          /\ \A k \in 1 .. Len(given) : (given \o chunk)[k] = given[k]
          /\ \A k \in 1 .. Len(chunk) : (given \o chunk)[Len(given) + k] = chunk[k]
      BY <1>0, Joined
    <3>3. SUFFICES ASSUME NEW i \in 1 .. Len(given) + Len(chunk)
                   PROVE  (given \o chunk)[i] < stored
      BY <3>2 DEF Below
    <3>4. CASE i <= Len(given)
      BY <3>1, <3>2, <3>4 DEF Sourced, Below
    <3>5. CASE i > Len(given)
      <4>1. i - Len(given) \in 1 .. Len(chunk) /\ Len(given) + (i - Len(given)) = i
        BY <3>1, <3>5
      <4>2. (given \o chunk)[i] = chunk[i - Len(given)]
        BY <3>2, <4>1
      <4>. QED
        BY <3>1, <4>1, <4>2 DEF Sourced, Below
    <3>. QED
      BY <3>1, <3>4, <3>5
  <2>. QED
    BY <1>1, <1>4, <2>1, <2>3, <2>4 DEF Take, Sourced
<1>5. CASE ScanGives
  <2>1. PICK from \in spos .. end - 1, n \in 1 .. BatchSize :
          from + n <= stored /\ chunk' = [i \in 1 .. n |-> from + i - 1]
    BY <1>5 DEF ScanGives
  <2>2. from \in Int /\ n \in Int
    BY <1>0, <2>1 DEF TypeOK, ClientType
  <2>3. Below(chunk', stored)
    BY <1>0, <2>1, <2>2 DEF Below
  <2>. QED
    BY <1>5, <2>3 DEF ScanGives, Sourced
<1>6. CASE AgentCrashes \/ WatchPanics
    BY <1>1, <1>6 DEF AgentCrashes, WatchPanics, AgentGone, Sourced
<1>7. CASE ClientLeaves \/ LinkDies \/ NodeReturns \/ HandlerStep
    BY <1>7 DEF ClientLeaves, LinkDies, NodeReturns, HandlerStep, HandlerMakes, HandlerCannot,
                HandlerReads, HandlerRecvs, HandlerWrites, HandlerWriteFails, HandlerReturns,
                Sourced
<1>8. CASE ProxyStep
    BY <1>8 DEF ProxyStep, ProxyOpens, ProxyCannot, ProxyEnds, ProxyReturns, ProxyStops,
                ProxyRecvs, ProxySends, Sourced
<1>9. CASE AgentReads \/ FlushNothing \/ Flush \/ FlushFails \/ AgentEnds \/ AgentWatches
    BY <1>9 DEF AgentReads, FlushNothing, Flush, FlushFails, AgentEnds, AgentWatches,
                AgentReturns, Sourced
<1>10. CASE TransformFails \/ ScanEnds \/ ScanFails \/ SendStops
    BY <1>1, <1>10 DEF TransformFails, ScanEnds, ScanFails, SendStops, ScanReturns, Sourced
<1>11. CASE UNCHANGED vars
    BY <1>11 DEF vars, Sourced
<1>. QED
    BY <1>2, <1>3, <1>4, <1>5, <1>6, <1>7, <1>8, <1>9, <1>10, <1>11
    DEF Next, AgentStep, ScanStep, Rest

-----------------------------------------------------------------------------
(***************************************************************************)
(* The refinement.                                                         *)
(***************************************************************************)
\* The first reply on its way brings the client from its offset to a later one.
LEMMA NextReply ==
    ASSUME IndInv, Replied, HandlerWrites, client = "here"
    PROVE  /\ hhold \in Reply /\ Named(hhold) /\ UpTo(hhold.acc, given, hhold.offset)
           /\ have'.acc = hhold.acc /\ have'.offset = hhold.offset
           /\ have'.rows = have.rows \o hhold.rows
           /\ UpTo(have'.rows, produced, hhold.offset)
           /\ have.offset < hhold.offset
<1>1. /\ hhold \in Reply /\ have \in Reply /\ hpc = "write"
      /\ down \in Seq(Reply) /\ AtProxy \in Seq(Reply)
    BY WireTyped DEF IndInv, TypeOK, ClientType, EdgeType, HandlerWrites
<1>2. /\ hhold.rows \in Seq(Nat) /\ have.rows \in Seq(Nat) /\ produced \in Seq(Nat)
      /\ hhold.offset \in Int /\ have.offset \in Int
    BY <1>1, ReplyTyped DEF IndInv, TypeOK, AgentType
<1>3. /\ have'.acc = hhold.acc /\ have'.offset = hhold.offset
      /\ have'.rows = have.rows \o hhold.rows
  <2>1. have' = [hhold EXCEPT !.rows = have.rows \o hhold.rows]
    BY DEF HandlerWrites
  <2>. QED
    BY <1>1, <2>1 DEF Reply
<1>4. Fits(have.offset, hhold, given, produced, pos)
  <2>1. Live
    BY <1>1 DEF Live, HandlerEnded
  <2>2. Chain(Wire, have.offset, given, produced, pos)
    BY <2>1 DEF IndInv, Coming
  <2>3. <<hhold>> \in Seq(Reply) /\ AtHandler = <<hhold>> \o down
    BY <1>1 DEF AtHandler, Held
  <2>4. Wire = <<hhold>> \o (down \o AtProxy)
    BY <1>1, <2>3, Regroup DEF Wire
  <2>5. down \o AtProxy \in Seq(Reply)
    BY <1>1, Joined
  <2>. QED
    BY <1>1, <2>2, <2>4, <2>5, ChainTail
<1>5. Named(hhold)
    BY <1>1 DEF Replied
<1>6. UpTo(have.rows, produced, have.offset)
    BY DEF IndInv, Kept, CutAtOffset
<1>7. UpTo(have'.rows, produced, hhold.offset)
    BY <1>2, <1>3, <1>4, <1>6 DEF Fits
<1>8. have.offset < hhold.offset
  <2> DEFINE k == Len(have.rows) + 1
  <2>1. /\ Len(have.rows) \in Nat /\ Len(hhold.rows) \in Nat /\ Len(hhold.rows) # 0
    BY <1>2, <1>5, LenProperties, EmptySeq DEF Named
  <2>2. have'.rows \in Seq(Nat) /\ Len(have'.rows) = Len(have.rows) + Len(hhold.rows)
    BY <1>2, <1>3, Joined
  <2>3. /\ Len(have'.rows) <= Len(produced)
        /\ \A i \in 1 .. Len(produced) : i <= Len(have'.rows) <=> produced[i] <= hhold.offset
    BY <1>2, <1>7, <2>2, Cut
  <2>4. \A i \in 1 .. Len(produced) : i <= Len(have.rows) <=> produced[i] <= have.offset
    BY <1>2, <1>6, Cut
  <2>5. Len(produced) \in Nat /\ \A i \in 1 .. Len(produced) : produced[i] \in Nat
    BY <1>2, Seqs
  <2>6. k \in 1 .. Len(produced) /\ k <= Len(have'.rows) /\ ~(k <= Len(have.rows))
    <3>1. \A a, b, c, d \in Nat : b # 0 /\ c = a + b /\ c <= d =>
              a + 1 \in 1 .. d /\ a + 1 <= c /\ ~(a + 1 <= a)
      OBVIOUS
    <3>2. Len(have'.rows) \in Nat
      BY <2>2, LenProperties
    <3>. QED
      BY <2>1, <2>2, <2>3, <2>5, <3>1, <3>2
  <2> HIDE DEF k
  <2>7. produced[k] \in Nat /\ produced[k] <= hhold.offset /\ ~(produced[k] <= have.offset)
    BY <2>3, <2>4, <2>5, <2>6
  <2>. QED
    BY <1>2, <2>7
<1>. QED
    BY <1>1, <1>3, <1>4, <1>5, <1>7, <1>8 DEF Fits

LEMMA WriteReceives ==
    ASSUME IndInv, Replied, Sourced, HandlerWrites, client = "here"
    PROVE  Feed!Receives
<1> DEFINE o == have.offset
           m == hhold.offset
<1>1. /\ hhold \in Reply /\ have \in Reply /\ have.rows \in Seq(Nat) /\ have.acc \in Seq(Nat)
      /\ hhold.rows \in Seq(Nat) /\ hhold.acc \in Seq(Nat) /\ o \in Int /\ m \in Int
      /\ given \in Seq(Nat) /\ produced \in Seq(Nat) /\ stored \in Nat
    BY ReplyTyped DEF IndInv, TypeOK, ClientType, EdgeType, AgentType
<1>2. /\ Named(hhold) /\ UpTo(hhold.acc, given, m) /\ have'.acc = hhold.acc /\ have'.offset = m
      /\ have'.rows = have.rows \o hhold.rows /\ UpTo(have'.rows, produced, m) /\ o < m
    BY NextReply
<1>3. UpTo(have.acc, given, o) /\ UpTo(have.rows, produced, o)
    BY DEF IndInv, Kept, CutAtOffset
<1>4. /\ have'.rows \in Seq(Nat) /\ have'.acc \in Seq(Nat) /\ o <= m
      /\ UpTo(have'.acc, given, m)
    BY <1>1, <1>2, Joined
<1> HIDE DEF o, m
<1>5. /\ IsPrefix(have.acc, have'.acc)
      /\ \A i \in Len(have.acc) + 1 .. Len(have'.acc) :
            /\ i \in 1 .. Len(given) /\ have'.acc[i] = given[i]
            /\ o < given[i] /\ given[i] <= m
  <2>1. /\ have.acc \in Seq(Nat) /\ have'.acc \in Seq(Nat) /\ given \in Seq(Nat)
        /\ o \in Int /\ m \in Int /\ o <= m
        /\ UpTo(have.acc, given, o) /\ UpTo(have'.acc, given, m)
    BY <1>1, <1>3, <1>4
  <2>. QED
    BY ONLY <2>1, TwoCuts, SMTT(60)
<1>6. /\ IsPrefix(have.rows, have'.rows)
      /\ \A i \in Len(have.rows) + 1 .. Len(have'.rows) :
            /\ i \in 1 .. Len(produced) /\ have'.rows[i] = produced[i]
            /\ o < produced[i] /\ produced[i] <= m
  <2>1. /\ have.rows \in Seq(Nat) /\ have'.rows \in Seq(Nat) /\ produced \in Seq(Nat)
        /\ o \in Int /\ m \in Int /\ o <= m
        /\ UpTo(have.rows, produced, o) /\ UpTo(have'.rows, produced, m)
    BY <1>1, <1>2, <1>3, <1>4
  <2>. QED
    BY ONLY <2>1, TwoCuts, SMTT(60)
<1>7. /\ DOMAIN given = 1 .. Len(given) /\ DOMAIN produced = 1 .. Len(produced)
      /\ \A i \in 1 .. Len(given) : given[i] \in Nat
      /\ Len(have.acc) \in Nat /\ Len(have'.acc) \in Nat /\ Len(given) \in Nat
      /\ Len(have.rows) \in Nat /\ Len(have'.rows) \in Nat
    BY <1>1, <1>4, Seqs
<1>8. Increasing(have'.acc) /\ Increasing(have'.rows)
    BY <1>1, <1>2, <1>4, CutItself DEF m
\* The new records are stored and after the offset.
<1>9. ASSUME NEW i \in Len(have.acc) + 1 .. Len(have'.acc)
      PROVE  have'.acc[i] \in o + 1 .. stored - 1
  <2>1. /\ i \in 1 .. Len(given) /\ have'.acc[i] = given[i] /\ o < given[i]
    BY <1>5
  <2>2. given[i] < stored /\ given[i] \in Nat
    BY <1>7, <2>1 DEF Sourced, Below
  <2>. QED
    BY <1>1, <2>1, <2>2
\* The new rows are of the new records.
<1>10. ASSUME NEW i \in Len(have.rows) + 1 .. Len(have'.rows)
       PROVE  \E j \in Len(have.acc) + 1 .. Len(have'.acc) : have'.rows[i] = have'.acc[j]
  <2>1. i \in 1 .. Len(produced) /\ have'.rows[i] = produced[i] /\ o < produced[i] /\ produced[i] <= m
    BY <1>6
  <2>2. PICK j \in 1 .. Len(given) : produced[i] = given[j]
    BY <1>7, <2>1 DEF Sourced, Among
  <2>3. given[j] \in Nat /\ ~(given[j] <= o) /\ given[j] <= m
    BY <1>1, <1>7, <2>1, <2>2
  <2>4. ~(j <= Len(have.acc)) /\ j <= Len(have'.acc)
    <3>1. j <= Len(have.acc) <=> given[j] <= o
      BY <1>1, <1>3, Cut DEF o
    <3>2. j <= Len(hhold.acc) <=> given[j] <= m
      BY <1>1, <1>2, Cut
    <3>. QED
      BY <1>2, <2>3, <3>1, <3>2
  <2>5. j \in Len(have.acc) + 1 .. Len(have'.acc)
    BY <1>7, <2>2, <2>4
  <2>. QED
    BY <1>5, <2>1, <2>2, <2>5
<1>11. Len(have.rows) < Len(have'.rows)
  <2>1. Len(hhold.rows) \in Nat /\ Len(hhold.rows) # 0
    BY <1>1, <1>2, LenProperties, EmptySeq DEF Named
  <2>2. Len(have'.rows) = Len(have.rows) + Len(hhold.rows)
    BY <1>1, <1>2, Joined
  <2>3. \A a, b, c \in Nat : b # 0 /\ c = a + b => a < c
    OBVIOUS
  <2>. QED
    BY <1>7, <2>1, <2>2, <2>3
<1>12. have.rows # have'.rows /\ have.acc # have'.acc
  <2>1. Len(have.rows) + 1 \in Len(have.rows) + 1 .. Len(have'.rows)
    BY <1>7, <1>11
  <2>2. PICK j \in Len(have.acc) + 1 .. Len(have'.acc) : TRUE
    BY <1>10, <2>1
  <2>3. Len(have.acc) # Len(have'.acc) /\ Len(have.rows) # Len(have'.rows)
    BY <1>7, <1>11, <2>2
  <2>. QED
    BY <2>3
<1>13. have'.offset = Last(have'.acc) /\ stored' = stored
    BY <1>2 DEF Named, HandlerWrites
<1>14. Feed!Grows(have.acc, have'.acc) /\ Feed!Grows(have.rows, have'.rows)
    BY <1>5, <1>6, <1>8, <1>12 DEF Feed!Grows, Feed!Upward, Feed!IsPrefix, IsPrefix, Increasing
<1>15. Feed!News(have.acc, have'.acc) \subseteq have.offset + 1 .. stored - 1
    BY <1>9 DEF Feed!News, o
<1>16. Feed!News(have.rows, have'.rows) \subseteq Feed!News(have.acc, have'.acc)
    BY <1>10 DEF Feed!News
<1>. QED
    BY <1>13, <1>14, <1>15, <1>16 DEF Feed!Receives, Feed!Last, Last

LEMMA StepFollows ==
    ASSUME IndInv, Replied, Sourced, [Next]_vars
    PROVE  [Feed!Next]_<<stored, have>>
<1>1. CASE HandlerWrites
  <2>1. CASE client = "here"
    BY <1>1, <2>1, WriteReceives DEF Feed!Next
  <2>2. CASE client = "gone"
    BY <1>1, <2>2 DEF HandlerWrites
  <2>. QED
    BY <2>1, <2>2 DEF IndInv, TypeOK, ClientType
<1>2. CASE Stores
    BY <1>2 DEF Stores, Feed!Next, Feed!Stores
<1>3. CASE Ask \/ ClientLeaves \/ LinkDies \/ AgentCrashes \/ NodeReturns
    BY <1>3 DEF Ask, ClientLeaves, LinkDies, AgentCrashes, AgentGone, NodeReturns
<1>4. CASE \/ HandlerMakes \/ HandlerCannot \/ HandlerReads \/ HandlerRecvs
           \/ HandlerWriteFails \/ HandlerReturns
    BY <1>4 DEF HandlerMakes, HandlerCannot, HandlerReads, HandlerRecvs, HandlerWriteFails,
                HandlerReturns
<1>5. CASE ProxyStep
    BY <1>5 DEF ProxyStep, ProxyOpens, ProxyCannot, ProxyEnds, ProxyReturns, ProxyStops,
                ProxyRecvs, ProxySends
<1>6. CASE AgentStep \/ TransformFails
    BY <1>6 DEF AgentStep, AgentReads, Take, FlushNothing, Flush, FlushFails, AgentEnds,
                AgentWatches, WatchPanics, AgentGone, TransformFails
<1>7. CASE ScanStep
    BY <1>7 DEF ScanStep, ScanGives, ScanEnds, ScanFails, SendStops, ScanReturns
<1>8. CASE UNCHANGED vars
    BY <1>8 DEF vars
<1>. QED
    BY <1>1, <1>2, <1>3, <1>4, <1>5, <1>6, <1>7, <1>8 DEF Next, HandlerStep, Rest

\* NodeRead implements Follower: each reply that a client reads, in whichever
\* query and however the ones before it ended, brings records it has not had,
\* all of them stored, and their rows (Server.Read of the agent and the edge,
\* readNode).
THEOREM FollowsLog == Spec => Follows
<1>1. Init => Feed!Init /\ Replied /\ Sourced
  <2>1. SUFFICES ASSUME Init PROVE Feed!Init /\ Replied /\ Sourced
    OBVIOUS
  <2>2. Feed!Init
    BY <2>1 DEF Init, NoReply, Feed!Init
  <2>3. Replied
    BY <2>1 DEF Init, Replied, AllNamed
  <2>4. Sourced
    BY <2>1 DEF Init, Sourced, Below, Among
  <2>. QED
    BY <2>2, <2>3, <2>4
<1>2. IndInv /\ Replied /\ Sourced /\ [Next]_vars => Replied' /\ Sourced'
    BY RepliedStep, SourcedStep
<1>3. IndInv /\ Replied /\ Sourced /\ [Next]_vars => [Feed!Next]_<<stored, have>>
    BY StepFollows
<1>. QED
    BY <1>1, <1>2, <1>3, Inductive, PTL DEF Spec, Follows, Feed!Spec, Feed!feed
=============================================================================
