--------------------------- MODULE NodeReadProofs ---------------------------
(***************************************************************************)
(* IndInv is an inductive invariant of NodeRead, for any number of stored  *)
(* records, queries and faults, any batch size and any window of the       *)
(* streams; what a client may rely on of its replies follows.              *)
(***************************************************************************)
EXTENDS NodeRead, SequenceTheorems, TLAPS

Increasing(t) == \A i, j \in DOMAIN t : i < j => t[i] < t[j]
Below(t, n)   == \A i \in DOMAIN t : t[i] < n
From(n, t)    == \A i \in DOMAIN t : n <= t[i]

\* The replies between the agent and the client, in order.
Held(pc, where, r) == IF pc = where THEN <<r>> ELSE <<>>
AtHandler == Held(hpc, "write", hhold) \o down
AtProxy   == Held(ppc, "send", phold) \o up
Wire      == AtHandler \o AtProxy

\* With the records g and the rows p made before the next seq n: a reply
\* carries the rows from offset o to its own; and rows are all that follow o.
Fits(o, r, g, p, n) ==
    /\ -1 <= o /\ o < n /\ -1 <= r.offset /\ r.offset < n
    /\ UpTo(r.acc, g, r.offset)
    /\ \A s \in Seq(Nat) : UpTo(s, p, o) => UpTo(s \o r.rows, p, r.offset)
Completes(o, rows, p, n) ==
    /\ -1 <= o /\ o < n
    /\ \A s \in Seq(Nat) : UpTo(s, p, o) => s \o rows = p

\* Each reply of q follows the one before it, and the first one offset o.
Before(q, k, o) == IF k = 1 THEN o ELSE q[k - 1].offset
LastOffset(q, o) == IF q = <<>> THEN o ELSE q[Len(q)].offset
Chain(q, o, g, p, n) == \A k \in 1 .. Len(q) : Fits(Before(q, k, o), q[k], g, p, n)

\* Somebody waits for the replies.
Live == client = "here" /\ ~HandlerEnded
Running == apc \in {"fetch", "flush", "watch"}
AtEnd == apc = "ended" /\ spc = "done" /\ scanned = "end"

\* The agent's accumulator and rows.
Ordered ==
    /\ acc = given /\ Increasing(given) /\ Below(given, pos)
    /\ Increasing(produced) /\ Below(produced, pos)

\* What the client has, and that the rest is on its way.
Kept == CutAtOffset /\ -1 <= have.offset /\ have.offset < pos
Coming ==
    Live =>
        /\ Chain(Wire, have.offset, given, produced, pos)
        /\ ~StreamGone => Completes(LastOffset(Wire, have.offset), out, produced, pos)
        /\ upEnd = "EOF" \/ downEnd = "OutOfRange" =>
              Completes(LastOffset(Wire, have.offset), <<>>, produced, pos)

\* Which stage runs with which.
Stages ==
    /\ hpc \in {"make", "call"} => ppc = "idle"
    /\ ppc \in {"idle", "lookup"} => apc = "idle"
    /\ apc \in {"idle", "call"} => spc = "idle"
    /\ spc = "done" <=> scanned # "open"
    /\ apc \in {"idle", "call", "fetch", "watch"} => out = <<>>
\* The seqs that SQLite.Read is about to give.
Upwards ==
    /\ spc = "send" => chunk # <<>> /\ Increasing(chunk) /\ Below(chunk, spos)
    /\ Running /\ spc \in {"scan", "send"} => pos <= spos
    /\ Running /\ spc = "send" => From(pos, chunk)
\* How a query comes to its good end.
GoodEnd ==
    /\ scanned = "cut" /\ Running => StreamGone
    /\ upEnd = "EOF" \/ downEnd = "OutOfRange" \/ cause = "OutOfRange" => AtEnd
    /\ downEnd = "OutOfRange" => up = <<>>
    /\ downEnd # "open" => ppc = "ended"
    /\ cause = "OutOfRange" => hpc = "done" /\ (client = "here" => have.rows = produced)

IndInv == TypeOK /\ Ordered /\ Kept /\ Coming /\ Stages /\ Upwards /\ GoodEnd

-----------------------------------------------------------------------------
(***************************************************************************)
(* Sequences of seqs.                                                      *)
(***************************************************************************)
LEMMA Joined ==
    \A P : \A s, t \in Seq(P) :
        /\ s \o t \in Seq(P) /\ Len(s \o t) = Len(s) + Len(t)
        /\ DOMAIN (s \o t) = 1 .. Len(s) + Len(t)
        /\ \A k \in 1 .. Len(s) : (s \o t)[k] = s[k]
        /\ \A k \in 1 .. Len(t) : (s \o t)[Len(s) + k] = t[k]
<1>. TAKE P
<1>. TAKE s, t \in Seq(P)
<1>1. Len(s) \in Nat /\ Len(t) \in Nat
    BY LenProperties
<1>2. /\ s \o t \in Seq(P) /\ Len(s \o t) = Len(s) + Len(t)
      /\ \A k \in 1 .. Len(s) + Len(t) :
            (s \o t)[k] = IF k <= Len(s) THEN s[k] ELSE t[k - Len(s)]
    BY ConcatProperties
<1>3. DOMAIN (s \o t) = 1 .. Len(s) + Len(t)
    BY <1>2, LenProperties
<1>. QED
    BY <1>1, <1>2, <1>3

LEMMA Equal ==
    \A P : \A s, t \in Seq(P) :
        Len(s) = Len(t) /\ (\A k \in 1 .. Len(s) : s[k] = t[k]) => s = t
BY SeqEqual

LEMMA Regroup ==
    ASSUME NEW P, NEW s \in Seq(P), NEW t \in Seq(P), NEW u \in Seq(P)
    PROVE  (s \o t) \o u = s \o (t \o u)
BY ConcatAssociative

LEMMA Nothing ==
    \A P : \A s \in Seq(P) : s \o <<>> = s /\ <<>> \o s = s /\ <<>> \in Seq(P)
BY ConcatEmptySeq

LEMMA Seqs ==
    ASSUME NEW s \in Seq(Nat)
    PROVE  /\ Len(s) \in Nat /\ DOMAIN s = 1 .. Len(s)
           /\ \A i \in 1 .. Len(s) : s[i] \in Nat
BY LenProperties, ElementOfSeq

\* Prefixes, element by element.
LEMMA Prefix ==
    ASSUME NEW s \in Seq(Nat), NEW t \in Seq(Nat)
    PROVE  IsPrefix(s, t) <=> Len(s) <= Len(t) /\ \A k \in 1 .. Len(s) : s[k] = t[k]
<1>1. Len(s) \in Nat /\ Len(t) \in Nat
    BY Seqs
<1>2. SubSeq(s, 1, Len(s)) = s
    BY SubSeqFull
<1>3. ASSUME Len(s) <= Len(t)
      PROVE  s = SubSeq(t, 1, Len(s)) <=> \A k \in 1 .. Len(s) : s[k] = t[k]
  <2> DEFINE u == SubSeq(t, 1, Len(s))
  <2>1. \A i \in 1 .. Len(s) : t[i] \in Nat
    BY <1>1, <1>3, Seqs
  <2>2. u \in Seq(Nat) /\ Len(u) = Len(s) /\ \A k \in 1 .. Len(s) : u[k] = t[k]
    <3>1. /\ u \in Seq(Nat) /\ Len(u) = (IF 1 <= Len(s) THEN Len(s) - 1 + 1 ELSE 0)
          /\ \A k \in 1 .. Len(s) - 1 + 1 : u[k] = t[1 + k - 1]
      BY <1>1, <2>1, SubSeqProperties
    <3>. QED
      BY <1>1, <3>1
  <2> HIDE DEF u
  <2>3. (\A k \in 1 .. Len(s) : s[k] = t[k]) => s = u
    BY <2>2, SeqEqual
  <2>. QED
    BY <2>2, <2>3 DEF u
<1>. QED
    BY <1>2, <1>3 DEF IsPrefix

-----------------------------------------------------------------------------
(***************************************************************************)
(* Cuts: how UpTo goes on when the sequences grow.                         *)
(***************************************************************************)
LEMMA Extends ==
    ASSUME NEW t \in Seq(Nat), NEW u \in Seq(Nat), NEW n \in Int, NEW m \in Int,
           n <= m, Increasing(t), Below(t, n), Increasing(u), From(n, u), Below(u, m)
    PROVE  Increasing(t \o u) /\ Below(t \o u, m)
<1>1. /\ Len(t) \in Nat /\ DOMAIN t = 1 .. Len(t) /\ Len(u) \in Nat /\ DOMAIN u = 1 .. Len(u)
      /\ \A i \in 1 .. Len(t) : t[i] \in Nat
      /\ \A i \in 1 .. Len(u) : u[i] \in Nat
    BY Seqs
<1>2. /\ DOMAIN (t \o u) = 1 .. Len(t) + Len(u)
      /\ \A k \in 1 .. Len(t) : (t \o u)[k] = t[k]
      /\ \A k \in 1 .. Len(u) : (t \o u)[Len(t) + k] = u[k]
    BY Joined
<1>3. ASSUME NEW i \in 1 .. Len(t) + Len(u)
      PROVE  \/ i \in 1 .. Len(t) /\ (t \o u)[i] = t[i]
             \/ i - Len(t) \in 1 .. Len(u) /\ (t \o u)[i] = u[i - Len(t)]
  <2>1. CASE i <= Len(t)
    BY <1>1, <1>2, <2>1
  <2>2. CASE i > Len(t)
    <3>1. i - Len(t) \in 1 .. Len(u) /\ Len(t) + (i - Len(t)) = i
      BY <1>1, <2>2
    <3>. QED
      BY <1>2, <3>1
  <2>. QED
    BY <1>1, <2>1, <2>2
<1>4. Below(t \o u, m)
    BY <1>1, <1>2, <1>3 DEF Below
<1>5. ASSUME NEW i \in 1 .. Len(t) + Len(u), NEW j \in 1 .. Len(t) + Len(u), i < j
      PROVE  (t \o u)[i] < (t \o u)[j]
  <2>1. CASE j <= Len(t)
    <3>1. i \in 1 .. Len(t) /\ j \in 1 .. Len(t)
      BY <1>1, <1>5, <2>1
    <3>. QED
      BY <1>1, <1>2, <1>5, <3>1 DEF Increasing
  <2>2. CASE i > Len(t)
    <3>1. i - Len(t) \in 1 .. Len(u) /\ j - Len(t) \in 1 .. Len(u) /\ i - Len(t) < j - Len(t)
      BY <1>1, <1>5, <2>2
    <3>2. (t \o u)[i] = u[i - Len(t)] /\ (t \o u)[j] = u[j - Len(t)]
      BY <1>1, <1>3, <1>5, <2>2
    <3>. QED
      BY <1>1, <3>1, <3>2 DEF Increasing
  <2>3. CASE i <= Len(t) /\ j > Len(t)
    <3>1. i \in 1 .. Len(t) /\ j - Len(t) \in 1 .. Len(u)
      BY <1>1, <1>5, <2>3
    <3>2. (t \o u)[i] = t[i] /\ (t \o u)[j] = u[j - Len(t)]
      BY <1>1, <1>3, <1>5, <2>3
    <3>3. t[i] < n /\ n <= u[j - Len(t)] /\ t[i] \in Nat /\ u[j - Len(t)] \in Nat
      BY <1>1, <3>1 DEF Below, From
    <3>. QED
      BY <3>2, <3>3, SMTT(30)
  <2>. QED
    BY <1>1, <2>1, <2>2, <2>3, SMTT(30)
<1>. QED
    BY <1>2, <1>4, <1>5 DEF Increasing

LEMMA Cut ==
    ASSUME NEW s \in Seq(Nat), NEW t \in Seq(Nat), NEW o
    PROVE  UpTo(s, t, o) <=>
              /\ Len(s) <= Len(t) /\ \A k \in 1 .. Len(s) : s[k] = t[k]
              /\ \A i \in 1 .. Len(t) : i <= Len(s) <=> t[i] <= o
              /\ Increasing(t)
<1>1. DOMAIN t = 1 .. Len(t)
    BY Seqs
<1>. QED
    BY <1>1, Prefix DEF UpTo, Increasing

\* Later records do not change an earlier cut.
LEMMA CutGrows ==
    ASSUME NEW s \in Seq(Nat), NEW t \in Seq(Nat), NEW u \in Seq(Nat), NEW o \in Int, NEW n \in Int,
           o < n, From(n, u), Increasing(t), Increasing(t \o u)
    PROVE  UpTo(s, t \o u, o) <=> UpTo(s, t, o)
<1>1. /\ Len(s) \in Nat /\ Len(t) \in Nat /\ Len(u) \in Nat /\ DOMAIN u = 1 .. Len(u)
      /\ \A i \in 1 .. Len(u) : u[i] \in Nat
    BY Seqs
<1>2. /\ t \o u \in Seq(Nat) /\ Len(t \o u) = Len(t) + Len(u)
      /\ \A k \in 1 .. Len(t) : (t \o u)[k] = t[k]
      /\ \A k \in 1 .. Len(u) : (t \o u)[Len(t) + k] = u[k]
    BY Joined
<1>3. ASSUME NEW k \in 1 .. Len(u) PROVE ~(u[k] <= o)
  <2>1. n <= u[k] /\ u[k] \in Nat
    BY <1>1 DEF From
  <2>. QED
    BY <2>1
<1>4. ASSUME UpTo(s, t \o u, o) PROVE UpTo(s, t, o)
  <2>1. /\ Len(s) <= Len(t) + Len(u) /\ \A k \in 1 .. Len(s) : s[k] = (t \o u)[k]
        /\ \A i \in 1 .. Len(t) + Len(u) : i <= Len(s) <=> (t \o u)[i] <= o
    <3>1. t \o u \in Seq(Nat)
      BY <1>2
    <3>2. /\ Len(s) <= Len(t \o u) /\ \A k \in 1 .. Len(s) : s[k] = (t \o u)[k]
          /\ \A i \in 1 .. Len(t \o u) : i <= Len(s) <=> (t \o u)[i] <= o
      BY <1>4, <3>1, Cut
    <3>. QED
      BY <1>2, <3>2
  <2>2. Len(s) <= Len(t)
    <3>1. SUFFICES ASSUME Len(s) > Len(t) PROVE FALSE
      BY <1>1
    <3>2. 1 \in 1 .. Len(u) /\ Len(t) + 1 \in 1 .. Len(t) + Len(u) /\ Len(t) + 1 <= Len(s)
      BY <1>1, <2>1, <3>1
    <3>. QED
      BY <1>2, <1>3, <2>1, <3>2
  <2>3. \A k \in 1 .. Len(s) : s[k] = t[k]
    BY <1>1, <1>2, <2>1, <2>2
  <2>4. \A i \in 1 .. Len(t) : i <= Len(s) <=> t[i] <= o
    BY <1>1, <1>2, <2>1
  <2>. QED
    BY <2>2, <2>3, <2>4, Cut
<1>5. ASSUME UpTo(s, t, o) PROVE UpTo(s, t \o u, o)
  <2>1. /\ Len(s) <= Len(t) /\ \A k \in 1 .. Len(s) : s[k] = t[k]
        /\ \A i \in 1 .. Len(t) : i <= Len(s) <=> t[i] <= o
    BY <1>5, Cut
  <2>2. Len(s) <= Len(t) + Len(u) /\ \A k \in 1 .. Len(s) : s[k] = (t \o u)[k]
    BY <1>1, <1>2, <2>1
  <2>3. ASSUME NEW i \in 1 .. Len(t) + Len(u) PROVE i <= Len(s) <=> (t \o u)[i] <= o
    <3>1. CASE i <= Len(t)
      BY <1>1, <1>2, <2>1, <3>1
    <3>2. CASE i > Len(t)
      <4>1. i - Len(t) \in 1 .. Len(u) /\ Len(t) + (i - Len(t)) = i /\ ~(i <= Len(s))
        BY <1>1, <2>1, <3>2
      <4>. QED
        BY <1>2, <1>3, <4>1
    <3>. QED
      BY <1>1, <3>1, <3>2
  <2>. QED
    BY <1>2, <2>2, <2>3, Cut
<1>. QED
    BY <1>4, <1>5

\* What is up to the last record is everything.
LEMMA All ==
    ASSUME NEW t \in Seq(Nat), NEW n \in Int, Increasing(t), Below(t, n)
    PROVE  /\ UpTo(t, t, n - 1)
           /\ \A s \in Seq(Nat) : UpTo(s, t, n - 1) => s = t
<1>1. /\ Len(t) \in Nat /\ DOMAIN t = 1 .. Len(t)
      /\ \A i \in 1 .. Len(t) : t[i] \in Nat /\ t[i] <= n - 1
    BY Seqs DEF Below
<1>2. UpTo(t, t, n - 1)
    BY <1>1, Cut
<1>3. ASSUME NEW s \in Seq(Nat), UpTo(s, t, n - 1) PROVE s = t
  <2>1. Len(s) \in Nat /\ Len(s) <= Len(t) /\ \A k \in 1 .. Len(s) : s[k] = t[k]
    BY <1>3, Cut, Seqs
  <2>2. \A i \in 1 .. Len(t) : i <= Len(s)
    BY <1>1, <1>3, Cut
  <2>3. Len(s) = Len(t)
    BY <1>1, <2>1, <2>2, SMTT(30)
  <2>. QED
    BY <2>1, <2>3, Equal
<1>. QED
    BY <1>2, <1>3

\* A prefix up to an offset is ordered and up to it as well.
LEMMA CutItself ==
    ASSUME NEW s \in Seq(Nat), NEW t \in Seq(Nat), NEW o \in Int, UpTo(s, t, o)
    PROVE  Increasing(s) /\ Below(s, o + 1)
<1>1. /\ Len(s) \in Nat /\ DOMAIN s = 1 .. Len(s) /\ DOMAIN t = 1 .. Len(t) /\ Len(t) \in Nat
      /\ \A i \in 1 .. Len(t) : t[i] \in Nat
    BY Seqs
<1>2. /\ Len(s) <= Len(t) /\ \A k \in 1 .. Len(s) : s[k] = t[k]
      /\ \A i \in 1 .. Len(t) : i <= Len(s) <=> t[i] <= o
      /\ Increasing(t)
    BY Cut
<1>3. \A k \in 1 .. Len(s) : k \in 1 .. Len(t) /\ s[k] = t[k] /\ t[k] <= o
    BY <1>1, <1>2
<1>4. Below(s, o + 1)
    BY <1>1, <1>3 DEF Below
<1>5. Increasing(s)
    BY <1>1, <1>2, <1>3 DEF Increasing
<1>. QED
    BY <1>4, <1>5

-----------------------------------------------------------------------------
(***************************************************************************)
(* Replies on their way.                                                   *)
(***************************************************************************)
LEMMA FitsGrows ==
    ASSUME NEW g \in Seq(Nat), NEW c \in Seq(Nat), NEW p \in Seq(Nat), NEW w \in Seq(Nat),
           NEW n \in Int, NEW m \in Int, n <= m,
           From(n, c), From(n, w), Increasing(g), Increasing(g \o c),
           Increasing(p), Increasing(p \o w),
           NEW o \in Int, NEW r \in Reply, Fits(o, r, g, p, n)
    PROVE  Fits(o, r, g \o c, p \o w, m)
<1>1. r.acc \in Seq(Nat) /\ r.rows \in Seq(Nat) /\ r.offset \in Int
    BY DEF Reply
<1>2. -1 <= o /\ o < n /\ -1 <= r.offset /\ r.offset < n /\ o < m /\ r.offset < m
    BY <1>1 DEF Fits
<1>3. UpTo(r.acc, g \o c, r.offset)
    BY <1>1, <1>2, CutGrows DEF Fits
<1>4. ASSUME NEW s \in Seq(Nat), UpTo(s, p \o w, o)
      PROVE  UpTo(s \o r.rows, p \o w, r.offset)
  <2>1. UpTo(s, p, o)
    BY <1>2, <1>4, CutGrows
  <2>2. UpTo(s \o r.rows, p, r.offset)
    BY <2>1 DEF Fits
  <2>3. s \o r.rows \in Seq(Nat)
    BY <1>1, Joined
  <2>. QED
    BY <1>1, <1>2, <2>2, <2>3, CutGrows
<1>. QED
    BY <1>2, <1>3, <1>4 DEF Fits

LEMMA CompletesGrows ==
    ASSUME NEW p \in Seq(Nat), NEW w \in Seq(Nat), NEW rows \in Seq(Nat),
           NEW n \in Int, NEW m \in Int, n <= m,
           From(n, w), Increasing(p), Increasing(p \o w),
           NEW o \in Int, Completes(o, rows, p, n)
    PROVE  Completes(o, rows \o w, p \o w, m)
<1>1. -1 <= o /\ o < n /\ o < m
    BY DEF Completes
<1>2. ASSUME NEW s \in Seq(Nat), UpTo(s, p \o w, o)
      PROVE  s \o (rows \o w) = p \o w
  <2>1. UpTo(s, p, o)
    BY <1>1, <1>2, CutGrows
  <2>2. s \o rows = p
    BY <2>1 DEF Completes
  <2>3. (s \o rows) \o w = s \o (rows \o w)
    BY ONLY s \in Seq(Nat), rows \in Seq(Nat), w \in Seq(Nat), Regroup, SMTT(30)
  <2>. QED
    BY <2>2, <2>3
<1>. QED
    BY <1>1, <1>2 DEF Completes

\* The agent sends its rows: the reply fits, and no row is left.
LEMMA Sent ==
    ASSUME NEW g \in Seq(Nat), NEW p \in Seq(Nat), NEW rows \in Seq(Nat), NEW n \in Nat,
           Increasing(g), Below(g, n), Increasing(p), Below(p, n),
           NEW o \in Int, Completes(o, rows, p, n)
    PROVE  /\ Fits(o, [rows |-> rows, acc |-> g, offset |-> n - 1], g, p, n)
           /\ Completes(n - 1, <<>>, p, n)
<1>1. UpTo(g, g, n - 1) /\ UpTo(p, p, n - 1)
    BY All
<1>2. \A s \in Seq(Nat) : UpTo(s, p, n - 1) => s \o <<>> = p
    BY All, Nothing
<1>3. -1 <= o /\ o < n /\ \A s \in Seq(Nat) : UpTo(s, p, o) => s \o rows = p
    BY DEF Completes
<1>4. \A s \in Seq(Nat) : UpTo(s, p, o) => UpTo(s \o rows, p, n - 1)
    BY <1>1, <1>3
<1>5. -1 <= n - 1 /\ n - 1 < n
    OBVIOUS
<1>. QED
    BY <1>1, <1>2, <1>3, <1>4, <1>5 DEF Fits, Completes

LEMMA ChainTyped ==
    ASSUME NEW q \in Seq(Reply), NEW o \in Int
    PROVE  /\ LastOffset(q, o) \in Int
           /\ \A k \in 1 .. Len(q) : Before(q, k, o) \in Int /\ q[k] \in Reply
<1>1. Len(q) \in Nat /\ (q # <<>> => Len(q) \in 1 .. Len(q)) /\ \A k \in 1 .. Len(q) : q[k] \in Reply
    BY LenProperties, ElementOfSeq, EmptySeq
<1>2. \A r \in Reply : r.offset \in Int
    BY DEF Reply
<1>3. LastOffset(q, o) \in Int
    BY <1>1, <1>2 DEF LastOffset
<1>4. ASSUME NEW k \in 1 .. Len(q) PROVE Before(q, k, o) \in Int
  <2>1. k # 1 => k - 1 \in 1 .. Len(q)
    BY <1>1
  <2>. QED
    BY <1>1, <1>2, <2>1 DEF Before
<1>. QED
    BY <1>1, <1>3, <1>4

LEMMA ChainGrows ==
    ASSUME NEW g \in Seq(Nat), NEW c \in Seq(Nat), NEW p \in Seq(Nat), NEW w \in Seq(Nat),
           NEW n \in Int, NEW m \in Int, n <= m,
           From(n, c), From(n, w), Increasing(g), Increasing(g \o c),
           Increasing(p), Increasing(p \o w),
           NEW q \in Seq(Reply), NEW o \in Int, Chain(q, o, g, p, n)
    PROVE  Chain(q, o, g \o c, p \o w, m)
BY ChainTyped, FitsGrows DEF Chain

LEMMA ChainAppend ==
    ASSUME NEW q \in Seq(Reply), NEW r \in Reply, NEW o, NEW g, NEW p, NEW n,
           Chain(q, o, g, p, n), Fits(LastOffset(q, o), r, g, p, n)
    PROVE  /\ Chain(q \o <<r>>, o, g, p, n)
           /\ LastOffset(q \o <<r>>, o) = r.offset
<1> DEFINE z == q \o <<r>>
<1>1. Len(q) \in Nat /\ (q = <<>> <=> Len(q) = 0)
    BY LenProperties, EmptySeq
<1>2. <<r>> \in Seq(Reply) /\ Len(<<r>>) = 1 /\ <<r>>[1] = r
    OBVIOUS
<1>3. /\ z \in Seq(Reply) /\ Len(z) = Len(q) + 1 /\ z[Len(q) + 1] = r
      /\ \A k \in 1 .. Len(q) : z[k] = q[k]
    BY <1>1, <1>2, Joined
<1> HIDE DEF z
<1>4. z # <<>>
    BY <1>1, <1>3, EmptySeq
<1>5. LastOffset(z, o) = r.offset
    BY <1>3, <1>4 DEF LastOffset
<1>6. ASSUME NEW k \in 1 .. Len(q) + 1 PROVE Fits(Before(z, k, o), z[k], g, p, n)
  <2>1. CASE k \in 1 .. Len(q)
    <3>1. k # 1 => k - 1 \in 1 .. Len(q)
      BY <1>1, <2>1
    <3>2. Before(z, k, o) = Before(q, k, o)
      BY <1>3, <3>1 DEF Before
    <3>. QED
      BY <1>3, <2>1, <3>2 DEF Chain
  <2>2. CASE k = Len(q) + 1
    <3>1. Len(q) # 0 => k - 1 = Len(q) /\ Len(q) \in 1 .. Len(q)
      BY <1>1, <2>2
    <3>2. Before(z, k, o) = LastOffset(q, o)
      BY <1>1, <1>3, <2>2, <3>1 DEF Before, LastOffset
    <3>. QED
      BY <1>3, <2>2, <3>2
  <2>. QED
    BY <1>1, <2>1, <2>2
<1>7. Chain(z, o, g, p, n)
    BY <1>3, <1>6 DEF Chain
<1>. QED
    BY <1>5, <1>7 DEF z

LEMMA ChainTail ==
    ASSUME NEW q \in Seq(Reply), NEW r \in Reply, NEW o, NEW g, NEW p, NEW n,
           Chain(<<r>> \o q, o, g, p, n)
    PROVE  /\ Fits(o, r, g, p, n) /\ Chain(q, r.offset, g, p, n)
           /\ LastOffset(<<r>> \o q, o) = LastOffset(q, r.offset)
<1> DEFINE z == <<r>> \o q
<1>1. Len(q) \in Nat /\ (q = <<>> <=> Len(q) = 0)
    BY LenProperties, EmptySeq
<1>2. <<r>> \in Seq(Reply) /\ Len(<<r>>) = 1 /\ <<r>>[1] = r
    OBVIOUS
<1>3. /\ z \in Seq(Reply) /\ Len(z) = 1 + Len(q) /\ z[1] = r
      /\ \A k \in 1 .. Len(q) : z[1 + k] = q[k]
    BY <1>1, <1>2, Joined
<1> HIDE DEF z
<1>4. \A k \in 1 .. 1 + Len(q) : Fits(Before(z, k, o), z[k], g, p, n)
    BY <1>3 DEF Chain, z
<1>5. Fits(o, r, g, p, n)
    BY <1>1, <1>3, <1>4 DEF Before
<1>6. ASSUME NEW k \in 1 .. Len(q) PROVE Fits(Before(q, k, r.offset), q[k], g, p, n)
  <2>1. 1 + k \in 1 .. 1 + Len(q) /\ 1 + k # 1 /\ (1 + k) - 1 = k
    BY <1>1
  <2>2. Before(z, 1 + k, o) = z[k].offset
    BY <2>1 DEF Before
  <2>3. k # 1 => k - 1 \in 1 .. Len(q) /\ 1 + (k - 1) = k
    BY <1>1
  <2>4. z[k].offset = Before(q, k, r.offset)
    BY <1>3, <2>3 DEF Before
  <2>. QED
    BY <1>3, <1>4, <2>1, <2>2, <2>4
<1>7. LastOffset(z, o) = LastOffset(q, r.offset)
  <2>1. z # <<>>
    BY <1>1, <1>3, EmptySeq
  <2>2. CASE q = <<>>
    BY <1>1, <1>3, <2>1, <2>2 DEF LastOffset
  <2>3. CASE q # <<>>
    <3>1. Len(q) \in 1 .. Len(q)
      BY <1>1, <2>3
    <3>. QED
      BY <1>3, <2>1, <2>3, <3>1 DEF LastOffset
  <2>. QED
    BY <2>2, <2>3
<1>. QED
    BY <1>5, <1>6, <1>7 DEF Chain, z

LEMMA ChainCut ==
    ASSUME NEW q \in Seq(Reply), NEW t \in Seq(Reply), NEW o, NEW g, NEW p, NEW n,
           Chain(q \o t, o, g, p, n)
    PROVE  Chain(q, o, g, p, n)
<1> DEFINE z == q \o t
<1>1. Len(q) \in Nat /\ Len(t) \in Nat
    BY LenProperties
<1>2. Len(z) = Len(q) + Len(t) /\ \A k \in 1 .. Len(q) : z[k] = q[k]
    BY Joined
<1>3. \A k \in 1 .. Len(z) : Fits(Before(z, k, o), z[k], g, p, n)
    BY DEF Chain
<1> HIDE DEF z
<1>4. ASSUME NEW k \in 1 .. Len(q) PROVE Fits(Before(q, k, o), q[k], g, p, n)
  <2>1. k \in 1 .. Len(z) /\ (k # 1 => k - 1 \in 1 .. Len(q))
    BY <1>1, <1>2
  <2>2. Before(z, k, o) = Before(q, k, o)
    BY <1>2, <2>1 DEF Before
  <2>. QED
    BY <1>2, <1>3, <2>1, <2>2
<1>. QED
    BY <1>4 DEF Chain

-----------------------------------------------------------------------------
(***************************************************************************)
(* The types.                                                              *)
(***************************************************************************)
USE DEF envVars, clientVars, handlerVars, downVars, proxyVars, upVars, agentVars, scanVars,
        ghostVars, countVars, edgeVars

LEMMA ReplyTyped ==
    /\ \A r \in Reply : r.rows \in Seq(Nat) /\ r.acc \in Seq(Nat) /\ r.offset \in Int
    /\ \A rows, a \in Seq(Nat), o \in Int : [rows |-> rows, acc |-> a, offset |-> o] \in Reply
BY DEF Reply

LEMMA InitTypes == NodeReadAssumption /\ Init => TypeOK
<1>. SUFFICES ASSUME NodeReadAssumption, Init PROVE TypeOK
    OBVIOUS
<1>1. \A P : <<>> \in Seq(P)
    OBVIOUS
<1>2. NoReply \in Reply
    BY <1>1 DEF NoReply, Reply
<1>. QED
    BY <1>1, <1>2 DEF Init, TypeOK, ClientType, EdgeType, AgentType

LEMMA AskTypes ==
    ASSUME NodeReadAssumption, TypeOK, -1 <= have.offset, Ask
    PROVE  TypeOK'
<1>1. have.rows \in Seq(Nat) /\ have.acc \in Seq(Nat) /\ have.offset \in Int
    BY ReplyTyped DEF TypeOK, ClientType
<1>2. have.offset + 1 \in Nat
    BY <1>1
<1>3. end' \in Nat /\ tail' \in BOOLEAN /\ asks' \in Nat
    BY DEF Ask, NodeReadAssumption, TypeOK, AgentType
<1>4. \A P : <<>> \in Seq(P)
    OBVIOUS
<1>5. ClientType'
    BY <1>3 DEF Ask, TypeOK, ClientType
<1>6. EdgeType'
    BY <1>4 DEF Ask, TypeOK, EdgeType
<1>7. AgentType'
    BY <1>1, <1>2, <1>3, <1>4 DEF Ask, TypeOK, AgentType
<1>. QED
    BY <1>5, <1>6, <1>7 DEF TypeOK

LEMMA LostTypes ==
    ASSUME TypeOK, ConnectionLost
    PROVE  node' = "down" /\ up' \in Seq(Reply) /\ upEnd' \in {"open", "EOF", "error"}
<1>1. up \in Seq(Reply) /\ upEnd \in {"open", "EOF", "error"}
    BY DEF TypeOK, EdgeType
<1>2. PICK n \in 0 .. Len(up) :
        /\ up' = SubSeq(up, 1, n)
        /\ upEnd' \in IF n = Len(up) /\ upEnd # "open" THEN {upEnd, "error"} ELSE {"error"}
    BY DEF ConnectionLost
<1>3. \A i \in 1 .. n : up[i] \in Reply
    BY <1>1, <1>2, LenProperties, ElementOfSeq
<1>4. up' \in Seq(Reply)
    BY <1>2, <1>3, SubSeqProperties
<1>5. upEnd' \in {"open", "EOF", "error"}
    BY <1>1, <1>2
<1>. QED
    BY <1>4, <1>5 DEF ConnectionLost

LEMMA GoneTypes ==
    ASSUME TypeOK, faults' \in Nat, NEW label \in {"ended", "panicked"}, AgentGone(label)
    PROVE  TypeOK'
<1>1. node' = "down" /\ up' \in Seq(Reply) /\ upEnd' \in {"open", "EOF", "error"}
    BY LostTypes DEF AgentGone
<1>2. <<>> \in Seq(Nat)
    OBVIOUS
<1>3. ClientType'
    BY <1>1 DEF AgentGone, TypeOK, ClientType
<1>4. EdgeType'
    BY <1>1 DEF AgentGone, TypeOK, EdgeType
<1>5. AgentType'
    BY <1>2 DEF AgentGone, TypeOK, AgentType
<1>. QED
    BY <1>3, <1>4, <1>5 DEF TypeOK

LEMMA EnvTypes ==
    ASSUME TypeOK, ClientLeaves \/ Stores \/ LinkDies \/ AgentCrashes \/ NodeReturns
    PROVE  TypeOK'
<1> USE DEF TypeOK, ClientType, EdgeType, AgentType, OneFault
<1>1. CASE ClientLeaves
    BY <1>1 DEF ClientLeaves
<1>2. CASE Stores
    BY <1>2 DEF Stores
<1>3. CASE LinkDies
    BY <1>3, LostTypes DEF LinkDies
<1>4. CASE AgentCrashes
    BY <1>4, GoneTypes DEF AgentCrashes
<1>5. CASE NodeReturns
    BY <1>5 DEF NodeReturns
<1>. QED
    BY <1>1, <1>2, <1>3, <1>4, <1>5

LEMMA HandlerTypes ==
    ASSUME TypeOK, HandlerStep
    PROVE  TypeOK'
<1> USE DEF TypeOK, ClientType, EdgeType, AgentType, OneFault
<1>1. CASE HandlerMakes
    BY <1>1 DEF HandlerMakes
<1>2. CASE HandlerCannot
    BY <1>2 DEF HandlerCannot
<1>3. CASE HandlerReads
    BY <1>3 DEF HandlerReads
<1>4. CASE HandlerRecvs
    BY <1>4, HeadTailProperties DEF HandlerRecvs
<1>5. CASE HandlerWrites
  <2>1. have' \in Reply
    <3>1. have.rows \in Seq(Nat) /\ hhold.rows \in Seq(Nat)
      BY ReplyTyped
    <3>2. have.rows \o hhold.rows \in Seq(Nat)
      BY <3>1, Joined
    <3>3. [hhold EXCEPT !.rows = have.rows \o hhold.rows] \in Reply
      BY <3>2 DEF Reply
    <3>. QED
      BY <1>5, <3>3 DEF HandlerWrites
  <2>. QED
    BY <1>5, <2>1 DEF HandlerWrites
<1>6. CASE HandlerWriteFails
    BY <1>6 DEF HandlerWriteFails
<1>7. CASE HandlerReturns
    BY <1>7 DEF HandlerReturns
<1>. QED
    BY <1>1, <1>2, <1>3, <1>4, <1>5, <1>6, <1>7 DEF HandlerStep

LEMMA ProxyTypes ==
    ASSUME TypeOK, ProxyStep
    PROVE  TypeOK'
<1> USE DEF TypeOK, ClientType, EdgeType, AgentType
<1>1. CASE ProxyOpens
    BY <1>1 DEF ProxyOpens
<1>2. CASE ProxyCannot
    BY <1>2 DEF ProxyCannot, ProxyReturns, StatusOf
<1>3. CASE ProxyEnds
    BY <1>3 DEF ProxyEnds, ProxyReturns, StatusOf
<1>4. CASE ProxyRecvs
    BY <1>4, HeadTailProperties DEF ProxyRecvs
<1>5. CASE ProxySends
    BY <1>5, AppendProperties DEF ProxySends
<1>6. CASE ProxyStops
    BY <1>6 DEF ProxyStops
<1>. QED
    BY <1>1, <1>2, <1>3, <1>4, <1>5, <1>6 DEF ProxyStep

LEMMA InputTyped ==
    \A batch \in Seq(Nat) : Input(batch) \in Seq(Nat \cup {Blank})
<1>. TAKE batch \in Seq(Nat)
<1> DEFINE blanks == [i \in 1 .. Len(batch) |-> Blank]
<1>1. Len(batch) \in Nat
    BY LenProperties
<1>2. blanks \in Seq(Nat \cup {Blank})
    BY <1>1
<1>3. batch \in Seq(Nat \cup {Blank})
    BY SeqMonotonic
<1> HIDE DEF blanks
<1>4. blanks \o batch \in Seq(Nat \cup {Blank})
    BY <1>2, <1>3, Joined
<1>. QED
    BY <1>4 DEF Input, blanks

LEMMA RowsTyped ==
    ASSUME NEW batch \in Seq(Nat), NEW rows \in RowsOf(batch)
    PROVE  /\ rows \in Seq(Nat) /\ Increasing(rows)
           /\ \A i \in DOMAIN rows : \E j \in DOMAIN batch : rows[i] = batch[j]
<1>1. PICK n \in 0 .. Len(batch) : rows \in [1 .. n -> ToSet(batch)]
    BY DEF RowsOf
<1>2. Len(batch) \in Nat /\ DOMAIN batch = 1 .. Len(batch)
    BY Seqs
<1>3. n \in Nat
    BY <1>1, <1>2
<1>4. \A i \in 1 .. n : \E j \in DOMAIN batch : rows[i] = batch[j]
    BY <1>1 DEF ToSet
<1>5. \A i \in 1 .. n : rows[i] \in Nat
    BY <1>2, <1>4, Seqs
<1>6. rows \in Seq(Nat) /\ DOMAIN rows = 1 .. n
    BY <1>1, <1>3, <1>5
<1>7. Increasing(rows)
    BY DEF RowsOf, Increasing
<1>. QED
    BY <1>4, <1>6, <1>7

LEMMA AgentTypes ==
    ASSUME TypeOK, NodeReadAssumption, chunk # <<>> \/ spc # "send", AgentStep \/ TransformFails
    PROVE  TypeOK'
<1> USE DEF TypeOK, ClientType, EdgeType, AgentType, OneFault
<1>1. CASE AgentReads
    BY <1>1 DEF AgentReads
<1>2. CASE Take
  <2>1. PICK rows \in RowsOf(chunk) : out' = out \o rows /\ produced' = produced \o rows
    BY <1>2 DEF Take
  <2>2. out' \in Seq(Nat) /\ produced' \in Seq(Nat)
    BY <2>1, RowsTyped, Joined
  <2>3. acc' \in Seq(Nat) /\ given' \in Seq(Nat)
    BY <1>2, Joined DEF Take
  <2>4. lines' \in Seq(Nat \cup {Blank})
    BY <1>2, InputTyped DEF Take
  <2>5. chunk # <<>>
    BY <1>2 DEF Take
  <2>6. Len(chunk) \in 1 .. Len(chunk)
    BY <2>5, EmptySeq
  <2>7. pos' \in Nat
    <3>1. pos' = chunk[Len(chunk)] + 1
      BY <1>2 DEF Take, After, Last
    <3>2. chunk[Len(chunk)] \in Nat
      BY <2>6, Seqs
    <3>. QED
      BY ONLY <3>1, <3>2
  <2>8. <<>> \in Seq(Nat)
    OBVIOUS
  <2>. QED
    BY <1>2, <2>2, <2>3, <2>4, <2>7, <2>8 DEF Take
<1>3. CASE FlushNothing
    BY <1>3 DEF FlushNothing
<1>4. CASE Flush
  <2> DEFINE r == [rows |-> out, acc |-> acc, offset |-> pos - 1]
  <2>1. r \in Reply
    BY ReplyTyped
  <2>2. up' = up \/ up' = Append(up, r)
    BY <1>4 DEF Flush
  <2> HIDE DEF r
  <2>3. up \in Seq(Reply)
    OBVIOUS
  <2>4. Append(up, r) \in Seq(Reply)
    BY ONLY <2>1, <2>3, AppendProperties
  <2>5. up' \in Seq(Reply)
    BY <2>2, <2>4
  <2>6. <<>> \in Seq(Nat)
    OBVIOUS
  <2>. QED
    BY <1>4, <2>5, <2>6 DEF Flush
<1>5. CASE FlushFails
    BY <1>5 DEF FlushFails, AgentReturns
<1>6. CASE AgentEnds
    BY <1>6 DEF AgentEnds, AgentReturns
<1>7. CASE AgentWatches
    BY <1>7 DEF AgentWatches
<1>8. CASE WatchPanics
    BY <1>8, GoneTypes DEF WatchPanics
<1>9. CASE TransformFails
  <2>1. lines' \in Seq(Nat \cup {Blank}) /\ <<>> \in Seq(Nat)
    BY <1>9, InputTyped, SMTT(30) DEF TransformFails
  <2>. QED
    BY <1>9, <2>1 DEF TransformFails, AgentReturns
<1>. QED
    BY <1>1, <1>2, <1>3, <1>4, <1>5, <1>6, <1>7, <1>8, <1>9 DEF AgentStep

\* What SQLite.Read gives: from some seq on, without a gap.
LEMMA GivesRun ==
    ASSUME TypeOK, ScanGives
    PROVE  /\ chunk' \in Seq(Nat) /\ chunk' # <<>> /\ Increasing(chunk')
           /\ spos' \in Nat /\ Below(chunk', spos') /\ From(spos, chunk') /\ spos <= spos'
<1>1. PICK from \in spos .. end - 1, n \in 1 .. BatchSize :
        chunk' = [i \in 1 .. n |-> from + i - 1] /\ spos' = from + n
    BY DEF ScanGives
<1>2. spos \in Nat /\ from \in Nat /\ n \in Nat /\ n >= 1 /\ spos <= from
    BY <1>1 DEF TypeOK, AgentType, ClientType
<1>3. \A i \in 1 .. n : from + i - 1 \in Nat
    BY <1>2
<1>4. chunk' \in Seq(Nat) /\ DOMAIN chunk' = 1 .. n /\ \A i \in 1 .. n : chunk'[i] = from + i - 1
    BY <1>1, <1>2, <1>3
<1>5. chunk' # <<>>
    BY <1>2, <1>4
<1>. QED
    BY <1>1, <1>2, <1>4, <1>5 DEF Increasing, Below, From

LEMMA ScanTypes ==
    ASSUME TypeOK, ScanStep
    PROVE  TypeOK'
<1> USE DEF TypeOK, ClientType, EdgeType, AgentType, OneFault, ScanReturns
<1>0. <<>> \in Seq(Nat)
    OBVIOUS
<1>1. CASE ScanGives
  <2>1. chunk' \in Seq(Nat) /\ spos' \in Nat
    BY <1>1, GivesRun
  <2>. QED
    BY <1>1, <2>1 DEF ScanGives
<1>2. CASE ScanEnds
    BY <1>0, <1>2 DEF ScanEnds
<1>3. CASE ScanFails
    BY <1>0, <1>3 DEF ScanFails
<1>4. CASE SendStops
    BY <1>0, <1>4 DEF SendStops
<1>. QED
    BY <1>1, <1>2, <1>3, <1>4 DEF ScanStep

-----------------------------------------------------------------------------
(***************************************************************************)
(* Which stage runs with which, what the storage gives, and the good end.  *)
(***************************************************************************)
\* What a dead connection does to the replies on it.
LEMMA LostKeeps ==
    ASSUME TypeOK, ConnectionLost
    PROVE  /\ node' = "down"
           /\ up = <<>> => up' = <<>>
           /\ upEnd' = "EOF" => upEnd = "EOF" /\ up' = up
           /\ \E rest \in Seq(Reply) : up = up' \o rest
<1>1. up \in Seq(Reply) /\ Len(up) \in Nat /\ (up = <<>> <=> Len(up) = 0)
    BY LenProperties, EmptySeq DEF TypeOK, EdgeType
<1>2. PICK n \in 0 .. Len(up) :
        /\ up' = SubSeq(up, 1, n)
        /\ upEnd' \in IF n = Len(up) /\ upEnd # "open" THEN {upEnd, "error"} ELSE {"error"}
    BY DEF ConnectionLost
<1>3. n = Len(up) => up' = up
    BY <1>1, <1>2, SubSeqFull
<1>4. upEnd' = "EOF" => upEnd = "EOF" /\ up' = up
    BY <1>2, <1>3
<1>5. up = <<>> => up' = <<>>
    BY <1>1, <1>2, <1>3
<1>6. \E rest \in Seq(Reply) : up = up' \o rest
  <2> DEFINE rest == SubSeq(up, n + 1, Len(up))
  <2>1. up' \o rest = up
    <3>1. 1 \in 1 .. Len(up) + 1 /\ n \in 1 - 1 .. Len(up) /\ Len(up) \in n .. Len(up)
      BY <1>1, <1>2
    <3>2. SubSeq(up, 1, n) \o SubSeq(up, n + 1, Len(up)) = SubSeq(up, 1, Len(up))
      BY <1>1, <3>1, ConcatAdjacentSubSeq, ZenonT(30)
    <3>. QED
      BY <1>1, <1>2, <3>2, SubSeqFull
  <2>2. \A i \in n + 1 .. Len(up) : up[i] \in Reply
    BY <1>1, <1>2, ElementOfSeq
  <2>3. rest \in Seq(Reply)
    BY <1>1, <1>2, <2>2, SubSeqProperties
  <2>. QED
    BY <2>1, <2>3
<1>. QED
    BY <1>4, <1>5, <1>6 DEF ConnectionLost

LEMMA GoneControl ==
    ASSUME TypeOK, Stages, Upwards, GoodEnd,
           NEW label \in {"ended", "panicked"}, AgentGone(label)
    PROVE  Stages' /\ Upwards' /\ GoodEnd'
<1> USE DEF TypeOK, ClientType, EdgeType, AgentType, Running, AtEnd, StreamGone,
            HandlerEnded, ProxyEnded, AgentEnded, ScanEnded, AgentGone
<1>1. /\ node' = "down" /\ (up = <<>> => up' = <<>>)
      /\ upEnd' = "EOF" => upEnd = "EOF"
    BY LostKeeps
<1>2. Stages' /\ Upwards'
    BY DEF Stages, Upwards
<1>3. GoodEnd'
    BY <1>1 DEF GoodEnd
<1>. QED
    BY <1>2, <1>3

LEMMA EnvControl ==
    ASSUME TypeOK, Stages, Upwards, GoodEnd, ClientLeaves \/ Stores \/ LinkDies \/ AgentCrashes \/ NodeReturns
    PROVE  Stages' /\ Upwards' /\ GoodEnd'
<1> USE DEF TypeOK, ClientType, EdgeType, AgentType, OneFault, Running, AtEnd, StreamGone,
            HandlerEnded, ProxyEnded, AgentEnded, ScanEnded
<1>1. CASE ClientLeaves
  <2>1. Stages' /\ Upwards'
    BY <1>1 DEF Stages, Upwards, ClientLeaves
  <2>2. GoodEnd'
    BY <1>1 DEF GoodEnd, Stages, ClientLeaves
  <2>. QED
    BY <2>1, <2>2
<1>2. CASE Stores
  <2>1. Stages' /\ Upwards'
    BY <1>2 DEF Stages, Upwards, Stores
  <2>2. GoodEnd'
    BY <1>2 DEF GoodEnd, Stages, Stores
  <2>. QED
    BY <2>1, <2>2
<1>3. CASE LinkDies
  <2>1. Stages' /\ Upwards'
    BY <1>3 DEF Stages, Upwards, LinkDies
  <2>2. /\ node' = "down" /\ (up = <<>> => up' = <<>>)
        /\ upEnd' = "EOF" => upEnd = "EOF"
    BY <1>3, LostKeeps DEF LinkDies
  <2>3. GoodEnd'
    BY <1>3, <2>2 DEF GoodEnd, LinkDies
  <2>. QED
    BY <2>1, <2>3
<1>4. CASE AgentCrashes
    BY <1>4, GoneControl DEF AgentCrashes
<1>5. CASE NodeReturns
  <2>1. Stages' /\ Upwards'
    BY <1>5 DEF Stages, Upwards, NodeReturns, Ended
  <2>2. GoodEnd'
    BY <1>5 DEF GoodEnd, Stages, NodeReturns, Ended
  <2>. QED
    BY <2>1, <2>2
<1>. QED
    BY <1>1, <1>2, <1>3, <1>4, <1>5

LEMMA AskControl ==
    ASSUME TypeOK, Ask
    PROVE  Stages' /\ Upwards' /\ GoodEnd'
BY DEF Ask, Stages, Upwards, GoodEnd, Running

\* The stream has ended well and nothing is on its way: the client has it all.
LEMMA ReturnsComplete ==
    ASSUME TypeOK, Stages, GoodEnd, Coming, Kept, HandlerReturns,
           downEnd = "OutOfRange", client = "here"
    PROVE  have.rows = produced
<1>1. hpc = "recv" /\ down = <<>> /\ up = <<>> /\ ppc = "ended"
    BY DEF HandlerReturns, GoodEnd
<1>2. Wire = <<>>
    BY <1>1 DEF Wire, AtHandler, AtProxy, Held
<1>3. Live
    BY <1>1 DEF Live, HandlerEnded
<1>4. Completes(have.offset, <<>>, produced, pos)
    BY <1>2, <1>3 DEF Coming, LastOffset
<1>5. have.rows \in Seq(Nat) /\ UpTo(have.rows, produced, have.offset)
    BY ReplyTyped DEF TypeOK, ClientType, Kept, CutAtOffset
<1>. QED
    BY <1>4, <1>5, Nothing DEF Completes

LEMMA HandlerControl ==
    ASSUME TypeOK, Stages, Upwards, GoodEnd, Coming, Kept, HandlerStep
    PROVE  Stages' /\ Upwards' /\ GoodEnd'
<1> USE DEF TypeOK, ClientType, EdgeType, AgentType, OneFault, Running, AtEnd, StreamGone,
            HandlerEnded, ProxyEnded, AgentEnded, ScanEnded
<1>1. CASE HandlerMakes
  <2>1. Stages' /\ Upwards'
    BY <1>1 DEF Stages, Upwards, HandlerMakes
  <2>2. GoodEnd'
    BY <1>1 DEF GoodEnd, Stages, HandlerMakes
  <2>. QED
    BY <2>1, <2>2
<1>2. CASE HandlerCannot
  <2>1. Stages' /\ Upwards'
    BY <1>2 DEF Stages, Upwards, HandlerCannot
  <2>2. GoodEnd'
    BY <1>2 DEF GoodEnd, Stages, HandlerCannot
  <2>. QED
    BY <2>1, <2>2
<1>3. CASE HandlerReads
  <2>1. Stages' /\ Upwards'
    BY <1>3 DEF Stages, Upwards, HandlerReads
  <2>2. GoodEnd'
    BY <1>3 DEF GoodEnd, Stages, HandlerReads
  <2>. QED
    BY <2>1, <2>2
<1>4. CASE HandlerRecvs
  <2>1. Stages' /\ Upwards'
    BY <1>4 DEF Stages, Upwards, HandlerRecvs
  <2>2. GoodEnd'
    BY <1>4 DEF GoodEnd, Stages, HandlerRecvs
  <2>. QED
    BY <2>1, <2>2
<1>5. CASE HandlerWrites
  <2>1. Stages' /\ Upwards'
    BY <1>5 DEF Stages, Upwards, HandlerWrites
  <2>2. GoodEnd'
    BY <1>5 DEF GoodEnd, Stages, HandlerWrites
  <2>. QED
    BY <2>1, <2>2
<1>6. CASE HandlerWriteFails
  <2>1. Stages' /\ Upwards'
    BY <1>6 DEF Stages, Upwards, HandlerWriteFails
  <2>2. GoodEnd'
    BY <1>6 DEF GoodEnd, Stages, HandlerWriteFails
  <2>. QED
    BY <2>1, <2>2
<1>7. CASE HandlerReturns
  <2>1. Stages' /\ Upwards'
    BY <1>7 DEF Stages, Upwards, HandlerReturns
  <2>2. downEnd = "OutOfRange" /\ client = "here" => have.rows = produced
    BY <1>7, ReturnsComplete
  <2>3. GoodEnd'
    BY <1>7, <2>2 DEF GoodEnd, HandlerReturns
  <2>. QED
    BY <2>1, <2>3
<1>. QED
    BY <1>1, <1>2, <1>3, <1>4, <1>5, <1>6, <1>7 DEF HandlerStep

LEMMA ProxyControl ==
    ASSUME TypeOK, Stages, Upwards, GoodEnd, ProxyStep
    PROVE  Stages' /\ Upwards' /\ GoodEnd'
<1> USE DEF TypeOK, ClientType, EdgeType, AgentType, OneFault, Running, AtEnd, StreamGone,
            HandlerEnded, ProxyEnded, AgentEnded, ScanEnded
<1>1. CASE ProxyOpens
  <2>1. Stages' /\ Upwards'
    BY <1>1 DEF Stages, Upwards, ProxyOpens
  <2>2. GoodEnd'
    BY <1>1 DEF GoodEnd, Stages, ProxyOpens
  <2>. QED
    BY <2>1, <2>2
<1>2. CASE ProxyCannot
  <2>1. Stages' /\ Upwards'
    BY <1>2 DEF Stages, Upwards, ProxyCannot, ProxyReturns, StatusOf
  <2>2. GoodEnd'
    BY <1>2 DEF GoodEnd, Stages, ProxyCannot, ProxyReturns, StatusOf
  <2>. QED
    BY <2>1, <2>2
<1>3. CASE ProxyEnds
  <2>1. Stages' /\ Upwards'
    BY <1>3 DEF Stages, Upwards, ProxyEnds, ProxyReturns, StatusOf
  <2>2. GoodEnd'
    BY <1>3 DEF GoodEnd, Stages, ProxyEnds, ProxyReturns, StatusOf
  <2>. QED
    BY <2>1, <2>2
<1>4. CASE ProxyRecvs
  <2>1. Stages' /\ Upwards'
    BY <1>4 DEF Stages, Upwards, ProxyRecvs
  <2>2. GoodEnd'
    BY <1>4 DEF GoodEnd, Stages, ProxyRecvs
  <2>. QED
    BY <2>1, <2>2
<1>5. CASE ProxySends
  <2>1. Stages' /\ Upwards'
    BY <1>5 DEF Stages, Upwards, ProxySends
  <2>2. GoodEnd'
    BY <1>5 DEF GoodEnd, Stages, ProxySends
  <2>. QED
    BY <2>1, <2>2
<1>6. CASE ProxyStops
  <2>1. Stages' /\ Upwards'
    BY <1>6 DEF Stages, Upwards, ProxyStops
  <2>2. GoodEnd'
    BY <1>6 DEF GoodEnd, Stages, ProxyStops
  <2>. QED
    BY <2>1, <2>2
<1>. QED
    BY <1>1, <1>2, <1>3, <1>4, <1>5, <1>6 DEF ProxyStep

LEMMA AgentControl ==
    ASSUME TypeOK, Stages, Upwards, GoodEnd, AgentStep \/ TransformFails
    PROVE  Stages' /\ Upwards' /\ GoodEnd'
<1> USE DEF TypeOK, ClientType, EdgeType, AgentType, OneFault, Running, AtEnd, StreamGone,
            HandlerEnded, ProxyEnded, AgentEnded, ScanEnded
<1>1. CASE AgentReads
  <2>1. Stages' /\ Upwards'
    BY <1>1 DEF Stages, Upwards, AgentReads
  <2>2. GoodEnd'
    BY <1>1 DEF GoodEnd, Stages, AgentReads
  <2>. QED
    BY <2>1, <2>2
<1>2. CASE Take
  <2>1. pos' <= spos /\ spos' = spos
    <3>1. chunk # <<>> /\ Below(chunk, spos) /\ pos' = chunk[Len(chunk)] + 1
      BY <1>2 DEF Take, Upwards, After, Last
    <3>2. Len(chunk) \in DOMAIN chunk
      BY <3>1, Seqs, EmptySeq
    <3>3. chunk[Len(chunk)] < spos /\ chunk[Len(chunk)] \in Nat /\ spos \in Nat
      BY <3>1, <3>2, Seqs DEF Below
    <3>. QED
      BY <1>2, <3>1, <3>3, SMTT(30) DEF Take
  <2>2. Stages' /\ Upwards'
    BY <1>2, <2>1 DEF Stages, Upwards, Take
  <2>3. GoodEnd'
    BY <1>2 DEF GoodEnd, Stages, Take
  <2>. QED
    BY <2>2, <2>3
<1>3. CASE FlushNothing
  <2>1. Stages' /\ Upwards'
    BY <1>3 DEF Stages, Upwards, FlushNothing
  <2>2. GoodEnd'
    BY <1>3 DEF GoodEnd, Stages, FlushNothing
  <2>. QED
    BY <2>1, <2>2
<1>4. CASE Flush
  <2>1. Stages' /\ Upwards'
    BY <1>4 DEF Stages, Upwards, Flush
  <2>2. GoodEnd'
    BY <1>4 DEF GoodEnd, Stages, Flush
  <2>. QED
    BY <2>1, <2>2
<1>5. CASE FlushFails
  <2>1. Stages' /\ Upwards'
    BY <1>5 DEF Stages, Upwards, FlushFails, AgentReturns
  <2>2. GoodEnd'
    BY <1>5 DEF GoodEnd, Stages, FlushFails, AgentReturns
  <2>. QED
    BY <2>1, <2>2
<1>6. CASE AgentEnds
  <2>1. Stages' /\ Upwards'
    BY <1>6 DEF Stages, Upwards, AgentEnds, AgentReturns
  <2>2. GoodEnd'
    BY <1>6 DEF GoodEnd, Stages, AgentEnds, AgentReturns
  <2>. QED
    BY <2>1, <2>2
<1>7. CASE AgentWatches
  <2>1. Stages' /\ Upwards'
    BY <1>7 DEF Stages, Upwards, AgentWatches
  <2>2. GoodEnd'
    BY <1>7 DEF GoodEnd, Stages, AgentWatches
  <2>. QED
    BY <2>1, <2>2
<1>8. CASE WatchPanics
    BY <1>8, GoneControl DEF WatchPanics
<1>9. CASE TransformFails
  <2>1. Stages' /\ Upwards'
    BY <1>9 DEF Stages, Upwards, TransformFails, AgentReturns
  <2>2. GoodEnd'
    BY <1>9 DEF GoodEnd, Stages, TransformFails, AgentReturns
  <2>. QED
    BY <2>1, <2>2
<1>. QED
    BY <1>1, <1>2, <1>3, <1>4, <1>5, <1>6, <1>7, <1>8, <1>9 DEF AgentStep

LEMMA ScanControl ==
    ASSUME TypeOK, Stages, Upwards, GoodEnd, ScanStep
    PROVE  Stages' /\ Upwards' /\ GoodEnd'
<1> USE DEF TypeOK, ClientType, EdgeType, AgentType, OneFault, Running, AtEnd, StreamGone,
            HandlerEnded, ProxyEnded, AgentEnded, ScanEnded
<1>1. CASE ScanGives
  <2>1. /\ chunk' # <<>> /\ Increasing(chunk') /\ Below(chunk', spos') /\ spos <= spos'
        /\ From(spos, chunk') /\ chunk' \in Seq(Nat) /\ spos' \in Nat
    BY <1>1, GivesRun
  <2>2. Running => pos <= spos'
    BY <1>1, <2>1 DEF ScanGives, Upwards
  <2>3. Running => From(pos, chunk')
    <3>1. SUFFICES ASSUME Running, NEW i \in DOMAIN chunk' PROVE pos <= chunk'[i]
      BY DEF From
    <3>2. pos <= spos /\ spos <= chunk'[i] /\ chunk'[i] \in Nat
      BY <1>1, <2>1, <3>1, Seqs DEF ScanGives, Upwards, From
    <3>. QED
      BY <3>2
  <2>4. Upwards'
    BY <1>1, <2>1, <2>2, <2>3 DEF Upwards, ScanGives
  <2>5. Stages'
    BY <1>1 DEF Stages, ScanGives
  <2>6. GoodEnd'
    BY <1>1 DEF GoodEnd, Stages, ScanGives
  <2>. QED
    BY <2>4, <2>5, <2>6
<1>2. CASE ScanEnds
  <2>1. Stages' /\ Upwards'
    BY <1>2 DEF Stages, Upwards, ScanEnds, ScanReturns
  <2>2. GoodEnd'
    BY <1>2 DEF GoodEnd, Stages, ScanEnds, ScanReturns
  <2>. QED
    BY <2>1, <2>2
<1>3. CASE ScanFails
  <2>1. Stages' /\ Upwards'
    BY <1>3 DEF Stages, Upwards, ScanFails, ScanReturns
  <2>2. GoodEnd'
    BY <1>3 DEF GoodEnd, Stages, ScanFails, ScanReturns
  <2>. QED
    BY <2>1, <2>2
<1>4. CASE SendStops
  <2>1. Stages' /\ Upwards'
    BY <1>4 DEF Stages, Upwards, SendStops, ScanReturns, ContextDone
  <2>2. GoodEnd'
    BY <1>4 DEF GoodEnd, Stages, SendStops, ScanReturns, ContextDone
  <2>. QED
    BY <2>1, <2>2
<1>. QED
    BY <1>1, <1>2, <1>3, <1>4 DEF ScanStep

-----------------------------------------------------------------------------
(***************************************************************************)
(* The replies between the agent and the client.                           *)
(***************************************************************************)
LEMMA WireTyped ==
    ASSUME TypeOK
    PROVE  /\ AtHandler \in Seq(Reply) /\ AtProxy \in Seq(Reply) /\ Wire \in Seq(Reply)
           /\ Held(hpc, "write", hhold) \in Seq(Reply) /\ Held(ppc, "send", phold) \in Seq(Reply)
           /\ down \in Seq(Reply) /\ up \in Seq(Reply)
<1>1. /\ Held(hpc, "write", hhold) \in Seq(Reply) /\ Held(ppc, "send", phold) \in Seq(Reply)
      /\ down \in Seq(Reply) /\ up \in Seq(Reply)
    BY DEF TypeOK, EdgeType, Held
<1>2. AtHandler \in Seq(Reply) /\ AtProxy \in Seq(Reply)
    BY <1>1, Joined DEF AtHandler, AtProxy
<1>. QED
    BY <1>1, <1>2, Joined DEF Wire

LEMMA FirstAndRest ==
    ASSUME NEW P, NEW q \in Seq(P), q # <<>>
    PROVE  /\ <<Head(q)>> \o Tail(q) = <<>> \o q
           /\ Head(q) \in P /\ Tail(q) \in Seq(P)
<1>1. Head(q) \in P /\ Tail(q) \in Seq(P) /\ Tail(q) = SubSeq(q, 2, Len(q)) /\ Head(q) = q[1]
    BY HeadTailProperties, TailIsSubSeq
<1>2. 1 \in 1 .. Len(q) /\ Len(q) \in 1 .. Len(q)
    BY EmptySeq
<1>3. SubSeq(q, 1, Len(q)) = <<q[1]>> \o SubSeq(q, 1 + 1, Len(q))
    BY <1>2, SubSeqRecursiveFirst
<1>4. SubSeq(q, 1, Len(q)) = q /\ <<>> \o q = q /\ 1 + 1 = 2
    BY SubSeqFull, ConcatEmptySeq
<1>. QED
    BY <1>1, <1>3, <1>4

LEMMA HandedOn ==
    ASSUME NEW h \in Seq(Reply), NEW d \in Seq(Reply), NEW u \in Seq(Reply), NEW r \in Reply
    PROVE  (h \o d) \o (<<r>> \o u) = (h \o Append(d, r)) \o (<<>> \o u)
<1> DEFINE q == <<r>>
<1>1. q \in Seq(Reply) /\ h \o d \in Seq(Reply) /\ <<>> \o u = u
    BY Joined, ConcatEmptySeq
<1>2. Append(d, r) = d \o q
    BY AppendIsConcat
<1> HIDE DEF q
<1>3. ((h \o d) \o q) \o u = (h \o d) \o (q \o u)
    BY <1>1, Regroup, SMTT(30)
<1>4. (h \o d) \o q = h \o (d \o q)
    BY <1>1, Regroup, SMTT(30)
<1>. QED
    BY <1>1, <1>2, <1>3, <1>4 DEF q

LEMMA PutIn ==
    ASSUME NEW x \in Seq(Reply), NEW h \in Seq(Reply), NEW u \in Seq(Reply), NEW q \in Seq(Reply)
    PROVE  x \o (h \o (u \o q)) = (x \o (h \o u)) \o q
<1>1. (h \o u) \o q = h \o (u \o q)
    BY Regroup, SMTT(30)
<1>2. h \o u \in Seq(Reply)
    BY Joined
<1>3. (x \o (h \o u)) \o q = x \o ((h \o u) \o q)
    BY <1>2, Regroup, SMTT(30)
<1>. QED
    BY <1>1, <1>3

Replies == Ordered /\ Kept /\ Coming

\* Most steps hand a reply on, or do nothing about replies that are waited for.
LEMMA SameReplies ==
    ASSUME TypeOK, Replies, UNCHANGED <<have, given, produced, pos, acc>>,
           Live' => /\ Live /\ Wire' = Wire /\ out' = out
                    /\ ~StreamGone' => ~StreamGone
                    /\ upEnd' = "EOF" \/ downEnd' = "OutOfRange"
                          => upEnd = "EOF" \/ downEnd = "OutOfRange"
    PROVE  Replies'
<1>1. Ordered'
    BY DEF Replies, Ordered
<1>2. Kept'
    BY DEF Replies, Kept, CutAtOffset
<1>3. Coming'
    BY DEF Replies, Coming
<1>. QED
    BY <1>1, <1>2, <1>3 DEF Replies

LEMMA AskReplies ==
    ASSUME NodeReadAssumption, TypeOK, Replies, Ask
    PROVE  Replies'
<1>1. /\ have.rows \in Seq(Nat) /\ have.acc \in Seq(Nat) /\ have.offset \in Int
      /\ given \in Seq(Nat) /\ produced \in Seq(Nat)
    BY ReplyTyped DEF TypeOK, ClientType, AgentType
<1>2. /\ UpTo(have.acc, given, have.offset) /\ UpTo(have.rows, produced, have.offset)
      /\ -1 <= have.offset
    BY DEF Replies, Kept, CutAtOffset
<1>3. /\ Increasing(have.acc) /\ Below(have.acc, have.offset + 1)
      /\ Increasing(have.rows) /\ Below(have.rows, have.offset + 1)
    BY <1>1, <1>2, CutItself
<1>4. /\ have' = have /\ given' = have.acc /\ acc' = have.acc /\ produced' = have.rows
      /\ pos' = have.offset + 1 /\ out' = <<>>
      /\ hpc' = "make" /\ ppc' = "idle" /\ down' = <<>> /\ up' = <<>>
    BY DEF Ask
<1>5. (have.offset + 1) - 1 = have.offset /\ have.offset + 1 \in Int /\ have.offset < have.offset + 1
  <2>1. \A x \in Int : (x + 1) - 1 = x /\ x + 1 \in Int /\ x < x + 1
    OBVIOUS
  <2>. QED
    BY <1>1, <2>1
<1>6. /\ UpTo(have.acc, have.acc, have.offset) /\ UpTo(have.rows, have.rows, have.offset)
      /\ \A s \in Seq(Nat) : UpTo(s, have.rows, have.offset) => s = have.rows
    BY <1>1, <1>3, <1>5, All
<1>7. Ordered'
    BY <1>3, <1>4 DEF Ordered
<1>8. Kept'
    BY <1>2, <1>4, <1>5, <1>6 DEF Kept, CutAtOffset
<1>9. Coming'
  <2>1. Wire' = <<>>
    BY <1>4 DEF Wire, AtHandler, AtProxy, Held
  <2>2. Completes(have.offset, <<>>, have.rows, have.offset + 1)
    BY <1>2, <1>5, <1>6, Nothing DEF Completes
  <2>3. LastOffset(Wire', have'.offset) = have.offset
    BY <1>4, <2>1 DEF LastOffset
  <2>4. Chain(Wire', have'.offset, given', produced', pos')
    BY <2>1 DEF Chain
  <2>. QED
    BY <1>4, <2>2, <2>3, <2>4 DEF Coming
<1>. QED
    BY <1>7, <1>8, <1>9 DEF Replies

\* A dead connection takes replies from some point on; no more are expected.
LEMMA LostReplies ==
    ASSUME TypeOK, Replies, ConnectionLost, UNCHANGED <<have, given, produced, pos, acc>>,
           UNCHANGED <<client, hpc, hhold, down, downEnd, ppc, phold>>,
           downEnd = "OutOfRange" => up = <<>>
    PROVE  Replies'
<1>1. Ordered'
    BY DEF Replies, Ordered
<1>2. Kept'
    BY DEF Replies, Kept, CutAtOffset
<1>3. Coming'
  <2>1. SUFFICES ASSUME Live, Coming PROVE Coming'
    BY DEF Replies, Coming, Live, HandlerEnded
  <2>2. /\ StreamGone' /\ (up = <<>> => up' = <<>>)
        /\ upEnd' = "EOF" => upEnd = "EOF" /\ up' = up
    BY LostKeeps DEF StreamGone
  <2>3. AtHandler' = AtHandler
    BY DEF AtHandler, Held
  <2>4. up' = up => Wire' = Wire
    BY <2>3 DEF Wire, AtProxy, Held
  <2>5. Chain(Wire', have.offset, given, produced, pos)
    <3>1. PICK rest \in Seq(Reply) : up = up' \o rest
      BY LostKeeps
    <3> DEFINE h == Held(ppc, "send", phold)
    <3>2. /\ rest \in Seq(Reply) /\ up' \in Seq(Reply) /\ h \in Seq(Reply) /\ AtHandler \in Seq(Reply)
      BY LostTypes, WireTyped
    <3>3. Wire = AtHandler \o (h \o (up' \o rest)) /\ Wire' = AtHandler \o (h \o up')
      BY <2>3, <3>1 DEF Wire, AtProxy, Held
    <3> HIDE DEF h
    <3>4. PICK x \in Seq(Reply), c \in Seq(Reply), u \in Seq(Reply) :
              x = AtHandler /\ c = h /\ u = up'
      BY <3>2
    <3>5. /\ Wire = x \o (c \o (u \o rest))
          /\ Wire' = x \o (c \o u)
      BY <3>3, <3>4
    <3>6. x \o (c \o (u \o rest)) = (x \o (c \o u)) \o rest
      BY PutIn, SMTT(30)
    <3>7. Wire = Wire' \o rest
      BY ONLY <3>5, <3>6
    <3>8. Wire' \in Seq(Reply)
      BY <3>2, <3>3, Joined
    <3>9. Chain(Wire' \o rest, have.offset, given, produced, pos)
      BY <2>1, <3>7 DEF Coming
    <3>. QED
      BY <3>8, <3>9, ChainCut
  <2>6. upEnd' = "EOF" \/ downEnd' = "OutOfRange" =>
            Completes(LastOffset(Wire', have.offset), <<>>, produced, pos)
    BY <2>1, <2>2, <2>4 DEF Coming
  <2>. QED
    BY <2>2, <2>5, <2>6 DEF Coming
<1>. QED
    BY <1>1, <1>2, <1>3 DEF Replies

LEMMA EnvReplies ==
    ASSUME TypeOK, Replies, GoodEnd,
           ClientLeaves \/ Stores \/ LinkDies \/ AgentCrashes \/ NodeReturns
    PROVE  Replies'
<1> USE DEF Live, HandlerEnded, StreamGone, Wire, AtHandler, AtProxy
<1>1. CASE ClientLeaves
    BY <1>1, SameReplies DEF ClientLeaves
<1>2. CASE Stores
    BY <1>2, SameReplies DEF Stores
<1>3. CASE LinkDies
    BY <1>3, LostReplies DEF LinkDies, GoodEnd
<1>4. CASE AgentCrashes
    BY <1>4, LostReplies DEF AgentCrashes, AgentGone, GoodEnd
<1>5. CASE NodeReturns
    BY <1>5, SameReplies DEF NodeReturns, Ended
<1>. QED
    BY <1>1, <1>2, <1>3, <1>4, <1>5

\* The client gets the next reply.
LEMMA WritesReplies ==
    ASSUME TypeOK, Replies, HandlerWrites, client = "here"
    PROVE  Replies'
<1>1. Ordered'
    BY DEF HandlerWrites, Replies, Ordered
<1> DEFINE rest == down \o AtProxy
<1>2. /\ have \in Reply /\ hhold \in Reply /\ down \in Seq(Reply) /\ AtProxy \in Seq(Reply)
      /\ have.rows \in Seq(Nat) /\ hhold.rows \in Seq(Nat)
    BY WireTyped, ReplyTyped DEF TypeOK, ClientType, EdgeType
<1>3. /\ hpc = "write" /\ hpc' = "recv" /\ Live /\ Live'
      /\ UNCHANGED <<down, downEnd, ppc, phold, up, upEnd, node, given, produced, pos, acc, out>>
    BY DEF HandlerWrites, Live, HandlerEnded
<1>4. AtHandler = <<hhold>> \o down /\ AtHandler' = <<>> \o down /\ AtProxy' = AtProxy
    BY <1>3 DEF AtHandler, AtProxy, Held
<1>5. <<hhold>> \in Seq(Reply)
    BY <1>2
<1>6. Wire = <<hhold>> \o rest
    BY <1>2, <1>4, <1>5, Regroup DEF Wire
<1>7. Wire' = rest
    BY <1>2, <1>4, ConcatEmptySeq DEF Wire
<1>8. rest \in Seq(Reply)
    BY <1>2, Joined
<1> HIDE DEF rest
<1>9. have' \in Reply /\ have'.offset = hhold.offset /\ have'.acc = hhold.acc
      /\ have'.rows = have.rows \o hhold.rows
    <2>1. have' = [hhold EXCEPT !.rows = have.rows \o hhold.rows]
      BY DEF HandlerWrites
    <2>2. have.rows \o hhold.rows \in Seq(Nat)
      BY <1>2, Joined
    <2>. QED
      BY <1>2, <2>1, <2>2 DEF Reply
<1>10. /\ Fits(have.offset, hhold, given, produced, pos)
       /\ Chain(rest, hhold.offset, given, produced, pos)
       /\ LastOffset(Wire, have.offset) = LastOffset(rest, hhold.offset)
    BY <1>2, <1>3, <1>6, <1>8, ChainTail DEF Replies, Coming
<1>11. Kept'
    BY <1>2, <1>3, <1>9, <1>10 DEF Replies, Kept, CutAtOffset, Fits
<1>12. StreamGone' = StreamGone
    BY <1>3 DEF StreamGone
<1>13. Coming'
    BY <1>3, <1>7, <1>9, <1>10, <1>12 DEF Replies, Coming
<1>. QED
    BY <1>1, <1>11, <1>13 DEF Replies

LEMMA HandlerReplies ==
    ASSUME TypeOK, Replies, Stages, HandlerStep
    PROVE  Replies'
<1> USE DEF Live, HandlerEnded, StreamGone, AtHandler, AtProxy
<1>1. CASE HandlerMakes
    BY <1>1, SameReplies DEF HandlerMakes, Wire, Held
<1>2. CASE HandlerCannot
    BY <1>2, SameReplies DEF HandlerCannot
<1>3. CASE HandlerReads
    BY <1>3, SameReplies DEF HandlerReads, Stages, Wire, Held
<1>4. CASE HandlerRecvs
  <2>1. <<Head(down)>> \o Tail(down) = <<>> \o down
    BY <1>4, WireTyped, FirstAndRest DEF HandlerRecvs
  <2>2. AtHandler' = AtHandler
    BY <1>4, <2>1 DEF HandlerRecvs, Held
  <2>3. Wire' = Wire
    BY <1>4, <2>2 DEF HandlerRecvs, Wire
  <2>. QED
    BY <1>4, <2>3, SameReplies DEF HandlerRecvs
<1>5. CASE HandlerWrites
  <2>1. CASE client = "here"
    BY <1>5, <2>1, WritesReplies
  <2>2. CASE client = "gone"
    BY <1>5, <2>2, SameReplies DEF HandlerWrites
  <2>. QED
    BY <2>1, <2>2 DEF TypeOK, ClientType
<1>6. CASE HandlerWriteFails
    BY <1>6, SameReplies DEF HandlerWriteFails
<1>7. CASE HandlerReturns
    BY <1>7, SameReplies DEF HandlerReturns
<1>. QED
    BY <1>1, <1>2, <1>3, <1>4, <1>5, <1>6, <1>7 DEF HandlerStep

LEMMA ProxyReplies ==
    ASSUME TypeOK, Replies, ProxyStep
    PROVE  Replies'
<1> USE DEF Live, HandlerEnded, StreamGone, AtHandler, AtProxy
<1>1. CASE ProxyOpens
    BY <1>1, SameReplies DEF ProxyOpens, Wire, Held
<1>2. CASE ProxyCannot
    BY <1>2, SameReplies DEF ProxyCannot, ProxyReturns, StatusOf, Wire, Held
<1>3. CASE ProxyEnds
    BY <1>3, SameReplies DEF ProxyEnds, ProxyReturns, StatusOf, Wire, Held
<1>4. CASE ProxyRecvs
  <2>1. <<Head(up)>> \o Tail(up) = <<>> \o up
    BY <1>4, WireTyped, FirstAndRest DEF ProxyRecvs
  <2>2. AtProxy' = AtProxy
    BY <1>4, <2>1 DEF ProxyRecvs, Held
  <2>3. Wire' = Wire
    BY <1>4, <2>2 DEF ProxyRecvs, Wire
  <2>. QED
    BY <1>4, <2>3, SameReplies DEF ProxyRecvs
<1>5. CASE ProxySends
  <2> DEFINE h == Held(hpc, "write", hhold)
  <2>1. phold \in Reply /\ h \in Seq(Reply) /\ down \in Seq(Reply) /\ up \in Seq(Reply)
    BY WireTyped DEF TypeOK, EdgeType
  <2>2. Wire = (h \o down) \o (<<phold>> \o up)
    BY <1>5 DEF ProxySends, Wire, Held
  <2>3. Wire' = (h \o Append(down, phold)) \o (<<>> \o up)
    BY <1>5 DEF ProxySends, Wire, Held
  <2> HIDE DEF h
  <2>4. (h \o down) \o (<<phold>> \o up) = (h \o Append(down, phold)) \o (<<>> \o up)
    BY <2>1, HandedOn
  <2>5. Wire' = Wire
    BY ONLY <2>2, <2>3, <2>4
  <2>. QED
    BY <1>5, <2>5, SameReplies DEF ProxySends
<1>6. CASE ProxyStops
    BY <1>6, SameReplies DEF ProxyStops
<1>. QED
    BY <1>1, <1>2, <1>3, <1>4, <1>5, <1>6 DEF ProxyStep

\* A batch goes through the transformer.
LEMMA TakeReplies ==
    ASSUME TypeOK, Replies, Upwards, GoodEnd, Take
    PROVE  Replies'
<1>1. PICK rows \in RowsOf(chunk) : out' = out \o rows /\ produced' = produced \o rows
    BY DEF Take
<1>2. /\ given \in Seq(Nat) /\ produced \in Seq(Nat) /\ out \in Seq(Nat) /\ chunk \in Seq(Nat)
      /\ pos \in Nat /\ spos \in Nat /\ have \in Reply /\ have.offset \in Int
    BY ReplyTyped DEF TypeOK, ClientType, AgentType
<1>3. /\ rows \in Seq(Nat) /\ Increasing(rows)
      /\ \A i \in DOMAIN rows : \E j \in DOMAIN chunk : rows[i] = chunk[j]
    BY <1>1, <1>2, RowsTyped
<1>4. /\ chunk # <<>> /\ Increasing(chunk) /\ From(pos, chunk)
      /\ apc = "fetch" /\ given' = given \o chunk /\ acc' = acc \o chunk
      /\ pos' = chunk[Len(chunk)] + 1
      /\ UNCHANGED <<have, client, hpc, hhold, down, downEnd, ppc, phold, up, upEnd, node>>
    BY DEF Take, Upwards, Running, After, Last
<1>5. /\ Len(chunk) \in Nat /\ Len(chunk) \in 1 .. Len(chunk) /\ DOMAIN chunk = 1 .. Len(chunk)
      /\ \A i \in 1 .. Len(chunk) : chunk[i] \in Nat
    BY <1>2, <1>4, Seqs, EmptySeq
<1>6. pos' \in Nat /\ pos <= pos'
  <2>1. pos <= chunk[Len(chunk)] /\ chunk[Len(chunk)] \in Nat
    BY <1>4, <1>5 DEF From
  <2>. QED
    BY <1>2, <1>4, <2>1, SMTT(30)
<1>7. Below(chunk, pos')
  <2>1. SUFFICES ASSUME NEW i \in DOMAIN chunk PROVE chunk[i] < pos'
    BY DEF Below
  <2>2. i = Len(chunk) \/ i < Len(chunk)
    BY ONLY <1>5, <2>1
  <2>3. i < Len(chunk) => chunk[i] < chunk[Len(chunk)]
    BY <1>4, <1>5 DEF Increasing
  <2>4. chunk[i] \in Nat /\ chunk[Len(chunk)] \in Nat
    BY <1>5
  <2>. QED
    BY <1>4, <2>2, <2>3, <2>4
<1>8. From(pos, rows) /\ Below(rows, pos')
    BY <1>3, <1>4, <1>7 DEF From, Below
<1>9. /\ acc = given /\ Increasing(given) /\ Below(given, pos)
      /\ Increasing(produced) /\ Below(produced, pos)
    BY DEF Replies, Ordered
<1>10. /\ Increasing(given \o chunk) /\ Below(given \o chunk, pos')
       /\ Increasing(produced \o rows) /\ Below(produced \o rows, pos')
    BY <1>2, <1>3, <1>4, <1>6, <1>7, <1>8, <1>9, Extends
<1>11. Ordered'
    BY <1>1, <1>4, <1>9, <1>10 DEF Ordered
<1>12. Kept'
  <2>1. /\ UpTo(have.acc, given, have.offset) /\ UpTo(have.rows, produced, have.offset)
        /\ -1 <= have.offset /\ have.offset < pos
    BY DEF Replies, Kept, CutAtOffset
  <2>2. have.acc \in Seq(Nat) /\ have.rows \in Seq(Nat)
    BY <1>2, ReplyTyped
  <2>3. UpTo(have.acc, given \o chunk, have.offset)
    BY <1>2, <1>4, <1>9, <1>10, <2>1, <2>2, CutGrows, SMTT(30)
  <2>4. UpTo(have.rows, produced \o rows, have.offset)
    BY <1>2, <1>3, <1>8, <1>9, <1>10, <2>1, <2>2, CutGrows
  <2>. QED
    BY <1>1, <1>2, <1>4, <1>6, <2>1, <2>3, <2>4, SMTT(30) DEF Kept, CutAtOffset
<1>13. Coming'
  <2>1. Wire' = Wire /\ StreamGone' = StreamGone /\ (Live' <=> Live)
    BY <1>4 DEF Wire, AtHandler, AtProxy, Held, StreamGone, Live, HandlerEnded
  <2>2. SUFFICES ASSUME Live, Coming PROVE Coming'
    BY <2>1 DEF Replies, Coming
  <2>3. Wire \in Seq(Reply)
    BY WireTyped
  <2>4. Chain(Wire, have.offset, given \o chunk, produced \o rows, pos')
    <3>1. Chain(Wire, have.offset, given, produced, pos)
      BY <2>2 DEF Coming
    <3>2. pos \in Int /\ pos' \in Int
      BY <1>2, <1>6
    <3>. QED
      BY ONLY <1>2, <1>3, <1>4, <1>6, <1>8, <1>9, <1>10, <2>3, <3>1, <3>2, ChainGrows, Zenon
  <2>5. ~StreamGone =>
            Completes(LastOffset(Wire, have.offset), out \o rows, produced \o rows, pos')
    <3>1. LastOffset(Wire, have.offset) \in Int
      BY <1>2, <2>3, ChainTyped
    <3>2. ~StreamGone => Completes(LastOffset(Wire, have.offset), out, produced, pos)
      BY <2>2 DEF Coming
    <3>. QED
      BY <1>2, <1>3, <1>6, <1>8, <1>9, <1>10, <3>1, <3>2, CompletesGrows
  <2>6. ~(upEnd = "EOF" \/ downEnd = "OutOfRange")
    BY <1>4 DEF GoodEnd, AtEnd
  <2>. QED
    BY <1>1, <1>4, <2>1, <2>4, <2>5, <2>6 DEF Coming
<1>. QED
    BY <1>11, <1>12, <1>13 DEF Replies

\* The agent sends what it has made.
LEMMA FlushReplies ==
    ASSUME TypeOK, Replies, GoodEnd, Flush
    PROVE  Replies'
<1>1. /\ UNCHANGED <<have, given, produced, pos, acc, client, hpc, hhold, down, downEnd, ppc,
                     phold, upEnd, node>>
      /\ apc = "flush" /\ out' = <<>>
    BY DEF Flush
<1>2. Ordered' /\ Kept'
    BY <1>1 DEF Replies, Ordered, Kept, CutAtOffset
<1>3. StreamGone' = StreamGone /\ (Live' <=> Live) /\ AtHandler' = AtHandler
    BY <1>1 DEF StreamGone, Live, HandlerEnded, AtHandler, Held
<1>4. ~(upEnd = "EOF" \/ downEnd = "OutOfRange")
    BY <1>1 DEF GoodEnd, AtEnd
<1>5. CASE StreamGone
  <2>1. Wire' = Wire
    BY <1>1, <1>3, <1>5 DEF Flush, Wire, AtProxy, Held
  <2>2. Coming'
    BY <1>1, <1>3, <1>4, <1>5, <2>1 DEF Replies, Coming
  <2>. QED
    BY <1>2, <2>2 DEF Replies
<1>6. CASE ~StreamGone
  <2> DEFINE r == [rows |-> out, acc |-> acc, offset |-> pos - 1]
             o == LastOffset(Wire, have.offset)
             h == Held(ppc, "send", phold)
  <2>1. /\ given \in Seq(Nat) /\ produced \in Seq(Nat) /\ out \in Seq(Nat) /\ pos \in Nat
        /\ acc \in Seq(Nat) /\ have.offset \in Int
    BY ReplyTyped DEF TypeOK, ClientType, AgentType
  <2>2. /\ Wire \in Seq(Reply) /\ AtHandler \in Seq(Reply) /\ up \in Seq(Reply) /\ h \in Seq(Reply)
    BY WireTyped
  <2>3. r \in Reply /\ r.offset = pos - 1
    BY <2>1, ReplyTyped
  <2>4. o \in Int
    BY <2>1, <2>2, ChainTyped
  <2>5. up' = Append(up, r)
    BY <1>6 DEF Flush
  <2>6. /\ acc = given /\ Increasing(given) /\ Below(given, pos)
        /\ Increasing(produced) /\ Below(produced, pos)
    BY DEF Replies, Ordered
  <2>7. SUFFICES ASSUME Live, Coming PROVE Coming'
    BY <1>2, <1>3 DEF Replies, Coming
  <2>8. Completes(o, out, produced, pos) /\ Chain(Wire, have.offset, given, produced, pos)
    BY <1>6, <2>7 DEF Coming
  <2> HIDE DEF o
  <2>9. Fits(o, r, given, produced, pos) /\ Completes(pos - 1, <<>>, produced, pos)
    BY <2>1, <2>4, <2>6, <2>8, Sent
  <2> HIDE DEF r
  <2>10. <<r>> \in Seq(Reply) /\ up' = up \o <<r>>
    BY <2>2, <2>3, <2>5, AppendIsConcat
  <2>11. Wire' = AtHandler \o (h \o (up \o <<r>>)) /\ Wire = AtHandler \o (h \o up)
    BY <1>1, <1>3, <2>10 DEF Wire, AtProxy
  <2> HIDE DEF h
  <2>12. Wire' = Wire \o <<r>>
    BY <2>2, <2>10, <2>11, PutIn, SMTT(30)
  <2>13. /\ Chain(Wire', have.offset, given, produced, pos)
         /\ LastOffset(Wire', have.offset) = pos - 1
    BY <2>2, <2>3, <2>8, <2>9, <2>12, ChainAppend DEF o
  <2>. QED
    BY <1>1, <1>3, <1>4, <2>9, <2>13 DEF Coming
<1>. QED
    BY <1>5, <1>6

\* The data end: the rows were sent before.
LEMMA EndReplies ==
    ASSUME TypeOK, Replies, Stages, AgentEnds
    PROVE  Replies'
<1>1. /\ UNCHANGED <<have, given, produced, pos, acc, out, client, hpc, hhold, down, downEnd, ppc,
                     phold, up, node>>
      /\ apc = "fetch"
      /\ upEnd' = "EOF" => upEnd = "EOF" \/ ~StreamGone
    BY DEF AgentEnds, AgentReturns
<1>2. Ordered' /\ Kept'
    BY <1>1 DEF Replies, Ordered, Kept, CutAtOffset
<1>3. Wire' = Wire /\ StreamGone' = StreamGone /\ (Live' <=> Live)
    BY <1>1 DEF Wire, AtHandler, AtProxy, Held, StreamGone, Live, HandlerEnded
<1>4. out = <<>>
    BY <1>1 DEF Stages
<1>5. Coming'
    BY <1>1, <1>3, <1>4 DEF Replies, Coming
<1>. QED
    BY <1>2, <1>5 DEF Replies

LEMMA AgentReplies ==
    ASSUME TypeOK, Replies, Stages, Upwards, GoodEnd, AgentStep \/ TransformFails
    PROVE  Replies'
<1> USE DEF Live, HandlerEnded, StreamGone, Wire, AtHandler, AtProxy, Held
<1>1. CASE AgentReads
    BY <1>1, SameReplies DEF AgentReads
<1>2. CASE Take
    BY <1>2, TakeReplies
<1>3. CASE FlushNothing
    BY <1>3, SameReplies DEF FlushNothing
<1>4. CASE Flush
    BY <1>4, FlushReplies
<1>5. CASE FlushFails
    BY <1>5, SameReplies DEF FlushFails, AgentReturns
<1>6. CASE AgentEnds
    BY <1>6, EndReplies
<1>7. CASE AgentWatches
    BY <1>7, SameReplies DEF AgentWatches
<1>8. CASE WatchPanics
    BY <1>8, LostReplies DEF WatchPanics, AgentGone, GoodEnd
<1>9. CASE TransformFails
    BY <1>9, SameReplies DEF TransformFails, AgentReturns
<1>. QED
    BY <1>1, <1>2, <1>3, <1>4, <1>5, <1>6, <1>7, <1>8, <1>9 DEF AgentStep

LEMMA ScanReplies ==
    ASSUME TypeOK, Replies, ScanStep
    PROVE  Replies'
BY SameReplies DEF ScanStep, ScanGives, ScanEnds, ScanFails, SendStops, ScanReturns,
                   Live, HandlerEnded, StreamGone, Wire, AtHandler, AtProxy, Held

-----------------------------------------------------------------------------
(***************************************************************************)
(* The theorems.                                                           *)
(***************************************************************************)
LEMMA InitInv == NodeReadAssumption /\ Init => IndInv
<1>. SUFFICES ASSUME NodeReadAssumption, Init PROVE IndInv
    OBVIOUS
<1>1. TypeOK
    BY InitTypes
<1>2. <<>> \in Seq(Nat) /\ DOMAIN <<>> = {} /\ Len(<<>>) = 0
    BY EmptySeq
<1>3. Increasing(<<>>) /\ Below(<<>>, 0)
    BY DEF Increasing, Below
<1>4. UpTo(<<>>, <<>>, -1)
    BY <1>2, <1>3 DEF UpTo, IsPrefix
<1>5. Ordered /\ Stages /\ Upwards /\ GoodEnd
    BY <1>3 DEF Init, Ordered, Stages, Upwards, GoodEnd, Running
<1>6. Kept
    BY <1>4 DEF Init, NoReply, Kept, CutAtOffset
<1>7. Coming
    BY DEF Init, Coming, Live, HandlerEnded
<1>. QED
    BY <1>1, <1>5, <1>6, <1>7 DEF IndInv

LEMMA StutterInv ==
    ASSUME IndInv, UNCHANGED vars
    PROVE  IndInv'
<1> USE DEF vars, IndInv
<1>1. TypeOK'
    BY DEF TypeOK, ClientType, EdgeType, AgentType
<1>2. Stages' /\ Upwards' /\ GoodEnd'
    BY DEF Stages, Upwards, GoodEnd, Running, AtEnd, StreamGone
<1>3. Replies'
    BY SameReplies DEF Replies, Live, HandlerEnded, StreamGone, Wire, AtHandler, AtProxy, Held
<1>. QED
    BY <1>1, <1>2, <1>3 DEF Replies

LEMMA NextInv ==
    ASSUME NodeReadAssumption, IndInv, [Next]_vars
    PROVE  IndInv'
<1>. TypeOK /\ Replies /\ Stages /\ Upwards /\ GoodEnd /\ Coming /\ Kept
    BY DEF IndInv, Replies
<1>0. SUFFICES TypeOK' /\ Replies' /\ Stages' /\ Upwards' /\ GoodEnd'
    BY DEF IndInv, Replies
<1>1. CASE Ask
    BY <1>1, AskTypes, AskReplies, AskControl DEF Kept
<1>2. CASE ClientLeaves \/ Stores \/ LinkDies \/ AgentCrashes \/ NodeReturns
    BY <1>2, EnvTypes, EnvReplies, EnvControl
<1>3. CASE HandlerStep
    BY <1>3, HandlerTypes, HandlerReplies, HandlerControl
<1>4. CASE ProxyStep
    BY <1>4, ProxyTypes, ProxyReplies, ProxyControl
<1>5. CASE AgentStep \/ TransformFails
    BY <1>5, AgentTypes, AgentReplies, AgentControl DEF Upwards
<1>6. CASE ScanStep
    BY <1>6, ScanTypes, ScanReplies, ScanControl
<1>7. CASE UNCHANGED vars
    BY <1>7, StutterInv DEF IndInv, Replies
<1>. QED
    BY <1>1, <1>2, <1>3, <1>4, <1>5, <1>6, <1>7 DEF Next, Rest

\* Every reply on its way to a client that waits fits the one before it, and
\* what the agent still holds follows the last: readNode, both Server.Reads.
THEOREM Inductive == Spec => []IndInv
<1>1. Init => IndInv
    BY InitInv, NodeReadAssumption
<1>2. IndInv /\ [Next]_vars => IndInv'
    BY NextInv, NodeReadAssumption
<1>. QED
    BY <1>1, <1>2, PTL DEF Spec

\* Every variable keeps its type.
THEOREM TypeCorrect == Spec => []TypeOK
<1>1. IndInv => TypeOK
    BY DEF IndInv
<1>. QED
    BY <1>1, Inductive, PTL

\* What a client has is a consistent cut, through any number of queries that
\* went on from its last reply and however the ones before ended.
THEOREM CutsAreConsistent == Spec => []CutAtOffset
<1>1. IndInv => CutAtOffset
    BY DEF IndInv, Kept
<1>. QED
    BY <1>1, Inductive, PTL

\* The status that readNode takes for the end of the data comes after every
\* row, and only when the storage came to the end of the range.
THEOREM GoodEndIsTrue == Spec => []EndIsComplete
<1>1. IndInv => EndIsComplete
    BY DEF IndInv, GoodEnd, AtEnd, EndIsComplete
<1>. QED
    BY <1>1, Inductive, PTL
=============================================================================
