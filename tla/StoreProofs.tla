----------------------------- MODULE StoreProofs -----------------------------
(* What Store guarantees for every value of its constants. *)
EXTENDS Store, SequenceTheorems, FiniteSetTheorems, TLAPS

USE DEF Files, Procs, Record

LEMMA AppendElements ==
    ASSUME NEW S, NEW seq \in Seq(S), NEW e \in S
    PROVE  /\ Append(seq, e) # <<>>
           /\ \A i \in DOMAIN Append(seq, e) :
                 \/ i \in DOMAIN seq /\ Append(seq, e)[i] = seq[i]
                 \/ Append(seq, e)[i] = e
           /\ ToSet(seq) \subseteq ToSet(Append(seq, e)) /\ e \in ToSet(Append(seq, e))
<1>1. DOMAIN seq = 1 .. Len(seq) /\ Len(seq) \in Nat
    BY LenProperties
<1>2. Append(seq, e) \in Seq(S) /\ Len(Append(seq, e)) = Len(seq) + 1
    BY AppendProperties
<1>3. DOMAIN Append(seq, e) = 1 .. Len(seq) + 1
    BY <1>2, LenProperties
<1>4. \A i \in 1 .. Len(seq) : Append(seq, e)[i] = seq[i]
    BY AppendProperties
<1>5. Append(seq, e)[Len(seq) + 1] = e /\ Append(seq, e) # <<>>
    BY AppendProperties
<1>6. ToSet(seq) \subseteq ToSet(Append(seq, e)) /\ e \in ToSet(Append(seq, e))
    BY <1>1, <1>3, <1>4, <1>5 DEF ToSet
<1>. QED
    BY <1>1, <1>3, <1>4, <1>5, <1>6

LEMMA ConcatElements ==
    ASSUME NEW S, NEW s \in Seq(S), NEW t \in Seq(S)
    PROVE  ToSet(s) \subseteq ToSet(s \o t) /\ ToSet(t) \subseteq ToSet(s \o t)
<1>1. /\ DOMAIN s = 1 .. Len(s) /\ DOMAIN t = 1 .. Len(t)
      /\ Len(s) \in Nat /\ Len(t) \in Nat
    BY LenProperties
<1>2. /\ s \o t \in Seq(S) /\ Len(s \o t) = Len(s) + Len(t)
      /\ \A i \in 1 .. Len(s) : (s \o t)[i] = s[i]
      /\ \A i \in 1 .. Len(t) : (s \o t)[Len(s) + i] = t[i]
    BY ConcatProperties
<1>3. DOMAIN (s \o t) = 1 .. Len(s) + Len(t)
    BY <1>2, LenProperties
<1>4. ASSUME NEW i \in 1 .. Len(t) PROVE t[i] \in ToSet(s \o t)
  <2>1. Len(s) + i \in 1 .. Len(s) + Len(t) /\ (s \o t)[Len(s) + i] = t[i]
    BY <1>1, <1>2
  <2>. QED
    BY <1>3, <2>1 DEF ToSet
<1>5. ASSUME NEW i \in 1 .. Len(s) PROVE s[i] \in ToSet(s \o t)
  <2>1. i \in 1 .. Len(s) + Len(t) /\ (s \o t)[i] = s[i]
    BY <1>1, <1>2
  <2>. QED
    BY <1>3, <2>1 DEF ToSet
<1>. QED
    BY <1>1, <1>4, <1>5 DEF ToSet

LEMMA BlocksAreFiles ==
    ASSUME IndInv, NEW u \in URIs, NEW i \in DOMAIN blocksets[u]
    PROVE  blocksets[u][i] \in Files
<1>1. blocksets[u] \in Seq(Files)
    BY DEF IndInv, TypeOK, StoreType
<1>. QED
    BY ONLY <1>1, i \in DOMAIN blocksets[u], LenProperties, ElementOfSeq

LEMMA InitIndInv == Init => IndInv
<1> SUFFICES ASSUME Init PROVE IndInv
    OBVIOUS
<1> USE StoreAssumption DEF Init
<1>1. TypeOK
    BY DEF TypeOK, NoFileYet, NoBlock, Stages, DiskType, StoreType, LockType, CallType, ReadType, CountType
<1>2. CallsNeedStorage /\ CountsMatch /\ RowsNeedSentinel /\ BatchesFit
    BY DEF CallsNeedStorage, CountsMatch, RowsNeedSentinel, BatchesFit, NoFileYet, NoBlock
<1>3. PublishedReady /\ CallsTarget /\ FilesOwned /\ LocksHeld
    BY DEF PublishedReady, CallsTarget, FilesOwned, FileOwnedBy, LocksHeld
<1>4. BlockBound
    BY DEF BlockBound, NoFileYet
<1>. QED
    BY <1>1, <1>2, <1>3, <1>4 DEF IndInv

-----------------------------------------------------------------------------
(***************************************************************************)
(* Steps that leave the files and the blocksets alone.                     *)
(***************************************************************************)
LEMMA StorageSame ==
    ASSUME IndInv, UNCHANGED <<disk, status, blk, blocksets>>
    PROVE  CountsMatch' /\ RowsNeedSentinel' /\ PublishedReady' /\ BlockBound'
BY DEF IndInv, CountsMatch, RowsNeedSentinel, PublishedReady, BlockBound

LEMMA BeginWriteKeeps ==
    ASSUME IndInv, NEW w \in Writers, NEW u \in URIs, NEW k \in WriteSizes,
           BeginWrite(w, u, k)
    PROVE  IndInv'
<1> USE StoreAssumption DEF BeginWrite, IndInv, diskVars, storeVars, lockVars,
        makeVars, seenVars
<1>1. TypeOK'
  <2>1. DiskType' /\ StoreType' /\ LockType'
    BY DEF TypeOK, DiskType, StoreType, LockType
  <2>2. CallType'
    BY DEF TypeOK, CallType, CountType
  <2>3. ReadType' /\ CountType'
    BY DEF TypeOK, ReadType, CountType
  <2>. QED
    BY <2>1, <2>2, <2>3 DEF TypeOK
<1>2. CountsMatch' /\ RowsNeedSentinel' /\ PublishedReady' /\ BlockBound'
    BY StorageSame
<1>3. CallsNeedStorage'
    BY DEF CallsNeedStorage
<1>4. BatchesFit'
    BY DEF BatchesFit, TypeOK, CallType
<1>5. CallsTarget'
    BY DEF CallsTarget, TypeOK, CallType
<1>6. FilesOwned'
    BY DEF FilesOwned, FileOwnedBy, TypeOK, CallType
<1>7. LocksHeld'
    BY DEF LocksHeld, TypeOK, CallType, Rolling
<1>. QED
    BY <1>1, <1>2, <1>3, <1>4, <1>5, <1>6, <1>7

LEMMA BeginReadKeeps ==
    ASSUME IndInv, NEW r \in Readers, NEW u \in URIs, NEW s \in Starts,
           NEW e \in Ends, BeginRead(r, u, s, e)
    PROVE  IndInv'
<1> USE StoreAssumption DEF BeginRead, IndInv, diskVars, storeVars, lockVars,
        makeVars, seenVars
<1>1. TypeOK'
  <2>1. DiskType' /\ StoreType' /\ LockType'
    BY DEF TypeOK, DiskType, StoreType, LockType
  <2>2. CallType'
    BY DEF TypeOK, CallType
  <2>3. Stored(u, s, e) \in SUBSET Record
    BY DEF Stored, RowsIn, FilesOf, TypeOK, DiskType
  <2>4. got' \in [Readers -> Seq(Int \X Record)]
    BY EmptySeq DEF TypeOK, ReadType
  <2>5. ReadType'
    <3>1. s \in Int /\ e \in Int
      OBVIOUS
    <3>2. start' \in [Readers -> Int] /\ end' \in [Readers -> Int]
      BY <3>1 DEF TypeOK, ReadType
    <3>3. must' \in [Readers -> SUBSET Record]
      BY <2>3 DEF TypeOK, ReadType
    <3>. QED
      BY <2>4, <3>2, <3>3 DEF TypeOK, ReadType
  <2>6. CountType'
    BY DEF TypeOK, CountType
  <2>. QED
    BY <2>1, <2>2, <2>5, <2>6 DEF TypeOK
<1>2. CountsMatch' /\ RowsNeedSentinel' /\ PublishedReady' /\ BlockBound'
    BY StorageSame
<1>3. CallsNeedStorage'
    BY DEF CallsNeedStorage
<1>4. BatchesFit'
    BY DEF BatchesFit, TypeOK, CallType
<1>5. CallsTarget'
    BY DEF CallsTarget, TypeOK, CallType
<1>6. FilesOwned'
    BY DEF FilesOwned, FileOwnedBy, TypeOK, CallType
<1>7. LocksHeld'
    BY DEF LocksHeld, TypeOK, CallType, Rolling
<1>. QED
    BY <1>1, <1>2, <1>3, <1>4, <1>5, <1>6, <1>7

LEMMA LookupFoundKeeps ==
    ASSUME IndInv, NEW p \in Procs, LookupFound(p)
    PROVE  IndInv'
<1> USE StoreAssumption DEF LookupFound, IndInv, diskVars, storeVars, lockVars,
        callVars, makeVars, seenVars, countVars, Use
<1>1. TypeOK'
    BY DEF TypeOK, DiskType, StoreType, LockType, CallType, ReadType, CountType
<1>2. CountsMatch' /\ RowsNeedSentinel' /\ PublishedReady' /\ BlockBound'
    BY StorageSame
<1>3. CallsNeedStorage' /\ BatchesFit'
    BY DEF CallsNeedStorage, BatchesFit, TypeOK, CallType
<1>4. CallsTarget'
    BY DEF CallsTarget, TypeOK, CallType
<1>5. FilesOwned'
    BY DEF FilesOwned, FileOwnedBy, TypeOK, CallType
<1>6. LocksHeld'
    BY DEF LocksHeld, TypeOK, CallType, Rolling
<1>. QED
    BY <1>1, <1>2, <1>3, <1>4, <1>5, <1>6

LEMMA LookupMissingKeeps ==
    ASSUME IndInv, NEW p \in Procs, LookupMissing(p)
    PROVE  IndInv'
<1> USE StoreAssumption DEF LookupMissing, IndInv, diskVars, storeVars, callVars,
        makeVars, seenVars, countVars
<1>1. TypeOK'
    BY DEF TypeOK, DiskType, StoreType, LockType, CallType, ReadType, CountType
<1>2. CountsMatch' /\ RowsNeedSentinel' /\ PublishedReady' /\ BlockBound'
    BY StorageSame
<1>3. CallsNeedStorage' /\ BatchesFit'
    BY DEF CallsNeedStorage, BatchesFit, TypeOK, CallType
<1>4. CallsTarget'
    BY DEF CallsTarget, TypeOK, CallType
<1>5. FilesOwned'
    BY DEF FilesOwned, FileOwnedBy, TypeOK, CallType
<1>6. LocksHeld'
    BY DEF LocksHeld, CallsTarget, TypeOK, CallType, LockType, Rolling
<1>. QED
    BY <1>1, <1>2, <1>3, <1>4, <1>5, <1>6

LEMMA AppendRollsKeeps ==
    ASSUME IndInv, NEW w \in Writers, AppendRolls(w)
    PROVE  IndInv'
<1> USE StoreAssumption DEF AppendRolls, IndInv, storeVars, callVars,
        makeVars, seenVars, countVars
<1>1. TypeOK'
    BY DEF TypeOK, DiskType, StoreType, LockType, CallType, ReadType, CountType
<1>2. CountsMatch' /\ RowsNeedSentinel' /\ PublishedReady' /\ BlockBound'
    BY StorageSame
<1>3. CallsNeedStorage' /\ BatchesFit'
    BY DEF CallsNeedStorage, BatchesFit, TypeOK, CallType
<1>4. CallsTarget'
    BY DEF CallsTarget, TypeOK, CallType
<1>5. FilesOwned'
    BY DEF FilesOwned, FileOwnedBy, TypeOK, CallType
<1>6. LocksHeld'
    BY DEF LocksHeld, FilesOwned, FileOwnedBy, CallsTarget, TypeOK, CallType, LockType, Rolling
<1>. QED
    BY <1>1, <1>2, <1>3, <1>4, <1>5, <1>6

\* A step inside the loop of SQLite.Read.
LEMMA ReadLoopKeeps ==
    ASSUME IndInv, NEW r \in Readers, NEW label \in {"scan", "send", "done"},
           pc[r] \in {"scan", "send"}, pc' = [pc EXCEPT ![r] = label],
           ReadType', CountType',
           UNCHANGED <<disk, storeVars, lockVars, target, batch, makeVars>>
    PROVE  IndInv'
<1> USE StoreAssumption DEF IndInv, storeVars, lockVars, makeVars
<1>1. TypeOK'
    BY DEF TypeOK, DiskType, StoreType, LockType, CallType
<1>2. CountsMatch' /\ RowsNeedSentinel' /\ PublishedReady' /\ BlockBound'
    BY StorageSame
<1>3. CallsNeedStorage' /\ BatchesFit'
    BY DEF CallsNeedStorage, BatchesFit, TypeOK, CallType
<1>4. CallsTarget'
    BY DEF CallsTarget, TypeOK, CallType
<1>5. FilesOwned'
    BY DEF FilesOwned, FileOwnedBy, TypeOK, CallType
<1>6. LocksHeld'
    BY DEF LocksHeld, TypeOK, CallType, Rolling
<1>. QED
    BY <1>1, <1>2, <1>3, <1>4, <1>5, <1>6

LEMMA LeastIs ==
    ASSUME NEW a \in Int, NEW b \in Int
    PROVE  Least(a, b) \in Int /\ Least(a, b) <= a /\ Least(a, b) <= b
BY DEF Least

\* What block.read returns: (seq, record) pairs.
LEMMA BlockReadType ==
    ASSUME DiskType, NEW f \in Files, NEW s \in Int, NEW e \in Int
    PROVE  BlockRead(f, s, e) \in Seq(Int \X Record)
<1> DEFINE lo == IF s > disk[f].base THEN s - disk[f].base + 1 ELSE 1
           hi == Least(Least(Len(disk[f].rows), e - disk[f].base), lo + BatchLimit - 1)
           n  == hi - lo + 1
<1>1. /\ disk[f].base \in Int /\ disk[f].rows \in Seq(Record)
      /\ Len(disk[f].rows) \in Nat
    BY DEF DiskType
<1>. /\ BatchLimit \in Nat /\ BatchLimit >= 1
    BY StoreAssumption
<1>2. lo \in Nat /\ lo >= 1 /\ hi \in Int /\ hi <= Len(disk[f].rows) /\ n \in Int
  <2>1. lo \in Nat /\ lo >= 1
    BY <1>1
  <2>2. /\ Len(disk[f].rows) \in Int
        /\ e - disk[f].base \in Int /\ lo + BatchLimit - 1 \in Int
    BY <1>1, <2>1
  <2>3. /\ Least(Len(disk[f].rows), e - disk[f].base) \in Int
        /\ Least(Len(disk[f].rows), e - disk[f].base) <= Len(disk[f].rows)
    BY <2>2, LeastIs
  <2> HIDE DEF lo
  <2>4. /\ hi \in Int
        /\ hi <= Least(Len(disk[f].rows), e - disk[f].base)
    BY <2>2, <2>3, LeastIs
  <2>5. hi <= Len(disk[f].rows)
    BY <1>1, <2>3, <2>4
  <2> HIDE DEF hi
  <2>6. n \in Int
    BY <2>1, <2>4
  <2>. QED
    BY <2>1, <2>4, <2>5, <2>6
<1> HIDE DEF lo, hi
<1>3. ASSUME NEW i \in 1 .. n
      PROVE  <<RowSeq(f, lo + i - 1), disk[f].rows[lo + i - 1]>> \in Int \X Record
  <2>1. lo + i - 1 \in 1 .. Len(disk[f].rows)
    BY <1>2
  <2>2. disk[f].rows[lo + i - 1] \in Record
    BY <1>1, <2>1
  <2>3. RowSeq(f, lo + i - 1) \in Int
    BY <1>1, <1>2 DEF RowSeq
  <2>. QED
    BY <2>2, <2>3
<1>4. CASE n \in Nat
  <2>1. BlockRead(f, s, e) =
          [i \in 1 .. n |-> <<RowSeq(f, lo + i - 1), disk[f].rows[lo + i - 1]>>]
    BY DEF BlockRead, lo, hi
  <2>2. BlockRead(f, s, e) \in [1 .. n -> Int \X Record]
    BY <1>3, <2>1
  <2>. QED
    BY <1>4, <2>2
<1>5. CASE n \notin Nat
  <2>1. 1 .. n = {}
    BY <1>2, <1>5
  <2>2. BlockRead(f, s, e) = <<>>
    BY <2>1 DEF BlockRead, lo, hi
  <2>. QED
    BY <2>2
<1>. QED
    BY <1>4, <1>5

LEMMA AnswersType ==
    ASSUME TypeOK, NEW u \in URIs, NEW s \in Int, NEW e \in Int,
           NEW A \in SUBSET Answering(u, s, e), NEW records \in Answers(A, u, s, e)
    PROVE  records \in Seq(Int \X Record) /\ records # <<>>
<1>1. PICK i \in A : records = BlockRead(blocksets[u][i], s, e)
    BY DEF Answers, FirstOf
<1>2. /\ i \in DOMAIN blocksets[u] /\ BlockRead(blocksets[u][i], s, e) # <<>>
      /\ blocksets[u][i] \in Files
  <2>1. i \in Answering(u, s, e)
    OBVIOUS
  <2>2. blocksets[u] \in Seq(Files)
    BY DEF TypeOK, StoreType
  <2>3. i \in DOMAIN blocksets[u] /\ BlockRead(blocksets[u][i], s, e) # <<>>
    BY <2>1 DEF Answering
  <2>4. i \in 1 .. Len(blocksets[u])
    BY <2>2, <2>3, LenProperties
  <2>. QED
    BY <2>2, <2>3, <2>4, ElementOfSeq
<1>. QED
    BY <1>1, <1>2, BlockReadType DEF TypeOK

LEMMA OfferType ==
    ASSUME TypeOK, NEW r \in Readers, NEW records \in Seq(Int \X Record),
           records # <<>>, Offer(r, records), UNCHANGED <<from, end, must, got>>
    PROVE  ReadType'
<1>1. Len(records) \in 1 .. Len(records)
    OBVIOUS
<1>2. NextStart(records) \in Int
    BY <1>1 DEF NextStart, Last
<1>. QED
    BY <1>2 DEF Offer, TypeOK, ReadType

LEMMA ScanSendsKeeps ==
    ASSUME IndInv, NEW r \in Readers, ScanSends(r)
    PROVE  IndInv'
<1>1. target[r] \in URIs /\ start[r] \in Int /\ end[r] \in Int
    BY DEF ScanSends, IndInv, TypeOK, ReadType, CallsTarget
<1>2. PICK records \in Answers(Answering(target[r], start[r], end[r]),
                               target[r], start[r], end[r]) : Offer(r, records)
    BY DEF ScanSends
<1>3. records \in Seq(Int \X Record) /\ records # <<>>
    BY <1>1, AnswersType DEF IndInv
<1>4. ReadType' /\ CountType'
  <2>1. ReadType'
    BY <1>2, <1>3, OfferType DEF ScanSends, IndInv
  <2>2. CountType'
    BY DEF ScanSends, IndInv, TypeOK, CountType, countVars
  <2>. QED
    BY <2>1, <2>2
<1>. QED
    BY <1>2, <1>4, ReadLoopKeeps DEF ScanSends, Offer

LEMMA ScanEndsKeeps ==
    ASSUME IndInv, NEW r \in Readers, ScanEnds(r)
    PROVE  IndInv'
<1>1. ReadType' /\ CountType'
    BY DEF ScanEnds, IndInv, TypeOK, ReadType, CountType, callVars, seenVars, countVars
<1>. QED
    BY <1>1, ReadLoopKeeps DEF ScanEnds, callVars

LEMMA ScanCutKeeps ==
    ASSUME IndInv, NEW r \in Readers, ScanCut(r)
    PROVE  IndInv'
<1> DEFINE A == Answering(target[r], start[r], end[r])
           others == A \ FirstOf(A)
<1>1. target[r] \in URIs /\ start[r] \in Int /\ end[r] \in Int
    BY DEF ScanCut, IndInv, TypeOK, ReadType, CallsTarget
<1>2. CountType'
    BY DEF ScanCut, OneFault, IndInv, TypeOK, CountType
<1>3. CASE \E records \in Answers(A, target[r], start[r], end[r]) :
              \E n \in 1 .. Len(records) - 1 : Offer(r, SubSeq(records, 1, n))
  <2>1. PICK records \in Answers(A, target[r], start[r], end[r]) :
              \E n \in 1 .. Len(records) - 1 : Offer(r, SubSeq(records, 1, n))
    BY <1>3
  <2>2. PICK n \in 1 .. Len(records) - 1 : Offer(r, SubSeq(records, 1, n))
    BY <2>1
  <2>3. records \in Seq(Int \X Record)
    BY <1>1, AnswersType DEF IndInv
  <2>4. SubSeq(records, 1, n) \in Seq(Int \X Record) /\ SubSeq(records, 1, n) # <<>>
    <3>1. \A i \in 1 .. n : records[i] \in Int \X Record
      BY <2>3
    <3>2. n \in Int /\ 1 <= n
      BY <2>3
    <3>. QED
      BY <3>1, <3>2, SubSeqProperties
  <2>5. ReadType'
    BY <2>2, <2>4, OfferType DEF ScanCut, IndInv
  <2>. QED
    BY <1>2, <2>2, <2>5, ReadLoopKeeps DEF ScanCut, Offer
<1>4. CASE \E records \in Answers(others, target[r], start[r], end[r]) : Offer(r, records)
  <2>1. PICK records \in Answers(others, target[r], start[r], end[r]) : Offer(r, records)
    BY <1>4
  <2>2. records \in Seq(Int \X Record) /\ records # <<>>
    BY <1>1, AnswersType DEF IndInv
  <2>3. ReadType'
    BY <2>1, <2>2, OfferType DEF ScanCut, IndInv
  <2>. QED
    BY <1>2, <2>1, <2>3, ReadLoopKeeps DEF ScanCut, Offer
<1>5. CASE pc' = [pc EXCEPT ![r] = "done"] /\ UNCHANGED <<chunk, start>>
  <2>1. ReadType'
    BY <1>5 DEF ScanCut, IndInv, TypeOK, ReadType
  <2>. QED
    BY <1>2, <1>5, <2>1, ReadLoopKeeps DEF ScanCut
<1>. QED
    BY <1>3, <1>4, <1>5 DEF ScanCut

LEMMA SendKeeps ==
    ASSUME IndInv, NEW r \in Readers, Send(r)
    PROVE  IndInv'
<1>1. got[r] \o chunk[r] \in Seq(Int \X Record)
    BY DEF IndInv, TypeOK, ReadType
<1>2. ReadType' /\ CountType'
  <2>1. /\ got' = [got EXCEPT ![r] = got[r] \o chunk[r]]
        /\ chunk' = [chunk EXCEPT ![r] = <<>>]
        /\ UNCHANGED <<from, start, end, must>>
        /\ UNCHANGED <<acked, calls, reads, faults, stops>>
    BY DEF Send, callVars, countVars
  <2>2. ReadType'
    BY <1>1, <2>1 DEF IndInv, TypeOK, ReadType
  <2>3. CountType'
    BY <2>1 DEF IndInv, TypeOK, CountType
  <2>. QED
    BY <2>2, <2>3
<1>. QED
    BY <1>2, ReadLoopKeeps DEF Send, callVars
-----------------------------------------------------------------------------
(***************************************************************************)
(* Making a file.  FileMade(p) says what other calls may rely on: rows     *)
(* stay, a file with its sentinel row stays as it is, and so does a file   *)
(* that another call is making.                                            *)
(***************************************************************************)
FileMade(p) ==
    /\ DiskType'
    /\ \A g \in Files :
        /\ disk'[g].rows = disk[g].rows
        /\ disk'[g].stage # "ready" => disk[g].stage # "ready"
        /\ disk[g].stage # "absent" => disk'[g].uri = disk[g].uri
        /\ disk[g].stage = "ready" => disk'[g].base = disk[g].base
        /\ \A q \in Procs \ {p} : cur[q] = g => disk'[g].stage = disk[g].stage

LEMMA NoFileChange ==
    ASSUME IndInv, NEW p \in Procs, UNCHANGED disk
    PROVE  FileMade(p)
BY DEF IndInv, TypeOK, DiskType, FileMade

LEMMA CurIsMade ==
    ASSUME IndInv, NEW f \in Files, disk[f].stage = "absent", NEW q \in Procs
    PROVE  cur[q] # f
<1>1. f # Nil
    BY StoreAssumption
<1>2. cur[q] # Nil => disk[cur[q]].stage # "absent"
    BY DEF IndInv, FilesOwned, FileOwnedBy, TypeOK, CallType
<1>. QED
    BY <1>1, <1>2

LEMMA FileAddedMakes ==
    ASSUME IndInv, NEW p \in Procs, pc[p] # "idle", NEW f \in Files, FileAdded(p, f)
    PROVE  /\ FileMade(p)
           /\ disk[f].stage = "absent"
           /\ disk'[f].stage = "partial" /\ disk'[f].uri = target[p]
<1>1. target[p] \in URIs
    BY DEF IndInv, CallsTarget
<1>2. /\ disk[f].stage = "absent"
      /\ disk' = [disk EXCEPT ![f].stage = "partial", ![f].uri = target[p]]
    BY DEF FileAdded
<1>3. disk[f].rows = <<>>
    BY <1>2 DEF IndInv, RowsNeedSentinel
<1>4. DiskType'
  <2>1. disk \in [Files -> [stage : Stages, uri : URIs \cup {Nil}, base : Int,
                            rows : Seq(Record)]]
    BY DEF IndInv, TypeOK, DiskType
  <2>2. [disk[f] EXCEPT !.stage = "partial", !.uri = target[p]]
           \in [stage : Stages, uri : URIs \cup {Nil}, base : Int, rows : Seq(Record)]
    BY <1>1, <2>1 DEF Stages
  <2>3. disk' = [disk EXCEPT ![f] = [@ EXCEPT !.stage = "partial", !.uri = target[p]]]
    BY <1>2
  <2>. QED
    BY <2>1, <2>2, <2>3 DEF DiskType
<1>5. ASSUME NEW q \in Procs PROVE cur[q] # f
    BY <1>2, CurIsMade
<1>6. disk'[f].stage = "partial" /\ disk'[f].uri = target[p] /\ disk'[f].rows = disk[f].rows
    BY <1>2 DEF IndInv, TypeOK, DiskType
<1>7. \A g \in Files \ {f} : disk'[g] = disk[g]
    BY <1>2 DEF IndInv, TypeOK, DiskType
<1>. QED
    BY <1>2, <1>3, <1>4, <1>5, <1>6, <1>7 DEF FileMade

LEMMA SentinelMakes ==
    ASSUME IndInv, NEW p \in Procs, pc[p] = "sentinel", SentinelWritten(p)
    PROVE  /\ FileMade(p)
           /\ cur[p] \in Files /\ disk[cur[p]].rows = <<>>
           /\ disk'[cur[p]].stage = "ready" /\ disk'[cur[p]].uri = target[p]
           /\ FreshBlock(BaseFor(p)) \in [count : Nat, lastSeq : Int,
                                          lastAt : {"zero", "epoch", "set"}]
           /\ FreshBlock(BaseFor(p)).count = 0
<1>1. /\ cur[p] \in Files /\ disk[cur[p]].stage = "partial"
      /\ disk[cur[p]].uri = target[p] /\ disk[cur[p]].rows = <<>>
    BY DEF IndInv, FilesOwned, FileOwnedBy, RowsNeedSentinel
<1>2. BaseFor(p) \in Int
  <2>1. CASE Rolling(p)
    <3>1. target[p] \in URIs /\ blocksets[target[p]] # <<>>
      BY <2>1 DEF IndInv, CallsTarget, LocksHeld
    <3>2. blocksets[target[p]] \in Seq(Files)
      BY <3>1 DEF IndInv, TypeOK, StoreType
    <3>3. Len(blocksets[target[p]]) \in 1 .. Len(blocksets[target[p]])
      BY <3>1, <3>2, EmptySeq
    <3>4. Last(blocksets[target[p]]) \in Files
      BY <3>2, <3>3, ElementOfSeq DEF Last
    <3>. QED
      BY <2>1, <3>4 DEF BaseFor, IndInv, TypeOK, StoreType
  <2>2. CASE ~Rolling(p)
    BY <2>2 DEF BaseFor
  <2>. QED
    BY <2>1, <2>2
<1>3. disk'[cur[p]] = [stage |-> "ready", uri |-> disk[cur[p]].uri,
                       base |-> BaseFor(p), rows |-> disk[cur[p]].rows]
    BY <1>1 DEF SentinelWritten, IndInv, TypeOK, DiskType
<1>4. \A g \in Files \ {cur[p]} : disk'[g] = disk[g]
    BY <1>1 DEF SentinelWritten, IndInv, TypeOK, DiskType
<1>5. DiskType'
  <2>1. disk'[cur[p]] \in [stage : Stages, uri : URIs \cup {Nil}, base : Int, rows : Seq(Record)]
    BY <1>1, <1>2, <1>3 DEF IndInv, TypeOK, DiskType, Stages
  <2>2. disk' = [g \in Files |-> disk'[g]]
    BY DEF SentinelWritten, IndInv, TypeOK, DiskType
  <2>3. \A g \in Files : disk'[g] \in [stage : Stages, uri : URIs \cup {Nil}, base : Int,
                                       rows : Seq(Record)]
    BY <1>4, <2>1 DEF IndInv, TypeOK, DiskType
  <2>. QED
    BY <2>2, <2>3 DEF DiskType
<1>6. \A q \in Procs \ {p} : cur[q] # cur[p]
    BY <1>1, StoreAssumption DEF IndInv, FilesOwned
<1>7. FileMade(p)
    BY <1>1, <1>3, <1>4, <1>5, <1>6 DEF FileMade
<1>. QED
    BY <1>1, <1>2, <1>3, <1>7 DEF FreshBlock

\* What FileMade leaves true whatever the step does to the making call.
LEMMA FileMadeKeeps ==
    ASSUME IndInv, NEW p \in Procs, FileMade(p)
    PROVE  /\ RowsNeedSentinel' /\ BlockBound'
           /\ UNCHANGED blocksets => PublishedReady'
           /\ UNCHANGED <<status, blk>> => CountsMatch'
<1>1. RowsNeedSentinel' /\ BlockBound'
    BY DEF FileMade, IndInv, RowsNeedSentinel, BlockBound
<1>2. ASSUME UNCHANGED blocksets PROVE PublishedReady'
    BY <1>2, BlocksAreFiles DEF FileMade, IndInv, PublishedReady
<1>3. ASSUME UNCHANGED <<status, blk>> PROVE CountsMatch'
    BY <1>3 DEF FileMade, IndInv, CountsMatch
<1>. QED
    BY <1>1, <1>2, <1>3

LEMMA MadeCounts ==
    ASSUME IndInv, NEW p \in Procs, FileMade(p), cur[p] \in Files,
           disk[cur[p]].rows = <<>>, NEW b, b.count = 0,
           blk' = [blk EXCEPT ![cur[p]] = b], status' = status
    PROVE  CountsMatch'
<1>1. \A g \in Files : disk'[g].rows = disk[g].rows
    BY DEF FileMade
<1>2. blk'[cur[p]].count = 0 /\ \A g \in Files \ {cur[p]} : blk'[g] = blk[g]
    BY DEF IndInv, TypeOK, StoreType
<1>. QED
    BY <1>1, <1>2 DEF IndInv, CountsMatch

LEMMA FirstKept ==
    ASSUME IndInv, NEW p \in Procs, FileMade(p), NEW q \in Procs, first[q] # Nil
    PROVE  disk'[first[q]].stage = "ready" /\ disk'[first[q]].uri = target[q]
<1>1. first[q] \in Files
    BY DEF IndInv, TypeOK, CallType
<1>2. disk[first[q]].stage = "ready" /\ disk[first[q]].uri = target[q]
    BY DEF IndInv, FilesOwned, FileOwnedBy
<1>. QED
    BY <1>1, <1>2 DEF FileMade

\* A call that does not move keeps the files it owns.
LEMMA OwnedKept ==
    ASSUME IndInv, NEW p \in Procs, FileMade(p), NEW q \in Procs \ {p},
           pc'[q] = pc[q], cur'[q] = cur[q], first'[q] = first[q], target'[q] = target[q],
           \A u \in URIs : ToSet(blocksets[u]) \subseteq ToSet(blocksets'[u])
    PROVE  FileOwnedBy(q)'
<1>1. FileOwnedBy(q)
    BY DEF IndInv, FilesOwned
<1>2. cur[q] \in Files => /\ disk'[cur[q]].stage = disk[cur[q]].stage
                          /\ disk'[cur[q]].rows = disk[cur[q]].rows
                          /\ disk[cur[q]].stage # "absent" =>
                                disk'[cur[q]].uri = disk[cur[q]].uri
    BY DEF FileMade
<1>3. first[q] # Nil => disk'[first[q]].stage = "ready" /\ disk'[first[q]].uri = target[q]
    BY FirstKept
<1>4. pc[q] = "rest" => target[q] \in URIs
    BY DEF IndInv, CallsTarget
<1>. QED
    BY <1>1, <1>2, <1>3, <1>4 DEF FileOwnedBy

LEMMA CreateTableKeeps ==
    ASSUME IndInv, NEW p \in Procs, CreateTable(p)
    PROVE  IndInv'
<1> USE StoreAssumption DEF CreateTable, storeVars, lockVars, callVars, seenVars, countVars
<1>1. PICK f \in Files : FileAdded(p, f) /\ cur' = [cur EXCEPT ![p] = f]
    OBVIOUS
<1>2. /\ FileMade(p) /\ disk[f].stage = "absent"
      /\ disk'[f].stage = "partial" /\ disk'[f].uri = target[p]
    BY <1>1, FileAddedMakes
<1>3. TypeOK'
  <2>1. DiskType'
    BY <1>2 DEF FileMade
  <2>2. CallType'
    BY <1>1 DEF IndInv, TypeOK, CallType
  <2>3. StoreType' /\ LockType' /\ ReadType' /\ CountType'
    BY DEF IndInv, TypeOK, StoreType, LockType, ReadType, CountType
  <2>. QED
    BY <2>1, <2>2, <2>3 DEF TypeOK
<1>4. CountsMatch' /\ RowsNeedSentinel' /\ PublishedReady' /\ BlockBound'
    BY <1>2, FileMadeKeeps
<1>5. CallsNeedStorage' /\ BatchesFit'
    BY DEF IndInv, CallsNeedStorage, BatchesFit, TypeOK, CallType
<1>6. CallsTarget'
    BY DEF IndInv, CallsTarget, TypeOK, CallType
<1>7. FilesOwned'
  <2>1. cur'[p] = f /\ \A q \in Procs \ {p} : cur'[q] = cur[q]
    BY <1>1 DEF IndInv, TypeOK, CallType
  <2>2. \A q \in Procs : cur[q] # f
    BY <1>2, CurIsMade
  <2>3. \A q, q2 \in Procs : cur'[q] = cur'[q2] /\ cur'[q] # Nil => q = q2
    BY <2>1, <2>2 DEF IndInv, FilesOwned
  <2>4. pc'[p] = "sentinel" /\ \A q \in Procs \ {p} : pc'[q] = pc[q]
    BY DEF IndInv, TypeOK, CallType
  <2>5. ASSUME NEW q \in Procs \ {p} PROVE FileOwnedBy(q)'
    BY <1>2, <2>1, <2>4, OwnedKept
  <2>6. FileOwnedBy(p)'
    <3>1. first'[p] # Nil => disk'[first'[p]].stage = "ready" /\ disk'[first'[p]].uri = target'[p]
      BY <1>2, FirstKept
    <3>. QED
      BY <1>2, <2>1, <2>4, <3>1 DEF FileOwnedBy
  <2>. QED
    BY <2>3, <2>5, <2>6 DEF FilesOwned
<1>8. LocksHeld'
    BY DEF IndInv, LocksHeld, TypeOK, CallType, Rolling
<1>. QED
    BY <1>3, <1>4, <1>5, <1>6, <1>7, <1>8 DEF IndInv
LEMMA FirstBlockMadeKeeps ==
    ASSUME IndInv, NEW p \in Procs, FirstBlockMade(p)
    PROVE  IndInv'
<1> USE StoreAssumption DEF FirstBlockMade, lockVars, callVars, seenVars, countVars
<1>1. /\ FileMade(p)
      /\ cur[p] \in Files /\ disk[cur[p]].rows = <<>>
      /\ disk'[cur[p]].stage = "ready" /\ disk'[cur[p]].uri = target[p]
      /\ FreshBlock(BaseFor(p)) \in [count : Nat, lastSeq : Int,
                                     lastAt : {"zero", "epoch", "set"}]
      /\ FreshBlock(BaseFor(p)).count = 0
    BY SentinelMakes
<1>2. TypeOK'
  <2>1. DiskType'
    BY <1>1 DEF FileMade
  <2>2. StoreType' /\ LockType' /\ ReadType' /\ CountType'
    BY <1>1 DEF IndInv, TypeOK, StoreType, LockType, ReadType, CountType
  <2>3. CallType'
    BY <1>1 DEF IndInv, TypeOK, CallType
  <2>. QED
    BY <2>1, <2>2, <2>3 DEF TypeOK
<1>3. RowsNeedSentinel' /\ PublishedReady' /\ BlockBound'
    BY <1>1, FileMadeKeeps
<1>4. CountsMatch'
    BY <1>1, MadeCounts
<1>5. CallsNeedStorage' /\ BatchesFit'
    BY DEF IndInv, CallsNeedStorage, BatchesFit, TypeOK, CallType
<1>6. CallsTarget'
    BY DEF IndInv, CallsTarget, TypeOK, CallType
<1>7. FilesOwned'
  <2>1. /\ cur'[p] = Nil /\ first'[p] = cur[p] /\ pc'[p] = "table"
        /\ \A q \in Procs \ {p} : /\ cur'[q] = cur[q] /\ first'[q] = first[q]
                                  /\ pc'[q] = pc[q] /\ target'[q] = target[q]
    BY DEF IndInv, TypeOK, CallType
  <2>2. \A q, q2 \in Procs : cur'[q] = cur'[q2] /\ cur'[q] # Nil => q = q2
    BY <2>1 DEF IndInv, FilesOwned
  <2>3. ASSUME NEW q \in Procs \ {p} PROVE FileOwnedBy(q)'
    BY <1>1, <2>1, OwnedKept
  <2>4. FileOwnedBy(p)'
    BY <1>1, <2>1 DEF FileOwnedBy
  <2>. QED
    BY <2>2, <2>3, <2>4 DEF FilesOwned
<1>8. LocksHeld'
    BY DEF IndInv, LocksHeld, TypeOK, CallType, Rolling
<1>. QED
    BY <1>2, <1>3, <1>4, <1>5, <1>6, <1>7, <1>8 DEF IndInv

LEMMA RolloverMadeKeeps ==
    ASSUME IndInv, NEW p \in Writers, RolloverMade(p)
    PROVE  IndInv'
<1> USE StoreAssumption DEF RolloverMade, lockVars, callVars, makeVars, seenVars, countVars
<1>1. /\ FileMade(p)
      /\ cur[p] \in Files /\ disk[cur[p]].rows = <<>>
      /\ disk'[cur[p]].stage = "ready" /\ disk'[cur[p]].uri = target[p]
      /\ FreshBlock(BaseFor(p)) \in [count : Nat, lastSeq : Int,
                                     lastAt : {"zero", "epoch", "set"}]
      /\ FreshBlock(BaseFor(p)).count = 0
    BY SentinelMakes
<1>2. target[p] \in URIs /\ blocksets[target[p]] \in Seq(Files)
    BY DEF IndInv, CallsTarget, TypeOK, StoreType
<1>3. /\ blocksets'[target[p]] = Append(blocksets[target[p]], cur[p])
      /\ \A u \in URIs \ {target[p]} : blocksets'[u] = blocksets[u]
    BY <1>2 DEF IndInv, TypeOK, StoreType
<1>13. /\ blocksets'[target[p]] # <<>>
       /\ \A i \in DOMAIN blocksets'[target[p]] :
             \/ i \in DOMAIN blocksets[target[p]]
                /\ blocksets'[target[p]][i] = blocksets[target[p]][i]
             \/ blocksets'[target[p]][i] = cur[p]
       /\ ToSet(blocksets[target[p]]) \subseteq ToSet(blocksets'[target[p]])
       /\ cur[p] \in ToSet(blocksets'[target[p]])
  <2> DEFINE old == blocksets[target[p]]
  <2>1. /\ Append(old, cur[p]) # <<>>
        /\ \A i \in DOMAIN Append(old, cur[p]) :
              \/ i \in DOMAIN old /\ Append(old, cur[p])[i] = old[i]
              \/ Append(old, cur[p])[i] = cur[p]
        /\ ToSet(old) \subseteq ToSet(Append(old, cur[p]))
        /\ cur[p] \in ToSet(Append(old, cur[p]))
    BY <1>1, <1>2, AppendElements
  <2>2. blocksets'[target[p]] = Append(old, cur[p])
    BY <1>3
  <2>. QED
    BY ONLY <2>1, <2>2
<1>14. \A u \in URIs : ToSet(blocksets[u]) \subseteq ToSet(blocksets'[u])
    BY <1>3, <1>13
<1>4. TypeOK'
  <2>1. DiskType'
    BY <1>1 DEF FileMade
  <2>2. Append(blocksets[target[p]], cur[p]) \in Seq(Files)
    BY <1>1, <1>2
  <2>3. blocksets' \in [URIs -> Seq(Files)]
    BY <1>2, <2>2 DEF IndInv, TypeOK, StoreType
  <2>4. StoreType' /\ LockType' /\ ReadType' /\ CountType'
    BY <1>1, <2>3 DEF IndInv, TypeOK, StoreType, LockType, ReadType, CountType
  <2>5. CallType'
    BY DEF IndInv, TypeOK, CallType
  <2>. QED
    BY <2>1, <2>4, <2>5 DEF TypeOK
<1>5. RowsNeedSentinel' /\ BlockBound'
    BY <1>1, FileMadeKeeps
<1>6. CountsMatch'
    BY <1>1, MadeCounts
<1>7. PublishedReady'
  <2>1. ASSUME NEW u \in URIs, NEW i \in DOMAIN blocksets[u]
        PROVE  /\ blocksets[u][i] \in Files
               /\ disk'[blocksets[u][i]].stage = "ready"
               /\ disk'[blocksets[u][i]].uri = u
    BY <1>1, BlocksAreFiles DEF FileMade, IndInv, PublishedReady
  <2>2. ASSUME NEW i \in DOMAIN blocksets'[target[p]]
        PROVE  /\ disk'[blocksets'[target[p]][i]].stage = "ready"
               /\ disk'[blocksets'[target[p]][i]].uri = target[p]
    <3> DEFINE g == blocksets[target[p]][i]
    <3>1. CASE i \in DOMAIN blocksets[target[p]] /\ blocksets'[target[p]][i] = g
      <4>1. disk'[g].stage = "ready" /\ disk'[g].uri = target[p]
        BY ONLY <1>2, <2>1, <3>1
      <4>. QED
        BY ONLY <3>1, <4>1
    <3>2. CASE blocksets'[target[p]][i] = cur[p]
      BY <1>1, <3>2
    <3>. QED
      BY <1>13, <3>1, <3>2
  <2>3. ASSUME NEW u \in URIs \ {target[p]}, NEW i \in DOMAIN blocksets'[u]
        PROVE  /\ disk'[blocksets'[u][i]].stage = "ready"
               /\ disk'[blocksets'[u][i]].uri = u
    BY <1>3, <2>1
  <2>4. ASSUME NEW u \in URIs, NEW i \in DOMAIN blocksets'[u]
        PROVE  /\ disk'[blocksets'[u][i]].stage = "ready"
               /\ disk'[blocksets'[u][i]].uri = u
    <3>1. CASE u = target[p]
      BY <2>2, <3>1
    <3>2. CASE u # target[p]
      BY <2>3, <3>2
    <3>. QED
      BY <3>1, <3>2
  <2>. QED
    BY <2>4 DEF PublishedReady
<1>8. CallsNeedStorage' /\ BatchesFit'
    BY DEF IndInv, CallsNeedStorage, BatchesFit, TypeOK, CallType
<1>9. \A u \in URIs : blocksets[u] # <<>> => blocksets'[u] # <<>>
    BY <1>3, <1>13
<1>10. CallsTarget'
    BY <1>13, <1>9 DEF IndInv, CallsTarget, TypeOK, CallType
<1>11. FilesOwned'
  <2>1. /\ pc'[p] = "rest"
        /\ \A q \in Procs \ {p} : pc'[q] = pc[q]
    BY DEF IndInv, TypeOK, CallType
  <2>2. \A q, q2 \in Procs : cur'[q] = cur'[q2] /\ cur'[q] # Nil => q = q2
    BY DEF IndInv, FilesOwned
  <2>3. ASSUME NEW q \in Procs \ {p} PROVE FileOwnedBy(q)'
    BY <1>1, <1>14, <2>1, OwnedKept
  <2>4. first[p] = Nil
    BY DEF IndInv, LocksHeld
  <2>5. FileOwnedBy(p)'
    BY <1>1, <1>13, <2>1, <2>4 DEF FileOwnedBy, FileMade
  <2>. QED
    BY <2>2, <2>3, <2>5 DEF FilesOwned
<1>12. LocksHeld'
  <2>1. \A q \in Procs \ {p} : pc[q] \in {"table", "sentinel"} /\ ~Rolling(q)
                               => blocksets'[target[q]] = blocksets[target[q]]
    <3>1. blocksets[target[p]] # <<>>
      BY DEF IndInv, LocksHeld
    <3>. QED
      BY <1>3, <3>1 DEF IndInv, LocksHeld, CallsTarget
  <2>. QED
    BY <1>9, <2>1 DEF IndInv, LocksHeld, CallsTarget, TypeOK, CallType, Rolling
<1>. QED
    BY <1>4, <1>5, <1>6, <1>7, <1>8, <1>10, <1>11, <1>12 DEF IndInv
-----------------------------------------------------------------------------
(***************************************************************************)
(* Steps in which a call returns or lets its locks go.                     *)
(***************************************************************************)
LEMMA ReturnFacts ==
    ASSUME IndInv, NEW p \in Procs, NEW label \in {"idle", "append", "scan"},
           ReturnTo(p, label)
    PROVE  /\ LockType'
           /\ pc'[p] = label /\ first'[p] = Nil /\ cur'[p] = Nil
           /\ \A q \in Procs \ {p} : /\ pc'[q] = pc[q] /\ cur'[q] = cur[q]
                                     /\ first'[q] = first[q]
           /\ \A u \in URIs : setLock'[u] # p
           /\ \A q \in Procs \ {p} : mapLock = q => mapLock' = q
           /\ \A u \in URIs : \A q \in Procs \ {p} : setLock[u] = q <=> setLock'[u] = q
<1> USE StoreAssumption DEF ReturnTo, Unlocked, IndInv, TypeOK
<1>1. LockType'
    BY DEF LockType
<1>2. /\ pc'[p] = label /\ first'[p] = Nil /\ cur'[p] = Nil
      /\ \A q \in Procs \ {p} : /\ pc'[q] = pc[q] /\ cur'[q] = cur[q]
                                /\ first'[q] = first[q]
    BY DEF CallType
<1>3. /\ \A u \in URIs : setLock'[u] # p
      /\ \A q \in Procs \ {p} : mapLock = q => mapLock' = q
      /\ \A u \in URIs : \A q \in Procs \ {p} : setLock[u] = q <=> setLock'[u] = q
    BY DEF LockType
<1>. QED
    BY <1>1, <1>2, <1>3

LEMMA ReturnOwned ==
    ASSUME IndInv, NEW p \in Procs, NEW label \in {"idle", "append", "scan"},
           ReturnTo(p, label), \A q \in Procs \ {p} : FileOwnedBy(q)'
    PROVE  FilesOwned'
<1>1. /\ pc'[p] = label /\ first'[p] = Nil /\ cur'[p] = Nil
      /\ \A q \in Procs \ {p} : cur'[q] = cur[q]
    BY ReturnFacts
<1>2. \A q, q2 \in Procs : cur'[q] = cur'[q2] /\ cur'[q] # Nil => q = q2
    BY <1>1 DEF IndInv, FilesOwned
<1>3. FileOwnedBy(p)'
    BY <1>1 DEF FileOwnedBy
<1>. QED
    BY <1>2, <1>3 DEF FilesOwned

LEMMA ReturnLocks ==
    ASSUME IndInv, NEW p \in Procs, NEW label \in {"idle", "append", "scan"},
           ReturnTo(p, label), UNCHANGED <<target, blocksets>>
    PROVE  LocksHeld'
<1>1. /\ pc'[p] = label
      /\ \A q \in Procs \ {p} : pc'[q] = pc[q] /\ first'[q] = first[q]
      /\ \A u \in URIs : setLock'[u] # p
      /\ \A q \in Procs \ {p} : mapLock = q => mapLock' = q
      /\ \A u \in URIs : \A q \in Procs \ {p} : setLock[u] = q <=> setLock'[u] = q
    BY ReturnFacts
<1>. QED
    BY <1>1 DEF IndInv, LocksHeld, CallsTarget, Rolling

LEMMA FaultKeeps ==
    ASSUME IndInv, NEW p \in Procs, pc[p] # "idle", Fault(p), FileMade(p),
           leaked' \subseteq Files
    PROVE  IndInv'
<1> USE StoreAssumption DEF Fault, OneFault
<1>1. /\ LockType' /\ pc'[p] = "idle" /\ first'[p] = Nil /\ cur'[p] = Nil
      /\ \A q \in Procs \ {p} : /\ pc'[q] = pc[q] /\ cur'[q] = cur[q]
                                /\ first'[q] = first[q]
    BY ReturnFacts
<1>2. TypeOK'
  <2>1. DiskType' /\ StoreType'
    BY DEF FileMade, IndInv, TypeOK, StoreType
  <2>2. CallType'
    BY DEF ReturnTo, IndInv, TypeOK, CallType
  <2>3. chunk' \in [Readers -> Seq(Int \X Record)]
    BY EmptySeq DEF IndInv, TypeOK, ReadType
  <2>4. ReadType'
    BY <2>3 DEF IndInv, TypeOK, ReadType
  <2>5. CountType'
    BY DEF IndInv, TypeOK, CountType
  <2>. QED
    BY <1>1, <2>1, <2>2, <2>4, <2>5 DEF TypeOK
<1>3. CountsMatch' /\ RowsNeedSentinel' /\ PublishedReady' /\ BlockBound'
    BY FileMadeKeeps
<1>4. CallsNeedStorage' /\ BatchesFit'
  <2>1. BatchesFit'
    BY DEF IndInv, BatchesFit
  <2>2. CallsNeedStorage'
    BY <1>1 DEF IndInv, CallsNeedStorage
  <2>. QED
    BY <2>1, <2>2
<1>5. CallsTarget'
    BY <1>1 DEF IndInv, CallsTarget
<1>6. FilesOwned'
  <2>1. ASSUME NEW q \in Procs \ {p} PROVE FileOwnedBy(q)'
    BY <1>1, OwnedKept
  <2>. QED
    BY <2>1, ReturnOwned
<1>7. LocksHeld'
    BY ReturnLocks
<1>. QED
    BY <1>2, <1>3, <1>4, <1>5, <1>6, <1>7 DEF IndInv

LEMMA LastIsElement ==
    ASSUME NEW S, NEW seq \in Seq(S), seq # <<>>
    PROVE  Last(seq) \in S /\ Last(seq) = seq[Len(seq)] /\ Len(seq) \in DOMAIN seq
<1>1. Len(seq) \in 1 .. Len(seq)
    BY EmptySeq
<1>. QED
    BY <1>1, ElementOfSeq, LenProperties DEF Last

LEMMA NewestIs ==
    ASSUME IndInv, NEW w \in Writers, pc[w] = "append"
    PROVE  /\ target[w] \in URIs
           /\ Newest(w) \in Files
           /\ disk[Newest(w)].stage = "ready" /\ disk[Newest(w)].uri = target[w]
<1>1. target[w] \in URIs /\ blocksets[target[w]] # <<>>
    BY DEF IndInv, CallsTarget
<1>2. blocksets[target[w]] \in Seq(Files)
    BY <1>1 DEF IndInv, TypeOK, StoreType
<1>3. /\ Newest(w) \in Files
      /\ Newest(w) = blocksets[target[w]][Len(blocksets[target[w]])]
      /\ Len(blocksets[target[w]]) \in DOMAIN blocksets[target[w]]
    BY <1>1, <1>2, LastIsElement DEF Newest
<1>. QED
    BY <1>1, <1>3 DEF IndInv, PublishedReady

LEMMA FaultsKeep ==
    ASSUME IndInv, NEW p \in Procs,
           \/ CreateTableFails(p)
           \/ SentinelFails(p)
           \/ p \in Writers /\ WriteFails(p)
           \/ p \in Readers /\ ReadFails(p)
    PROVE  IndInv'
<1>1. leaked \subseteq Files
    BY DEF IndInv, TypeOK, StoreType
<1>2. CASE CreateTableFails(p)
    BY <1>1, <1>2, FileAddedMakes, NoFileChange, FaultKeeps DEF CreateTableFails
<1>3. CASE SentinelFails(p)
    BY <1>1, <1>3, SentinelMakes, NoFileChange, FaultKeeps DEF SentinelFails
<1>4. CASE p \in Writers /\ WriteFails(p)
  <2>1. pc[p] = "append" => Newest(p) \in Files
    BY <1>4, NewestIs
  <2>2. pc[p] = "rest" => cur[p] \in Files
    BY DEF IndInv, FilesOwned, FileOwnedBy
  <2>3. pc[p] # "idle" /\ leaked' \subseteq Files
    BY <1>1, <1>4, <2>1, <2>2 DEF WriteFails
  <2>. QED
    BY <1>4, <2>3, NoFileChange, FaultKeeps DEF WriteFails
<1>5. CASE p \in Readers /\ ReadFails(p)
    BY <1>1, <1>5, NoFileChange, FaultKeeps DEF ReadFails
<1>. QED
    BY <1>2, <1>3, <1>4, <1>5

\* A write is over and files, blocks and blocksets stay as they are.
LEMMA WriteOverKeeps ==
    ASSUME IndInv, NEW w \in Writers, AppendBusy(w) \/ WriteReturns(w)
    PROVE  IndInv'
<1> USE StoreAssumption
<1>0. /\ ReturnTo(w, "idle") /\ batch' = [batch EXCEPT ![w] = <<>>]
      /\ UNCHANGED <<disk, status, leaked, blk, blocksets, target, from, start, end,
                     must, chunk, got, calls, reads, faults, stops>>
  <2>1. CASE AppendBusy(w)
    BY <2>1 DEF AppendBusy, storeVars, seenVars, countVars
  <2>2. CASE WriteReturns(w)
    BY <2>2 DEF WriteReturns, storeVars, seenVars, countVars
  <2>. QED
    BY <2>1, <2>2
<1>1. /\ LockType' /\ pc'[w] = "idle"
      /\ \A q \in Procs \ {w} : /\ pc'[q] = pc[q] /\ cur'[q] = cur[q]
                                /\ first'[q] = first[q]
    BY <1>0, ReturnFacts
<1>2. TypeOK'
  <2>1. CallType'
    BY <1>0 DEF ReturnTo, IndInv, TypeOK, CallType
  <2>2. DiskType' /\ StoreType' /\ ReadType'
    BY <1>0 DEF IndInv, TypeOK, DiskType, StoreType, ReadType
  <2>3. CountType'
    <3>1. CASE WriteReturns(w)
      <4>1. target[w] \in URIs /\ batch[w] \in Seq(Record)
        BY <3>1 DEF WriteReturns, IndInv, CallsTarget, TypeOK, CallType
      <4>2. ToSet(batch[w]) \subseteq Record
        BY <4>1 DEF ToSet
      <4>3. {<<target[w], rec>> : rec \in ToSet(batch[w])} \subseteq URIs \X Record
        BY <4>1, <4>2
      <4>. QED
        BY <1>0, <3>1, <4>3 DEF WriteReturns, IndInv, TypeOK, CountType
    <3>2. CASE AppendBusy(w)
      BY <1>0, <3>2 DEF AppendBusy, IndInv, TypeOK, CountType
    <3>. QED
      BY <3>1, <3>2
  <2>. QED
    BY <1>1, <2>1, <2>2, <2>3 DEF TypeOK
<1>3. CountsMatch' /\ RowsNeedSentinel' /\ PublishedReady' /\ BlockBound'
    BY <1>0, StorageSame
<1>4. CallsNeedStorage' /\ BatchesFit'
  <2>1. BatchesFit'
    BY <1>0 DEF IndInv, BatchesFit, TypeOK, CallType
  <2>2. CallsNeedStorage'
    BY <1>0, <1>1 DEF IndInv, CallsNeedStorage
  <2>. QED
    BY <2>1, <2>2
<1>5. CallsTarget'
    BY <1>0, <1>1 DEF IndInv, CallsTarget
<1>6. FilesOwned'
  <2>1. ASSUME NEW q \in Procs \ {w} PROVE FileOwnedBy(q)'
    BY <1>0, <1>1, NoFileChange, OwnedKept
  <2>. QED
    BY <1>0, <2>1, ReturnOwned
<1>7. LocksHeld'
    BY <1>0, ReturnLocks
<1>. QED
    BY <1>2, <1>3, <1>4, <1>5, <1>6, <1>7 DEF IndInv

\* The one step that adds rows: into a ready file of the caller's URI that no
\* other call is making, and that has room for them.
LEMMA CommitKeeps ==
    ASSUME IndInv, NEW w \in Writers, NEW f \in Files, pc[w] # "idle", Commit(w, f),
           disk[f].stage = "ready", disk[f].uri = target[w],
           blk[f].count + Len(batch[w]) <= MaxSize,
           setLock[target[w]] \in {Nil, w}, pc[w] \in {"append", "rest"},
           \A q \in Procs \ {w} : pc[q] = "rest" => cur[q] # f
    PROVE  IndInv'
<1> USE StoreAssumption DEF Commit, callVars, seenVars, countVars
<1>1. /\ LockType' /\ pc'[w] = "stored" /\ cur'[w] = Nil
      /\ \A q \in Procs \ {w} : /\ pc'[q] = pc[q] /\ cur'[q] = cur[q]
                                /\ first'[q] = first[q]
    BY DEF IndInv, TypeOK, LockType, CallType, Procs
<1>2. /\ status = "up" /\ target[w] \in URIs
      /\ blk[f].count = Len(disk[f].rows)
    BY DEF IndInv, CallsNeedStorage, CallsTarget, CountsMatch
<1>3. /\ disk[f].rows \in Seq(Record) /\ batch[w] \in Seq(Record)
      /\ disk[f].rows \o batch[w] \in Seq(Record)
      /\ Len(disk[f].rows \o batch[w]) = Len(disk[f].rows) + Len(batch[w])
      /\ Len(batch[w]) \in Nat /\ Len(disk[f].rows) \in Nat
  <2>1. disk[f].rows \in Seq(Record) /\ batch[w] \in Seq(Record)
    BY DEF IndInv, TypeOK, DiskType, CallType
  <2>. QED
    BY <2>1
<1>4. /\ disk'[f].rows = disk[f].rows \o batch[w]
      /\ disk'[f].stage = disk[f].stage /\ disk'[f].uri = disk[f].uri
      /\ \A g \in Files \ {f} : disk'[g] = disk[g]
    BY DEF IndInv, TypeOK, DiskType
<1>5. /\ blk'[f].count = blk[f].count + Len(batch[w])
      /\ \A g \in Files \ {f} : blk'[g] = blk[g]
    BY DEF IndInv, TypeOK, StoreType
<1>6. TypeOK'
  <2>1. DiskType'
    <3>1. disk' = [disk EXCEPT ![f].rows = disk[f].rows \o batch[w]]
      OBVIOUS
    <3>2. disk \in [Files -> [stage : Stages, uri : URIs \cup {Nil}, base : Int,
                            rows : Seq(Record)]]
      BY DEF IndInv, TypeOK, DiskType
    <3>. QED
      BY ONLY <1>3, <3>1, <3>2 DEF DiskType
  <2>2. StoreType'
    <3>1. blk[f].count + Len(batch[w]) \in Nat
      <4>1. blk[f].count \in Nat
        BY DEF IndInv, TypeOK, StoreType
      <4>2. Len(batch[w]) \in Nat
        BY <1>3
      <4>. QED
        BY <4>1, <4>2
    <3>2. blk' \in [Files -> [count : Nat, lastSeq : Int,
                              lastAt : {"zero", "epoch", "set"}]]
      BY <3>1 DEF IndInv, TypeOK, StoreType
    <3>. QED
      BY <3>2 DEF IndInv, TypeOK, StoreType
  <2>3. CallType'
    BY DEF IndInv, TypeOK, CallType
  <2>4. ReadType'
    BY DEF IndInv, TypeOK, ReadType
  <2>5. CountType'
    BY DEF IndInv, TypeOK, CountType
  <2>. QED
    BY <1>1, <2>1, <2>2, <2>3, <2>4, <2>5 DEF TypeOK
<1>7. CountsMatch'
  <2>1. blk'[f].count = Len(disk'[f].rows)
    BY <1>2, <1>3, <1>4, <1>5
  <2>2. ASSUME NEW g \in Files \ {f} PROVE blk'[g].count = Len(disk'[g].rows)
    BY ONLY <1>2, <1>4, <1>5, IndInv DEF IndInv, CountsMatch
  <2>. QED
    BY ONLY <2>1, <2>2 DEF CountsMatch
<1>8. RowsNeedSentinel'
    BY <1>4 DEF IndInv, RowsNeedSentinel
<1>9. BlockBound'
  <2>1. Len(disk'[f].rows) <= MaxSize
    BY <1>2, <1>3, <1>4
  <2>2. \A g \in Files \ {f} : Len(disk'[g].rows) <= MaxSize
    BY <1>4 DEF IndInv, BlockBound
  <2>. QED
    BY ONLY <2>1, <2>2 DEF BlockBound
<1>10. PublishedReady'
    BY <1>4, BlocksAreFiles DEF IndInv, PublishedReady
<1>11. CallsNeedStorage' /\ BatchesFit'
  <2>1. BatchesFit'
    BY DEF IndInv, BatchesFit, TypeOK, CallType
  <2>2. CallsNeedStorage'
    BY <1>1 DEF IndInv, CallsNeedStorage
  <2>. QED
    BY <2>1, <2>2
<1>12. CallsTarget'
    BY <1>1 DEF IndInv, CallsTarget
<1>13. FilesOwned'
  <2>1. ASSUME NEW q \in Procs \ {w} PROVE FileOwnedBy(q)'
    <3>1. FileOwnedBy(q)
      BY DEF IndInv, FilesOwned
    <3>2. first[q] # Nil => first[q] \in Files
      BY DEF IndInv, TypeOK, CallType
    <3>3. pc'[q] = pc[q] /\ cur'[q] = cur[q] /\ first'[q] = first[q]
      BY <1>1
    <3>4. target' = target /\ blocksets' = blocksets
      OBVIOUS
    <3>5. \A g \in Files : disk'[g].stage = disk[g].stage /\ disk'[g].uri = disk[g].uri
      BY <1>4
    <3>6. pc[q] = "rest" => cur[q] # f
      BY <1>1
    <3>. QED
      BY ONLY <1>4, <3>1, <3>2, <3>3, <3>4, <3>5, <3>6 DEF FileOwnedBy
  <2>2. FileOwnedBy(w)'
    BY <1>1 DEF IndInv, FilesOwned, FileOwnedBy
  <2>3. \A p, q \in Procs : cur'[p] = cur'[q] /\ cur'[p] # Nil => p = q
    BY <1>1 DEF IndInv, FilesOwned
  <2>. QED
    BY <2>1, <2>2, <2>3 DEF FilesOwned
<1>14. LocksHeld'
  <2>1. /\ setLock'[target[w]] = w
        /\ \A u \in URIs \ {target[w]} : setLock'[u] = setLock[u]
    BY <1>2 DEF IndInv, TypeOK, LockType
  <2>2. \A u \in URIs : \A q \in Procs \ {w} : setLock'[u] = q <=> setLock[u] = q
    BY <2>1
  <2>. QED
    BY <1>1, <1>2, <2>1, <2>2 DEF IndInv, LocksHeld, CallsTarget, Rolling
<1>. QED
    BY <1>6, <1>7, <1>8, <1>9, <1>10, <1>11, <1>12, <1>13, <1>14 DEF IndInv

LEMMA AppendFitsKeeps ==
    ASSUME IndInv, NEW w \in Writers, AppendFits(w)
    PROVE  IndInv'
<1>1. /\ target[w] \in URIs /\ Newest(w) \in Files
      /\ disk[Newest(w)].stage = "ready" /\ disk[Newest(w)].uri = target[w]
    BY NewestIs DEF AppendFits
<1>2. blk[Newest(w)].count + Len(batch[w]) <= MaxSize
  <2>1. blk[Newest(w)].count \in Nat /\ Len(batch[w]) \in Nat /\ MaxSize \in Nat
    BY <1>1, StoreAssumption DEF IndInv, TypeOK, StoreType, CallType
  <2>. QED
    BY <2>1 DEF AppendFits, Full
<1>3. ASSUME NEW q \in Procs, pc[q] = "rest" PROVE cur[q] # Newest(w)
  <2>1. setLock[target[q]] = q /\ disk[cur[q]].uri = target[q]
    BY <1>3 DEF IndInv, LocksHeld, Rolling, FilesOwned, FileOwnedBy
  <2>2. setLock[target[w]] = Nil /\ q # Nil
    BY StoreAssumption DEF AppendFits
  <2>. QED
    BY <1>1, <2>1, <2>2
<1>. QED
    BY <1>1, <1>2, <1>3, CommitKeeps DEF AppendFits

LEMMA AppendRestKeeps ==
    ASSUME IndInv, NEW w \in Writers, AppendRest(w)
    PROVE  IndInv'
<1>1. /\ cur[w] \in Files /\ disk[cur[w]].stage = "ready"
      /\ disk[cur[w]].uri = target[w] /\ disk[cur[w]].rows = <<>>
    BY DEF AppendRest, IndInv, FilesOwned, FileOwnedBy
<1>2. status = "up"
    BY DEF AppendRest, IndInv, CallsNeedStorage
<1>3. blk[cur[w]].count = 0
    BY <1>1, <1>2 DEF IndInv, CountsMatch
<1>4. blk[cur[w]].count + Len(batch[w]) <= MaxSize
  <2>1. Len(batch[w]) \in Nat /\ Len(batch[w]) <= MaxSize
    BY DEF IndInv, TypeOK, CallType, BatchesFit
  <2>. QED
    BY <1>3, <2>1
<1>5. \A q \in Procs \ {w} : cur[q] # cur[w]
    BY <1>1, StoreAssumption DEF IndInv, FilesOwned
<1>. QED
  <2>1. setLock[target[w]] = w /\ pc[w] = "rest"
    BY DEF AppendRest, IndInv, LocksHeld, Rolling
  <2>. QED
    BY <1>1, <1>4, <1>5, <2>1, CommitKeeps DEF AppendRest

LEMMA BlocksetMadeKeeps ==
    ASSUME IndInv, NEW p \in Procs, BlocksetMade(p)
    PROVE  IndInv'
<1> USE StoreAssumption DEF BlocksetMade, callVars, seenVars, countVars
<1>1. /\ FileMade(p)
      /\ cur[p] \in Files /\ disk[cur[p]].rows = <<>>
      /\ disk'[cur[p]].stage = "ready" /\ disk'[cur[p]].uri = target[p]
      /\ FreshBlock(BaseFor(p)) \in [count : Nat, lastSeq : Int,
                                     lastAt : {"zero", "epoch", "set"}]
      /\ FreshBlock(BaseFor(p)).count = 0
    BY SentinelMakes
<1>2. Use(p) \in {"idle", "append", "scan"}
    BY DEF Use
<1>3. /\ LockType'
      /\ pc'[p] = Use(p) /\ first'[p] = Nil /\ cur'[p] = Nil
      /\ \A q \in Procs \ {p} : /\ pc'[q] = pc[q] /\ cur'[q] = cur[q]
                                /\ first'[q] = first[q]
      /\ \A u \in URIs : setLock'[u] # p
      /\ \A q \in Procs \ {p} : mapLock = q => mapLock' = q
      /\ \A u \in URIs : \A q \in Procs \ {p} : setLock[u] = q <=> setLock'[u] = q
    BY <1>2, ReturnFacts
<1>4. /\ target[p] \in URIs /\ mapLock = p /\ blocksets[target[p]] = <<>>
      /\ first[p] \in Files
    BY DEF IndInv, CallsTarget, LocksHeld, TypeOK, CallType
<1>5. /\ blocksets'[target[p]] = <<first[p], cur[p]>>
      /\ \A u \in URIs \ {target[p]} : blocksets'[u] = blocksets[u]
    BY <1>4 DEF IndInv, TypeOK, StoreType
<1>6. TypeOK'
  <2>1. <<first[p], cur[p]>> \in Seq(Files)
    BY <1>1, <1>4
  <2>2. blocksets' \in [URIs -> Seq(Files)]
    BY <1>4, <2>1 DEF IndInv, TypeOK, StoreType
  <2>3. StoreType' /\ ReadType' /\ CountType'
    BY <1>1, <2>2 DEF IndInv, TypeOK, StoreType, ReadType, CountType
  <2>4. CallType'
    BY <1>2 DEF ReturnTo, IndInv, TypeOK, CallType
  <2>5. DiskType'
    BY <1>1 DEF FileMade
  <2>. QED
    BY <1>3, <2>3, <2>4, <2>5 DEF TypeOK
<1>7. RowsNeedSentinel' /\ BlockBound'
    BY <1>1, FileMadeKeeps
<1>8. CountsMatch'
    BY <1>1, MadeCounts
<1>9. PublishedReady'
  <2>1. disk'[first[p]].stage = "ready" /\ disk'[first[p]].uri = target[p]
    BY <1>1, FirstKept
  <2>2. ASSUME NEW u \in URIs \ {target[p]}, NEW i \in DOMAIN blocksets[u]
        PROVE  /\ disk'[blocksets[u][i]].stage = "ready"
               /\ disk'[blocksets[u][i]].uri = u
    BY <1>1, BlocksAreFiles DEF FileMade, IndInv, PublishedReady
  <2>3. ASSUME NEW u \in URIs, NEW i \in DOMAIN blocksets'[u]
        PROVE  /\ disk'[blocksets'[u][i]].stage = "ready"
               /\ disk'[blocksets'[u][i]].uri = u
    <3>1. CASE u = target[p]
      <4>1. blocksets'[u] = <<first[p], cur[p]>> /\ i \in {1, 2}
        BY <1>5, <3>1
      <4>2. CASE i = 1
        BY <2>1, <3>1, <4>1, <4>2
      <4>3. CASE i = 2
        BY <1>1, <3>1, <4>1, <4>3
      <4>. QED
        BY <4>1, <4>2, <4>3
    <3>2. CASE u # target[p]
      BY <1>5, <2>2, <3>2
    <3>. QED
      BY <3>1, <3>2
  <2>. QED
    BY <2>3 DEF PublishedReady
<1>10. CallsNeedStorage' /\ BatchesFit'
  <2>1. BatchesFit'
    BY DEF IndInv, BatchesFit
  <2>2. CallsNeedStorage'
    BY <1>3 DEF IndInv, CallsNeedStorage
  <2>. QED
    BY <2>1, <2>2
<1>11. \A u \in URIs : blocksets[u] # <<>> => blocksets'[u] # <<>>
    BY <1>4, <1>5
<1>12. CallsTarget'
  <2>1. blocksets'[target[p]] # <<>>
    <3>1. Len(<<first[p], cur[p]>>) = 2 /\ Len(<<>>) = 0
      BY ONLY SMT
    <3>. QED
      BY ONLY <1>5, <3>1
  <2>. QED
    BY <1>3, <1>4, <1>11, <2>1, SMTT(30) DEF IndInv, CallsTarget
<1>13. FilesOwned'
  <2>1. \A u \in URIs : ToSet(blocksets[u]) \subseteq ToSet(blocksets'[u])
    <3>1. ToSet(blocksets[target[p]]) = {}
      BY <1>4 DEF ToSet
    <3>. QED
      BY <1>5, <3>1
  <2>2. ASSUME NEW q \in Procs \ {p} PROVE FileOwnedBy(q)'
    BY <1>1, <1>3, <2>1, OwnedKept
  <2>. QED
    BY <1>2, <2>2, ReturnOwned
<1>14. LocksHeld'
  <2>1. ASSUME NEW q \in Procs \ {p} PROVE ~(mapLock = q)
    BY <1>4
  <2>2. ASSUME NEW q \in Procs \ {p}, pc[q] \in {"table", "sentinel"}
        PROVE  Rolling(q) /\ blocksets'[target[q]] # <<>> /\ first[q] = Nil
    <3>1. Rolling(q) /\ blocksets[target[q]] # <<>> /\ first[q] = Nil
      BY <2>1, <2>2 DEF IndInv, LocksHeld
    <3>2. target[q] \in URIs
      BY <2>2 DEF IndInv, CallsTarget
    <3>. QED
      BY <1>11, <3>1, <3>2
  <2>. QED
    BY <1>2, <1>3, <2>2 DEF IndInv, LocksHeld, CallsTarget, Rolling
<1>. QED
    BY <1>6, <1>7, <1>8, <1>9, <1>10, <1>12, <1>13, <1>14 DEF IndInv

-----------------------------------------------------------------------------
(***************************************************************************)
(* The process ends and starts again.                                      *)
(***************************************************************************)
LEMMA DownKeeps ==
    ASSUME IndInv, Down
    PROVE  IndInv'
<1> USE StoreAssumption DEF Down
<1>1. TypeOK'
  <2>1. DiskType' /\ StoreType' /\ LockType'
    BY DEF IndInv, TypeOK, DiskType, StoreType, LockType, NoBlock
  <2>2. CallType' /\ ReadType' /\ CountType'
    BY DEF IndInv, TypeOK, CallType, ReadType, CountType
  <2>. QED
    BY <2>1, <2>2 DEF TypeOK
<1>2. CallsNeedStorage' /\ CountsMatch' /\ RowsNeedSentinel' /\ BatchesFit' /\ BlockBound'
    BY DEF IndInv, CallsNeedStorage, CountsMatch, RowsNeedSentinel, BatchesFit, BlockBound
<1>3. PublishedReady' /\ CallsTarget' /\ FilesOwned' /\ LocksHeld'
    BY DEF PublishedReady, CallsTarget, FilesOwned, FileOwnedBy, LocksHeld
<1>. QED
    BY <1>1, <1>2, <1>3 DEF IndInv

LEMMA FunctionIsSeq ==
    ASSUME NEW S, NEW n \in Nat, NEW q \in [1 .. n -> S]
    PROVE  q \in Seq(S)
OBVIOUS

LEMMA LoadingsType ==
    ASSUME NEW u \in URIs, NEW q \in Loadings(u)
    PROVE  q \in Seq(Files) /\ \A i \in DOMAIN q : q[i] \in FilesOf(u)
<1>1. FilesOf(u) \in SUBSET (1 .. MaxFiles)
    BY DEF FilesOf
<1>2. IsFiniteSet(1 .. MaxFiles)
    BY FS_Interval, StoreAssumption
<1>3. IsFiniteSet(FilesOf(u))
    BY <1>1, <1>2, FS_Subset
<1>4. Cardinality(FilesOf(u)) \in Nat
    BY <1>3, FS_CardinalityType
<1>5. q \in [1 .. Cardinality(FilesOf(u)) -> FilesOf(u)]
    BY DEF Loadings
<1>6. q \in [1 .. Cardinality(FilesOf(u)) -> Files]
    BY <1>1, <1>5
<1>7. q \in Seq(Files)
    BY <1>4, <1>6, FunctionIsSeq
<1>. QED
    BY <1>5, <1>7

LEMMA BootKeeps ==
    ASSUME IndInv, Boot
    PROVE  IndInv'
<1> USE StoreAssumption DEF Boot, lockVars, callVars, makeVars, seenVars, countVars
<1>1. \A p \in Procs : pc[p] = "idle"
    BY DEF IndInv, CallsNeedStorage
<1>2. \A u \in URIs : blocksets'[u] \in Loadings(u)
    OBVIOUS
<1>3. \A u \in URIs : /\ blocksets'[u] \in Seq(Files)
                      /\ \A i \in DOMAIN blocksets'[u] : blocksets'[u][i] \in FilesOf(u)
    BY <1>2, LoadingsType
<1>4. ASSUME NEW f \in Files
      PROVE  /\ blk'[f] \in [count : Nat, lastSeq : Int, lastAt : {"zero", "epoch", "set"}]
             /\ blk'[f].count = Len(disk[f].rows)
  <2>1. blk'[f] = IF disk[f].stage = "ready" THEN OpenBlock(f) ELSE NoBlock
    OBVIOUS
  <2>2. Len(disk[f].rows) \in Nat /\ disk[f].base \in Int
    BY DEF IndInv, TypeOK, DiskType
  <2>3. CASE disk[f].stage = "ready"
    <3>1. RowSeq(f, Len(disk[f].rows)) \in Int
      BY ONLY <2>2 DEF RowSeq
    <3>. QED
      BY <2>1, <2>2, <2>3, <3>1 DEF OpenBlock
  <2>4. CASE disk[f].stage # "ready"
    BY <2>1, <2>4 DEF NoBlock, IndInv, RowsNeedSentinel
  <2>. QED
    BY <2>3, <2>4
<1>5. TypeOK'
  <2>1. StoreType'
    <3>1. blk' = [f \in Files |-> blk'[f]]
      OBVIOUS
    <3>2. DOMAIN blocksets' = URIs /\ blocksets' = [u \in URIs |-> blocksets'[u]]
      OBVIOUS
    <3>. QED
      BY <1>3, <1>4, <3>1, <3>2 DEF IndInv, TypeOK, StoreType
  <2>2. DiskType' /\ LockType' /\ CallType' /\ ReadType' /\ CountType'
    BY DEF IndInv, TypeOK, DiskType, LockType, CallType, ReadType, CountType
  <2>. QED
    BY <2>1, <2>2 DEF TypeOK
<1>6. CountsMatch'
    BY <1>4 DEF CountsMatch
<1>7. CallsNeedStorage' /\ RowsNeedSentinel' /\ BatchesFit' /\ BlockBound'
    BY DEF IndInv, CallsNeedStorage, RowsNeedSentinel, BatchesFit, BlockBound
<1>8. PublishedReady'
    BY <1>3 DEF PublishedReady, FilesOf
<1>9. CallsTarget' /\ FilesOwned' /\ LocksHeld'
    BY <1>1 DEF IndInv, CallsTarget, FilesOwned, FileOwnedBy, LocksHeld
<1>. QED
    BY <1>5, <1>6, <1>7, <1>8, <1>9 DEF IndInv

LEMMA BootRefusedKeeps ==
    ASSUME IndInv, BootRefused
    PROVE  IndInv'
<1> USE DEF BootRefused, lockVars, callVars, makeVars, seenVars, countVars
<1>1. \A p \in Procs : pc[p] = "idle"
    BY DEF IndInv, CallsNeedStorage
<1>2. TypeOK'
    BY DEF IndInv, TypeOK, DiskType, StoreType, LockType, CallType, ReadType, CountType
<1>3. CallsNeedStorage' /\ CountsMatch' /\ RowsNeedSentinel' /\ BatchesFit' /\ BlockBound'
    BY <1>1 DEF IndInv, CallsNeedStorage, CountsMatch, RowsNeedSentinel, BatchesFit, BlockBound
<1>4. PublishedReady' /\ CallsTarget' /\ FilesOwned' /\ LocksHeld'
    BY <1>1 DEF IndInv, PublishedReady, CallsTarget, FilesOwned, FileOwnedBy, LocksHeld, Rolling
<1>. QED
    BY <1>2, <1>3, <1>4 DEF IndInv
-----------------------------------------------------------------------------
(***************************************************************************)
(* Every step preserves the inductive invariant.                           *)
(***************************************************************************)
LEMMA StutterKeeps ==
    ASSUME IndInv, UNCHANGED vars
    PROVE  IndInv'
<1> USE DEF vars, IndInv
<1>1. TypeOK'
    BY DEF TypeOK, DiskType, StoreType, LockType, CallType, ReadType, CountType
<1>2. CallsNeedStorage' /\ CountsMatch' /\ RowsNeedSentinel' /\ BatchesFit' /\ BlockBound'
    BY DEF CallsNeedStorage, CountsMatch, RowsNeedSentinel, BatchesFit, BlockBound
<1>3. PublishedReady' /\ CallsTarget' /\ FilesOwned' /\ LocksHeld'
    BY DEF PublishedReady, CallsTarget, FilesOwned, FileOwnedBy, LocksHeld, Rolling
<1>. QED
    BY <1>1, <1>2, <1>3

LEMMA WriterStepKeeps ==
    ASSUME IndInv, NEW w \in Writers, WriterStep(w)
    PROVE  IndInv'
BY LookupFoundKeeps, LookupMissingKeeps, CreateTableKeeps, FirstBlockMadeKeeps,
   BlocksetMadeKeeps, RolloverMadeKeeps, AppendFitsKeeps, WriteOverKeeps,
   AppendRollsKeeps, AppendRestKeeps
   DEF WriterStep

LEMMA ReaderStepKeeps ==
    ASSUME IndInv, NEW r \in Readers, ReaderStep(r)
    PROVE  IndInv'
BY LookupFoundKeeps, LookupMissingKeeps, CreateTableKeeps, FirstBlockMadeKeeps,
   BlocksetMadeKeeps, ScanSendsKeeps, ScanEndsKeeps
   DEF ReaderStep

LEMMA FaultStepKeeps ==
    ASSUME IndInv, \/ \E w \in Writers : WriterFault(w)
                   \/ \E r \in Readers : ReaderFault(r)
    PROVE  IndInv'
<1>1. ASSUME NEW w \in Writers, WriterFault(w) PROVE IndInv'
    BY <1>1, FaultsKeep DEF WriterFault
<1>2. ASSUME NEW r \in Readers, ReaderFault(r) PROVE IndInv'
    BY <1>2, FaultsKeep, ScanCutKeeps DEF ReaderFault
<1>. QED
    BY <1>1, <1>2

LEMMA NextIndInv == IndInv /\ [Next]_vars => IndInv'
<1> SUFFICES ASSUME IndInv, [Next]_vars PROVE IndInv'
    OBVIOUS
<1>1. CASE \E w \in Writers, u \in URIs, k \in WriteSizes : BeginWrite(w, u, k)
    BY <1>1, BeginWriteKeeps
<1>2. CASE \E r \in Readers, u \in URIs, s \in Starts, e \in Ends : BeginRead(r, u, s, e)
    BY <1>2, BeginReadKeeps
<1>3. CASE \E w \in Writers : WriterStep(w) \/ WriterFault(w)
    BY <1>3, WriterStepKeeps, FaultStepKeeps
<1>4. CASE \E r \in Readers : ReaderStep(r) \/ Send(r) \/ ReaderFault(r)
    BY <1>4, ReaderStepKeeps, SendKeeps, FaultStepKeeps
<1>5. CASE Crash \/ Close
    BY <1>5, DownKeeps DEF Crash, Close
<1>6. CASE Boot
    BY <1>6, BootKeeps
<1>7. CASE BootRefused
    BY <1>7, BootRefusedKeeps
<1>8. CASE Rest \/ UNCHANGED vars
    BY <1>8, StutterKeeps DEF Rest
<1>. QED
    BY <1>1, <1>2, <1>3, <1>4, <1>5, <1>6, <1>7, <1>8 DEF Next

-----------------------------------------------------------------------------
(***************************************************************************)
(* What a step may do to what is there already.                            *)
(***************************************************************************)
DiskGrows ==
    \A f \in Files : disk[f].stage = "ready" =>
        /\ disk'[f].stage = "ready" /\ disk'[f].uri = disk[f].uri
        /\ ToSet(disk[f].rows) \subseteq ToSet(disk'[f].rows)
Grows == BlocksetsGrow /\ DiskGrows

LEMMA FileMadeGrows ==
    ASSUME NEW p \in Procs, FileMade(p)
    PROVE  DiskGrows
BY DEF FileMade, DiskGrows

LEMMA SameGrows ==
    ASSUME IndInv
    PROVE  /\ UNCHANGED blocksets => BlocksetsGrow
           /\ UNCHANGED disk => DiskGrows
<1>1. \A u \in URIs : Len(blocksets[u]) \in Nat
    BY DEF IndInv, TypeOK, StoreType
<1>. QED
    BY <1>1 DEF BlocksetsGrow, DiskGrows

LEMMA CommitGrows ==
    ASSUME IndInv, NEW w \in Writers, NEW f \in Files, Commit(w, f)
    PROVE  Grows /\ ToSet(batch[w]) \subseteq ToSet(disk'[f].rows)
<1>1. disk[f].rows \in Seq(Record) /\ batch[w] \in Seq(Record)
    BY DEF IndInv, TypeOK, DiskType, CallType
<1>2. /\ disk'[f].rows = disk[f].rows \o batch[w]
      /\ disk'[f].stage = disk[f].stage /\ disk'[f].uri = disk[f].uri
      /\ \A g \in Files \ {f} : disk'[g] = disk[g]
    BY DEF Commit, IndInv, TypeOK, DiskType
<1>3. /\ ToSet(disk[f].rows) \subseteq ToSet(disk'[f].rows)
      /\ ToSet(batch[w]) \subseteq ToSet(disk'[f].rows)
    BY <1>1, <1>2, ConcatElements
<1>4. DiskGrows
    BY <1>2, <1>3 DEF DiskGrows
<1>. QED
    BY <1>3, <1>4, SameGrows DEF Commit, Grows

LEMMA MadeGrows ==
    ASSUME IndInv, NEW p \in Procs,
           CreateTable(p) \/ FirstBlockMade(p) \/ BlocksetMade(p) \/ RolloverMade(p)
    PROVE  Grows
<1>1. CASE CreateTable(p)
    BY <1>1, FileAddedMakes, FileMadeGrows, SameGrows DEF CreateTable, storeVars, Grows
<1>2. CASE FirstBlockMade(p)
    BY <1>2, SentinelMakes, FileMadeGrows, SameGrows DEF FirstBlockMade, Grows
<1>3. CASE BlocksetMade(p)
  <2>1. DiskGrows
    BY <1>3, SentinelMakes, FileMadeGrows DEF BlocksetMade
  <2>2. target[p] \in URIs /\ blocksets[target[p]] = <<>>
    BY <1>3 DEF BlocksetMade, IndInv, CallsTarget, LocksHeld
  <2>3. /\ blocksets'[target[p]] = <<first[p], cur[p]>>
        /\ \A u \in URIs \ {target[p]} : blocksets'[u] = blocksets[u]
    BY <1>3, <2>2 DEF BlocksetMade, IndInv, TypeOK, StoreType
  <2>4. \A u \in URIs : Len(blocksets[u]) \in Nat
    BY DEF IndInv, TypeOK, StoreType
  <2>5. BlocksetsGrow
    BY <2>2, <2>3, <2>4 DEF BlocksetsGrow
  <2>. QED
    BY <2>1, <2>5 DEF Grows
<1>4. CASE RolloverMade(p)
  <2>1. DiskGrows /\ cur[p] \in Files
    BY <1>4, SentinelMakes, FileMadeGrows DEF RolloverMade
  <2>2. target[p] \in URIs /\ blocksets[target[p]] \in Seq(Files)
    BY <1>4 DEF RolloverMade, IndInv, CallsTarget, TypeOK, StoreType
  <2>3. /\ blocksets'[target[p]] = Append(blocksets[target[p]], cur[p])
        /\ \A u \in URIs \ {target[p]} : blocksets'[u] = blocksets[u]
    BY <1>4, <2>2 DEF RolloverMade, IndInv, TypeOK, StoreType
  <2>4. \A u \in URIs : Len(blocksets[u]) \in Nat
    BY DEF IndInv, TypeOK, StoreType
  <2>5. /\ Len(blocksets[target[p]]) <= Len(blocksets'[target[p]])
        /\ \A i \in DOMAIN blocksets[target[p]] :
              blocksets'[target[p]][i] = blocksets[target[p]][i]
    <3>1. /\ Len(Append(blocksets[target[p]], cur[p])) = Len(blocksets[target[p]]) + 1
          /\ \A i \in 1 .. Len(blocksets[target[p]]) :
                Append(blocksets[target[p]], cur[p])[i] = blocksets[target[p]][i]
      BY <2>1, <2>2, AppendProperties
    <3>2. DOMAIN blocksets[target[p]] = 1 .. Len(blocksets[target[p]])
      BY <2>2, LenProperties
    <3>. QED
      BY <2>2, <2>3, <2>4, <3>1, <3>2
  <2>6. BlocksetsGrow
    BY <2>3, <2>4, <2>5 DEF BlocksetsGrow
  <2>. QED
    BY <2>1, <2>6 DEF Grows
<1>. QED
    BY <1>1, <1>2, <1>3, <1>4

LEMMA FaultGrows ==
    ASSUME IndInv, NEW p \in Procs,
           \/ CreateTableFails(p)
           \/ SentinelFails(p)
           \/ p \in Writers /\ WriteFails(p)
           \/ p \in Readers /\ ReadFails(p)
    PROVE  Grows /\ UNCHANGED acked
<1>1. BlocksetsGrow /\ UNCHANGED acked
    BY SameGrows DEF CreateTableFails, SentinelFails, WriteFails, ReadFails, Fault
<1>2. CASE CreateTableFails(p)
    BY <1>1, <1>2, FileAddedMakes, FileMadeGrows, SameGrows DEF CreateTableFails, Grows
<1>3. CASE SentinelFails(p)
    BY <1>1, <1>3, SentinelMakes, FileMadeGrows, SameGrows DEF SentinelFails, Grows
<1>4. CASE (p \in Writers /\ WriteFails(p)) \/ (p \in Readers /\ ReadFails(p))
    BY <1>1, <1>4, SameGrows DEF WriteFails, ReadFails, Grows
<1>. QED
    BY <1>2, <1>3, <1>4

\* The steps that leave what was promised and what is stored alone.
Quiet == UNCHANGED <<disk, status, blocksets, acked>>

LEMMA QuietSteps ==
    /\ \A w \in Writers, u \in URIs, k \in WriteSizes : BeginWrite(w, u, k) => Quiet
    /\ \A r \in Readers, u \in URIs, s \in Starts, e \in Ends : BeginRead(r, u, s, e) => Quiet
    /\ \A p \in Procs : LookupFound(p) \/ LookupMissing(p) => Quiet
    /\ \A w \in Writers : AppendBusy(w) \/ AppendRolls(w) => Quiet
    /\ \A r \in Readers : ScanSends(r) \/ ScanEnds(r) \/ ScanCut(r) \/ Send(r) => Quiet
    /\ Rest \/ UNCHANGED vars => Quiet
<1> USE DEF Quiet, diskVars, storeVars
<1>1. \A w \in Writers, u \in URIs, k \in WriteSizes : BeginWrite(w, u, k) => Quiet
    BY DEF BeginWrite
<1>2. \A r \in Readers, u \in URIs, s \in Starts, e \in Ends : BeginRead(r, u, s, e) => Quiet
    BY DEF BeginRead
<1>3. \A p \in Procs : LookupFound(p) \/ LookupMissing(p) => Quiet
    BY DEF LookupFound, LookupMissing
<1>4. \A w \in Writers : AppendBusy(w) \/ AppendRolls(w) => Quiet
    BY DEF AppendBusy, AppendRolls
<1>5. \A r \in Readers : ScanSends(r) \/ ScanEnds(r) \/ ScanCut(r) \/ Send(r) => Quiet
    BY DEF ScanSends, ScanEnds, ScanCut, Send
<1>6. Rest \/ UNCHANGED vars => Quiet
    BY DEF Rest, vars
<1>. QED
    BY <1>1, <1>2, <1>3, <1>4, <1>5, <1>6

\* The commits aside, no step brings a call between its commit and its return.
NoneStores ==
    \A w \in Writers : pc'[w] = "stored" =>
        pc[w] = "stored" /\ batch'[w] = batch[w] /\ target'[w] = target[w]

LEMMA OnlyCommitsStore ==
    ASSUME IndInv, [Next]_vars
    PROVE  NoneStores \/ \E w \in Writers : AppendFits(w) \/ AppendRest(w)
<1> DEFINE Moves(p) ==
        /\ pc'[p] # "stored"
        /\ \A q \in Procs \ {p} : pc'[q] = pc[q] /\ target'[q] = target[q]
        /\ \A w \in Writers \ {p} : batch'[w] = batch[w]
<1>. /\ StoreAssumption /\ Writers \subseteq Procs /\ Readers \subseteq Procs
     /\ pc \in [Procs -> {"idle", "lookup", "table", "sentinel", "append", "rest", "stored",
                          "scan", "send", "done"}]
     /\ target \in [Procs -> URIs \cup {Nil}] /\ batch \in [Writers -> Seq(Record)]
    BY StoreAssumption DEF Procs, IndInv, TypeOK, CallType
<1>1. ASSUME NEW w \in Writers, NEW u \in URIs, NEW k \in WriteSizes, BeginWrite(w, u, k)
      PROVE  Moves(w)
    BY <1>1 DEF BeginWrite
<1>2. ASSUME NEW r \in Readers, NEW u \in URIs, NEW s \in Starts, NEW e \in Ends,
             BeginRead(r, u, s, e)
      PROVE  Moves(r)
    BY <1>2 DEF BeginRead
<1>3. ASSUME NEW p \in Procs, LookupFound(p) \/ LookupMissing(p)
      PROVE  Moves(p)
    BY <1>3 DEF LookupFound, LookupMissing, callVars, Use
<1>4. ASSUME NEW p \in Procs,
             CreateTable(p) \/ FirstBlockMade(p) \/ BlocksetMade(p) \/ RolloverMade(p)
      PROVE  Moves(p)
    BY <1>4 DEF CreateTable, FirstBlockMade, BlocksetMade, RolloverMade, ReturnTo, Use, callVars
<1>5. ASSUME NEW w \in Writers, AppendBusy(w) \/ AppendRolls(w) \/ WriteReturns(w)
      PROVE  Moves(w)
    BY <1>5 DEF AppendBusy, AppendRolls, WriteReturns, ReturnTo, callVars
<1>6. ASSUME NEW r \in Readers, ScanSends(r) \/ ScanEnds(r) \/ ScanCut(r) \/ Send(r)
      PROVE  Moves(r)
  <2>1. CASE ScanSends(r)
    BY <2>1 DEF ScanSends, Offer
  <2>2. CASE ScanEnds(r)
    BY <2>2 DEF ScanEnds, callVars
  <2>3. CASE ScanCut(r)
    BY <2>3 DEF ScanCut, Offer
  <2>4. CASE Send(r)
    BY <2>4 DEF Send, callVars
  <2>. QED
    BY <1>6, <2>1, <2>2, <2>3, <2>4
<1>7. ASSUME NEW p \in Procs,
             \/ CreateTableFails(p) \/ SentinelFails(p)
             \/ p \in Writers /\ WriteFails(p)
             \/ p \in Readers /\ ReadFails(p)
      PROVE  Moves(p)
  <2>1. Fault(p)
    BY <1>7 DEF CreateTableFails, SentinelFails, WriteFails, ReadFails
  <2>. QED
    BY <2>1 DEF Fault, ReturnTo
<1>8. ASSUME NEW p \in Procs, Moves(p) PROVE NoneStores
    BY <1>8 DEF NoneStores
<1>9. CASE Down \/ Boot \/ BootRefused \/ Rest \/ UNCHANGED vars
    BY <1>9 DEF Down, Boot, BootRefused, Rest, vars, callVars, NoneStores
<1> HIDE DEF Moves
<1>. QED
    BY <1>1, <1>2, <1>3, <1>4, <1>5, <1>6, <1>7, <1>8, <1>9
    DEF Next, WriterStep, WriterFault, ReaderStep, ReaderFault, Crash, Close

\* Rows are added to a block of the writer's blockset.
LEMMA CommitTargets ==
    ASSUME IndInv, NEW w \in Writers, AppendFits(w) \/ AppendRest(w)
    PROVE  \E f \in Files :
               /\ Commit(w, f) /\ target[w] \in URIs
               /\ disk[f].stage = "ready" /\ disk[f].uri = target[w]
               /\ f \in ToSet(blocksets[target[w]])
<1>1. CASE AppendFits(w)
  <2>1. /\ target[w] \in URIs /\ Newest(w) \in Files
        /\ disk[Newest(w)].stage = "ready" /\ disk[Newest(w)].uri = target[w]
    BY <1>1, NewestIs DEF AppendFits
  <2>2. blocksets[target[w]] # <<>> /\ blocksets[target[w]] \in Seq(Files)
    BY <1>1, <2>1 DEF AppendFits, IndInv, CallsTarget, TypeOK, StoreType
  <2>3. Newest(w) \in ToSet(blocksets[target[w]])
    BY <2>2, LastIsElement DEF Newest, ToSet
  <2>. QED
    BY <1>1, <2>1, <2>3 DEF AppendFits
<1>2. CASE AppendRest(w)
  <2>1. /\ target[w] \in URIs /\ cur[w] \in Files
        /\ disk[cur[w]].stage = "ready" /\ disk[cur[w]].uri = target[w]
        /\ cur[w] \in ToSet(blocksets[target[w]])
    BY <1>2 DEF AppendRest, IndInv, CallsTarget, FilesOwned, FileOwnedBy
  <2>. QED
    BY <1>2, <2>1 DEF AppendRest
<1>. QED
    BY <1>1, <1>2

\* Every step is one of seven kinds, as far as AckedReachable can tell.
LEMMA StepKinds ==
    ASSUME IndInv, [Next]_vars
    PROVE  \/ Quiet
           \/ Grows /\ UNCHANGED acked /\ status' = status
           \/ \E w \in Writers : \E f \in Files :
                 /\ Commit(w, f) /\ target[w] \in URIs
                 /\ disk[f].stage = "ready" /\ disk[f].uri = target[w]
                 /\ f \in ToSet(blocksets[target[w]])
           \/ \E w \in Writers : WriteReturns(w)
           \/ Down
           \/ Boot
           \/ BootRefused
<1>1. ASSUME NEW p \in Procs,
             CreateTable(p) \/ FirstBlockMade(p) \/ BlocksetMade(p) \/ RolloverMade(p)
      PROVE  Grows /\ UNCHANGED acked /\ status' = status
    BY <1>1, MadeGrows DEF CreateTable, FirstBlockMade, BlocksetMade, RolloverMade, storeVars
<1>2. ASSUME NEW p \in Procs,
             \/ CreateTableFails(p) \/ SentinelFails(p)
             \/ p \in Writers /\ WriteFails(p)
             \/ p \in Readers /\ ReadFails(p)
      PROVE  Grows /\ UNCHANGED acked /\ status' = status
    BY <1>2, FaultGrows DEF CreateTableFails, SentinelFails, WriteFails, ReadFails, Fault
<1>3. ASSUME NEW w \in Writers, AppendFits(w) \/ AppendRest(w)
      PROVE  \E f \in Files :
                 /\ Commit(w, f) /\ target[w] \in URIs
                 /\ disk[f].stage = "ready" /\ disk[f].uri = target[w]
                 /\ f \in ToSet(blocksets[target[w]])
    BY <1>3, CommitTargets
<1>4. CASE \E w \in Writers, u \in URIs, k \in WriteSizes : BeginWrite(w, u, k)
    BY <1>4, QuietSteps
<1>5. CASE \E r \in Readers, u \in URIs, s \in Starts, e \in Ends : BeginRead(r, u, s, e)
    BY <1>5, QuietSteps
<1>6. ASSUME NEW w \in Writers, WriterStep(w) \/ WriterFault(w)
      PROVE  \/ Quiet
             \/ Grows /\ UNCHANGED acked /\ status' = status
             \/ AppendFits(w) \/ AppendRest(w) \/ WriteReturns(w)
    BY <1>1, <1>2, <1>6, QuietSteps DEF WriterStep, WriterFault
<1>7. ASSUME NEW r \in Readers, ReaderStep(r) \/ Send(r) \/ ReaderFault(r)
      PROVE  Quiet \/ (Grows /\ UNCHANGED acked /\ status' = status)
    BY <1>1, <1>2, <1>7, QuietSteps DEF ReaderStep, ReaderFault
<1>8. CASE Crash \/ Close \/ Boot \/ BootRefused
    BY <1>8 DEF Crash, Close
<1>9. CASE Rest \/ UNCHANGED vars
    BY <1>9, QuietSteps
<1>. QED
    BY <1>3, <1>4, <1>5, <1>6, <1>7, <1>8, <1>9 DEF Next

LEMMA StepGrows ==
    ASSUME IndInv, [Next]_vars
    PROVE  Grows
<1>1. CASE Quiet
    BY <1>1, SameGrows DEF Quiet, Grows
<1>2. CASE \E w \in Writers : \E f \in Files : Commit(w, f)
    BY <1>2, CommitGrows
<1>3. CASE Down
    BY <1>3, SameGrows DEF Down, Grows, BlocksetsGrow
<1>4. CASE Boot
    BY <1>4, SameGrows DEF Boot, Grows, BlocksetsGrow
<1>5. CASE BootRefused
    BY <1>5, SameGrows DEF BootRefused, Grows, BlocksetsGrow
<1>6. CASE \E w \in Writers : WriteReturns(w)
    BY <1>6, SameGrows DEF WriteReturns, storeVars, Grows
<1>. QED
    BY <1>1, <1>2, <1>3, <1>4, <1>5, <1>6, StepKinds

\* The strengthened invariant holds in every reachable state, for any number
\* of writers, readers, URIs and files, any maxSize and batch, and any number
\* of faults and restarts.
THEOREM Inductive == Spec => []IndInv
BY InitIndInv, NextIndInv, PTL DEF Spec

\* Every variable keeps its type: no index into a blockset or a file leaves
\* its bounds, no call works on a blockset that is not in the map.
THEOREM TypeCorrect == Spec => []TypeOK
<1>1. IndInv => TypeOK
    BY DEF IndInv
<1>. QED
    BY <1>1, Inductive, PTL

\* No database file holds more than maxSize records, although blockset.write
\* only ever looks at the count in memory (sqlite_blockset.go:65), which a
\* restart rebuilds from the file (sqlite_block.go:57-64).
THEOREM BlocksBounded == Spec => []BlockBound
<1>1. IndInv => BlockBound
    BY DEF IndInv
<1>. QED
    BY <1>1, Inductive, PTL
-----------------------------------------------------------------------------
(***************************************************************************)
(* Once put into the map, a blockset only grows at its end.                *)
(***************************************************************************)

\* Neither a second creation of the blockset by a racing call nor a rollover
\* ever replaces or drops a block of a blockset in use: the lookup and the
\* creation of SQLite.blockset (sqlite.go:133-153) are one critical section.
THEOREM BlocksetsOnlyGrow == Spec => OneBlockset
<1>1. IndInv /\ [Next]_vars => [BlocksetsGrow]_vars
    BY StepGrows DEF Grows
<1>. QED
    BY <1>1, Inductive, PTL DEF Spec, OneBlockset

-----------------------------------------------------------------------------
(***************************************************************************)
(* Acknowledged records.                                                   *)
(***************************************************************************)
LEMMA BlocksetElementsGrow ==
    ASSUME IndInv, IndInv', BlocksetsGrow, status = "up", status' = "up", NEW u \in URIs
    PROVE  ToSet(blocksets[u]) \subseteq ToSet(blocksets'[u])
<1>1. /\ Len(blocksets[u]) <= Len(blocksets'[u])
      /\ \A i \in DOMAIN blocksets[u] : blocksets'[u][i] = blocksets[u][i]
    BY DEF BlocksetsGrow
<1>2. blocksets[u] \in Seq(Files) /\ blocksets'[u] \in Seq(Files)
    BY DEF IndInv, TypeOK, StoreType
<1>3. /\ DOMAIN blocksets[u] = 1 .. Len(blocksets[u])
      /\ DOMAIN blocksets'[u] = 1 .. Len(blocksets'[u])
      /\ Len(blocksets[u]) \in Nat /\ Len(blocksets'[u]) \in Nat
    BY <1>2, LenProperties
<1>4. DOMAIN blocksets[u] \subseteq DOMAIN blocksets'[u]
    BY <1>1, <1>3
<1>. QED
    BY <1>1, <1>4 DEF ToSet

\* The file that keeps record a reachable.
Keeps(f, a) ==
    /\ a[2] \in ToSet(disk[f].rows)
    /\ status = "up" => f \in ToSet(blocksets[a[1]])

LEMMA KeptByGrowth ==
    ASSUME IndInv, IndInv', Grows, status' = status,
           NEW a, a[1] \in URIs, NEW f \in FilesOf(a[1]), Keeps(f, a)
    PROVE  f \in FilesOf(a[1])' /\ Keeps(f, a)'
<1>1. /\ f \in FilesOf(a[1])' /\ a[2] \in ToSet(disk'[f].rows)
    BY DEF Grows, DiskGrows, FilesOf, Keeps
<1>2. status' = "up" => f \in ToSet(blocksets'[a[1]])
    BY BlocksetElementsGrow DEF Grows, Keeps
<1>. QED
    BY <1>1, <1>2 DEF Keeps

LEMMA BootFindsAll ==
    ASSUME IndInv, Boot, NEW u \in URIs
    PROVE  FilesOf(u) \subseteq ToSet(blocksets'[u])
BY DEF Boot, Loadings

LEMMA AckedStep ==
    ASSUME IndInv, IndInv', AckedReachable, Committed, [Next]_vars
    PROVE  AckedReachable'
<1>1. \A a \in acked : a[1] \in URIs /\ \E f \in FilesOf(a[1]) : Keeps(f, a)
    BY DEF IndInv, TypeOK, CountType, AckedReachable, Keeps, FilesOf
<1>2. SUFFICES ASSUME NEW a \in acked'
               PROVE  \E f \in FilesOf(a[1])' : Keeps(f, a)'
    BY DEF AckedReachable, Keeps, FilesOf
<1>3. CASE Grows /\ UNCHANGED acked /\ status' = status
  <2>1. PICK f \in FilesOf(a[1]) : Keeps(f, a)
    BY <1>1, <1>3
  <2>. QED
    BY <1>1, <1>3, <2>1, KeptByGrowth
<1>4. ASSUME NEW w \in Writers, WriteReturns(w)
      PROVE  \E f \in FilesOf(a[1])' : Keeps(f, a)'
  <2>1. /\ Grows /\ status' = status /\ blocksets' = blocksets /\ disk' = disk
        /\ acked' = acked \cup {<<target[w], rec>> : rec \in ToSet(batch[w])}
    BY <1>4, SameGrows DEF WriteReturns, storeVars, Grows
  <2>2. CASE a \in acked
    <3>1. PICK f \in FilesOf(a[1]) : Keeps(f, a)
      BY <1>1, <2>2
    <3>. QED
      BY <1>1, <2>1, <2>2, <3>1, KeptByGrowth
  <2>3. CASE a[1] = target[w] /\ a[2] \in ToSet(batch[w])
    <3>1. /\ target[w] \in URIs /\ blocksets[target[w]] \in Seq(Files)
      BY <1>4 DEF WriteReturns, IndInv, CallsTarget, TypeOK, StoreType
    <3>2. PICK g \in ToSet(blocksets[target[w]]) : ToSet(batch[w]) \subseteq ToSet(disk[g].rows)
      BY <1>4 DEF WriteReturns, Committed
    <3>3. g \in FilesOf(target[w])
      BY <3>1, <3>2, BlocksAreFiles DEF IndInv, PublishedReady, FilesOf, ToSet
    <3>. QED
      BY <2>1, <2>3, <3>2, <3>3 DEF Keeps, FilesOf
  <2>. QED
    BY <2>1, <2>2, <2>3
<1>5. CASE Down \/ Boot \/ BootRefused
  <2>1. PICK f \in FilesOf(a[1]) : Keeps(f, a)
    BY <1>1, <1>5 DEF Down, Boot, BootRefused
  <2>2. UNCHANGED <<disk, acked>>
    BY <1>5 DEF Down, Boot, BootRefused
  <2>3. f \in FilesOf(a[1])' /\ a[2] \in ToSet(disk'[f].rows)
    BY <2>1, <2>2 DEF FilesOf, Keeps
  <2>4. CASE Down \/ BootRefused
    BY <2>3, <2>4 DEF Down, BootRefused, Keeps
  <2>5. CASE Boot
    BY <1>1, <2>1, <2>2, <2>3, <2>5, BootFindsAll DEF Keeps
  <2>. QED
    BY <1>5, <2>4, <2>5
<1>6. Quiet => Grows /\ UNCHANGED acked /\ status' = status
    BY SameGrows DEF Quiet, Grows
<1>7. ASSUME NEW w \in Writers, NEW g \in Files, Commit(w, g)
      PROVE  Grows /\ UNCHANGED acked /\ status' = status
    BY <1>7, CommitGrows DEF Commit
<1>. QED
    BY <1>3, <1>4, <1>5, <1>6, <1>7, StepKinds

LEMMA CommittedStep ==
    ASSUME IndInv, IndInv', Committed, [Next]_vars
    PROVE  Committed'
<1>1. SUFFICES ASSUME NEW w \in Writers, pc'[w] = "stored"
               PROVE  \E f \in ToSet(blocksets'[target'[w]]) :
                         ToSet(batch'[w]) \subseteq ToSet(disk'[f].rows)
    BY DEF Committed
<1>2. status' = "up" /\ target'[w] \in URIs
    BY <1>1 DEF IndInv, CallsNeedStorage, CallsTarget, Procs
<1>3. CASE NoneStores
  <2>1. /\ pc[w] = "stored" /\ batch'[w] = batch[w] /\ target'[w] = target[w]
        /\ status = "up" /\ target[w] \in URIs
    BY <1>1, <1>3 DEF NoneStores, IndInv, CallsNeedStorage, CallsTarget, Procs
  <2>2. PICK f \in ToSet(blocksets[target[w]]) : ToSet(batch[w]) \subseteq ToSet(disk[f].rows)
    BY <2>1 DEF Committed
  <2>3. f \in Files /\ disk[f].stage = "ready"
    BY <2>1, <2>2, BlocksAreFiles DEF IndInv, PublishedReady, ToSet
  <2>4. f \in ToSet(blocksets'[target[w]]) /\ ToSet(disk[f].rows) \subseteq ToSet(disk'[f].rows)
    BY <1>2, <2>1, <2>2, <2>3, StepGrows, BlocksetElementsGrow DEF Grows, DiskGrows
  <2>. QED
    BY <2>1, <2>2, <2>4
<1>4. ASSUME NEW v \in Writers, NEW g \in Files, Commit(v, g),
             g \in ToSet(blocksets[target[v]])
      PROVE  \E f \in ToSet(blocksets'[target'[w]]) :
                 ToSet(batch'[w]) \subseteq ToSet(disk'[f].rows)
  <2>1. /\ Grows /\ ToSet(batch[v]) \subseteq ToSet(disk'[g].rows)
        /\ UNCHANGED <<status, blocksets, target, batch>> /\ pc' = [pc EXCEPT ![v] = "stored"]
    BY <1>4, CommitGrows DEF Commit, callVars
  <2>2. CASE w = v
    BY <1>4, <2>1, <2>2
  <2>3. CASE w # v
    <3>1. pc[w] = "stored"
      BY <1>1, <2>1, <2>3 DEF IndInv, TypeOK, CallType, Procs
    <3>2. PICK f \in ToSet(blocksets[target[w]]) : ToSet(batch[w]) \subseteq ToSet(disk[f].rows)
      BY <3>1 DEF Committed
    <3>3. f \in Files /\ disk[f].stage = "ready"
      BY <1>2, <2>1, <3>2, BlocksAreFiles DEF IndInv, PublishedReady, ToSet
    <3>. QED
      BY <2>1, <3>2, <3>3 DEF Grows, DiskGrows
  <2>. QED
    BY <2>2, <2>3
<1>5. (\E v \in Writers : AppendFits(v) \/ AppendRest(v)) =>
          \E v \in Writers : \E g \in Files : Commit(v, g) /\ g \in ToSet(blocksets[target[v]])
    BY CommitTargets
<1>. QED
    BY <1>3, <1>4, <1>5, OnlyCommitsStore

\* No record whose Write returned nil is ever lost or orphaned: its row stays
\* in a file of its URI, and whenever the storage is up that file is one of
\* the URI's blocks (SQLite.Write, blockset.write, fileResolver.Blocksets).
THEOREM AckedStaysReachable == Spec => []AckedReachable
<1>1. Init => AckedReachable /\ Committed
  <2>1. Init => AckedReachable
    BY DEF Init, AckedReachable
  <2>2. Init => Committed
    BY DEF Init, Committed, Procs
  <2>. QED
    BY <2>1, <2>2
<1>2. /\ IndInv /\ IndInv' /\ AckedReachable /\ Committed /\ [Next]_vars
      => AckedReachable' /\ Committed'
    BY AckedStep, CommittedStep
<1>. QED
    BY <1>1, <1>2, Inductive, PTL DEF Spec
-----------------------------------------------------------------------------
(***************************************************************************)
(* Who waits for whom.                                                     *)
(***************************************************************************)
\* SQLite.l is held by the creation of a blockset and by nothing else.
MapHeld == mapLock # Nil => pc[mapLock] \in {"table", "sentinel"} /\ ~Rolling(mapLock)

LEMMA ReturnFrees ==
    ASSUME IndInv, MapHeld, NEW p \in Procs, NEW label, ReturnTo(p, label),
           UNCHANGED target
    PROVE  MapHeld'
<1>1. SUFFICES ASSUME mapLock' # Nil
               PROVE  pc'[mapLock'] \in {"table", "sentinel"} /\ ~Rolling(mapLock)'
    BY DEF MapHeld
<1>2. mapLock' = mapLock /\ mapLock # p /\ mapLock \in Procs
    BY <1>1 DEF ReturnTo, Unlocked, IndInv, TypeOK, LockType
<1>3. pc[mapLock] \in {"table", "sentinel"} /\ ~Rolling(mapLock) /\ target[mapLock] \in URIs
    BY <1>1, <1>2 DEF MapHeld, IndInv, CallsTarget
<1>4. pc'[mapLock] = pc[mapLock]
    BY <1>2 DEF ReturnTo, IndInv, TypeOK, CallType
<1>5. setLock'[target[mapLock]] \in {Nil, setLock[target[mapLock]]}
    BY <1>3 DEF ReturnTo, Unlocked
<1>6. ~Rolling(mapLock)'
    BY <1>1, <1>2, <1>3, <1>5 DEF Rolling
<1>. QED
    BY <1>2, <1>3, <1>4, <1>6

\* A call that makes no block leaves SQLite.l to whoever has it.
LEMMA MoveLeaves ==
    ASSUME IndInv, MapHeld, NEW p \in Procs, pc[p] \notin {"table", "sentinel"},
           \A q \in Procs \ {p} : pc'[q] = pc[q] /\ target'[q] = target[q],
           UNCHANGED lockVars
    PROVE  MapHeld'
<1>1. mapLock # Nil => mapLock \in Procs \ {p}
    BY DEF MapHeld, IndInv, TypeOK, LockType
<1>. QED
    BY <1>1 DEF MapHeld, Rolling, lockVars

LEMMA MakingKeeps ==
    ASSUME IndInv, MapHeld, StoreAssumption, NEW p \in Procs,
           LookupMissing(p) \/ CreateTable(p) \/ FirstBlockMade(p) \/ RolloverMade(p)
    PROVE  MapHeld'
<1>. /\ pc \in [Procs -> {"idle", "lookup", "table", "sentinel", "append", "rest", "stored",
                          "scan", "send", "done"}]
     /\ mapLock \in Procs \cup {Nil} /\ Nil \notin Procs
    BY DEF IndInv, TypeOK, LockType, CallType, StoreAssumption
<1>1. CASE LookupMissing(p)
  <2>1. setLock[target[p]] # p
    BY <1>1 DEF LookupMissing, IndInv, LocksHeld, CallsTarget
  <2>. QED
    BY <1>1, <2>1 DEF LookupMissing, MapHeld, Rolling, callVars
<1>2. CASE CreateTable(p)
    BY <1>2 DEF CreateTable, MapHeld, Rolling, callVars, lockVars
<1>3. CASE FirstBlockMade(p)
    BY <1>3 DEF FirstBlockMade, MapHeld, Rolling, callVars, lockVars
<1>4. CASE RolloverMade(p)
    BY <1>4 DEF RolloverMade, MapHeld, Rolling, callVars, lockVars
<1>. QED
    BY <1>1, <1>2, <1>3, <1>4

\* A writer that takes or keeps blockset.l is not the one that holds SQLite.l.
LEMMA RollKeeps ==
    ASSUME IndInv, MapHeld, NEW w \in Writers,
           AppendRolls(w) \/ AppendFits(w) \/ AppendRest(w)
    PROVE  MapHeld'
<1>1. SUFFICES ASSUME mapLock' # Nil
               PROVE  pc'[mapLock'] \in {"table", "sentinel"} /\ ~Rolling(mapLock)'
    BY DEF AppendRolls, AppendFits, AppendRest, Commit, MapHeld
<1>0. /\ pc[w] \in {"append", "rest"} /\ mapLock' = mapLock /\ target' = target
      /\ setLock' = [setLock EXCEPT ![target[w]] = w]
      /\ pc' \in {[pc EXCEPT ![w] = "table"], [pc EXCEPT ![w] = "stored"]}
    BY DEF AppendRolls, AppendFits, AppendRest, Commit, callVars
<1>2. mapLock \in Procs /\ mapLock # w /\ ~Rolling(mapLock)
      /\ pc[mapLock] \in {"table", "sentinel"}
    BY <1>0, <1>1 DEF MapHeld, IndInv, TypeOK, LockType
<1>3. pc'[mapLock] = pc[mapLock]
    BY <1>0, <1>2 DEF IndInv, TypeOK, CallType
<1>4. setLock'[target[mapLock]] \in {w, setLock[target[mapLock]]}
    BY <1>0, <1>2 DEF IndInv, TypeOK, LockType, CallsTarget
<1>. QED
    BY <1>0, <1>1, <1>2, <1>3, <1>4 DEF Rolling

LEMMA MapHeldStep ==
    ASSUME IndInv, MapHeld, [Next]_vars
    PROVE  MapHeld'
<1>. /\ StoreAssumption /\ Writers \subseteq Procs /\ Readers \subseteq Procs
     /\ pc \in [Procs -> {"idle", "lookup", "table", "sentinel", "append", "rest", "stored",
                          "scan", "send", "done"}]
     /\ target \in [Procs -> URIs \cup {Nil}]
    BY StoreAssumption DEF Procs, IndInv, TypeOK, CallType
<1>1. ASSUME NEW w \in Writers, NEW u \in URIs, NEW k \in WriteSizes, BeginWrite(w, u, k)
      PROVE  MapHeld'
    BY <1>1, MoveLeaves DEF BeginWrite
<1>2. ASSUME NEW r \in Readers, NEW u \in URIs, NEW s \in Starts, NEW e \in Ends,
             BeginRead(r, u, s, e)
      PROVE  MapHeld'
    BY <1>2, MoveLeaves DEF BeginRead
<1>3. ASSUME NEW p \in Procs, LookupFound(p)
      PROVE  MapHeld'
    BY <1>3, MoveLeaves DEF LookupFound, callVars
<1>4. ASSUME NEW r \in Readers, ScanSends(r) \/ ScanEnds(r) \/ ScanCut(r) \/ Send(r)
      PROVE  MapHeld'
  <2>1. pc[r] \notin {"table", "sentinel"} /\ UNCHANGED <<lockVars, target>>
    BY <1>4 DEF ScanSends, ScanEnds, ScanCut, Send, callVars
  <2>2. \A q \in Procs \ {r} : pc'[q] = pc[q]
    <3>1. CASE ScanSends(r)
      BY <3>1 DEF ScanSends, Offer
    <3>2. CASE ScanEnds(r)
      BY <3>2 DEF ScanEnds
    <3>3. CASE ScanCut(r)
      BY <3>3 DEF ScanCut, Offer
    <3>4. CASE Send(r)
      BY <3>4 DEF Send
    <3>. QED
      BY <1>4, <3>1, <3>2, <3>3, <3>4
  <2>. QED
    BY <2>1, <2>2, MoveLeaves
<1>5. ASSUME NEW p \in Procs,
             LookupMissing(p) \/ CreateTable(p) \/ FirstBlockMade(p) \/ RolloverMade(p)
      PROVE  MapHeld'
    BY <1>5, MakingKeeps
<1>6. ASSUME NEW w \in Writers, AppendRolls(w) \/ AppendFits(w) \/ AppendRest(w)
      PROVE  MapHeld'
    BY <1>6, RollKeeps
<1>7. ASSUME NEW p \in Procs,
             \/ CreateTableFails(p) \/ SentinelFails(p) \/ BlocksetMade(p)
             \/ p \in Writers /\ (WriteFails(p) \/ AppendBusy(p) \/ WriteReturns(p))
             \/ p \in Readers /\ ReadFails(p)
      PROVE  MapHeld'
  <2>1. \E label : ReturnTo(p, label) /\ UNCHANGED target
    BY <1>7 DEF CreateTableFails, SentinelFails, BlocksetMade, WriteFails, AppendBusy,
                WriteReturns, ReadFails, Fault, callVars
  <2>. QED
    BY <2>1, ReturnFrees
<1>8. CASE Down \/ Boot \/ BootRefused \/ Rest \/ UNCHANGED vars
    BY <1>8 DEF Down, Boot, BootRefused, Rest, vars, callVars, lockVars, MapHeld, Rolling
<1>. QED
    BY <1>1, <1>2, <1>3, <1>4, <1>5, <1>6, <1>7, <1>8
    DEF Next, WriterStep, WriterFault, ReaderStep, ReaderFault, Crash, Close

\* The locks of SQLite and of its blocksets are only ever waited for while their
\* holder goes on: SQLite.blockset, blockset.write and blockset.read.
THEOREM WaitsAreShort == Spec => []NoWaitChains
<1>1. Init => MapHeld
    BY DEF Init, MapHeld
<1>2. IndInv /\ MapHeld => NoWaitChains
  <2>1. SUFFICES ASSUME IndInv, MapHeld, NEW p \in Procs, NEW q \in Procs, WaitsFor(p, q)
                 PROVE  pc[q] \in {"table", "sentinel", "rest", "stored"}
    BY DEF NoWaitChains
  <2>2. q # Nil
    BY StoreAssumption DEF StoreAssumption
  <2>3. CASE mapLock = q
    BY <2>1, <2>2, <2>3 DEF MapHeld
  <2>4. CASE pc[p] # "idle" /\ setLock[target[p]] = q
    BY <2>1, <2>4 DEF IndInv, CallsTarget, LocksHeld
  <2>. QED
    BY <2>1, <2>3, <2>4 DEF WaitsFor
<1>3. IndInv /\ MapHeld /\ [Next]_vars => MapHeld'
    BY MapHeldStep
<1>. QED
    BY <1>1, <1>2, <1>3, Inductive, PTL DEF Spec
=============================================================================
