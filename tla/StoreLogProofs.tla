---------------------------- MODULE StoreLogProofs -----------------------------
(***************************************************************************)
(* Store implements DurableLog, and what its records and reads keep to, for *)
(* every value of the constants.                                           *)
(***************************************************************************)
EXTENDS StoreLog, StoreProofs

USE DEF Files, Procs, Record

-----------------------------------------------------------------------------
(***************************************************************************)
(* The kinds of steps, as far as a caller and the rows can tell.           *)
(***************************************************************************)
RowsSame ==
    \A f \in Files :
        /\ disk'[f].rows = disk[f].rows
        /\ disk[f].rows # <<>> => disk'[f].uri = disk[f].uri /\ disk'[f].base = disk[f].base
SetsGrow ==
    \A u \in URIs : status' = "up" => ToSet(blocksets[u]) \subseteq ToSet(blocksets'[u])
Apart == UNCHANGED <<status, target, from, start, end, got, acked, calls>>

\* A call makes progress that its caller does not see.
GoesOn(p, label) ==
    /\ pc[p] \notin {"idle", "done", "send", "stored"}
    /\ label \notin {"idle", "done", "send", "stored"}
    /\ pc' = [pc EXCEPT ![p] = label]
    /\ RowsSame /\ SetsGrow /\ Apart /\ UNCHANGED <<batch, chunk>>

\* The records of a Write are stored, but its caller does not know yet.
Stores(w, f) ==
    /\ Commit(w, f)
    /\ pc[w] \notin {"idle", "stored"}
    /\ target[w] \in URIs /\ disk[f].stage = "ready" /\ disk[f].uri = target[w]
    /\ f \in ToSet(blocksets[target[w]])

\* A Write returns an error.
GivesUp(w) ==
    /\ pc[w] \notin {"idle", "stored"} /\ pc' = [pc EXCEPT ![w] = "idle"]
    /\ batch' = [batch EXCEPT ![w] = <<>>]
    /\ RowsSame /\ SetsGrow /\ Apart /\ UNCHANGED chunk

\* A Read returns.
Finishes(r, label) ==
    /\ pc[r] \notin {"idle", "done"} /\ label \in {"idle", "done"}
    /\ pc' = [pc EXCEPT ![r] = label]
    /\ chunk' = [chunk EXCEPT ![r] = <<>>]
    /\ RowsSame /\ SetsGrow /\ Apart /\ UNCHANGED batch

\* A Read has found the next rows of its range.
Offers(r, records) ==
    /\ pc[r] = "scan" /\ Offer(r, records)
    /\ Len(records) \in 1 .. BatchLimit /\ records \in Seq(Int \X Record)
    /\ InRange(r, records) /\ \A i \in DOMAIN records : start[r] <= records[i][1]
    /\ UNCHANGED <<disk, status, blocksets, target, batch, from, end, got, acked, calls>>

LEMMA MadeSame ==
    ASSUME IndInv, NEW p \in Procs, FileMade(p)
    PROVE  RowsSame
<1>1. ASSUME NEW f \in Files, disk[f].rows # <<>> PROVE disk[f].stage = "ready"
    BY <1>1 DEF IndInv, RowsNeedSentinel
<1>. QED
    BY <1>1 DEF FileMade, RowsSame

LEMMA DiskSame ==
    ASSUME UNCHANGED disk
    PROVE  RowsSame
BY DEF RowsSame

LEMMA SetsSame ==
    ASSUME UNCHANGED blocksets
    PROVE  SetsGrow
BY DEF SetsGrow

LEMMA LookupGoesOn ==
    ASSUME IndInv, NEW p \in Procs, LookupFound(p) \/ LookupMissing(p)
    PROVE  \E label : GoesOn(p, label)
<1>1. pc[p] = "lookup" /\ \E label \in {"append", "scan", "table"} : pc' = [pc EXCEPT ![p] = label]
    BY DEF LookupFound, LookupMissing, Use
<1>2. UNCHANGED <<disk, blocksets, batch, chunk>> /\ Apart
    BY DEF LookupFound, LookupMissing, diskVars, storeVars, callVars, seenVars,
           countVars, Apart
<1>. QED
    BY <1>1, <1>2, DiskSame, SetsSame DEF GoesOn

LEMMA MakingGoesOn ==
    ASSUME IndInv, IndInv', NEW p \in Procs,
           CreateTable(p) \/ FirstBlockMade(p) \/ BlocksetMade(p) \/ RolloverMade(p)
    PROVE  \E label : GoesOn(p, label)
<1>1. /\ pc[p] \in {"table", "sentinel"}
      /\ \E label \in {"table", "sentinel", "append", "scan", "rest"} :
            pc' = [pc EXCEPT ![p] = label]
    BY DEF CreateTable, FirstBlockMade, BlocksetMade, RolloverMade, ReturnTo, Use
<1>2. UNCHANGED <<batch, chunk>> /\ Apart
    BY DEF CreateTable, FirstBlockMade, BlocksetMade, RolloverMade, storeVars,
           callVars, seenVars, countVars, Apart
<1>3. RowsSame
    BY FileAddedMakes, SentinelMakes, MadeSame
       DEF CreateTable, FirstBlockMade, BlocksetMade, RolloverMade
<1>4. SetsGrow
  <2>1. status = "up" /\ status' = "up"
    BY <1>1, <1>2 DEF IndInv, CallsNeedStorage, Apart
  <2>. QED
    BY <2>1, MadeGrows, BlocksetElementsGrow DEF Grows, SetsGrow
<1>. QED
    BY <1>1, <1>2, <1>3, <1>4 DEF GoesOn

LEMMA RollsGoesOn ==
    ASSUME IndInv, NEW w \in Writers, AppendRolls(w)
    PROVE  \E label : GoesOn(w, label)
<1>1. pc[w] = "append" /\ pc' = [pc EXCEPT ![w] = "table"]
    BY DEF AppendRolls
<1>2. UNCHANGED <<disk, blocksets, batch, chunk>> /\ Apart
    BY DEF AppendRolls, storeVars, callVars, seenVars, countVars, Apart
<1>. QED
    BY <1>1, <1>2, DiskSame, SetsSame DEF GoesOn

LEMMA CommitStores ==
    ASSUME IndInv, NEW w \in Writers, AppendFits(w) \/ AppendRest(w)
    PROVE  \E f \in Files : Stores(w, f)
BY CommitTargets DEF AppendFits, AppendRest, Stores

LEMMA BusyGivesUp ==
    ASSUME IndInv, NEW w \in Writers, AppendBusy(w)
    PROVE  GivesUp(w)
<1>1. UNCHANGED <<disk, blocksets, chunk>> /\ Apart
    BY DEF AppendBusy, storeVars, seenVars, countVars, Apart
<1>. QED
    BY <1>1, DiskSame, SetsSame DEF AppendBusy, ReturnTo, GivesUp

\* What the four ways to fail have in common.
LEMMA FaultRows ==
    ASSUME IndInv, NEW p \in Procs,
           \/ CreateTableFails(p)
           \/ SentinelFails(p)
           \/ p \in Writers /\ WriteFails(p)
           \/ p \in Readers /\ ReadFails(p)
    PROVE  RowsSame /\ pc[p] \notin {"idle", "done", "stored"} /\ Fault(p)
<1>1. pc[p] \notin {"idle", "done", "stored"} /\ Fault(p)
    BY DEF CreateTableFails, SentinelFails, WriteFails, ReadFails
<1>2. CASE CreateTableFails(p)
    BY <1>1, <1>2, FileAddedMakes, MadeSame, DiskSame DEF CreateTableFails
<1>3. CASE SentinelFails(p)
    BY <1>3, SentinelMakes, MadeSame, DiskSame DEF SentinelFails
<1>4. CASE (p \in Writers /\ WriteFails(p)) \/ (p \in Readers /\ ReadFails(p))
    BY <1>4, DiskSame DEF WriteFails, ReadFails
<1>. QED
    BY <1>1, <1>2, <1>3, <1>4

LEMMA WriterFaultGivesUp ==
    ASSUME IndInv, NEW w \in Writers, WriterFault(w)
    PROVE  GivesUp(w)
<1>1. RowsSame /\ pc[w] \notin {"idle", "stored"} /\ Fault(w)
    BY FaultRows DEF WriterFault
<1>2. batch' = [batch EXCEPT ![w] = <<>>] /\ chunk' = chunk
  <2>1. w \notin Readers
    BY StoreAssumption
  <2>2. batch \in [Writers -> Seq(Record)] /\ chunk \in [Readers -> Seq(Int \X Record)]
    BY DEF IndInv, TypeOK, CallType, ReadType
  <2>3. batch' = [v \in Writers |-> IF v = w THEN <<>> ELSE batch[v]]
    BY <1>1 DEF Fault
  <2>4. chunk' = [r \in Readers |-> IF r = w THEN <<>> ELSE chunk[r]]
    BY <1>1 DEF Fault
  <2>5. chunk' = chunk
    BY <2>1, <2>2, <2>4
  <2>. QED
    BY <2>2, <2>3, <2>5
<1>3. Apart /\ UNCHANGED blocksets
    BY <1>1 DEF Fault, Apart
<1>. QED
    BY <1>1, <1>2, <1>3, SetsSame DEF Fault, ReturnTo, GivesUp

LEMMA ReaderFaultFinishes ==
    ASSUME IndInv, NEW r \in Readers,
           CreateTableFails(r) \/ SentinelFails(r) \/ ReadFails(r)
    PROVE  Finishes(r, "idle")
<1>1. RowsSame /\ pc[r] \notin {"idle", "done"} /\ Fault(r)
    BY FaultRows
<1>2. chunk' = [chunk EXCEPT ![r] = <<>>] /\ batch' = batch
  <2>1. \A w \in Writers : w # r
    BY StoreAssumption
  <2>2. batch \in [Writers -> Seq(Record)] /\ chunk \in [Readers -> Seq(Int \X Record)]
    BY DEF IndInv, TypeOK, CallType, ReadType
  <2>3. batch' = [w \in Writers |-> IF w = r THEN <<>> ELSE batch[w]]
    BY <1>1 DEF Fault
  <2>4. batch' = batch
    BY <2>1, <2>2, <2>3
  <2>5. chunk' = [q \in Readers |-> IF q = r THEN <<>> ELSE chunk[q]]
    BY <1>1 DEF Fault
  <2>. QED
    BY <2>2, <2>4, <2>5
<1>3. Apart /\ UNCHANGED blocksets
    BY <1>1 DEF Fault, Apart
<1>. QED
    BY <1>1, <1>2, <1>3, SetsSame DEF Fault, ReturnTo, Finishes

\* The next rows, as block.read gives them.
LEMMA BlockReadRows ==
    ASSUME DiskType, NEW f \in Files, NEW s \in Int, NEW e \in Int
    PROVE  LET q == BlockRead(f, s, e) IN
           /\ q \in Seq(Int \X Record) /\ Len(q) <= BatchLimit
           /\ Ascending(q)
           /\ \A i \in DOMAIN q :
                /\ s <= q[i][1] /\ q[i][1] < e
                /\ \E x \in DOMAIN disk[f].rows : q[i] = <<RowSeq(f, x), disk[f].rows[x]>>
<1> DEFINE lo == IF s > disk[f].base THEN s - disk[f].base + 1 ELSE 1
           hi == Least(Least(Len(disk[f].rows), e - disk[f].base), lo + BatchLimit - 1)
           n  == hi - lo + 1
           q  == BlockRead(f, s, e)
<1>1. /\ disk[f].base \in Int /\ disk[f].rows \in Seq(Record)
      /\ Len(disk[f].rows) \in Nat /\ DOMAIN disk[f].rows = 1 .. Len(disk[f].rows)
    BY LenProperties DEF DiskType
<1>2. BatchLimit \in Nat /\ BatchLimit >= 1
    BY StoreAssumption
<1>3. /\ lo \in Nat /\ lo >= 1 /\ lo >= s - disk[f].base + 1
    BY <1>1
<1> HIDE DEF lo
<1>4. /\ hi \in Int /\ hi <= Len(disk[f].rows) /\ hi <= e - disk[f].base
      /\ hi <= lo + BatchLimit - 1
  <2>1. /\ Len(disk[f].rows) \in Int
        /\ e - disk[f].base \in Int /\ lo + BatchLimit - 1 \in Int
    BY <1>1, <1>2, <1>3
  <2>. QED
    BY <2>1 DEF Least
<1> HIDE DEF hi
<1>5. /\ q = [i \in 1 .. n |-> <<RowSeq(f, lo + i - 1), disk[f].rows[lo + i - 1]>>]
      /\ q \in Seq(Int \X Record)
    BY BlockReadType DEF BlockRead, lo, hi
<1>6. DOMAIN q = 1 .. n /\ DOMAIN q = 1 .. Len(q) /\ Len(q) \in Nat /\ n \in Int
  <2>1. n \in Int
    BY <1>3, <1>4
  <2>2. DOMAIN q = 1 .. Len(q) /\ Len(q) \in Nat
    BY <1>5, LenProperties
  <2> HIDE DEF n, q
  <2>3. DOMAIN q = 1 .. n
    BY <1>5
  <2>. QED
    BY <2>1, <2>2, <2>3
<1> HIDE DEF q
<1>7. Len(q) <= BatchLimit
    BY <1>2, <1>3, <1>4, <1>6
<1>8. ASSUME NEW i \in DOMAIN q
      PROVE  /\ q[i] = <<RowSeq(f, lo + i - 1), disk[f].rows[lo + i - 1]>>
             /\ q[i][1] = disk[f].base + lo + i - 2
             /\ s <= q[i][1] /\ q[i][1] < e /\ lo + i - 1 \in DOMAIN disk[f].rows
  <2>1. q[i] = <<RowSeq(f, lo + i - 1), disk[f].rows[lo + i - 1]>>
    BY <1>5, <1>6
  <2>2. i \in Int /\ 1 <= i /\ i <= n
    BY <1>6
  <2>3. q[i][1] = disk[f].base + (lo + i - 1) - 1
    BY <2>1 DEF RowSeq
  <2>4. /\ disk[f].base + (lo + i - 1) - 1 = disk[f].base + lo + i - 2
        /\ s <= disk[f].base + lo + i - 2 /\ disk[f].base + lo + i - 2 < e
        /\ lo + i - 1 \in 1 .. Len(disk[f].rows)
    <3> DEFINE base == disk[f].base
               len  == Len(disk[f].rows)
    <3>1. /\ s \in Int /\ e \in Int /\ base \in Int /\ lo \in Nat /\ hi \in Int /\ len \in Nat
          /\ i \in Int /\ 1 <= i /\ i <= hi - lo + 1
          /\ lo >= 1 /\ lo >= s - base + 1 /\ hi <= len /\ hi <= e - base
      BY <1>1, <1>3, <1>4, <2>2
    <3> HIDE DEF base, len
    <3>2. /\ base + (lo + i - 1) - 1 = base + lo + i - 2
          /\ s <= base + lo + i - 2 /\ base + lo + i - 2 < e
          /\ lo + i - 1 \in 1 .. len
      BY ONLY <3>1
    <3>. QED
      BY <3>2 DEF base, len
  <2>5. s <= q[i][1] /\ q[i][1] < e /\ lo + i - 1 \in DOMAIN disk[f].rows
    BY <1>1, <2>3, <2>4
  <2>. QED
    BY <2>1, <2>3, <2>4, <2>5
<1>9. Ascending(q)
  <2>1. \A i \in DOMAIN q : i \in Int
    BY <1>6
  <2>2. \A i \in DOMAIN q : q[i][1] = disk[f].base + lo + i - 2
    BY <1>8
  <2>3. ASSUME NEW i \in DOMAIN q, NEW j \in DOMAIN q, i < j PROVE q[i][1] < q[j][1]
    <3>1. q[i][1] = disk[f].base + lo + i - 2 /\ q[j][1] = disk[f].base + lo + j - 2
      BY <2>2
    <3>. QED
      BY ONLY <1>1, <1>3, <2>1, <2>3, <3>1
  <2>. QED
    BY <2>3 DEF Ascending
<1>. QED
    BY <1>5, <1>7, <1>8, <1>9 DEF q

\* What blockset.read may answer is in the range, and of the reader's URI.
LEMMA AnswersInRange ==
    ASSUME IndInv, NEW r \in Readers, pc[r] = "scan", from[r] <= start[r],
           NEW A \in SUBSET Answering(target[r], start[r], end[r]),
           NEW records \in Answers(A, target[r], start[r], end[r])
    PROVE  /\ records \in Seq(Int \X Record) /\ Len(records) \in 1 .. BatchLimit
           /\ InRange(r, records) /\ \A i \in DOMAIN records : start[r] <= records[i][1]
<1>1. target[r] \in URIs /\ from[r] \in Int /\ start[r] \in Int /\ end[r] \in Int
    BY DEF IndInv, TypeOK, ReadType, CallsTarget
<1>2. PICK k \in A : records = BlockRead(blocksets[target[r]][k], start[r], end[r])
    BY DEF Answers, FirstOf
<1>3. k \in DOMAIN blocksets[target[r]]
    BY <1>2 DEF Answering
<1>4. PICK f \in Files : f = blocksets[target[r]][k] /\ disk[f].uri = target[r]
    BY <1>1, <1>3, BlocksAreFiles DEF IndInv, PublishedReady
<1>5. records # <<>>
    BY <1>2 DEF Answering
<1>6. /\ records \in Seq(Int \X Record) /\ Len(records) <= BatchLimit
      /\ Ascending(records)
      /\ \A i \in DOMAIN records :
           /\ start[r] <= records[i][1] /\ records[i][1] < end[r]
           /\ \E x \in DOMAIN disk[f].rows : records[i] = <<RowSeq(f, x), disk[f].rows[x]>>
    BY <1>1, <1>2, <1>4, BlockReadRows DEF IndInv, TypeOK
<1>7. Len(records) \in 1 .. BatchLimit
    BY <1>5, <1>6, EmptySeq, StoreAssumption
<1>8. ASSUME NEW i \in DOMAIN records PROVE from[r] <= records[i][1]
  <2>1. records[i][1] \in Int
    BY <1>6, ElementOfSeq, LenProperties
  <2>2. start[r] <= records[i][1]
    BY <1>6
  <2>. QED
    BY ONLY <1>1, <2>1, <2>2, from[r] <= start[r]
<1>9. InRange(r, records)
    BY <1>4, <1>6, <1>8 DEF InRange, FoundBy
<1>. QED
    BY <1>6, <1>7, <1>9

LEMMA PrefixInRange ==
    ASSUME NEW r \in Readers, NEW records \in Seq(Int \X Record), InRange(r, records),
           Len(records) \in 1 .. BatchLimit, NEW n \in 1 .. Len(records) - 1,
           NEW s, \A i \in DOMAIN records : s <= records[i][1]
    PROVE  LET q == SubSeq(records, 1, n) IN
           /\ q \in Seq(Int \X Record) /\ Len(q) \in 1 .. BatchLimit
           /\ InRange(r, q) /\ \A i \in DOMAIN q : s <= q[i][1]
<1> DEFINE q == SubSeq(records, 1, n)
<1>1. Len(records) \in Nat /\ DOMAIN records = 1 .. Len(records)
    BY LenProperties
<1>2. n \in Int /\ 1 <= n /\ n < Len(records)
    BY <1>1
<1>3. \A i \in 1 .. n : i \in DOMAIN records /\ records[i] \in Int \X Record
  <2>1. \A i \in 1 .. n : i \in 1 .. Len(records)
    BY <1>1, <1>2
  <2>2. \A i \in 1 .. n : records[i] \in Int \X Record
    BY <2>1, ElementOfSeq
  <2>. QED
    BY <1>1, <2>1, <2>2
<1>4. /\ q \in Seq(Int \X Record) /\ Len(q) = n
      /\ \A i \in 1 .. n : q[i] = records[i]
  <2>1. /\ SubSeq(records, 1, n) \in Seq(Int \X Record)
        /\ Len(SubSeq(records, 1, n)) = IF 1 <= n THEN n - 1 + 1 ELSE 0
        /\ \A i \in 1 .. n - 1 + 1 : SubSeq(records, 1, n)[i] = records[1 + i - 1]
    BY <1>2, <1>3, SubSeqProperties
  <2>2. n - 1 + 1 = n /\ \A i \in 1 .. n : 1 + i - 1 = i
    BY <1>2
  <2>. QED
    BY <1>2, <2>1, <2>2
<1> HIDE DEF q
<1>5. DOMAIN q = 1 .. n
    BY <1>4, LenProperties
<1>6. \A i \in DOMAIN q : i \in DOMAIN records /\ q[i] = records[i]
    BY <1>3, <1>4, <1>5
<1>7. InRange(r, q)
  <2>1. Ascending(q)
    BY <1>6 DEF InRange, Ascending
  <2>. QED
    BY <1>6, <2>1 DEF InRange
<1>8. Len(q) \in 1 .. BatchLimit
    BY <1>1, <1>2, <1>4, StoreAssumption
<1>. QED
    BY <1>4, <1>6, <1>7, <1>8 DEF q

LEMMA ScanSendsOffers ==
    ASSUME IndInv, NEW r \in Readers, from[r] <= start[r], ScanSends(r)
    PROVE  \E records : Offers(r, records)
<1>1. PICK records \in Answers(Answering(target[r], start[r], end[r]),
                               target[r], start[r], end[r]) : Offer(r, records)
    BY DEF ScanSends
<1>2. pc[r] = "scan" /\ UNCHANGED <<disk, status, blocksets, target, batch, from, end, got, acked, calls>>
    BY DEF ScanSends, storeVars, countVars
<1>. QED
    BY <1>1, <1>2, AnswersInRange DEF Offers

LEMMA ScanEndsFinishes ==
    ASSUME IndInv, NEW r \in Readers, pc[r] = "scan", chunk[r] = <<>>,
           pc' = [pc EXCEPT ![r] = "done"],
           UNCHANGED <<disk, status, blocksets, target, batch, from, start, end, got, acked, calls,
                       chunk>>
    PROVE  Finishes(r, "done")
<1>1. chunk' = [chunk EXCEPT ![r] = <<>>]
    BY DEF IndInv, TypeOK, ReadType
<1>. QED
    BY <1>1, DiskSame, SetsSame DEF Finishes, Apart

LEMMA ScanCutKinds ==
    ASSUME IndInv, NEW r \in Readers, chunk[r] = <<>>, from[r] <= start[r], ScanCut(r)
    PROVE  Finishes(r, "done") \/ \E records : Offers(r, records)
<1> DEFINE A == Answering(target[r], start[r], end[r])
           others == A \ FirstOf(A)
<1>1. pc[r] = "scan" /\ UNCHANGED <<disk, status, blocksets, target, batch, from, end, got, acked, calls>>
    BY DEF ScanCut, storeVars
<1>2. CASE \E records \in Answers(A, target[r], start[r], end[r]) :
              \E n \in 1 .. Len(records) - 1 : Offer(r, SubSeq(records, 1, n))
  <2>1. PICK records \in Answers(A, target[r], start[r], end[r]) :
              \E n \in 1 .. Len(records) - 1 : Offer(r, SubSeq(records, 1, n))
    BY <1>2
  <2>2. PICK n \in 1 .. Len(records) - 1 : Offer(r, SubSeq(records, 1, n))
    BY <2>1
  <2>3. /\ records \in Seq(Int \X Record) /\ Len(records) \in 1 .. BatchLimit
        /\ InRange(r, records) /\ \A i \in DOMAIN records : start[r] <= records[i][1]
    BY <1>1, AnswersInRange
  <2>. QED
    BY <1>1, <2>2, <2>3, PrefixInRange DEF Offers
<1>3. CASE \E records \in Answers(others, target[r], start[r], end[r]) : Offer(r, records)
    BY <1>1, <1>3, AnswersInRange DEF Offers
<1>4. CASE pc' = [pc EXCEPT ![r] = "done"] /\ UNCHANGED <<chunk, start>>
    BY <1>1, <1>4, ScanEndsFinishes
<1>. QED
    BY <1>2, <1>3, <1>4 DEF ScanCut

\* Every step is one of these, for callers and rows.
LEMMA StepCases ==
    ASSUME IndInv, IndInv', ReadsTracked, [Next]_vars
    PROVE  \/ \E w \in Writers, u \in URIs, k \in WriteSizes : BeginWrite(w, u, k)
           \/ \E r \in Readers, u \in URIs, s \in Starts, e \in Ends : BeginRead(r, u, s, e)
           \/ \E p \in Procs : \E label : GoesOn(p, label)
           \/ \E w \in Writers : \E f \in Files : Stores(w, f)
           \/ \E w \in Writers : WriteReturns(w)
           \/ \E w \in Writers : GivesUp(w)
           \/ \E r \in Readers : \E label : Finishes(r, label)
           \/ \E r \in Readers : \E records : Offers(r, records)
           \/ \E r \in Readers : Send(r)
           \/ status = "up" /\ Down
           \/ Boot \/ BootRefused
           \/ UNCHANGED vars
<1>1. ASSUME NEW w \in Writers, WriterStep(w) \/ WriterFault(w)
      PROVE  \/ \E label : GoesOn(w, label)
             \/ \E f \in Files : Stores(w, f)
             \/ WriteReturns(w)
             \/ GivesUp(w)
    BY <1>1, LookupGoesOn, MakingGoesOn, RollsGoesOn, CommitStores, BusyGivesUp,
       WriterFaultGivesUp DEF WriterStep
<1>2. ASSUME NEW r \in Readers, ReaderStep(r) \/ ReaderFault(r)
      PROVE  \/ \E label : GoesOn(r, label)
             \/ \E label : Finishes(r, label)
             \/ \E records : Offers(r, records)
  <2>1. (pc[r] = "scan" => chunk[r] = <<>>) /\ from[r] <= start[r]
    BY DEF ReadsTracked, Tracked
  <2>2. CASE ScanEnds(r)
    BY <2>1, <2>2, ScanEndsFinishes DEF ScanEnds, storeVars, callVars, seenVars, countVars
  <2>3. CASE ScanCut(r)
    BY <2>1, <2>3, ScanCutKinds DEF ScanCut
  <2>4. CASE ~ScanEnds(r) /\ ~ScanCut(r)
    BY <1>2, <2>1, <2>4, LookupGoesOn, MakingGoesOn, ScanSendsOffers, ReaderFaultFinishes
       DEF ReaderStep, ReaderFault
  <2>. QED
    BY <2>2, <2>3, <2>4
<1>3. CASE Crash \/ Close \/ Boot \/ BootRefused
    BY <1>3 DEF Crash, Close
<1>4. CASE Rest \/ UNCHANGED vars
    BY <1>4 DEF Rest
<1>. QED
    BY <1>1, <1>2, <1>3, <1>4 DEF Next

-----------------------------------------------------------------------------
(***************************************************************************)
(* Rows stay where they are; what a Write adds comes after them.           *)
(***************************************************************************)
LEMMA ConcatPlaces ==
    ASSUME NEW S, NEW s \in Seq(S), NEW t \in Seq(S)
    PROVE  /\ DOMAIN s = 1 .. Len(s) /\ Len(s) \in Nat
           /\ DOMAIN t = 1 .. Len(t) /\ Len(t) \in Nat
           /\ DOMAIN (s \o t) = 1 .. Len(s) + Len(t)
           /\ \A x \in DOMAIN s : x \in DOMAIN (s \o t) /\ (s \o t)[x] = s[x]
           /\ \A y \in DOMAIN t :
                 Len(s) + y \in DOMAIN (s \o t) /\ (s \o t)[Len(s) + y] = t[y]
           /\ \A x \in DOMAIN (s \o t) :
                 \/ x \in DOMAIN s
                 \/ \E y \in DOMAIN t : x = Len(s) + y
<1>1. /\ DOMAIN s = 1 .. Len(s) /\ Len(s) \in Nat
      /\ DOMAIN t = 1 .. Len(t) /\ Len(t) \in Nat
    BY LenProperties
<1> DEFINE m == Len(s)
           n == Len(t)
<1>2. /\ s \o t \in Seq(S) /\ Len(s \o t) = m + n
      /\ \A i \in 1 .. m + n : (s \o t)[i] = IF i <= m THEN s[i] ELSE t[i - m]
    BY ConcatProperties
<1>3. DOMAIN (s \o t) = 1 .. m + n
    BY <1>2, LenProperties
<1>4. m \in Nat /\ n \in Nat
    BY <1>1
<1> HIDE DEF m, n
<1>5. ASSUME NEW x \in 1 .. m PROVE x \in 1 .. m + n /\ (s \o t)[x] = s[x]
    BY <1>2, <1>4
<1>6. ASSUME NEW y \in 1 .. n PROVE m + y \in 1 .. m + n /\ (s \o t)[m + y] = t[y]
  <2>1. m + y \in 1 .. m + n /\ ~(m + y <= m) /\ (m + y) - m = y
    BY <1>4
  <2>. QED
    BY <1>2, <2>1
<1>7. ASSUME NEW x \in 1 .. m + n, x \notin 1 .. m PROVE \E y \in 1 .. n : x = m + y
  <2>1. x - m \in 1 .. n /\ x = m + (x - m)
    BY <1>4, <1>7
  <2>. QED
    BY <2>1
<1>. QED
    BY <1>1, <1>3, <1>5, <1>6, <1>7 DEF m, n

LEMMA CommitRows ==
    ASSUME IndInv, NEW w \in Writers, NEW f \in Files, Commit(w, f)
    PROVE  /\ disk[f].rows \in Seq(Record) /\ batch[w] \in Seq(Record)
           /\ disk'[f].rows = disk[f].rows \o batch[w]
           /\ disk'[f].uri = disk[f].uri /\ disk'[f].base = disk[f].base
           /\ \A g \in Files \ {f} : disk'[g] = disk[g]
BY DEF Commit, IndInv, TypeOK, DiskType, CallType

LEMMA CommitPlaces ==
    ASSUME IndInv, NEW w \in Writers, NEW f \in Files, Commit(w, f)
    PROVE  /\ DOMAIN batch[w] = 1 .. Len(batch[w]) /\ Len(batch[w]) \in Nat
           /\ Len(disk[f].rows) \in Nat
           /\ \A x \in DOMAIN disk[f].rows :
                 x \in DOMAIN disk'[f].rows /\ disk'[f].rows[x] = disk[f].rows[x]
           /\ \A y \in DOMAIN batch[w] :
                 /\ Len(disk[f].rows) + y \in DOMAIN disk'[f].rows
                 /\ disk'[f].rows[Len(disk[f].rows) + y] = batch[w][y]
           /\ \A x \in DOMAIN disk'[f].rows :
                 \/ x \in DOMAIN disk[f].rows
                 \/ \E y \in DOMAIN batch[w] : x = Len(disk[f].rows) + y
<1> DEFINE s == disk[f].rows
           t == batch[w]
           q == disk'[f].rows
<1>1. s \in Seq(Record) /\ t \in Seq(Record) /\ q = s \o t
    BY CommitRows
<1> HIDE DEF s, t, q
<1>2. /\ DOMAIN t = 1 .. Len(t) /\ Len(t) \in Nat /\ Len(s) \in Nat
      /\ \A x \in DOMAIN s : x \in DOMAIN (s \o t) /\ (s \o t)[x] = s[x]
      /\ \A y \in DOMAIN t :
            Len(s) + y \in DOMAIN (s \o t) /\ (s \o t)[Len(s) + y] = t[y]
      /\ \A x \in DOMAIN (s \o t) : x \in DOMAIN s \/ \E y \in DOMAIN t : x = Len(s) + y
  <2>1. \A S : \A a, b \in Seq(S) :
           /\ DOMAIN b = 1 .. Len(b) /\ Len(b) \in Nat /\ Len(a) \in Nat
           /\ \A x \in DOMAIN a : x \in DOMAIN (a \o b) /\ (a \o b)[x] = a[x]
           /\ \A y \in DOMAIN b :
                 Len(a) + y \in DOMAIN (a \o b) /\ (a \o b)[Len(a) + y] = b[y]
           /\ \A x \in DOMAIN (a \o b) : x \in DOMAIN a \/ \E y \in DOMAIN b : x = Len(a) + y
    <3>1. TAKE S
    <3>2. TAKE a, b \in Seq(S)
    <3>. QED
      BY ConcatPlaces
  <2>. QED
    BY ONLY <1>1, <2>1, Zenon
<1>3. /\ DOMAIN t = 1 .. Len(t) /\ Len(t) \in Nat /\ Len(s) \in Nat
      /\ \A x \in DOMAIN s : x \in DOMAIN q /\ q[x] = s[x]
      /\ \A y \in DOMAIN t : Len(s) + y \in DOMAIN q /\ q[Len(s) + y] = t[y]
      /\ \A x \in DOMAIN q : x \in DOMAIN s \/ \E y \in DOMAIN t : x = Len(s) + y
    BY ONLY <1>1, <1>2, Zenon
<1>. QED
    BY <1>3 DEF s, t, q

RowsStay ==
    \A f \in Files : \A x \in DOMAIN disk[f].rows :
        /\ x \in DOMAIN disk'[f].rows /\ disk'[f].rows[x] = disk[f].rows[x]
        /\ disk'[f].uri = disk[f].uri /\ disk'[f].base = disk[f].base

LEMMA SameStay ==
    ASSUME IndInv, RowsSame
    PROVE  RowsStay
<1>1. ASSUME NEW f \in Files, NEW x \in DOMAIN disk[f].rows PROVE disk[f].rows # <<>>
    OBVIOUS
<1>. QED
    BY <1>1 DEF RowsSame, RowsStay

LEMMA CommitStay ==
    ASSUME IndInv, NEW w \in Writers, NEW f \in Files, Commit(w, f)
    PROVE  RowsStay
<1>1. ASSUME NEW x \in DOMAIN disk[f].rows
      PROVE  x \in DOMAIN disk'[f].rows /\ disk'[f].rows[x] = disk[f].rows[x]
    BY CommitPlaces
<1>2. disk'[f].uri = disk[f].uri /\ disk'[f].base = disk[f].base
    BY CommitRows
<1>3. \A g \in Files \ {f} : disk'[g] = disk[g]
    BY CommitRows
<1>. QED
    BY <1>1, <1>2, <1>3 DEF RowsStay

\* A record on disk was there before, or is one of those the call adds.
LEMMA CommitSources ==
    ASSUME IndInv, NEW w \in Writers, NEW f \in Files, Commit(w, f),
           NEW g \in Files, NEW x \in DOMAIN disk'[g].rows
    PROVE  \/ x \in DOMAIN disk[g].rows /\ disk'[g].rows[x] = disk[g].rows[x]
           \/ g = f /\ \E y \in DOMAIN batch[w] :
                 x = Len(disk[f].rows) + y /\ disk'[g].rows[x] = batch[w][y]
<1>1. CASE g # f
  <2>1. disk'[g] = disk[g]
    BY <1>1, CommitRows
  <2>. QED
    BY <2>1
<1>2. CASE g = f
  <2>1. CASE x \in DOMAIN disk[f].rows
    BY <1>2, <2>1, CommitPlaces
  <2>2. CASE \E y \in DOMAIN batch[w] : x = Len(disk[f].rows) + y
    BY <1>2, <2>2, CommitPlaces
  <2>. QED
    BY <1>2, <2>1, <2>2, CommitPlaces
<1>. QED
    BY <1>1, <1>2

-----------------------------------------------------------------------------
(***************************************************************************)
(* LogInv is kept.                                                         *)
(***************************************************************************)
LEMMA PublishedStep ==
    ASSUME IndInv, IndInv', LogInv, [Next]_vars
    PROVE  RowsPublished'
<1> USE DEF LogInv
<1>1. ASSUME RowsSame, SetsGrow, status' = status PROVE RowsPublished'
  <2>1. SUFFICES ASSUME NEW f \in Files, disk'[f].rows # <<>>
                 PROVE  /\ disk'[f].uri \in URIs
                        /\ status' = "up" => f \in ToSet(blocksets'[disk'[f].uri])
    BY DEF RowsPublished
  <2>2. disk[f].rows # <<>> /\ disk'[f].uri = disk[f].uri
    BY <1>1, <2>1 DEF RowsSame
  <2>3. disk[f].uri \in URIs /\ (status = "up" => f \in ToSet(blocksets[disk[f].uri]))
    BY <2>2 DEF RowsPublished
  <2>. QED
    BY <1>1, <2>2, <2>3 DEF SetsGrow
<1>2. ASSUME NEW w \in Writers, NEW f \in Files, Stores(w, f) PROVE RowsPublished'
  <2>1. Commit(w, f) /\ blocksets' = blocksets /\ status' = status
    BY <1>2 DEF Stores, Commit
  <2>2. disk'[f].uri = disk[f].uri /\ \A g \in Files \ {f} : disk'[g] = disk[g]
    BY <2>1, CommitRows
  <2>3. disk[f].uri \in URIs /\ f \in ToSet(blocksets[disk[f].uri])
    BY <1>2 DEF Stores
  <2>. QED
    BY <2>1, <2>2, <2>3 DEF RowsPublished
<1>3. CASE Down \/ BootRefused
    BY <1>3 DEF Down, BootRefused, RowsPublished
<1>4. CASE Boot
  <2>1. SUFFICES ASSUME NEW f \in Files, disk[f].rows # <<>>
                 PROVE  disk[f].uri \in URIs /\ f \in ToSet(blocksets'[disk[f].uri])
    BY <1>4 DEF RowsPublished, Boot
  <2>2. disk[f].uri \in URIs /\ f \in FilesOf(disk[f].uri)
    BY <2>1 DEF RowsPublished, FilesOf, IndInv, RowsNeedSentinel
  <2>. QED
    BY <1>4, <2>2, BootFindsAll
<1>5. ASSUME UNCHANGED <<disk, status, blocksets>> PROVE RowsPublished'
    BY <1>1, <1>5, DiskSame, SetsSame
<1>6. ASSUME NEW p \in Procs, NEW label, GoesOn(p, label) PROVE RowsPublished'
    BY <1>1, <1>6 DEF GoesOn, Apart
<1>7. ASSUME NEW w \in Writers, GivesUp(w) PROVE RowsPublished'
    BY <1>1, <1>7 DEF GivesUp, Apart
<1>8. ASSUME NEW r \in Readers, NEW label, Finishes(r, label) PROVE RowsPublished'
    BY <1>1, <1>8 DEF Finishes, Apart
<1>9. ASSUME NEW w \in Writers, NEW u \in URIs, NEW k \in WriteSizes, BeginWrite(w, u, k)
      PROVE  RowsPublished'
    BY <1>5, <1>9 DEF BeginWrite, diskVars, storeVars
<1>10. ASSUME NEW r \in Readers, NEW u \in URIs, NEW s \in Starts, NEW e \in Ends,
              BeginRead(r, u, s, e)
       PROVE  RowsPublished'
    BY <1>5, <1>10 DEF BeginRead, diskVars, storeVars
<1>11. ASSUME NEW r \in Readers, NEW records, Offers(r, records) \/ Send(r)
       PROVE  RowsPublished'
    BY <1>5, <1>11 DEF Offers, Send, storeVars
<1>12. ASSUME NEW w \in Writers, WriteReturns(w) PROVE RowsPublished'
    BY <1>5, <1>12 DEF WriteReturns, storeVars
<1>13. CASE UNCHANGED vars
    BY <1>5, <1>13 DEF vars
<1>. QED
    BY <1>2, <1>3, <1>4, <1>6, <1>7, <1>8, <1>9, <1>10, <1>11, <1>12, <1>13, StepCases

LEMMA NumbersKept ==
    ASSUME IndInv, CallsNumbered, RowsSame, calls' = calls,
           \A w \in Writers :
              \/ pc'[w] = "idle" /\ batch'[w] = <<>>
              \/ /\ pc'[w] = "idle" <=> pc[w] = "idle"
                 /\ pc'[w] = "stored" <=> pc[w] = "stored"
                 /\ batch'[w] = batch[w]
    PROVE  CallsNumbered'
<1>1. ASSUME NEW w \in Writers, pc'[w] # "idle"
      PROVE  /\ pc[w] # "idle" /\ (pc'[w] = "stored" <=> pc[w] = "stored")
             /\ batch'[w] = batch[w] /\ Number(w)' = Number(w)
    BY <1>1 DEF Number
<1>2. ASSUME NEW w \in Writers, pc'[w] # "idle" PROVE batch'[w] # <<>> /\ Numbered(w)'
  <2>1. batch[w] # <<>> /\ Numbered(w)
    BY <1>1, <1>2 DEF CallsNumbered
  <2>. QED
    BY <1>1, <1>2, <2>1 DEF Numbered, RowsSame
<1>3. ASSUME NEW w \in Writers, pc'[w] = "idle" PROVE batch'[w] = <<>>
    BY <1>3 DEF CallsNumbered
<1>4. ASSUME NEW v \in Writers, NEW w \in Writers, pc'[v] # "idle", pc'[w] # "idle",
             Number(v)' = Number(w)'
      PROVE  v = w
    BY <1>1, <1>4 DEF CallsNumbered
<1>5. \A f \in Files : \A x \in DOMAIN disk'[f].rows : disk'[f].rows[x][1] < calls'
    BY DEF CallsNumbered, RowsSame
<1>. QED
    BY <1>2, <1>3, <1>4, <1>5 DEF CallsNumbered

LEMMA BeginWriteNumbers ==
    ASSUME IndInv, CallsNumbered, NEW w \in Writers, NEW u \in URIs, NEW k \in WriteSizes,
           BeginWrite(w, u, k)
    PROVE  CallsNumbered'
<1>1. k \in Nat /\ 1 <= k /\ calls \in Nat /\ MaxCalls \in Nat
    BY StoreAssumption DEF IndInv, TypeOK, CountType
<1>2. /\ disk' = disk /\ calls' = calls + 1 /\ calls < MaxCalls
      /\ pc[w] = "idle" /\ pc' = [pc EXCEPT ![w] = "lookup"]
      /\ batch' = [batch EXCEPT ![w] = [i \in 1 .. k |-> <<calls, i, k>>]]
    BY DEF BeginWrite, diskVars
<1>3. /\ batch'[w] = [i \in 1 .. k |-> <<calls, i, k>>] /\ pc'[w] # "idle"
      /\ \A v \in Writers \ {w} : batch'[v] = batch[v] /\ pc'[v] = pc[v]
    BY <1>2 DEF IndInv, TypeOK, CallType
<1>4. /\ DOMAIN batch'[w] = 1 .. k /\ Len(batch'[w]) = k /\ batch'[w] # <<>>
      /\ Number(w)' = calls /\ \A i \in 1 .. k : batch'[w][i] = <<calls, i, k>>
    BY <1>1, <1>3 DEF Number
<1>5. \A f \in Files : \A x \in DOMAIN disk[f].rows :
         disk[f].rows[x][1] < calls /\ disk[f].rows[x][1] \in Nat
  <2>1. ASSUME NEW f \in Files, NEW x \in DOMAIN disk[f].rows PROVE disk[f].rows[x] \in Record
    <3>1. disk[f].rows \in Seq(Record)
      BY DEF IndInv, TypeOK, DiskType
    <3>. QED
      BY <3>1
  <2>. QED
    BY <2>1 DEF CallsNumbered
<1>6. Numbered(w)'
    BY <1>1, <1>2, <1>4, <1>5 DEF Numbered
<1>7. ASSUME NEW v \in Writers \ {w}, pc[v] # "idle"
      PROVE  batch[v] # <<>> /\ Numbered(v)' /\ Number(v)' = Number(v) /\ Number(v) < calls
  <2>1. batch[v] # <<>> /\ Numbered(v)
    BY <1>7 DEF CallsNumbered
  <2>2. Number(v)' = Number(v)
    BY <1>3 DEF Number
  <2>3. Number(v) \in Nat
    <3>1. batch[v] \in Seq(Record)
      BY DEF IndInv, TypeOK, CallType
    <3>2. batch[v][1] \in Record
      BY <2>1, <3>1, EmptySeq
    <3>. QED
      BY <3>2 DEF Number
  <2>4. Number(v) < calls /\ Number(v) < calls + 1
    BY <1>1, <2>1, <2>3 DEF Numbered
  <2>. QED
    BY <1>2, <1>3, <2>1, <2>2, <2>4 DEF Numbered
<1>8. calls' <= MaxCalls
    BY <1>1, <1>2
<1>9. \A f \in Files : \A x \in DOMAIN disk'[f].rows : disk'[f].rows[x][1] < calls'
    BY <1>1, <1>2, <1>5
<1>10. ASSUME NEW v \in Writers
       PROVE  IF pc'[v] = "idle" THEN batch'[v] = <<>> ELSE batch'[v] # <<>> /\ Numbered(v)'
    BY <1>3, <1>4, <1>6, <1>7 DEF CallsNumbered
<1>11. ASSUME NEW v \in Writers, NEW x \in Writers, pc'[v] # "idle", pc'[x] # "idle",
              Number(v)' = Number(x)'
       PROVE  v = x
  <2>1. \A y \in Writers \ {w} : pc'[y] # "idle" => Number(y)' # calls
    BY <1>1, <1>3, <1>7
  <2>2. CASE v = w \/ x = w
    BY <1>4, <1>11, <2>1, <2>2
  <2>3. CASE v # w /\ x # w
    BY <1>3, <1>7, <1>11, <2>3 DEF CallsNumbered
  <2>. QED
    BY <2>2, <2>3
<1>. QED
    BY <1>8, <1>9, <1>10, <1>11 DEF CallsNumbered

LEMMA StoresNumbers ==
    ASSUME IndInv, CallsNumbered, NEW w \in Writers, NEW f \in Files, Stores(w, f)
    PROVE  CallsNumbered'
<1>1. Commit(w, f) /\ pc[w] \notin {"idle", "stored"}
    BY DEF Stores
<1>2. /\ pc'[w] = "stored" /\ batch' = batch /\ calls' = calls
      /\ \A v \in Writers \ {w} : pc'[v] = pc[v]
    BY <1>1 DEF Commit, callVars, countVars, IndInv, TypeOK, CallType
<1>3. batch[w] # <<>> /\ Numbered(w)
    BY <1>1 DEF CallsNumbered
<1>4. ASSUME NEW g \in Files, NEW x \in DOMAIN disk'[g].rows
      PROVE  \/ x \in DOMAIN disk[g].rows /\ disk'[g].rows[x] = disk[g].rows[x]
             \/ disk'[g].rows[x][1] = Number(w)
  <2>1. \A y \in DOMAIN batch[w] : batch[w][y][1] = Number(w)
    BY <1>3 DEF Numbered
  <2>. QED
    BY <1>1, <2>1, CommitSources
<1>5. \A g \in Files : \A x \in DOMAIN disk'[g].rows : disk'[g].rows[x][1] < calls'
    BY <1>2, <1>3, <1>4 DEF CallsNumbered, Numbered
<1>6. \A v \in Writers : (pc'[v] = "idle" <=> pc[v] = "idle") /\ Number(v)' = Number(v)
    BY <1>1, <1>2 DEF Number
<1>7. ASSUME NEW v \in Writers, pc'[v] # "idle" PROVE batch'[v] # <<>> /\ Numbered(v)'
  <2>1. batch[v] # <<>> /\ Numbered(v)
    BY <1>6, <1>7 DEF CallsNumbered
  <2>2. CASE v = w
    BY <1>2, <1>6, <2>1, <2>2 DEF Numbered
  <2>3. CASE v # w
    <3>1. Number(v) # Number(w)
      BY <1>1, <1>6, <1>7, <2>3 DEF CallsNumbered
    <3>2. pc[v] # "stored" =>
             \A g \in Files : \A x \in DOMAIN disk'[g].rows : disk'[g].rows[x][1] # Number(v)
      BY <1>4, <2>1, <3>1 DEF Numbered
    <3>. QED
      BY <1>2, <1>6, <2>1, <2>3, <3>2 DEF Numbered
  <2>. QED
    BY <2>2, <2>3
<1>8. \A v \in Writers : pc'[v] = "idle" => batch'[v] = <<>>
    BY <1>2, <1>6 DEF CallsNumbered
<1>9. \A v, x \in Writers : pc'[v] # "idle" /\ pc'[x] # "idle" /\ Number(v)' = Number(x)' => v = x
    BY <1>6 DEF CallsNumbered
<1>10. calls' <= MaxCalls
    BY <1>2 DEF CallsNumbered
<1>. QED
    BY <1>5, <1>7, <1>8, <1>9, <1>10 DEF CallsNumbered

LEMMA NumbersStep ==
    ASSUME IndInv, IndInv', LogInv, [Next]_vars
    PROVE  CallsNumbered'
<1>. CallsNumbered /\ ReadsTracked
    BY DEF LogInv
<1>1. \A r \in Readers : r \notin Writers
    BY StoreAssumption
<1>2. pc \in [Procs -> {"idle", "lookup", "table", "sentinel", "append",
                         "rest", "stored", "scan", "send", "done"}]
    BY DEF IndInv, TypeOK, CallType
<1>3. batch \in [Writers -> Seq(Record)]
    BY DEF IndInv, TypeOK, CallType
<1>4. ASSUME NEW p \in Procs, NEW label, GoesOn(p, label) PROVE CallsNumbered'
    BY <1>2, <1>4, NumbersKept DEF GoesOn, Apart
<1>5. ASSUME NEW w \in Writers, GivesUp(w) PROVE CallsNumbered'
    BY <1>2, <1>3, <1>5, NumbersKept DEF GivesUp, Apart
<1>6. ASSUME NEW r \in Readers, NEW label, Finishes(r, label) PROVE CallsNumbered'
    BY <1>1, <1>2, <1>6, NumbersKept DEF Finishes, Apart
<1>7. ASSUME NEW r \in Readers, NEW records, Offers(r, records) PROVE CallsNumbered'
    BY <1>1, <1>2, <1>7, DiskSame, NumbersKept DEF Offers, Offer
<1>8. ASSUME NEW r \in Readers, Send(r) PROVE CallsNumbered'
    BY <1>1, <1>2, <1>8, DiskSame, NumbersKept DEF Send, callVars, countVars
<1>9. ASSUME NEW r \in Readers, NEW u \in URIs, NEW s \in Starts, NEW e \in Ends,
             BeginRead(r, u, s, e)
      PROVE  CallsNumbered'
    BY <1>1, <1>2, <1>9, DiskSame, NumbersKept DEF BeginRead, diskVars
<1>10. CASE Down
    BY <1>10, DiskSame, NumbersKept DEF Down
<1>11. CASE Boot \/ BootRefused \/ UNCHANGED vars
    BY <1>11, DiskSame, NumbersKept DEF Boot, BootRefused, vars, callVars, countVars
<1>12. ASSUME NEW w \in Writers, WriteReturns(w) PROVE CallsNumbered'
    BY <1>2, <1>3, <1>12, DiskSame, NumbersKept DEF WriteReturns, ReturnTo, countVars
<1>. QED
    BY <1>4, <1>5, <1>6, <1>7, <1>8, <1>9, <1>10, <1>11, <1>12, BeginWriteNumbers, StoresNumbers,
       StepCases

-----------------------------------------------------------------------------
(***************************************************************************)
(* Records are stored once, and each with its call.                        *)
(***************************************************************************)
\* What a step does to the rows: nothing, or what a Write adds.
LEMMA RowSteps ==
    ASSUME IndInv, IndInv', LogInv, [Next]_vars
    PROVE  RowsSame \/ \E w \in Writers : \E f \in Files : Stores(w, f)
<1>. ReadsTracked
    BY DEF LogInv
<1>1. \/ UNCHANGED disk
      \/ \E p \in Procs : \E label : GoesOn(p, label)
      \/ \E w \in Writers : \E f \in Files : Stores(w, f)
      \/ \E w \in Writers : GivesUp(w)
      \/ \E r \in Readers : \E label : Finishes(r, label)
    BY StepCases
       DEF BeginWrite, BeginRead, WriteReturns, Offers, Send, Down, Boot, BootRefused, vars,
           diskVars
<1>. QED
    BY <1>1, DiskSame DEF GoesOn, GivesUp, Finishes

LEMMA AtomicStep ==
    ASSUME IndInv, IndInv', LogInv, BatchAtomic, [Next]_vars
    PROVE  BatchAtomic'
<1>1. CASE RowsSame
    BY <1>1 DEF RowsSame, BatchAtomic
<1>2. ASSUME NEW w \in Writers, NEW f \in Files, Stores(w, f) PROVE BatchAtomic'
  <2> DEFINE L == Len(disk[f].rows)
             n == Number(w)
             k == Len(batch[w])
  <2>1. Commit(w, f) /\ pc[w] # "stored" /\ Numbered(w)
    BY <1>2 DEF Stores, LogInv, CallsNumbered
  <2>2. /\ DOMAIN batch[w] = 1 .. k /\ k \in Nat /\ L \in Nat
        /\ \A y \in DOMAIN batch[w] : /\ L + y \in DOMAIN disk'[f].rows
                                      /\ disk'[f].rows[L + y] = batch[w][y]
    BY <2>1, CommitPlaces
  <2>3. \A y \in DOMAIN batch[w] : batch[w][y] = <<n, y, k>>
    BY <2>1 DEF Numbered
  <2> HIDE DEF L, n, k
  <2>4. \A y \in 1 .. k : L + y \in DOMAIN disk'[f].rows /\ disk'[f].rows[L + y] = <<n, y, k>>
    BY <2>2, <2>3
  <2>5. SUFFICES ASSUME NEW g \in Files, NEW x \in DOMAIN disk'[g].rows,
                        NEW j \in 1 .. disk'[g].rows[x][3]
                 PROVE  /\ x - disk'[g].rows[x][2] + j \in DOMAIN disk'[g].rows
                        /\ disk'[g].rows[x - disk'[g].rows[x][2] + j]
                              = <<disk'[g].rows[x][1], j, disk'[g].rows[x][3]>>
    BY DEF BatchAtomic
  <2>6. CASE x \in DOMAIN disk[g].rows /\ disk'[g].rows[x] = disk[g].rows[x]
    <3>1. /\ x - disk[g].rows[x][2] + j \in DOMAIN disk[g].rows
          /\ disk[g].rows[x - disk[g].rows[x][2] + j]
                = <<disk[g].rows[x][1], j, disk[g].rows[x][3]>>
      BY <2>5, <2>6 DEF BatchAtomic
    <3>2. RowsStay
      BY <2>1, CommitStay
    <3>. QED
      BY <2>6, <3>1, <3>2 DEF RowsStay
  <2>7. ASSUME NEW y \in DOMAIN batch[w], g = f, x = L + y, disk'[g].rows[x] = batch[w][y]
        PROVE  /\ x - disk'[g].rows[x][2] + j \in DOMAIN disk'[g].rows
               /\ disk'[g].rows[x - disk'[g].rows[x][2] + j]
                     = <<disk'[g].rows[x][1], j, disk'[g].rows[x][3]>>
    <3>1. disk'[g].rows[x] = <<n, y, k>> /\ y \in 1 .. k
      BY <2>2, <2>3, <2>7
    <3>2. j \in 1 .. k
      BY <2>5, <3>1
    <3>3. x - y + j = L + j
      BY <2>2, <2>7, <3>1, <3>2
    <3>4. x - disk'[g].rows[x][2] + j = L + j
      BY <3>1, <3>3
    <3>. QED
      BY <2>4, <2>7, <3>1, <3>2, <3>4
  <2>. QED
    BY <2>1, <2>6, <2>7, CommitSources DEF L
<1>. QED
    BY <1>1, <1>2, RowSteps

LEMMA OnceStep ==
    ASSUME IndInv, IndInv', LogInv, StoredOnce, [Next]_vars
    PROVE  StoredOnce'
<1>1. CASE RowsSame
    BY <1>1 DEF RowsSame, StoredOnce
<1>2. ASSUME NEW w \in Writers, NEW f \in Files, Stores(w, f) PROVE StoredOnce'
  <2>1. Commit(w, f) /\ pc[w] # "stored" /\ Numbered(w)
    BY <1>2 DEF Stores, LogInv, CallsNumbered
  <2>2. SUFFICES ASSUME NEW g \in Files, NEW x \in DOMAIN disk'[g].rows,
                        NEW h \in Files, NEW y \in DOMAIN disk'[h].rows,
                        disk'[g].rows[x] = disk'[h].rows[y]
                 PROVE  g = h /\ x = y
    BY DEF StoredOnce
  <2> DEFINE Old(a, z) == z \in DOMAIN disk[a].rows /\ disk'[a].rows[z] = disk[a].rows[z]
             New(a, z) == a = f /\ \E i \in DOMAIN batch[w] :
                             z = Len(disk[f].rows) + i /\ disk'[a].rows[z] = batch[w][i]
  <2>3. (Old(g, x) \/ New(g, x)) /\ (Old(h, y) \/ New(h, y))
    BY <2>1, CommitSources
  <2>4. \A i \in DOMAIN batch[w] : batch[w][i] = <<Number(w), i, Len(batch[w])>>
    BY <2>1 DEF Numbered
  <2>5. \A a \in Files : \A z \in DOMAIN disk[a].rows : disk[a].rows[z][1] # Number(w)
    BY <2>1 DEF Numbered
  <2>6. CASE Old(g, x) /\ Old(h, y)
    <3>1. /\ x \in DOMAIN disk[g].rows /\ y \in DOMAIN disk[h].rows
          /\ disk[g].rows[x] = disk[h].rows[y]
      BY <2>2, <2>6
    <3>. QED
      BY ONLY <3>1, StoredOnce, g \in Files, h \in Files DEF StoredOnce
  <2>7. CASE New(g, x) /\ New(h, y)
    BY <2>2, <2>4, <2>7
  <2>8. ~(Old(g, x) /\ New(h, y)) /\ ~(New(g, x) /\ Old(h, y))
    BY <2>2, <2>4, <2>5
  <2>. QED
    BY <2>3, <2>6, <2>7, <2>8
<1>. QED
    BY <1>1, <1>2, RowSteps

-----------------------------------------------------------------------------
(***************************************************************************)
(* Reads are tracked.                                                      *)
(***************************************************************************)
\* InRange in the next state, of a sequence that need not be a variable.
FoundNext(r, pair) ==
    \E f \in Files : \E x \in DOMAIN disk'[f].rows :
        disk'[f].uri = target'[r] /\ pair = <<disk'[f].base + x - 1, disk'[f].rows[x]>>
RangeNext(r, q) ==
    /\ Ascending(q)
    /\ \A i \in DOMAIN q :
          from'[r] <= q[i][1] /\ q[i][1] < end'[r] /\ FoundNext(r, q[i])

LEMMA RangeStays ==
    ASSUME IndInv, RowsStay, NEW r \in Readers, target'[r] = target[r],
           from'[r] = from[r], end'[r] = end[r], NEW q, InRange(r, q)
    PROVE  RangeNext(r, q)
<1>1. ASSUME NEW pair, FoundBy(r, pair) PROVE FoundNext(r, pair)
  <2>1. PICK f \in Files : \E x \in DOMAIN disk[f].rows :
           disk[f].uri = target[r] /\ pair = <<RowSeq(f, x), disk[f].rows[x]>>
    BY <1>1 DEF FoundBy
  <2>2. PICK x \in DOMAIN disk[f].rows :
           disk[f].uri = target[r] /\ pair = <<RowSeq(f, x), disk[f].rows[x]>>
    BY <2>1
  <2>3. /\ x \in DOMAIN disk'[f].rows /\ disk'[f].uri = target'[r]
        /\ pair = <<disk'[f].base + x - 1, disk'[f].rows[x]>>
    BY <2>2 DEF RowsStay, RowSeq
  <2>. QED
    BY <2>3 DEF FoundNext
<1>. QED
    BY <1>1 DEF InRange, RangeNext

LEMMA TrackedNext ==
    ASSUME NEW r \in Readers, RangeNext(r, got'[r]), RangeNext(r, chunk'[r]),
           from'[r] <= start'[r],
           \A i \in DOMAIN chunk'[r] : Below(got'[r], chunk'[r][i][1]),
           pc'[r] \notin {"idle", "done"} =>
              Below(got'[r], start'[r]) /\ Below(chunk'[r], start'[r]),
           IF pc'[r] = "send" THEN Len(chunk'[r]) \in 1 .. BatchLimit ELSE chunk'[r] = <<>>
    PROVE  Tracked(r)'
<1>1. InRange(r, got[r])'
    BY DEF RangeNext, FoundNext, InRange, Ascending, FoundBy, RowSeq
<1>2. InRange(r, chunk[r])'
    BY DEF RangeNext, FoundNext, InRange, Ascending, FoundBy, RowSeq
<1>. QED
    BY <1>1, <1>2 DEF Tracked, Below

\* A reader that the step does not concern.
LEMMA TrackedStays ==
    ASSUME IndInv, RowsStay, NEW r \in Readers, Tracked(r),
           pc'[r] = pc[r], target'[r] = target[r], from'[r] = from[r], start'[r] = start[r],
           end'[r] = end[r], chunk'[r] = chunk[r], got'[r] = got[r]
    PROVE  Tracked(r)'
<1>1. RangeNext(r, got[r]) /\ RangeNext(r, chunk[r])
    BY RangeStays DEF Tracked
<1>. QED
    BY <1>1, TrackedNext DEF Tracked

LEMMA EmptyInRange ==
    ASSUME NEW r \in Readers
    PROVE  RangeNext(r, <<>>) /\ \A n : Below(<<>>, n)
BY DEF RangeNext, Ascending, Below

LEMMA BeginReadTracked ==
    ASSUME IndInv, NEW r \in Readers, Tracked(r), NEW u \in URIs, NEW s \in Starts,
           NEW e \in Ends, BeginRead(r, u, s, e)
    PROVE  Tracked(r)'
<1>1. /\ got'[r] = <<>> /\ chunk'[r] = <<>> /\ pc'[r] = "lookup"
      /\ from'[r] = s /\ start'[r] = s /\ s \in Nat
    BY StoreAssumption DEF BeginRead, Tracked, IndInv, TypeOK, CallType, ReadType
<1>. QED
    BY <1>1, EmptyInRange, TrackedNext

LEMMA GoesOnTracked ==
    ASSUME IndInv, NEW r \in Readers, Tracked(r), NEW label, GoesOn(r, label)
    PROVE  Tracked(r)'
<1>1. /\ pc'[r] = label /\ got'[r] = got[r] /\ chunk'[r] = chunk[r]
      /\ from'[r] = from[r] /\ start'[r] = start[r] /\ end'[r] = end[r]
      /\ target'[r] = target[r]
    BY DEF GoesOn, Apart, IndInv, TypeOK, CallType
<1>2. from[r] <= start[r] /\ chunk[r] = <<>> /\ Below(got[r], start[r]) /\ InRange(r, got[r])
    BY DEF Tracked, GoesOn
<1>3. RangeNext(r, got[r])
    BY <1>1, <1>2, SameStay, RangeStays DEF GoesOn
<1>. QED
    BY <1>1, <1>2, <1>3, EmptyInRange, TrackedNext DEF GoesOn

LEMMA FinishesTracked ==
    ASSUME IndInv, NEW r \in Readers, Tracked(r), NEW label, Finishes(r, label)
    PROVE  Tracked(r)'
<1>1. /\ pc'[r] = label /\ got'[r] = got[r] /\ chunk'[r] = <<>>
      /\ from'[r] = from[r] /\ start'[r] = start[r] /\ end'[r] = end[r]
      /\ target'[r] = target[r]
    BY DEF Finishes, Apart, IndInv, TypeOK, CallType, ReadType
<1>2. from[r] <= start[r] /\ RangeNext(r, got[r])
    BY <1>1, SameStay, RangeStays DEF Finishes, Tracked
<1>. QED
    BY <1>1, <1>2, EmptyInRange, TrackedNext DEF Finishes

LEMMA OffersTracked ==
    ASSUME IndInv, NEW r \in Readers, Tracked(r), NEW records, Offers(r, records)
    PROVE  Tracked(r)'
<1>1. /\ pc[r] = "scan" /\ pc'[r] = "send" /\ got'[r] = got[r] /\ chunk'[r] = records
      /\ start'[r] = NextStart(records) /\ from'[r] = from[r] /\ end'[r] = end[r]
      /\ target'[r] = target[r]
    BY DEF Offers, Offer, IndInv, TypeOK, CallType, ReadType
<1>2. /\ records \in Seq(Int \X Record) /\ Len(records) \in 1 .. BatchLimit
      /\ InRange(r, records) /\ \A i \in DOMAIN records : start[r] <= records[i][1]
    BY DEF Offers
<1>3. InRange(r, got[r]) /\ Below(got[r], start[r]) /\ from[r] <= start[r]
    BY <1>1 DEF Tracked
<1>4. RangeNext(r, got[r]) /\ RangeNext(r, records)
    BY <1>1, <1>2, <1>3, DiskSame, SameStay, RangeStays DEF Offers
<1>5. /\ DOMAIN records = 1 .. Len(records) /\ Len(records) \in DOMAIN records
      /\ \A i \in DOMAIN records : records[i][1] \in Int /\ i \in Int
  <2>1. DOMAIN records = 1 .. Len(records) /\ Len(records) \in Nat /\ 1 <= Len(records)
    BY <1>2, LenProperties, StoreAssumption
  <2>2. Len(records) \in 1 .. Len(records)
    BY <2>1
  <2>3. \A i \in 1 .. Len(records) : records[i] \in Int \X Record
    BY <1>2, ElementOfSeq
  <2>. QED
    BY <2>1, <2>2, <2>3
<1>6. /\ from[r] \in Int /\ start[r] \in Int
      /\ \A i \in DOMAIN got[r] : got[r][i][1] \in Int
  <2>1. from[r] \in Int /\ start[r] \in Int /\ got[r] \in Seq(Int \X Record)
    BY DEF IndInv, TypeOK, ReadType
  <2>2. \A i \in DOMAIN got[r] : got[r][i] \in Int \X Record
    BY <2>1, ElementOfSeq, LenProperties
  <2>. QED
    BY <2>1, <2>2
<1>7. \A i \in DOMAIN records : Below(got[r], records[i][1])
  <2>1. SUFFICES ASSUME NEW i \in DOMAIN records, NEW j \in DOMAIN got[r]
                 PROVE  got[r][j][1] < records[i][1]
    BY DEF Below
  <2>2. got[r][j][1] < start[r] /\ start[r] <= records[i][1]
    BY <1>2, <1>3 DEF Below
  <2>3. got[r][j][1] \in Int /\ start[r] \in Int /\ records[i][1] \in Int
    BY <1>5, <1>6
  <2>. QED
    BY ONLY <2>2, <2>3
<1>8. NextStart(records) = records[Len(records)][1] + 1
    BY DEF NextStart, Last
<1>9. Below(records, NextStart(records))
  <2>1. ASSUME NEW i \in DOMAIN records PROVE records[i][1] <= records[Len(records)][1]
    <3>1. i = Len(records) \/ i < Len(records)
      BY <1>5
    <3>2. CASE i < Len(records)
      <4>1. records[i][1] < records[Len(records)][1]
        BY <1>2, <1>5, <3>2 DEF InRange, Ascending
      <4>2. records[i][1] \in Int /\ records[Len(records)][1] \in Int
        BY <1>5
      <4>. QED
        BY ONLY <4>1, <4>2
    <3>. QED
      BY <1>5, <3>1, <3>2
  <2>. QED
    BY <1>5, <1>8, <2>1 DEF Below
<1>10. start[r] <= records[Len(records)][1] /\ records[Len(records)][1] \in Int
    BY <1>2, <1>5
<1>11. Below(got[r], NextStart(records))
    BY <1>3, <1>5, <1>6, <1>8, <1>10 DEF Below
<1>12. from[r] <= NextStart(records)
    BY ONLY <1>3, <1>6, <1>8, <1>10
<1>. QED
    BY <1>1, <1>2, <1>4, <1>7, <1>9, <1>11, <1>12, TrackedNext

LEMMA SendTracked ==
    ASSUME IndInv, NEW r \in Readers, Tracked(r), Send(r)
    PROVE  Tracked(r)'
<1> DEFINE g == got[r]
           c == chunk[r]
<1>1. /\ pc[r] = "send" /\ pc'[r] = "scan" /\ got'[r] = g \o c /\ chunk'[r] = <<>>
      /\ from'[r] = from[r] /\ start'[r] = start[r] /\ end'[r] = end[r]
      /\ target'[r] = target[r] /\ disk' = disk
    BY DEF Send, callVars, IndInv, TypeOK, CallType, ReadType
<1>2. /\ InRange(r, g) /\ InRange(r, c)
      /\ \A i \in DOMAIN c : Below(g, c[i][1])
      /\ Below(g, start[r]) /\ Below(c, start[r]) /\ from[r] <= start[r]
    BY <1>1 DEF Tracked
<1>3. RangeNext(r, g) /\ RangeNext(r, c)
    BY <1>1, <1>2, DiskSame, SameStay, RangeStays
<1>4. g \in Seq(Int \X Record) /\ c \in Seq(Int \X Record)
    BY DEF IndInv, TypeOK, ReadType
<1> HIDE DEF g, c
<1> DEFINE m == Len(g)
<1>5. /\ m \in Nat /\ DOMAIN g = 1 .. m /\ \A y \in DOMAIN c : y \in Int
      /\ \A y \in DOMAIN c : m + y \in DOMAIN (g \o c) /\ (g \o c)[m + y] = c[y] /\ 1 <= y
      /\ \A x \in DOMAIN g : x \in DOMAIN (g \o c) /\ (g \o c)[x] = g[x]
      /\ \A x \in DOMAIN (g \o c) : x \in DOMAIN g \/ \E y \in DOMAIN c : x = m + y
  <2>1. /\ DOMAIN g = 1 .. Len(g) /\ Len(g) \in Nat
        /\ DOMAIN c = 1 .. Len(c) /\ Len(c) \in Nat
        /\ \A x \in DOMAIN g : x \in DOMAIN (g \o c) /\ (g \o c)[x] = g[x]
        /\ \A y \in DOMAIN c :
              Len(g) + y \in DOMAIN (g \o c) /\ (g \o c)[Len(g) + y] = c[y]
        /\ \A x \in DOMAIN (g \o c) : x \in DOMAIN g \/ \E y \in DOMAIN c : x = Len(g) + y
    <3>1. \A S : \A a, b \in Seq(S) :
             /\ DOMAIN a = 1 .. Len(a) /\ Len(a) \in Nat
             /\ DOMAIN b = 1 .. Len(b) /\ Len(b) \in Nat
             /\ \A x \in DOMAIN a : x \in DOMAIN (a \o b) /\ (a \o b)[x] = a[x]
             /\ \A y \in DOMAIN b :
                   Len(a) + y \in DOMAIN (a \o b) /\ (a \o b)[Len(a) + y] = b[y]
             /\ \A x \in DOMAIN (a \o b) : x \in DOMAIN a \/ \E y \in DOMAIN b : x = Len(a) + y
      <4>1. TAKE S
      <4>2. TAKE a, b \in Seq(S)
      <4>. QED
        BY ConcatPlaces
    <3>. QED
      BY ONLY <1>4, <3>1, Zenon
  <2>. QED
    BY <2>1
<1> HIDE DEF m
<1>6. ASSUME NEW x \in DOMAIN (g \o c)
      PROVE  \/ x \in DOMAIN g /\ (g \o c)[x] = g[x]
             \/ \E y \in DOMAIN c : x = m + y /\ (g \o c)[x] = c[y]
    BY <1>5
<1>7. Ascending(g \o c)
  <2>1. SUFFICES ASSUME NEW i \in DOMAIN (g \o c), NEW j \in DOMAIN (g \o c), i < j
                 PROVE  (g \o c)[i][1] < (g \o c)[j][1]
    BY DEF Ascending
  <2>2. CASE i \in DOMAIN g /\ j \in DOMAIN g
    BY <1>2, <1>5, <2>1, <2>2 DEF InRange, Ascending
  <2>3. ASSUME i \in DOMAIN g, NEW y \in DOMAIN c, j = m + y
        PROVE  (g \o c)[i][1] < (g \o c)[j][1]
    <3>1. g[i][1] < c[y][1]
      BY <1>2, <2>3 DEF Below
    <3>. QED
      BY <1>5, <2>3, <3>1
  <2>4. ASSUME NEW y \in DOMAIN c, i = m + y, NEW z \in DOMAIN c, j = m + z
        PROVE  (g \o c)[i][1] < (g \o c)[j][1]
    <3>1. y < z
      BY <1>5, <2>1, <2>4
    <3>2. c[y][1] < c[z][1]
      BY <1>2, <3>1 DEF InRange, Ascending
    <3>. QED
      BY <1>5, <2>4, <3>2
  <2>5. ASSUME NEW y \in DOMAIN c, i = m + y PROVE j \notin DOMAIN g
    BY <1>5, <2>1, <2>5
  <2>. QED
    BY <1>5, <2>2, <2>3, <2>4, <2>5
<1>8. RangeNext(r, g \o c)
  <2>1. \A x \in DOMAIN (g \o c) :
           /\ from'[r] <= (g \o c)[x][1] /\ (g \o c)[x][1] < end'[r]
           /\ FoundNext(r, (g \o c)[x])
    BY <1>3, <1>6 DEF RangeNext
  <2>. QED
    BY <1>7, <2>1 DEF RangeNext
<1>9. Below(g \o c, start[r])
    BY <1>2, <1>6 DEF Below
<1>10. RangeNext(r, got'[r]) /\ Below(got'[r], start'[r]) /\ from'[r] <= start'[r]
    BY <1>1, <1>2, <1>8, <1>9
<1>11. /\ RangeNext(r, chunk'[r]) /\ Below(chunk'[r], start'[r])
       /\ \A i \in DOMAIN chunk'[r] : Below(got'[r], chunk'[r][i][1])
    BY <1>1, EmptyInRange
<1>. QED
    BY <1>1, <1>10, <1>11, TrackedNext

LEMMA DownTracked ==
    ASSUME NEW r \in Readers, Down
    PROVE  Tracked(r)'
<1>1. /\ got'[r] = <<>> /\ chunk'[r] = <<>> /\ pc'[r] = "idle"
      /\ from'[r] = 0 /\ start'[r] = 0
    BY DEF Down, Procs
<1>. QED
    BY <1>1, EmptyInRange, TrackedNext

\* What a step leaves as it is for the readers it does not concern.
SameReader(r) ==
    /\ pc'[r] = pc[r] /\ target'[r] = target[r]
    /\ from'[r] = from[r] /\ start'[r] = start[r]
    /\ end'[r] = end[r] /\ chunk'[r] = chunk[r] /\ got'[r] = got[r]

LEMMA TrackedStep ==
    ASSUME IndInv, IndInv', LogInv, [Next]_vars
    PROVE  ReadsTracked'
<1>. ReadsTracked
    BY DEF LogInv
<1>1. SUFFICES ASSUME NEW q \in Readers PROVE Tracked(q)'
    BY DEF ReadsTracked
<1>2. Tracked(q) /\ \A w \in Writers : w # q
    BY StoreAssumption DEF ReadsTracked
<1>3. /\ pc \in [Procs -> {"idle", "lookup", "table", "sentinel", "append",
                            "rest", "stored", "scan", "send", "done"}]
      /\ target \in [Procs -> URIs \cup {Nil}]
      /\ from \in [Readers -> Int] /\ start \in [Readers -> Int] /\ end \in [Readers -> Int]
      /\ chunk \in [Readers -> Seq(Int \X Record)]
      /\ got \in [Readers -> Seq(Int \X Record)]
    BY DEF IndInv, TypeOK, CallType, ReadType
<1>4. ASSUME RowsStay, SameReader(q) PROVE Tracked(q)'
    BY <1>2, <1>4, TrackedStays DEF SameReader
<1>5. ASSUME RowsSame, SameReader(q) PROVE Tracked(q)'
    BY <1>4, <1>5, SameStay
<1>6. ASSUME NEW p \in Procs, NEW label, GoesOn(p, label) PROVE Tracked(q)'
  <2>1. CASE p = q
    BY <1>2, <1>6, <2>1, GoesOnTracked
  <2>2. CASE p # q
    BY <1>3, <1>5, <1>6, <2>2 DEF GoesOn, Apart, SameReader
  <2>. QED
    BY <2>1, <2>2
<1>7. ASSUME NEW w \in Writers, NEW f \in Files, Stores(w, f) PROVE Tracked(q)'
  <2>1. SameReader(q)
    BY <1>2, <1>3, <1>7 DEF Stores, Commit, callVars, seenVars, SameReader
  <2>. QED
    BY <1>4, <1>7, <2>1, CommitStay DEF Stores
<1>8. ASSUME NEW w \in Writers, GivesUp(w) PROVE Tracked(q)'
    BY <1>2, <1>3, <1>5, <1>8 DEF GivesUp, Apart, SameReader
<1>9. ASSUME NEW r \in Readers, NEW label, Finishes(r, label) PROVE Tracked(q)'
  <2>1. CASE r = q
    BY <1>2, <1>9, <2>1, FinishesTracked
  <2>2. CASE r # q
    BY <1>3, <1>5, <1>9, <2>2 DEF Finishes, Apart, SameReader
  <2>. QED
    BY <2>1, <2>2
<1>10. ASSUME NEW r \in Readers, NEW records, Offers(r, records) PROVE Tracked(q)'
  <2>1. CASE r = q
    BY <1>2, <1>10, <2>1, OffersTracked
  <2>2. CASE r # q
    <3>1. SameReader(q) /\ disk' = disk
      BY <1>3, <1>10, <2>2 DEF Offers, Offer, SameReader
    <3>. QED
      BY <1>5, <3>1, DiskSame
  <2>. QED
    BY <2>1, <2>2
<1>11. ASSUME NEW r \in Readers, Send(r) PROVE Tracked(q)'
  <2>1. CASE r = q
    BY <1>2, <1>11, <2>1, SendTracked
  <2>2. CASE r # q
    <3>1. SameReader(q) /\ disk' = disk
      BY <1>3, <1>11, <2>2 DEF Send, callVars, SameReader
    <3>. QED
      BY <1>5, <3>1, DiskSame
  <2>. QED
    BY <2>1, <2>2
<1>12. ASSUME NEW w \in Writers, NEW u \in URIs, NEW k \in WriteSizes, BeginWrite(w, u, k)
       PROVE  Tracked(q)'
  <2>1. SameReader(q) /\ disk' = disk
    BY <1>2, <1>3, <1>12 DEF BeginWrite, diskVars, seenVars, SameReader
  <2>. QED
    BY <1>5, <2>1, DiskSame
<1>13. ASSUME NEW r \in Readers, NEW u \in URIs, NEW s \in Starts, NEW e \in Ends,
              BeginRead(r, u, s, e)
       PROVE  Tracked(q)'
  <2>1. CASE r = q
    BY <1>2, <1>13, <2>1, BeginReadTracked
  <2>2. CASE r # q
    <3>1. SameReader(q) /\ disk' = disk
      BY <1>3, <1>13, <2>2 DEF BeginRead, diskVars, SameReader
    <3>. QED
      BY <1>5, <3>1, DiskSame
  <2>. QED
    BY <2>1, <2>2
<1>14. CASE Boot \/ BootRefused \/ UNCHANGED vars
  <2>1. SameReader(q) /\ disk' = disk
    BY <1>14 DEF Boot, BootRefused, vars, callVars, seenVars, SameReader
  <2>. QED
    BY <1>5, <2>1, DiskSame
<1>15. ASSUME NEW w \in Writers, WriteReturns(w) PROVE Tracked(q)'
  <2>1. SameReader(q) /\ disk' = disk
    BY <1>2, <1>3, <1>15 DEF WriteReturns, ReturnTo, seenVars, SameReader
  <2>. QED
    BY <1>5, <2>1, DiskSame
<1>. QED
    BY <1>6, <1>7, <1>8, <1>9, <1>10, <1>11, <1>12, <1>13, <1>14, <1>15, DownTracked, StepCases

-----------------------------------------------------------------------------
(***************************************************************************)
(* The theorems about Store.                                               *)
(***************************************************************************)
LEMMA LogInit == Init => LogInv /\ BatchAtomic /\ StoredOnce
<1>. SUFFICES ASSUME Init PROVE LogInv /\ BatchAtomic /\ StoredOnce
    OBVIOUS
<1>1. /\ \A f \in Files : disk[f].rows = <<>> /\ DOMAIN disk[f].rows = {}
      /\ \A w \in Writers : pc[w] = "idle" /\ batch[w] = <<>>
      /\ \A r \in Readers : /\ pc[r] = "idle" /\ got[r] = <<>> /\ chunk[r] = <<>>
                             /\ from[r] = 0 /\ start[r] = 0
      /\ calls = 0
    BY DEF Init, NoFileYet
<1>2. RowsPublished
    BY <1>1 DEF RowsPublished
<1>3. CallsNumbered
    BY <1>1, StoreAssumption DEF CallsNumbered
<1>4. ReadsTracked
    BY <1>1 DEF ReadsTracked, Tracked, InRange, Ascending
<1>. QED
    BY <1>1, <1>2, <1>3, <1>4 DEF LogInv, BatchAtomic, StoredOnce

\* The records of a Write that runs have a number of their own, every row is
\* found through a blockset, and what a Read has sent and is about to send are
\* rows of its range, in order: sqlite.go, sqlite_blockset.go.
THEOREM LogKept == Spec => []LogInv
<1>1. Init => LogInv
    BY LogInit
<1>2. IndInv /\ IndInv' /\ LogInv /\ [Next]_vars => LogInv'
    BY PublishedStep, NumbersStep, TrackedStep DEF LogInv
<1>. QED
    BY <1>1, <1>2, Inductive, PTL DEF Spec

\* The records of one Write are in one file, side by side and in order, or
\* nowhere: block.write's transaction, and blockset.write, which hands all of
\* them to one block.
THEOREM AllOrNothing == Spec => []BatchAtomic
<1>1. Init => BatchAtomic
    BY LogInit
<1>2. IndInv /\ IndInv' /\ LogInv /\ BatchAtomic /\ [Next]_vars => BatchAtomic'
    BY AtomicStep
<1>. QED
    BY <1>1, <1>2, Inductive, LogKept, PTL DEF Spec

\* No record is stored twice: a rollover of blockset.write commits an empty
\* transaction to the block it leaves.
THEOREM NoCopies == Spec => []StoredOnce
<1>1. Init => StoredOnce
    BY LogInit
<1>2. IndInv /\ IndInv' /\ LogInv /\ StoredOnce /\ [Next]_vars => StoredOnce'
    BY OnceStep
<1>. QED
    BY <1>1, <1>2, Inductive, LogKept, PTL DEF Spec

\* A Read sends rows of its URI, from the start and below the end it was asked
\* for, in strictly increasing order: the loop of SQLite.Read, and block.read under it.
THEOREM SentInOrder == Spec => []ReadsInOrder
<1>1. LogInv => ReadsInOrder
    BY DEF LogInv, ReadsTracked, Tracked, InRange, Ascending, FoundBy, ReadsInOrder
<1>. QED
    BY <1>1, LogKept, PTL

-----------------------------------------------------------------------------
(***************************************************************************)
(* Store implements DurableLog.                                            *)
(***************************************************************************)
\* Every row of a URI's files, however readers get at it.
On(u) == {rec \in Record : \E f \in Files : \E x \in DOMAIN disk[f].rows :
                               disk[f].uri = u /\ disk[f].rows[x] = rec}

LEMMA RowIsRecord ==
    ASSUME IndInv, NEW f \in Files, NEW x \in DOMAIN disk[f].rows
    PROVE  disk[f].rows[x] \in Record
<1>1. disk[f].rows \in Seq(Record)
    BY DEF IndInv, TypeOK, DiskType
<1>. QED
    BY <1>1

\* A blockset has all files of its URI that hold rows.
LEMMA ReachableIs == IndInv /\ LogInv => \A u \in URIs : Reachable(u) = On(u)
<1>. SUFFICES ASSUME IndInv, LogInv, NEW u \in URIs PROVE Reachable(u) = On(u)
    OBVIOUS
<1> DEFINE F == IF status = "up" THEN ToSet(blocksets[u]) ELSE FilesOf(u)
<1>1. Reachable(u) = UNION {ToSet(disk[f].rows) : f \in F}
    BY DEF Reachable, RowsOf
<1>2. ASSUME NEW f \in F PROVE f \in Files /\ disk[f].uri = u
  <2>1. CASE status = "up"
    BY <1>2, <2>1, BlocksAreFiles DEF IndInv, PublishedReady, ToSet
  <2>2. CASE status # "up"
    BY <1>2, <2>2 DEF FilesOf
  <2>. QED
    BY <2>1, <2>2
<1>3. ASSUME NEW f \in Files, NEW x \in DOMAIN disk[f].rows, disk[f].uri = u PROVE f \in F
  <2>1. disk[f].rows # <<>>
    OBVIOUS
  <2>. QED
    BY <1>3, <2>1 DEF LogInv, RowsPublished, IndInv, RowsNeedSentinel, FilesOf
<1> HIDE DEF F
<1>4. ASSUME NEW rec \in Reachable(u) PROVE rec \in On(u)
  <2>1. PICK f \in F : rec \in ToSet(disk[f].rows)
    BY <1>1, <1>4
  <2>2. PICK x \in DOMAIN disk[f].rows : rec = disk[f].rows[x]
    BY <2>1 DEF ToSet
  <2>. QED
    BY <1>2, <2>2, RowIsRecord DEF On
<1>5. ASSUME NEW rec \in On(u) PROVE rec \in Reachable(u)
  <2>1. PICK f \in Files : \E x \in DOMAIN disk[f].rows :
                               disk[f].uri = u /\ disk[f].rows[x] = rec
    BY <1>5 DEF On
  <2>2. f \in F /\ rec \in ToSet(disk[f].rows)
    BY <1>3, <2>1 DEF ToSet
  <2>. QED
    BY <1>1, <2>2
<1>. QED
    BY <1>4, <1>5

LEMMA ReachableNext == IndInv' /\ LogInv' => \A u \in URIs : Reachable(u)' = On(u)'
<1>1. (IndInv /\ LogInv => \A u \in URIs : Reachable(u) = On(u))'
    BY ReachableIs, PTL
<1>. QED
    BY <1>1

LEMMA LogsSame ==
    ASSUME IndInv, IndInv', LogInv, LogInv', RowsSame
    PROVE  Logs' = Logs
<1>1. ASSUME NEW u \in URIs PROVE On(u)' = On(u)
    BY DEF On, RowsSame
<1>. QED
    BY <1>1, ReachableIs, ReachableNext DEF Logs

LEMMA LogsGrow ==
    ASSUME IndInv, IndInv', LogInv, LogInv', NEW w \in Writers, NEW f \in Files, Stores(w, f)
    PROVE  Logs' = [Logs EXCEPT ![target[w]] = @ \cup ToSet(batch[w])]
<1>1. Commit(w, f) /\ target[w] \in URIs /\ disk[f].uri = target[w]
    BY DEF Stores
<1>2. RowsStay /\ disk'[f].uri = disk[f].uri /\ \A g \in Files \ {f} : disk'[g] = disk[g]
    BY <1>1, CommitStay, CommitRows
<1>3. ASSUME NEW u \in URIs, NEW rec \in On(u) PROVE rec \in On(u)'
    BY <1>2, <1>3 DEF On, RowsStay
<1>4. ASSUME NEW u \in URIs, u = target[w], NEW y \in DOMAIN batch[w]
      PROVE  batch[w][y] \in On(u)'
  <2>1. /\ Len(disk[f].rows) + y \in DOMAIN disk'[f].rows
        /\ disk'[f].rows[Len(disk[f].rows) + y] = batch[w][y]
    BY <1>1, CommitPlaces
  <2>2. batch[w][y] \in Record
    <3>1. batch[w] \in Seq(Record)
      BY <1>1, CommitRows
    <3>. QED
      BY <3>1
  <2>3. disk'[f].uri = u
    BY <1>1, <1>2, <1>4
  <2>4. \E x \in DOMAIN disk'[f].rows : disk'[f].uri = u /\ disk'[f].rows[x] = batch[w][y]
    BY <2>1, <2>3
  <2>. QED
    BY <2>2, <2>4 DEF On
<1>5. ASSUME NEW u \in URIs, NEW rec \in On(u)', rec \notin On(u)
      PROVE  u = target[w] /\ rec \in ToSet(batch[w])
  <2>1. PICK g \in Files : \E x \in DOMAIN disk'[g].rows :
                               disk'[g].uri = u /\ disk'[g].rows[x] = rec
    BY <1>5 DEF On
  <2>2. PICK x \in DOMAIN disk'[g].rows : disk'[g].uri = u /\ disk'[g].rows[x] = rec
    BY <2>1
  <2>3. disk'[g].uri = disk[g].uri /\ rec \in Record
    BY <1>2, <1>5 DEF On
  <2>4. ~(x \in DOMAIN disk[g].rows /\ disk'[g].rows[x] = disk[g].rows[x])
    BY <1>5, <2>2, <2>3 DEF On
  <2>5. g = f /\ \E y \in DOMAIN batch[w] : disk'[g].rows[x] = batch[w][y]
    BY <1>1, <2>4, CommitSources
  <2>. QED
    BY <1>1, <2>2, <2>3, <2>5 DEF ToSet
<1>6. ASSUME NEW u \in URIs
      PROVE  On(u)' = IF u = target[w] THEN On(u) \cup ToSet(batch[w]) ELSE On(u)
  <2>1. ASSUME u = target[w], NEW rec \in ToSet(batch[w]) PROVE rec \in On(u)'
    BY <1>4, <2>1 DEF ToSet
  <2> DEFINE new == On(u)'
  <2>2. /\ \A rec \in On(u) : rec \in new
        /\ u = target[w] => \A rec \in ToSet(batch[w]) : rec \in new
        /\ \A rec \in new : rec \notin On(u) => u = target[w] /\ rec \in ToSet(batch[w])
    BY <1>3, <1>5, <2>1
  <2> HIDE DEF new
  <2>3. new = IF u = target[w] THEN On(u) \cup ToSet(batch[w]) ELSE On(u)
    BY <2>2
  <2>. QED
    BY <2>3 DEF new
<1>7. /\ \A u \in URIs : Logs[u] = On(u)
      /\ Logs = [u \in URIs |-> Logs[u]]
      /\ Logs' = [u \in URIs |-> On(u)']
    BY ReachableIs, ReachableNext DEF Logs
<1>. QED
    BY <1>1, <1>6, <1>7

\* What callers of Write, and of Read, can tell.
LEMMA WritingSame ==
    ASSUME \A w \in Writers :
              /\ pc'[w] = "idle" <=> pc[w] = "idle"
              /\ pc'[w] = "stored" <=> pc[w] = "stored"
              /\ pc[w] # "idle" => target'[w] = target[w] /\ batch'[w] = batch[w]
    PROVE  Writing' = Writing
BY DEF Writing

LEMMA ReadingSame ==
    ASSUME \A r \in Readers :
              /\ pc'[r] \in {"idle", "done"} <=> pc[r] \in {"idle", "done"}
              /\ pc[r] \notin {"idle", "done"} => target'[r] = target[r]
    PROVE  Reading' = Reading
BY DEF Reading

LEMMA SentSame ==
    ASSUME UNCHANGED got
    PROVE  SentTo' = SentTo
BY DEF SentTo

LEMMA WritingEnds ==
    ASSUME NEW w \in Writers, pc[w] # "idle", pc'[w] = "idle", IndInv,
           \A v \in Writers \ {w} :
              pc'[v] = pc[v] /\ target'[v] = target[v] /\ batch'[v] = batch[v]
    PROVE  /\ Writing' = [Writing EXCEPT ![w] = Log!NoWrite]
           /\ Writing[w] # Log!NoWrite
           /\ Writing[w].uri = target[w] /\ Writing[w].records = ToSet(batch[w])
           /\ Writing[w].stored = (pc[w] = "stored")
<1>1. Writing[w] = [uri |-> target[w], records |-> ToSet(batch[w]), stored |-> pc[w] = "stored"]
    BY DEF Writing
<1>2. target[w] \in URIs /\ Nil \notin URIs
    BY StoreAssumption DEF IndInv, CallsTarget
<1>3. Writing' = [Writing EXCEPT ![w] = Log!NoWrite]
    BY DEF Writing, Log!NoWrite
<1>. QED
    BY <1>1, <1>2, <1>3 DEF Log!NoWrite

LEMMA EmptyMap == [i \in DOMAIN <<>> |-> <<>>[i][2]] = <<>>
OBVIOUS

\* The steps, one lemma per kind.
LEMMA StoresImplements ==
    ASSUME IndInv, IndInv', LogInv, LogInv', NEW w \in Writers, NEW f \in Files, Stores(w, f)
    PROVE  Log!WriteStores(w)
<1>1. /\ pc[w] \notin {"idle", "stored"} /\ pc' = [pc EXCEPT ![w] = "stored"]
      /\ target' = target /\ batch' = batch
      /\ got' = got /\ status' = status /\ acked' = acked /\ target[w] \in URIs
    BY DEF Stores, Commit, callVars, seenVars
<1>2. pc \in [Procs -> {"idle", "lookup", "table", "sentinel", "append", "rest",
                        "stored", "scan", "send", "done"}]
    BY DEF IndInv, TypeOK, CallType
<1>3. /\ \A v \in Writers \ {w} : pc'[v] = pc[v]
      /\ pc'[w] = "stored" /\ \A r \in Readers : pc'[r] = pc[r]
    BY <1>1, <1>2, StoreAssumption
<1>4. /\ Writing[w] = [uri |-> target[w], records |-> ToSet(batch[w]), stored |-> FALSE]
      /\ Writing[w] # Log!NoWrite
    BY <1>1, StoreAssumption DEF Writing, Log!NoWrite
<1>5. Writing' = [Writing EXCEPT ![w].stored = TRUE]
  <2>1. ASSUME NEW v \in Writers
        PROVE  Writing'[v] = IF v = w THEN [Writing[w] EXCEPT !.stored = TRUE] ELSE Writing[v]
    BY <1>1, <1>3, <1>4 DEF Writing
  <2>2. Writing' = [v \in Writers |-> Writing'[v]] /\ Writing = [v \in Writers |-> Writing[v]]
    BY DEF Writing
  <2>. QED
    BY <2>1, <2>2
<1>6. Reading' = Reading
    BY <1>1, <1>3, ReadingSame
<1>7. SentTo' = SentTo
    BY <1>1, SentSame
<1>8. Logs' = [Logs EXCEPT ![target[w]] = @ \cup ToSet(batch[w])]
    BY LogsGrow
<1>9. Up' = Up
    BY <1>1 DEF Up
<1>. QED
    BY <1>1, <1>4, <1>5, <1>6, <1>7, <1>8, <1>9 DEF Log!WriteStores

LEMMA ReturnsImplements ==
    ASSUME IndInv, IndInv', LogInv, LogInv', NEW w \in Writers, WriteReturns(w)
    PROVE  Log!WriteReturnsNil(w)
<1>1. /\ pc[w] = "stored" /\ pc' = [pc EXCEPT ![w] = "idle"]
      /\ target' = target /\ batch' = [batch EXCEPT ![w] = <<>>]
      /\ got' = got /\ status' = status /\ disk' = disk
      /\ acked' = acked \cup {<<target[w], rec>> : rec \in ToSet(batch[w])}
    BY DEF WriteReturns, ReturnTo, storeVars, seenVars
<1>2. pc \in [Procs -> {"idle", "lookup", "table", "sentinel", "append", "rest",
                        "stored", "scan", "send", "done"}] /\ batch \in [Writers -> Seq(Record)]
    BY DEF IndInv, TypeOK, CallType
<1>3. /\ \A v \in Writers \ {w} :
            pc'[v] = pc[v] /\ target'[v] = target[v] /\ batch'[v] = batch[v]
      /\ pc'[w] = "idle" /\ \A r \in Readers : pc'[r] = pc[r]
    BY <1>1, <1>2, StoreAssumption
<1>4. /\ Writing' = [Writing EXCEPT ![w] = Log!NoWrite]
      /\ Writing[w].uri = target[w] /\ Writing[w].records = ToSet(batch[w])
      /\ Writing[w].stored
    BY <1>1, <1>3, WritingEnds
<1>5. Reading' = Reading /\ SentTo' = SentTo /\ Up' = Up
    BY <1>1, <1>3, ReadingSame, SentSame DEF Up
<1>6. Logs' = Logs
    BY <1>1, DiskSame, LogsSame
<1>. QED
    BY <1>1, <1>4, <1>5, <1>6 DEF Log!WriteReturnsNil

LEMMA GivesUpImplements ==
    ASSUME IndInv, IndInv', LogInv, LogInv', NEW w \in Writers, GivesUp(w)
    PROVE  Log!WriteFails(w)
<1>1. /\ pc[w] \notin {"idle", "stored"} /\ pc' = [pc EXCEPT ![w] = "idle"]
      /\ target' = target /\ batch' = [batch EXCEPT ![w] = <<>>]
      /\ got' = got /\ status' = status /\ acked' = acked /\ RowsSame
    BY DEF GivesUp, Apart
<1>2. pc \in [Procs -> {"idle", "lookup", "table", "sentinel", "append", "rest",
                        "stored", "scan", "send", "done"}] /\ batch \in [Writers -> Seq(Record)]
    BY DEF IndInv, TypeOK, CallType
<1>3. /\ \A v \in Writers \ {w} :
            pc'[v] = pc[v] /\ target'[v] = target[v] /\ batch'[v] = batch[v]
      /\ pc'[w] = "idle" /\ \A r \in Readers : pc'[r] = pc[r]
    BY <1>1, <1>2, StoreAssumption
<1>4. /\ Writing' = [Writing EXCEPT ![w] = Log!NoWrite]
      /\ Writing[w] # Log!NoWrite /\ ~Writing[w].stored
    BY <1>1, <1>3, WritingEnds
<1>5. Reading' = Reading /\ SentTo' = SentTo /\ Up' = Up
    BY <1>1, <1>3, ReadingSame, SentSame DEF Up
<1>6. Logs' = Logs
    BY <1>1, LogsSame
<1>. QED
    BY <1>1, <1>4, <1>5, <1>6 DEF Log!WriteFails

LEMMA FinishesImplements ==
    ASSUME IndInv, IndInv', LogInv, LogInv', NEW r \in Readers, NEW label, Finishes(r, label)
    PROVE  Log!ReadReturns(r)
<1>1. /\ pc[r] \notin {"idle", "done"} /\ label \in {"idle", "done"}
      /\ pc' = [pc EXCEPT ![r] = label] /\ target' = target /\ batch' = batch
      /\ got' = got /\ status' = status /\ acked' = acked /\ RowsSame
    BY DEF Finishes, Apart
<1>2. pc \in [Procs -> {"idle", "lookup", "table", "sentinel", "append", "rest",
                        "stored", "scan", "send", "done"}]
    BY DEF IndInv, TypeOK, CallType
<1>3. /\ \A q \in Readers \ {r} : pc'[q] = pc[q]
      /\ pc'[r] = label /\ \A w \in Writers : pc'[w] = pc[w]
    BY <1>1, <1>2, StoreAssumption
<1>4. target[r] \in URIs /\ Nil \notin URIs
    BY <1>1, StoreAssumption DEF IndInv, CallsTarget
<1>5. Reading' = [Reading EXCEPT ![r] = Nil] /\ Reading[r] # Nil
    BY <1>1, <1>3, <1>4 DEF Reading
<1>6. Writing' = Writing /\ SentTo' = SentTo /\ Up' = Up
    BY <1>1, <1>3, WritingSame, SentSame DEF Up
<1>7. Logs' = Logs
    BY <1>1, LogsSame
<1>. QED
    BY <1>1, <1>5, <1>6, <1>7 DEF Log!ReadReturns

LEMMA GoesOnImplements ==
    ASSUME IndInv, IndInv', LogInv, LogInv', NEW p \in Procs, NEW label, GoesOn(p, label)
    PROVE  UNCHANGED Log!vars
<1>1. /\ pc[p] \notin {"idle", "done", "stored"} /\ label \notin {"idle", "done", "stored"}
      /\ pc' = [pc EXCEPT ![p] = label] /\ target' = target /\ batch' = batch
      /\ got' = got /\ status' = status /\ acked' = acked /\ RowsSame
    BY DEF GoesOn, Apart
<1>2. pc \in [Procs -> {"idle", "lookup", "table", "sentinel", "append", "rest",
                        "stored", "scan", "send", "done"}]
    BY DEF IndInv, TypeOK, CallType
<1>3. \A q \in Procs : pc'[q] = IF q = p THEN label ELSE pc[q]
    BY <1>1, <1>2
<1>4. Writing' = Writing
    BY <1>1, <1>3, WritingSame
<1>5. Reading' = Reading
    BY <1>1, <1>3, ReadingSame
<1>6. SentTo' = SentTo /\ Up' = Up /\ Logs' = Logs
    BY <1>1, SentSame, LogsSame DEF Up
<1>. QED
    BY <1>1, <1>4, <1>5, <1>6 DEF Log!vars

LEMMA OffersImplements ==
    ASSUME IndInv, IndInv', LogInv, LogInv', NEW r \in Readers, NEW records, Offers(r, records)
    PROVE  UNCHANGED Log!vars
<1>1. /\ pc[r] = "scan" /\ pc' = [pc EXCEPT ![r] = "send"]
      /\ target' = target /\ batch' = batch /\ disk' = disk
      /\ got' = got /\ status' = status /\ acked' = acked
    BY DEF Offers, Offer
<1>2. pc \in [Procs -> {"idle", "lookup", "table", "sentinel", "append", "rest",
                        "stored", "scan", "send", "done"}]
    BY DEF IndInv, TypeOK, CallType
<1>3. \A q \in Procs : pc'[q] = IF q = r THEN "send" ELSE pc[q]
    BY <1>1, <1>2
<1>4. Writing' = Writing
    BY <1>1, <1>3, WritingSame
<1>5. Reading' = Reading
    BY <1>1, <1>3, ReadingSame
<1>6. SentTo' = SentTo /\ Up' = Up /\ Logs' = Logs
    BY <1>1, SentSame, DiskSame, LogsSame DEF Up
<1>. QED
    BY <1>1, <1>4, <1>5, <1>6 DEF Log!vars

LEMMA BeginReadImplements ==
    ASSUME IndInv, IndInv', LogInv, LogInv', NEW r \in Readers, NEW u \in URIs,
           NEW s \in Starts, NEW e \in Ends, BeginRead(r, u, s, e)
    PROVE  Log!ReadCalled(r, u)
<1>1. /\ pc[r] \in {"idle", "done"} /\ pc' = [pc EXCEPT ![r] = "lookup"]
      /\ target' = [target EXCEPT ![r] = u] /\ batch' = batch /\ disk' = disk
      /\ got' = [got EXCEPT ![r] = <<>>] /\ status' = status /\ acked' = acked
      /\ status = "up"
    BY DEF BeginRead, diskVars, storeVars
<1>2. /\ pc \in [Procs -> {"idle", "lookup", "table", "sentinel", "append", "rest",
                           "stored", "scan", "send", "done"}]
      /\ target \in [Procs -> URIs \cup {Nil}]
      /\ got \in [Readers -> Seq(Int \X Record)]
    BY DEF IndInv, TypeOK, CallType, ReadType
<1>3. /\ \A q \in Procs : pc'[q] = IF q = r THEN "lookup" ELSE pc[q]
      /\ \A q \in Procs : target'[q] = IF q = r THEN u ELSE target[q]
      /\ \A q \in Readers : got'[q] = IF q = r THEN <<>> ELSE got[q]
      /\ \A w \in Writers : w # r
    BY <1>1, <1>2, StoreAssumption
<1>4. Writing' = Writing
    BY <1>1, <1>3, WritingSame
<1>5. Reading' = [Reading EXCEPT ![r] = u] /\ Reading[r] = Nil
  <2>1. Reading[r] = Nil
    BY <1>1 DEF Reading
  <2>2. ASSUME NEW q \in Readers
        PROVE  (IF pc'[q] \in {"idle", "done"} THEN Nil ELSE target'[q])
                  = IF q = r THEN u ELSE Reading[q]
    BY <1>3 DEF Reading
  <2>3. Reading' = [q \in Readers |-> IF q = r THEN u ELSE Reading[q]]
    BY <2>2 DEF Reading
  <2>. QED
    BY <2>1, <2>3 DEF Reading
<1>6. SentTo' = [SentTo EXCEPT ![r] = <<>>]
  <2>1. [i \in DOMAIN <<>> |-> <<>>[i][2]] = <<>>
    BY EmptyMap
  <2>2. [i \in DOMAIN got'[r] |-> got'[r][i][2]] = <<>>
    BY <1>3, <2>1
  <2>. QED
    BY <1>3, <2>2 DEF SentTo
<1>7. Up /\ Up' = Up /\ Logs' = Logs
    BY <1>1, DiskSame, LogsSame DEF Up
<1>. QED
    BY <1>1, <1>4, <1>5, <1>6, <1>7 DEF Log!ReadCalled

LEMMA BeginWriteImplements ==
    ASSUME IndInv, IndInv', LogInv, LogInv', NEW w \in Writers, NEW u \in URIs,
           NEW k \in WriteSizes, BeginWrite(w, u, k)
    PROVE  \E B \in WriteBatches : Log!WriteCalled(w, u, B)
<1> DEFINE B == {<<calls, i, k>> : i \in 1 .. k}
<1>1. /\ pc[w] = "idle" /\ pc' = [pc EXCEPT ![w] = "lookup"]
      /\ target' = [target EXCEPT ![w] = u]
      /\ batch' = [batch EXCEPT ![w] = [i \in 1 .. k |-> <<calls, i, k>>]]
      /\ disk' = disk /\ got' = got /\ status' = status /\ acked' = acked
      /\ status = "up" /\ calls < MaxCalls
    BY DEF BeginWrite, diskVars, storeVars, seenVars
<1>2. /\ pc \in [Procs -> {"idle", "lookup", "table", "sentinel", "append", "rest",
                           "stored", "scan", "send", "done"}]
      /\ target \in [Procs -> URIs \cup {Nil}]
      /\ batch \in [Writers -> Seq(Record)]
      /\ calls \in Nat /\ MaxCalls \in Nat
    BY StoreAssumption DEF IndInv, TypeOK, CallType, CountType
<1>3. /\ \A q \in Procs : pc'[q] = IF q = w THEN "lookup" ELSE pc[q]
      /\ \A q \in Procs : target'[q] = IF q = w THEN u ELSE target[q]
      /\ \A v \in Writers : batch'[v] = IF v = w THEN [i \in 1 .. k |-> <<calls, i, k>>]
                                         ELSE batch[v]
      /\ \A r \in Readers : w # r
    BY <1>1, <1>2, StoreAssumption
<1>4. B \in WriteBatches
  <2>1. calls \in 0 .. MaxCalls - 1
    BY <1>1, <1>2
  <2>. QED
    BY <2>1 DEF WriteBatches
<1>5. ToSet([i \in 1 .. k |-> <<calls, i, k>>]) = B
    BY DEF ToSet
<1>6. \A rec \in B : rec[1] = calls
    OBVIOUS
<1> HIDE DEF B
<1>7. ASSUME NEW v \in URIs PROVE B \cap Logs[v] = {}
  <2>1. ASSUME NEW rec \in Logs[v] PROVE rec[1] # calls
    <3>1. rec \in On(v)
      BY <2>1, ReachableIs DEF Logs
    <3>2. PICK f \in Files : \E x \in DOMAIN disk[f].rows : disk[f].rows[x] = rec
      BY <3>1 DEF On
    <3>3. rec[1] < calls
      BY <3>2 DEF LogInv, CallsNumbered
    <3>4. rec[1] \in Nat
      BY <3>1 DEF On
    <3>. QED
      BY <1>2, <3>3, <3>4
  <2>. QED
    BY <1>6, <2>1
<1>8. ASSUME NEW v \in Writers PROVE B \cap Writing[v].records = {}
  <2>1. CASE pc[v] = "idle"
    BY <2>1 DEF Writing
  <2>2. CASE pc[v] # "idle"
    <3>1. Writing[v].records = ToSet(batch[v]) /\ Numbered(v) /\ batch[v] # <<>>
      BY <2>2 DEF Writing, LogInv, CallsNumbered
    <3>2. Number(v) < calls /\ \A i \in DOMAIN batch[v] : batch[v][i][1] = Number(v)
      BY <3>1 DEF Numbered
    <3>3. Number(v) \in Nat
      <4>1. batch[v][1] \in Record
        BY <1>2, <3>1, EmptySeq
      <4>. QED
        BY <4>1 DEF Number
    <3>4. Number(v) # calls
      BY <1>2, <3>2, <3>3
    <3>5. \A rec \in ToSet(batch[v]) : rec[1] = Number(v)
      BY <3>2 DEF ToSet
    <3>. QED
      BY <1>6, <3>1, <3>4, <3>5
  <2>. QED
    BY <2>1, <2>2
<1>9. Writing[w] = Log!NoWrite
    BY <1>1 DEF Writing, Log!NoWrite
<1>10. Writing' = [Writing EXCEPT ![w] = [uri |-> u, records |-> B, stored |-> FALSE]]
  <2>1. ASSUME NEW v \in Writers
        PROVE  (IF pc'[v] = "idle" THEN [uri |-> Nil, records |-> {}, stored |-> FALSE]
                ELSE [uri |-> target'[v], records |-> ToSet(batch'[v]),
                      stored |-> pc'[v] = "stored"])
                  = IF v = w THEN [uri |-> u, records |-> B, stored |-> FALSE] ELSE Writing[v]
    <3>1. CASE v = w
      <4>1. /\ pc'[v] = "lookup" /\ target'[v] = u
            /\ batch'[v] = [i \in 1 .. k |-> <<calls, i, k>>]
        BY <1>3, <3>1
      <4>. QED
        BY <1>5, <3>1, <4>1
    <3>2. CASE v # w
      <4>1. pc'[v] = pc[v] /\ target'[v] = target[v] /\ batch'[v] = batch[v]
        BY <1>3, <3>2
      <4>. QED
        BY <3>2, <4>1 DEF Writing
    <3>. QED
      BY <3>1, <3>2
  <2>2. Writing' = [v \in Writers |-> IF v = w THEN [uri |-> u, records |-> B, stored |-> FALSE]
                                      ELSE Writing[v]]
    BY <2>1 DEF Writing
  <2>. QED
    BY <2>2 DEF Writing
<1>11. Reading' = Reading
    BY <1>3, ReadingSame
<1>12. SentTo' = SentTo /\ Up /\ Up' = Up /\ Logs' = Logs
    BY <1>1, SentSame, DiskSame, LogsSame DEF Up
<1>. QED
    BY <1>1, <1>4, <1>7, <1>8, <1>9, <1>10, <1>11, <1>12 DEF Log!WriteCalled

LEMMA DownImplements ==
    ASSUME IndInv, IndInv', LogInv, LogInv', status = "up", Down
    PROVE  Log!Stops
<1>1. /\ disk' = disk /\ acked' = acked /\ status' = "down"
      /\ \A p \in Procs : pc'[p] = "idle"
      /\ \A r \in Readers : got'[r] = <<>>
    BY DEF Down
<1>2. /\ Writing' = [w \in Writers |-> Log!NoWrite]
      /\ Reading' = [r \in Readers |-> Nil]
    BY <1>1 DEF Writing, Reading, Log!NoWrite
<1>3. SentTo' = [r \in Readers |-> <<>>]
    BY <1>1, EmptyMap DEF SentTo
<1>4. Up /\ Up' = FALSE
    BY <1>1 DEF Up
<1>5. Logs' = Logs
    BY <1>1, DiskSame, LogsSame
<1>. QED
    BY <1>1, <1>2, <1>3, <1>4, <1>5 DEF Log!Stops

LEMMA BootImplements ==
    ASSUME IndInv, IndInv', LogInv, LogInv', Boot \/ BootRefused
    PROVE  Log!Restarts \/ UNCHANGED Log!vars
<1>1. /\ UNCHANGED <<disk, acked, pc, target, batch, got>>
      /\ status # "up" /\ (status' = "up" \/ status' # "up")
    BY DEF Boot, BootRefused, callVars, seenVars
<1>2. Writing' = Writing /\ Reading' = Reading /\ SentTo' = SentTo
    BY <1>1 DEF Writing, Reading, SentTo
<1>3. Logs' = Logs
    BY <1>1, DiskSame, LogsSame
<1>4. ~Up /\ (Up' = TRUE \/ Up' = Up)
    BY <1>1 DEF Up
<1>. QED
    BY <1>1, <1>2, <1>3, <1>4 DEF Log!Restarts, Log!vars

\* The records of a sequence of pairs.
RecordsOf(q) == [i \in DOMAIN q |-> q[i][2]]

LEMMA RecordsOfConcat ==
    \A P : \A s, t \in Seq(P) : RecordsOf(s \o t) = RecordsOf(s) \o RecordsOf(t)
<1>. TAKE P
<1>. TAKE s, t \in Seq(P)
<1> DEFINE S == {pair[2] : pair \in P}
           a == RecordsOf(s)
           b == RecordsOf(t)
           l == RecordsOf(s \o t)
           m == Len(s)
           n == Len(t)
<1>1. /\ s \o t \in Seq(P) /\ Len(s \o t) = m + n
      /\ \A i \in 1 .. m + n : (s \o t)[i] = IF i <= m THEN s[i] ELSE t[i - m]
    BY ConcatProperties
<1>2. /\ m \in Nat /\ n \in Nat /\ DOMAIN s = 1 .. m /\ DOMAIN t = 1 .. n
      /\ DOMAIN (s \o t) = 1 .. m + n
    BY <1>1, LenProperties
<1>3. /\ \A i \in 1 .. m : s[i][2] \in S
      /\ \A i \in 1 .. n : t[i][2] \in S
      /\ \A i \in 1 .. m + n : (s \o t)[i][2] \in S
  <2>1. /\ \A i \in 1 .. m : s[i] \in P
        /\ \A i \in 1 .. n : t[i] \in P
        /\ \A i \in 1 .. m + n : (s \o t)[i] \in P
    BY <1>1, ElementOfSeq
  <2>. QED
    BY <2>1
<1>4. a = [i \in 1 .. m |-> s[i][2]] /\ b = [i \in 1 .. n |-> t[i][2]]
    BY <1>2 DEF RecordsOf
<1>5. l = [i \in 1 .. m + n |-> (s \o t)[i][2]]
    BY <1>2 DEF RecordsOf
<1> HIDE DEF S, a, b, l, m, n
<1>6. /\ a \in Seq(S) /\ Len(a) = m /\ \A i \in 1 .. m : a[i] = s[i][2]
      /\ b \in Seq(S) /\ Len(b) = n /\ \A i \in 1 .. n : b[i] = t[i][2]
      /\ l \in Seq(S) /\ Len(l) = m + n /\ \A i \in 1 .. m + n : l[i] = (s \o t)[i][2]
  <2>1. a \in Seq(S) /\ Len(a) = m /\ \A i \in 1 .. m : a[i] = s[i][2]
    BY <1>2, <1>3, <1>4
  <2>2. b \in Seq(S) /\ Len(b) = n /\ \A i \in 1 .. n : b[i] = t[i][2]
    BY <1>2, <1>3, <1>4
  <2>3. m + n \in Nat
    BY <1>2
  <2>4. l \in Seq(S) /\ Len(l) = m + n /\ \A i \in 1 .. m + n : l[i] = (s \o t)[i][2]
    <3> DEFINE k == m + n
               q == s \o t
    <3>1. k \in Nat /\ l = [i \in 1 .. k |-> q[i][2]] /\ \A i \in 1 .. k : q[i][2] \in S
      BY <1>3, <1>5, <2>3
    <3> HIDE DEF k, q
    <3>2. l \in Seq(S) /\ Len(l) = k /\ \A i \in 1 .. k : l[i] = q[i][2]
      BY <3>1
    <3>. QED
      BY <3>2 DEF k, q
  <2>. QED
    BY <2>1, <2>2, <2>4
<1>7. /\ a \o b \in Seq(S) /\ Len(a \o b) = m + n
      /\ \A i \in 1 .. m + n : (a \o b)[i] = IF i <= m THEN a[i] ELSE b[i - m]
    BY <1>6, ConcatProperties
<1>8. ASSUME NEW i \in 1 .. m + n PROVE l[i] = (a \o b)[i]
  <2>1. CASE i <= m
    <3>1. i \in 1 .. m
      BY <1>2, <2>1
    <3>2. (s \o t)[i] = s[i] /\ (a \o b)[i] = a[i]
      BY <1>1, <1>7, <2>1
    <3>. QED
      BY <1>6, <3>1, <3>2
  <2>2. CASE ~(i <= m)
    <3>1. i - m \in 1 .. n
      BY <1>2, <2>2
    <3>2. (s \o t)[i] = t[i - m] /\ (a \o b)[i] = b[i - m]
      BY <1>1, <1>7, <2>2
    <3>. QED
      BY <1>6, <3>1, <3>2
  <2>. QED
    BY <2>1, <2>2
<1>9. l = a \o b
    BY <1>6, <1>7, <1>8, SeqEqual
<1>. QED
    BY <1>9 DEF a, b, l

LEMMA SentInjective ==
    IndInv /\ LogInv /\ StoredOnce => \A r \in Readers : IsInjective(RecordsOf(got[r]))
<1>. SUFFICES ASSUME IndInv, LogInv, StoredOnce, NEW r \in Readers,
                     NEW i \in DOMAIN got[r], NEW j \in DOMAIN got[r],
                     got[r][i][2] = got[r][j][2]
              PROVE  i = j
    BY DEF IsInjective, RecordsOf
<1>1. InRange(r, got[r])
    BY DEF LogInv, ReadsTracked, Tracked
<1>2. PICK f \in Files : \E x \in DOMAIN disk[f].rows :
         got[r][i] = <<RowSeq(f, x), disk[f].rows[x]>>
    BY <1>1 DEF InRange, FoundBy
<1>3. PICK g \in Files : \E x \in DOMAIN disk[g].rows :
         got[r][j] = <<RowSeq(g, x), disk[g].rows[x]>>
    BY <1>1 DEF InRange, FoundBy
<1>4. PICK x \in DOMAIN disk[f].rows : got[r][i] = <<RowSeq(f, x), disk[f].rows[x]>>
    BY <1>2
<1>5. PICK y \in DOMAIN disk[g].rows : got[r][j] = <<RowSeq(g, y), disk[g].rows[y]>>
    BY <1>3
<1>6. f = g /\ x = y
    BY <1>4, <1>5 DEF StoredOnce
<1>7. got[r][i][1] = got[r][j][1]
    BY <1>4, <1>5, <1>6
<1>8. i \in Int /\ j \in Int /\ got[r][i][1] \in Int /\ got[r][j][1] \in Int
  <2>1. got[r] \in Seq(Int \X Record)
    BY DEF IndInv, TypeOK, ReadType
  <2>2. Len(got[r]) \in Nat /\ DOMAIN got[r] = 1 .. Len(got[r])
    BY <2>1, LenProperties
  <2>3. got[r][i] \in Int \X Record /\ got[r][j] \in Int \X Record
    BY <2>1, <2>2, ElementOfSeq
  <2>4. i \in Int /\ j \in Int
    BY <2>2
  <2>5. got[r][i][1] \in Int /\ got[r][j][1] \in Int
    BY <2>3
  <2>. QED
    BY <2>4, <2>5
<1>9. ~(i < j) /\ ~(j < i)
    BY <1>1, <1>7, <1>8 DEF InRange, Ascending
<1>. QED
    BY <1>8, <1>9

LEMMA SentInjectiveNext ==
    IndInv' /\ LogInv' /\ StoredOnce' => \A r \in Readers : IsInjective(RecordsOf(got'[r]))
<1>1. (IndInv /\ LogInv /\ StoredOnce => \A r \in Readers : IsInjective(RecordsOf(got[r])))'
    BY SentInjective, PTL
<1>. QED
    BY <1>1 DEF RecordsOf

LEMMA SendImplements ==
    ASSUME IndInv, IndInv', LogInv, LogInv', StoredOnce', NEW r \in Readers, Send(r)
    PROVE  Reading[r] # Nil /\ \E q \in Log!Replies(Reading[r]) : Log!ReadSends(r, q)
<1> DEFINE q == RecordsOf(chunk[r])
<1>1. /\ pc[r] = "send" /\ pc' = [pc EXCEPT ![r] = "scan"]
      /\ got' = [got EXCEPT ![r] = @ \o chunk[r]]
      /\ UNCHANGED <<disk, status, target, batch, acked>>
    BY DEF Send, storeVars, callVars
<1>2. /\ pc \in [Procs -> {"idle", "lookup", "table", "sentinel", "append", "rest",
                           "stored", "scan", "send", "done"}]
      /\ got \in [Readers -> Seq(Int \X Record)]
      /\ chunk[r] \in Seq(Int \X Record)
    BY DEF IndInv, TypeOK, CallType, ReadType
<1>3. /\ \A p \in Procs : pc'[p] = IF p = r THEN "scan" ELSE pc[p]
      /\ \A p \in Readers : got'[p] = IF p = r THEN got[r] \o chunk[r] ELSE got[p]
    BY <1>1, <1>2
<1>4. target[r] \in URIs /\ Reading[r] = target[r] /\ Reading[r] # Nil
    BY <1>1, StoreAssumption DEF Reading, IndInv, CallsTarget
<1>5. /\ RecordsOf(got[r] \o chunk[r]) = RecordsOf(got[r]) \o q
      /\ DOMAIN q = DOMAIN chunk[r] /\ q = [i \in DOMAIN q |-> q[i]]
      /\ \A i \in DOMAIN chunk[r] : q[i] = chunk[r][i][2]
  <2>1. RecordsOf(got[r] \o chunk[r]) = RecordsOf(got[r]) \o q
    BY <1>2, RecordsOfConcat
  <2>2. /\ DOMAIN q = DOMAIN chunk[r] /\ q = [i \in DOMAIN q |-> q[i]]
        /\ \A i \in DOMAIN chunk[r] : q[i] = chunk[r][i][2]
    BY DEF RecordsOf
  <2>. QED
    BY <2>1, <2>2
<1>6. SentTo = [p \in Readers |-> RecordsOf(got[p])]
    BY DEF SentTo, RecordsOf
<1>7. SentTo' = [p \in Readers |-> RecordsOf(got'[p])]
    BY DEF SentTo, RecordsOf
<1> HIDE DEF q
<1>8. SentTo' = [SentTo EXCEPT ![r] = @ \o q]
  <2>1. ASSUME NEW p \in Readers
        PROVE  RecordsOf(got'[p]) = IF p = r THEN SentTo[r] \o q ELSE SentTo[p]
    BY <1>3, <1>5, <1>6
  <2>2. SentTo' = [p \in Readers |-> IF p = r THEN SentTo[r] \o q ELSE SentTo[p]]
    BY <1>7, <2>1
  <2>. QED
    BY <1>6, <2>2
<1>9. IsInjective(SentTo[r] \o q)
  <2>1. RecordsOf(got'[r]) = SentTo[r] \o q
    BY <1>3, <1>5, <1>6
  <2>. QED
    BY <2>1, SentInjectiveNext
<1>10. q \in Log!Replies(Reading[r])
  <2>1. InRange(r, chunk[r]) /\ Len(chunk[r]) \in 1 .. BatchLimit
    BY <1>1 DEF LogInv, ReadsTracked, Tracked
  <2>2. ASSUME NEW i \in DOMAIN chunk[r] PROVE q[i] \in Logs[target[r]]
    <3>1. PICK f \in Files : \E x \in DOMAIN disk[f].rows :
             disk[f].uri = target[r] /\ chunk[r][i] = <<RowSeq(f, x), disk[f].rows[x]>>
      BY <2>1 DEF InRange, FoundBy
    <3>2. PICK x \in DOMAIN disk[f].rows :
             disk[f].uri = target[r] /\ chunk[r][i] = <<RowSeq(f, x), disk[f].rows[x]>>
      BY <3>1
    <3>3. q[i] = disk[f].rows[x] /\ disk[f].rows[x] \in Record
      BY <1>5, <3>2, RowIsRecord
    <3>4. q[i] \in On(target[r])
      BY <3>2, <3>3 DEF On
    <3>. QED
      BY <1>4, <3>4, ReachableIs DEF Logs
  <2> DEFINE n == Len(chunk[r])
             L == Logs[target[r]]
  <2>3. DOMAIN q = 1 .. n /\ n \in 1 .. BatchLimit /\ \A i \in 1 .. n : q[i] \in L
    BY <1>2, <1>5, <2>1, <2>2, LenProperties
  <2>4. q = [i \in DOMAIN q |-> q[i]]
    BY <1>5
  <2> HIDE DEF n, L
  <2>5. q \in [1 .. n -> L]
    BY <2>3, <2>4
  <2>6. q \in UNION {[1 .. k -> L] : k \in 1 .. BatchLimit}
    BY <2>3, <2>5
  <2>. QED
    BY <1>4, <2>6 DEF Log!Replies, L
<1>11. Writing' = Writing /\ Reading' = Reading
    BY <1>1, <1>3, StoreAssumption, WritingSame, ReadingSame
<1>12. Up' = Up /\ Logs' = Logs /\ acked' = acked
    BY <1>1, DiskSame, LogsSame DEF Up
<1>13. Log!ReadSends(r, q)
    BY <1>4, <1>8, <1>9, <1>11, <1>12 DEF Log!ReadSends, Log!IsInjective, IsInjective
<1>. QED
    BY <1>4, <1>10, <1>13

LEMMA InitImplements == Init => Log!Init
<1>. SUFFICES ASSUME Init PROVE Log!Init
    OBVIOUS
<1>1. Up = TRUE
    BY DEF Init, Up
<1>2. Logs = [u \in URIs |-> {}]
  <2>1. ASSUME NEW u \in URIs PROVE Reachable(u) = {}
    BY DEF Init, Reachable, RowsOf, ToSet
  <2>. QED
    BY <2>1 DEF Logs
<1>3. acked = {} /\ Writing = [w \in Writers |-> Log!NoWrite] /\ Reading = [r \in Readers |-> Nil]
    BY DEF Init, Writing, Reading, Log!NoWrite
<1>4. SentTo = [r \in Readers |-> <<>>]
    BY EmptyMap DEF Init, SentTo
<1>. QED
    BY <1>1, <1>2, <1>3, <1>4 DEF Log!Init

LEMMA StepImplements ==
    ASSUME IndInv, IndInv', LogInv, LogInv', StoredOnce', [Next]_vars
    PROVE  [Log!Next]_(Log!vars)
<1>. ReadsTracked
    BY DEF LogInv
<1>1. ASSUME UNCHANGED vars PROVE UNCHANGED Log!vars
  <2>1. UNCHANGED <<disk, pc, target, batch, got, status, acked>>
    BY <1>1 DEF vars
  <2>2. Writing' = Writing /\ Reading' = Reading /\ SentTo' = SentTo /\ Up' = Up
    BY <2>1 DEF Writing, Reading, SentTo, Up
  <2>. QED
    BY <2>1, <2>2, DiskSame, LogsSame DEF Log!vars
<1>2. ASSUME NEW w \in Writers, NEW u \in URIs, NEW k \in WriteSizes, BeginWrite(w, u, k)
      PROVE  Log!Next
    BY <1>2, BeginWriteImplements DEF Log!Next
<1>3. ASSUME NEW r \in Readers, NEW u \in URIs, NEW s \in Starts, NEW e \in Ends,
             BeginRead(r, u, s, e)
      PROVE  Log!Next
    BY <1>3, BeginReadImplements DEF Log!Next
<1>4. ASSUME NEW w \in Writers, NEW f \in Files, Stores(w, f) PROVE Log!Next
    BY <1>4, StoresImplements DEF Log!Next
<1>5. ASSUME NEW w \in Writers, GivesUp(w) PROVE Log!Next
    BY <1>5, GivesUpImplements DEF Log!Next
<1>6. ASSUME NEW r \in Readers, NEW label, Finishes(r, label) PROVE Log!Next
    BY <1>6, FinishesImplements DEF Log!Next
<1>7. ASSUME NEW r \in Readers, Send(r) PROVE Log!Next
    BY <1>7, SendImplements DEF Log!Next
<1>8. ASSUME status = "up", Down PROVE Log!Next
    BY <1>8, DownImplements DEF Log!Next
<1>9. ASSUME Boot \/ BootRefused PROVE Log!Next \/ UNCHANGED Log!vars
    BY <1>9, BootImplements DEF Log!Next
<1>10. ASSUME NEW w \in Writers, WriteReturns(w) PROVE Log!Next
    BY <1>10, ReturnsImplements DEF Log!Next
<1>. QED
    BY <1>1, <1>2, <1>3, <1>4, <1>5, <1>6, <1>7, <1>8, <1>9, <1>10, StepCases,
       GoesOnImplements, OffersImplements

\* The storage of an agent is a durable log per URI: the calls of SQLite, its
\* rollovers, its failures and its restarts (sqlite.go, sqlite_blockset.go,
\* sqlite_block.go, sqlite_resolver.go) do to what callers see no more than
\* DurableLog allows.
THEOREM Refines == Spec => Implements
<1>1. Init => Log!Init
    BY InitImplements
<1>2. /\ IndInv /\ IndInv' /\ LogInv /\ LogInv' /\ StoredOnce' /\ [Next]_vars
      => [Log!Next]_(Log!vars)
    BY StepImplements
<1>. QED
    BY <1>1, <1>2, Inductive, LogKept, NoCopies, PTL DEF Spec, Implements, Log!Spec
=============================================================================
