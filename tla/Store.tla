-------------------------------- MODULE Store --------------------------------
(***************************************************************************)
(* The embedded storage of an emitio agent, emitio/pkg/storages with the   *)
(* "file" resolver: one blockset per ingress URI, each a list of SQLite    *)
(* files (blocks), written by the ingress goroutines, read by the gRPC     *)
(* handlers, and found again on disk when the agent restarts.              *)
(*                                                                         *)
(* A process is one goroutine inside SQLite.Write or SQLite.Read.  A step  *)
(* is what the goroutine does between two points at which another one, or  *)
(* a crash, can be seen: a lock it may wait for, a statement the database  *)
(* makes durable, a channel send.                                          *)
(*                                                                         *)
(* X_Fault is X with a plausible fault in the code it stands for.  Nothing *)
(* here uses it; each shows that a property notices such a fault.          *)
(***************************************************************************)
EXTENDS Integers, Sequences, SequencesExt, FiniteSets

CONSTANTS
    URIs,         \* ingress URIs, the keys of SQLite.blocksets
    Writers,      \* goroutines that call SQLite.Write
    Readers,      \* goroutines started by SQLite.Read
    MaxFiles,     \* how many database files can be created, for TLC
    MaxSize,      \* blockset.maxSize (1024 in the code)
    BatchLimit,   \* the batch argument of Read (256 in the server)
    WriteSizes,   \* how many records one Write call may carry
    Starts, Ends, \* what a client may ask for: seq in start .. end-1
    Nil,          \* no process, no file, no URI
    MaxCalls, MaxReads, MaxFaults, MaxStops  \* bounds, for TLC only

Procs == Writers \cup Readers

\* A database file has a fresh uuid for a name; here its name is the number of
\* files created before it, plus one.
Files == 1 .. MaxFiles

ASSUME StoreAssumption ==
    /\ Writers \cap Readers = {}
    /\ Nil \notin Procs \cup Files \cup URIs
    /\ MaxSize \in Nat \ {0} /\ BatchLimit \in Nat \ {0}
    \* sqlite_blockset.go:77 "assume we won't be writing more records in a
    \* single write than a max size"
    /\ WriteSizes \subseteq 1 .. MaxSize
    /\ Starts \subseteq Nat /\ Ends \subseteq Int
    /\ {MaxFiles, MaxCalls, MaxReads, MaxFaults, MaxStops} \subseteq Nat

VARIABLES
    \* durable
    disk,       \* file -> how far it was created, its URI, first seq, rows
    \* volatile: the SQLite object
    status,     \* "up", "down", or "refused": NewSQLite returned an error
    leaked,     \* files on which a failed block.write left its transaction open
    blk,        \* file -> the in-memory block struct opened on it
    blocksets,  \* URI -> its blocks, oldest first; <<>> when not in the map
    mapLock,    \* SQLite.l
    setLock,    \* URI -> the writer that holds blockset.l
    \* volatile: the goroutines
    pc,
    target,     \* the uri argument
    batch,      \* writer -> the records argument
    first, cur, \* blocks under construction: already made, being made
    from,       \* reader -> the start argument
    start, end, \* reader -> the range still to read
    chunk,      \* reader -> the batch it is about to send on its channel
    \* what was promised or seen, for the properties
    acked,      \* (uri, record) pairs whose Write returned nil
    must,       \* reader -> what was stored in its range when it was called
    got,        \* reader -> the (seq, record) pairs it has sent
    \* bounds
    calls, reads, faults, stops

diskVars  == <<disk>>
storeVars == <<status, leaked, blk, blocksets>>
lockVars  == <<mapLock, setLock>>
callVars  == <<target, batch, from, start, end, must>>
makeVars  == <<first, cur>>
seenVars  == <<chunk, got>>
countVars == <<calls, reads, faults, stops>>
vars == <<disk, status, leaked, blk, blocksets, mapLock, setLock, pc, target, batch,
          first, cur, from, start, end, chunk, acked, must, got,
          calls, reads, faults, stops>>

(***************************************************************************)
(* Blocks.  Record <<n, i, k>> is the i-th of the k records of the n-th    *)
(* Write call.  The rows of a file have consecutive seqs from base on,     *)
(* because its sentinel row has seq base-1 and SQLite gives an inserted    *)
(* row the largest seq of the table plus one.                              *)
(***************************************************************************)
Record  == Nat \X Nat \X Nat
NoFileYet == [stage |-> "absent", uri |-> Nil, base |-> 0, rows |-> <<>>]
NoBlock   == [count |-> 0, lastSeq |-> 0, lastAt |-> "zero"]

RowSeq(f, i) == disk[f].base + i - 1

\* newBlock's return value: lastSeq is the seq argument, lastAt the zero Time.
FreshBlock(seq) == [count |-> 0, lastSeq |-> seq, lastAt |-> "zero"]

\* openBlock's return value.  On a file that holds only the sentinel row the
\* last row is the sentinel: seq base-1, and at = 0, which is 1970 and not the
\* zero Time.
OpenBlock_SentinelTwice(f) ==
    [count   |-> Len(disk[f].rows) - 1,
     lastSeq |-> RowSeq(f, Len(disk[f].rows)),
     lastAt  |-> IF disk[f].rows = <<>> THEN "epoch" ELSE "set"]
OpenBlock(f) ==
    [count   |-> Len(disk[f].rows),
     lastSeq |-> RowSeq(f, Len(disk[f].rows)),
     lastAt  |-> IF disk[f].rows = <<>> THEN "epoch" ELSE "set"]

Least(a, b) == IF a <= b THEN a ELSE b

\* block.read: the rows with start <= seq < end, lowest seq first, at most
\* BatchLimit of them, each with its seq.
BlockRead(f, s, e) ==
    LET lo == IF s > disk[f].base THEN s - disk[f].base + 1 ELSE 1
        hi == Least(Least(Len(disk[f].rows), e - disk[f].base), lo + BatchLimit - 1)
    IN  [i \in 1 .. (hi - lo + 1) |-> <<RowSeq(f, lo + i - 1), disk[f].rows[lo + i - 1]>>]

\* blockset.read: of the blocks whose lastSeq is not below start and that have
\* a row in the range, the first answers for the whole blockset.
Answering(u, s, e) ==
    {i \in DOMAIN blocksets[u] :
        /\ blk[blocksets[u][i]].lastSeq >= s
        /\ BlockRead(blocksets[u][i], s, e) # <<>>}
FirstOf(A) == {i \in A : \A j \in A : i <= j}
Answers(A, u, s, e) == {BlockRead(blocksets[u][i], s, e) : i \in FirstOf(A)}

\* Everything stored for u in the range, whatever a read would find.
RowsIn(f, s, e) ==
    {disk[f].rows[i] : i \in {j \in DOMAIN disk[f].rows : RowSeq(f, j) >= s /\ RowSeq(f, j) < e}}
FilesOf(u) == {f \in Files : disk[f].stage = "ready" /\ disk[f].uri = u}
Stored(u, s, e) == UNION {RowsIn(f, s, e) : f \in FilesOf(u)}

-----------------------------------------------------------------------------
Init ==
    /\ disk = [f \in Files |-> NoFileYet]
    /\ status = "up"
    /\ leaked = {}
    /\ blk = [f \in Files |-> NoBlock]
    /\ blocksets = [u \in URIs |-> <<>>]
    /\ mapLock = Nil
    /\ setLock = [u \in URIs |-> Nil]
    /\ pc = [p \in Procs |-> "idle"]
    /\ target = [p \in Procs |-> Nil]
    /\ batch = [w \in Writers |-> <<>>]
    /\ first = [p \in Procs |-> Nil]
    /\ cur = [p \in Procs |-> Nil]
    /\ from = [r \in Readers |-> 0]
    /\ start = [r \in Readers |-> 0]
    /\ end = [r \in Readers |-> 0]
    /\ chunk = [r \in Readers |-> <<>>]
    /\ acked = {}
    /\ must = [r \in Readers |-> {}]
    /\ got = [r \in Readers |-> <<>>]
    /\ calls = 0 /\ reads = 0 /\ faults = 0 /\ stops = 0

-----------------------------------------------------------------------------
(***************************************************************************)
(* Calls begin and return.                                                 *)
(***************************************************************************)

\* SQLite.Write(ctx, u, records) is called with k records.
BeginWrite(w, u, k) ==
    /\ status = "up" /\ pc[w] = "idle" /\ calls < MaxCalls
    /\ calls' = calls + 1
    /\ batch' = [batch EXCEPT ![w] = [i \in 1 .. k |-> <<calls, i, k>>]]
    /\ target' = [target EXCEPT ![w] = u]
    /\ pc' = [pc EXCEPT ![w] = "lookup"]
    /\ UNCHANGED <<diskVars, storeVars, lockVars, makeVars, seenVars,
                   from, start, end, must, acked, reads, faults, stops>>

\* SQLite.Read(ctx, u, s, e, batch) starts its goroutine.
BeginRead(r, u, s, e) ==
    /\ status = "up" /\ pc[r] \in {"idle", "done"} /\ reads < MaxReads
    /\ reads' = reads + 1
    /\ target' = [target EXCEPT ![r] = u]
    /\ from' = [from EXCEPT ![r] = s]
    /\ start' = [start EXCEPT ![r] = s]
    /\ end' = [end EXCEPT ![r] = e]
    /\ must' = [must EXCEPT ![r] = Stored(u, s, e)]
    /\ got' = [got EXCEPT ![r] = <<>>]
    /\ pc' = [pc EXCEPT ![r] = "lookup"]
    /\ UNCHANGED <<diskVars, storeVars, lockVars, makeVars, batch, chunk,
                   acked, calls, faults, stops>>

\* The goroutine returns: whatever lock it holds is unlocked (the deferred
\* Unlock of blockset and of blockset.write run on every path).
Unlocked_NotAfterCreate(p) ==
    IF pc[p] \in {"table", "sentinel"} THEN UNCHANGED lockVars
    ELSE /\ mapLock' = IF mapLock = p THEN Nil ELSE mapLock
         /\ setLock' = [u \in URIs |-> IF setLock[u] = p THEN Nil ELSE setLock[u]]
Unlocked(p) ==
    /\ mapLock' = IF mapLock = p THEN Nil ELSE mapLock
    /\ setLock' = [u \in URIs |-> IF setLock[u] = p THEN Nil ELSE setLock[u]]
ReturnTo(p, label) ==
    /\ Unlocked(p)
    /\ pc' = [pc EXCEPT ![p] = label]
    /\ first' = [first EXCEPT ![p] = Nil]
    /\ cur' = [cur EXCEPT ![p] = Nil]

\* A statement of process p fails: the context was cancelled, or the database
\* returned an error.  The error is returned to the caller.
OneFault == faults < MaxFaults /\ faults' = faults + 1
Fault(p) ==
    /\ OneFault
    /\ ReturnTo(p, "idle")
    /\ chunk' = [r \in Readers |-> IF r = p THEN <<>> ELSE chunk[r]]
    /\ batch' = [w \in Writers |-> IF w = p THEN <<>> ELSE batch[w]]
    /\ UNCHANGED <<status, blk, blocksets, target, from, start, end, must, acked, got,
                   calls, reads, stops>>

(***************************************************************************)
(* SQLite.blockset: the map lookup, and the creation of a missing          *)
(* blockset, which holds SQLite.l through all its database statements.     *)
(***************************************************************************)
Use(p) == IF p \in Writers THEN "append" ELSE "scan"

LookupFound(p) ==
    /\ pc[p] = "lookup" /\ mapLock = Nil
    /\ blocksets[target[p]] # <<>>
    /\ pc' = [pc EXCEPT ![p] = Use(p)]
    /\ UNCHANGED <<diskVars, storeVars, lockVars, callVars, makeVars,
                   seenVars, acked, countVars>>

LookupMissing_Unlocks(p) ==
    /\ pc[p] = "lookup" /\ mapLock = Nil
    /\ blocksets[target[p]] = <<>>
    /\ pc' = [pc EXCEPT ![p] = "table"]
    /\ UNCHANGED <<diskVars, storeVars, lockVars, callVars, makeVars,
                   seenVars, acked, countVars>>
LookupMissing(p) ==
    /\ pc[p] = "lookup" /\ mapLock = Nil
    /\ blocksets[target[p]] = <<>>
    /\ mapLock' = p
    /\ pc' = [pc EXCEPT ![p] = "table"]
    /\ UNCHANGED <<diskVars, storeVars, setLock, callVars, makeVars,
                   seenVars, acked, countVars>>

(***************************************************************************)
(* newBlock, in two statements of autocommit: CREATE TABLE, then INSERT of *)
(* the sentinel row.  It runs twice in a row for a new blockset (once in   *)
(* resolver.Create, once more in SQLite.blockset) and once in a rollover.  *)
(***************************************************************************)
FileAdded(p, f) ==
    /\ disk[f].stage = "absent" /\ \A g \in 1 .. f - 1 : disk[g].stage # "absent"
    /\ disk' = [disk EXCEPT ![f].stage = "partial", ![f].uri = target[p]]

CreateTable(p) ==
    /\ pc[p] = "table"
    /\ \E f \in Files : FileAdded(p, f) /\ cur' = [cur EXCEPT ![p] = f]
    /\ pc' = [pc EXCEPT ![p] = "sentinel"]
    /\ UNCHANGED <<storeVars, lockVars, callVars, first, seenVars, acked,
                   countVars>>

\* CREATE TABLE fails: the database file may be there already, without table.
CreateTableFails(p) ==
    /\ pc[p] = "table"
    /\ \/ UNCHANGED disk
       \/ \E f \in Files : FileAdded(p, f)
    /\ UNCHANGED leaked
    /\ Fault(p)

\* A block is made for a rollover, under blockset.l, or else for a new
\* blockset.
Rolling(p) == setLock[target[p]] = p

\* The seq argument of create: 0 for the blocks of a new blockset,
\* blk.lastSeq of the block that is rolled over.
BaseFor(p) ==
    IF Rolling(p) THEN blk[Last(blocksets[target[p]])].lastSeq ELSE 0

SentinelWritten(p) ==
    disk' = [disk EXCEPT ![cur[p]].stage = "ready", ![cur[p]].base = BaseFor(p)]

\* The block resolver.Create made; SQLite.blockset goes on to make another.
FirstBlockMade(p) ==
    /\ pc[p] = "sentinel" /\ ~Rolling(p) /\ first[p] = Nil
    /\ SentinelWritten(p)
    /\ blk' = [blk EXCEPT ![cur[p]] = FreshBlock(BaseFor(p))]
    /\ first' = [first EXCEPT ![p] = cur[p]]
    /\ cur' = [cur EXCEPT ![p] = Nil]
    /\ pc' = [pc EXCEPT ![p] = "table"]
    /\ UNCHANGED <<status, leaked, blocksets, lockVars, callVars, seenVars, acked,
                   countVars>>

\* The second one: the blockset is put into the map and SQLite.l released.
BlocksetMade(p) ==
    /\ pc[p] = "sentinel" /\ ~Rolling(p) /\ first[p] # Nil
    /\ SentinelWritten(p)
    /\ blk' = [blk EXCEPT ![cur[p]] = FreshBlock(BaseFor(p))]
    /\ blocksets' = [blocksets EXCEPT ![target[p]] = <<first[p], cur[p]>>]
    /\ ReturnTo(p, Use(p))
    /\ UNCHANGED <<status, leaked, callVars, seenVars, acked, countVars>>

\* A rollover: the new block becomes the last of the blockset.
RolloverMade_NotAppended(p) ==
    /\ pc[p] = "sentinel" /\ Rolling(p)
    /\ SentinelWritten(p)
    /\ blk' = [blk EXCEPT ![cur[p]] = FreshBlock(BaseFor(p))]
    /\ pc' = [pc EXCEPT ![p] = "rest"]
    /\ UNCHANGED <<status, leaked, blocksets, lockVars, callVars, makeVars,
                   seenVars, acked, countVars>>
RolloverMade(p) ==
    /\ pc[p] = "sentinel" /\ Rolling(p)
    /\ SentinelWritten(p)
    /\ blk' = [blk EXCEPT ![cur[p]] = FreshBlock(BaseFor(p))]
    /\ blocksets' = [blocksets EXCEPT ![target[p]] = Append(@, cur[p])]
    /\ pc' = [pc EXCEPT ![p] = "rest"]
    /\ UNCHANGED <<status, leaked, lockVars, callVars, makeVars, seenVars, acked,
                   countVars>>

\* The sentinel INSERT fails, or took effect although an error is returned
\* (the context was cancelled while it ran).  The file stays behind.
SentinelFails(p) ==
    /\ pc[p] = "sentinel"
    /\ UNCHANGED disk \/ SentinelWritten(p)
    /\ UNCHANGED leaked
    /\ Fault(p)

(***************************************************************************)
(* blockset.write, under blockset.l.  A write that fits is one transaction *)
(* and nobody sees its inside.  One that does not first commits an empty   *)
(* transaction to the old block, then makes a block, and puts all of its   *)
(* records there.                                                          *)
(***************************************************************************)
Full_BatchForgotten(f, k) == blk[f].count >= MaxSize
Full(f, k) == blk[f].count + k > MaxSize

\* !blk.lastAt.IsZero() && at.Sub(blk.lastAt) > bs.maxAge: false for a block
\* that newBlock made, true for one opened with its sentinel row only (1970),
\* and for other opened blocks a matter of the clock.
MayBeAged(f) == blk[f].lastAt # "zero"
MustBeAged(f) == blk[f].lastAt = "epoch"

Newest(p) == Last(blocksets[target[p]])

\* The transaction of block.write commits and count follows, under blockset.l.
\* The caller is not told yet: the process may end before WriteReturns.
Commit(w, f) ==
    /\ disk' = [disk EXCEPT ![f].rows = @ \o batch[w]]
    /\ blk' = [blk EXCEPT ![f].count = @ + Len(batch[w])]
    /\ setLock' = [setLock EXCEPT ![target[w]] = w]
    /\ pc' = [pc EXCEPT ![w] = "stored"]
    /\ cur' = [cur EXCEPT ![w] = Nil]
    /\ UNCHANGED <<status, leaked, blocksets, mapLock, callVars, first, seenVars,
                   acked, countVars>>

AppendFits(w) ==
    /\ pc[w] = "append" /\ setLock[target[w]] = Nil
    /\ ~MustBeAged(Newest(w)) /\ ~Full(Newest(w), Len(batch[w]))
    /\ Newest(w) \notin leaked
    /\ Commit(w, Newest(w))

\* The block is still locked by the transaction an earlier call left open:
\* SQLITE_BUSY, and the call fails.
AppendBusy(w) ==
    /\ pc[w] = "append" /\ setLock[target[w]] = Nil
    /\ ~MustBeAged(Newest(w)) /\ ~Full(Newest(w), Len(batch[w]))
    /\ Newest(w) \in leaked
    /\ ReturnTo(w, "idle")
    /\ batch' = [batch EXCEPT ![w] = <<>>]
    /\ UNCHANGED <<disk, storeVars, target, from, start, end, must, seenVars, acked,
                   countVars>>

AppendRolls_FillsUp(w) ==
    /\ pc[w] = "append" /\ setLock[target[w]] = Nil
    /\ MayBeAged(Newest(w)) \/ Full(Newest(w), Len(batch[w]))
    /\ LET room == Least(MaxSize - blk[Newest(w)].count, Len(batch[w])) IN
        /\ disk' = [disk EXCEPT ![Newest(w)].rows = @ \o SubSeq(batch[w], 1, room)]
        /\ blk' = [blk EXCEPT ![Newest(w)].count = @ + room]
        /\ batch' = [batch EXCEPT ![w] = SubSeq(@, room + 1, Len(@))]
    /\ setLock' = [setLock EXCEPT ![target[w]] = w]
    /\ pc' = [pc EXCEPT ![w] = "table"]
    /\ UNCHANGED <<status, leaked, blocksets, mapLock, target, from, start, end,
                   must, makeVars, seenVars, acked, countVars>>
AppendRolls_KeepsRecords(w) ==
    /\ pc[w] = "append" /\ setLock[target[w]] = Nil
    /\ MayBeAged(Newest(w)) \/ Full(Newest(w), Len(batch[w]))
    /\ disk' = [disk EXCEPT ![Newest(w)].rows = @ \o batch[w]]
    /\ blk' = [blk EXCEPT ![Newest(w)].count = @ + Len(batch[w])]
    /\ setLock' = [setLock EXCEPT ![target[w]] = w]
    /\ pc' = [pc EXCEPT ![w] = "table"]
    /\ UNCHANGED <<status, leaked, blocksets, mapLock, callVars, makeVars,
                   seenVars, acked, countVars>>
AppendRolls(w) ==
    /\ pc[w] = "append" /\ setLock[target[w]] = Nil
    /\ MayBeAged(Newest(w)) \/ Full(Newest(w), Len(batch[w]))
    /\ setLock' = [setLock EXCEPT ![target[w]] = w]
    /\ pc' = [pc EXCEPT ![w] = "table"]
    /\ UNCHANGED <<disk, storeVars, mapLock, callVars, makeVars, seenVars,
                   acked, countVars>>

AppendRest(w) ==
    /\ pc[w] = "rest"
    /\ Commit(w, cur[w])

\* blockset.l is released and nil is returned, through SQLite.Write.
WriteReturns(w) ==
    /\ pc[w] = "stored"
    /\ acked' = acked \cup {<<target[w], rec>> : rec \in ToSet(batch[w])}
    /\ ReturnTo(w, "idle")
    /\ batch' = [batch EXCEPT ![w] = <<>>]
    /\ UNCHANGED <<disk, storeVars, target, from, start, end, must, seenVars,
                   countVars>>

\* A transaction of blockset.write fails; none of its rows is stored.  When an
\* INSERT failed, nothing rolls the transaction back, unless the cause was the
\* end of the context: the block stays locked for other transactions.
WriteFails_AfterCommit(w) ==
    /\ pc[w] = "append" /\ setLock[target[w]] = Nil
    /\ ~MustBeAged(Newest(w)) /\ ~Full(Newest(w), Len(batch[w]))
    /\ disk' = [disk EXCEPT ![Newest(w)].rows = @ \o batch[w]]
    /\ UNCHANGED leaked
    /\ Fault(w)
WriteFails(w) ==
    /\ \/ /\ pc[w] = "append" /\ setLock[target[w]] = Nil
          /\ leaked' = leaked
             \/ /\ ~MustBeAged(Newest(w)) /\ ~Full(Newest(w), Len(batch[w]))
                /\ leaked' = leaked \cup {Newest(w)}
       \/ /\ pc[w] = "rest"
          /\ leaked' \in {leaked, leaked \cup {cur[w]}}
    /\ UNCHANGED disk
    /\ Fault(w)

(***************************************************************************)
(* The loop of SQLite.Read.  blockset.read runs under the read lock; the   *)
(* send on the unbuffered channel does not hold it.                        *)
(***************************************************************************)
\* start = records[len(records)-1].Seq + 1
NextStart_Inclusive(records) == Last(records)[1]
NextStart(records) == Last(records)[1] + 1

\* The records blockset.read returned are offered on the channel.
Offer(r, records) ==
    /\ chunk' = [chunk EXCEPT ![r] = records]
    /\ start' = [start EXCEPT ![r] = NextStart(records)]
    /\ pc' = [pc EXCEPT ![r] = "send"]

ScanSends(r) ==
    /\ pc[r] = "scan" /\ setLock[target[r]] = Nil /\ start[r] < end[r]
    /\ LET A == Answering(target[r], start[r], end[r])
       IN  \E records \in Answers(A, target[r], start[r], end[r]) : Offer(r, records)
    /\ UNCHANGED <<disk, storeVars, lockVars, target, batch, from, end, must,
                   makeVars, acked, got, countVars>>

ScanEnds(r) ==
    /\ pc[r] = "scan"
    /\ \/ start[r] >= end[r]
       \/ /\ setLock[target[r]] = Nil
          /\ Answering(target[r], start[r], end[r]) = {}
    /\ pc' = [pc EXCEPT ![r] = "done"]
    /\ UNCHANGED <<disk, storeVars, lockVars, callVars, makeVars, seenVars,
                   acked, countVars>>

\* Fetching a row fails.  block.read does not ask rows.Err: the rows fetched
\* before pass for all there are, and when there are none the search goes on
\* in the next block.
ScanCut(r) ==
    /\ pc[r] = "scan" /\ setLock[target[r]] = Nil /\ start[r] < end[r]
    /\ LET A      == Answering(target[r], start[r], end[r])
           others == A \ FirstOf(A)
       IN  /\ A # {}
           /\ \/ \E records \in Answers(A, target[r], start[r], end[r]) :
                    \E n \in 1 .. Len(records) - 1 : Offer(r, SubSeq(records, 1, n))
              \/ \E records \in Answers(others, target[r], start[r], end[r]) :
                    Offer(r, records)
              \/ /\ others = {}
                 /\ pc' = [pc EXCEPT ![r] = "done"] /\ UNCHANGED <<chunk, start>>
    /\ OneFault
    /\ UNCHANGED <<disk, storeVars, lockVars, target, batch, from, end, must,
                   makeVars, acked, got, calls, reads, stops>>

\* The consumer takes the batch.
Send(r) ==
    /\ pc[r] = "send"
    /\ got' = [got EXCEPT ![r] = @ \o chunk[r]]
    /\ chunk' = [chunk EXCEPT ![r] = <<>>]
    /\ pc' = [pc EXCEPT ![r] = "scan"]
    /\ UNCHANGED <<disk, storeVars, lockVars, callVars, makeVars, acked,
                   countVars>>

\* A read statement fails, or the context ends while the send waits.
ReadFails(r) ==
    /\ \/ pc[r] = "scan" /\ start[r] < end[r] /\ setLock[target[r]] = Nil
       \/ pc[r] = "send"
    /\ UNCHANGED <<disk, leaked>>
    /\ Fault(r)

(***************************************************************************)
(* The process ends, by a crash at any moment or by SQLite.Close when no   *)
(* call is running, and starts again.                                      *)
(***************************************************************************)
Down ==
    /\ stops < MaxStops /\ stops' = stops + 1
    /\ status' = "down"
    /\ leaked' = {}
    /\ blk' = [f \in Files |-> NoBlock]
    /\ blocksets' = [u \in URIs |-> <<>>]
    /\ mapLock' = Nil
    /\ setLock' = [u \in URIs |-> Nil]
    /\ pc' = [p \in Procs |-> "idle"]
    /\ target' = [p \in Procs |-> Nil]
    /\ batch' = [w \in Writers |-> <<>>]
    /\ first' = [p \in Procs |-> Nil]
    /\ cur' = [p \in Procs |-> Nil]
    /\ chunk' = [r \in Readers |-> <<>>]
    /\ got' = [r \in Readers |-> <<>>]
    /\ must' = [r \in Readers |-> {}]
    /\ from' = [r \in Readers |-> 0]
    /\ start' = [r \in Readers |-> 0] /\ end' = [r \in Readers |-> 0]
    /\ UNCHANGED <<disk, acked, calls, reads, faults>>
Crash == status = "up" /\ Down
Close == status = "up" /\ (\A p \in Procs : pc[p] \in {"idle", "done"}) /\ Down

\* The order of sort.Slice in Blocksets.  Blocks that it holds equal come in
\* any order.
Before(f, g) ==
    IF OpenBlock(f).lastSeq = OpenBlock(g).lastSeq
    THEN OpenBlock(f).count > OpenBlock(g).count
    ELSE OpenBlock(f).lastSeq < OpenBlock(g).lastSeq
Loadings(u) ==
    {q \in [1 .. Cardinality(FilesOf(u)) -> FilesOf(u)] :
        /\ FilesOf(u) \subseteq ToSet(q)
        /\ \A i, j \in DOMAIN q : i < j => q[i] # q[j] /\ ~Before(q[j], q[i])}

Loadable == \A f \in Files : disk[f].stage # "partial"

\* NewSQLite on a directory in which every database file has its sentinel row.
Boot ==
    /\ status # "up" /\ Loadable
    /\ \E q \in [URIs -> UNION {Loadings(u) : u \in URIs}] :
        /\ \A u \in URIs : q[u] \in Loadings(u)
        /\ blocksets' = q
    /\ blk' = [f \in Files |->
                  IF disk[f].stage = "ready" THEN OpenBlock(f) ELSE NoBlock]
    /\ status' = "up"
    /\ UNCHANGED <<disk, leaked, lockVars, pc, callVars, makeVars, seenVars, acked,
                   countVars>>

\* openBlock finds no table, or no row, in a file whose creation was cut
\* short; Blocksets and NewSQLite return its error.
BootRefused ==
    /\ status # "up" /\ ~Loadable
    /\ status' = "refused"
    /\ UNCHANGED <<disk, leaked, blk, blocksets, lockVars, pc, callVars, makeVars,
                   seenVars, acked, countVars>>

-----------------------------------------------------------------------------
\* The steps a running call takes by itself.
WriterStep(w) ==
    \/ LookupFound(w) \/ LookupMissing(w)
    \/ CreateTable(w) \/ FirstBlockMade(w) \/ BlocksetMade(w) \/ RolloverMade(w)
    \/ AppendFits(w) \/ AppendBusy(w) \/ AppendRolls(w) \/ AppendRest(w)
    \/ WriteReturns(w)
ReaderStep(r) ==
    \/ LookupFound(r) \/ LookupMissing(r)
    \/ CreateTable(r) \/ FirstBlockMade(r) \/ BlocksetMade(r)
    \/ ScanSends(r) \/ ScanEnds(r)
WriterFault(w) == CreateTableFails(w) \/ SentinelFails(w) \/ WriteFails(w)
ReaderFault(r) ==
    CreateTableFails(r) \/ SentinelFails(r) \/ ReadFails(r) \/ ScanCut(r)

\* Nothing runs and the bounds allow no further call.
Rest ==
    /\ status = "up" /\ \A p \in Procs : pc[p] \in {"idle", "done"}
    /\ calls = MaxCalls /\ reads = MaxReads
    /\ UNCHANGED vars

Next ==
    \/ \E w \in Writers, u \in URIs, k \in WriteSizes : BeginWrite(w, u, k)
    \/ \E r \in Readers, u \in URIs, s \in Starts, e \in Ends : BeginRead(r, u, s, e)
    \/ \E w \in Writers : WriterStep(w) \/ WriterFault(w)
    \/ \E r \in Readers : ReaderStep(r) \/ Send(r) \/ ReaderFault(r)
    \/ Crash \/ Close \/ Boot \/ BootRefused
    \/ Rest

Spec == Init /\ [][Next]_vars

\* sync.Mutex and sync.RWMutex starve nobody, and a goroutine that can run
\* runs; a running call is not owed a consumer for its channel.
Fairness ==
    /\ \A w \in Writers : SF_vars(WriterStep(w))
    /\ \A r \in Readers : SF_vars(ReaderStep(r))
FairSpec == Spec /\ Fairness
-----------------------------------------------------------------------------
(***************************************************************************)
(* Properties.                                                             *)
(***************************************************************************)

\* The type invariant: the values every variable may take.
Stages == {"absent", "partial", "ready"}
DiskType ==
    disk \in [Files -> [stage : Stages, uri : URIs \cup {Nil}, base : Int,
                        rows : Seq(Record)]]
StoreType ==
    /\ status \in {"up", "down", "refused"}
    /\ leaked \subseteq Files
    /\ blk \in [Files -> [count : Nat, lastSeq : Int,
                          lastAt : {"zero", "epoch", "set"}]]
    /\ blocksets \in [URIs -> Seq(Files)]
LockType ==
    /\ mapLock \in Procs \cup {Nil}
    /\ setLock \in [URIs -> Writers \cup {Nil}]
CallType ==
    /\ pc \in [Procs -> {"idle", "lookup", "table", "sentinel", "append",
                         "rest", "stored", "scan", "send", "done"}]
    /\ target \in [Procs -> URIs \cup {Nil}]
    /\ batch \in [Writers -> Seq(Record)]
    /\ first \in [Procs -> Files \cup {Nil}]
    /\ cur \in [Procs -> Files \cup {Nil}]
ReadType ==
    /\ from \in [Readers -> Int]
    /\ start \in [Readers -> Int]
    /\ end \in [Readers -> Int]
    /\ chunk \in [Readers -> Seq(Int \X Record)]
    /\ got \in [Readers -> Seq(Int \X Record)]
    /\ must \in [Readers -> SUBSET Record]
CountType ==
    /\ acked \subseteq URIs \X Record
    /\ calls \in Nat /\ reads \in Nat /\ faults \in Nat /\ stops \in Nat
TypeOK == DiskType /\ StoreType /\ LockType /\ CallType /\ ReadType /\ CountType

\* No block ever holds more than maxSize records, whatever mix of rollovers,
\* failed creations and restarts produced it: blockset.write decides on the
\* in-memory count, which openBlock must rebuild without the sentinel row.
BlockBound == \A f \in Files : Len(disk[f].rows) <= MaxSize

\* What makes BlockBound and OneBlockset inductive.  The parts that a reviewer
\* of the locking would ask for: a count kept outside the database agrees with
\* the database; a file under construction belongs to one call and is empty; a
\* rollover holds blockset.l to its end; the creation of a blockset holds
\* SQLite.l to its end.
CallsNeedStorage == status # "up" => \A p \in Procs : pc[p] = "idle"
CountsMatch == status = "up" => \A f \in Files : blk[f].count = Len(disk[f].rows)
RowsNeedSentinel == \A f \in Files : disk[f].stage # "ready" => disk[f].rows = <<>>
BatchesFit == \A w \in Writers : Len(batch[w]) <= MaxSize
PublishedReady ==
    \A u \in URIs : \A i \in DOMAIN blocksets[u] :
        disk[blocksets[u][i]].stage = "ready" /\ disk[blocksets[u][i]].uri = u
CallsTarget ==
    \A p \in Procs :
        /\ pc[p] # "idle" => target[p] \in URIs
        /\ pc[p] \in {"append", "rest", "stored", "scan", "send"} => blocksets[target[p]] # <<>>
FileOwnedBy(p) ==
    /\ pc[p] \notin {"table", "sentinel"} => first[p] = Nil
    /\ pc[p] \notin {"sentinel", "rest"} => cur[p] = Nil
    /\ pc[p] = "sentinel" =>
        cur[p] \in Files /\ disk[cur[p]].stage = "partial" /\ disk[cur[p]].uri = target[p]
    /\ pc[p] = "rest" =>
        /\ cur[p] \in Files /\ disk[cur[p]].stage = "ready" /\ disk[cur[p]].uri = target[p]
        /\ disk[cur[p]].rows = <<>> /\ cur[p] \in ToSet(blocksets[target[p]])
    /\ first[p] # Nil => disk[first[p]].stage = "ready" /\ disk[first[p]].uri = target[p]
FilesOwned ==
    /\ \A p, q \in Procs : cur[p] = cur[q] /\ cur[p] # Nil => p = q
    /\ \A p \in Procs : FileOwnedBy(p)
LocksHeld ==
    \A p \in Procs :
        /\ pc[p] \in {"rest", "stored"} => Rolling(p)
        /\ pc[p] \notin {"table", "sentinel", "rest", "stored"} => \A u \in URIs : setLock[u] # p
        /\ pc[p] \in {"table", "sentinel"} =>
              IF Rolling(p) THEN blocksets[target[p]] # <<>> /\ first[p] = Nil
              ELSE mapLock = p /\ blocksets[target[p]] = <<>>
IndInv ==
    /\ TypeOK
    /\ CallsNeedStorage /\ CountsMatch /\ RowsNeedSentinel /\ BatchesFit
    /\ PublishedReady /\ CallsTarget /\ FilesOwned /\ LocksHeld
    /\ BlockBound

\* A call that waits for SQLite.l or for blockset.l waits for one that is inside
\* a creation or a write, and so waits neither for a lock nor for a consumer:
\* no chain or ring of waiting calls can form over the two layers of locks,
\* although a rollover creates blocks too and a Read may wait to send for ever.
WaitsFor(p, q) ==
    \/ pc[p] = "lookup" /\ mapLock = q
    \/ pc[p] \in {"append", "scan"} /\ setLock[target[p]] = q
NoWaitChains ==
    \A p, q \in Procs : WaitsFor(p, q) => pc[q] \in {"table", "sentinel", "rest", "stored"}

\* A record whose Write returned nil stays on disk under its URI for good, and
\* whenever the storage is up its file is one of the blocks of that URI's
\* blockset: no crash, failed rollover or racing creation of the blockset
\* orphans it.
AckedReachable ==
    \A a \in acked : \E f \in FilesOf(a[1]) :
        /\ a[2] \in ToSet(disk[f].rows)
        /\ status = "up" => f \in ToSet(blocksets[a[1]])

\* What makes AckedReachable inductive: between the commit and the return the
\* records are rows of a block of the blockset.
Committed ==
    \A w \in Writers : pc[w] = "stored" =>
        \E f \in ToSet(blocksets[target[w]]) : ToSet(batch[w]) \subseteq ToSet(disk[f].rows)

\* The records of one Write call are all in one file, side by side and in
\* order, or nowhere, across rollovers, faults and crashes.
BatchAtomic ==
    \A f \in Files : \A x \in DOMAIN disk[f].rows :
        LET rec == disk[f].rows[x] IN
        \A k \in 1 .. rec[3] :
            /\ x - rec[2] + k \in DOMAIN disk[f].rows
            /\ disk[f].rows[x - rec[2] + k] = <<rec[1], k, rec[3]>>

\* A record is stored once: a write that failed or rolled over did not leave a
\* copy of its records in the block it left.
StoredOnce ==
    \A f, g \in Files : \A x \in DOMAIN disk[f].rows, y \in DOMAIN disk[g].rows :
        disk[f].rows[x] = disk[g].rows[y] => f = g /\ x = y

\* While the storage stays up a published blockset only grows at its end: the
\* goroutines that look up a missing URI at once never publish two blocksets
\* for it, the later replacing the one in use.
BlocksetsGrow ==
    status = "up" /\ status' = "up" =>
        \A u \in URIs : /\ Len(blocksets[u]) <= Len(blocksets'[u])
                        /\ \A i \in DOMAIN blocksets[u] : blocksets'[u][i] = blocksets[u][i]
OneBlockset == [][BlocksetsGrow]_vars

\* What one Read call sends is in strictly increasing seq order, inside the
\* range it was asked for, and each pair is a row of that URI: no row is sent
\* twice when the loop moves from block to block.
ReadsInOrder ==
    \A r \in Readers :
        /\ \A i, j \in DOMAIN got[r] : i < j => got[r][i][1] < got[r][j][1]
        /\ \A i \in DOMAIN got[r] :
            /\ from[r] <= got[r][i][1] /\ got[r][i][1] < end[r]
            /\ \E f \in Files : \E x \in DOMAIN disk[f].rows :
                /\ disk[f].uri = target[r]
                /\ got[r][i] = <<RowSeq(f, x), disk[f].rows[x]>>

\* Every Write call returns, in success or in error or by the end of the
\* process, even when the consumer of a running Read never takes its batch:
\* no lock is kept on an error path, none is held during a channel send.
WritesReturn == \A w \in Writers : pc[w] # "idle" ~> pc[w] = "idle"

\* TestSQLite (sqlite_test.go:104 "recreate sql lite and expect to find the
\* same data") requires NewSQLite on the directory of an earlier agent to
\* return no error, and sqlite_resolver.go:118 means to "handle the case where
\* we've created a new block, but not inserted anything into it".
StartupSucceeds == status # "refused"

\* TestSQLite reads a URI from 0 to the largest seq and requires every record
\* written before (sqlite_test.go:87-93): a Read that ends without error has
\* sent all that was stored in its range when it was called.
ReadsComplete ==
    \A r \in Readers :
        pc[r] = "done" => must[r] \subseteq {got[r][i][2] : i \in DOMAIN got[r]}
=============================================================================
