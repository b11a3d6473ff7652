------------------------------ MODULE StoreLog -------------------------------
(***************************************************************************)
(* Store implements DurableLog.  The log of a URI is what its readers can  *)
(* reach: the rows of the blocks in its blockset, and while no process is  *)
(* up the rows of its files.  So NewSQLite must find exactly what the      *)
(* process before it had in its map.                                       *)
(***************************************************************************)
EXTENDS Store

WriteBatches ==
    {{<<n, i, k>> : i \in 1 .. k} : n \in 0 .. MaxCalls - 1, k \in WriteSizes}

RowsOf(F) == UNION {ToSet(disk[f].rows) : f \in F}
Reachable(u) ==
    IF status = "up" THEN RowsOf(ToSet(blocksets[u])) ELSE RowsOf(FilesOf(u))
Up   == status = "up"
Logs == [u \in URIs |-> Reachable(u)]
Writing ==
    [w \in Writers |->
        IF pc[w] = "idle" THEN [uri |-> Nil, records |-> {}, stored |-> FALSE]
        ELSE [uri |-> target[w], records |-> ToSet(batch[w]), stored |-> pc[w] = "stored"]]
Reading == [r \in Readers |-> IF pc[r] \in {"idle", "done"} THEN Nil ELSE target[r]]
SentTo  == [r \in Readers |-> [i \in DOMAIN got[r] |-> got[r][i][2]]]

Log == INSTANCE DurableLog WITH
    Batches <- WriteBatches, Limit <- BatchLimit,
    up <- Up, log <- Logs, write <- Writing, read <- Reading, sent <- SentTo

\* For callers the storage is that log: rollovers, the two statements of a new
\* block, the locks and the order in which files are found again are never
\* seen from outside, whatever fails and whenever the process ends.
Implements == Log!Spec
-----------------------------------------------------------------------------
(***************************************************************************)
(* What makes that, and the properties of Store about records and reads,   *)
(* inductive.                                                              *)
(***************************************************************************)
\* Rows are only in files that have a blockset to be found through.
RowsPublished ==
    \A f \in Files : disk[f].rows # <<>> =>
        /\ disk[f].uri \in URIs
        /\ status = "up" => f \in ToSet(blocksets[disk[f].uri])

\* The records of a call that runs are all there, in order, under a number
\* that no other running call has, and no row before they are stored.
Number(w) == batch[w][1][1]
Numbered(w) ==
    /\ Len(batch[w]) \in WriteSizes
    /\ Number(w) < calls
    /\ \A i \in DOMAIN batch[w] : batch[w][i] = <<Number(w), i, Len(batch[w])>>
    /\ pc[w] # "stored" =>
        \A f \in Files : \A x \in DOMAIN disk[f].rows : disk[f].rows[x][1] # Number(w)
CallsNumbered ==
    /\ calls <= MaxCalls
    /\ \A w \in Writers :
          IF pc[w] = "idle" THEN batch[w] = <<>> ELSE batch[w] # <<>> /\ Numbered(w)
    /\ \A v, w \in Writers :
          pc[v] # "idle" /\ pc[w] # "idle" /\ Number(v) = Number(w) => v = w
    /\ \A f \in Files : \A x \in DOMAIN disk[f].rows : disk[f].rows[x][1] < calls

\* What a Read has sent and what it holds in its hand are rows of its range in
\* order, all below the seq where it goes on.
Ascending(q) == \A i, j \in DOMAIN q : i < j => q[i][1] < q[j][1]
Below(q, n)  == \A i \in DOMAIN q : q[i][1] < n
FoundBy(r, pair) ==
    \E f \in Files : \E x \in DOMAIN disk[f].rows :
        disk[f].uri = target[r] /\ pair = <<RowSeq(f, x), disk[f].rows[x]>>
InRange(r, q) ==
    /\ Ascending(q)
    /\ \A i \in DOMAIN q : from[r] <= q[i][1] /\ q[i][1] < end[r] /\ FoundBy(r, q[i])
Tracked(r) ==
    /\ InRange(r, got[r]) /\ InRange(r, chunk[r])
    /\ from[r] <= start[r]
    /\ \A i \in DOMAIN chunk[r] : Below(got[r], chunk[r][i][1])
    /\ pc[r] \notin {"idle", "done"} => Below(got[r], start[r]) /\ Below(chunk[r], start[r])
    /\ IF pc[r] = "send" THEN Len(chunk[r]) \in 1 .. BatchLimit ELSE chunk[r] = <<>>
ReadsTracked == \A r \in Readers : Tracked(r)

\* The log that Store implements is well kept, in each of its parts.
LogInv == RowsPublished /\ CallsNumbered /\ ReadsTracked
=============================================================================
