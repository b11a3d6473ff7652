----------------------------- MODULE DurableLog ------------------------------
(***************************************************************************)
(* What the storage of an agent promises to those that call it: a log of   *)
(* records per URI that outlives the process.  There are no files, blocks  *)
(* or locks here.                                                          *)
(*                                                                         *)
(* A Write that returns nil has added all its records before it returned;  *)
(* one that returns an error has added none; one that never returns,       *)
(* because the process ended, has added all of them or none.  A Read gives *)
(* records of its URI, none of them twice.  (That it gives all of them is  *)
(* more than the code does.)  A process that ends takes nothing but its    *)
(* calls with it.                                                          *)
(*                                                                         *)
(* Module StoreLog shows that Store implements this.                       *)
(***************************************************************************)
EXTENDS Integers, Sequences, Functions

CONSTANTS
    URIs, Writers, Readers,
    Batches,      \* the sets of records a Write may be called with
    Limit,        \* the batch argument of Read
    Nil           \* no URI

VARIABLES
    up,           \* whether the storage serves calls
    log,          \* URI -> the records it has
    acked,        \* (uri, record) pairs whose Write returned nil
    write,        \* writer -> the call it is in, and whether it has stored
    read,         \* reader -> the URI it reads
    sent          \* reader -> the records its last call has sent

vars == <<up, log, acked, write, read, sent>>

NoWrite == [uri |-> Nil, records |-> {}, stored |-> FALSE]

Init ==
    /\ up = TRUE
    /\ log = [u \in URIs |-> {}]
    /\ acked = {}
    /\ write = [w \in Writers |-> NoWrite]
    /\ read = [r \in Readers |-> Nil]
    /\ sent = [r \in Readers |-> <<>>]

\* Write is called, with records that nobody has written before.
WriteCalled(w, u, B) ==
    /\ up /\ write[w] = NoWrite
    /\ \A v \in URIs : B \cap log[v] = {}
    /\ \A v \in Writers : B \cap write[v].records = {}
    /\ write' = [write EXCEPT ![w] = [uri |-> u, records |-> B, stored |-> FALSE]]
    /\ UNCHANGED <<up, log, acked, read, sent>>

\* All the records are added at once, for good, before the caller knows.
WriteStores(w) ==
    /\ write[w] # NoWrite /\ ~write[w].stored
    /\ log' = [log EXCEPT ![write[w].uri] = @ \cup write[w].records]
    /\ write' = [write EXCEPT ![w].stored = TRUE]
    /\ UNCHANGED <<up, acked, read, sent>>

WriteReturnsNil(w) ==
    /\ write[w].stored
    /\ acked' = acked \cup {<<write[w].uri, rec>> : rec \in write[w].records}
    /\ write' = [write EXCEPT ![w] = NoWrite]
    /\ UNCHANGED <<up, log, read, sent>>

WriteFails(w) ==
    /\ write[w] # NoWrite /\ ~write[w].stored
    /\ write' = [write EXCEPT ![w] = NoWrite]
    /\ UNCHANGED <<up, log, acked, read, sent>>

ReadCalled(r, u) ==
    /\ up /\ read[r] = Nil
    /\ read' = [read EXCEPT ![r] = u]
    /\ sent' = [sent EXCEPT ![r] = <<>>]
    /\ UNCHANGED <<up, log, acked, write>>

\* A reply of at most Limit records, new ones each.
ReadSends(r, records) ==
    /\ read[r] # Nil
    /\ IsInjective(sent[r] \o records)
    /\ sent' = [sent EXCEPT ![r] = @ \o records]
    /\ UNCHANGED <<up, log, acked, write, read>>
Replies(u) == UNION {[1 .. n -> log[u]] : n \in 1 .. Limit}

ReadReturns(r) ==
    /\ read[r] # Nil
    /\ read' = [read EXCEPT ![r] = Nil]
    /\ UNCHANGED <<up, log, acked, write, sent>>

Stops ==
    /\ up /\ up' = FALSE
    /\ write' = [w \in Writers |-> NoWrite]
    /\ read' = [r \in Readers |-> Nil]
    /\ sent' = [r \in Readers |-> <<>>]
    /\ UNCHANGED <<log, acked>>

\* What a new process finds is what the one before had.
Restarts ==
    /\ ~up /\ up' = TRUE
    /\ UNCHANGED <<log, acked, write, read, sent>>

Next ==
    \/ \E w \in Writers, u \in URIs, B \in Batches : WriteCalled(w, u, B)
    \/ \E w \in Writers : WriteStores(w) \/ WriteReturnsNil(w) \/ WriteFails(w)
    \/ \E r \in Readers, u \in URIs : ReadCalled(r, u)
    \/ \E r \in Readers : read[r] # Nil /\ \E q \in Replies(read[r]) : ReadSends(r, q)
    \/ \E r \in Readers : ReadReturns(r)
    \/ Stops \/ Restarts

Spec == Init /\ [][Next]_vars
=============================================================================
