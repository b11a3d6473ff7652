------------------------------ MODULE Follower ------------------------------
(***************************************************************************)
(* What a client that follows an agent's log is promised, as if nothing    *)
(* lay between it and the log: the records have the seqs below stored, and *)
(* now and then the client gets, in one step, some of those it has not had *)
(* (acc), the rows that a script made of them, and the seq from which to   *)
(* ask on.  Records may be left out (the scan of a block is cut short),    *)
(* but none comes twice, late or before it is stored, and none without the *)
(* ones that were given to the script with it.                             *)
(***************************************************************************)
EXTENDS Integers, Sequences, SequencesExt

VARIABLES stored, have
feed == <<stored, have>>

\* s is strictly increasing.
Upward(s) == \A i, j \in DOMAIN s : i < j => s[i] < s[j]

\* t is s and more, all of it upward.
Grows(s, t) == IsPrefix(s, t) /\ s # t /\ Upward(t)

\* What t has after s.
News(s, t) == {t[i] : i \in Len(s) + 1 .. Len(t)}

Init == stored = 0 /\ have = [rows |-> <<>>, acc |-> <<>>, offset |-> -1]

Stores == stored' = stored + 1 /\ UNCHANGED have

Receives ==
    /\ Grows(have.acc, have'.acc) /\ Grows(have.rows, have'.rows)
    /\ News(have.acc, have'.acc) \subseteq have.offset + 1 .. stored - 1
    /\ News(have.rows, have'.rows) \subseteq News(have.acc, have'.acc)
    /\ have'.offset = Last(have'.acc)
    /\ UNCHANGED stored

Next == Stores \/ Receives
Spec == Init /\ [][Next]_feed
=============================================================================
