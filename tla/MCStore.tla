------------------------------- MODULE MCStore -------------------------------
(* Store on small instances.  Goroutines of one kind, and URIs, differ in   *)
(* nothing but their name, so the safety runs take states up to a renaming. *)
EXTENDS StoreLog

Symmetry == Permutations(Writers) \cup Permutations(Readers) \cup Permutations(URIs)
=============================================================================
