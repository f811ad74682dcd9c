---------------------------- MODULE MCCachedRead ----------------------------
(* Instances of CachedRead for TLC.                                         *)
EXTENDS CachedRead, TLC

\* Request threads are interchangeable.
Symmetry == Permutations(Readers) \cup Permutations(Writers)
=============================================================================
