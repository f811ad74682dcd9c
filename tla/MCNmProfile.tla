----------------------------- MODULE MCNmProfile -----------------------------
(* Instances of NmProfile for TLC.                                          *)
EXTENDS NmProfile, TLC

\* Request threads are interchangeable, and so are the addresses.
Symmetry == Permutations(Callers) \cup Permutations(Addresses)
=============================================================================
