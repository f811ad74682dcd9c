-------------------------- MODULE MCParameterStore --------------------------
(* Instances of ParameterStore for TLC.                                     *)
EXTENDS ParameterStore, TLC

\* Request threads and written values are interchangeable.
Symmetry == Permutations(Writers) \cup Permutations(Values)
=============================================================================
