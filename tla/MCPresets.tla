----------------------------- MODULE MCPresets -----------------------------
(* Instances of Presets for TLC.                                            *)
EXTENDS Presets, TLC

\* Request threads are interchangeable, and so are the values.
Symmetry == Permutations(Callers) \cup Permutations(Values)
=============================================================================
