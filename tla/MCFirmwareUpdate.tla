-------------------------- MODULE MCFirmwareUpdate --------------------------
(* Instances of FirmwareUpdate for TLC.                                     *)
EXTENDS FirmwareUpdate, TLC

\* Worker threads, request threads and upload ids are interchangeable.
Symmetry == Permutations(Workers) \cup Permutations(Callers) \cup Permutations(Fids)
=============================================================================
