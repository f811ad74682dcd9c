-------------------------- MODULE MCUploadTransfer --------------------------
(* An instance of UploadTransfer for TLC: a bundle whose bytes look like    *)
(* line ends, sent in two ranges.                                           *)
EXTENDS UploadTransfer, TLC

MCBytes == {"x", "cr", "lf", "dash"}
MCBundle == <<"x", "cr", "lf", "x">>
MCRanges == {[first |-> 1, last |-> 3], [first |-> 4, last |-> 4]}
MCTrailer == <<"cr", "lf", "dash">>
MCCrlf == <<"cr", "lf">>

\* Request threads are interchangeable.
Symmetry == Permutations(Patchers)
=============================================================================
