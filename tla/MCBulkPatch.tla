---------------------------- MODULE MCBulkPatch ----------------------------
(* Instances of BulkPatch for TLC.                                          *)
EXTENDS BulkPatch, TLC

CONSTANTS c1, c2, a1, g1

Forward(b) == [param |-> "forwarding", value |-> b]
Address(v) == [param |-> "addresses", id |-> 1, value |-> v]
Gateway(v) == [param |-> "gateway", id |-> 1, value |-> v]

\* One thread serves bulk writes whose members depend on each other, undo each other or
\* come to nothing; the other single ones.
MCOffers ==
  (c1 :> {<<Address(a1), Gateway(g1)>>, <<Gateway(Nothing), Gateway(g1)>>,
          <<Address(Nothing), Forward(TRUE)>>, <<Forward(TRUE), Refused>>}) @@
  (c2 :> {<<Forward(FALSE)>>})
=============================================================================
