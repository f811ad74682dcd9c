----------------------------- MODULE MCOneShot -----------------------------
(* Two one-shot containers, each with a bundle of its own, beside the server. *)
EXTENDS OneShot, TLC

CONSTANTS r1, r2, b1, b2

MCClients == {r1, r2, Server}
MCRuns == {r1, r2}
MCBundles == {b1, b2}
MCEmbedded == r1 :> b1 @@ r2 :> b2
=============================================================================
