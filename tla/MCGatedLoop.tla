----------------------------- MODULE MCGatedLoop -----------------------------
(***************************************************************************)
(* The gated loop on a small instance: one intention per policy effect.    *)
(***************************************************************************)
EXTENDS GatedLoop, TLC

CONSTANTS allowed, gated, forbidden

MCIntentions == {allowed, gated, forbidden}
MCEffect == allowed :> "allow" @@ gated :> "approve" @@ forbidden :> "deny"
Symmetry == Permutations(Calls) \cup Permutations(Ids)
=============================================================================
