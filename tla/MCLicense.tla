----------------------------- MODULE MCLicense ------------------------------
(***************************************************************************)
(* Instances of License for TLC: an Enterprise key that expires and a      *)
(* perpetual Community key.                                                *)
(***************************************************************************)
EXTENDS License, TLC

CONSTANTS dated, plain

MCTierOf     == (dated :> "Enterprise") @@ (plain :> "Community")
MCExpiryOf   == (dated :> 3) @@ (plain :> Never)
MCAllowsKill == (dated :> TRUE) @@ (plain :> FALSE)
=============================================================================
