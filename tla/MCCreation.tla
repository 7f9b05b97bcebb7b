------------------------------- MODULE MCCreation ------------------------------
(* Two accounts and assets, an address, a link that names an amount and an asset *)
(* and one that names neither.                                                   *)
EXTENDS TransactionCreation

CONSTANTS a1, a2, s1, s2, x1, priced, plain

MCLinkAsset == priced :> s2
==============================================================================
