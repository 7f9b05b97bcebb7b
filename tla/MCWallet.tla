------------------------------- MODULE MCWallet -------------------------------
(* A wallet created with the current layout, and an old record with a PIN that  *)
(* was also used to watch only.                                                 *)
EXTENDS WalletStore, TLC

CONSTANTS w1, old1

MCLogins == old1 :> {"pin", "watchonly"}
=============================================================================
