-------------------------------- MODULE MCDlc --------------------------------
(* A taker's and a maker's order. *)
EXTENDS DlcNegotiation

CONSTANTS o1, o2
BothOrders == {o1, o2}
OneTaker == {o1}
==============================================================================
