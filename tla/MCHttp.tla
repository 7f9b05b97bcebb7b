-------------------------------- MODULE MCHttp --------------------------------
(* Up to three requests. *)
EXTENDS HttpManager

CONSTANTS r1, r2, r3
==============================================================================
