------------------------------ MODULE MCJadeEnds ------------------------------
(* Three clients: a version poll, a message to sign and an unlock. *)
EXTENDS JadeApi, TLC

CONSTANTS info, message, unlock

MCKind == info :> "info" @@ message :> "message" @@ unlock :> "unlock"
=============================================================================
