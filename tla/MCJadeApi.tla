------------------------------ MODULE MCJadeApi ------------------------------
(* Three clients: a ping, a firmware upload and a login. *)
EXTENDS JadeApi, TLC

CONSTANTS ping, update, login

MCKind == ping :> "ping" @@ update :> "ota" @@ login :> "auth"
=============================================================================
