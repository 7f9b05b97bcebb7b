------------------------------ MODULE MCGdkLoad ------------------------------
(* Loading a network over Tor: connect and log in, and after the login the    *)
(* account synchronisation and a loader that waits for the login by itself.   *)
EXTENDS GdkTasks, TLC

CONSTANTS connect, login, sync, load, session

MCNeeds == connect :> {} @@ login :> {connect} @@ sync :> {login} @@ load :> {}
MCKind == connect :> "connect" @@ login :> "login" @@ sync :> "sync" @@ load :> "session"
MCSessionOf == [t \in Task |-> session]
=============================================================================
