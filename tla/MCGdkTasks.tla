------------------------------ MODULE MCGdkTasks ------------------------------
(* Tasks on one session: connect, log in once connected, and load the assets. *)
EXTENDS GdkTasks, TLC

CONSTANTS connect, login, assets, session

MCNeeds == connect :> {} @@ login :> {connect} @@ assets :> {}
MCKind == connect :> "connect" @@ login :> "login" @@ assets :> "assets"
MCSessionOf == [t \in Task |-> session]
=============================================================================
