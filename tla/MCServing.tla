----------------------------- MODULE MCServing ------------------------------
(* Lines for the clients of the server. *)
EXTENDS Serving, TLC

T(p) == <<p>>
MCNumber == "1" :> 1
MCLower  == "EXIT" :> "exit"
MCBang   == {"!ls"}
MCPlus   == {"+exit", "+back"}

MCLines == {<<T("use"), T("1")>>, <<T("+back")>>, <<T("EXIT")>>, <<T("exit"), T("now")>>}
=============================================================================
