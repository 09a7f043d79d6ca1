----------------------------- MODULE MCConsole ------------------------------
(* Lines for the REPL: each verb with the arguments that matter to it.  The *)
(* numbers serve as ports and as indices.                                   *)
EXTENDS Console, TLC

T(p) == <<p>>            \* a token of one piece
MCNumber == "-1" :> -1 @@ "0" :> 0 @@ "1" :> 1 @@ "2" :> 2 @@ "3" :> 3
MCLower  == "EXIT" :> "exit" @@ "+BACK" :> "+back"
MCBang   == {"!ls"}
MCPlus   == {"+exit", "+back", "+BACK", "+bg", "+foo"}

CONSTANTS c1, c2
MCHome == c1 :> 1 @@ c2 :> 1

MCLines == {
  <<T("open"), T("1")>>, <<T("open"), T("3")>>,
  <<T("close"), T("1")>>, <<T("close")>>,
  <<T("kill"), T("1")>>, <<T("kill"), T("-f"), <<"1", "2">>>>,
  <<T("kill"), <<"1", "-1">>, T("-f")>>, <<T("kill"), T("-f")>>,
  <<T("use"), T("1")>>, <<T("use"), <<"1", "2">>>>, <<T("use"), <<"1", "-1">>>>,
  <<T("send"), <<"1", "2">>, T("x")>>, <<T("read"), T("1")>>,
  <<T("proxy"), T("1"), <<"h", "3">>>>, <<T("proxy"), T("log"), T("1"), T("f")>>,
  <<T("fwd"), T("0"), <<"", "3">>>>, <<T("fwd"), T("close"), T("1")>>,
  <<T("fwd")>>, <<T("list")>>, <<T("EXIT"), T("now")>>, <<T("+exit")>>,
  <<T("+BACK")>>, <<T("+bg")>>, <<T("+foo")>>, <<T("!ls")>>, <<T("data")>>, <<>>}
=============================================================================
