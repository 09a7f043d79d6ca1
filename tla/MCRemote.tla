------------------------------ MODULE MCRemote ------------------------------
(* What the client may be asked to do in the runs.  A line without output   *)
(* ("silent") is not answered, and the end of input in session mode and the *)
(* death of the session put responses out of step, so the runs about        *)
(* responses leave them out.                                                *)
EXTENDS Remote

AllLines      == {"tool", "silent"} \cup SessionKinds \cup {"use"}
AnsweredLines == {"tool", "use"} \cup (SessionKinds \ {"exit"})
AllMishaps    == {"death", "eof", "leave", "big"}
=============================================================================
