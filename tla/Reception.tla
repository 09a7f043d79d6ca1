----------------------------- MODULE Reception ------------------------------
(***************************************************************************)
(* What opening and closing ports promises to whoever types the commands.  *)
(* A session comes in on an open port.  A port closes when every session   *)
(* that came in on it has ended, but for connections that `close` crosses: *)
(* those come in with that step and stay until somebody ends them.         *)
(***************************************************************************)
CONSTANTS Ports, Conns

VARIABLES
  open,    \* ports that listen
  live,    \* per port: the sessions that came in on it and last
  loose,   \* sessions that last and came in while their port was closed
  ended    \* sessions that have ended

receptionVars == <<open, live, loose, ended>>

ReceptionInit ==
  /\ open = {} /\ live = [p \in Ports |-> {}] /\ loose = {} /\ ended = {}

(* Connections that are no session yet. *)
Fresh == (Conns \ (loose \cup ended)) \ UNION {live[p] : p \in Ports}

OpenPort(p) == p \notin open /\ open' = open \cup {p} /\ UNCHANGED <<live, loose, ended>>

Connect(c, p) ==
  /\ c \in Fresh /\ p \in open
  /\ live' = [live EXCEPT ![p] = @ \cup {c}]
  /\ UNCHANGED <<open, loose, ended>>

(* A session ends, of itself or by `kill`; it may have come in just now.   *)
End(c) ==
  /\ c \notin ended
  /\ c \in Fresh => open # {}
  /\ live' = [p \in Ports |-> live[p] \ {c}] /\ loose' = loose \ {c}
  /\ ended' = ended \cup {c}
  /\ UNCHANGED open

ClosePort(p) ==
  /\ p \in open /\ live[p] = {} /\ open' = open \ {p}
  /\ \E late \in SUBSET Fresh : loose' = loose \cup late
  /\ UNCHANGED <<live, ended>>

ReceptionNext ==
  \/ \E p \in Ports : OpenPort(p) \/ ClosePort(p) \/ \E c \in Conns : Connect(c, p)
  \/ \E c \in Conns : End(c)

ReceptionSpec == ReceptionInit /\ [][ReceptionNext]_receptionVars
=============================================================================
