----------------------------- MODULE Dispatcher -----------------------------
(***************************************************************************)
(* The command dispatcher (internal/console/dispatcher.go) and the tables  *)
(* its commands change: listening ports, sessions, forwards.  A command is *)
(* one step here: Listener.tla and Forward.tla take `open`, `close`,       *)
(* `kill`, `fwd` and `proxy` apart, Session.tla `use` and `read`.  What is *)
(* left is which line does what to which entry.                            *)
(***************************************************************************)
EXTENDS CommandLine, FiniteSets

CONSTANTS
  Conns,    \* sessions that may come to be
  Home,     \* per session: the port it comes in on
  MaxPort   \* the highest port number (65535)

ASSUME DispatcherAssumption ==
  /\ IsFiniteSet(Conns)
  /\ MaxPort \in Nat \ {0} /\ Home \in [Conns -> 1 .. MaxPort]

VARIABLES
  open,     \* listener.Manager.listeners: the ports
  sess,     \* per session: "none", "live", "dead"; or its state is not dead although
            \* its connection is: "zombie", and "lost" once it is not in the map
  stray,    \* history: sessions registered while their port was being closed
  fwds,     \* forward.Manager.entries: per local port, its kind and its log
  panic     \* the index with which a command left its list; 0: none

tables == <<open, sess, stray, fwds, panic>>

TablesInit ==
  /\ open = {} /\ sess = [c \in Conns |-> "none"] /\ stray = {}
  /\ fwds = [p \in {} |-> <<>>] /\ panic = 0

Live      == {c \in Conns : sess[c] \in {"live", "zombie"}}
ByPort(p) == {c \in Live : Home[c] = p}

(* ByPort lists a Go map: every call may choose another order. *)
Orders(S) == {s \in [1 .. Cardinality(S) -> S] :
                \A i, j \in DOMAIN s : s[i] = s[j] => i = j}

Ended(S) == [c \in Conns |-> IF c \in S THEN "dead" ELSE sess[c]]

(* SetState with another state than dead, whatever the state was before;   *)
(* the end of the session may have removed it from the map or not.         *)
SetState(c) ==
  sess' \in IF sess[c] = "dead"
           THEN {[sess EXCEPT ![c] = "zombie"], [sess EXCEPT ![c] = "lost"]} ELSE {sess}

Connect(c) ==
  /\ sess[c] = "none" /\ Home[c] \in open
  /\ sess' = [sess EXCEPT ![c] = "live"]
  /\ UNCHANGED <<open, stray, fwds, panic>>

Hangup(c) ==
  /\ sess[c] = "live" /\ sess' = Ended({c})
  /\ UNCHANGED <<open, stray, fwds, panic>>

-----------------------------------------------------------------------------
(* Listeners and sessions.  The operating system may refuse any socket. *)

BindableTwice(p) == p \notin open    \* mutant: forwards are not looked at
Bindable(p) == p \notin open /\ p \notin DOMAIN fwds

DoOpen(args) ==
  /\ \/ /\ args # <<>> /\ IsNumber(args[1])
        /\ LET p == Port(args[1]) IN
             p \in 1 .. MaxPort /\ Bindable(p) /\ open' = open \cup {p}
     \/ UNCHANGED open
  /\ UNCHANGED <<sess, stray, fwds, panic>>

(* Close ends the sessions, then closes the socket: what Accept returns in *)
(* between stays (Listener!CloseTerminatesAll).                            *)
ClosePort(p) ==
  /\ open' = open \ {p}
  /\ \E late \in SUBSET {c \in Conns : p \in open /\ sess[c] = "none" /\ Home[c] = p} :
       /\ sess' = [c \in Conns |-> IF c \in late THEN "live"
                                 ELSE IF p \in open /\ c \in ByPort(p) THEN "dead"
                                 ELSE sess[c]]
       /\ stray' = stray \cup late

DoClose(args) ==
  /\ IF args # <<>> /\ IsNumber(args[1]) THEN ClosePort(Port(args[1]))
     ELSE UNCHANGED <<open, sess, stray>>
  /\ UNCHANGED <<fwds, panic>>

KillTargets(listed, idx) ==
  IF idx = 0 THEN {listed[i] : i \in DOMAIN listed}
  ELSE IF TooHigh(Len(listed), idx) THEN {} ELSE {listed[idx]}

(* -f may stand anywhere among the arguments. *)
DoKill(args) ==
  /\ LET NotForce(t) == t # <<"-f">>
         rest == SelectSeq(args, NotForce)
     IN IF rest = <<>> \/ ~IsPortIdx(rest[1]) THEN UNCHANGED <<sess, panic>>
        ELSE \E listed \in Orders(ByPort(Port(rest[1]))) :
               LET idx == Index(rest[1]) IN
               CASE listed = <<>>             -> UNCHANGED <<sess, panic>>
                 [] listed # <<>> /\ Panics(Len(listed), idx)
                                              -> panic' = idx /\ UNCHANGED sess
                 [] OTHER                     -> /\ sess' = Ended(KillTargets(listed, idx))
                                                 /\ UNCHANGED panic
  /\ UNCHANGED <<open, stray, fwds>>

(* send and read: no index means the first session.  What is written and   *)
(* read is not in the tables.                                              *)
DoReach(args, needed) ==
  /\ panic' = IF /\ Len(args) >= needed /\ IsPortIdx(args[1])
                 /\ LET n == Cardinality(ByPort(Port(args[1]))) IN
                      n > 0 /\ Panics(n, Index(args[1]))
              THEN Index(args[1]) ELSE 0
  /\ UNCHANGED <<open, sess, stray, fwds>>

-----------------------------------------------------------------------------
(* Forwards and proxies share one table, keyed by the local port as typed. *)
(* Unlike `open`, these commands do not look at its range: net.Listen      *)
(* does, and takes port 0 for "any".                                       *)

Without(p) == [q \in DOMAIN fwds \ {p} |-> fwds[q]]

CloseEntry(args) ==
  fwds' = IF Len(args) > 1 /\ IsNumber(args[2]) THEN Without(Port(args[2])) ELSE fwds

OpenEntry(args, kind) ==
  \/ /\ Len(args) > 1 /\ IsNumber(args[1]) /\ IsRemote(args[2])
     /\ LET p == Port(args[1])
            log == IF kind = "proxy" /\ Len(args) > 2 THEN args[3] ELSE <<"stdout">>
        IN /\ p \in 0 .. MaxPort /\ Bindable(p)
           /\ fwds' = [q \in DOMAIN fwds \cup {p} |->
                         IF q = p THEN [kind |-> kind, log |-> log] ELSE fwds[q]]
  \/ UNCHANGED fwds

SetLog(args) ==
  \/ /\ Len(args) > 2 /\ IsNumber(args[2]) /\ Port(args[2]) \in DOMAIN fwds
     /\ fwds[Port(args[2])].kind = "proxy"
     /\ fwds' = [fwds EXCEPT ![Port(args[2])].log = args[3]]
  \/ UNCHANGED fwds

DoEntry(args, kind) ==
  /\ LET sub == IF args = <<>> THEN <<"list">> ELSE Word(args[1]) IN
       CASE sub = <<"list">>                    -> UNCHANGED fwds
         [] sub = <<"close">>                   -> CloseEntry(args)
         [] sub = <<"log">> /\ kind = "proxy"   -> SetLog(args)
         [] OTHER                               -> OpenEntry(args, kind)
  /\ UNCHANGED <<open, sess, stray, panic>>

-----------------------------------------------------------------------------
Shows == {<<v>> : v \in {"list", "info", "log", "help", "clear"}}

Dispatch(line) ==
  LET verb == Verb(line)  args == Args(line) IN
  \/ verb = <<"open">>  /\ DoOpen(args)
  \/ verb = <<"close">> /\ DoClose(args)
  \/ verb = <<"kill">>  /\ DoKill(args)
  \/ verb = <<"send">>  /\ DoReach(args, 2)
  \/ verb = <<"read">>  /\ DoReach(args, 1)
  \/ verb \in {<<"fwd">>, <<"proxy">>} /\ DoEntry(args, verb[1])
  \/ (verb \in Shows \/ verb \notin ToolVerbs) /\ UNCHANGED tables
=============================================================================
