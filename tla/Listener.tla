------------------------------ MODULE Listener ------------------------------
(***************************************************************************)
(* Listeners and the sessions they produce (internal/listener and          *)
(* internal/session/manager.go): the accept loop of every listener that    *)
(* `open` started, the watcher of every session, the bounded event channel *)
(* all of them send on, the consumer of that channel (the REPL's eventLoop *)
(* or the server's per-client forwarder), the command goroutine (open,     *)
(* close, kill) and the shutdown goroutine, both of which close listeners. *)
(*                                                                         *)
(* A session is live or dead here; how bytes reach its user, and how       *)
(* WaitDead can miss the end of a connection, is Session.tla's subject.    *)
(* Accordingly nothing here assumes that WaitDead returns.                 *)
(***************************************************************************)
EXTENDS Integers, Sequences, FiniteSets

CONSTANTS
  Ports,
  Instances,   \* identities of Listener objects: one per successful `open`
  Conns,       \* connections remote peers may make
  Cap,         \* capacity of the event channel (64 in the code)
  Server,      \* TRUE: server mode; FALSE: the REPL
  None         \* no listener, no connection

ASSUME ListenerAssumption ==
  /\ Cap \in Nat \ {0} /\ Server \in BOOLEAN /\ Ports # {}
  /\ None \notin Instances \cup Conns
  /\ "none" \notin {"cmd", "sig"}

Closers == {"cmd", "sig"}    \* goroutines that call listener.Manager.Close

VARIABLES
  listeners,  \* listener.Manager.listeners: per port, its Listener or None
  mu,         \* holder of listener.Manager.mu between two steps, or "none"
  port,       \* per Listener: its port
  sock,       \* per Listener: its net.Listener is "unborn", "open", "closed"
  ctxDone,    \* Listeners whose context is cancelled
  loop,       \* per Listener: where its accept loop is
  hand,       \* per Listener: the connection its accept loop is handling
  backlog,    \* per Listener: connections the kernel has queued for Accept
  trouble,    \* history: Listeners whose Accept failed while they were open
  conn,       \* per connection: "new", "up", "down"
  owner,      \* per connection: the Listener it was made to
  state,      \* per session: "none", "live", "dead" (Session.state)
  sessions,   \* session.Manager.sessions
  watcher,    \* per session: where its watchSession goroutine is
  events,     \* the event channel
  told,       \* history: the events consumed
  pc,         \* per closer: where it is
  arg,        \* per closer: the port it is closing
  targets,    \* per closer: sessions CloseAll has yet to close
  todo,       \* ports the shutdown has yet to close
  client,     \* the consumer: a client is connected / the REPL runs
  stale       \* an event forwarder of a previous client has not exited yet

lisVars  == <<port, sock, ctxDone, loop, hand, backlog, trouble>>
connVars == <<conn, owner, state, sessions, watcher>>
evVars   == <<events, told, client, stale>>
cmdVars  == <<pc, arg, targets, todo>>
vars == <<listeners, mu, lisVars, connVars, evVars, cmdVars>>

Event(t, i, c) == [type |-> t, lis |-> i, conn |-> c]

Init ==
  /\ listeners = [p \in Ports |-> None] /\ mu = "none"
  /\ port = [i \in Instances |-> CHOOSE p \in Ports : TRUE]
  /\ sock = [i \in Instances |-> "unborn"] /\ ctxDone = {}
  /\ loop = [i \in Instances |-> "unborn"]
  /\ hand = [i \in Instances |-> None]
  /\ backlog = [i \in Instances |-> {}] /\ trouble = {}
  /\ conn = [c \in Conns |-> "new"] /\ owner = [c \in Conns |-> None]
  /\ state = [c \in Conns |-> "none"] /\ sessions = {}
  /\ watcher = [c \in Conns |-> "unborn"]
  /\ events = <<>> /\ told = {}
  /\ pc = [k \in Closers |-> "idle"]
  /\ arg = [k \in Closers |-> CHOOSE p \in Ports : TRUE]
  /\ targets = [k \in Closers |-> {}] /\ todo = {}
  /\ client = TRUE /\ stale = FALSE

-----------------------------------------------------------------------------
(* Remote peers and the kernel. *)

PeerConnect(c, i) ==
  /\ conn[c] = "new" /\ sock[i] = "open"
  /\ conn' = [conn EXCEPT ![c] = "up"] /\ owner' = [owner EXCEPT ![c] = i]
  /\ backlog' = [backlog EXCEPT ![i] = @ \cup {c}]
  /\ UNCHANGED <<listeners, mu, port, sock, ctxDone, loop, hand, trouble, state,
                 sessions, watcher, evVars, cmdVars>>

PeerHangup(c) ==
  /\ conn[c] = "up" /\ conn' = [conn EXCEPT ![c] = "down"]
  /\ UNCHANGED <<listeners, mu, lisVars, owner, state, sessions, watcher, evVars,
                 cmdVars>>

(* The RX loop of the session notices that its connection has ended. *)
RxDead(c) ==
  /\ state[c] = "live" /\ conn[c] = "down"
  /\ state' = [state EXCEPT ![c] = "dead"]
  /\ UNCHANGED <<listeners, mu, lisVars, conn, owner, sessions, watcher, evVars,
                 cmdVars>>

-----------------------------------------------------------------------------
(* acceptLoop.  A send on the event channel waits for room. *)

Send(e) == Len(events) < Cap /\ events' = Append(events, e)

LoopAccept(i) ==
  /\ loop[i] = "accept" /\ sock[i] = "open"
  /\ \E c \in backlog[i] :
       /\ hand' = [hand EXCEPT ![i] = c]
       /\ backlog' = [backlog EXCEPT ![i] = @ \ {c}]
  /\ loop' = [loop EXCEPT ![i] = "register"]
  /\ UNCHANGED <<listeners, mu, port, sock, ctxDone, trouble, connVars, evVars,
                 cmdVars>>

LoopRegisterWatched(i) ==     \* mutant: the watcher starts before the event
  /\ loop[i] = "register"
  /\ sessions' = sessions \cup {hand[i]}
  /\ state' = [state EXCEPT ![hand[i]] = "live"]
  /\ watcher' = [watcher EXCEPT ![hand[i]] = "wait"]
  /\ loop' = [loop EXCEPT ![i] = "emitNew"]
  /\ UNCHANGED <<listeners, mu, port, sock, ctxDone, hand, backlog, trouble, conn,
                 owner, evVars, cmdVars>>

LoopRegister(i) ==
  /\ loop[i] = "register"
  /\ sessions' = sessions \cup {hand[i]}
  /\ state' = [state EXCEPT ![hand[i]] = "live"]
  /\ loop' = [loop EXCEPT ![i] = "emitNew"]
  /\ UNCHANGED <<listeners, mu, port, sock, ctxDone, hand, backlog, trouble, conn,
                 owner, watcher, evVars, cmdVars>>

LoopEmitNewOnce(i) ==         \* mutant: the loop returns after one connection
  /\ loop[i] = "emitNew" /\ Send(Event("new", i, hand[i]))
  /\ watcher' = [watcher EXCEPT ![hand[i]] = "wait"]
  /\ hand' = [hand EXCEPT ![i] = None]
  /\ loop' = [loop EXCEPT ![i] = "exited"]
  /\ UNCHANGED <<listeners, mu, port, sock, ctxDone, backlog, trouble, conn, owner,
                 state, sessions, told, client, stale, cmdVars>>

LoopEmitNew(i) ==
  /\ loop[i] = "emitNew" /\ Send(Event("new", i, hand[i]))
  /\ watcher' = [watcher EXCEPT ![hand[i]] = "wait"]
  /\ hand' = [hand EXCEPT ![i] = None]
  /\ loop' = [loop EXCEPT ![i] = "accept"]
  /\ UNCHANGED <<listeners, mu, port, sock, ctxDone, backlog, trouble, conn, owner,
                 state, sessions, told, client, stale, cmdVars>>

(* Accept fails: the socket was closed, or the process is out of           *)
(* descriptors, or a peer gave up in the queue.  The loop ends either way. *)
LoopError(i) ==
  /\ loop[i] = "accept"
  /\ trouble' = IF sock[i] = "open" THEN trouble \cup {i} ELSE trouble
  /\ loop' = [loop EXCEPT ![i] = IF i \in ctxDone THEN "emitClosed" ELSE "emitErr"]
  /\ UNCHANGED <<listeners, mu, port, sock, ctxDone, hand, backlog, connVars,
                 evVars, cmdVars>>

LoopEmitErr(i) ==
  /\ loop[i] = "emitErr" /\ Send(Event("error", i, None))
  /\ loop' = [loop EXCEPT ![i] = "emitClosed"]
  /\ UNCHANGED <<listeners, mu, port, sock, ctxDone, hand, backlog, trouble,
                 connVars, told, client, stale, cmdVars>>

LoopEmitClosed(i) ==
  /\ loop[i] = "emitClosed" /\ Send(Event("closed", i, None))
  /\ loop' = [loop EXCEPT ![i] = "exited"]
  /\ UNCHANGED <<listeners, mu, port, sock, ctxDone, hand, backlog, trouble,
                 connVars, told, client, stale, cmdVars>>

-----------------------------------------------------------------------------
(* watchSession: the first of the cancelled context and WaitDead. *)

WatchCancelled(c) ==
  /\ watcher[c] = "wait" /\ owner[c] \in ctxDone
  /\ watcher' = [watcher EXCEPT ![c] = "done"]
  /\ UNCHANGED <<listeners, mu, lisVars, conn, owner, state, sessions, evVars,
                 cmdVars>>

WatchDead(c) ==
  /\ watcher[c] = "wait" /\ state[c] = "dead"
  /\ watcher' = [watcher EXCEPT ![c] = "emit"]
  /\ UNCHANGED <<listeners, mu, lisVars, conn, owner, state, sessions, evVars,
                 cmdVars>>

WatchEmit(c) ==
  /\ watcher[c] = "emit" /\ Send(Event("dead", owner[c], c))
  /\ watcher' = [watcher EXCEPT ![c] = "done"]
  /\ UNCHANGED <<listeners, mu, lisVars, conn, owner, state, sessions, told, client,
                 stale, cmdVars>>

-----------------------------------------------------------------------------
(* The consumer.  ConnDead removes the session from the manager. *)

RemovedByAny(e) == {e.conn}       \* mutant: every event removes its session
RemovedBy(e) == IF e.type = "dead" THEN {e.conn} ELSE {}

Consume ==
  /\ client \/ stale
  /\ events # <<>>
  /\ events' = Tail(events) /\ told' = told \cup {Head(events)}
  /\ sessions' = sessions \ RemovedBy(Head(events))
  /\ UNCHANGED <<listeners, mu, lisVars, conn, owner, state, watcher, client, stale,
                 cmdVars>>

(* The client's context is the parent of every listener it opened.  Its    *)
(* forwarder may take a few more events before it sees the cancellation.   *)
ClientGone ==
  /\ Server /\ client /\ pc["cmd"] = "idle"
  /\ client' = FALSE /\ stale' = TRUE
  /\ ctxDone' = {i \in Instances : sock[i] # "unborn"}
  /\ UNCHANGED <<listeners, mu, port, sock, loop, hand, backlog, trouble, connVars,
                 events, told, cmdVars>>

ForwarderExit ==
  /\ stale /\ stale' = FALSE
  /\ UNCHANGED <<listeners, mu, lisVars, connVars, events, told, client, cmdVars>>

ClientCome ==
  /\ Server /\ ~client /\ client' = TRUE
  /\ UNCHANGED <<listeners, mu, lisVars, connVars, events, told, stale, cmdVars>>

-----------------------------------------------------------------------------
(* Commands.  In server mode they come from the connected client. *)

CmdReady == pc["cmd"] = "idle" /\ (Server => client)

Open(p, i) ==
  /\ CmdReady /\ mu = "none" /\ listeners[p] = None
  /\ sock[i] = "unborn"
  /\ \A j \in Instances : port[j] = p => sock[j] # "open"    \* else bind fails
  /\ listeners' = [listeners EXCEPT ![p] = i]
  /\ port' = [port EXCEPT ![i] = p] /\ sock' = [sock EXCEPT ![i] = "open"]
  /\ loop' = [loop EXCEPT ![i] = "accept"]
  /\ ctxDone' = IF client THEN ctxDone ELSE ctxDone \cup {i}
  /\ UNCHANGED <<mu, hand, backlog, trouble, connVars, evVars, cmdVars>>

CmdClose(p) ==
  /\ CmdReady
  /\ pc' = [pc EXCEPT !["cmd"] = "lock"] /\ arg' = [arg EXCEPT !["cmd"] = p]
  /\ UNCHANGED <<listeners, mu, lisVars, connVars, evVars, targets, todo>>

(* kill: Close the connection of a session, then Remove it.  The session   *)
(* was live when ByPort listed it and may have died since; without an      *)
(* index the command does this to each session of the port.                *)
Kill(c) ==
  /\ CmdReady /\ c \in sessions
  /\ conn' = [conn EXCEPT ![c] = "down"] /\ state' = [state EXCEPT ![c] = "dead"]
  /\ pc' = [pc EXCEPT !["cmd"] = "kill"]
  /\ targets' = [targets EXCEPT !["cmd"] = {c}]
  /\ UNCHANGED <<listeners, mu, lisVars, owner, sessions, watcher, evVars, arg,
                 todo>>

KillRemove ==
  /\ pc["cmd"] = "kill"
  /\ sessions' = sessions \ targets["cmd"]
  /\ targets' = [targets EXCEPT !["cmd"] = {}]
  /\ pc' = [pc EXCEPT !["cmd"] = "idle"]
  /\ UNCHANGED <<listeners, mu, lisVars, conn, owner, state, watcher, evVars, arg,
                 todo>>

-----------------------------------------------------------------------------
(* listener.Manager.Close, under mu: session.Manager.CloseAll, cancel the  *)
(* context, close the socket, forget the listener.                         *)

PortOf(c) == IF owner[c] = None THEN None ELSE port[owner[c]]
ByPort(p) == {c \in sessions : PortOf(c) = p /\ state[c] # "dead"}

Return(k) == IF k = "cmd" THEN "idle" ELSE "next"

CloseLockKept(k) ==           \* mutant: "not open" returns with mu locked
  /\ pc[k] = "lock" /\ mu = "none"
  /\ mu' = k
  /\ IF listeners[arg[k]] = None
     THEN pc' = [pc EXCEPT ![k] = Return(k)] /\ UNCHANGED targets
     ELSE /\ pc' = [pc EXCEPT ![k] = "sessions"]
          /\ targets' = [targets EXCEPT ![k] = ByPort(arg[k])]
  /\ UNCHANGED <<listeners, lisVars, connVars, evVars, arg, todo>>

CloseLockUnchecked(k) ==      \* mutant: "not open" is not checked
  /\ pc[k] = "lock" /\ mu = "none" /\ mu' = k
  /\ pc' = [pc EXCEPT ![k] = "sessions"]
  /\ targets' = [targets EXCEPT ![k] = ByPort(arg[k])]
  /\ UNCHANGED <<listeners, lisVars, connVars, evVars, arg, todo>>

CloseLock(k) ==
  /\ pc[k] = "lock" /\ mu = "none"
  /\ IF listeners[arg[k]] = None
     THEN pc' = [pc EXCEPT ![k] = Return(k)] /\ UNCHANGED <<mu, targets>>
     ELSE /\ pc' = [pc EXCEPT ![k] = "sessions"] /\ mu' = k
          /\ targets' = [targets EXCEPT ![k] = ByPort(arg[k])]
  /\ UNCHANGED <<listeners, lisVars, connVars, evVars, arg, todo>>

CloseSession(k) ==
  /\ pc[k] = "sessions"
  /\ \E c \in targets[k] :
       /\ conn' = [conn EXCEPT ![c] = "down"]
       /\ state' = [state EXCEPT ![c] = "dead"]
       /\ targets' = [targets EXCEPT ![k] = @ \ {c}]
  /\ UNCHANGED <<listeners, mu, lisVars, owner, sessions, watcher, evVars, pc, arg,
                 todo>>

CloseCancelNot(k) ==          \* mutant: the context is not cancelled
  /\ pc[k] = "sessions" /\ targets[k] = {}
  /\ pc' = [pc EXCEPT ![k] = "socket"]
  /\ UNCHANGED <<listeners, mu, lisVars, connVars, evVars, arg, targets, todo>>

CloseCancelFirst(k) ==        \* mutant: sessions are left to their watchers
  /\ pc[k] = "sessions"
  /\ ctxDone' = ctxDone \cup {listeners[arg[k]]}
  /\ targets' = [targets EXCEPT ![k] = {}]
  /\ pc' = [pc EXCEPT ![k] = "socket"]
  /\ UNCHANGED <<listeners, mu, port, sock, loop, hand, backlog, trouble, connVars,
                 evVars, arg, todo>>

CloseCancel(k) ==
  /\ pc[k] = "sessions" /\ targets[k] = {}
  /\ ctxDone' = ctxDone \cup {listeners[arg[k]]}
  /\ pc' = [pc EXCEPT ![k] = "socket"]
  /\ UNCHANGED <<listeners, mu, port, sock, loop, hand, backlog, trouble, connVars,
                 evVars, arg, targets, todo>>

CloseSocketNot(k) ==          \* mutant: the socket is left open
  /\ pc[k] = "socket" /\ pc' = [pc EXCEPT ![k] = "delete"]
  /\ UNCHANGED <<listeners, mu, lisVars, connVars, evVars, arg, targets, todo>>

(* The kernel resets what was still queued. *)
CloseSocket(k) ==
  /\ pc[k] = "socket"
  /\ LET i == listeners[arg[k]] IN
       /\ sock' = [sock EXCEPT ![i] = "closed"]
       /\ conn' = [c \in Conns |-> IF c \in backlog[i] THEN "down" ELSE conn[c]]
       /\ backlog' = [backlog EXCEPT ![i] = {}]
  /\ pc' = [pc EXCEPT ![k] = "delete"]
  /\ UNCHANGED <<listeners, mu, port, ctxDone, loop, hand, trouble, owner, state,
                 sessions, watcher, evVars, arg, targets, todo>>

CloseDelete(k) ==
  /\ pc[k] = "delete"
  /\ listeners' = [listeners EXCEPT ![arg[k]] = None] /\ mu' = "none"
  /\ pc' = [pc EXCEPT ![k] = Return(k)]
  /\ UNCHANGED <<lisVars, connVars, evVars, arg, targets, todo>>

-----------------------------------------------------------------------------
(* Shutdown (SIGTERM, SIGINT in server mode, `exit` in the REPL): CloseAll, *)
(* then the process exits.  The REPL cancels its context first.  SIGTERM   *)
(* is handled by the consumer, which consumes no more, `exit` by the       *)
(* command goroutine, while the consumer may take a few more events.       *)

Shutdown ==
  /\ pc["sig"] = "idle"
  /\ IF Server
     THEN /\ pc' = [pc EXCEPT !["sig"] = "ports"]
          /\ UNCHANGED <<client, stale, ctxDone>>
     ELSE /\ client' = FALSE /\ ctxDone' = {i \in Instances : sock[i] # "unborn"}
          /\ \/ pc' = [pc EXCEPT !["sig"] = "ports"] /\ UNCHANGED stale
             \/ /\ pc["cmd"] = "idle" /\ stale' = TRUE
                /\ pc' = [pc EXCEPT !["sig"] = "ports", !["cmd"] = "exit"]
  /\ UNCHANGED <<listeners, mu, port, sock, loop, hand, backlog, trouble, connVars,
                 events, told, arg, targets, todo>>

ShutdownPorts ==
  /\ pc["sig"] = "ports" /\ mu = "none"
  /\ pc' = [pc EXCEPT !["sig"] = "next"]
  /\ todo' = {p \in Ports : listeners[p] # None}
  /\ UNCHANGED <<listeners, mu, lisVars, connVars, evVars, arg, targets>>

ShutdownNext ==
  /\ pc["sig"] = "next"
  /\ \E p \in todo : todo' = todo \ {p} /\ arg' = [arg EXCEPT !["sig"] = p]
  /\ pc' = [pc EXCEPT !["sig"] = "lock"]
  /\ UNCHANGED <<listeners, mu, lisVars, connVars, evVars, targets>>

Exit ==
  /\ pc["sig"] = "next" /\ todo = {}
  /\ pc' = [pc EXCEPT !["sig"] = "exit"]
  /\ UNCHANGED <<listeners, mu, lisVars, connVars, evVars, arg, targets, todo>>

-----------------------------------------------------------------------------
Running == pc["sig"] # "exit"

Peers    == \E c \in Conns : PeerHangup(c) \/ \E i \in Instances : PeerConnect(c, i)
Loop(i)  == \/ LoopAccept(i) \/ LoopRegister(i) \/ LoopEmitNew(i)
            \/ LoopError(i) \/ LoopEmitErr(i) \/ LoopEmitClosed(i)
Sess(c)  == RxDead(c) \/ WatchCancelled(c) \/ WatchDead(c) \/ WatchEmit(c)
Consumer == Consume \/ ClientGone \/ ForwarderExit \/ ClientCome
Commands == \/ \E p \in Ports : CmdClose(p) \/ \E i \in Instances : Open(p, i)
            \/ \E c \in Conns : Kill(c)
            \/ KillRemove
Closing(k) == \/ CloseLock(k) \/ CloseSession(k) \/ CloseCancel(k)
              \/ CloseSocket(k) \/ CloseDelete(k)
Stopping == Shutdown \/ ShutdownPorts \/ ShutdownNext \/ Exit

Next ==
  /\ Running
  /\ \/ Peers \/ Consumer \/ Commands \/ Stopping
     \/ \E i \in Instances : Loop(i)
     \/ \E c \in Conns : Sess(c)
     \/ \E k \in Closers : Closing(k)

Spec == Init /\ [][Next]_vars

(* Every goroutine runs; a channel send or a lock that keeps becoming      *)
(* possible succeeds in the end (Go queues senders and lockers).  Peers,   *)
(* commands, Accept errors and WaitDead owe nothing.                       *)
Fairness ==
  /\ \A i \in Instances :
       /\ WF_vars(Running /\ (LoopAccept(i) \/ LoopRegister(i)))
       /\ SF_vars(Running /\ LoopEmitNew(i))
  /\ WF_vars(Running /\ Consume) /\ WF_vars(Running /\ KillRemove)
  /\ SF_vars(Running /\ ShutdownPorts) /\ WF_vars(Running /\ (ShutdownNext \/ Exit))
  /\ \A k \in Closers :
       /\ SF_vars(Running /\ CloseLock(k))
       /\ WF_vars(/\ Running
                  /\ \/ CloseSession(k) \/ CloseCancel(k)
                     \/ CloseSocket(k) \/ CloseDelete(k))

FairSpec == Spec /\ Fairness

-----------------------------------------------------------------------------
(* Every variable has its type.                                            *)
TypeOK ==
  /\ listeners \in [Ports -> Instances \cup {None}]
  /\ mu \in Closers \cup {"none"}
  /\ port \in [Instances -> Ports]
  /\ sock \in [Instances -> {"unborn", "open", "closed"}]
  /\ ctxDone \subseteq Instances /\ trouble \subseteq Instances
  /\ loop \in [Instances -> {"unborn", "accept", "register", "emitNew", "emitErr",
                             "emitClosed", "exited"}]
  /\ hand \in [Instances -> Conns \cup {None}]
  /\ backlog \in [Instances -> SUBSET Conns]
  /\ conn \in [Conns -> {"new", "up", "down"}]
  /\ owner \in [Conns -> Instances \cup {None}]
  /\ state \in [Conns -> {"none", "live", "dead"}]
  /\ sessions \subseteq Conns
  /\ watcher \in [Conns -> {"unborn", "wait", "emit", "done"}]
  /\ Len(events) <= Cap
  /\ pc \in [Closers -> {"idle", "lock", "sessions", "socket", "delete", "kill",
                         "ports", "next", "exit"}]
  /\ arg \in [Closers -> Ports]
  /\ targets \in [Closers -> SUBSET Conns] /\ todo \subseteq Ports
  /\ client \in BOOLEAN /\ stale \in BOOLEAN

(* The user hears of a session before hearing that it disconnected, and    *)
(* of each at most once: acceptLoop sends NewConn before it starts the     *)
(* watcher, although the session can die, be killed or be closed at once.  *)
Announced(e) == [e EXCEPT !.type = "new"]
EventOrder ==
  /\ \A e \in told : e.type = "dead" => Announced(e) \in told
  /\ \A n \in DOMAIN events :
       LET e == events[n]
           before == told \cup {events[m] : m \in 1 .. n - 1}
       IN  /\ e.type = "dead" => Announced(e) \in before
           /\ e.type \in {"new", "dead"} => e \notin before

(* `close` and a shutdown are quiet: a listener reports an error only if   *)
(* its Accept failed while its socket was open, because Close cancels the  *)
(* context before it closes the socket.                                    *)
CloseIsQuiet ==
  /\ \A i \in Instances : loop[i] = "emitErr" => i \in trouble
  /\ \A e \in told : e.type = "error" => e.lis \in trouble

(* listeners and the sockets agree: an open socket is reachable through    *)
(* the map, and the map holds no closed listener except the one that the   *)
(* holder of mu is about to delete.                                        *)
SocketsMapped ==
  \A i \in Instances :
    /\ sock[i] = "open" => listeners[port[i]] = i
    /\ sock[i] = "closed" /\ listeners[port[i]] = i
         => \E k \in Closers : mu = k /\ arg[k] = port[i] /\ pc[k] = "delete"

(* No established connection is out of reach of every command: from Accept *)
(* until it is down it is in the accept loop's hand or in the manager, in  *)
(* whatever order kill, close, ConnDead and the RX loop interleave.        *)
NoneOutOfReach ==
  \A c \in Conns :
    conn[c] = "up" =>
      \/ c \in sessions
      \/ \E i \in Instances : c \in backlog[i] \/ hand[i] = c

(* Close takes several steps, among which loops accept and register,       *)
(* sessions end and are killed.  It keeps what Reception promises: when    *)
(* the socket closes, every session of the port has ended, but those that  *)
(* came in since CloseAll listed them.  Such a session is late until the   *)
(* socket is closed, loose afterwards, also while its accept loop has its  *)
(* connection in hand.                                                     *)
Owned(c, s) == owner[c] # None /\ sock[owner[c]] = s
Late(c) ==
  \E k \in Closers : /\ pc[k] \in {"sessions", "socket"}
                    /\ owner[c] = listeners[arg[k]] /\ c \notin targets[k]
Opened == {port[i] : i \in {j \in Instances : sock[j] = "open"}}
LiveOn == [p \in Ports |->
  {c \in Conns : /\ state[c] = "live" /\ ~Late(c)
                 /\ Owned(c, "open") /\ port[owner[c]] = p}]
Loose == {c \in Conns : /\ Owned(c, "closed")
                        /\ \/ state[c] = "live"
                           \/ state[c] = "none" /\ hand[owner[c]] = c}
Ended == {c \in Conns : state[c] = "dead"}
Manager == INSTANCE Reception WITH open <- Opened, live <- LiveOn,
                                   loose <- Loose, ended <- Ended
PortsCloseEmpty == Manager!ReceptionSpec

(* A queued connection is accepted, however full the event channel was, as *)
(* long as somebody consumes events, unless the accept loop failed.        *)
QueuedAccepted ==
  \A c \in Conns, i \in Instances :
    c \in backlog[i] ~> c \notin backlog[i] \/ i \in trouble \/ ~client

(* `close` and a shutdown return although accept loops and watchers may    *)
(* be blocked on a full event channel: nothing that holds mu sends events. *)
CloseReturns ==
  /\ pc["cmd"] = "lock" ~> pc["cmd"] = "idle" \/ ~Running
  /\ pc["sig"] = "ports" ~> ~Running

(* listener/manager.go: "Close stops a listener and terminates all its     *)
(* sessions": once a listener is closed and forgotten, none of its         *)
(* connections is still up.                                                *)
CloseTerminatesAll ==
  \A c \in Conns :
    conn[c] = "up" => LET i == owner[c] IN
                       sock[i] = "closed" => listeners[port[i]] = i

(* listener.go: "EventError // non-fatal listener error": a listener that  *)
(* has reported an error still accepts.                                    *)
ErrorIsNotFatal ==
  \A i \in Instances : loop[i] = "exited" => sock[i] = "closed"

(* server.go: "Listener events (new connections, disconnections) are       *)
(* pushed", "State ... is preserved across client disconnects": a live     *)
(* session of an open listener that has been announced is watched.         *)
LiveIsWatched ==
  \A c \in sessions :
    state[c] = "live" /\ client /\ ~stale /\ mu = "none"
      /\ sock[owner[c]] = "open" => watcher[c] # "done"

(* README: "Active TCP connections are never dropped by a signal": no step *)
(* of a shutdown takes a connection down.                                  *)
SignalSparesAll ==
  [][Closing("sig") => \A c \in Conns : conn[c] = "up" => conn'[c] = "up"]_vars
=============================================================================
