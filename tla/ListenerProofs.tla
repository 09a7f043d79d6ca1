--------------------------- MODULE ListenerProofs ---------------------------
(***************************************************************************)
(* Listener.tla, proved for any sets of ports, listeners and connections,  *)
(* any capacity of the event channel and either mode.                      *)
(***************************************************************************)
EXTENDS Listener, SequenceTheorems, TLAPS

Events == [type : {"new", "dead", "error", "closed"}, lis : Instances \cup {None},
           conn : Conns \cup {None}]

(* What was sent on the event channel, in whatever order.                  *)
Log == told \cup {events[n] : n \in DOMAIN events}

TInv == TypeOK /\ events \in Seq(Events) /\ told \subseteq Events

(* mu is held by the closer that is between CloseLock and CloseDelete, and *)
(* the listener it closes is the one its port is mapped to.                *)
LockInv ==
  \A k \in Closers :
    /\ mu = k <=> pc[k] \in {"sessions", "socket", "delete"}
    /\ mu = k => listeners[arg[k]] # None
    /\ pc[k] = "delete" => sock[listeners[arg[k]]] = "closed"

MapInv ==
  /\ \A p \in Ports :
       listeners[p] # None => /\ port[listeners[p]] = p
                              /\ sock[listeners[p]] # "unborn"
  /\ SocketsMapped

(* A context is cancelled before its socket is closed.                     *)
QuietInv ==
  /\ \A i \in Instances : sock[i] = "closed" => i \in ctxDone
  /\ \A k \in Closers : pc[k] = "socket" => listeners[arg[k]] \in ctxDone
  /\ \A i \in Instances : sock[i] = "unborn" => loop[i] = "unborn"
  /\ \A i \in Instances : loop[i] = "emitErr" => i \in trouble

(* From the kernel's queue to its announcement a connection is in one      *)
(* place, and it has no watcher yet.                                       *)
Waits(c, i) == conn[c] # "new" /\ owner[c] = i /\ watcher[c] = "unborn"
PlaceInv ==
  /\ \A i \in Instances : loop[i] \in {"register", "emitNew"} <=> hand[i] # None
  /\ \A i \in Instances : \A c \in backlog[i] : Waits(c, i) /\ hand[i] # c
  /\ \A i \in Instances : hand[i] # None => Waits(hand[i], i)
  /\ \A c \in Conns : conn[c] = "new" => watcher[c] = "unborn"

(* The events sent: errors, and those of a connection by its watcher.      *)
LogInv ==
  /\ \A e \in Log : e.type = "error" => e.lis \in trouble
  /\ \A e \in Log : e.type = "new" => e.conn \in Conns /\ watcher[e.conn] # "unborn"
  /\ \A e \in Log : e.type = "dead" => e.conn \in Conns /\ watcher[e.conn] = "done"
  /\ \A c \in Conns : watcher[c] # "unborn" => Event("new", owner[c], c) \in Log

(* Who ends a session, or lets go of it, does so after its connection.     *)
Down ==
  /\ \A c \in Conns : state[c] = "dead" \/ watcher[c] = "emit" => conn[c] = "down"
  /\ pc["cmd"] = "kill" => \A c \in targets["cmd"] : conn[c] = "down"
  /\ \A i \in Instances :
       loop[i] = "emitNew" /\ conn[hand[i]] = "up" => hand[i] \in sessions
DownInv == Down /\ \A e \in Log : e.type = "dead" => conn[e.conn] = "down"

LEMMA EventIn ==
  ASSUME NEW t \in {"new", "dead", "error", "closed"},
         NEW i \in Instances \cup {None}, NEW c \in Conns \cup {None}
  PROVE  Event(t, i, c) \in Events
BY DEF Event, Events

(* A send extends the channel and keeps within its capacity.               *)
LEMMA SendKeeps ==
  ASSUME events \in Seq(Events), NEW e \in Events, Send(e)
  PROVE  events' \in Seq(Events) /\ Len(events') <= Cap
BY ListenerAssumption DEF Send

LEMMA TypeInit == Init => TInv
<1> SUFFICES ASSUME Init PROVE TInv
  OBVIOUS
<1>1. (CHOOSE p \in Ports : TRUE) \in Ports
  BY ListenerAssumption
<1>2. events \in Seq(Events) /\ Len(events) <= Cap
  BY ListenerAssumption DEF Init
<1> QED
  BY <1>1, <1>2 DEF Init, TInv, TypeOK, Closers

LEMMA TypeStep == TInv /\ LockInv /\ PlaceInv /\ [Next]_vars => TInv'
<1> SUFFICES ASSUME TInv, LockInv, PlaceInv, [Next]_vars PROVE TInv'
  OBVIOUS
<1> USE ListenerAssumption DEF TInv, TypeOK, Closers
<1>1. ASSUME NEW c \in Conns, NEW i \in Instances, PeerConnect(c, i) PROVE TInv'
  BY <1>1 DEF PeerConnect, evVars, cmdVars
<1>2. ASSUME NEW c \in Conns, PeerHangup(c) PROVE TInv'
  BY <1>2 DEF PeerHangup, lisVars, evVars, cmdVars
<1>3. ASSUME NEW c \in Conns, RxDead(c) PROVE TInv'
  BY <1>3 DEF RxDead, lisVars, evVars, cmdVars
<1>4. ASSUME NEW i \in Instances, LoopAccept(i) PROVE TInv'
  BY <1>4 DEF LoopAccept, connVars, evVars, cmdVars
<1>5. ASSUME NEW i \in Instances, LoopRegister(i) PROVE TInv'
  BY <1>5 DEF LoopRegister, PlaceInv, evVars, cmdVars
<1>6. ASSUME NEW i \in Instances, LoopEmitNew(i) PROVE TInv'
  BY <1>6, EventIn, SendKeeps DEF LoopEmitNew, cmdVars
<1>7. ASSUME NEW i \in Instances, LoopError(i) PROVE TInv'
  BY <1>7 DEF LoopError, connVars, evVars, cmdVars
<1>8. ASSUME NEW i \in Instances, LoopEmitErr(i) PROVE TInv'
  BY <1>8, EventIn, SendKeeps DEF LoopEmitErr, connVars, cmdVars
<1>9. ASSUME NEW i \in Instances, LoopEmitClosed(i) PROVE TInv'
  BY <1>9, EventIn, SendKeeps DEF LoopEmitClosed, connVars, cmdVars
<1>10. ASSUME NEW c \in Conns, WatchCancelled(c) PROVE TInv'
  BY <1>10 DEF WatchCancelled, lisVars, evVars, cmdVars
<1>11. ASSUME NEW c \in Conns, WatchDead(c) PROVE TInv'
  BY <1>11 DEF WatchDead, lisVars, evVars, cmdVars
<1>12. ASSUME NEW c \in Conns, WatchEmit(c) PROVE TInv'
  BY <1>12, EventIn, SendKeeps DEF WatchEmit, lisVars, cmdVars
<1>13. CASE Consume
  <2>1. /\ events' \in Seq(Events) /\ Len(events') <= Cap
        /\ Head(events) \in Events
    BY <1>13 DEF Consume
  <2> QED BY <1>13, <2>1 DEF Consume, lisVars, cmdVars
<1>14. CASE ClientGone
  BY <1>14 DEF ClientGone, connVars, cmdVars
<1>15. CASE ForwarderExit
  BY <1>15 DEF ForwarderExit, lisVars, connVars, cmdVars
<1>16. CASE ClientCome
  BY <1>16 DEF ClientCome, lisVars, connVars, cmdVars
<1>17. ASSUME NEW p \in Ports, NEW i \in Instances, Open(p, i) PROVE TInv'
  BY <1>17 DEF Open, connVars, evVars, cmdVars
<1>18. ASSUME NEW p \in Ports, CmdClose(p) PROVE TInv'
  BY <1>18 DEF CmdClose, lisVars, connVars, evVars
<1>19. ASSUME NEW c \in Conns, Kill(c) PROVE TInv'
  BY <1>19 DEF Kill, lisVars, evVars
<1>20. CASE KillRemove
  BY <1>20 DEF KillRemove, lisVars, evVars
<1>21. ASSUME NEW k \in Closers, CloseLock(k) PROVE TInv'
  BY <1>21 DEF CloseLock, Return, ByPort, lisVars, connVars, evVars
<1>22. ASSUME NEW k \in Closers, CloseSession(k) PROVE TInv'
  BY <1>22 DEF CloseSession, lisVars, evVars
<1>23. ASSUME NEW k \in Closers, CloseCancel(k) PROVE TInv'
  BY <1>23 DEF CloseCancel, LockInv, connVars, evVars
<1>24. ASSUME NEW k \in Closers, CloseSocket(k) PROVE TInv'
  BY <1>24 DEF CloseSocket, evVars
<1>25. ASSUME NEW k \in Closers, CloseDelete(k) PROVE TInv'
  BY <1>25 DEF CloseDelete, Return, lisVars, connVars, evVars
<1>26. CASE Shutdown
  <2>1. CASE Server
    BY <1>26, <2>1 DEF Shutdown, connVars
  <2>2. CASE ~Server
    <3>1. pc' \in [Closers -> {"idle", "lock", "sessions", "socket", "delete",
                              "kill", "ports", "next", "exit"}]
      BY <1>26, <2>2 DEF Shutdown
    <3>2. ctxDone' \subseteq Instances /\ client' \in BOOLEAN /\ stale' \in BOOLEAN
      BY <1>26, <2>2 DEF Shutdown
    <3> QED BY <1>26, <3>1, <3>2 DEF Shutdown, connVars
  <2> QED BY <2>1, <2>2
<1>27. CASE ShutdownPorts
  BY <1>27 DEF ShutdownPorts, lisVars, connVars, evVars
<1>28. CASE ShutdownNext
  BY <1>28 DEF ShutdownNext, lisVars, connVars, evVars
<1>29. CASE Exit
  BY <1>29 DEF Exit, lisVars, connVars, evVars
<1>30. CASE UNCHANGED vars
  BY <1>30 DEF vars, lisVars, connVars, evVars, cmdVars
<1> QED
  BY <1>1, <1>2, <1>3, <1>4, <1>5, <1>6, <1>7, <1>8, <1>9, <1>10, <1>11, <1>12,
     <1>13, <1>14, <1>15, <1>16, <1>17, <1>18, <1>19, <1>20, <1>21, <1>22, <1>23,
     <1>24, <1>25, <1>26, <1>27, <1>28, <1>29, <1>30
  DEF Next, Peers, Loop, Sess, Consumer, Commands, Closing, Stopping
-----------------------------------------------------------------------------
(* The manager's mutex, its map and the sockets.                           *)

mgrVars == <<listeners, mu, port, sock, pc, arg>>

(* Peers, accept loops, watchers and consumers leave the manager alone.    *)
LEMMA ManagerAlone ==
  ASSUME [Next]_vars
  PROVE  UNCHANGED mgrVars \/ Commands \/ Stopping \/ \E k \in Closers : Closing(k)
<1> USE DEF mgrVars, lisVars, connVars, evVars, cmdVars
<1>1. ASSUME NEW c \in Conns, NEW i \in Instances, PeerConnect(c, i)
      PROVE UNCHANGED mgrVars
  BY <1>1 DEF PeerConnect
<1>2. ASSUME NEW c \in Conns, PeerHangup(c) PROVE UNCHANGED mgrVars
  BY <1>2 DEF PeerHangup
<1>3. ASSUME NEW i \in Instances, Loop(i) PROVE UNCHANGED mgrVars
  BY <1>3 DEF Loop, LoopAccept, LoopRegister, LoopEmitNew, LoopError, LoopEmitErr,
              LoopEmitClosed
<1>4. ASSUME NEW c \in Conns, Sess(c) PROVE UNCHANGED mgrVars
  BY <1>4 DEF Sess, RxDead, WatchCancelled, WatchDead, WatchEmit
<1>5. CASE Consumer
  BY <1>5 DEF Consumer, Consume, ClientGone, ForwarderExit, ClientCome
<1>6. CASE UNCHANGED vars
  BY <1>6 DEF vars
<1> QED
  BY <1>1, <1>2, <1>3, <1>4, <1>5, <1>6 DEF Next, Peers

LEMMA LockInit == Init => LockInv /\ MapInv
BY DEF Init, LockInv, MapInv, SocketsMapped, Closers

LEMMA LockStep == TInv /\ LockInv /\ [Next]_vars => LockInv'
<1> SUFFICES ASSUME TInv, LockInv, [Next]_vars PROVE LockInv'
  OBVIOUS
<1> USE ListenerAssumption DEF TInv, TypeOK, LockInv, Closers
<1>1. CASE UNCHANGED mgrVars
  BY <1>1 DEF mgrVars
<1>2. ASSUME NEW p \in Ports, NEW i \in Instances, Open(p, i) PROVE LockInv'
  BY <1>2 DEF Open, cmdVars
<1>3. ASSUME NEW p \in Ports, CmdClose(p) PROVE LockInv'
  BY <1>3 DEF CmdClose, CmdReady, lisVars
<1>4. ASSUME NEW c \in Conns, Kill(c) PROVE LockInv'
  BY <1>4 DEF Kill, CmdReady, lisVars
<1>5. CASE KillRemove
  BY <1>5 DEF KillRemove, lisVars
<1>6. ASSUME NEW k \in Closers, CloseLock(k) PROVE LockInv'
  BY <1>6 DEF CloseLock, Return, lisVars
<1>7. ASSUME NEW k \in Closers, CloseSession(k) PROVE LockInv'
  BY <1>7 DEF CloseSession, lisVars
<1>8. ASSUME NEW k \in Closers, CloseCancel(k) PROVE LockInv'
  BY <1>8 DEF CloseCancel
<1>9. ASSUME NEW k \in Closers, CloseSocket(k) PROVE LockInv'
  BY <1>9 DEF CloseSocket
<1>10. ASSUME NEW k \in Closers, CloseDelete(k) PROVE LockInv'
  BY <1>10 DEF CloseDelete, Return, lisVars
<1>11. CASE Shutdown
  BY <1>11 DEF Shutdown
<1>12. CASE ShutdownPorts
  BY <1>12 DEF ShutdownPorts, lisVars
<1>13. CASE ShutdownNext
  BY <1>13 DEF ShutdownNext, lisVars
<1>14. CASE Exit
  BY <1>14 DEF Exit, lisVars
<1> QED
  BY <1>1, <1>2, <1>3, <1>4, <1>5, <1>6, <1>7, <1>8, <1>9, <1>10, <1>11, <1>12,
     <1>13, <1>14, ManagerAlone
  DEF Commands, Closing, Stopping

LEMMA MapStep == TInv /\ LockInv /\ MapInv /\ [Next]_vars => MapInv'
<1> SUFFICES ASSUME TInv, LockInv, MapInv, [Next]_vars PROVE MapInv'
  OBVIOUS
<1> USE ListenerAssumption DEF TInv, TypeOK, LockInv, MapInv, SocketsMapped, Closers
<1>1. CASE UNCHANGED mgrVars
  BY <1>1 DEF mgrVars
<1>2. ASSUME NEW p \in Ports, NEW i \in Instances, Open(p, i) PROVE MapInv'
  BY <1>2 DEF Open, cmdVars
<1>3. ASSUME NEW p \in Ports, CmdClose(p) PROVE MapInv'
  BY <1>3 DEF CmdClose, CmdReady, lisVars
<1>4. ASSUME NEW c \in Conns, Kill(c) PROVE MapInv'
  BY <1>4 DEF Kill, CmdReady, lisVars
<1>5. CASE KillRemove
  BY <1>5 DEF KillRemove, lisVars
<1>6. ASSUME NEW k \in Closers, CloseLock(k) PROVE MapInv'
  BY <1>6 DEF CloseLock, lisVars
<1>7. ASSUME NEW k \in Closers, CloseSession(k) PROVE MapInv'
  BY <1>7 DEF CloseSession, lisVars
<1>8. ASSUME NEW k \in Closers, CloseCancel(k) PROVE MapInv'
  BY <1>8 DEF CloseCancel
<1>9. ASSUME NEW k \in Closers, CloseSocket(k) PROVE MapInv'
  BY <1>9 DEF CloseSocket
<1>10. ASSUME NEW k \in Closers, CloseDelete(k) PROVE MapInv'
  BY <1>10 DEF CloseDelete, lisVars
<1>11. CASE Shutdown
  BY <1>11 DEF Shutdown
<1>12. CASE ShutdownPorts
  BY <1>12 DEF ShutdownPorts, lisVars
<1>13. CASE ShutdownNext
  BY <1>13 DEF ShutdownNext, lisVars
<1>14. CASE Exit
  BY <1>14 DEF Exit, lisVars
<1> QED
  BY <1>1, <1>2, <1>3, <1>4, <1>5, <1>6, <1>7, <1>8, <1>9, <1>10, <1>11, <1>12,
     <1>13, <1>14, ManagerAlone
  DEF Commands, Closing, Stopping
-----------------------------------------------------------------------------
(* What has been sent on the event channel.                                *)

LEMMA LogSent ==
  ASSUME TInv, NEW e, Send(e), told' = told
  PROVE  Log' = Log \cup {e}
<1>1. events' = Append(events, e) /\ events \in Seq(Events)
  BY DEF Send, TInv
<1>2. /\ DOMAIN events' = DOMAIN events \cup {Len(events) + 1}
      /\ \A n \in DOMAIN events : events'[n] = events[n]
      /\ events'[Len(events) + 1] = e
  BY <1>1
<1> QED BY <1>2 DEF Log

LEMMA LogConsumed ==
  ASSUME TInv, Consume
  PROVE  Log' = Log
<1>1. /\ events \in Seq(Events) /\ events # <<>> /\ events' = Tail(events)
      /\ told' = told \cup {events[1]}
  BY DEF TInv, Consume
<1>2. /\ DOMAIN events = 1 .. Len(events) /\ DOMAIN events' = 1 .. Len(events) - 1
      /\ Len(events) \in Nat \ {0}
      /\ \A n \in 1 .. Len(events) - 1 : events'[n] = events[n + 1]
  BY <1>1
<1>3. \A n \in DOMAIN events : n = 1 \/ n - 1 \in DOMAIN events'
  BY <1>2
<1>4. \A n \in DOMAIN events' : n + 1 \in DOMAIN events
  BY <1>2
<1>5. Log' \subseteq Log
  BY <1>1, <1>2, <1>4 DEF Log
<1>6. Log \subseteq Log'
  <2>1. ASSUME NEW n \in DOMAIN events PROVE events[n] \in Log'
    <3>1. CASE n = 1
      BY <3>1, <1>1 DEF Log
    <3>2. CASE n # 1
      <4>1. n - 1 \in DOMAIN events' /\ events'[n - 1] = events[n]
        BY <3>2, <1>2
      <4> QED BY <4>1 DEF Log
    <3> QED BY <3>1, <3>2
  <2> QED BY <2>1, <1>1 DEF Log
<1> QED BY <1>5, <1>6

(* Only these steps send or consume.                                       *)
LEMMA LogAlone ==
  ASSUME TInv, [Next]_vars
  PROVE  \/ Log' = Log
         \/ \E i \in Instances : LoopEmitNew(i) \/ LoopEmitErr(i) \/ LoopEmitClosed(i)
         \/ \E c \in Conns : WatchEmit(c)
<1> USE DEF evVars
<1>1. CASE UNCHANGED evVars
  BY <1>1 DEF Log
<1>2. CASE Peers
  BY <1>1, <1>2 DEF Peers, PeerConnect, PeerHangup
<1>3. CASE Consumer
  BY <1>3, LogConsumed DEF Consumer, ClientGone, ForwarderExit, ClientCome, Log
<1>4. CASE Commands
  BY <1>1, <1>4 DEF Commands, CmdClose, Open, Kill, KillRemove
<1>5. CASE Stopping
  BY <1>5 DEF Stopping, Shutdown, ShutdownPorts, ShutdownNext, Exit, Log
<1>6. ASSUME NEW i \in Instances, LoopAccept(i) \/ LoopRegister(i) \/ LoopError(i)
      PROVE UNCHANGED evVars
  BY <1>6 DEF LoopAccept, LoopRegister, LoopError
<1>7. ASSUME NEW c \in Conns, RxDead(c) \/ WatchCancelled(c) \/ WatchDead(c)
      PROVE UNCHANGED evVars
  BY <1>7 DEF RxDead, WatchCancelled, WatchDead
<1>8. ASSUME NEW k \in Closers, Closing(k) PROVE UNCHANGED evVars
  BY <1>8 DEF Closing, CloseLock, CloseSession, CloseCancel, CloseSocket,
              CloseDelete
<1>9. CASE UNCHANGED vars
  BY <1>1, <1>9 DEF vars
<1> QED
  BY <1>1, <1>2, <1>3, <1>4, <1>5, <1>6, <1>7, <1>8, <1>9 DEF Next, Loop, Sess

-----------------------------------------------------------------------------
(* Quiet closing.                                                          *)

LEMMA QuietInit == Init => QuietInv
BY DEF Init, QuietInv, Closers

LEMMA QuietStep ==
  TInv /\ LockInv /\ MapInv /\ QuietInv /\ [Next]_vars => QuietInv'
<1> SUFFICES ASSUME TInv, LockInv, MapInv, QuietInv, [Next]_vars PROVE QuietInv'
  OBVIOUS
<1> USE ListenerAssumption DEF TInv, TypeOK, LockInv, MapInv, QuietInv, Closers
<1>1. CASE Peers
  BY <1>1 DEF Peers, PeerConnect, PeerHangup, lisVars, cmdVars
<1>2. ASSUME NEW i \in Instances, LoopAccept(i) \/ LoopRegister(i) PROVE QuietInv'
  BY <1>2 DEF LoopAccept, LoopRegister, cmdVars
<1>3. ASSUME NEW i \in Instances, LoopEmitNew(i) PROVE QuietInv'
  BY <1>3 DEF LoopEmitNew, cmdVars
<1>4. ASSUME NEW i \in Instances, LoopError(i) PROVE QuietInv'
  BY <1>4 DEF LoopError, cmdVars
<1>5. ASSUME NEW i \in Instances, LoopEmitErr(i) \/ LoopEmitClosed(i)
      PROVE QuietInv'
  BY <1>5 DEF LoopEmitErr, LoopEmitClosed, cmdVars
<1>6. ASSUME NEW c \in Conns, Sess(c) PROVE QuietInv'
  BY <1>6 DEF Sess, RxDead, WatchCancelled, WatchDead, WatchEmit, lisVars, cmdVars
<1>7. CASE Consume \/ ForwarderExit \/ ClientCome
  BY <1>7 DEF Consume, ForwarderExit, ClientCome, lisVars, cmdVars
<1>8. CASE ClientGone
  BY <1>8 DEF ClientGone, cmdVars
<1>9. ASSUME NEW p \in Ports, NEW i \in Instances, Open(p, i) PROVE QuietInv'
  BY <1>9 DEF Open, cmdVars
<1>10. ASSUME NEW p \in Ports, CmdClose(p) PROVE QuietInv'
  BY <1>10 DEF CmdClose, CmdReady, lisVars
<1>11. ASSUME NEW c \in Conns, Kill(c) PROVE QuietInv'
  BY <1>11 DEF Kill, CmdReady, lisVars
<1>12. CASE KillRemove
  BY <1>12 DEF KillRemove, lisVars
<1>13. ASSUME NEW k \in Closers, CloseLock(k) PROVE QuietInv'
  BY <1>13 DEF CloseLock, Return, lisVars
<1>14. ASSUME NEW k \in Closers, CloseSession(k) PROVE QuietInv'
  BY <1>14 DEF CloseSession, lisVars
<1>15. ASSUME NEW k \in Closers, CloseCancel(k) PROVE QuietInv'
  BY <1>15 DEF CloseCancel
<1>16. ASSUME NEW k \in Closers, CloseSocket(k) PROVE QuietInv'
  BY <1>16 DEF CloseSocket
<1>17. ASSUME NEW k \in Closers, CloseDelete(k) PROVE QuietInv'
  BY <1>17 DEF CloseDelete, Return, lisVars
<1>18. CASE Shutdown
  BY <1>18 DEF Shutdown
<1>19. CASE ShutdownPorts \/ ShutdownNext \/ Exit
  BY <1>19 DEF ShutdownPorts, ShutdownNext, Exit, lisVars
<1>20. CASE UNCHANGED vars
  BY <1>20 DEF vars, lisVars, cmdVars
<1> QED
  BY <1>1, <1>2, <1>3, <1>4, <1>5, <1>6, <1>7, <1>8, <1>9, <1>10, <1>11, <1>12,
     <1>13, <1>14, <1>15, <1>16, <1>17, <1>18, <1>19, <1>20
  DEF Next, Loop, Consumer, Commands, Closing, Stopping

-----------------------------------------------------------------------------
(* The way of a connection from the queue to its watcher.                  *)

placeVars == <<loop, hand, backlog, conn, owner, watcher>>

LEMMA PlaceInit == Init => PlaceInv
BY ListenerAssumption DEF Init, PlaceInv

LEMMA PlaceStep ==
  TInv /\ QuietInv /\ PlaceInv /\ [Next]_vars => PlaceInv'
<1> SUFFICES ASSUME TInv, QuietInv, PlaceInv, [Next]_vars PROVE PlaceInv'
  OBVIOUS
<1> USE ListenerAssumption DEF TInv, TypeOK, PlaceInv, Waits, Closers
<1>1. CASE UNCHANGED placeVars
  BY <1>1 DEF placeVars
<1>2. ASSUME NEW c \in Conns, NEW i \in Instances, PeerConnect(c, i)
      PROVE PlaceInv'
  BY <1>2 DEF PeerConnect
<1>3. ASSUME NEW c \in Conns, PeerHangup(c) PROVE PlaceInv'
  BY <1>3 DEF PeerHangup, lisVars
<1>4. ASSUME NEW i \in Instances, LoopAccept(i) PROVE PlaceInv'
  BY <1>4 DEF LoopAccept, connVars
<1>5. ASSUME NEW i \in Instances, LoopRegister(i) PROVE PlaceInv'
  BY <1>5 DEF LoopRegister
<1>6. ASSUME NEW i \in Instances, LoopEmitNew(i) PROVE PlaceInv'
  BY <1>6 DEF LoopEmitNew
<1>7. ASSUME NEW i \in Instances, LoopError(i) PROVE PlaceInv'
  BY <1>7 DEF LoopError, connVars
<1>8. ASSUME NEW i \in Instances, LoopEmitErr(i) \/ LoopEmitClosed(i)
      PROVE PlaceInv'
  BY <1>8 DEF LoopEmitErr, LoopEmitClosed, connVars
<1>9. ASSUME NEW c \in Conns, RxDead(c) PROVE UNCHANGED placeVars
  BY <1>9 DEF RxDead, placeVars, lisVars
<1>10. ASSUME NEW c \in Conns, WatchCancelled(c) \/ WatchDead(c) \/ WatchEmit(c)
       PROVE PlaceInv'
  BY <1>10 DEF WatchCancelled, WatchDead, WatchEmit, lisVars
<1>11. CASE Consumer
  BY <1>1, <1>11 DEF Consumer, Consume, ClientGone, ForwarderExit, ClientCome,
                     placeVars, lisVars, connVars
<1>12. ASSUME NEW p \in Ports, NEW i \in Instances, Open(p, i) PROVE PlaceInv'
  BY <1>12 DEF Open, QuietInv, connVars
<1>13. ASSUME NEW p \in Ports, CmdClose(p) PROVE UNCHANGED placeVars
  BY <1>13 DEF CmdClose, placeVars, lisVars, connVars
<1>14. ASSUME NEW c \in Conns, Kill(c) PROVE PlaceInv'
  BY <1>14 DEF Kill, lisVars
<1>15. CASE KillRemove
  BY <1>1, <1>15 DEF KillRemove, placeVars, lisVars
<1>16. ASSUME NEW k \in Closers, CloseSession(k) PROVE PlaceInv'
  BY <1>16 DEF CloseSession, lisVars
<1>17. ASSUME NEW k \in Closers, CloseSocket(k) PROVE PlaceInv'
  BY <1>17 DEF CloseSocket
<1>18. ASSUME NEW k \in Closers, CloseLock(k) \/ CloseCancel(k) \/ CloseDelete(k)
       PROVE UNCHANGED placeVars
  BY <1>18 DEF CloseLock, CloseCancel, CloseDelete, placeVars, lisVars, connVars
<1>19. CASE Stopping
  BY <1>1, <1>19 DEF Stopping, Shutdown, ShutdownPorts, ShutdownNext, Exit,
                     placeVars, lisVars, connVars
<1>20. CASE UNCHANGED vars
  BY <1>1, <1>20 DEF vars, placeVars, lisVars, connVars
<1> QED
  BY <1>1, <1>2, <1>3, <1>4, <1>5, <1>6, <1>7, <1>8, <1>9, <1>10, <1>11, <1>12,
     <1>13, <1>14, <1>15, <1>16, <1>17, <1>18, <1>19, <1>20
  DEF Next, Peers, Loop, Sess, Commands, Closing
(* What no step takes back.                                                *)
OneWayC(c) ==
  /\ watcher[c] # "unborn" => watcher'[c] # "unborn"
  /\ watcher[c] = "done" => watcher'[c] = "done"
  /\ watcher'[c] # "unborn" =>
       watcher[c] # "unborn" \/ \E i \in Instances : LoopEmitNew(i) /\ hand[i] = c
  /\ conn[c] # "new" => owner'[c] = owner[c]
  /\ conn[c] = "down" => conn'[c] = "down"
OneWayStep == trouble \subseteq trouble' /\ \A c \in Conns : OneWayC(c)

LEMMA OneWay == TInv /\ PlaceInv /\ [Next]_vars => OneWayStep
<1> SUFFICES ASSUME TInv, PlaceInv, [Next]_vars PROVE OneWayStep
  OBVIOUS
<1> USE DEF TInv, TypeOK, OneWayStep, OneWayC
<1>1. CASE UNCHANGED <<trouble, watcher, owner, conn>>
  BY <1>1
<1>2. CASE Peers
  BY <1>2 DEF Peers, PeerConnect, PeerHangup, lisVars
<1>3. ASSUME NEW i \in Instances, LoopEmitNew(i) PROVE OneWayStep
  <2>1. /\ watcher' = [watcher EXCEPT ![hand[i]] = "wait"]
        /\ UNCHANGED <<trouble, conn, owner>> /\ watcher[hand[i]] = "unborn"
    BY <1>3 DEF LoopEmitNew, PlaceInv, Waits
  <2>2. ASSUME NEW c \in Conns PROVE OneWayC(c)
    <3>1. CASE hand[i] = c
      BY ONLY <1>3, <2>1, <3>1, TypeOK DEF TypeOK, OneWayC
    <3>2. CASE hand[i] # c
      BY <2>1, <3>2
    <3> QED BY <3>1, <3>2
  <2> QED BY <2>1, <2>2
<1>4. ASSUME NEW i \in Instances, LoopError(i) PROVE OneWayStep
  BY <1>4 DEF LoopError, connVars
<1>5. ASSUME NEW i \in Instances,
             LoopAccept(i) \/ LoopRegister(i) \/ LoopEmitErr(i) \/ LoopEmitClosed(i)
      PROVE OneWayStep
  BY <1>5 DEF LoopAccept, LoopRegister, LoopEmitErr, LoopEmitClosed, connVars
<1>6. ASSUME NEW c \in Conns, Sess(c) PROVE OneWayStep
  BY <1>6 DEF Sess, RxDead, WatchCancelled, WatchDead, WatchEmit, lisVars
<1>7. CASE Consumer
  BY <1>7 DEF Consumer, Consume, ClientGone, ForwarderExit, ClientCome, lisVars,
              connVars
<1>8. CASE Commands
  BY <1>8 DEF Commands, CmdClose, Open, Kill, KillRemove, lisVars, connVars
<1>9. CASE Stopping
  BY <1>9 DEF Stopping, Shutdown, ShutdownPorts, ShutdownNext, Exit, lisVars,
              connVars
<1>10. ASSUME NEW k \in Closers, CloseSession(k) \/ CloseSocket(k) PROVE OneWayStep
  BY <1>10 DEF CloseSession, CloseSocket, lisVars
<1>11. ASSUME NEW k \in Closers, CloseLock(k) \/ CloseCancel(k) \/ CloseDelete(k)
       PROVE OneWayStep
  BY <1>11 DEF CloseLock, CloseCancel, CloseDelete, lisVars, connVars
<1>12. CASE UNCHANGED vars
  BY <1>12 DEF vars, lisVars, connVars
<1> QED
  BY <1>2, <1>3, <1>4, <1>5, <1>6, <1>7, <1>8, <1>9, <1>10, <1>11, <1>12
  DEF Next, Loop, Closing

-----------------------------------------------------------------------------
(* The events of a connection.                                             *)

LEMMA LogInit == Init => LogInv
BY DEF Init, LogInv, Log

LEMMA LogStep ==
  TInv /\ QuietInv /\ PlaceInv /\ LogInv /\ [Next]_vars => LogInv'
<1> SUFFICES ASSUME TInv, QuietInv, PlaceInv, LogInv, [Next]_vars PROVE LogInv'
  OBVIOUS
<1>1. OneWayStep
  BY OneWay
<1>2. CASE Log' = Log /\ ~\E i \in Instances : LoopEmitNew(i)
  BY <1>1, <1>2 DEF LogInv, OneWayStep, OneWayC, PlaceInv, TInv, TypeOK, Events
<1>3. ASSUME NEW i \in Instances, LoopEmitNew(i) PROVE LogInv'
  <2>1. /\ Log' = Log \cup {Event("new", i, hand[i])}
        /\ hand[i] \in Conns /\ owner[hand[i]] = i /\ owner' = owner
        /\ watcher' = [watcher EXCEPT ![hand[i]] = "wait"] /\ trouble' = trouble
    BY <1>3, LogSent DEF LoopEmitNew, TInv, TypeOK, PlaceInv, Waits
  <2>2. watcher[hand[i]] = "unborn"
    BY <1>3 DEF LoopEmitNew, PlaceInv, Waits
  <2> QED BY <2>1, <2>2 DEF LogInv, Event, TInv, TypeOK
<1>4. ASSUME NEW i \in Instances, LoopEmitErr(i) PROVE LogInv'
  <2>1. /\ Log' = Log \cup {Event("error", i, None)} /\ i \in trouble
        /\ UNCHANGED <<watcher, owner, trouble>>
    BY <1>4, LogSent DEF LoopEmitErr, QuietInv, connVars
  <2> QED BY <2>1 DEF LogInv, Event
<1>5. ASSUME NEW i \in Instances, LoopEmitClosed(i) PROVE LogInv'
  <2>1. /\ Log' = Log \cup {Event("closed", i, None)}
        /\ UNCHANGED <<watcher, owner, trouble>>
    BY <1>5, LogSent DEF LoopEmitClosed, connVars
  <2> QED BY <2>1 DEF LogInv, Event
<1>6. ASSUME NEW c \in Conns, WatchEmit(c) PROVE LogInv'
  <2>1. /\ Log' = Log \cup {Event("dead", owner[c], c)}
        /\ watcher' = [watcher EXCEPT ![c] = "done"] /\ watcher[c] = "emit"
        /\ UNCHANGED <<owner, trouble>>
    BY <1>6, LogSent DEF WatchEmit, lisVars
  <2> QED BY <2>1 DEF LogInv, Event, TInv, TypeOK
<1> QED
  BY <1>2, <1>3, <1>4, <1>5, <1>6, LogAlone

(* EventOrder, place by place: what stands before the n-th event.          *)
Before(n) == told \cup {events[m] : m \in 1 .. n - 1}
InPlace(n) ==
  /\ events[n].type = "dead" => Announced(events[n]) \in Before(n)
  /\ events[n].type \in {"new", "dead"} => events[n] \notin Before(n)
OrderInv ==
  /\ \A e \in told : e.type = "dead" => Announced(e) \in told
  /\ \A n \in DOMAIN events : InPlace(n)

LEMMA OrderIs == EventOrder <=> OrderInv
BY DEF EventOrder, OrderInv, InPlace, Before

LEMMA OrderInit == Init => OrderInv
BY DEF Init, OrderInv


LEMMA OrderSent ==
  ASSUME TInv, OrderInv, NEW e \in Events, Send(e), told' = told,
         e.type = "dead" => Announced(e) \in Log,
         e.type \in {"new", "dead"} => e \notin Log
  PROVE  OrderInv'
<1> PICK last \in Nat : last = Len(events)
  BY DEF TInv
<1>1. events \in Seq(Events) /\ events' = Append(events, e)
  BY DEF TInv, Send
<1>2. /\ DOMAIN events = 1 .. last
      /\ DOMAIN events' = 1 .. last + 1
      /\ \A n \in 1 .. last : events'[n] = events[n]
      /\ events'[last + 1] = e
  BY <1>1
<1>3. ASSUME NEW n \in 1 .. last PROVE InPlace(n)'
  <2>1. Before(n)' = Before(n)
    BY <1>2 DEF Before
  <2> QED BY <1>2, <2>1 DEF OrderInv, InPlace
<1>4. InPlace(last + 1)'
  <2>1. Before(last + 1)' = Log
    BY <1>2 DEF Before, Log
  <2> QED BY <1>2, <2>1 DEF InPlace
<1>5. \A n \in DOMAIN events' : n \in 1 .. last \/ n = last + 1
  BY <1>2
<1> QED BY <1>3, <1>4, <1>5 DEF OrderInv

LEMMA OrderConsumed == TInv /\ OrderInv /\ Consume => OrderInv'
<1> SUFFICES ASSUME TInv, OrderInv, Consume PROVE OrderInv'
  OBVIOUS
<1>1. /\ events \in Seq(Events) /\ events # <<>> /\ events' = Tail(events)
      /\ told' = told \cup {events[1]}
  BY DEF TInv, Consume
<1>2. /\ DOMAIN events = 1 .. Len(events) /\ DOMAIN events' = 1 .. Len(events) - 1
      /\ Len(events) \in Nat \ {0}
      /\ \A n \in 1 .. Len(events) - 1 : events'[n] = events[n + 1]
  BY <1>1
<1>3. ASSUME NEW n \in DOMAIN events' PROVE InPlace(n)'
  <2>1. n + 1 \in DOMAIN events /\ events'[n] = events[n + 1]
    BY <1>2
  <2>2. {events'[m] : m \in 1 .. n - 1} = {events[m] : m \in 2 .. n}
    <3>1. \A m \in 1 .. n - 1 : m + 1 \in 2 .. n /\ events'[m] = events[m + 1]
      BY <1>2
    <3>2. \A m \in 2 .. n : m - 1 \in 1 .. n - 1 /\ events'[m - 1] = events[m]
      BY <1>2
    <3> QED BY <3>1, <3>2
  <2>3. 1 .. (n + 1) - 1 = {1} \cup 2 .. n
    BY <1>2
  <2>4. Before(n)' = Before(n + 1)
    BY <1>1, <2>2, <2>3 DEF Before
  <2> QED BY <2>1, <2>4 DEF OrderInv, InPlace
<1>4. events[1].type = "dead" => Announced(events[1]) \in told
  <2>1. Before(1) = told
    BY DEF Before
  <2> QED BY <1>2, <2>1 DEF OrderInv, InPlace
<1> QED BY <1>1, <1>3, <1>4 DEF OrderInv

LEMMA OrderStep ==
  TInv /\ PlaceInv /\ LogInv /\ OrderInv /\ [Next]_vars => OrderInv'
<1> SUFFICES ASSUME TInv, PlaceInv, LogInv, OrderInv, [Next]_vars PROVE OrderInv'
  OBVIOUS
<1>1. CASE UNCHANGED <<events, told>>
  BY <1>1 DEF OrderInv, InPlace, Before
<1>2. CASE Peers
  BY <1>1, <1>2 DEF Peers, PeerConnect, PeerHangup, evVars
<1>3. ASSUME NEW i \in Instances, LoopAccept(i) \/ LoopRegister(i) \/ LoopError(i)
      PROVE UNCHANGED <<events, told>>
  BY <1>3 DEF LoopAccept, LoopRegister, LoopError, evVars
<1>4. ASSUME NEW i \in Instances, LoopEmitNew(i) PROVE OrderInv'
  <2>1. hand[i] \in Conns /\ watcher[hand[i]] = "unborn"
    BY <1>4 DEF LoopEmitNew, PlaceInv, Waits, TInv, TypeOK
  <2>2. Event("new", i, hand[i]) \in Events \ Log
    BY <2>1, EventIn DEF LogInv, Event
  <2> QED BY <1>4, <2>2, OrderSent DEF LoopEmitNew, Event
<1>5. ASSUME NEW i \in Instances, LoopEmitErr(i) PROVE OrderInv'
  BY <1>5, EventIn, OrderSent DEF LoopEmitErr, Event
<1>6. ASSUME NEW i \in Instances, LoopEmitClosed(i) PROVE OrderInv'
  BY <1>6, EventIn, OrderSent DEF LoopEmitClosed, Event
<1>7. ASSUME NEW c \in Conns, RxDead(c) \/ WatchCancelled(c) \/ WatchDead(c)
      PROVE UNCHANGED <<events, told>>
  BY <1>7 DEF RxDead, WatchCancelled, WatchDead, evVars
<1>8. ASSUME NEW c \in Conns, WatchEmit(c) PROVE OrderInv'
  <2> DEFINE e == Event("dead", owner[c], c)
  <2>1. e \in Events
    BY EventIn DEF TInv, TypeOK
  <2>2. e \notin Log
    BY <1>8 DEF WatchEmit, LogInv, Event
  <2>3. Announced(e) \in Log
    BY <1>8 DEF WatchEmit, LogInv, Event, Announced
  <2> QED BY <1>8, <2>1, <2>2, <2>3, OrderSent DEF WatchEmit
<1>9. CASE Consumer
  BY <1>1, <1>9, OrderConsumed DEF Consumer, ClientGone, ForwarderExit, ClientCome
<1>10. CASE Commands
  BY <1>1, <1>10 DEF Commands, CmdClose, Open, Kill, KillRemove, evVars
<1>11. CASE Stopping
  BY <1>1, <1>11 DEF Stopping, Shutdown, ShutdownPorts, ShutdownNext, Exit, evVars
<1>12. ASSUME NEW k \in Closers, Closing(k) PROVE UNCHANGED <<events, told>>
  BY <1>12 DEF Closing, CloseLock, CloseSession, CloseCancel, CloseSocket,
               CloseDelete, evVars
<1>13. CASE UNCHANGED vars
  BY <1>1, <1>13 DEF vars, evVars
<1> QED
  BY <1>1, <1>2, <1>3, <1>4, <1>5, <1>6, <1>7, <1>8, <1>9, <1>10, <1>11, <1>12,
     <1>13
  DEF Next, Loop, Sess

-----------------------------------------------------------------------------
(* Within reach.                                                           *)

LEMMA ReachInit == Init => DownInv /\ NoneOutOfReach
BY ListenerAssumption DEF Init, DownInv, Down, NoneOutOfReach, Log, Closers

LEMMA DownLog ==
  ASSUME TInv, PlaceInv, LogInv, DownInv, NEW e \in Log', [Next]_vars,
         e.type = "dead"
  PROVE  conn'[e.conn] = "down"
<1>1. CASE e \in Log
  BY <1>1, OneWay DEF LogInv, DownInv, OneWayStep, OneWayC
<1>2. ASSUME NEW i \in Instances,
             LoopEmitNew(i) \/ LoopEmitErr(i) \/ LoopEmitClosed(i)
      PROVE  e \in Log
  BY <1>2, LogSent DEF LoopEmitNew, LoopEmitErr, LoopEmitClosed, Event
<1>3. ASSUME NEW c \in Conns, WatchEmit(c)
      PROVE  e \in Log \/ conn'[e.conn] = "down"
  BY <1>3, LogSent DEF WatchEmit, DownInv, Down, Event, lisVars
<1> QED BY <1>1, <1>2, <1>3, LogAlone

LEMMA DownStep ==
  TInv /\ PlaceInv /\ LogInv /\ DownInv /\ [Next]_vars => DownInv'
<1> SUFFICES ASSUME TInv, PlaceInv, LogInv, DownInv, [Next]_vars
             PROVE  Down'
  BY DownLog DEF DownInv
<1> USE ListenerAssumption DEF TInv, TypeOK, Down, Closers
<1>0. Down
  BY DEF DownInv
<1>1. CASE UNCHANGED <<pc, targets, loop, hand, conn, state, sessions, watcher>>
  BY <1>0, <1>1
<1>2. CASE Peers
  BY <1>0, <1>2 DEF Peers, PeerConnect, PeerHangup, PlaceInv, Waits, lisVars, cmdVars
<1>3. ASSUME NEW i \in Instances, LoopAccept(i) PROVE Down'
  BY <1>0, <1>3 DEF LoopAccept, connVars, cmdVars
<1>4. ASSUME NEW i \in Instances, LoopRegister(i) PROVE Down'
  BY <1>0, <1>4 DEF LoopRegister, PlaceInv, Waits, cmdVars
<1>5. ASSUME NEW i \in Instances, LoopEmitNew(i) PROVE Down'
  BY <1>0, <1>5 DEF LoopEmitNew, PlaceInv, Waits, cmdVars
<1>6. ASSUME NEW i \in Instances, LoopError(i) PROVE Down'
  BY <1>0, <1>6 DEF LoopError, connVars, cmdVars
<1>7. ASSUME NEW i \in Instances, LoopEmitErr(i) \/ LoopEmitClosed(i) PROVE Down'
  BY <1>0, <1>7 DEF LoopEmitErr, LoopEmitClosed, connVars, cmdVars
<1>8. ASSUME NEW c \in Conns, Sess(c) PROVE Down'
  BY <1>0, <1>8 DEF Sess, RxDead, WatchCancelled, WatchDead, WatchEmit, lisVars, cmdVars
<1>9. CASE Consume
  <2>1. Head(events) \in Log
    BY <1>9 DEF Consume, Log
  <2>2. \A c \in RemovedBy(Head(events)) : conn[c] = "down"
    BY <2>1 DEF RemovedBy, DownInv
  <2> QED BY <1>0, <1>9, <2>2 DEF Consume, lisVars, cmdVars
<1>10. CASE ClientGone \/ ForwarderExit \/ ClientCome
  BY <1>1, <1>10 DEF ClientGone, ForwarderExit, ClientCome, lisVars, connVars, cmdVars
<1>11. ASSUME NEW p \in Ports, NEW i \in Instances, Open(p, i) PROVE Down'
  BY <1>0, <1>11 DEF Open, connVars, cmdVars
<1>12. ASSUME NEW p \in Ports, CmdClose(p) PROVE Down'
  BY <1>0, <1>12 DEF CmdClose, lisVars, connVars
<1>13. ASSUME NEW c \in Conns, Kill(c) PROVE Down'
  BY <1>0, <1>13 DEF Kill, lisVars
<1>14. CASE KillRemove
  BY <1>0, <1>14 DEF KillRemove, lisVars
<1>15. ASSUME NEW k \in Closers, CloseLock(k) PROVE Down'
  BY <1>0, <1>15 DEF CloseLock, Return, lisVars, connVars
<1>16. ASSUME NEW k \in Closers, CloseSession(k) PROVE Down'
  BY <1>0, <1>16 DEF CloseSession, lisVars
<1>17. ASSUME NEW k \in Closers, CloseCancel(k) PROVE Down'
  BY <1>0, <1>17 DEF CloseCancel, connVars
<1>18. ASSUME NEW k \in Closers, CloseSocket(k) PROVE Down'
  <2>1. \A c \in Conns : conn'[c] = conn[c] \/ conn'[c] = "down"
    BY <1>18 DEF CloseSocket
  <2>2. /\ UNCHANGED <<state, watcher, targets, loop, hand, sessions>>
        /\ pc'["cmd"] = "kill" => pc["cmd"] = "kill"
    BY <1>18 DEF CloseSocket
  <2>3. \A i \in Instances : loop[i] = "emitNew" => hand[i] \in Conns
    BY DEF PlaceInv
  <2> QED BY <1>0, <2>1, <2>2, <2>3
<1>19. ASSUME NEW k \in Closers, CloseDelete(k) PROVE Down'
  BY <1>0, <1>19 DEF CloseDelete, Return, lisVars, connVars
<1>20. CASE Stopping
  BY <1>0, <1>20 DEF Stopping, Shutdown, ShutdownPorts, ShutdownNext, Exit, lisVars,
                     connVars
<1>21. CASE UNCHANGED vars
  BY <1>1, <1>21 DEF vars, lisVars, connVars, cmdVars
<1> QED
  BY <1>2, <1>3, <1>4, <1>5, <1>6, <1>7, <1>8, <1>9, <1>10, <1>11, <1>12, <1>13,
     <1>14, <1>15, <1>16, <1>17, <1>18, <1>19, <1>20, <1>21
  DEF Next, Loop, Consumer, Commands, Closing

LEMMA ReachStep ==
  TInv /\ PlaceInv /\ DownInv /\ NoneOutOfReach /\ [Next]_vars => NoneOutOfReach'
<1> SUFFICES ASSUME TInv, PlaceInv, DownInv, NoneOutOfReach, [Next]_vars
             PROVE  NoneOutOfReach'
  OBVIOUS
<1> USE ListenerAssumption DEF TInv, TypeOK, NoneOutOfReach, Closers
<1>1. CASE UNCHANGED <<hand, backlog, conn, sessions>>
  BY <1>1
<1>2. CASE Peers
  <2>1. ASSUME NEW c \in Conns, NEW i \in Instances, PeerConnect(c, i)
        PROVE  NoneOutOfReach'
    BY <2>1 DEF PeerConnect
  <2>2. ASSUME NEW c \in Conns, PeerHangup(c) PROVE NoneOutOfReach'
    BY <2>2 DEF PeerHangup, lisVars
  <2> QED BY <1>2, <2>1, <2>2 DEF Peers
<1>3. ASSUME NEW i \in Instances, LoopAccept(i) PROVE NoneOutOfReach'
  BY <1>3 DEF LoopAccept, PlaceInv, connVars
<1>4. ASSUME NEW i \in Instances, LoopRegister(i) PROVE NoneOutOfReach'
  BY <1>4 DEF LoopRegister
<1>5. ASSUME NEW i \in Instances, LoopEmitNew(i) PROVE NoneOutOfReach'
  <2>1. conn[hand[i]] = "up" => hand[i] \in sessions
    BY <1>5 DEF LoopEmitNew, DownInv, Down
  <2> QED BY <1>5, <2>1 DEF LoopEmitNew
<1>6. ASSUME NEW i \in Instances, LoopError(i) \/ LoopEmitErr(i) \/ LoopEmitClosed(i)
      PROVE UNCHANGED <<hand, backlog, conn, sessions>>
  BY <1>6 DEF LoopError, LoopEmitErr, LoopEmitClosed, connVars
<1>7. ASSUME NEW c \in Conns, Sess(c) PROVE UNCHANGED <<hand, backlog, conn, sessions>>
  BY <1>7 DEF Sess, RxDead, WatchCancelled, WatchDead, WatchEmit, lisVars
<1>8. CASE Consume
  <2>1. Head(events) \in Log
    BY <1>8 DEF Consume, Log
  <2>2. \A c \in RemovedBy(Head(events)) : conn[c] = "down"
    BY <2>1 DEF RemovedBy, DownInv
  <2> QED BY <1>8, <2>2 DEF Consume, lisVars
<1>9. CASE ClientGone \/ ForwarderExit \/ ClientCome
  BY <1>1, <1>9 DEF ClientGone, ForwarderExit, ClientCome, lisVars, connVars
<1>10. ASSUME NEW p \in Ports, NEW i \in Instances, Open(p, i)
       PROVE UNCHANGED <<hand, backlog, conn, sessions>>
  BY <1>10 DEF Open, connVars
<1>11. ASSUME NEW p \in Ports, CmdClose(p)
       PROVE UNCHANGED <<hand, backlog, conn, sessions>>
  BY <1>11 DEF CmdClose, lisVars, connVars
<1>12. ASSUME NEW c \in Conns, Kill(c) PROVE NoneOutOfReach'
  BY <1>12 DEF Kill, lisVars
<1>13. CASE KillRemove
  BY <1>13 DEF KillRemove, DownInv, Down, lisVars
<1>14. ASSUME NEW k \in Closers, CloseSession(k) PROVE NoneOutOfReach'
  BY <1>14 DEF CloseSession, lisVars
<1>15. ASSUME NEW k \in Closers, CloseSocket(k) PROVE NoneOutOfReach'
  BY <1>15 DEF CloseSocket
<1>16. ASSUME NEW k \in Closers, CloseLock(k) \/ CloseCancel(k) \/ CloseDelete(k)
       PROVE UNCHANGED <<hand, backlog, conn, sessions>>
  BY <1>16 DEF CloseLock, CloseCancel, CloseDelete, lisVars, connVars
<1>17. CASE Stopping
  BY <1>1, <1>17 DEF Stopping, Shutdown, ShutdownPorts, ShutdownNext, Exit, lisVars,
                     connVars
<1>18. CASE UNCHANGED vars
  BY <1>1, <1>18 DEF vars, lisVars, connVars
<1> QED
  BY <1>1, <1>2, <1>3, <1>4, <1>5, <1>6, <1>7, <1>8, <1>9, <1>10, <1>11, <1>12,
     <1>13, <1>14, <1>15, <1>16, <1>17, <1>18
  DEF Next, Loop, Consumer, Commands, Closing

-----------------------------------------------------------------------------
(* The theorems.                                                           *)

ManagerInv == TInv /\ LockInv /\ MapInv /\ QuietInv /\ PlaceInv

LEMMA ManagerAlways == Spec => []ManagerInv
<1>1. Init => ManagerInv
  BY TypeInit, LockInit, QuietInit, PlaceInit DEF ManagerInv
<1>2. ManagerInv /\ [Next]_vars => ManagerInv'
  BY TypeStep, LockStep, MapStep, QuietStep, PlaceStep DEF ManagerInv
<1> QED BY <1>1, <1>2, PTL DEF Spec

LEMMA LogAlways == Spec => []LogInv
<1>1. Init => LogInv
  BY LogInit
<1>2. ManagerInv /\ LogInv /\ [Next]_vars => LogInv'
  BY LogStep DEF ManagerInv
<1> QED BY <1>1, <1>2, ManagerAlways, PTL DEF Spec

(* Every variable has its type; the event channel never holds more than    *)
(* its capacity.                                                           *)
THEOREM TypeCorrect == Spec => []TypeOK
<1>1. ManagerInv => TypeOK
  BY DEF ManagerInv, TInv
<1> QED BY <1>1, ManagerAlways, PTL

(* The map of the manager and the sockets agree, whoever closes what.      *)
THEOREM SocketsAreMapped == Spec => []SocketsMapped
<1>1. ManagerInv => SocketsMapped
  BY DEF ManagerInv, MapInv
<1> QED BY <1>1, ManagerAlways, PTL

(* Closing a listener, by command or at the end of the process, is never   *)
(* reported as an error.                                                   *)
THEOREM ClosesQuietly == Spec => []CloseIsQuiet
<1>1. ManagerInv /\ LogInv => CloseIsQuiet
  BY DEF ManagerInv, QuietInv, LogInv, CloseIsQuiet, Log
<1> QED BY <1>1, ManagerAlways, LogAlways, PTL

(* The consumer hears of every session at most once that it came and at    *)
(* most once that it ended, in that order.                                 *)
THEOREM EventsInOrder == Spec => []EventOrder
<1>1. Init => OrderInv
  BY OrderInit
<1>2. ManagerInv /\ LogInv /\ OrderInv /\ [Next]_vars => OrderInv'
  BY OrderStep DEF ManagerInv
<1> QED BY <1>1, <1>2, OrderIs, ManagerAlways, LogAlways, PTL DEF Spec

(* No connection that is up is out of reach of every command.              *)
THEOREM AllWithinReach == Spec => []NoneOutOfReach
<1>1. Init => DownInv /\ NoneOutOfReach
  BY ReachInit
<1>2. /\ ManagerInv /\ LogInv /\ DownInv /\ NoneOutOfReach /\ [Next]_vars
      => (DownInv /\ NoneOutOfReach)'
  BY DownStep, ReachStep DEF ManagerInv
<1> QED BY <1>1, <1>2, ManagerAlways, LogAlways, PTL DEF Spec
=============================================================================
