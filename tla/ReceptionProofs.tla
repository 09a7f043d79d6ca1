-------------------------- MODULE ReceptionProofs --------------------------
(***************************************************************************)
(* The listener manager, whose Close takes many steps among those of the   *)
(* accept loops, keeps what Reception.tla promises of ports and sessions.  *)
(***************************************************************************)
EXTENDS ListenerProofs

(* A connection becomes a session once, when its accept loop registers it. *)
BirthInv ==
  /\ \A c \in Conns : owner[c] = None <=> conn[c] = "new"
  /\ \A c \in Conns : owner[c] # None => sock[owner[c]] # "unborn"
  /\ \A c \in Conns : conn[c] = "new" => state[c] = "none"
  /\ \A i \in Instances : \A c \in backlog[i] : state[c] = "none"
  /\ \A i \in Instances : loop[i] = "register" => state[hand[i]] = "none"
  /\ \A i \in Instances : loop[i] = "emitNew" => state[hand[i]] # "none"

(* It is in the manager while it lasts, so that CloseAll lists it.         *)
Listed ==
  /\ \A c \in Conns : state[c] = "live" => c \in sessions
  /\ \A c \in sessions : state[c] # "none"
  /\ \A c \in Conns : watcher[c] = "emit" => state[c] = "dead"
  /\ pc["cmd"] = "kill" => \A c \in targets["cmd"] : state[c] = "dead"
  /\ \A k \in Closers : pc[k] = "sessions" => \A c \in targets[k] : state[c] # "none"
  /\ \A k \in Closers : pc[k] = "socket" => targets[k] = {}
ListedInv == Listed /\ \A e \in Log : e.type = "dead" => state[e.conn] = "dead"

LEMMA LifeInit == Init => BirthInv /\ ListedInv
BY ListenerAssumption DEF Init, BirthInv, ListedInv, Listed, Log, Closers

LEMMA BirthStep ==
  ManagerInv /\ BirthInv /\ Listed /\ [Next]_vars => BirthInv'
<1> SUFFICES ASSUME ManagerInv, BirthInv, Listed, [Next]_vars PROVE BirthInv'
  OBVIOUS
<1> USE ListenerAssumption DEF ManagerInv, TInv, TypeOK, BirthInv, Closers
<1>1. CASE UNCHANGED <<owner, conn, sock, state, backlog, loop, hand>>
  BY <1>1
<1>2. ASSUME NEW c \in Conns, NEW i \in Instances, PeerConnect(c, i) PROVE BirthInv'
  BY <1>2 DEF PeerConnect, PlaceInv, Waits
<1>3. ASSUME NEW c \in Conns, PeerHangup(c) PROVE BirthInv'
  BY <1>3 DEF PeerHangup, lisVars
<1>4. ASSUME NEW i \in Instances, LoopAccept(i) PROVE BirthInv'
  BY <1>4 DEF LoopAccept, connVars
<1>5. ASSUME NEW i \in Instances, LoopRegister(i) PROVE BirthInv'
  <2>1. /\ loop[i] = "register" /\ hand[i] \in Conns /\ Waits(hand[i], i)
        /\ state' = [state EXCEPT ![hand[i]] = "live"]
        /\ loop' = [loop EXCEPT ![i] = "emitNew"]
        /\ UNCHANGED <<owner, conn, sock, backlog, hand>>
    BY <1>5 DEF LoopRegister, PlaceInv
  <2>2. ASSUME NEW j \in Instances PROVE \A c \in backlog[j] : state'[c] = "none"
    BY <2>1 DEF PlaceInv, Waits
  <2>3. ASSUME NEW j \in Instances, loop'[j] = "register"
        PROVE  state'[hand[j]] = "none"
    BY <2>1, <2>3 DEF PlaceInv, Waits
  <2>4. ASSUME NEW j \in Instances, loop'[j] = "emitNew"
        PROVE  state'[hand[j]] # "none"
    BY <2>1, <2>4 DEF PlaceInv
  <2> QED BY <2>1, <2>2, <2>3, <2>4 DEF Waits
<1>6. ASSUME NEW i \in Instances, LoopEmitNew(i) PROVE BirthInv'
  BY <1>6 DEF LoopEmitNew
<1>7. ASSUME NEW i \in Instances, LoopError(i) \/ LoopEmitErr(i) \/ LoopEmitClosed(i)
      PROVE BirthInv'
  BY <1>7 DEF LoopError, LoopEmitErr, LoopEmitClosed, connVars
<1>8. ASSUME NEW c \in Conns, RxDead(c) PROVE BirthInv'
  BY <1>8 DEF RxDead, lisVars
<1>9. ASSUME NEW c \in Conns, WatchCancelled(c) \/ WatchDead(c) \/ WatchEmit(c)
      PROVE UNCHANGED <<owner, conn, sock, state, backlog, loop, hand>>
  BY <1>9 DEF WatchCancelled, WatchDead, WatchEmit, lisVars
<1>10. CASE Consumer
  BY <1>1, <1>10 DEF Consumer, Consume, ClientGone, ForwarderExit, ClientCome,
                     lisVars, connVars
<1>11. ASSUME NEW p \in Ports, NEW i \in Instances, Open(p, i) PROVE BirthInv'
  BY <1>11 DEF Open, connVars
<1>12. ASSUME NEW p \in Ports, CmdClose(p)
       PROVE UNCHANGED <<owner, conn, sock, state, backlog, loop, hand>>
  BY <1>12 DEF CmdClose, lisVars, connVars
<1>13. ASSUME NEW c \in Conns, Kill(c) PROVE BirthInv'
  BY <1>13 DEF Kill, Listed, lisVars
<1>14. CASE KillRemove
  BY <1>1, <1>14 DEF KillRemove, lisVars
<1>15. ASSUME NEW k \in Closers, CloseSession(k) PROVE BirthInv'
  BY <1>15 DEF CloseSession, Listed, lisVars
<1>16. ASSUME NEW k \in Closers, CloseSocket(k) PROVE BirthInv'
  <2>1. listeners[arg[k]] \in Instances
    BY <1>16 DEF CloseSocket, LockInv
  <2> QED BY <1>16, <2>1 DEF CloseSocket, PlaceInv, Waits
<1>17. ASSUME NEW k \in Closers, CloseLock(k) \/ CloseCancel(k) \/ CloseDelete(k)
       PROVE UNCHANGED <<owner, conn, sock, state, backlog, loop, hand>>
  BY <1>17 DEF CloseLock, CloseCancel, CloseDelete, lisVars, connVars
<1>18. CASE Stopping
  BY <1>1, <1>18 DEF Stopping, Shutdown, ShutdownPorts, ShutdownNext, Exit, lisVars,
                     connVars
<1>19. CASE UNCHANGED vars
  BY <1>1, <1>19 DEF vars, lisVars, connVars
<1> QED
  BY <1>1, <1>2, <1>3, <1>4, <1>5, <1>6, <1>7, <1>8, <1>9, <1>10, <1>11, <1>12,
     <1>13, <1>14, <1>15, <1>16, <1>17, <1>18, <1>19
  DEF Next, Peers, Loop, Sess, Commands, Closing

(* A session that has ended stays so.                                      *)
LEMMA DeadStays ==
  ASSUME ManagerInv, BirthInv, [Next]_vars, NEW c \in Conns, state[c] = "dead"
  PROVE  state'[c] = "dead"
<1> USE DEF ManagerInv, TInv, TypeOK
<1>1. ASSUME NEW i \in Instances, Loop(i) PROVE state'[c] = "dead"
  BY <1>1 DEF Loop, LoopAccept, LoopRegister, LoopEmitNew, LoopError, LoopEmitErr,
              LoopEmitClosed, BirthInv, connVars
<1>2. ASSUME NEW d \in Conns, Sess(d) PROVE state'[c] = "dead"
  BY <1>2 DEF Sess, RxDead, WatchCancelled, WatchDead, WatchEmit
<1>3. CASE Peers \/ Consumer \/ Commands
  BY <1>3 DEF Peers, PeerConnect, PeerHangup, Consumer, Consume, ClientGone,
              ForwarderExit, ClientCome, Commands, CmdClose, Open, Kill, KillRemove,
              connVars
<1>4. CASE Stopping
  BY <1>4 DEF Stopping, Shutdown, ShutdownPorts, ShutdownNext, Exit, connVars
<1>5. ASSUME NEW k \in Closers, Closing(k) PROVE state'[c] = "dead"
  BY <1>5 DEF Closing, CloseLock, CloseSession, CloseCancel, CloseSocket,
              CloseDelete, connVars
<1>6. CASE UNCHANGED vars
  BY <1>6 DEF vars, connVars
<1> QED BY <1>1, <1>2, <1>3, <1>4, <1>5, <1>6 DEF Next

LEMMA DeadLog ==
  ASSUME ManagerInv, BirthInv, LogInv, ListedInv, [Next]_vars,
         NEW e \in Log', e.type = "dead"
  PROVE  state'[e.conn] = "dead"
<1>1. CASE e \in Log
  BY <1>1, DeadStays DEF LogInv, ListedInv
<1>2. ASSUME NEW i \in Instances,
             LoopEmitNew(i) \/ LoopEmitErr(i) \/ LoopEmitClosed(i)
      PROVE  e \in Log
  BY <1>2, LogSent DEF LoopEmitNew, LoopEmitErr, LoopEmitClosed, Event, ManagerInv
<1>3. ASSUME NEW c \in Conns, WatchEmit(c)
      PROVE  e \in Log \/ state'[e.conn] = "dead"
  BY <1>3, LogSent DEF WatchEmit, ListedInv, Listed, Event, lisVars, ManagerInv
<1> QED BY <1>1, <1>2, <1>3, LogAlone DEF ManagerInv

LEMMA ListedStep ==
  ManagerInv /\ BirthInv /\ LogInv /\ ListedInv /\ [Next]_vars => ListedInv'
<1> SUFFICES ASSUME ManagerInv, BirthInv, LogInv, ListedInv, [Next]_vars
             PROVE  Listed'
  BY DeadLog DEF ListedInv
<1> USE ListenerAssumption DEF ManagerInv, TInv, TypeOK, Listed, Closers
<1>0. Listed
  BY DEF ListedInv
<1>1. CASE UNCHANGED <<state, sessions, watcher, pc, targets>>
  BY <1>0, <1>1
<1>2. CASE Peers
  BY <1>0, <1>2 DEF Peers, PeerConnect, PeerHangup, cmdVars
<1>3. ASSUME NEW i \in Instances, LoopRegister(i) PROVE Listed'
  <2>1. /\ loop[i] = "register" /\ hand[i] \in Conns /\ Waits(hand[i], i)
        /\ state' = [state EXCEPT ![hand[i]] = "live"]
        /\ sessions' = sessions \cup {hand[i]} /\ state[hand[i]] = "none"
        /\ UNCHANGED <<watcher, pc, targets>>
    BY <1>3 DEF LoopRegister, PlaceInv, BirthInv, cmdVars
  <2> QED BY <1>0, <2>1
<1>4. ASSUME NEW i \in Instances, LoopEmitNew(i) PROVE Listed'
  BY <1>0, <1>4 DEF LoopEmitNew, cmdVars
<1>5. ASSUME NEW i \in Instances,
             LoopAccept(i) \/ LoopError(i) \/ LoopEmitErr(i) \/ LoopEmitClosed(i)
      PROVE UNCHANGED <<state, sessions, watcher, pc, targets>>
  BY <1>5 DEF LoopAccept, LoopError, LoopEmitErr, LoopEmitClosed, connVars, cmdVars
<1>6. ASSUME NEW c \in Conns, Sess(c) PROVE Listed'
  BY <1>0, <1>6 DEF Sess, RxDead, WatchCancelled, WatchDead, WatchEmit, cmdVars
<1>7. CASE Consume
  <2>1. Head(events) \in Log
    BY <1>7 DEF Consume, Log
  <2>2. \A c \in RemovedBy(Head(events)) : state[c] = "dead"
    BY <2>1 DEF RemovedBy, ListedInv
  <2> QED BY <1>0, <1>7, <2>2 DEF Consume, cmdVars
<1>8. CASE ClientGone \/ ForwarderExit \/ ClientCome
  BY <1>1, <1>8 DEF ClientGone, ForwarderExit, ClientCome, connVars, cmdVars
<1>9. ASSUME NEW p \in Ports, NEW i \in Instances, Open(p, i) PROVE Listed'
  BY <1>0, <1>9 DEF Open, connVars, cmdVars
<1>10. ASSUME NEW p \in Ports, CmdClose(p) PROVE Listed'
  BY <1>0, <1>10 DEF CmdClose, connVars
<1>11. ASSUME NEW c \in Conns, Kill(c) PROVE Listed'
  BY <1>0, <1>11 DEF Kill
<1>12. CASE KillRemove
  BY <1>0, <1>12 DEF KillRemove
<1>13. ASSUME NEW k \in Closers, CloseLock(k) PROVE Listed'
  BY <1>0, <1>13 DEF CloseLock, Return, ByPort, connVars
<1>14. ASSUME NEW k \in Closers, CloseSession(k) PROVE Listed'
  BY <1>0, <1>14 DEF CloseSession
<1>15. ASSUME NEW k \in Closers, CloseCancel(k) PROVE Listed'
  BY <1>0, <1>15 DEF CloseCancel, connVars
<1>16. ASSUME NEW k \in Closers, CloseSocket(k) PROVE Listed'
  BY <1>0, <1>16 DEF CloseSocket
<1>17. ASSUME NEW k \in Closers, CloseDelete(k) PROVE Listed'
  BY <1>0, <1>17 DEF CloseDelete, Return, connVars
<1>18. CASE Stopping
  BY <1>0, <1>18 DEF Stopping, Shutdown, ShutdownPorts, ShutdownNext, Exit, connVars
<1>19. CASE UNCHANGED vars
  BY <1>1, <1>19 DEF vars, connVars, cmdVars
<1> QED
  BY <1>1, <1>2, <1>3, <1>4, <1>5, <1>6, <1>7, <1>8, <1>9, <1>10, <1>11, <1>12,
     <1>13, <1>14, <1>15, <1>16, <1>17, <1>18, <1>19
  DEF Next, Loop, Consumer, Commands, Closing

-----------------------------------------------------------------------------
(* What Reception sees of the listeners and sessions.                      *)

LifeInv == ManagerInv /\ BirthInv /\ ListedInv

OnPort(c, p) ==
  state[c] = "live" /\ ~Late(c) /\ Owned(c, "open") /\ port[owner[c]] = p
IsLoose(c) ==
  /\ Owned(c, "closed")
  /\ state[c] = "live" \/ (state[c] = "none" /\ hand[owner[c]] = c)

SeenAs ==
  /\ LiveOn = [p \in Ports |-> {c \in Conns : OnPort(c, p)}]
  /\ Loose = {c \in Conns : IsLoose(c)}
  /\ Manager!Fresh = {c \in Conns : /\ ~IsLoose(c) /\ state[c] # "dead"
                                   /\ \A p \in Ports : ~OnPort(c, p)}

LEMMA Seen == SeenAs /\ SeenAs'
<1>1. LiveOn = [p \in Ports |-> {c \in Conns : OnPort(c, p)}]
  BY DEF LiveOn, OnPort
<1>2. LiveOn' = [p \in Ports |-> {c \in Conns : OnPort(c, p)'}]
  BY DEF LiveOn, OnPort
<1>3. Loose = {c \in Conns : IsLoose(c)} /\ Loose' = {c \in Conns : IsLoose(c)'}
  BY DEF Loose, IsLoose
<1> QED BY <1>1, <1>2, <1>3 DEF SeenAs, Manager!Fresh, Ended

(* A step that none of these notices is a stutter of Reception.            *)
Unseen ==
  /\ Opened' = Opened
  /\ \A c \in Conns : IsLoose(c)' <=> IsLoose(c)
  /\ \A c \in Conns, p \in Ports : OnPort(c, p)' <=> OnPort(c, p)
  /\ \A c \in Conns : state'[c] = "dead" <=> state[c] = "dead"

LEMMA UnseenStutters == Unseen => UNCHANGED Manager!receptionVars
<1> SUFFICES ASSUME Unseen PROVE UNCHANGED Manager!receptionVars
  OBVIOUS
<1>1. LiveOn' = LiveOn /\ Loose' = Loose
  BY Seen DEF SeenAs, Unseen
<1>2. Ended' = Ended
  BY DEF Ended, Unseen
<1> QED BY <1>1, <1>2 DEF Unseen, Manager!receptionVars

(* Nobody is late while nobody holds the manager.                          *)
LEMMA NoneLate ==
  ASSUME LockInv, mu \notin Closers
  PROVE  \A c : ~Late(c)
BY DEF LockInv, Late

(* The sockets and the closers as they were: only the sessions matter.     *)
LEMMA SameManager ==
  ASSUME UNCHANGED <<listeners, port, sock, pc, arg, targets>>
  PROVE  /\ Opened' = Opened
         /\ \A c \in Conns : owner'[c] = owner[c] => (Late(c)' <=> Late(c))
BY DEF Opened, Late

LEMMA SameLate ==
  ASSUME UNCHANGED <<listeners, owner>>,
         \A k \in Closers : /\ pc'[k] \in {"sessions", "socket"}
                                <=> pc[k] \in {"sessions", "socket"}
                            /\ pc[k] \in {"sessions", "socket"}
                                => arg'[k] = arg[k] /\ targets'[k] = targets[k]
  PROVE  \A c : Late(c)' <=> Late(c)
<1> SUFFICES ASSUME NEW c PROVE Late(c)' <=> Late(c)
  OBVIOUS
<1>1. ASSUME NEW k \in Closers
      PROVE  /\ pc'[k] \in {"sessions", "socket"}
             /\ owner'[c] = listeners'[arg'[k]] /\ c \notin targets'[k]
             <=> /\ pc[k] \in {"sessions", "socket"}
                 /\ owner[c] = listeners[arg[k]] /\ c \notin targets[k]
  OBVIOUS
<1> QED BY <1>1 DEF Late

LEMMA EndStep ==
  ASSUME LifeInv, NEW c \in Conns, state[c] = "live",
         state' = [state EXCEPT ![c] = "dead"],
         UNCHANGED <<port, sock, hand, owner>>,
         \A d \in Conns \ {c} : Late(d)' <=> Late(d)
  PROVE  Manager!End(c)
<1> USE DEF LifeInv, ManagerInv, TInv, TypeOK
<1>1. Opened' = Opened
  BY DEF Opened
<1>2. \A d \in Conns : IsLoose(d)' <=> (IsLoose(d) /\ d # c)
  BY DEF IsLoose, Owned
<1>3. \A d \in Conns, p \in Ports : OnPort(d, p)' <=> (OnPort(d, p) /\ d # c)
  BY DEF OnPort, Owned
<1>4. Loose' = Loose \ {c}
  BY <1>2, Seen DEF SeenAs
<1>5. LiveOn' = [p \in Ports |-> LiveOn[p] \ {c}]
  BY <1>3, Seen DEF SeenAs
<1>6. Ended' = Ended \cup {c} /\ c \notin Ended
  BY DEF Ended
<1>7. c \in Manager!Fresh => Opened # {}
  <2>1. owner[c] \in Instances /\ sock[owner[c]] \in {"open", "closed"}
    BY DEF BirthInv
  <2>2. sock[owner[c]] = "closed" => IsLoose(c)
    BY <2>1, ListenerAssumption DEF IsLoose, Owned
  <2>3. sock[owner[c]] = "open" => port[owner[c]] \in Opened
    BY <2>1 DEF Opened
  <2>4. c \in Manager!Fresh => ~IsLoose(c)
    BY Seen DEF SeenAs
  <2> QED BY <2>1, <2>2, <2>3, <2>4
<1> QED BY <1>1, <1>4, <1>5, <1>6, <1>7 DEF Manager!End

(* An accept loop takes a connection in hand, registers it, lets it go.    *)
LEMMA LoopSeen ==
  ASSUME LifeInv, NEW i \in Instances, Loop(i)
  PROVE  Manager!ReceptionNext \/ Unseen
<1> USE ListenerAssumption DEF LifeInv, ManagerInv, TInv, TypeOK
<1>1. CASE LoopAccept(i)
  <2>1. /\ UNCHANGED <<listeners, port, sock, pc, arg, targets, owner, state>>
        /\ \E c \in backlog[i] : hand' = [hand EXCEPT ![i] = c]
        /\ sock[i] = "open" /\ hand[i] = None
    BY <1>1 DEF LoopAccept, connVars, cmdVars, PlaceInv
  <2>2. \A c \in Conns : IsLoose(c)' <=> IsLoose(c)
    BY <2>1 DEF IsLoose, Owned
  <2>3. \A c \in Conns, p \in Ports : OnPort(c, p)' <=> OnPort(c, p)
    BY <2>1, SameManager DEF OnPort, Owned
  <2> QED BY <2>1, <2>2, <2>3, SameManager DEF Unseen
<1>2. CASE LoopRegister(i)
  <2>0. PICK c \in Conns : c = hand[i]
    BY <1>2 DEF LoopRegister, PlaceInv
  <2>1. /\ UNCHANGED <<listeners, port, sock, pc, arg, targets, owner, hand>>
        /\ owner[c] = i /\ state[c] = "none" /\ sock[i] # "unborn"
        /\ state' = [state EXCEPT ![c] = "live"]
    BY <1>2, <2>0 DEF LoopRegister, cmdVars, PlaceInv, Waits, BirthInv
  <2>2. \A d \in Conns : IsLoose(d)' <=> IsLoose(d)
    BY <2>0, <2>1 DEF IsLoose, Owned
  <2>3. \A d \in Conns \ {c}, p \in Ports : OnPort(d, p)' <=> OnPort(d, p)
    BY <2>1, SameManager DEF OnPort, Owned
  <2>4. \A p \in Ports : ~OnPort(c, p)
    BY <2>1 DEF OnPort
  <2>5. \A d \in Conns : state'[d] = "dead" <=> state[d] = "dead"
    BY <2>1
  <2>6. CASE sock[i] = "open" /\ ~Late(c)
    <3>1. \A p \in Ports : OnPort(c, p)' <=> p = port[i]
      BY <2>1, <2>6, SameManager DEF OnPort, Owned
    <3>2. c \in Manager!Fresh /\ port[i] \in Opened
      BY <2>1, <2>4, <2>6, Seen DEF SeenAs, Opened, IsLoose, Owned
    <3>3. LiveOn' = [LiveOn EXCEPT ![port[i]] = @ \cup {c}]
      <4>1. ASSUME NEW p \in Ports
            PROVE  LiveOn'[p] = IF p = port[i] THEN LiveOn[p] \cup {c} ELSE LiveOn[p]
        BY <2>3, <2>4, <3>1, Seen DEF SeenAs
      <4>2. port[i] \in Ports
        OBVIOUS
      <4>3. LiveOn = [p \in Ports |-> LiveOn[p]] /\ LiveOn' = [p \in Ports |-> LiveOn'[p]]
        BY DEF LiveOn
      <4> QED BY <4>1, <4>2, <4>3
    <3>4. Loose' = Loose /\ Ended' = Ended /\ Opened' = Opened
      BY <2>1, <2>2, <2>5, Seen, SameManager DEF SeenAs, Ended
    <3>5. Manager!Connect(c, port[i])
      BY <3>2, <3>3, <3>4 DEF Manager!Connect
    <3> QED BY <2>1, <3>5 DEF Manager!ReceptionNext
  <2>7. CASE sock[i] # "open" \/ Late(c)
    <3>1. \A p \in Ports : ~OnPort(c, p)'
      BY <2>1, <2>7, SameManager DEF OnPort, Owned
    <3> QED BY <2>1, <2>2, <2>3, <2>4, <2>5, <3>1, SameManager DEF Unseen
  <2> QED BY <2>6, <2>7
<1>3. CASE LoopEmitNew(i)
  <2>1. /\ UNCHANGED <<listeners, port, sock, pc, arg, targets, owner, state>>
        /\ hand' = [hand EXCEPT ![i] = None] /\ state[hand[i]] # "none"
    BY <1>3 DEF LoopEmitNew, cmdVars, BirthInv
  <2>2. \A c \in Conns : IsLoose(c)' <=> IsLoose(c)
    BY <2>1 DEF IsLoose, Owned
  <2>3. \A c \in Conns, p \in Ports : OnPort(c, p)' <=> OnPort(c, p)
    BY <2>1, SameManager DEF OnPort, Owned
  <2> QED BY <2>1, <2>2, <2>3, SameManager DEF Unseen
<1>4. CASE LoopError(i) \/ LoopEmitErr(i) \/ LoopEmitClosed(i)
  <2>1. UNCHANGED <<listeners, port, sock, pc, arg, targets, owner, state, hand>>
    BY <1>4 DEF LoopError, LoopEmitErr, LoopEmitClosed, connVars, cmdVars
  <2> QED BY <2>1, SameManager DEF Unseen, OnPort, IsLoose, Owned
<1> QED BY <1>1, <1>2, <1>3, <1>4 DEF Loop

LEMMA OthersSeen ==
  ASSUME LifeInv, Peers \/ Consumer \/ Stopping \/ \E c \in Conns : Sess(c)
  PROVE  Manager!ReceptionNext \/ Unseen
<1> USE ListenerAssumption DEF LifeInv, ManagerInv, TInv, TypeOK
<1>1. ASSUME UNCHANGED <<listeners, port, sock, pc, arg, targets, owner, state, hand>>
      PROVE  Unseen
  BY <1>1, SameManager DEF Unseen, OnPort, IsLoose, Owned
<1>2. ASSUME NEW c \in Conns, NEW i \in Instances, PeerConnect(c, i) PROVE Unseen
  <2>1. /\ UNCHANGED <<listeners, port, sock, pc, arg, targets, state, hand>>
        /\ owner' = [owner EXCEPT ![c] = i] /\ conn[c] = "new" /\ sock[i] = "open"
    BY <1>2 DEF PeerConnect, cmdVars
  <2>2. \A d \in Conns \ {c} : owner'[d] = owner[d]
    BY <2>1
  <2>3. /\ owner[c] = None /\ owner'[c] = i /\ state[c] = "none"
    BY <2>1 DEF BirthInv
  <2>4. \A d \in Conns : IsLoose(d)' <=> IsLoose(d)
    BY <2>1, <2>2, <2>3 DEF IsLoose, Owned
  <2>5. \A d \in Conns, p \in Ports : OnPort(d, p)' <=> OnPort(d, p)
    BY <2>1, <2>2, <2>3, SameManager DEF OnPort, Owned
  <2> QED BY <2>1, <2>4, <2>5, SameManager DEF Unseen
<1>3. ASSUME NEW c \in Conns, PeerHangup(c) PROVE Unseen
  BY <1>1, <1>3 DEF PeerHangup, lisVars, cmdVars
<1>4. ASSUME NEW c \in Conns, RxDead(c) PROVE Manager!ReceptionNext
  <2>1. /\ state[c] = "live" /\ state' = [state EXCEPT ![c] = "dead"]
        /\ UNCHANGED <<listeners, port, sock, pc, arg, targets, owner, hand>>
    BY <1>4 DEF RxDead, lisVars, cmdVars
  <2>2. \A d \in Conns : Late(d)' <=> Late(d)
    BY <2>1, SameManager
  <2> QED BY <2>1, <2>2, EndStep DEF Manager!ReceptionNext
<1>5. ASSUME NEW c \in Conns, WatchCancelled(c) \/ WatchDead(c) \/ WatchEmit(c)
      PROVE Unseen
  BY <1>1, <1>5 DEF WatchCancelled, WatchDead, WatchEmit, lisVars, cmdVars
<1>6. CASE Consumer
  BY <1>1, <1>6 DEF Consumer, Consume, ClientGone, ForwarderExit, ClientCome, lisVars,
                    connVars, cmdVars
<1>7. CASE Stopping
  <2>1. UNCHANGED <<listeners, port, sock, targets, owner, state, hand>>
    BY <1>7 DEF Stopping, Shutdown, ShutdownPorts, ShutdownNext, Exit, lisVars, connVars
  <2>2. \A k \in Closers : /\ pc'[k] \in {"sessions", "socket"}
                               <=> pc[k] \in {"sessions", "socket"}
                           /\ pc[k] \in {"sessions", "socket"}
                               => arg'[k] = arg[k] /\ targets'[k] = targets[k]
    BY <1>7 DEF Stopping, Shutdown, ShutdownPorts, ShutdownNext, Exit, Closers
  <2>3. \A c \in Conns : Late(c)' <=> Late(c)
    BY <2>1, <2>2, SameLate
  <2> QED BY <2>1, <2>3 DEF Unseen, Opened, OnPort, IsLoose, Owned
<1> QED BY <1>2, <1>3, <1>4, <1>5, <1>6, <1>7 DEF Peers, Sess

LEMMA CommandsSeen ==
  ASSUME LifeInv, Commands
  PROVE  Manager!ReceptionNext \/ Unseen
<1> USE ListenerAssumption DEF LifeInv, ManagerInv, TInv, TypeOK
<1>1. ASSUME NEW p \in Ports, NEW i \in Instances, Open(p, i)
      PROVE  Manager!OpenPort(p)
  <2>1. /\ mu = "none" /\ mu' = "none" /\ sock[i] = "unborn"
        /\ \A j \in Instances : port[j] = p => sock[j] # "open"
        /\ port' = [port EXCEPT ![i] = p] /\ sock' = [sock EXCEPT ![i] = "open"]
        /\ UNCHANGED <<pc, arg, targets, owner, state, hand>>
    BY <1>1 DEF Open, connVars, cmdVars
  <2>2. p \notin Opened /\ Opened' = Opened \cup {p}
    BY <2>1 DEF Opened
  <2>3. \A c \in Conns : owner[c] # i
    BY <2>1 DEF BirthInv
  <2>4. \A c \in Conns : ~Late(c) /\ ~Late(c)'
    <3>1. \A k \in Closers : pc[k] \notin {"sessions", "socket"}
      BY <2>1 DEF LockInv, Closers
    <3> QED BY <2>1, <3>1 DEF Late
  <2>5. \A c \in Conns : owner[c] # None =>
           /\ owner[c] \in Instances \ {i}
           /\ sock'[owner[c]] = sock[owner[c]] /\ port'[owner[c]] = port[owner[c]]
    BY <2>1, <2>3
  <2>6. \A c \in Conns : IsLoose(c)' <=> IsLoose(c)
    BY <2>1, <2>5 DEF IsLoose, Owned
  <2>7. \A c \in Conns, q \in Ports : OnPort(c, q)' <=> OnPort(c, q)
    BY <2>1, <2>4, <2>5 DEF OnPort, Owned
  <2>8. LiveOn' = LiveOn /\ Loose' = Loose /\ Ended' = Ended
    BY <2>1, <2>6, <2>7, Seen DEF SeenAs, Ended
  <2> QED BY <2>2, <2>8 DEF Manager!OpenPort
<1>2. ASSUME UNCHANGED <<listeners, port, sock, owner, hand>>,
             \A k \in Closers : IF k = "cmd"
                THEN {pc[k], pc'[k]} \subseteq {"idle", "lock", "kill"}
                ELSE pc'[k] = pc[k] /\ arg'[k] = arg[k] /\ targets'[k] = targets[k]
      PROVE  Opened' = Opened /\ \A c \in Conns : Late(c)' <=> Late(c)
  <2>1. \A k \in Closers : /\ pc'[k] \in {"sessions", "socket"}
                               <=> pc[k] \in {"sessions", "socket"}
                           /\ pc[k] \in {"sessions", "socket"}
                               => arg'[k] = arg[k] /\ targets'[k] = targets[k]
    BY ONLY <1>2
  <2>2. \A c : Late(c)' <=> Late(c)
    BY ONLY <1>2, <2>1, SameLate
  <2> QED BY <1>2, <2>2 DEF Opened
<1>3. ASSUME NEW p \in Ports, CmdClose(p) PROVE Unseen
  <2>1. /\ UNCHANGED <<listeners, port, sock, owner, hand, state>>
        /\ Opened' = Opened /\ \A c \in Conns : Late(c)' <=> Late(c)
    BY <1>2, <1>3 DEF CmdClose, CmdReady, lisVars, connVars, Closers
  <2> QED BY <2>1 DEF Unseen, OnPort, IsLoose, Owned
<1>4. CASE KillRemove
  <2>1. /\ UNCHANGED <<listeners, port, sock, owner, hand, state>>
        /\ Opened' = Opened /\ \A c \in Conns : Late(c)' <=> Late(c)
    BY <1>2, <1>4 DEF KillRemove, lisVars, Closers
  <2> QED BY <2>1 DEF Unseen, OnPort, IsLoose, Owned
<1>5. ASSUME NEW c \in Conns, Kill(c) PROVE Manager!ReceptionNext \/ Unseen
  <2>1. /\ UNCHANGED <<listeners, port, sock, owner, hand>>
        /\ state' = [state EXCEPT ![c] = "dead"] /\ state[c] # "none"
        /\ Opened' = Opened /\ \A d \in Conns : Late(d)' <=> Late(d)
    BY <1>2, <1>5 DEF Kill, CmdReady, lisVars, Closers, ListedInv, Listed
  <2>2. CASE state[c] = "live"
    BY <2>1, <2>2, EndStep DEF Manager!ReceptionNext
  <2>3. CASE state[c] = "dead"
    <3>1. state' = state
      BY <2>1, <2>3
    <3> QED BY <2>1, <3>1 DEF Unseen, OnPort, IsLoose, Owned
  <2> QED BY <2>1, <2>2, <2>3
<1> QED BY <1>1, <1>3, <1>4, <1>5 DEF Commands, Manager!ReceptionNext

(* CloseAll lists every session that has come in on the port.              *)
LEMMA LockSeen ==
  ASSUME LifeInv, NEW k \in Closers, CloseLock(k)
  PROVE  Unseen
<1> USE ListenerAssumption DEF LifeInv, ManagerInv, TInv, TypeOK
<1>1. /\ UNCHANGED <<listeners, port, sock, owner, hand, state, arg>> /\ mu = "none"
      /\ \A j \in Closers \ {k} : pc'[j] = pc[j] /\ targets'[j] = targets[j]
      /\ \/ pc'[k] \notin {"sessions", "socket"}
         \/ listeners[arg[k]] # None /\ targets'[k] = ByPort(arg[k])
  BY DEF CloseLock, Return, lisVars, connVars
<1>2. \A j \in Closers : pc[j] \notin {"sessions", "socket"}
  BY <1>1 DEF LockInv, Closers
<1>3. ASSUME NEW c \in Conns, state[c] = "live" PROVE ~Late(c) /\ ~Late(c)'
  <2>1. ~Late(c)
    BY <1>2 DEF Late
  <2>2. ASSUME pc'[k] \in {"sessions", "socket"}, owner[c] = listeners[arg[k]]
        PROVE  c \in targets'[k]
    <3>1. listeners[arg[k]] # None /\ port[listeners[arg[k]]] = arg[k]
      BY <1>1, <2>2 DEF MapInv
    <3>2. c \in sessions
      BY <1>3 DEF ListedInv, Listed
    <3> QED BY <1>1, <1>3, <2>2, <3>1, <3>2 DEF ByPort, PortOf
  <2>3. \A j \in Closers \ {k} : pc'[j] \notin {"sessions", "socket"}
    BY <1>1, <1>2
  <2>4. ~Late(c)'
    BY <1>1, <2>2, <2>3 DEF Late
  <2> QED BY <2>1, <2>4
<1>4. \A c \in Conns, p \in Ports : OnPort(c, p)' <=> OnPort(c, p)
  BY <1>1, <1>3 DEF OnPort, Owned
<1>5. Opened' = Opened /\ \A c \in Conns : IsLoose(c)' <=> IsLoose(c)
  BY <1>1 DEF Opened, IsLoose, Owned
<1> QED BY <1>1, <1>4, <1>5 DEF Unseen

LEMMA SessionSeen ==
  ASSUME LifeInv, NEW k \in Closers, CloseSession(k)
  PROVE  Manager!ReceptionNext \/ Unseen
<1> USE ListenerAssumption DEF LifeInv, ManagerInv, TInv, TypeOK
<1>1. PICK c \in targets[k] : /\ state' = [state EXCEPT ![c] = "dead"]
                             /\ targets' = [targets EXCEPT ![k] = @ \ {c}]
  BY DEF CloseSession
<1>2. /\ UNCHANGED <<listeners, port, sock, owner, hand, pc, arg>>
      /\ c \in Conns /\ state[c] # "none"
  BY DEF CloseSession, lisVars, ListedInv, Listed
<1>3. \A d \in Conns \ {c} : Late(d)' <=> Late(d)
  <2> SUFFICES ASSUME NEW d \in Conns \ {c} PROVE Late(d)' <=> Late(d)
    OBVIOUS
  <2>1. \A j \in Closers : d \in targets'[j] <=> d \in targets[j]
    BY <1>1
  <2> QED BY <1>2, <2>1 DEF Late
<1>4. CASE state[c] = "live"
  BY <1>1, <1>2, <1>3, <1>4, EndStep DEF Manager!ReceptionNext
<1>5. CASE state[c] = "dead"
  <2>1. state' = state
    BY <1>1, <1>2, <1>5
  <2>2. \A d \in Conns, p \in Ports : OnPort(d, p)' <=> OnPort(d, p)
    BY <1>2, <1>3, <1>5, <2>1 DEF OnPort, Owned
  <2> QED BY <1>2, <2>1, <2>2 DEF Unseen, Opened, IsLoose, Owned
<1> QED BY <1>2, <1>4, <1>5

(* When the socket closes, the sessions that last came in meanwhile.       *)
LEMMA SocketSeen ==
  ASSUME LifeInv, NEW k \in Closers, CloseSocket(k)
  PROVE  Manager!ClosePort(arg[k])
<1> USE ListenerAssumption DEF LifeInv, ManagerInv, TInv, TypeOK
<1>0. PICK i, p : i = listeners[arg[k]] /\ p = arg[k]
  OBVIOUS
<1>1. /\ UNCHANGED <<listeners, port, owner, hand, state, arg, targets>>
      /\ sock' = [sock EXCEPT ![i] = "closed"] /\ pc' = [pc EXCEPT ![k] = "delete"]
      /\ mu = k /\ pc[k] = "socket" /\ targets[k] = {}
  BY <1>0 DEF CloseSocket, LockInv, ListedInv, Listed
<1>2. i \in Instances /\ p \in Ports /\ port[i] = p /\ sock[i] = "open"
  <2>1. i \in Instances /\ p \in Ports /\ port[i] = p /\ sock[i] # "unborn"
    BY <1>0, <1>1 DEF LockInv, MapInv
  <2>2. sock[i] # "closed"
    BY <1>0, <1>1, <2>1 DEF MapInv, SocketsMapped
  <2> QED BY <2>1, <2>2
<1>3. \A j \in Instances : sock[j] = "open" /\ port[j] = p => j = i
  BY <1>0, <1>2 DEF MapInv, SocketsMapped
<1>4. \A j \in Closers : pc[j] \in {"sessions", "socket"} => j = k
  BY <1>1 DEF LockInv
<1>5. /\ \A c \in Conns : Late(c) <=> owner[c] = i
      /\ \A c \in Conns : ~Late(c)'
  BY <1>0, <1>1, <1>4 DEF Late, Closers
<1>6. p \in Opened /\ Opened' = Opened \ {p}
  BY <1>1, <1>2, <1>3 DEF Opened
<1>7. \A c \in Conns, q \in Ports : OnPort(c, q)' <=> OnPort(c, q)
  BY <1>1, <1>2, <1>5 DEF OnPort, Owned
<1>8. \A c \in Conns : ~OnPort(c, p)
  BY <1>2, <1>3, <1>5 DEF OnPort, Owned
<1> DEFINE late == {c \in Conns : IsLoose(c)' /\ ~IsLoose(c)}
<1>9. ASSUME NEW c \in Conns, IsLoose(c) PROVE IsLoose(c)'
  BY <1>1, <1>9 DEF IsLoose, Owned
<1>10. ASSUME NEW c \in late PROVE c \in Manager!Fresh
  <2>1. owner[c] = i /\ state[c] # "dead"
    BY <1>1, <1>10 DEF IsLoose, Owned
  <2> QED BY <1>5, <2>1, Seen DEF SeenAs, OnPort
<1>11. Loose' = Loose \cup late
  BY <1>9, Seen DEF SeenAs
<1>12. LiveOn' = LiveOn /\ LiveOn[p] = {}
  BY <1>2, <1>7, <1>8, Seen DEF SeenAs
<1>13. Ended' = Ended
  BY <1>1 DEF Ended
<1> HIDE DEF late
<1> QED BY <1>0, <1>6, <1>10, <1>11, <1>12, <1>13 DEF Manager!ClosePort

LEMMA ClosingSeen ==
  ASSUME LifeInv, NEW k \in Closers, Closing(k)
  PROVE  Manager!ReceptionNext \/ Unseen
<1> USE ListenerAssumption DEF LifeInv, ManagerInv, TInv, TypeOK
<1>1. CASE CloseCancel(k)
  <2>1. UNCHANGED <<listeners, port, sock, owner, hand, state, arg, targets>>
    BY <1>1 DEF CloseCancel, connVars
  <2>2. \A j \in Closers : /\ pc'[j] \in {"sessions", "socket"}
                               <=> pc[j] \in {"sessions", "socket"}
                           /\ arg'[j] = arg[j] /\ targets'[j] = targets[j]
    BY <1>1 DEF CloseCancel
  <2>3. \A c : Late(c)' <=> Late(c)
    BY <2>1, <2>2, SameLate
  <2> QED BY <2>1, <2>3 DEF Unseen, Opened, OnPort, IsLoose, Owned
<1>2. CASE CloseDelete(k)
  <2>1. /\ UNCHANGED <<port, sock, owner, hand, state>>
        /\ \A j \in Closers : {pc[j], pc'[j]} \cap {"sessions", "socket"} = {}
    BY <1>2 DEF CloseDelete, Return, LockInv, lisVars, connVars, Closers
  <2>2. \A c : ~Late(c)' /\ ~Late(c)
    BY <2>1 DEF Late
  <2> QED BY <2>1, <2>2 DEF Unseen, Opened, OnPort, IsLoose, Owned
<1>3. CASE CloseSocket(k)
  BY <1>3, SocketSeen DEF Manager!ReceptionNext
<1> QED BY <1>1, <1>2, <1>3, LockSeen, SessionSeen DEF Closing

LEMMA NextSeen ==
  LifeInv /\ [Next]_vars => [Manager!ReceptionNext]_Manager!receptionVars
<1> SUFFICES ASSUME LifeInv, [Next]_vars
             PROVE  Manager!ReceptionNext \/ UNCHANGED Manager!receptionVars
  OBVIOUS
<1>1. CASE UNCHANGED vars
  <2>1. UNCHANGED <<listeners, port, sock, pc, arg, targets, owner, state, hand>>
    BY <1>1 DEF vars, lisVars, connVars, cmdVars
  <2> QED BY <2>1, SameManager, UnseenStutters DEF Unseen, OnPort, IsLoose, Owned
<1> QED
  BY <1>1, UnseenStutters, LoopSeen, OthersSeen, CommandsSeen, ClosingSeen DEF Next

LEMMA InitSeen == Init => Manager!ReceptionInit
<1> SUFFICES ASSUME Init PROVE Manager!ReceptionInit
  OBVIOUS
<1>1. Opened = {} /\ Loose = {} /\ Ended = {} /\ LiveOn = [p \in Ports |-> {}]
  BY DEF Init, Opened, Loose, Ended, LiveOn, Owned
<1> QED BY <1>1 DEF Manager!ReceptionInit

(* Whatever accept loops, watchers, kill and the two closers do meanwhile, *)
(* a port stops listening only when every session that came in on it has   *)
(* ended, but those that came in after close had listed them; and no       *)
(* session comes in on a port that does not listen but these.              *)
THEOREM ListenersImplementReception == Spec => PortsCloseEmpty
<1>1. Init => BirthInv /\ ListedInv
  BY LifeInit
<1>2. /\ ManagerInv /\ LogInv /\ BirthInv /\ ListedInv /\ [Next]_vars
      => (BirthInv /\ ListedInv)'
  BY BirthStep, ListedStep DEF ListedInv
<1>3. LifeInv <=> ManagerInv /\ BirthInv /\ ListedInv
  BY DEF LifeInv
<1> QED
  BY <1>1, <1>2, <1>3, InitSeen, NextSeen, ManagerAlways, LogAlways, PTL
  DEF Spec, PortsCloseEmpty, Manager!ReceptionSpec
=============================================================================
