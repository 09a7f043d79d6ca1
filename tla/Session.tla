------------------------------ MODULE Session ------------------------------
(***************************************************************************)
(* One accepted connection (internal/session/session.go) and the           *)
(* goroutines that share it: the RX loop that is the sole reader of the    *)
(* socket, the WaitDead goroutine of the listener's watcher, the drain     *)
(* goroutine that each `use` starts, and the command goroutine (REPL or    *)
(* server dispatch loop) that attaches, detaches, reads and kills.         *)
(*                                                                         *)
(* rxMu and rxCond are modelled step by step: sync.Cond.Wait adds the      *)
(* caller to the notify list, then unlocks; Broadcast empties the list and *)
(* does not need the lock.  A critical section is one step except where a  *)
(* waiter tests its condition (state and exitFlag are not guarded by rxMu) *)
(* and parks: those are two steps with rxMu held in between.               *)
(***************************************************************************)
EXTENDS Integers, Sequences

CONSTANTS
  Drainers,   \* identities of drain goroutines: one per `use` of the session
  Server,     \* TRUE: serveSession (server mode); FALSE: enterSession (REPL)
  MaxBytes    \* bound on the bytes the peer sends

ASSUME SessionAssumption ==
  /\ Drainers \cap {"rx", "watch", "cmd", "none"} = {}
  /\ Server \in BOOLEAN
  /\ MaxBytes \in Nat

VARIABLES
  state,        \* Session.state
  registered,   \* the session is in session.Manager.sessions
  sent,         \* bytes the peer has sent; the n-th byte is written n
  wire,         \* sent, not yet read from the socket
  peerClosed,   \* the remote end is gone
  connClosed,   \* Session.Conn.Close() was called
  chunk,        \* read by the RX loop, not yet appended to rxBuf
  rxBuf,        \* Session.rxBuf
  rxMu,         \* holder of Session.rxMu between two steps, or "none"
  waiters,      \* notify list of Session.rxCond
  pc,           \* where each goroutine is
  cur,          \* drain goroutine of the current attachment, or "none"
  exitFlag,     \* drain goroutines whose exitFlag is set
  hand,         \* per drain goroutine: what it took and has not output yet
  drained,      \* history: everything taken from rxBuf, in that order
  out,          \* history: what the user was shown, in that order
  writeFailed   \* history: a passthrough write failed

sockVars  == <<sent, wire, peerClosed, connClosed>>
cmdVars   == <<cur, exitFlag, writeFailed>>
vars == <<state, registered, sockVars, chunk, rxBuf, rxMu, waiters, pc,
          hand, drained, out, cmdVars>>

Sleepers == Drainers \cup {"watch"}      \* goroutines that wait on rxCond
Threads  == Sleepers \cup {"rx", "cmd"}
Notice   == 0          \* "Session %d closed by remote", shown by a drainer
NoHand   == [data |-> <<>>, isDead |-> FALSE]

Live == registered /\ state # "Dead"     \* what Manager.ByPort returns

Start(t) == CASE t = "rx" -> "read" [] t = "watch" -> "lock"
              [] t = "cmd" -> "menu" [] OTHER -> "unborn"
Goto(t, l) == pc' = [pc EXCEPT ![t] = l]

Init ==
  /\ state = "Active" /\ registered = TRUE
  /\ sent = 0 /\ wire = <<>> /\ peerClosed = FALSE /\ connClosed = FALSE
  /\ chunk = <<>> /\ rxBuf = <<>>
  /\ rxMu = "none" /\ waiters = {}
  /\ pc = [t \in Threads |-> Start(t)]
  /\ cur = "none" /\ exitFlag = {}
  /\ hand = [d \in Drainers |-> NoHand]
  /\ drained = <<>> /\ out = <<>> /\ writeFailed = FALSE

-----------------------------------------------------------------------------
(* The remote end. *)

PeerSend ==
  /\ sent < MaxBytes /\ ~peerClosed /\ ~connClosed
  /\ sent' = sent + 1 /\ wire' = Append(wire, sent + 1)
  /\ UNCHANGED <<state, registered, peerClosed, connClosed, chunk, rxBuf, rxMu,
                 waiters, pc, hand, drained, out, cmdVars>>

PeerClose ==
  /\ ~peerClosed /\ peerClosed' = TRUE
  /\ UNCHANGED <<state, registered, sent, wire, connClosed, chunk, rxBuf, rxMu,
                 waiters, pc, hand, drained, out, cmdVars>>

-----------------------------------------------------------------------------
(* rxCond.  Broadcast wakes every parked goroutine, with or without rxMu. *)

BroadcastLost == UNCHANGED waiters    \* mutant: nobody is woken
Broadcast     == waiters' = {}

Awake(t) == t \notin waiters

(* Take rxMu: on entry, or inside Wait once woken. *)
Acquire(t) ==
  /\ pc[t] \in {"lock", "wait"} /\ Awake(t)
  /\ rxMu = "none" /\ rxMu' = t
  /\ Goto(t, "check")
  /\ UNCHANGED <<state, registered, sockVars, chunk, rxBuf, waiters, hand,
                 drained, out, cmdVars>>

(* Wait: join the notify list, then release rxMu. *)
Park(t) ==
  /\ pc[t] = "park"
  /\ waiters' = waiters \cup {t} /\ rxMu' = "none"
  /\ Goto(t, "wait")
  /\ UNCHANGED <<state, registered, sockVars, chunk, rxBuf, hand, drained, out,
                 cmdVars>>

-----------------------------------------------------------------------------
(* StartRxLoop. *)

RxRead ==
  /\ pc["rx"] = "read" /\ ~connClosed
  /\ \E n \in 1 .. Len(wire) :
       chunk' = SubSeq(wire, 1, n) /\ wire' = SubSeq(wire, n + 1, Len(wire))
  /\ Goto("rx", "append")
  /\ UNCHANGED <<state, registered, sent, peerClosed, connClosed, rxBuf, rxMu,
                 waiters, hand, drained, out, cmdVars>>

BufferedLossy == chunk                 \* mutant: overwrites the buffer
Buffered      == rxBuf \o chunk

RxAppendLocked ==                      \* mutant: rxMu is not unlocked
  /\ pc["rx"] = "append" /\ rxMu = "none"
  /\ rxBuf' = Buffered /\ chunk' = <<>>
  /\ Broadcast /\ rxMu' = "rx"
  /\ Goto("rx", "read")
  /\ UNCHANGED <<state, registered, sockVars, hand, drained, out, cmdVars>>

RxAppend ==
  /\ pc["rx"] = "append" /\ rxMu = "none"
  /\ rxBuf' = Buffered /\ chunk' = <<>>
  /\ Broadcast
  /\ Goto("rx", "read")
  /\ UNCHANGED <<state, registered, sockVars, rxMu, hand, drained, out, cmdVars>>

(* Read fails: the socket was closed here, or the peer is gone and all it  *)
(* sent has been read.                                                     *)
ReadFailsEarly == connClosed \/ peerClosed    \* mutant: drops what is unread
ReadFails      == connClosed \/ (peerClosed /\ wire = <<>>)

RxError ==
  /\ pc["rx"] = "read" /\ ReadFails
  /\ Goto("rx", IF state # "Dead" THEN "setdead" ELSE "bcast")
  /\ UNCHANGED <<state, registered, sockVars, chunk, rxBuf, rxMu, waiters, hand,
                 drained, out, cmdVars>>

RxSetDead ==
  /\ pc["rx"] = "setdead"
  /\ state' = "Dead" /\ Goto("rx", "bcast")
  /\ UNCHANGED <<registered, sockVars, chunk, rxBuf, rxMu, waiters, hand,
                 drained, out, cmdVars>>

(* The last broadcast of the RX loop is sent without rxMu. *)
RxBroadcast ==
  /\ pc["rx"] = "bcast"
  /\ Broadcast /\ Goto("rx", "done")
  /\ UNCHANGED <<state, registered, sockVars, chunk, rxBuf, rxMu, hand, drained,
                 out, cmdVars>>

-----------------------------------------------------------------------------
(* WaitDead, the goroutine of watchSession. *)

WatchCheck ==
  /\ pc["watch"] = "check"
  /\ IF state = "Dead"
     THEN rxMu' = "none" /\ Goto("watch", "returned")
     ELSE UNCHANGED rxMu /\ Goto("watch", "park")
  /\ UNCHANGED <<state, registered, sockVars, chunk, rxBuf, waiters, hand,
                 drained, out, cmdVars>>

(* watchSession reports ConnDead only if the session is dead when it looks. *)
WatchReport ==
  /\ pc["watch"] = "returned"
  /\ Goto("watch", IF state = "Dead" THEN "reported" ELSE "done")
  /\ UNCHANGED <<state, registered, sockVars, chunk, rxBuf, rxMu, waiters, hand,
                 drained, out, cmdVars>>

(* The event consumer handles ConnDead: sessions.Remove. *)
RemoveDead ==
  /\ pc["watch"] = "reported"
  /\ registered' = FALSE /\ Goto("watch", "done")
  /\ UNCHANGED <<state, sockVars, chunk, rxBuf, rxMu, waiters, hand, drained,
                 out, cmdVars>>

-----------------------------------------------------------------------------
(* The drain goroutine of session mode. *)

Idle(d) == rxBuf = <<>> /\ state # "Dead" /\ d \notin exitFlag

DrainWait(d) ==
  /\ pc[d] = "check" /\ Idle(d)
  /\ Goto(d, "park")
  /\ UNCHANGED <<state, registered, sockVars, chunk, rxBuf, rxMu, waiters, hand,
                 drained, out, cmdVars>>

DrainTakeKeeps(d) ==                   \* mutant: the buffer is not emptied
  /\ pc[d] = "check" /\ ~Idle(d)
  /\ hand' = [hand EXCEPT ![d] = [data |-> rxBuf, isDead |-> state = "Dead"]]
  /\ drained' = drained \o rxBuf /\ rxMu' = "none"
  /\ Goto(d, IF state = "Dead" \/ d \in exitFlag THEN "last" ELSE "output")
  /\ UNCHANGED <<state, registered, sockVars, chunk, rxBuf, waiters, out, cmdVars>>

(* DrainRxBuf and the reads of state and exitFlag, then unlock. *)
DrainTake(d) ==
  /\ pc[d] = "check" /\ ~Idle(d)
  /\ hand' = [hand EXCEPT ![d] = [data |-> rxBuf, isDead |-> state = "Dead"]]
  /\ drained' = drained \o rxBuf /\ rxBuf' = <<>>
  /\ rxMu' = "none"
  /\ Goto(d, IF state = "Dead" \/ d \in exitFlag THEN "last" ELSE "output")
  /\ UNCHANGED <<state, registered, sockVars, chunk, waiters, out, cmdVars>>

ShownUnlessDone(d) ==                  \* mutant: exitFlag is looked at first
  IF d \in exitFlag THEN <<>> ELSE hand[d].data
Shown(d) == hand[d].data

(* Output what was taken, then the notice if the session was dead; the     *)
(* REPL looks at the state once more before it prints the notice.          *)
DrainOutput(d) ==
  /\ pc[d] \in {"output", "last"}
  /\ out' = out \o Shown(d)
                \o (IF hand[d].isDead /\ (Server \/ state = "Dead")
                    THEN <<Notice>> ELSE <<>>)
  /\ hand' = [hand EXCEPT ![d] = NoHand]
  /\ Goto(d, IF pc[d] = "last" THEN "done" ELSE "lock")
  /\ UNCHANGED <<state, registered, sockVars, chunk, rxBuf, rxMu, waiters,
                 drained, cmdVars>>

-----------------------------------------------------------------------------
(* The command goroutine: use, and the ways out of session mode. *)

(* Bound: one `use` per member of Drainers. *)
UsePick ==
  /\ pc["cmd"] = "menu" /\ Live /\ \E d \in Drainers : pc[d] = "unborn"
  /\ Goto("cmd", "picked")
  /\ UNCHANGED <<state, registered, sockVars, chunk, rxBuf, rxMu, waiters, hand,
                 drained, out, cmdVars>>

(* SetState(Foreground) is unconditional; then the drain goroutine starts. *)
UseAttach(d) ==
  /\ pc["cmd"] = "picked" /\ pc[d] = "unborn"
  /\ state' = "Foreground" /\ cur' = d
  /\ pc' = [pc EXCEPT !["cmd"] = "session", ![d] = "lock"]
  /\ UNCHANGED <<registered, sockVars, chunk, rxBuf, rxMu, waiters, hand,
                 drained, out, exitFlag, writeFailed>>

(* Only the server tells the drain goroutine that its user has left. *)
TellDrainer ==
  IF Server THEN exitFlag' = exitFlag \cup {cur} /\ Broadcast
            ELSE UNCHANGED <<exitFlag, waiters>>

(* +back, end of input, or the client is gone. *)
Back ==
  /\ pc["cmd"] = "session"
  /\ TellDrainer /\ Goto("cmd", "defer")
  /\ UNCHANGED <<state, registered, sockVars, chunk, rxBuf, rxMu, hand, drained,
                 out, cur, writeFailed>>

(* +bg, +background: SetState(Background) is unconditional. *)
Bg ==
  /\ pc["cmd"] = "session"
  /\ TellDrainer /\ state' = "Background" /\ Goto("cmd", "defer")
  /\ UNCHANGED <<registered, sockVars, chunk, rxBuf, rxMu, hand, drained, out,
                 cur, writeFailed>>

(* A passthrough line whose Write fails.  The server broadcasts and stays  *)
(* until the drain goroutine is done, the REPL returns to the menu.        *)
WriteFail ==
  /\ pc["cmd"] = "session" /\ state # "Dead" /\ (connClosed \/ peerClosed)
  /\ state' = "Dead" /\ writeFailed' = TRUE
  /\ IF Server THEN Broadcast /\ UNCHANGED pc
               ELSE Goto("cmd", "defer") /\ UNCHANGED waiters
  /\ UNCHANGED <<registered, sockVars, chunk, rxBuf, rxMu, hand, drained, out,
                 cur, exitFlag>>

(* rxDone / remoteDone: the drain goroutine has returned.  The server      *)
(* selects on it; the REPL looks only after a line it has handled.         *)
SessionOver ==
  /\ pc["cmd"] = "session" /\ pc[cur] = "done"
  /\ Goto("cmd", "defer")
  /\ UNCHANGED <<state, registered, sockVars, chunk, rxBuf, rxMu, waiters, hand,
                 drained, out, cmdVars>>

(* The deferred function: if State() == Foreground, SetState(Background). *)
NextAfterDeferNone == "menu"           \* mutant: no deferred SetState
NextAfterDefer     == IF state = "Foreground" THEN "setbg" ELSE "menu"

Defer ==
  /\ pc["cmd"] = "defer"
  /\ Goto("cmd", NextAfterDefer)
  /\ UNCHANGED <<state, registered, sockVars, chunk, rxBuf, rxMu, waiters, hand,
                 drained, out, cmdVars>>

DeferSet ==
  /\ pc["cmd"] = "setbg"
  /\ state' = "Background" /\ Goto("cmd", "menu")
  /\ UNCHANGED <<registered, sockVars, chunk, rxBuf, rxMu, waiters, hand,
                 drained, out, cmdVars>>

-----------------------------------------------------------------------------
(* The command goroutine at the menu: read, kill. *)

ReadBuffered ==
  /\ pc["cmd"] = "menu" /\ Live /\ rxMu = "none" /\ rxBuf # <<>>
  /\ out' = out \o rxBuf /\ drained' = drained \o rxBuf /\ rxBuf' = <<>>
  /\ UNCHANGED <<state, registered, sockVars, chunk, rxMu, waiters, pc, hand,
                 cmdVars>>

(* Close and ForceClose differ in how the socket ends (FIN, RST) only. *)
CloseConnNot == UNCHANGED connClosed   \* mutant: kill leaves the socket open
CloseConn    == connClosed' = TRUE

KillClose ==
  /\ pc["cmd"] = "menu" /\ Live
  /\ CloseConn /\ Goto("cmd", "killed")
  /\ UNCHANGED <<state, registered, sent, wire, peerClosed, chunk, rxBuf, rxMu,
                 waiters, hand, drained, out, cmdVars>>

KillRemove ==
  /\ pc["cmd"] = "killed"
  /\ state' = "Dead" /\ registered' = FALSE /\ Goto("cmd", "menu")
  /\ UNCHANGED <<sockVars, chunk, rxBuf, rxMu, waiters, hand, drained, out,
                 cmdVars>>

-----------------------------------------------------------------------------
Peer    == PeerSend \/ PeerClose
RxLoop  == RxRead \/ RxAppend \/ RxError \/ RxSetDead \/ RxBroadcast
Watch   == WatchCheck \/ WatchReport \/ RemoveDead
Drain(d) == DrainWait(d) \/ DrainTake(d) \/ DrainOutput(d)
(* What the command goroutine does of itself, and what its user chooses. *)
Attach  == \E d \in Drainers : UseAttach(d)
Finish  == Attach \/ Defer \/ DeferSet \/ KillRemove
User    == UsePick \/ Back \/ Bg \/ WriteFail \/ ReadBuffered \/ KillClose

Next ==
  \/ Peer \/ RxLoop \/ Watch \/ Finish \/ SessionOver \/ User
  \/ \E t \in Sleepers : Acquire(t) \/ Park(t)
  \/ \E d \in Drainers : Drain(d)

Spec == Init /\ [][Next]_vars

(* The Go scheduler runs every runnable goroutine and sync.Mutex does not  *)
(* starve a goroutine that keeps asking: strong fairness for the steps     *)
(* that take rxMu, weak fairness for the others.  The peer and the user    *)
(* owe nothing.                                                            *)
Fairness ==
  /\ WF_vars(RxLoop) /\ SF_vars(RxAppend)
  /\ WF_vars(Watch) /\ WF_vars(Finish)
  /\ Server => WF_vars(SessionOver)
  /\ \A t \in Sleepers : SF_vars(Acquire(t)) /\ WF_vars(Park(t))
  /\ \A d \in Drainers : WF_vars(Drain(d))

FairSpec == Spec /\ Fairness

-----------------------------------------------------------------------------
(* Every variable has its type; rxMu is held across steps only by a waiter *)
(* that is testing its condition or parking (session.go rxMu, rxCond).     *)
Byte == 1 .. MaxBytes
Locked == {"check", "park"}

TypeOK ==
  /\ state \in {"Active", "Foreground", "Background", "Dead"}
  /\ registered \in BOOLEAN
  /\ sent \in 0 .. MaxBytes
  /\ wire \in Seq(Byte) /\ chunk \in Seq(Byte) /\ rxBuf \in Seq(Byte)
  /\ drained \in Seq(Byte) /\ out \in Seq(Byte \cup {Notice})
  /\ peerClosed \in BOOLEAN /\ connClosed \in BOOLEAN /\ writeFailed \in BOOLEAN
  /\ rxMu \in Sleepers \cup {"none"}
  /\ waiters \subseteq Sleepers
  /\ cur \in Drainers \cup {"none"} /\ exitFlag \subseteq Drainers
  /\ hand \in [Drainers -> [data : Seq(Byte), isDead : BOOLEAN]]
  /\ DOMAIN pc = Threads
  /\ pc["rx"] \in {"read", "append", "setdead", "bcast", "done"}
  /\ pc["watch"] \in {"lock", "check", "park", "wait", "returned", "reported",
                     "done"}
  /\ pc["cmd"] \in {"menu", "picked", "session", "defer", "setbg", "killed"}
  /\ \A d \in Drainers : pc[d] \in {"unborn", "lock", "check", "park", "wait",
                                   "output", "last", "done"}

(* rxBuf loses, repeats and reorders nothing, however many readers drain   *)
(* it and whenever the connection ends: what has been taken, what is       *)
(* buffered, what the RX loop holds and what is on the socket are, in this *)
(* order, exactly the bytes the peer sent.                                 *)
Stream   == drained \o rxBuf \o chunk \o wire
Lossless == Stream = [i \in 1 .. sent |-> i]

(* A drain goroutine never sleeps on received data: while one is parked on *)
(* rxCond the buffer is empty (RxAppend broadcasts under rxMu, and a       *)
(* waiter holds rxMu from its test until it is on the notify list).        *)
NoSleepOnData == \A d \in Drainers \cap waiters : rxBuf = <<>>

(* When the remote end hangs up of itself, "closed by remote" is announced *)
(* only after every byte it sent has been taken from the buffer: the last  *)
(* output of the peer is not left behind.  (A local kill or a failed write *)
(* may cut the stream short.)                                              *)
NoticeComplete ==
  (\E i \in DOMAIN out : out[i] = Notice) /\ ~connClosed /\ ~writeFailed
    => Len(drained) = sent

(* The session is marked foreground only while its user is attached or on  *)
(* the way out: at the menu it never is (the deferred SetState).           *)
ForegroundIsAttached ==
  state = "Foreground" => pc["cmd"] \in {"session", "defer", "setbg"}

(* The manager forgets a session (kill, ConnDead) only when its connection *)
(* is down: no connection is left up that no command can reach.            *)
NeverForgotten == ~registered => connClosed \/ peerClosed

(* The receive path implements the abstract byte stream.                   *)
Abstract == INSTANCE ByteStream WITH pending <- rxBuf \o chunk \o wire,
                                     taken   <- drained
RefinesStream == Abstract!StreamSpec

(* Received data is shown: a byte in the buffer of an attached session is  *)
(* eventually output, unless the user detaches or the session is over.     *)
Attached(d) == pc["cmd"] = "session" /\ cur = d /\ pc[d] # "done"
DataShown ==
  \A d \in Drainers, b \in Byte :
    (Attached(d) /\ \E i \in DOMAIN rxBuf : rxBuf[i] = b)
      ~> (~Attached(d) \/ \E i \in DOMAIN out : out[i] = b)

(* session/manager.go: "ByPort returns all live sessions": a session whose *)
(* connection has ended for good (its RX loop has exited) is not listed,   *)
(* because StateDead, once set, is kept.                                   *)
ListedIsLive == Live => pc["rx"] # "done"

(* session.go: "WaitDead blocks until the session transitions to           *)
(* StateDead", and no longer: once the connection has ended it returns.    *)
WaitDeadReturns ==
  pc["rx"] = "done" ~> pc["watch"] \in {"returned", "reported", "done"}

(* server.go: "exitFlag tells the RX goroutine to stop when we exit".      *)
ExitStopsDrainer == \A d \in Drainers : d \in exitFlag ~> pc[d] = "done"

(* dispatcher.go: "doRead drains and returns buffered RX data", README:    *)
(* "+back: Return to menu": at the menu, what leaves the buffer leaves     *)
(* through the read command.                                               *)
OnlyReadDrains ==
  [][pc["cmd"] = "menu" /\ drained' # drained => ReadBuffered]_vars
=============================================================================
