------------------------------ MODULE Console -------------------------------
(***************************************************************************)
(* The REPL as a process (internal/console/repl.go and signals.go): the    *)
(* main goroutine at the menu, in session mode and at its two prompts; the *)
(* event loop, which handles signals; and doExit, which both may run at    *)
(* the same time.  The commands of the menu are Dispatcher.tla's.          *)
(*                                                                         *)
(* How received data reaches the terminal is in Session.tla, how events    *)
(* reach the event loop, and that closing a listener returns, in           *)
(* Listener.tla.                                                           *)
(***************************************************************************)
EXTENDS Dispatcher

CONSTANTS
  Lines,    \* lines the user may type
  SigCap,   \* capacity of the signal channel (4)
  None      \* no session

ASSUME ConsoleAssumption == SigCap \in Nat \ {0} /\ None \notin Conns

VARIABLES
  pc,          \* where main and the event loop are
  shown,       \* the sessions `use` lists for the user to choose from
  cur,         \* the session entered
  known,       \* doExit's `active`, in main
  consent,     \* why main shuts down: "none", "yes", "eof"
  todo,        \* per goroutine: the ports CloseAll has yet to close
  sigs,        \* the signal channel
  notify,      \* signal.Notify is in force
  ctx,         \* the REPL's context: "live", "cancelled"
  rl,          \* readline: "open", "closed"
  late,        \* history: local ports opened after the context was cancelled
  proc         \* "run", or how the process ended

useVars  == <<shown, cur>>
exitVars == <<known, consent, todo>>
sigVars  == <<sigs, notify>>
vars == <<tables, pc, useVars, exitVars, sigVars, ctx, rl, late, proc>>

Init ==
  /\ TablesInit
  /\ pc = [main |-> "menu", ev |-> "select"]
  /\ shown = {} /\ cur = None
  /\ known = {} /\ consent = "none"
  /\ todo = [main |-> {}, ev |-> {}]
  /\ sigs = <<>> /\ notify = TRUE /\ ctx = "live" /\ rl = "open"
  /\ late = {} /\ proc = "run"

Goto(g, where) == pc' = [pc EXCEPT ![g] = where]

-----------------------------------------------------------------------------
(* The environment: peers come and go, the kernel delivers signals.  A     *)
(* signal finds no room in the channel and is dropped, or finds nobody who *)
(* asked for it and ends the process.                                      *)

Peer ==
  /\ \E c \in Conns : Connect(c) \/ Hangup(c)
  /\ UNCHANGED <<pc, useVars, exitVars, sigVars, ctx, rl, late, proc>>

Signal(s) ==
  /\ IF notify
     THEN Len(sigs) < SigCap /\ sigs' = Append(sigs, s) /\ UNCHANGED proc
     ELSE proc' = "killed" /\ UNCHANGED sigs
  /\ UNCHANGED <<tables, pc, useVars, exitVars, notify, ctx, rl, late>>

-----------------------------------------------------------------------------
(* doExit.  `active` is a snapshot; only a confirmed exit looks at it. *)

ExitBeginMany(confirm) ==       \* mutant: one session is not worth a question
  /\ known' = Live
  /\ Goto("main", IF confirm /\ Cardinality(Live) > 1 THEN "ask" ELSE "stop")
  /\ consent' = IF confirm THEN consent ELSE "eof"
  /\ UNCHANGED <<tables, useVars, todo, sigVars, ctx, rl, late, proc>>

ExitBegin(confirm) ==
  /\ known' = Live
  /\ Goto("main", IF confirm /\ Live # {} THEN "ask" ELSE "stop")
  /\ consent' = IF confirm THEN consent ELSE "eof"
  /\ UNCHANGED <<tables, useVars, todo, sigVars, ctx, rl, late, proc>>

(* "no" returns to the caller: Run, which returns to main, or the session  *)
(* loop, which calls os.Exit.                                              *)
ExitAnswer ==
  /\ pc["main"] = "ask"
  /\ \/ consent' = "yes" /\ Goto("main", "stop") /\ UNCHANGED proc
     \/ proc' = "left" /\ UNCHANGED <<pc, consent>>
  /\ UNCHANGED <<tables, useVars, known, todo, sigVars, ctx, rl, late>>

ExitStop(g) ==               \* signals.Stop, cancel
  /\ pc[g] = "stop" /\ Goto(g, "ports")
  /\ notify' = FALSE /\ ctx' = "cancelled"
  /\ UNCHANGED <<tables, useVars, exitVars, sigs, rl, late, proc>>

ExitList(g) ==               \* CloseAll lists the ports, then the entries
  /\ \/ /\ pc[g] = "ports" /\ Goto(g, "close")
        /\ todo' = [todo EXCEPT ![g] = open]
     \/ /\ pc[g] = "close" /\ todo[g] = {} /\ Goto(g, "drop")
        /\ todo' = [todo EXCEPT ![g] = DOMAIN fwds]
  /\ UNCHANGED <<tables, useVars, known, consent, sigVars, ctx, rl, late, proc>>

ExitCloseOther(g) ==         \* mutant: stops when somebody else has closed a port
  /\ \E p \in todo[g] :
       /\ todo' = [todo EXCEPT ![g] = IF p \in open \cup DOMAIN fwds THEN @ \ {p} ELSE {}]
       /\ \/ pc[g] = "close" /\ ClosePort(p) /\ UNCHANGED fwds
          \/ pc[g] = "drop" /\ fwds' = Without(p) /\ UNCHANGED <<open, sess, stray>>
  /\ UNCHANGED <<panic, pc, useVars, known, consent, sigVars, ctx, rl, late, proc>>

ExitClose(g) ==              \* Close of one of them, or its error
  /\ \E p \in todo[g] :
       /\ todo' = [todo EXCEPT ![g] = @ \ {p}]
       /\ \/ pc[g] = "close" /\ ClosePort(p) /\ UNCHANGED fwds
          \/ pc[g] = "drop" /\ fwds' = Without(p) /\ UNCHANGED <<open, sess, stray>>
  /\ UNCHANGED <<panic, pc, useVars, known, consent, sigVars, ctx, rl, late, proc>>

ExitReadline(g) ==           \* rl.Close makes Readline return io.EOF
  /\ pc[g] = "drop" /\ todo[g] = {}
  /\ rl' = "closed" /\ Goto(g, "end")
  /\ UNCHANGED <<tables, useVars, exitVars, sigVars, ctx, late, proc>>

(* Run returns to main; the session loop and the event loop call os.Exit. *)
End(g) ==
  /\ pc[g] = "end" /\ proc' = "closed"
  /\ UNCHANGED <<tables, pc, useVars, exitVars, sigVars, ctx, rl, late>>

Exiting(g) == ExitStop(g) \/ ExitList(g) \/ ExitClose(g) \/ ExitReadline(g) \/ End(g)

-----------------------------------------------------------------------------
(* The main goroutine.  Ctrl+C, empty lines, !<cmd> and +back at the menu  *)
(* print something or nothing.                                             *)

Enter(s) == cur' = s /\ shown' = {} /\ Goto("main", "session") /\ SetState(s)

(* doUse. *)
Use(args) ==
  /\ args # <<>> /\ IsPortIdx(args[1])
  /\ \E listed \in Orders(ByPort(Port(args[1]))) :
       LET n == Index(args[1]) IN
       /\ listed # <<>>
       /\ CASE n = 0 /\ Len(listed) = 1 -> Enter(listed[1]) /\ UNCHANGED panic
            [] n = 0 /\ Len(listed) > 1 -> /\ shown' = ByPort(Port(args[1]))
                                           /\ Goto("main", "choose")
                                           /\ UNCHANGED <<cur, sess, panic>>
            [] Panics(Len(listed), n)
                 -> panic' = n /\ UNCHANGED <<pc, useVars, sess>>
            [] n \in 1 .. Len(listed) -> Enter(listed[n]) /\ UNCHANGED panic
            [] TooHigh(Len(listed), n) -> UNCHANGED <<pc, useVars, sess, panic>>
  /\ UNCHANGED <<open, stray, fwds, exitVars, sigVars, ctx, rl, late, proc>>

Choose ==
  /\ pc["main"] = "choose"
  /\ \/ \E s \in shown : Enter(s)
     \/ Goto("main", "menu") /\ shown' = {} /\ UNCHANGED <<cur, sess>>
  /\ UNCHANGED <<open, stray, fwds, panic, exitVars, sigVars, ctx, rl, late, proc>>

Command(line) ==
  /\ Dispatch(line)
  /\ late' = IF ctx = "live" THEN {}
             ELSE late \cup ((open' \cup DOMAIN fwds') \ (open \cup DOMAIN fwds))
  /\ UNCHANGED <<pc, useVars, exitVars, sigVars, ctx, rl, proc>>

MenuLine(line) ==
  /\ pc["main"] = "menu" /\ rl = "open"
  /\ CASE Kind(line, FALSE) \in {"special", "tool"} /\ Exits(line)
            -> ExitBegin(TRUE)
       [] Kind(line, FALSE) = "tool" /\ IsUse(line) -> Use(Args(line))
       [] Kind(line, FALSE) = "tool" /\ ~Exits(line) /\ ~IsUse(line) -> Command(line)
       [] OTHER -> FALSE

MenuEof == pc["main"] = "menu" /\ ExitBegin(FALSE)

MenuError ==                 \* Readline fails otherwise: Run returns the error
  /\ pc["main"] = "menu" /\ proc' = "failed"
  /\ UNCHANGED <<tables, pc, useVars, exitVars, sigVars, ctx, rl, late>>

(* enterSession.  The race of its deferred function with the end of the    *)
(* session is in Session.tla.                                              *)
Leave == Goto("main", "menu") /\ cur' = None
Stay  == UNCHANGED <<pc, cur>>

(* After a line that is neither, main looks whether the drain goroutine    *)
(* has ended, which it does some time after the session.                   *)
Look == Stay \/ (sess[cur] = "dead" /\ Leave)

Write ==
  \/ Stay /\ UNCHANGED sess
  \/ sess[cur] # "dead" /\ sess' = Ended({cur}) /\ Leave   \* it fails, or the
                                                           \* peer hangs up now

SessionLine(line) ==
  /\ pc["main"] = "session" /\ rl = "open"
  /\ IF Kind(line, TRUE) = "special" /\ Verb(line) = <<"+exit">>
     THEN ExitBegin(TRUE)
     ELSE /\ CASE Kind(line, TRUE) = "special" /\ Verb(line) = <<"+back">>
                    -> Leave /\ UNCHANGED sess
               [] Kind(line, TRUE) = "special" /\ Verb(line) \in BackVerbs \ {<<"+back">>}
                    -> Leave /\ SetState(cur)
               [] Kind(line, TRUE) = "special" /\ Verb(line) \notin BackVerbs
                    -> Look /\ UNCHANGED sess
               [] Kind(line, TRUE) = "system" -> Look /\ UNCHANGED sess
               [] Kind(line, TRUE) \in {"pass", "tool", "empty"} -> Write
          /\ UNCHANGED <<open, stray, fwds, panic, shown, exitVars, sigVars, ctx, rl, late,
                         proc>>

SessionEof ==
  /\ pc["main"] = "session" /\ Leave
  /\ UNCHANGED <<tables, shown, exitVars, sigVars, ctx, rl, late, proc>>

-----------------------------------------------------------------------------
(* eventLoop.  Its events are Listener.tla's. *)

EvCancelled ==
  /\ pc["ev"] = "select" /\ ctx = "cancelled" /\ Goto("ev", "gone")
  /\ UNCHANGED <<tables, useVars, exitVars, sigVars, ctx, rl, late, proc>>

EvSignalIgnored ==           \* mutant: the event loop takes signals and drops them
  /\ pc["ev"] = "select" /\ sigs # <<>> /\ sigs' = Tail(sigs)
  /\ UNCHANGED <<tables, pc, useVars, exitVars, notify, ctx, rl, late, proc>>

EvSignal ==
  /\ pc["ev"] = "select" /\ sigs # <<>> /\ sigs' = Tail(sigs)
  /\ IF Head(sigs) = "TERM"
     THEN Goto("ev", "stop") ELSE UNCHANGED pc      \* doExit(false)
  /\ UNCHANGED <<tables, useVars, exitVars, notify, ctx, rl, late, proc>>

-----------------------------------------------------------------------------
Running == proc = "run" /\ panic = 0

Typed == \/ \E line \in Lines : MenuLine(line) \/ SessionLine(line)
         \/ MenuEof \/ MenuError \/ SessionEof \/ Choose \/ ExitAnswer
EventLoop == EvCancelled \/ EvSignal

Next ==
  /\ Running
  /\ \/ Peer \/ Typed \/ EventLoop
     \/ \E s \in {"INT", "TERM"} : Signal(s)
     \/ \E g \in {"main", "ev"} : Exiting(g)

Spec == Init /\ [][Next]_vars

(* The goroutines run.  The user, the peers and the kernel owe nothing.    *)
Fairness ==
  /\ \A g \in {"main", "ev"} : WF_vars(Running /\ Exiting(g))
  /\ WF_vars(Running /\ EventLoop)

FairSpec == Spec /\ Fairness

-----------------------------------------------------------------------------
(* Every variable has its type.                                            *)
TypeOK ==
  /\ open \subseteq 1 .. MaxPort /\ stray \subseteq Conns
  /\ sess \in [Conns -> {"none", "live", "dead", "zombie", "lost"}]
  /\ DOMAIN fwds \subseteq 0 .. MaxPort /\ DOMAIN fwds \cap open = {}
  /\ \A p \in DOMAIN fwds : fwds[p].kind \in {"fwd", "proxy"}
  /\ pc["main"] \in {"menu", "choose", "session", "ask", "stop", "ports", "close",
                     "drop", "end"}
  /\ pc["ev"] \in {"select", "gone", "stop", "ports", "close", "drop", "end"}
  /\ known \subseteq Conns /\ \A g \in {"main", "ev"} : todo[g] \subseteq 0 .. MaxPort
  /\ (pc["main"] = "choose") = (Cardinality(shown) > 1)
  /\ pc["main"] = "session" => cur # None /\ sess[cur] # "none"
  /\ pc["main"] \in {"menu", "choose"} => cur = None
  /\ Len(sigs) <= SigCap /\ late \subseteq 0 .. MaxPort
  /\ panic \in Int
  /\ rl = "closed" \/ ~notify => ctx = "cancelled"

(* A command leaves its list of sessions, and so ends the process, only    *)
(* with a negative index: the tests of the upper bound hold although the   *)
(* list is taken anew by every command and sessions come and go.           *)
NoPanic == panic <= 0

(* When the main goroutine closes a session that was there as the user     *)
(* typed `exit`, the user has answered "y" (or has ended the input), also  *)
(* when the event loop shuts down beside it.                               *)
ClosedOnlyIfAsked ==
  [][\A c \in known :
       ExitClose("main") /\ sess[c] = "live" /\ sess'[c] = "dead"
         => consent # "none"]_vars

(* However main and the event loop overlap in doExit, the process that     *)
(* ends by it has closed every port, forward and session, but for those    *)
(* that a command opened beside the shutdown and sessions that came in     *)
(* while their port was being closed.                                      *)
EndsClean ==
  proc = "closed" => /\ open \cup DOMAIN fwds \subseteq late
                     /\ \A c \in Conns : sess[c] = "live"
                          => Home[c] \in late \/ c \in stray

(* A shutdown that has begun, and a SIGTERM the channel has room for, end  *)
(* the process, whichever goroutine is first.                              *)
Ends ==
  (\/ pc["main"] \in {"stop", "ports", "close", "drop", "end"}
   \/ \E i \in DOMAIN sigs : sigs[i] = "TERM") ~> ~Running

(* repl.go: "stay running": a user who answers "no" keeps the process.     *)
StaysRunning == proc # "left"
=============================================================================
