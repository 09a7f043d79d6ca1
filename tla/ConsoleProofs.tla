--------------------------- MODULE ConsoleProofs ----------------------------
(***************************************************************************)
(* Proofs about Console.tla, for any set of sessions, lines, ports and     *)
(* numbers and any capacity of the signal channel: no index but a negative *)
(* one ends the process, a shutdown leaves nothing open but what came in   *)
(* beside it, and main closes no session its user was not asked about.     *)
(*                                                                         *)
(* Cmd, the tables and the user's dialogue, needs no more of the shutdown  *)
(* than that a goroutine past signals.Stop has cancelled the context.      *)
(***************************************************************************)
EXTENDS Console, FiniteSetTheorems, SequenceTheorems, TLAPS

Goroutines == {"main", "ev"}
MainAt == {"menu", "choose", "session", "ask", "stop", "ports", "close", "drop", "end"}
EvAt   == {"select", "gone", "stop", "ports", "close", "drop", "end"}
Past   == {"ports", "close", "drop", "end"}   \* where the context is cancelled

-----------------------------------------------------------------------------
(* The tables: TypeOK's part of them, and what assigning a log file keeps. *)
TablesInv ==
  /\ open \subseteq 1 .. MaxPort /\ stray \subseteq Conns
  /\ sess \in [Conns -> {"none", "live", "dead", "zombie", "lost"}]
  /\ DOMAIN fwds \subseteq 0 .. MaxPort /\ DOMAIN fwds \cap open = {}
  /\ \A p \in DOMAIN fwds : "kind" \in DOMAIN fwds[p] /\ fwds[p].kind \in {"fwd", "proxy"}
  /\ panic \in Int /\ panic <= 0

(* What the user is being asked: the sessions to choose from were there,   *)
(* and a session once there is never "none" again.                         *)
DialogueInv ==
  /\ pc \in [Goroutines -> MainAt \cup EvAt]
  /\ pc["main"] \in MainAt /\ pc["ev"] \in EvAt
  /\ shown \subseteq Conns /\ cur \in Conns \cup {None}
  /\ \A s \in shown : sess[s] # "none"
  /\ (pc["main"] = "choose") = (Cardinality(shown) > 1)
  /\ pc["main"] = "session" => cur # None /\ sess[cur] # "none"
  /\ pc["main"] \in {"menu", "choose"} => cur = None

(* Signals and the context. *)
SignalInv ==
  /\ sigs \in Seq({"INT", "TERM"}) /\ Len(sigs) <= SigCap
  /\ rl = "closed" \/ ~notify => ctx = "cancelled"
  /\ \A g \in Goroutines : pc[g] \in Past => ctx = "cancelled"

(* A goroutine in doExit has the ports and forwards that are open and not  *)
(* late on its list, and once it is done with the list there are none.     *)
ShutInv ==
  /\ todo \in [Goroutines -> SUBSET (0 .. MaxPort)] /\ late \subseteq 0 .. MaxPort
  /\ \A g \in Goroutines :
       /\ pc[g] = "close" => open \subseteq late \cup todo[g]
       /\ pc[g] \in {"drop", "end"} => open \subseteq late
       /\ pc[g] = "drop" => DOMAIN fwds \subseteq late \cup todo[g]
       /\ pc[g] = "end" => DOMAIN fwds \subseteq late
  /\ proc = "closed" => \E g \in Goroutines : pc[g] = "end"

(* A session lives on an open port, or came in as its port was closed.     *)
HomeInv ==
  \A c \in Conns : sess[c] = "live" => Home[c] \in open \/ c \in stray

(* Main shuts down after an answer, unless nobody was there to ask about.  *)
AskedInv ==
  /\ known \subseteq Conns
  /\ pc["main"] \in Past \cup {"stop"} /\ known # {} => consent # "none"

IInv == TablesInv /\ DialogueInv /\ SignalInv /\ ShutInv /\ HomeInv /\ AskedInv
-----------------------------------------------------------------------------
(* The operators the steps are built from. *)

(* What a command lists: each of the sessions, at its index. *)
LEMMA Listed ==
  ASSUME NEW S \in SUBSET Conns, NEW listed \in Orders(S)
  PROVE  /\ Cardinality(S) \in Nat /\ Len(listed) = Cardinality(S)
         /\ listed \in Seq(S)
         /\ listed # <<>> => Len(listed) > 0
<1>1. IsFiniteSet(S) BY FS_Subset, DispatcherAssumption
<1>2. Cardinality(S) \in Nat BY <1>1, FS_CardinalityType
<1>3. listed \in [1 .. Cardinality(S) -> S] BY DEF Orders
<1> QED BY <1>2, <1>3

(* The lower bound of an index is not tested, its upper bound is: leaving  *)
(* the list takes a negative index.                                        *)
LEMMA PanicIsNegative ==
  ASSUME NEW t, IsPortIdx(t), NEW n \in Nat, Panics(n, Index(t))
  PROVE  Index(t) \in Int /\ Index(t) <= 0
<1>1. Index(t) \in Int
  BY CommandLineAssumption DEF IsPortIdx, Index
<1> QED BY <1>1 DEF Panics, TooHigh

(* Nothing that was there comes to be "none" again. *)
OnceThere == \A c \in Conns : sess[c] # "none" => sess'[c] # "none"

Sessions == {"none", "live", "dead", "zombie", "lost"}

LEMMA EndedIs ==
  ASSUME sess \in [Conns -> Sessions], NEW S, sess' = Ended(S)
  PROVE  /\ sess' \in [Conns -> Sessions] /\ OnceThere
         /\ \A c \in Conns : sess'[c] = "live" => sess[c] = "live"
BY DEF Ended, OnceThere, Sessions

LEMMA SetStateIs ==
  ASSUME sess \in [Conns -> Sessions], NEW c \in Conns, SetState(c)
  PROVE  /\ sess' \in [Conns -> Sessions] /\ OnceThere
         /\ \A d \in Conns : sess'[d] = "live" => sess[d] = "live"
BY DEF SetState, OnceThere, Sessions

(* Closing a port ends its sessions but for those it calls stray. *)
LEMMA ClosePortIs ==
  ASSUME TablesInv, HomeInv, NEW p, ClosePort(p), UNCHANGED <<panic>>,
         fwds' = fwds
  PROVE  TablesInv' /\ HomeInv' /\ OnceThere /\ open' = open \ {p}
<1> USE DEF Sessions
<1>1. PICK in \in SUBSET {c \in Conns : p \in open /\ sess[c] = "none" /\ Home[c] = p} :
        /\ sess' = [c \in Conns |-> IF c \in in THEN "live"
                                  ELSE IF p \in open /\ c \in ByPort(p) THEN "dead"
                                  ELSE sess[c]]
        /\ stray' = stray \cup in
  BY DEF ClosePort
<1>2. open' = open \ {p} BY DEF ClosePort
<1>3. sess' \in [Conns -> Sessions] /\ stray' \subseteq Conns /\ OnceThere
  BY <1>1 DEF TablesInv, OnceThere
<1>4. TablesInv' BY <1>2, <1>3 DEF TablesInv
<1>5. ASSUME NEW c \in Conns, sess'[c] = "live"
      PROVE  Home[c] \in open' \/ c \in stray'
  <2>1. CASE c \in in BY <2>1, <1>1
  <2>2. CASE c \notin in
    <3>1. sess[c] = "live" /\ ~(p \in open /\ Home[c] = p)
      BY <2>2, <1>1, <1>5 DEF ByPort, Live
    <3> QED BY <3>1, <1>1, <1>2 DEF HomeInv
  <2> QED BY <2>1, <2>2
<1> QED BY <1>2, <1>3, <1>4, <1>5 DEF HomeInv

LEMMA WithoutIs ==
  ASSUME TablesInv, HomeInv, NEW p, fwds' = Without(p), UNCHANGED <<open, sess, stray, panic>>
  PROVE  TablesInv' /\ HomeInv' /\ OnceThere /\ DOMAIN fwds' = DOMAIN fwds \ {p}
BY DEF TablesInv, HomeInv, OnceThere, Without
-----------------------------------------------------------------------------
(* One command at the menu. *)

(* What the commands leave of the tables, and that a port is listened on   *)
(* by one of the two managers only: a new listener is on no port that has  *)
(* a forward, a new forward on no port that has a listener.                *)
Kept ==
  /\ TablesInv' /\ HomeInv' /\ OnceThere
  /\ open' \cap DOMAIN fwds = {} /\ DOMAIN fwds' \cap open = {}

LEMMA OpenKeeps ==
  ASSUME TablesInv, HomeInv, NEW args, DoOpen(args) PROVE Kept
BY DEF DoOpen, Bindable, TablesInv, HomeInv, OnceThere, Kept

LEMMA CloseKeeps ==
  ASSUME TablesInv, HomeInv, NEW args, DoClose(args) PROVE Kept
<1>1. CASE UNCHANGED <<open, sess, stray, fwds, panic>>
  BY <1>1 DEF TablesInv, HomeInv, OnceThere, Kept
<1>2. CASE ClosePort(Port(args[1])) /\ UNCHANGED <<fwds, panic>>
  BY <1>2, ClosePortIs DEF Kept, TablesInv
<1> QED BY <1>1, <1>2 DEF DoClose

LEMMA SessionsOnly ==
  ASSUME TablesInv, HomeInv, OnceThere, UNCHANGED <<open, stray, fwds>>,
         sess' \in [Conns -> Sessions], panic' \in Int, panic' <= 0,
         \A c \in Conns : sess'[c] = "live" => sess[c] = "live"
  PROVE  Kept
<1>1. TablesInv' BY DEF TablesInv, Sessions
<1>2. HomeInv' BY DEF HomeInv
<1> QED BY <1>1, <1>2 DEF Kept, TablesInv

LEMMA KillKeeps ==
  ASSUME TablesInv, HomeInv, NEW args, DoKill(args) PROVE Kept
<1> DEFINE NotForce(t) == t # <<"-f">>
           rest == SelectSeq(args, NotForce)
           idx == Index(rest[1])
<1>1. CASE UNCHANGED <<sess, panic>>
  BY <1>1, SessionsOnly DEF DoKill, TablesInv, OnceThere, Sessions
<1>2. CASE ~UNCHANGED <<sess, panic>>
  <2>1. IsPortIdx(rest[1])
    BY <1>2 DEF DoKill
  <2>2. PICK listed \in Orders(ByPort(Port(rest[1]))) :
          CASE listed = <<>>             -> UNCHANGED <<sess, panic>>
            [] listed # <<>> /\ Panics(Len(listed), idx)
                                         -> panic' = idx /\ UNCHANGED sess
            [] OTHER                     -> /\ sess' = Ended(KillTargets(listed, idx))
                                            /\ UNCHANGED panic
    BY <1>2 DEF DoKill
  <2>3. Len(listed) \in Nat
    BY Listed DEF ByPort, Live
  <2>4. \/ Panics(Len(listed), idx) /\ panic' = idx /\ UNCHANGED sess
        \/ sess' = Ended(KillTargets(listed, idx)) /\ UNCHANGED panic
    <3> HIDE DEF idx, rest
    <3> QED BY <1>2, <2>2
  <2>5. panic' \in Int /\ panic' <= 0
    <3>1. CASE Panics(Len(listed), idx) /\ panic' = idx
      BY <3>1, <2>1, <2>3, PanicIsNegative
    <3>2. CASE UNCHANGED panic BY <3>2 DEF TablesInv
    <3> QED BY <3>1, <3>2, <2>4
  <2>6. /\ sess' \in [Conns -> Sessions] /\ OnceThere
        /\ \A c \in Conns : sess'[c] = "live" => sess[c] = "live"
    <3>1. sess \in [Conns -> Sessions] BY DEF TablesInv, Sessions
    <3>2. CASE UNCHANGED sess BY <3>1, <3>2 DEF OnceThere
    <3>3. CASE sess' = Ended(KillTargets(listed, idx)) BY <3>1, <3>3, EndedIs
    <3> QED BY <3>2, <3>3, <2>4
  <2> QED BY <2>5, <2>6, SessionsOnly DEF DoKill
<1> QED BY <1>1, <1>2

LEMMA ReachKeeps ==
  ASSUME TablesInv, HomeInv, NEW args, NEW needed, DoReach(args, needed) PROVE Kept
<1> DEFINE n == Cardinality(ByPort(Port(args[1])))
<1>1. n \in Nat
  BY FS_Subset, FS_CardinalityType, DispatcherAssumption DEF ByPort, Live
<1>2. panic' \in Int /\ panic' <= 0
  <2>1. CASE IsPortIdx(args[1]) /\ Panics(n, Index(args[1])) /\ panic' = Index(args[1])
    BY <2>1, <1>1, PanicIsNegative
  <2>2. CASE panic' = 0 BY <2>2
  <2> QED BY <2>1, <2>2 DEF DoReach
<1> QED BY <1>2, SessionsOnly DEF DoReach, TablesInv, OnceThere, Sessions

LEMMA EntryKeeps ==
  ASSUME TablesInv, HomeInv, NEW args, NEW kind \in {"fwd", "proxy"}, DoEntry(args, kind)
  PROVE  Kept
<1>1. UNCHANGED <<open, sess, stray, panic>> BY DEF DoEntry
<1> DEFINE NewKeeps ==
             /\ DOMAIN fwds' \subseteq 0 .. MaxPort /\ DOMAIN fwds' \cap open = {}
             /\ \A p \in DOMAIN fwds' :
                  "kind" \in DOMAIN fwds'[p] /\ fwds'[p].kind \in {"fwd", "proxy"}
<1>2. SUFFICES NewKeeps
  BY <1>1 DEF Kept, TablesInv, HomeInv, OnceThere
<1>3. CASE UNCHANGED fwds BY <1>3 DEF TablesInv
<1>4. CASE CloseEntry(args) BY <1>4 DEF CloseEntry, Without, TablesInv
<1>5. CASE OpenEntry(args, kind) BY <1>5 DEF OpenEntry, Bindable, TablesInv
<1>6. CASE SetLog(args) BY <1>6 DEF SetLog, TablesInv
<1>7. UNCHANGED fwds \/ CloseEntry(args) \/ OpenEntry(args, kind) \/ SetLog(args)
  BY DEF DoEntry
<1> QED BY <1>3, <1>4, <1>5, <1>6, <1>7

LEMMA CommandKeeps ==
  ASSUME TablesInv, HomeInv, NEW line, Dispatch(line) PROVE Kept
<1> DEFINE args == Args(line)
<1>1. CASE DoOpen(args) BY <1>1, OpenKeeps
<1>2. CASE DoClose(args) BY <1>2, CloseKeeps
<1>3. CASE DoKill(args) BY <1>3, KillKeeps
<1>4. CASE DoReach(args, 1) \/ DoReach(args, 2) BY <1>4, ReachKeeps
<1>5. CASE DoEntry(args, "fwd") \/ DoEntry(args, "proxy") BY <1>5, EntryKeeps
<1>6. CASE UNCHANGED tables
  BY <1>6 DEF tables, Kept, TablesInv, HomeInv, OnceThere
<1> QED BY <1>1, <1>2, <1>3, <1>4, <1>5, <1>6 DEF Dispatch
-----------------------------------------------------------------------------
(* The dialogue, seen from the tables: what main does at the menu beside   *)
(* commands, and in session mode.                                          *)

Elsewhere == <<exitVars, sigVars, ctx, rl, late, proc>>

(* Main enters a session, asks which one, gives up, or leaves its list.    *)
EnterMove ==
  \/ /\ \E s \in Conns : sess[s] # "none" /\ Enter(s)
     /\ UNCHANGED panic
  \/ /\ shown' \subseteq Conns /\ \A s \in shown' : sess[s] # "none"
     /\ Cardinality(shown') > 1
     /\ Goto("main", "choose") /\ UNCHANGED <<cur, sess, panic>>
  \/ Goto("main", "menu") /\ shown' = {} /\ UNCHANGED <<cur, sess, panic>>
  \/ panic' \in Int /\ panic' <= 0 /\ UNCHANGED <<pc, useVars, sess>>

SessionMove ==
  /\ pc["main"] = "session" /\ (Leave \/ Stay)
  /\ UNCHANGED sess \/ SetState(cur) \/ sess' = Ended({cur})
  /\ UNCHANGED <<open, stray, fwds, panic, shown, Elsewhere>>

LEMMA UseMoves ==
  ASSUME TablesInv, NEW args, Use(args)
  PROVE  EnterMove /\ UNCHANGED <<open, stray, fwds, Elsewhere>>
<1> DEFINE n == Index(args[1])
           S == ByPort(Port(args[1]))
<1> SUFFICES EnterMove
  BY DEF Use, Elsewhere, sigVars, exitVars
<1>1. /\ S \in SUBSET Conns /\ \A s \in S : sess[s] # "none"
  BY DEF ByPort, Live
<1>2. IsPortIdx(args[1]) /\ n \in Int
  BY CommandLineAssumption DEF Use, IsPortIdx, Index
<1>3. PICK listed \in Orders(S) :
        /\ listed # <<>>
        /\ CASE n = 0 /\ Len(listed) = 1 -> Enter(listed[1]) /\ UNCHANGED panic
             [] n = 0 /\ Len(listed) > 1 -> /\ shown' = S /\ Goto("main", "choose")
                                            /\ UNCHANGED <<cur, sess, panic>>
             [] Panics(Len(listed), n) -> panic' = n /\ UNCHANGED <<pc, useVars, sess>>
             [] n \in 1 .. Len(listed) -> Enter(listed[n]) /\ UNCHANGED panic
             [] TooHigh(Len(listed), n) -> UNCHANGED <<pc, useVars, sess, panic>>
  BY DEF Use
<1>4. /\ Len(listed) \in Nat /\ Len(listed) > 0 /\ Len(listed) = Cardinality(S)
      /\ \A i \in 1 .. Len(listed) : listed[i] \in S
  BY <1>1, <1>3, Listed
<1>5. CASE \E i \in 1 .. Len(listed) : Enter(listed[i]) /\ UNCHANGED panic
  BY <1>1, <1>4, <1>5 DEF EnterMove
<1>6. CASE n = 0 /\ Len(listed) > 1 /\ shown' = S /\ Goto("main", "choose")
             /\ UNCHANGED <<cur, sess, panic>>
  BY <1>1, <1>4, <1>6 DEF EnterMove
<1>7. CASE Panics(Len(listed), n) /\ panic' = n /\ UNCHANGED <<pc, useVars, sess>>
  BY <1>2, <1>4, <1>7, PanicIsNegative DEF EnterMove
<1>8. CASE UNCHANGED <<pc, useVars, sess, panic>>
  BY <1>8 DEF EnterMove, TablesInv
<1>9. n = 0 \/ Panics(Len(listed), n) \/ n \in 1 .. Len(listed) \/ TooHigh(Len(listed), n)
  BY <1>2, <1>4 DEF Panics, TooHigh
<1> HIDE DEF n, S
<1>10. ~Panics(Len(listed), 0) BY DEF Panics
<1>11. n = 0 => Len(listed) = 1 \/ Len(listed) > 1 BY <1>4
<1>12. Len(listed) = 1 => 1 \in 1 .. Len(listed) OBVIOUS
<1> QED BY <1>3, <1>5, <1>6, <1>7, <1>8, <1>9, <1>10, <1>11, <1>12

LEMMA ChooseMoves ==
  ASSUME TablesInv, DialogueInv, Choose
  PROVE  EnterMove /\ UNCHANGED <<open, stray, fwds, Elsewhere>>
BY DEF Choose, EnterMove, DialogueInv, Elsewhere, sigVars, exitVars

LEMMA SessionMoves ==
  ASSUME NEW line, SessionLine(line)
  PROVE  SessionMove \/ ExitBegin(TRUE)
<1>1. CASE ExitBegin(TRUE) BY <1>1
<1>2. CASE ~ExitBegin(TRUE)
  <2>1. pc["main"] = "session" /\ UNCHANGED <<open, stray, fwds, panic, shown, Elsewhere>>
    BY <1>2 DEF SessionLine, Elsewhere, exitVars, sigVars
  <2>2. \/ Leave /\ UNCHANGED sess
        \/ Leave /\ SetState(cur)
        \/ Look /\ UNCHANGED sess
        \/ Write
    <3>1. Kind(line, TRUE) \in {"empty", "system", "special", "tool", "pass"}
      BY DEF Kind
    <3>2. <<"+back">> \in BackVerbs BY DEF BackVerbs
    <3> QED BY <1>2, <3>1, <3>2 DEF SessionLine
  <2> QED BY <2>1, <2>2 DEF SessionMove, Look, Write
<1> QED BY <1>1, <1>2
-----------------------------------------------------------------------------
(* Every step is one of these; the lines and the verbs are gone. *)
Moves ==
  \/ Peer
  \/ \E s \in {"INT", "TERM"} : Signal(s)
  \/ pc["main"] \in {"menu", "session"} /\ \E b \in BOOLEAN : ExitBegin(b)
  \/ ExitAnswer
  \/ /\ pc["main"] \in {"menu", "choose"} /\ EnterMove
     /\ UNCHANGED <<open, stray, fwds, Elsewhere>>
  \/ pc["main"] = "menu" /\ \E line : Command(line)
  \/ MenuError
  \/ SessionMove
  \/ EventLoop
  \/ \E g \in Goroutines : Exiting(g)

LEMMA NextMoves ==
  ASSUME TablesInv, DialogueInv, Next PROVE Moves
<1>1. ASSUME NEW line \in Lines, MenuLine(line) PROVE Moves
  <2>1. pc["main"] = "menu" BY <1>1 DEF MenuLine
  <2>2. ExitBegin(TRUE) \/ Use(Args(line)) \/ Command(line)
    BY <1>1 DEF MenuLine
  <2>3. CASE ExitBegin(TRUE) BY <2>1, <2>3 DEF Moves
  <2>4. CASE Use(Args(line)) BY <2>1, <2>4, UseMoves DEF Moves
  <2>5. CASE Command(line) BY <2>1, <2>5 DEF Moves
  <2> QED BY <2>2, <2>3, <2>4, <2>5
<1>2. ASSUME NEW line \in Lines, SessionLine(line) PROVE Moves
  <2>1. pc["main"] = "session" BY <1>2 DEF SessionLine
  <2>2. CASE SessionMove BY <2>2 DEF Moves
  <2>3. CASE ExitBegin(TRUE) BY <2>1, <2>3 DEF Moves
  <2> QED BY <1>2, <2>2, <2>3, SessionMoves
<1>3. CASE MenuEof BY <1>3 DEF MenuEof, Moves
<1>4. CASE SessionEof
  <2>1. SessionMove
    BY <1>4 DEF SessionEof, SessionMove, tables, Elsewhere, exitVars, sigVars
  <2> QED BY <2>1 DEF Moves
<1>5. CASE Choose
  <2>1. pc["main"] = "choose" BY <1>5 DEF Choose
  <2> QED BY <1>5, <2>1, ChooseMoves DEF Moves
<1> QED BY <1>1, <1>2, <1>3, <1>4, <1>5 DEF Next, Typed, Moves, Goroutines

-----------------------------------------------------------------------------
(* The tables keep their invariant.  Only a command opens anything, and    *)
(* one of the two tables at a time; what others do takes away.             *)
Fewer == open' \subseteq open /\ DOMAIN fwds' \subseteq DOMAIN fwds

LEMMA TablesStep ==
  ASSUME TablesInv, HomeInv, DialogueInv, [Next]_vars
  PROVE  Kept /\ (Fewer \/ (pc["main"] = "menu" /\ \E line : Command(line)))
<1>1. ASSUME UNCHANGED <<open, stray, fwds>>, panic' \in Int, panic' <= 0,
             \/ UNCHANGED sess
             \/ \E S : sess' = Ended(S)
             \/ \E c \in Conns : SetState(c)
      PROVE  Kept /\ Fewer
  <2>1. sess \in [Conns -> Sessions] BY DEF TablesInv, Sessions
  <2>2. /\ sess' \in [Conns -> Sessions] /\ OnceThere
        /\ \A d \in Conns : sess'[d] = "live" => sess[d] = "live"
    <3>1. CASE UNCHANGED sess BY <2>1, <3>1 DEF OnceThere
    <3>2. CASE \E S : sess' = Ended(S) BY <2>1, <3>2, EndedIs
    <3>3. CASE \E c \in Conns : SetState(c) BY <2>1, <3>3, SetStateIs
    <3> QED BY <1>1, <3>1, <3>2, <3>3
  <2> QED BY <1>1, <2>2, SessionsOnly DEF Fewer
<1>2. panic \in Int /\ panic <= 0 BY DEF TablesInv
<1>3. ASSUME UNCHANGED tables PROVE Kept /\ Fewer
  BY <1>1, <1>2, <1>3 DEF tables
<1>4. CASE UNCHANGED vars BY <1>3, <1>4 DEF vars
<1>5. CASE Peer
  <2>1. PICK c \in Conns : Connect(c) \/ Hangup(c) BY <1>5 DEF Peer
  <2>2. CASE Hangup(c) BY <1>1, <1>2, <2>2 DEF Hangup
  <2>3. CASE Connect(c)
    <3>1. TablesInv' /\ OnceThere BY <2>3 DEF Connect, TablesInv, OnceThere
    <3>2. HomeInv' BY <2>3 DEF Connect, HomeInv, TablesInv
    <3> QED BY <3>1, <3>2, <2>3 DEF Connect, Kept, Fewer, TablesInv
  <2> QED BY <2>1, <2>2, <2>3
<1>6. CASE pc["main"] \in {"menu", "choose"} /\ EnterMove
           /\ UNCHANGED <<open, stray, fwds, Elsewhere>>
  BY <1>1, <1>2, <1>6 DEF EnterMove, Enter
<1>7. CASE SessionMove
  <2>1. cur \in Conns
    BY <1>7 DEF SessionMove, DialogueInv
  <2> QED BY <1>1, <1>2, <1>7, <2>1 DEF SessionMove
<1>8. CASE pc["main"] = "menu" /\ \E line : Command(line)
  BY <1>8, CommandKeeps DEF Command
<1>9. ASSUME NEW g \in Goroutines, ExitClose(g) PROVE Kept /\ Fewer
  <2>1. PICK p \in todo[g] :
          \/ pc[g] = "close" /\ ClosePort(p) /\ UNCHANGED fwds
          \/ pc[g] = "drop" /\ fwds' = Without(p) /\ UNCHANGED <<open, sess, stray>>
    BY <1>9 DEF ExitClose
  <2>2. UNCHANGED panic BY <1>9 DEF ExitClose
  <2>3. CASE ClosePort(p) /\ UNCHANGED fwds
    BY <2>2, <2>3, ClosePortIs DEF Kept, Fewer, TablesInv
  <2>4. CASE fwds' = Without(p) /\ UNCHANGED <<open, sess, stray>>
    BY <2>2, <2>4, WithoutIs DEF Kept, Fewer, TablesInv
  <2> QED BY <2>1, <2>3, <2>4
<1>10. ASSUME NEW g \in Goroutines, ExitStop(g) \/ ExitList(g) \/ ExitReadline(g) \/ End(g)
       PROVE  UNCHANGED tables
  BY <1>10 DEF ExitStop, ExitList, ExitReadline, End
<1>11. ASSUME NEW g \in Goroutines, Exiting(g) PROVE Kept /\ Fewer
  BY <1>3, <1>9, <1>10, <1>11 DEF Exiting
<1>12. ASSUME \/ \E s \in {"INT", "TERM"} : Signal(s)
              \/ \E b \in BOOLEAN : ExitBegin(b)
              \/ ExitAnswer \/ MenuError \/ EventLoop
       PROVE  UNCHANGED tables
  BY <1>12 DEF Signal, ExitBegin, ExitAnswer, MenuError, EventLoop, EvCancelled, EvSignal
<1> QED
  BY <1>3, <1>4, <1>5, <1>6, <1>7, <1>8, <1>11, <1>12, NextMoves DEF Moves
-----------------------------------------------------------------------------
(* The dialogue.  Sessions once there stay there, so that what the user    *)
(* was offered can still be entered, dead or alive.                        *)
LEMMA DialogueStep ==
  ASSUME TablesInv, HomeInv, DialogueInv, [Next]_vars PROVE DialogueInv'
<1> USE DEF Goroutines, MainAt, EvAt
<1>1. OnceThere BY TablesStep DEF Kept
<1>2. Cardinality({}) = 0 BY FS_EmptySet
<1>3. ASSUME UNCHANGED useVars, pc' \in [Goroutines -> MainAt \cup EvAt], pc'["main"] = pc["main"],
             pc'["ev"] \in EvAt
      PROVE  DialogueInv'
  BY <1>1, <1>3 DEF DialogueInv, OnceThere, useVars
<1>4. ASSUME UNCHANGED <<pc, useVars>> PROVE DialogueInv'
  BY <1>3, <1>4 DEF DialogueInv
<1>5. ASSUME UNCHANGED useVars, NEW g \in Goroutines, NEW where, Goto(g, where),
             where \in {"ask", "stop", "ports", "close", "drop", "end", "gone"},
             where = "ask" => g = "main", where = "gone" => g = "ev",
             pc[g] # "choose"
      PROVE  DialogueInv'
  BY <1>1, <1>5 DEF DialogueInv, OnceThere, useVars, Goto
<1>6. CASE UNCHANGED vars BY <1>4, <1>6 DEF vars
<1>7. CASE \/ Peer
           \/ \E s \in {"INT", "TERM"} : Signal(s)
           \/ pc["main"] = "menu" /\ \E line : Command(line)
           \/ MenuError
  BY <1>4, <1>7 DEF Peer, Signal, Command, MenuError
<1>8. CASE pc["main"] \in {"menu", "session"} /\ \E b \in BOOLEAN : ExitBegin(b)
  <2>1. PICK where \in {"ask", "stop"} : Goto("main", where)
    BY <1>8 DEF ExitBegin
  <2> QED BY <1>5, <1>8, <2>1 DEF ExitBegin
<1>9. CASE ExitAnswer
  <2>1. CASE Goto("main", "stop") BY <1>5, <1>9, <2>1 DEF ExitAnswer
  <2>2. CASE UNCHANGED pc BY <1>4, <1>9, <2>2 DEF ExitAnswer
  <2> QED BY <1>9, <2>1, <2>2 DEF ExitAnswer
<1>10. CASE /\ pc["main"] \in {"menu", "choose"} /\ EnterMove
            /\ UNCHANGED <<open, stray, fwds, Elsewhere>>
  <2>1. CASE \E s \in Conns : sess[s] # "none" /\ Enter(s)
    <3>1. PICK s \in Conns : sess[s] # "none" /\ Enter(s) BY <2>1
    <3>2. /\ shown' = {} /\ cur' = s /\ pc' = [pc EXCEPT !["main"] = "session"]
          /\ sess'[s] # "none"
      BY <1>1, <3>1 DEF Enter, Goto, OnceThere
    <3> QED BY <1>2, <3>2, ConsoleAssumption DEF DialogueInv
  <2>2. CASE /\ shown' \subseteq Conns /\ \A s \in shown' : sess[s] # "none"
             /\ Cardinality(shown') > 1
             /\ Goto("main", "choose") /\ UNCHANGED <<cur, sess, panic>>
    BY <1>10, <2>2 DEF DialogueInv, Goto
  <2>3. CASE Goto("main", "menu") /\ shown' = {} /\ UNCHANGED <<cur, sess, panic>>
    BY <1>2, <1>10, <2>3 DEF DialogueInv, Goto
  <2>4. CASE UNCHANGED <<pc, useVars>> BY <1>4, <2>4
  <2> QED BY <1>10, <2>1, <2>2, <2>3, <2>4 DEF EnterMove
<1>11. CASE SessionMove
  <2>1. CASE Leave
    <3>1. /\ shown' = shown /\ cur' = None /\ pc' = [pc EXCEPT !["main"] = "menu"]
          /\ pc["main"] = "session"
      BY <1>11, <2>1 DEF SessionMove, Leave, Goto
    <3> QED BY <1>1, <3>1 DEF DialogueInv, OnceThere
  <2>2. CASE Stay BY <1>4, <1>11, <2>2 DEF SessionMove, Stay, useVars
  <2> QED BY <1>11, <2>1, <2>2 DEF SessionMove
<1>12. CASE EventLoop
  <2>1. CASE UNCHANGED pc
    BY <1>4, <1>12, <2>1 DEF EventLoop, EvCancelled, EvSignal
  <2>2. CASE pc["ev"] = "select" /\ (Goto("ev", "gone") \/ Goto("ev", "stop"))
    BY <1>5, <1>12, <2>2 DEF EventLoop, EvCancelled, EvSignal
  <2> QED BY <1>12, <2>1, <2>2 DEF EventLoop, EvCancelled, EvSignal
<1>13. ASSUME NEW g \in Goroutines, Exiting(g) PROVE DialogueInv'
  <2>1. CASE UNCHANGED pc
    BY <1>4, <1>13, <2>1 DEF Exiting, ExitStop, ExitList, ExitClose, ExitReadline, End
  <2>2. CASE /\ pc[g] \in {"stop", "ports", "close", "drop"}
             /\ \E where \in Past : Goto(g, where)
    BY <1>5, <1>13, <2>2 DEF Past, Exiting, ExitStop, ExitList, ExitClose, ExitReadline, End
  <2> QED
    BY <1>13, <2>1, <2>2 DEF Past, Exiting, ExitStop, ExitList, ExitClose, ExitReadline, End
<1> QED
  BY <1>6, <1>7, <1>8, <1>9, <1>10, <1>11, <1>12, <1>13, NextMoves DEF Moves
-----------------------------------------------------------------------------
(* Signals, the context and doExit, which all steps but a few leave alone. *)

Untouched == UNCHANGED <<todo, known, consent, sigs, notify, ctx, rl, proc>>

(* Outside of doExit a goroutine is not Past. *)
LEMMA OutsideStays ==
  ASSUME DialogueInv,
         \/ Peer \/ SessionMove
         \/ pc["main"] = "menu" /\ \E line : Command(line)
         \/ /\ pc["main"] \in {"menu", "choose"} /\ EnterMove
            /\ UNCHANGED <<open, stray, fwds, Elsewhere>>
  PROVE  Untouched /\ \A g \in Goroutines : pc'[g] \in Past \cup {"stop"} => UNCHANGED <<pc[g]>>
<1> USE DEF Past, Goroutines
<1>1. ASSUME Untouched, UNCHANGED pc
      PROVE  \A g \in Goroutines : pc'[g] \in Past \cup {"stop"} => UNCHANGED <<pc[g]>>
  BY <1>1
<1>2. CASE Peer \/ \E line : Command(line)
  BY <1>1, <1>2 DEF Peer, Command, Untouched, exitVars, sigVars
<1>3. ASSUME NEW where \in {"menu", "choose", "session"}, Goto("main", where)
      PROVE  \A g \in Goroutines : pc'[g] \in Past \cup {"stop"} => UNCHANGED <<pc[g]>>
  BY <1>3 DEF Goto, DialogueInv
<1>4. CASE SessionMove
  BY <1>1, <1>3, <1>4
  DEF SessionMove, Leave, Stay, Untouched, Elsewhere, exitVars, sigVars
<1>5. CASE EnterMove /\ UNCHANGED Elsewhere
  BY <1>1, <1>3, <1>5 DEF EnterMove, Enter, Untouched, Elsewhere, exitVars, sigVars
<1> QED BY <1>2, <1>4, <1>5

LEMMA SignalStep ==
  ASSUME TablesInv, DialogueInv, SignalInv, [Next]_vars PROVE SignalInv'
<1> USE DEF Past, Goroutines
<1>1. ASSUME UNCHANGED <<sigs, notify, ctx, rl>>,
             \A g \in Goroutines : pc'[g] \in Past => ctx = "cancelled"
      PROVE  SignalInv'
  BY <1>1 DEF SignalInv
<1>2. CASE UNCHANGED vars BY <1>1, <1>2 DEF vars, sigVars, SignalInv
<1>3. CASE \/ Peer \/ SessionMove
           \/ pc["main"] = "menu" /\ \E line : Command(line)
           \/ /\ pc["main"] \in {"menu", "choose"} /\ EnterMove
              /\ UNCHANGED <<open, stray, fwds, Elsewhere>>
  BY <1>1, <1>3, OutsideStays DEF Untouched, SignalInv
<1>4. ASSUME NEW s \in {"INT", "TERM"}, Signal(s) PROVE SignalInv'
  <2>1. sigs' \in Seq({"INT", "TERM"}) /\ Len(sigs') <= SigCap
    BY <1>4, ConsoleAssumption DEF Signal, SignalInv
  <2> QED BY <1>4, <2>1 DEF Signal, SignalInv
<1>5. CASE \E b \in BOOLEAN : ExitBegin(b)
  <2>1. PICK where \in {"ask", "stop"} : Goto("main", where) BY <1>5 DEF ExitBegin
  <2> QED BY <1>1, <1>5, <2>1 DEF ExitBegin, sigVars, SignalInv, DialogueInv, Goto
<1>6. CASE ExitAnswer \/ MenuError
  BY <1>1, <1>6 DEF ExitAnswer, MenuError, sigVars, SignalInv, DialogueInv, Goto
<1>7. CASE EvCancelled
  BY <1>1, <1>7 DEF EvCancelled, sigVars, SignalInv, DialogueInv, Goto
<1>8. CASE EvSignal
  <2>1. sigs' \in Seq({"INT", "TERM"}) /\ Len(sigs') <= SigCap
    BY <1>8, ConsoleAssumption DEF EvSignal, SignalInv
  <2> QED BY <1>8, <2>1 DEF EvSignal, SignalInv, DialogueInv, Goto
<1>9. ASSUME NEW g \in Goroutines, Exiting(g) PROVE SignalInv'
  <2>1. CASE ExitStop(g)
    BY <2>1 DEF ExitStop, SignalInv, DialogueInv, Goto
  <2>2. CASE ExitList(g)
    <3>1. pc[g] \in Past /\ \E where : Goto(g, where) BY <2>2 DEF ExitList
    <3> QED BY <1>1, <2>2, <3>1 DEF ExitList, sigVars, SignalInv, DialogueInv, Goto
  <2>3. CASE ExitClose(g) \/ End(g)
    BY <1>1, <2>3 DEF ExitClose, End, sigVars, SignalInv
  <2>4. CASE ExitReadline(g)
    BY <2>4 DEF ExitReadline, sigVars, SignalInv, DialogueInv, Goto
  <2> QED BY <1>9, <2>1, <2>2, <2>3, <2>4 DEF Exiting
<1> QED
  BY <1>2, <1>3, <1>4, <1>5, <1>6, <1>7, <1>8, <1>9, NextMoves DEF Moves, EventLoop

(* Main closes after an answer. *)
LEMMA AskedStep ==
  ASSUME TablesInv, DialogueInv, AskedInv, [Next]_vars PROVE AskedInv'
<1> USE DEF Past, Goroutines
<1>1. ASSUME UNCHANGED <<known, consent>>,
             pc'["main"] \in Past \cup {"stop"} => pc["main"] \in Past \cup {"stop"}
      PROVE  AskedInv'
  BY <1>1 DEF AskedInv
<1>2. CASE UNCHANGED vars BY <1>1, <1>2 DEF vars, exitVars
<1>3. CASE \/ Peer \/ SessionMove
           \/ pc["main"] = "menu" /\ \E line : Command(line)
           \/ /\ pc["main"] \in {"menu", "choose"} /\ EnterMove
              /\ UNCHANGED <<open, stray, fwds, Elsewhere>>
  BY <1>1, <1>3, OutsideStays DEF Untouched
<1>4. CASE \E b \in BOOLEAN : ExitBegin(b)
  BY <1>4 DEF ExitBegin, AskedInv, DialogueInv, Goto, Live
<1>5. CASE ExitAnswer
  BY <1>5 DEF ExitAnswer, AskedInv
<1>6. CASE MenuError \/ \E s \in {"INT", "TERM"} : Signal(s)
  BY <1>1, <1>6 DEF MenuError, Signal, exitVars
<1>7. CASE EventLoop
  BY <1>1, <1>7 DEF EventLoop, EvCancelled, EvSignal, exitVars, DialogueInv, Goto
<1>8. ASSUME NEW g \in Goroutines, Exiting(g) PROVE AskedInv'
  <2>1. UNCHANGED <<known, consent>>
    BY <1>8 DEF Exiting, ExitStop, ExitList, ExitClose, ExitReadline, End, exitVars
  <2>2. UNCHANGED pc \/ (pc[g] \in Past \cup {"stop"} /\ \E where : Goto(g, where))
    BY <1>8 DEF Exiting, ExitStop, ExitList, ExitClose, ExitReadline, End
  <2> QED BY <1>1, <2>1, <2>2 DEF DialogueInv, Goto
<1> QED
  BY <1>2, <1>3, <1>4, <1>5, <1>6, <1>7, <1>8, NextMoves DEF Moves
-----------------------------------------------------------------------------
(* The shutdown, of both goroutines at once.  A command beside it adds to  *)
(* `late` what it adds to a table: the ports are in neither table before.  *)
LEMMA ShutStep ==
  ASSUME TablesInv, HomeInv, DialogueInv, SignalInv, ShutInv, Running, [Next]_vars
  PROVE  ShutInv'
<1> USE DEF Past, Goroutines
<1>1. /\ TablesInv' /\ open' \cap DOMAIN fwds = {} /\ DOMAIN fwds' \cap open = {}
      /\ Fewer \/ (pc["main"] = "menu" /\ \E line : Command(line))
  BY TablesStep DEF Kept
<1>2. proc # "closed" BY DEF Running
<1>3. ASSUME Fewer, UNCHANGED <<todo, late>>, proc' # "closed",
             \A g \in Goroutines : pc'[g] \in Past => UNCHANGED <<pc[g]>>
      PROVE  ShutInv'
  BY <1>3 DEF ShutInv, Fewer
<1>4. CASE UNCHANGED vars
  BY <1>2, <1>4 DEF vars, tables, exitVars, ShutInv
<1>5. CASE pc["main"] = "menu" /\ \E line : Command(line)
  <2>1. UNCHANGED <<pc, todo, proc>> BY <1>5 DEF Command, exitVars
  <2>2. late' = IF ctx = "live" THEN {}
                ELSE late \cup ((open' \cup DOMAIN fwds') \ (open \cup DOMAIN fwds))
    BY <1>5 DEF Command
  <2>3. late' \subseteq 0 .. MaxPort
    <3>1. open' \subseteq 1 .. MaxPort /\ DOMAIN fwds' \subseteq 0 .. MaxPort
      BY <1>1 DEF TablesInv
    <3>2. 1 .. MaxPort \subseteq 0 .. MaxPort BY DispatcherAssumption
    <3>3. late \subseteq 0 .. MaxPort BY DEF ShutInv
    <3> QED BY <2>2, <3>1, <3>2, <3>3
  <2>4. ASSUME ctx = "cancelled"
        PROVE  /\ late \subseteq late'
               /\ open' \subseteq open \cup late'
               /\ DOMAIN fwds' \subseteq DOMAIN fwds \cup late'
    BY <1>1, <2>2, <2>4
  <2>5. ASSUME NEW g \in Goroutines, pc[g] \in Past
        PROVE  ctx = "cancelled"
    BY <2>5 DEF SignalInv
  <2> QED BY <1>2, <2>1, <2>3, <2>4, <2>5 DEF ShutInv
<1>6. CASE Peer \/ SessionMove
  <2>1. Fewer /\ UNCHANGED late
    BY <1>6 DEF Peer, Connect, Hangup, SessionMove, Elsewhere, Fewer
  <2> QED BY <1>2, <1>3, <1>6, <2>1, OutsideStays DEF Untouched
<1>7. CASE /\ pc["main"] \in {"menu", "choose"} /\ EnterMove
           /\ UNCHANGED <<open, stray, fwds, Elsewhere>>
  BY <1>2, <1>3, <1>7, OutsideStays DEF Untouched, Elsewhere, Fewer
<1>8. CASE \E b \in BOOLEAN : ExitBegin(b)
  <2>1. PICK where \in {"ask", "stop"} : Goto("main", where) BY <1>8 DEF ExitBegin
  <2> QED BY <1>2, <1>3, <1>8, <2>1 DEF ExitBegin, tables, Fewer, Goto, DialogueInv
<1>9. CASE \/ ExitAnswer \/ MenuError \/ \E s \in {"INT", "TERM"} : Signal(s)
  BY <1>2, <1>3, <1>9
  DEF ExitAnswer, MenuError, Signal, tables, exitVars, Fewer, Goto, DialogueInv
<1>10. CASE EventLoop
  BY <1>2, <1>3, <1>10
  DEF EventLoop, EvCancelled, EvSignal, tables, exitVars, Fewer, Goto, DialogueInv
<1>11. ASSUME NEW g \in Goroutines, Exiting(g) PROVE ShutInv'
  <2> USE DEF DialogueInv, Goto
  <2>1. CASE ExitStop(g)
    BY <1>2, <2>1 DEF ExitStop, ShutInv, tables, exitVars
  <2>2. CASE ExitList(g)
    <3>1. todo' \in [Goroutines -> SUBSET (0 .. MaxPort)]
      <4>1. open \subseteq 1 .. MaxPort /\ DOMAIN fwds \subseteq 0 .. MaxPort
        BY DEF TablesInv
      <4>2. 1 .. MaxPort \subseteq 0 .. MaxPort BY DispatcherAssumption
      <4>3. open \in SUBSET (0 .. MaxPort) /\ DOMAIN fwds \in SUBSET (0 .. MaxPort)
        BY <4>1, <4>2
      <4> QED BY <2>2, <4>3 DEF ExitList, ShutInv
    <3>2. UNCHANGED <<open, fwds, late, proc>> BY <2>2 DEF ExitList, tables
    <3>3. CASE pc[g] = "ports" /\ Goto(g, "close") /\ todo' = [todo EXCEPT ![g] = open]
      BY <1>2, <3>1, <3>2, <3>3 DEF ShutInv
    <3>4. CASE /\ pc[g] = "close" /\ todo[g] = {} /\ Goto(g, "drop")
               /\ todo' = [todo EXCEPT ![g] = DOMAIN fwds]
      BY <1>2, <3>1, <3>2, <3>4 DEF ShutInv
    <3> QED BY <2>2, <3>3, <3>4 DEF ExitList
  <2>3. CASE ExitClose(g)
    <3>1. UNCHANGED <<pc, late, proc>> BY <2>3 DEF ExitClose
    <3>2. PICK p \in todo[g] :
            /\ todo' = [todo EXCEPT ![g] = @ \ {p}]
            /\ \/ pc[g] = "close" /\ ClosePort(p) /\ UNCHANGED fwds
               \/ pc[g] = "drop" /\ fwds' = Without(p) /\ UNCHANGED <<open, sess, stray>>
      BY <2>3 DEF ExitClose
    <3>3. CASE pc[g] = "close" /\ open' = open \ {p} /\ UNCHANGED fwds
      BY <1>2, <3>1, <3>2, <3>3 DEF ShutInv
    <3>4. CASE pc[g] = "drop" /\ DOMAIN fwds' = DOMAIN fwds \ {p} /\ UNCHANGED open
      BY <1>2, <3>1, <3>2, <3>4 DEF ShutInv
    <3> QED BY <3>2, <3>3, <3>4 DEF ClosePort, Without
  <2>4. CASE ExitReadline(g)
    BY <1>2, <2>4 DEF ExitReadline, ShutInv, tables, exitVars
  <2>5. CASE End(g)
    BY <2>5 DEF End, ShutInv, tables, exitVars
  <2> QED BY <1>11, <2>1, <2>2, <2>3, <2>4, <2>5 DEF Exiting
<1> QED
  BY <1>4, <1>5, <1>6, <1>7, <1>8, <1>9, <1>10, <1>11, NextMoves DEF Moves

-----------------------------------------------------------------------------
(* The invariant is inductive. *)

LEMMA InitOK == Init => IInv
<1> SUFFICES ASSUME Init PROVE IInv
  OBVIOUS
<1> USE DEF Init, TablesInit, Goroutines, MainAt, EvAt, Past
<1>1. TablesInv BY DEF TablesInv
<1>2. DialogueInv BY FS_EmptySet DEF DialogueInv
<1>3. SignalInv BY ConsoleAssumption DEF SignalInv
<1>4. ShutInv BY DEF ShutInv
<1>5. HomeInv /\ AskedInv BY DEF HomeInv, AskedInv
<1> QED BY <1>1, <1>2, <1>3, <1>4, <1>5 DEF IInv

LEMMA StepOK == IInv /\ [Next]_vars => IInv'
<1> SUFFICES ASSUME IInv, [Next]_vars PROVE IInv'
  OBVIOUS
<1> USE DEF IInv
<1>1. TablesInv' /\ HomeInv' BY TablesStep DEF Kept
<1>2. DialogueInv' BY DialogueStep
<1>3. SignalInv' BY SignalStep
<1>4. AskedInv' BY AskedStep
<1>5. CASE Running BY <1>1, <1>2, <1>3, <1>4, <1>5, ShutStep
<1>6. CASE UNCHANGED vars
  <2>1. ShutInv' BY <1>6 DEF ShutInv, vars, tables, exitVars
  <2> QED BY <1>1, <1>2, <1>3, <1>4, <2>1
<1> QED BY <1>5, <1>6 DEF Next

LEMMA Invariant == Spec => []IInv
BY InitOK, StepOK, PTL DEF Spec

(* Every variable keeps its type, for any lines and any sessions: a port   *)
(* is listened on by one manager only, main is at the question which       *)
(* session to enter only with several on its list and in session mode only *)
(* with a session that came to be, and readline is closed and the signals  *)
(* are given back only after the context is cancelled.                     *)
THEOREM TypeCorrect == Spec => []TypeOK
<1>1. IInv => TypeOK
  BY DEF IInv, TablesInv, DialogueInv, SignalInv, ShutInv, AskedInv, TypeOK, MainAt, EvAt,
         Goroutines
<1> QED BY <1>1, Invariant, PTL

(* No command leaves its list of sessions by a number above it, however    *)
(* many sessions there are and whatever number is typed: the process ends  *)
(* by an index only if the index is negative.                              *)
THEOREM NoPanicAbove == Spec => []NoPanic
<1>1. IInv => NoPanic BY DEF IInv, TablesInv, NoPanic
<1> QED BY <1>1, Invariant, PTL

(* Two goroutines may be in doExit, listing and closing the same tables,   *)
(* while commands and peers go on: when the process ends by it, what is    *)
(* open was opened by a command beside the shutdown, and who is still      *)
(* connected came in on such a port, or on one as it was being closed.     *)
THEOREM EndsCleanly == Spec => []EndsClean
<1>1. IInv => EndsClean
  BY DEF IInv, ShutInv, HomeInv, EndsClean
<1> QED BY <1>1, Invariant, PTL

(* Main closes no session that was there when it looked unless its user    *)
(* said so or is gone.                                                     *)
THEOREM AskedBeforeClosing == Spec => ClosedOnlyIfAsked
<1> DEFINE Asked == \A c \in known :
             ExitClose("main") /\ sess[c] = "live" /\ sess'[c] = "dead"
               => consent # "none"
<1>1. IInv => Asked
  <2> SUFFICES ASSUME IInv, NEW c \in known, ExitClose("main") PROVE consent # "none"
    OBVIOUS
  <2>1. pc["main"] \in {"close", "drop"} BY DEF ExitClose
  <2> QED BY <2>1 DEF IInv, AskedInv, Past
<1> QED BY <1>1, Invariant, PTL DEF ClosedOnlyIfAsked
=============================================================================
