------------------------------ MODULE Serving -------------------------------
(***************************************************************************)
(* The server's accept loop and its clients, one after the other           *)
(* (internal/server, internal/client, the handshake of internal/proto):    *)
(* who is served, what becomes of lines, of listener events and of data    *)
(* while clients come, leave and are replaced, and of the goroutines that  *)
(* outlive the client they were started for.                               *)
(*                                                                         *)
(* A frame is one step, commands answer with one response, and the single  *)
(* remote session lives: pieces of frames, silent commands, `!` lines and  *)
(* dying sessions are in Remote.tla.                                       *)
(***************************************************************************)
EXTENDS CommandLine, FiniteSets, Functions

CONSTANTS
  Clients,           \* programs that connect
  None,              \* no client
  Lines,             \* lines users may type
  MaxLines,          \* bound: lines typed, by all clients together
  MaxPushed,         \* bound: listener events and chunks of session data
  OutCap,            \* capacity of outCh (64), with the message being written
  WireCap            \* frames the connection to a client holds

ASSUME ServingAssumption ==
  /\ IsFiniteSet(Clients) /\ None \notin Clients
  /\ {MaxLines, MaxPushed} \subseteq Nat
  /\ {OutCap, WireCap} \subseteq Nat \ {0}

VARIABLES
  spc, cl,    \* where Run is, and the client it is with
  backlog,    \* connections the kernel has queued for Accept
  cli,        \* per client: what it is doing
  typed,      \* history: per client, the lines its user typed
  handled,    \* history: per client, the lines serveClient has looked at
  c2s,        \* per client: lines on the connection and in cmdCh
  s2c, outCh, \* per client: messages on the connection, and for its writer
  ended,      \* the clients whose context is cancelled
  dr,         \* per client: its drain goroutine
  evHand,     \* per client: what its event forwarder holds, having taken it
  rxHand,     \* and its drain goroutine
  reply,      \* the message Run is sending
  events,     \* listener.Manager's event channel
  rx,         \* rxBuf of the remote session
  sent,       \* numbers of events and chunks so far
  taken,      \* history: per client, the events and chunks its goroutines took
  shown       \* history: per client, the pushed messages it received

userVars == <<cli, typed>>
runVars  == <<spc, cl, backlog, reply, handled, ended>>
wireVars == <<c2s, s2c>>
handVars == <<evHand, rxHand, taken>>
vars == <<userVars, runVars, wireVars, dr, handVars, outCh, events, rx, sent, shown>>

(* Messages.  A pushed message carries the numbers of its event or chunks. *)
Msg(t, ns) == [typ |-> t, ns |-> ns]
Hello    == <<<<"HELLO">>>>
Garbage  == <<<<"?">>>>     \* does not decrypt
Response == Msg("R", <<>>)
Start    == Msg("S", <<>>)
Ready    == Msg("READY", <<>>)

Init ==
  /\ spc = "accept" /\ cl = None /\ backlog = <<>>
  /\ cli = [c \in Clients |-> "new"]
  /\ typed = [c \in Clients |-> <<>>] /\ handled = typed
  /\ c2s = typed /\ s2c = typed /\ outCh = typed
  /\ ended = {} /\ dr = [c \in Clients |-> "off"]
  /\ evHand = typed /\ rxHand = typed
  /\ reply = Response /\ events = <<>> /\ rx = <<>>
  /\ sent = [E |-> 0, D |-> 0]
  /\ taken = [c \in Clients |-> {}] /\ shown = typed

-----------------------------------------------------------------------------
(* The client: connect, HELLO, wait for READY; then lines.  A program      *)
(* that does not have the token sends something else, or nothing.          *)

Dial(c) ==
  /\ cli[c] = "new" /\ cli' = [cli EXCEPT ![c] = "dial"]
  /\ backlog' = Append(backlog, c)
  /\ \E hello \in {<<Hello>>, <<Garbage>>, <<>>} :
       c2s' = [c2s EXCEPT ![c] = hello]
  /\ UNCHANGED <<typed, spc, cl, reply, handled, ended, s2c, dr, handVars, outCh,
                 events, rx, sent, shown>>

TypesEarly == {"dial", "menu", "session"}     \* mutant: does not wait for READY
Types == {"menu", "session"}

AllTyped == UNION {{d} \X DOMAIN typed[d] : d \in Clients}

Type(c, line) ==
  /\ cli[c] \in Types /\ Cardinality(AllTyped) < MaxLines
  /\ cli[c] = "menu" => line # <<>>
  /\ cli' = [cli EXCEPT ![c] = CASE @ = "session" /\ LeavesRemote(line)  -> "leave"
                                 [] @ = "session" /\ ~LeavesRemote(line) -> "session"
                                 [] @ # "session" /\ IsUse(line)         -> "use"
                                 [] @ # "session" /\ ~IsUse(line)        -> "ask"]
  /\ typed' = [typed EXCEPT ![c] = Append(@, line)]
  /\ c2s' = [c2s EXCEPT ![c] = Append(@, line)]
  /\ UNCHANGED <<runVars, s2c, dr, handVars, outCh, events, rx, sent, shown>>

Last(s) == s[Len(s)]
AfterResponse(c) ==
  IF \/ cli[c] = "ask" /\ ClientExits(Last(typed[c]))
     \/ cli[c] = "leave" /\ Last(typed[c]) \in EndLines
  THEN "off" ELSE "menu"

(* A response or a start that nobody waits for stays where it is, and what *)
(* follows it waits.                                                       *)
Receive(c) ==
  /\ cli[c] # "off" /\ s2c[c] # <<>>
  /\ LET m == Head(s2c[c]) IN
     \/ /\ m.typ \in {"E", "D"}
        /\ shown' = [shown EXCEPT ![c] = Append(@, m)] /\ UNCHANGED cli
     \/ /\ m.typ = "READY" /\ cli[c] = "dial"
        /\ cli' = [cli EXCEPT ![c] = "menu"] /\ UNCHANGED shown
     \/ /\ m.typ = "S" /\ cli[c] = "use"
        /\ cli' = [cli EXCEPT ![c] = "session"] /\ UNCHANGED shown
     \/ /\ m.typ = "R" /\ cli[c] \in {"ask", "use", "leave"}
        /\ cli' = [cli EXCEPT ![c] = AfterResponse(c)] /\ UNCHANGED shown
  /\ s2c' = [s2c EXCEPT ![c] = Tail(@)]
  /\ UNCHANGED <<typed, runVars, c2s, dr, handVars, outCh, events, rx, sent>>

SessionEof(c) ==
  /\ cli[c] = "session" /\ cli' = [cli EXCEPT ![c] = "menu"]
  /\ UNCHANGED <<typed, runVars, wireVars, dr, handVars, outCh, events, rx, sent, shown>>

(* End of input, or the program ends: the connection closes, and what the  *)
(* server has not read may be lost.                                        *)
Leave(c) ==
  /\ cli[c] \notin {"new", "off"} /\ cli' = [cli EXCEPT ![c] = "off"]
  /\ \E n \in 0 .. Len(c2s[c]) : c2s' = [c2s EXCEPT ![c] = SubSeq(@, 1, n)]
  /\ s2c' = [s2c EXCEPT ![c] = <<>>]
  /\ UNCHANGED <<typed, runVars, dr, handVars, outCh, events, rx, sent, shown>>

-----------------------------------------------------------------------------
(* Run: accept, authenticate.  authenticate has a buffered reader of its   *)
(* own: what it reads beyond HELLO is gone.                                *)

Accept ==
  /\ spc = "accept" /\ backlog # <<>>
  /\ spc' = "auth" /\ cl' = Head(backlog) /\ backlog' = Tail(backlog)
  /\ UNCHANGED <<userVars, reply, handled, ended, wireVars, dr, handVars, outCh, events, rx,
                 sent, shown>>

AuthOk ==
  /\ spc = "auth" /\ c2s[cl] # <<>> /\ Head(c2s[cl]) = Hello
  /\ \E n \in 1 .. Len(c2s[cl]) :
       c2s' = [c2s EXCEPT ![cl] = SubSeq(@, n + 1, Len(@))]
  /\ s2c' = [s2c EXCEPT ![cl] = Append(@, Ready)]
  /\ spc' = "menu"
  /\ UNCHANGED <<userVars, cl, backlog, reply, handled, ended, dr, handVars, outCh,
                 events, rx, sent, shown>>

AuthRefusedBad == c2s[cl] # <<>> /\ Head(c2s[cl]) # Hello   \* mutant: not at its end
AuthRefused == (c2s[cl] # <<>> /\ Head(c2s[cl]) # Hello) \/ cli[cl] = "off"

AuthFail ==
  /\ spc = "auth" /\ AuthRefused
  /\ spc' = "accept" /\ cl' = None
  /\ cli' = [cli EXCEPT ![cl] = "off"]       \* conn.Close
  /\ UNCHANGED <<typed, backlog, reply, handled, ended, wireVars, dr, handVars, outCh,
                 events, rx, sent, shown>>

AcceptFails ==                \* for whatever reason: Run returns
  /\ spc = "accept" /\ spc' = "stopped"
  /\ UNCHANGED <<userVars, cl, backlog, reply, handled, ended, wireVars, dr, handVars, outCh,
                 events, rx, sent, shown>>

-----------------------------------------------------------------------------
(* serveClient.  Returning cancels the context; it does not close the      *)
(* connection.                                                             *)

Return == spc' = "accept" /\ cl' = None /\ ended' = ended \cup {cl}

NextLine(line) ==
  /\ c2s[cl] # <<>> /\ line = Head(c2s[cl])
  /\ c2s' = [c2s EXCEPT ![cl] = Tail(@)]
  /\ handled' = [handled EXCEPT ![cl] = Append(@, line)]

(* `use` finds a session or not.  (Bound: a client's previous drain        *)
(* goroutine has ended.)                                                   *)
Replies(line) == IF IsUse(line) /\ dr[cl] = "off" THEN {Start, Response} ELSE {Response}

MenuLine(line) ==
  /\ spc = "menu" /\ NextLine(line)
  /\ CASE line = <<>> -> UNCHANGED <<spc, reply>>
       [] line # <<>> /\ Exits(line) -> spc' = "bye" /\ UNCHANGED reply
       [] line # <<>> /\ ~Exits(line) -> spc' = "reply" /\ reply' \in Replies(line)
  /\ UNCHANGED <<userVars, cl, backlog, ended, s2c, dr, handVars, outCh, events, rx,
                 sent, shown>>

Room(c) == Len(outCh[c]) < OutCap
PushBlind(c, m) == outCh' = [outCh EXCEPT ![c] = Append(@, m)]   \* mutant: unbounded
Push(c, m) == Room(c) /\ outCh' = [outCh EXCEPT ![c] = Append(@, m)]

Reply ==
  /\ spc = "reply" /\ Push(cl, reply)
  /\ IF reply = Start
     THEN spc' = "session" /\ dr' = [dr EXCEPT ![cl] = "run"]
     ELSE spc' = "menu" /\ UNCHANGED dr
  /\ UNCHANGED <<userVars, cl, backlog, reply, handled, ended, wireVars, handVars,
                 events, rx, sent, shown>>

Bye ==                        \* straight to the connection
  /\ spc = "bye" /\ Return
  /\ \/ Len(s2c[cl]) < WireCap /\ s2c' = [s2c EXCEPT ![cl] = Append(@, Response)]
     \/ cli[cl] = "off" /\ UNCHANGED s2c
  /\ UNCHANGED <<userVars, backlog, reply, handled, c2s, dr, handVars, outCh, events,
                 rx, sent, shown>>

(* The drain goroutine is told to stop.  It may miss that (Session.tla)    *)
(* and stay until there is data.                                           *)
TellDrainer == dr' = [dr EXCEPT ![cl] = IF @ = "run" THEN "told" ELSE @]

SessionLineEnds(line) ==      \* mutant: +exit and exit end the serving
  /\ spc = "session" /\ NextLine(line)
  /\ IF LeavesRemote(line)
     THEN TellDrainer /\ Return /\ UNCHANGED reply
     ELSE UNCHANGED <<spc, cl, ended, reply, dr>>
  /\ UNCHANGED <<userVars, backlog, s2c, handVars, outCh,
                 events, rx, sent, shown>>

SessionLine(line) ==
  /\ spc = "session" /\ NextLine(line)
  /\ IF LeavesRemote(line)
     THEN TellDrainer /\ spc' = "reply" /\ reply' = Response
     ELSE UNCHANGED <<spc, reply, dr>>
  /\ UNCHANGED <<userVars, cl, backlog, ended, s2c, handVars, outCh,
                 events, rx, sent, shown>>

(* The reader goroutine has failed and closed cmdCh. *)
ClientGone ==
  /\ cl # None /\ cli[cl] = "off" /\ c2s[cl] = <<>>
  /\ \/ spc = "session" /\ spc' = "menu" /\ TellDrainer /\ UNCHANGED <<cl, ended>>
     \/ spc = "menu" /\ Return /\ UNCHANGED dr
  /\ UNCHANGED <<userVars, backlog, reply, handled, wireVars, handVars,
                 outCh, events, rx, sent, shown>>

-----------------------------------------------------------------------------
(* What pushes: the event forwarder and the drain goroutine.  Either may   *)
(* take something after the context was cancelled (select picks any ready  *)
(* case), but need not, and gives up a message only then.                  *)

GivesUp(c) == c \in ended /\ UNCHANGED outCh

Took(c, m) == taken' = [taken EXCEPT ![c] = @ \cup {<<m.typ, n>> : n \in Range(m.ns)}]

ForwarderTake(c) ==
  /\ (c = cl /\ spc # "auth") \/ c \in ended
  /\ evHand[c] = <<>> /\ events # <<>> /\ events' = Tail(events)
  /\ LET m == Msg("E", <<Head(events)>>) IN
       evHand' = [evHand EXCEPT ![c] = <<m>>] /\ Took(c, m)
  /\ UNCHANGED <<userVars, runVars, wireVars, dr, rxHand, outCh, rx, sent, shown>>

ForwarderPushLossy(c) ==      \* mutant: a full outCh drops the event
  /\ evHand[c] # <<>> /\ evHand' = [evHand EXCEPT ![c] = <<>>]
  /\ Push(c, evHand[c][1]) \/ (~Room(c) /\ UNCHANGED outCh) \/ GivesUp(c)
  /\ UNCHANGED <<userVars, runVars, wireVars, dr, rxHand, taken, events, rx, sent, shown>>

ForwarderPush(c) ==
  /\ evHand[c] # <<>> /\ evHand' = [evHand EXCEPT ![c] = <<>>]
  /\ Push(c, evHand[c][1]) \/ GivesUp(c)
  /\ UNCHANGED <<userVars, runVars, wireVars, dr, rxHand, taken, events, rx, sent, shown>>

DrainerTakeKeeps(c) ==        \* mutant: the buffer is not emptied
  /\ dr[c] \in {"run", "told"} /\ rxHand[c] = <<>> /\ rx # <<>>
  /\ rxHand' = [rxHand EXCEPT ![c] = <<Msg("D", rx)>>] /\ Took(c, Msg("D", rx))
  /\ dr' = [dr EXCEPT ![c] = IF @ = "told" THEN "last" ELSE @]
  /\ UNCHANGED <<userVars, runVars, wireVars, evHand, outCh, events, rx, sent, shown>>

DrainerTake(c) ==
  /\ dr[c] \in {"run", "told"} /\ rxHand[c] = <<>>
  /\ IF rx # <<>>
     THEN /\ rxHand' = [rxHand EXCEPT ![c] = <<Msg("D", rx)>>] /\ Took(c, Msg("D", rx))
          /\ dr' = [dr EXCEPT ![c] = IF @ = "told" THEN "last" ELSE @]
     ELSE dr[c] = "told" /\ dr' = [dr EXCEPT ![c] = "off"] /\ UNCHANGED <<rxHand, taken>>
  /\ rx' = <<>>
  /\ UNCHANGED <<userVars, runVars, wireVars, evHand, outCh, events, sent, shown>>

DrainerPush(c) ==
  /\ rxHand[c] # <<>> /\ rxHand' = [rxHand EXCEPT ![c] = <<>>]
  /\ Push(c, rxHand[c][1]) \/ GivesUp(c)
  /\ dr' = [dr EXCEPT ![c] = IF @ = "last" THEN "off" ELSE @]
  /\ UNCHANGED <<userVars, runVars, wireVars, evHand, taken, events, rx, sent, shown>>

(* The writer goroutine: a message is in outCh until it has been written.  *)
(* Once the client has gone, a write fails and ends it, or is in vain.     *)
WriterWrite(c) ==
  /\ outCh[c] # <<>> /\ outCh' = [outCh EXCEPT ![c] = Tail(@)]
  /\ \/ /\ cli[c] # "off" /\ Len(s2c[c]) < WireCap
        /\ s2c' = [s2c EXCEPT ![c] = Append(@, Head(outCh[c]))]
     \/ cli[c] = "off" /\ UNCHANGED s2c
  /\ UNCHANGED <<userVars, runVars, c2s, dr, handVars, events, rx, sent, shown>>

(* Listeners emit, the remote peer sends. *)
Happen ==
  /\ sent.E + sent.D < MaxPushed
  /\ \/ /\ sent' = [sent EXCEPT !.E = @ + 1]
        /\ events' = Append(events, sent'.E) /\ UNCHANGED rx
     \/ /\ sent' = [sent EXCEPT !.D = @ + 1]
        /\ rx' = Append(rx, sent'.D) /\ UNCHANGED events
  /\ UNCHANGED <<userVars, runVars, wireVars, dr, handVars, outCh, shown>>

-----------------------------------------------------------------------------
Running == spc # "stopped"

User(c)    == Dial(c) \/ SessionEof(c) \/ Leave(c) \/ \E line \in Lines : Type(c, line)
Main       == \/ Accept \/ AuthOk \/ AuthFail \/ Reply \/ Bye \/ ClientGone
              \/ \E line \in Lines : MenuLine(line) \/ SessionLine(line)
Pushing(c) == \/ ForwarderTake(c) \/ ForwarderPush(c)
              \/ DrainerTake(c) \/ DrainerPush(c)

Next ==
  /\ Running
  /\ \/ Main \/ AcceptFails \/ Happen
     \/ \E c \in Clients : User(c) \/ Receive(c) \/ Pushing(c) \/ WriterWrite(c)

Spec == Init /\ [][Next]_vars

(* The goroutines of the server and of the clients run, the writer as long *)
(* as there is a client; who waits for a place in outCh gets one, if there *)
(* is one again and again.  Nothing is assumed of users, events and data.  *)
Fairness ==
  /\ WF_vars(Running /\ Main) /\ SF_vars(Running /\ Reply)
  /\ \A c \in Clients : /\ WF_vars(Running /\ Receive(c))
                        /\ WF_vars(Running /\ cli[c] # "off" /\ WriterWrite(c))

FairSpec == Spec /\ Fairness

-----------------------------------------------------------------------------
Serving == {"menu", "reply", "bye", "session"}
Present(c) == cli[c] \notin {"new", "dial", "off"}

(* Every variable has its type.                                            *)
TypeOK ==
  /\ spc \in Serving \cup {"accept", "auth", "stopped"} /\ cl \in Clients \cup {None}
  /\ spc \in Serving \cup {"auth"} => cl # None
  /\ Range(backlog) \subseteq Clients /\ ended \subseteq Clients
  /\ reply \in {Response, Start}
  /\ \A c \in Clients :
       /\ cli[c] \in {"new", "dial", "menu", "ask", "use", "session", "leave", "off"}
       /\ Len(typed[c]) <= MaxLines
       /\ Len(outCh[c]) <= OutCap /\ Len(s2c[c]) <= WireCap
       /\ dr[c] \in {"off", "run", "told", "last"}
       /\ c \in ended => dr[c] # "run"
       /\ Len(evHand[c]) <= 1 /\ Len(rxHand[c]) <= 1

(* What a client's goroutines carry, in the order its user will see it.    *)
Carried(c) == shown[c] \o s2c[c] \o outCh[c]
Through(c, t) == Carried(c) \o (IF t = "E" THEN evHand[c] ELSE rxHand[c])
Numbers(c, t) == UNION {Range(m.ns) : m \in {x \in Range(Through(c, t)) : x.typ = t}}
Waiting(t)    == Range(IF t = "E" THEN events ELSE rx)

(* Listener events and session data reach a client in the order they       *)
(* happened in, and none reaches two clients or a client twice, although a *)
(* forwarder and a drain goroutine of each of them may be taking.          *)
PushedOnceInOrder ==
  \A t \in {"E", "D"}, c \in Clients :
    /\ LET q == Through(c, t) IN
         \A i, j \in DOMAIN q : i < j /\ q[i].typ = t /\ q[j].typ = t =>
           \A m \in Range(q[i].ns), n \in Range(q[j].ns) : m < n
    /\ Numbers(c, t) \cap Waiting(t) = {}
    /\ \A d \in Clients \ {c} : Numbers(c, t) \cap Numbers(d, t) = {}

(* An event or a chunk waits for a taker, is on its way to a client or has *)
(* reached one; only what a goroutine of a client took that has left, or   *)
(* is no longer served, may be lost.                                       *)
LostOnlyWithClient ==
  \A t \in {"E", "D"} : \A n \in 1 .. sent[t] :
    \/ n \in Waiting(t)
    \/ \E c \in Clients : n \in Numbers(c, t)
    \/ \E c \in Clients : <<t, n>> \in taken[c] /\ (c \in ended \/ cli[c] = "off")

(* Every line typed is looked at by the server, once and in order: the     *)
(* reader of the handshake, which is thrown away, has taken none of them.  *)
LinesReachServer ==
  \A c \in Clients : Present(c) /\ c \notin ended
    => typed[c] = handled[c] \o c2s[c]

(* A client that has been let in is the one being served, until it leaves  *)
(* or types a line that begins with exit.                                  *)
ServedWhileIn ==
  \A c \in Clients : Present(c)
    => \/ cl = c /\ spc \in Serving \cup {"stopped"}
       \/ \E i \in DOMAIN handled[c] : handled[c][i] # <<>> /\ Exits(handled[c][i])

(* A connection that has sent its first frame is answered, or closed, once *)
(* the others have gone: wrong tokens, connections that send nothing and   *)
(* clients that disappear do not keep the server, unless outCh stays full  *)
(* (Remote!ServerFreed).                                                   *)
NextServed ==
  \A c \in Clients :
    []<>(cl = None \/ Room(cl)) /\ <>[](\A d \in Clients \ {c} : cli[d] \in {"new", "off"})
      => (cli[c] = "dial" /\ c2s[c] # <<>> ~> cli[c] # "dial" \/ ~Running)

(* client.go: "blocks until the user types exit/+exit or the server        *)
(* disconnects": a client that waits for a response gets one or is told    *)
(* that the server has gone.                                               *)
Answered ==
  \A c \in Clients : cli[c] \in {"ask", "use", "leave"}
    ~> cli[c] \notin {"ask", "use", "leave"} \/ ~Running
=============================================================================
