------------------------------- MODULE Remote -------------------------------
(***************************************************************************)
(* Server mode and its client (internal/server, internal/client and the    *)
(* frames of internal/proto): lines travel from the client's prompt to the *)
(* server's dispatch loop, and responses, events and the start of session  *)
(* mode travel back over bounded channels and one TCP connection.          *)
(*                                                                         *)
(* What a command does to listeners and sessions is the subject of the     *)
(* other modules; here a line has a kind, and the question is who answers  *)
(* it, in which mode it is read, and who waits for whom.  The handshake    *)
(* has succeeded.  Encryption is perfect: a frame whose pieces were mixed  *)
(* with another's does not decrypt.                                        *)
(***************************************************************************)
EXTENDS Integers, Sequences, FiniteSets

CONSTANTS
  Lines,      \* kinds of lines the user types
  Mishaps,    \* "death": the session may die; "eof": end of input in session mode;
              \* "leave": end of input at the menu, or the client is killed;
              \* "big": a message does not fit a frame (maxFrameBytes)
  MaxLines,   \* bound: lines typed
  MaxEvents,  \* bound: events pushed
  CmdCap,     \* capacity of cmdCh (8)
  OutCap,     \* capacity of outCh (64)
  EvCap,      \* capacity of eventCh (32)
  WireCap,    \* pieces the TCP connection holds, per direction
  Parts       \* writes per frame: header, nonce, ciphertext (3)

MenuKinds    == {"tool", "silent", "use", "exit"}   \* silent: a command without output
Passed       == {"data", "system"}    \* for the session; system: !<cmd>
SessionKinds == Passed \cup {"back", "exit"}     \* back: +back, +bg, +background

ASSUME RemoteAssumption ==
  /\ Lines \subseteq MenuKinds \cup SessionKinds
  /\ Mishaps \subseteq {"death", "eof", "leave", "big"}
  /\ MaxLines \in Nat /\ MaxEvents \in Nat
  /\ {CmdCap, OutCap, EvCap, Parts, WireCap} \subseteq Nat \ {0} /\ WireCap >= Parts

VARIABLES
  cpc,       \* where the client's main loop is
  asked,     \* number of the line it sent last
  kind,      \* and the kind of that line
  cin,       \* the frame its reader goroutine is about to route
  broken,    \* its reader goroutine has failed: readErrCh has been sent to
  eventCh, startCh, respCh,  \* the client's channels
  answers,   \* history: [asked, for] of the responses shown
  c2s, s2c,  \* the connection: lines to the server, pieces of frames back
  cmdCh,     \* lines the server has decrypted
  spc,       \* where the server's main goroutine is
  reply,     \* the frame it is sending
  cur,       \* the `use` line of the session it serves, or 0
  rx,        \* per `use` line: its RX goroutine
  alive,     \* the remote session is not dead
  outCh,     \* messages for the writer goroutine
  wr,        \* the frame the writer goroutine is sending
  wrDead,    \* the writer goroutine has returned
  part,      \* pieces written: by the writer, and directly by the main goroutine
  pushed,    \* events pushed so far
  strayed    \* history: lines typed in session mode and dispatched as commands

cliVars == <<cpc, asked, kind, answers>>
chVars  == <<cin, broken, eventCh, startCh, respCh>>
srvVars == <<spc, reply, cur, strayed>>
rxVars  == <<rx, alive>>
wrVars  == <<wr, wrDead>>
vars == <<cliVars, chVars, c2s, s2c, cmdCh, srvVars, rxVars, outCh, wrVars, part,
          pushed>>

Numbers == 1 .. MaxLines
Frame(t, n) == [typ |-> t, for |-> n]       \* for = 0: no line asked for it
NoFrame == Frame("none", 0)

Init ==
  /\ cpc = "menu" /\ asked = 0 /\ kind = "tool" /\ answers = <<>>
  /\ cin = NoFrame /\ broken = FALSE
  /\ eventCh = <<>> /\ startCh = <<>> /\ respCh = <<>>
  /\ c2s = <<>> /\ s2c = <<>> /\ cmdCh = <<>>
  /\ spc = "menu" /\ reply = NoFrame /\ cur = 0 /\ strayed = {}
  /\ rx = [n \in Numbers |-> "unborn"] /\ alive = TRUE
  /\ outCh = <<>> /\ wr = NoFrame /\ wrDead = FALSE
  /\ part = [writer |-> 0, main |-> 0] /\ pushed = 0

-----------------------------------------------------------------------------
(* The client's main loop. *)

Type(k) ==
  /\ asked < MaxLines /\ Len(c2s) < WireCap
  /\ asked' = asked + 1 /\ kind' = k
  /\ c2s' = Append(c2s, [n |-> asked + 1, kind |-> k])

MenuType ==
  /\ cpc = "menu"
  /\ \E k \in Lines \cap MenuKinds :
       Type(k) /\ cpc' = IF k = "use" THEN "awaitUse" ELSE "await"
  /\ UNCHANGED <<answers, chVars, s2c, cmdCh, srvVars, rxVars, outCh, wrVars, part,
                 pushed>>

SessionTypeForgets ==         \* mutant: +back does not wait for its response
  /\ cpc = "session"
  /\ \E k \in Lines \cap SessionKinds :
       Type(k) /\ cpc' = IF k \in Passed THEN "session" ELSE "menu"
  /\ UNCHANGED <<answers, chVars, s2c, cmdCh, srvVars, rxVars, outCh, wrVars, part,
                 pushed>>

(* In session mode only the lines that leave it wait for a response. *)
SessionType ==
  /\ cpc = "session"
  /\ \E k \in Lines \cap SessionKinds :
       Type(k) /\ cpc' = IF k \in Passed THEN "session" ELSE "awaitLeave"
  /\ UNCHANGED <<answers, chVars, s2c, cmdCh, srvVars, rxVars, outCh, wrVars, part,
                 pushed>>

Waiting == {"await", "awaitUse", "awaitLeave"}

ShowResponse ==
  /\ cpc \in Waiting /\ respCh # <<>>
  /\ respCh' = Tail(respCh)
  /\ answers' = Append(answers, [asked |-> asked, for |-> Head(respCh).for])
  /\ cpc' = IF kind = "exit" THEN "off" ELSE "menu"
  /\ UNCHANGED <<asked, kind, cin, broken, eventCh, startCh, c2s, s2c, cmdCh, srvVars,
                 rxVars, outCh, wrVars, part, pushed>>

EnterSession ==
  /\ cpc = "awaitUse" /\ startCh # <<>>
  /\ startCh' = Tail(startCh) /\ cpc' = "session"
  /\ UNCHANGED <<asked, kind, answers, cin, broken, eventCh, respCh, c2s, s2c, cmdCh,
                 srvVars, rxVars, outCh, wrVars, part, pushed>>

(* End of input in session mode ends the passthrough loop, and no more. *)
SessionEof ==
  /\ "eof" \in Mishaps /\ cpc = "session" /\ cpc' = "menu"
  /\ UNCHANGED <<asked, kind, answers, chVars, c2s, s2c, cmdCh, srvVars, rxVars, outCh,
                 wrVars, part, pushed>>

(* The connection goes; what the server has not read yet may be lost. *)
Leave ==
  /\ \/ cpc \in Waiting /\ broken
     \/ cpc # "off" /\ "leave" \in Mishaps
  /\ cpc' = "off" /\ \E n \in 0 .. Len(c2s) : c2s' = SubSeq(c2s, 1, n)
  /\ UNCHANGED <<asked, kind, answers, chVars, s2c, cmdCh, srvVars, rxVars, outCh,
                 wrVars, part, pushed>>

-----------------------------------------------------------------------------
(* The client's reader and event goroutines. *)

Piece(f, k) == [frame |-> f, part |-> k]

(* ReadTypedFrame.  Mixed pieces do not decrypt (or leave it waiting for   *)
(* bytes that never come): nothing after them is read.  Nor is anything    *)
(* after a frame above 4 MiB: WriteFrame sends it, ReadFrame refuses it.   *)
(* Output of commands and session data have any size.                      *)
ReadTypedFrame ==
  /\ cin = NoFrame /\ ~broken /\ cpc # "off" /\ Len(s2c) >= Parts
  /\ LET f == s2c[1].frame IN
       \/ /\ \A k \in 1 .. Parts : s2c[k] = Piece(f, k)
          /\ cin' = f /\ UNCHANGED broken
       \/ /\ \/ \E k \in 1 .. Parts : s2c[k] # Piece(f, k)
             \/ f.typ # "S" /\ "big" \in Mishaps
          /\ broken' = TRUE /\ UNCHANGED cin
  /\ s2c' = SubSeq(s2c, Parts + 1, Len(s2c))
  /\ UNCHANGED <<cliVars, eventCh, startCh, respCh, c2s, cmdCh, srvVars, rxVars, outCh,
                 wrVars, part, pushed>>

Route ==
  /\ cin # NoFrame /\ cin' = NoFrame
  /\ \/ /\ cin.typ = "E" /\ Len(eventCh) < EvCap
        /\ eventCh' = Append(eventCh, cin) /\ UNCHANGED <<startCh, respCh>>
     \/ /\ cin.typ = "S" /\ startCh = <<>>
        /\ startCh' = <<cin>> /\ UNCHANGED <<eventCh, respCh>>
     \/ /\ cin.typ = "R" /\ respCh = <<>>
        /\ respCh' = <<cin>> /\ UNCHANGED <<eventCh, startCh>>
  /\ UNCHANGED <<cliVars, broken, c2s, s2c, cmdCh, srvVars, rxVars, outCh, wrVars, part,
                 pushed>>

PrintEvent ==
  /\ eventCh # <<>> /\ eventCh' = Tail(eventCh)
  /\ UNCHANGED <<cliVars, cin, broken, startCh, respCh, c2s, s2c, cmdCh, srvVars,
                 rxVars, outCh, wrVars, part, pushed>>

-----------------------------------------------------------------------------
(* The server's reader goroutine, event forwarder and writer goroutine. *)

ReadCommand ==
  /\ spc # "gone" /\ c2s # <<>> /\ Len(cmdCh) < CmdCap
  /\ c2s' = Tail(c2s) /\ cmdCh' = Append(cmdCh, Head(c2s))
  /\ UNCHANGED <<cliVars, chVars, s2c, srvVars, rxVars, outCh, wrVars, part, pushed>>

Out(f) == Len(outCh) < OutCap /\ outCh' = Append(outCh, f)

(* A listener event, or data of the session in the foreground. *)
PushEvent ==
  /\ spc # "gone" /\ pushed < MaxEvents /\ Out(Frame("E", 0))
  /\ pushed' = pushed + 1
  /\ UNCHANGED <<cliVars, chVars, c2s, s2c, cmdCh, srvVars, rxVars, wrVars, part>>

WriterPeek ==                 \* mutant: the message stays in the channel
  /\ wr = NoFrame /\ ~wrDead /\ outCh # <<>>
  /\ wr' = Head(outCh)
  /\ UNCHANGED <<cliVars, chVars, c2s, s2c, cmdCh, srvVars, rxVars, outCh, wrDead, part,
                 pushed>>

WriterTake ==
  /\ wr = NoFrame /\ ~wrDead /\ outCh # <<>>
  /\ wr' = Head(outCh) /\ outCh' = Tail(outCh)
  /\ UNCHANGED <<cliVars, chVars, c2s, s2c, cmdCh, srvVars, rxVars, wrDead, part,
                 pushed>>

(* WriteFrame: each Write is atomic, the sequence of them is not. *)
WritePart(who, f) ==
  /\ Len(s2c) < WireCap /\ s2c' = Append(s2c, Piece(f, part[who] + 1))
  /\ part' = [part EXCEPT ![who] = (@ + 1) % Parts]

WriterPart ==
  /\ wr # NoFrame /\ WritePart("writer", wr)
  /\ wr' = IF part'["writer"] = 0 THEN NoFrame ELSE wr
  /\ UNCHANGED <<cliVars, chVars, c2s, cmdCh, srvVars, rxVars, outCh, wrDead, pushed>>

WriterFail ==
  /\ cpc = "off" /\ wr # NoFrame
  /\ wr' = NoFrame /\ wrDead' = TRUE
  /\ UNCHANGED <<cliVars, chVars, c2s, s2c, cmdCh, srvVars, rxVars, outCh, part, pushed>>

-----------------------------------------------------------------------------
(* serveClient: the dispatch loop. *)

ReplyTo(l) == Frame(IF l.kind = "use" /\ alive THEN "S" ELSE "R", l.n)

Dispatch ==
  /\ spc = "menu" /\ cmdCh # <<>> /\ cmdCh' = Tail(cmdCh)
  /\ LET l == Head(cmdCh) IN
       /\ spc' = CASE l.kind = "exit"   -> "bye"
                   [] l.kind = "silent" -> "menu"
                   [] OTHER             -> "send"
       /\ reply' = IF l.kind = "silent" THEN NoFrame ELSE ReplyTo(l)
       /\ strayed' = IF l.kind \in Passed THEN strayed \cup {l.n} ELSE strayed
  /\ UNCHANGED <<cliVars, chVars, c2s, s2c, cur, rxVars, outCh, wrVars, part, pushed>>

SendReplyNoCur ==             \* mutant: the session is not recorded
  /\ spc = "send" /\ Out(reply) /\ reply' = NoFrame /\ cur' = 0
  /\ IF reply.typ = "S"
     THEN spc' = "session" /\ rx' = [rx EXCEPT ![reply.for] = "run"]
     ELSE spc' = "menu" /\ UNCHANGED rx
  /\ UNCHANGED <<cliVars, chVars, c2s, s2c, cmdCh, strayed, alive, wrVars, part, pushed>>

(* After the start frame: SetState, and the RX goroutine is started. *)
SendReply ==
  /\ spc = "send" /\ Out(reply) /\ reply' = NoFrame
  /\ IF reply.typ = "S"
     THEN /\ spc' = "session" /\ cur' = reply.for
          /\ rx' = [rx EXCEPT ![reply.for] = "run"]
     ELSE spc' = "menu" /\ cur' = 0 /\ UNCHANGED rx
  /\ UNCHANGED <<cliVars, chVars, c2s, s2c, cmdCh, strayed, alive, wrVars, part, pushed>>

(* exit: "Bye." goes to the connection directly, beside the writer. *)
Bye ==
  /\ spc = "bye"
  /\ \/ WritePart("main", reply) /\ spc' = IF part'["main"] = 0 THEN "gone" ELSE "bye"
     \/ cpc = "off" /\ spc' = "gone" /\ UNCHANGED <<s2c, part>>
  /\ UNCHANGED <<cliVars, chVars, c2s, cmdCh, reply, cur, strayed, rxVars, outCh, wrVars,
                 pushed>>

(* The reader goroutine has failed, closed cmdCh, and it is drained. *)
Eof == cpc = "off" /\ c2s = <<>> /\ cmdCh = <<>>

ClientGone ==
  /\ spc = "menu" /\ Eof /\ spc' = "gone"
  /\ UNCHANGED <<cliVars, chVars, c2s, s2c, cmdCh, reply, cur, strayed, rxVars, outCh,
                 wrVars, part, pushed>>

-----------------------------------------------------------------------------
(* serveSession. *)

(* exitFlag := true; Broadcast. *)
TellRx == rx' = [rx EXCEPT ![cur] = IF @ = "run" THEN "told" ELSE @]

LeaveLineSilent ==            \* mutant: +back sends no response
  /\ spc = "session" /\ cmdCh # <<>> /\ Head(cmdCh).kind \in {"back", "exit"}
  /\ cmdCh' = Tail(cmdCh) /\ TellRx /\ spc' = "menu" /\ cur' = 0
  /\ UNCHANGED <<cliVars, chVars, c2s, s2c, reply, strayed, alive, outCh, wrVars, part,
                 pushed>>

LeaveLine ==
  /\ spc = "session" /\ cmdCh # <<>> /\ Head(cmdCh).kind \in {"back", "exit"}
  /\ cmdCh' = Tail(cmdCh) /\ TellRx
  /\ reply' = Frame("R", Head(cmdCh).n) /\ spc' = "send"
  /\ UNCHANGED <<cliVars, chVars, c2s, s2c, cur, strayed, alive, outCh, wrVars, part,
                 pushed>>

(* Any other line is dropped if the session is dead; else it is written to *)
(* the session, or run here if it starts with "!", its output an event.    *)
PassLine ==
  /\ spc = "session" /\ cmdCh # <<>> /\ Head(cmdCh).kind \notin {"back", "exit"}
  /\ cmdCh' = Tail(cmdCh)
  /\ IF alive /\ Head(cmdCh).kind = "system" THEN Out(Frame("E", 0)) ELSE UNCHANGED outCh
  /\ UNCHANGED <<cliVars, chVars, c2s, s2c, srvVars, rxVars, wrVars, part, pushed>>

SessionGone ==
  /\ spc = "session" /\ Eof /\ TellRx /\ spc' = "menu" /\ cur' = 0
  /\ UNCHANGED <<cliVars, chVars, c2s, s2c, cmdCh, reply, strayed, alive, outCh, wrVars,
                 part, pushed>>

RxDone ==
  /\ spc = "session" /\ rx[cur] = "done" /\ spc' = "menu" /\ cur' = 0
  /\ UNCHANGED <<cliVars, chVars, c2s, s2c, cmdCh, reply, strayed, rxVars, outCh, wrVars,
                 part, pushed>>

SessionDies ==
  /\ "death" \in Mishaps /\ alive /\ alive' = FALSE
  /\ UNCHANGED <<cliVars, chVars, c2s, s2c, cmdCh, srvVars, rx, outCh, wrVars, part,
                 pushed>>

(* The RX goroutine: death is looked at before exitFlag. *)
RxGoto(n, from, to) == rx[n] \in from /\ rx' = [rx EXCEPT ![n] = to]

RxDeath(n) ==
  /\ ~alive /\ RxGoto(n, {"run", "told"}, "closed")
  /\ UNCHANGED <<cliVars, chVars, c2s, s2c, cmdCh, srvVars, alive, outCh, wrVars, part,
                 pushed>>

RxClosed(n) ==                \* "[!] Session closed by remote."
  /\ RxGoto(n, {"closed"}, "return") /\ Out(Frame("E", 0))
  /\ UNCHANGED <<cliVars, chVars, c2s, s2c, cmdCh, srvVars, alive, wrVars, part, pushed>>

RxReturn(n) ==                \* "Returning to menu.", as a response
  /\ RxGoto(n, {"return"}, "done") /\ Out(Frame("R", 0))
  /\ UNCHANGED <<cliVars, chVars, c2s, s2c, cmdCh, srvVars, alive, wrVars, part, pushed>>

RxStopReturns(n) ==           \* mutant: says so after +back as well
  /\ alive /\ RxGoto(n, {"told"}, "return")
  /\ UNCHANGED <<cliVars, chVars, c2s, s2c, cmdCh, srvVars, alive, outCh, wrVars, part,
                 pushed>>

RxStop(n) ==
  /\ alive /\ RxGoto(n, {"told"}, "done")
  /\ UNCHANGED <<cliVars, chVars, c2s, s2c, cmdCh, srvVars, alive, outCh, wrVars, part,
                 pushed>>

-----------------------------------------------------------------------------
User   == MenuType \/ SessionType \/ SessionEof \/ Leave
Show   == ShowResponse \/ EnterSession
Reader == ReadTypedFrame \/ Route
Writer == WriterTake \/ WriterPart
Main   == \/ Dispatch \/ SendReply \/ Bye \/ ClientGone
          \/ LeaveLine \/ PassLine \/ SessionGone \/ RxDone
Rx(n)  == RxDeath(n) \/ RxClosed(n) \/ RxReturn(n) \/ RxStop(n)

Next == \/ User \/ Show \/ Reader \/ PrintEvent
        \/ ReadCommand \/ PushEvent \/ Writer \/ WriterFail \/ Main
        \/ SessionDies \/ \E n \in Numbers : Rx(n)

Spec == Init /\ [][Next]_vars

(* Every goroutine runs; a sender that keeps finding room in outCh, which  *)
(* several share, gets its turn.  The user, the remote peer and listeners  *)
(* owe nothing.                                                            *)
Fairness ==
  /\ WF_vars(Show) /\ WF_vars(Reader) /\ WF_vars(PrintEvent)
  /\ WF_vars(ReadCommand) /\ WF_vars(Writer) /\ WF_vars(WriterFail)
  /\ WF_vars(cpc \in Waiting /\ broken /\ Leave)
  /\ WF_vars(Main) /\ SF_vars(SendReply) /\ SF_vars(PassLine) /\ SF_vars(Bye)

FairSpec == Spec /\ Fairness

-----------------------------------------------------------------------------
(* Every variable has its type; channels stay within their capacity.       *)
Frames == {Frame(t, n) : t \in {"R", "S"}, n \in 0 .. MaxLines}
            \cup {Frame("E", 0), NoFrame}
TypeOK ==
  /\ cpc \in Waiting \cup {"menu", "session", "off"}
  /\ asked \in 0 .. MaxLines /\ kind \in MenuKinds \cup SessionKinds
  /\ {cin, reply, wr} \subseteq Frames
  /\ broken \in BOOLEAN /\ alive \in BOOLEAN /\ wrDead \in BOOLEAN
  /\ Len(eventCh) <= EvCap /\ Len(startCh) <= 1 /\ Len(respCh) <= 1
  /\ Len(cmdCh) <= CmdCap /\ Len(outCh) <= OutCap
  /\ Len(c2s) <= WireCap /\ Len(s2c) <= WireCap
  /\ spc \in {"menu", "send", "bye", "session", "gone"}
  /\ cur \in 0 .. MaxLines /\ (spc = "session" => cur # 0)
  /\ rx \in [Numbers -> {"unborn", "run", "told", "closed", "return", "done"}]
  /\ \A w \in {"writer", "main"} : part[w] \in 0 .. Parts - 1
  /\ pushed \in 0 .. MaxEvents /\ strayed \subseteq Numbers

(* Whatever goes wrong, the client never shows the response to one line    *)
(* twice, nor after the response to a later line: one writer, one reader   *)
(* and channels in between, and "Bye." overtakes nothing that is read.     *)
AnswersOrdered ==
  \A i, j \in DOMAIN answers :
    i < j /\ answers[i].for # 0 /\ answers[j].for # 0
      => answers[i].for < answers[j].for

(* As long as the session lives, every command has output and the user     *)
(* does not end the input in session mode, each response shown is the      *)
(* response to the line just typed, although nothing on the wire says      *)
(* which line it answers.                                                  *)
InStep == \A i \in DOMAIN answers : answers[i].for = answers[i].asked

(* Under the same conditions the two ends agree on the mode whenever the   *)
(* user can type: a line is read in the mode it was typed in.              *)
ModesAgree ==
  /\ cpc = "session" => spc = "session"
  /\ cpc = "menu" => spc = "menu" /\ c2s = <<>> /\ cmdCh = <<>>

(* A client that waits for a response to a line gets one, or leaves        *)
(* because what it reads no longer makes sense: channels of any capacity,  *)
(* events and session data of any size do not block it for ever.           *)
AnswerComes == cpc \in Waiting ~> cpc \notin Waiting

(* server.go: "forwards lines from the client to the session until +back / *)
(* +bg / +exit": no such line is dispatched as a command.                  *)
LinesForwarded == strayed = {}

(* proto.go: "Wire format (per frame)": the connection carries whole       *)
(* frames one after the other, and the client can read them all.           *)
FramesWhole == ~broken

(* server.go: "the server keeps running and waits for the next client":    *)
(* serveClient returns once its client is gone.                            *)
ServerFreed == cpc = "off" ~> spc = "gone"
=============================================================================
