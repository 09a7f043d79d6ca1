-------------------------- MODULE RemoteSyncProofs --------------------------
(***************************************************************************)
(* Proofs about Remote.tla under two conditions on what happens: the       *)
(* session lives, and every line typed that is to be answered has output.  *)
(* Then the response shown is that of the line just typed, and the two     *)
(* ends agree on the mode, for any capacities and numbers of lines, and    *)
(* however clients leave.                                                  *)
(***************************************************************************)
EXTENDS RemoteProofs

(* No session dies, no line is without output or ends the client, and the  *)
(* input does not end in session mode; clients may leave at any time.      *)
Answering ==
  /\ Lines \cap {"silent", "exit"} = {}
  /\ Mishaps \cap {"death", "eof"} = {}

(* A frame on its way to the client, whole or in pieces, and one that has  *)
(* arrived; a line on its way to the server's main goroutine.              *)
Among(q, x) == \E i \in DOMAIN q : q[i] = x
Coming(f) ==
  \/ f \in {cin, wr, reply}
  \/ Among(outCh, f)
  \/ \E p \in Pieces : Among(s2c, p) /\ p.frame = f
Framed(f) == Among(respCh, f) \/ Coming(f)
Lined(l) == Among(c2s, l) \/ Among(cmdCh, l)

(* A response or a start of session mode answers the line just typed.      *)
Answers(f) ==
  f.typ \in {"R", "S"} =>
    /\ cpc \in Waiting /\ f.for = asked /\ f.for # 0
    /\ f.typ = IF kind = "use" THEN "S" ELSE "R"
(* A line is the one just typed, or one for the session both ends are in.  *)
Expected(l) ==
  \/ cpc \in Waiting /\ l.n = asked /\ l.kind = kind
  \/ /\ l.kind \in Passed /\ spc = "session"
     /\ cpc = "session" \/ (cpc = "awaitLeave" /\ l.n < asked)

(* The client waits for the response to the line it sent; the session      *)
(* lives, and no RX goroutine has found it dead.                           *)
KindInv ==
  /\ kind # "exit" /\ alive
  /\ \A n \in Numbers : rx[n] \in {"unborn", "run", "told", "done"}
  /\ cpc = "await" => kind = "tool"
  /\ cpc = "awaitUse" => kind = "use"
  /\ cpc = "awaitLeave" => kind = "back"
(* The server is in one of its two loops or has a reply to send, and the   *)
(* RX goroutine of the session in the foreground runs.                     *)
ServerInv ==
  /\ spc \in {"menu", "session", "send"}
  /\ spc = "session" => rx[cur] = "run"
  /\ spc = "send" => reply.typ \in {"R", "S"}
(* What is on its way back, or in the client's channels, answers the line  *)
(* just typed; session mode starts with nothing behind it.                 *)
AnswersInv ==
  /\ \A f \in Frames : Framed(f) => Answers(f)
  /\ \A i \in DOMAIN respCh : respCh[i].typ = "R"
  /\ \A i \in DOMAIN startCh : startCh[i].typ = "S" /\ Answers(startCh[i])
StartInv == \A i \in DOMAIN startCh, n \in Nat, k \in Way : At(n, k) => startCh[i].for < n
LinesInv == \A l \in Line : Lined(l) => Expected(l)

(* Where the server is when the client is at cpc: the line it waits for is *)
(* still to be read, or has been, and the reply is sent.                   *)
ToRead == At(asked, 7) \/ At(asked, 8)
ModesInv ==
  /\ cpc = "menu" => spc = "menu"
  /\ cpc = "session" => spc = "session"
  /\ cpc \in Waiting =>
       IF ToRead THEN spc = IF cpc = "awaitLeave" THEN "session" ELSE "menu"
                 ELSE spc \in {"send", IF cpc = "awaitUse" THEN "session" ELSE "menu"}

-----------------------------------------------------------------------------
(* What is in a queue.                                                     *)

LEMMA AmongPut ==
  ASSUME NEW X, NEW q \in Seq(X), NEW x \in X
  PROVE  \A y : Among(Append(q, x), y) <=> Among(q, y) \/ y = x
<1> DEFINE r == Append(q, x)  l == Len(q)
<1>1. /\ DOMAIN r = 1 .. l + 1 /\ l \in Nat /\ DOMAIN q = 1 .. l
      /\ r[l + 1] = x /\ \A i \in 1 .. l : r[i] = q[i]
  BY QueuePut
<1> HIDE DEF r, l
<1>2. ASSUME NEW y, Among(r, y) PROVE Among(q, y) \/ y = x
  <2>1. PICK i \in 1 .. l + 1 : r[i] = y BY <1>1, <1>2 DEF Among
  <2>2. CASE i = l + 1 BY <1>1, <2>1, <2>2
  <2>3. CASE i \in 1 .. l BY <1>1, <2>1, <2>3 DEF Among
  <2> QED BY <1>1, <2>1, <2>2, <2>3
<1>3. ASSUME NEW y, Among(q, y) PROVE Among(r, y)
  <2>1. PICK i \in 1 .. l : q[i] = y BY <1>1, <1>3 DEF Among
  <2>2. i \in 1 .. l + 1 /\ r[i] = y BY <1>1, <2>1
  <2> QED BY <1>1, <2>2 DEF Among
<1>4. Among(r, x)
  <2>1. l + 1 \in 1 .. l + 1 BY <1>1
  <2> QED BY <1>1, <2>1 DEF Among
<1> QED BY <1>2, <1>3, <1>4 DEF r

LEMMA AmongTake ==
  ASSUME NEW X, NEW q \in Seq(X), q # <<>>
  PROVE  \A y : Among(q, y) <=> Among(Tail(q), y) \/ y = Head(q)
<1> DEFINE r == Tail(q)  l == Len(q)  h == Head(q)
<1>1. /\ h = q[1] /\ l \in Nat \ {0} /\ DOMAIN q = 1 .. l
      /\ DOMAIN r = 1 .. l - 1 /\ \A i \in 1 .. l - 1 : r[i] = q[i + 1]
  BY QueueTake
<1> HIDE DEF r, l, h
<1>2. ASSUME NEW y, Among(r, y) PROVE Among(q, y)
  <2>1. PICK i \in 1 .. l - 1 : r[i] = y BY <1>1, <1>2 DEF Among
  <2>2. i + 1 \in 1 .. l /\ q[i + 1] = y BY <1>1, <2>1
  <2> QED BY <1>1, <2>2 DEF Among
<1>3. ASSUME NEW y, Among(q, y) PROVE Among(r, y) \/ y = h
  <2>1. PICK i \in 1 .. l : q[i] = y BY <1>1, <1>3 DEF Among
  <2>2. CASE i = 1 BY <1>1, <2>1, <2>2
  <2>3. CASE i # 1
    <3> DEFINE j == i - 1
    <3>1. j \in 1 .. l - 1 /\ j + 1 = i BY <1>1, <2>3
    <3> HIDE DEF j
    <3>2. r[j] = y BY <1>1, <2>1, <3>1
    <3> QED BY <1>1, <3>1, <3>2 DEF Among
  <2> QED BY <2>2, <2>3
<1>4. Among(q, h)
  <2>1. 1 \in 1 .. l BY <1>1
  <2> QED BY <1>1, <2>1 DEF Among
<1> QED BY <1>2, <1>3, <1>4 DEF r, h

LEMMA AmongCut ==
  ASSUME NEW X, NEW q \in Seq(X), NEW n \in 0 .. Len(q)
  PROVE  /\ \A y : Among(SubSeq(q, 1, n), y) => Among(q, y)
         /\ \A y : Among(SubSeq(q, n + 1, Len(q)), y) => Among(q, y)
<1> DEFINE r == SubSeq(q, 1, n)  s == SubSeq(q, n + 1, Len(q))  l == Len(q)
<1>1. /\ DOMAIN r = 1 .. n /\ \A i \in 1 .. n : r[i] = q[i]
      /\ DOMAIN s = 1 .. l - n /\ \A i \in 1 .. l - n : s[i] = q[i + n]
      /\ l \in Nat /\ n \in 0 .. l /\ DOMAIN q = 1 .. l
  BY QueueCut
<1> HIDE DEF r, s, l
<1>2. ASSUME NEW y, Among(r, y) PROVE Among(q, y)
  <2>1. PICK i \in 1 .. n : r[i] = y BY <1>1, <1>2 DEF Among
  <2>2. i \in 1 .. l /\ q[i] = y BY <1>1, <2>1
  <2> QED BY <1>1, <2>2 DEF Among
<1>3. ASSUME NEW y, Among(s, y) PROVE Among(q, y)
  <2>1. PICK i \in 1 .. l - n : s[i] = y BY <1>1, <1>3 DEF Among
  <2>2. i + n \in 1 .. l /\ q[i + n] = y BY <1>1, <2>1
  <2> QED BY <1>1, <2>2 DEF Among
<1> QED BY <1>2, <1>3 DEF r, s, l

LEMMA AmongHas ==
  ASSUME NEW of, NEW q, NEW x, Among(q, x)
  PROVE  Has(of, q, of[x])
BY DEF Among, Has

LEMMA HasAmong ==
  ASSUME NEW of, NEW X, NEW q \in Seq(X), NEW n, Has(of, q, n)
  PROVE  \E x \in X : Among(q, x) /\ of[x] = n
<1>1. PICK i \in DOMAIN q : of[q[i]] = n BY DEF Has
<1>2. q[i] \in X OBVIOUS
<1> QED BY <1>1, <1>2 DEF Among

(* Frames and lines stand somewhere on the way.                            *)
LEMMA FrameAt ==
  ASSUME TInv, NEW f \in Frames, f.for # 0
  PROVE  /\ Coming(f) => \E k \in 2 .. 6 : At(f.for, k)
         /\ Framed(f) => \E k \in 1 .. 6 : At(f.for, k)
<1>1. ForOf[f] = f.for BY OfAre
<1>2. ASSUME Coming(f) PROVE \E k \in 2 .. 6 : At(f.for, k)
  <2>1. CASE f \in {cin, wr, reply} BY <2>1, Stages
  <2>2. CASE Among(outCh, f) BY <1>1, <2>2, AmongHas, Stages
  <2>3. CASE \E p \in Pieces : Among(s2c, p) /\ p.frame = f
    <3>1. PICK p \in Pieces : Among(s2c, p) /\ p.frame = f BY <2>3
    <3>2. PieceOf[p] = f.for BY <3>1, OfAre
    <3> QED BY <3>1, <3>2, AmongHas, Stages
  <2> QED BY <1>2, <2>1, <2>2, <2>3 DEF Coming
<1>3. ASSUME Among(respCh, f) PROVE \E k \in 1 .. 6 : At(f.for, k)
  <2>1. At(f.for, 1) BY <1>1, <1>3, AmongHas, Stages
  <2> QED BY <2>1
<1>4. ASSUME NEW k \in 2 .. 6 PROVE k \in 1 .. 6 OBVIOUS
<1> QED BY <1>2, <1>3, <1>4 DEF Framed

LEMMA LineAt ==
  ASSUME TInv, NEW l \in Line, Lined(l)
  PROVE  (At(l.n, 7) \/ At(l.n, 8)) /\ l.n # 0
<1>1. LineOf[l] = l.n /\ l.n # 0 BY OfAre
<1> QED BY <1>1, AmongHas, Stages DEF Lined

-----------------------------------------------------------------------------
(* What a step does to the frames and the lines.                           *)

(* A response or a start of session mode comes from main's reply alone.    *)
LEMMA FramesStep ==
  ASSUME TInv, ExitInv, KindInv, [Next]_vars,
         NEW f \in Frames, Framed(f)', f.typ \in {"R", "S"}
  PROVE  Framed(f) \/ ((Dispatch \/ LeaveLine) /\ f = reply')
<1>0. f # NoFrame /\ f # Frame("E", 0) BY FramesAre
<1>1. /\ respCh \in Seq(Frames) /\ outCh \in Seq(Frames) /\ s2c \in Seq(Pieces)
      /\ cin \in Frames /\ wr \in Frames /\ reply \in Frames
  BY TypesOf
<1>2. ASSUME UNCHANGED <<cin, wr, reply, respCh, outCh, s2c>> PROVE Framed(f)
  BY <1>2 DEF Framed, Coming, Among
<1>3. CASE ShowResponse
  <2>1. /\ respCh # <<>> /\ respCh' = Tail(respCh) /\ UNCHANGED <<cin, wr, reply, outCh, s2c>>
    BY <1>3 DEF ShowResponse, srvVars, wrVars
  <2>2. Among(respCh', f) => Among(respCh, f) BY <1>1, <2>1, AmongTake
  <2> QED BY <2>1, <2>2 DEF Framed, Coming, Among
<1>4. CASE ReadTypedFrame
  <2>1. /\ cin' = cin \/ (cin' = s2c[1].frame /\ 1 \in DOMAIN s2c)
        /\ s2c' = SubSeq(s2c, Parts + 1, Len(s2c)) /\ Parts \in 0 .. Len(s2c)
        /\ UNCHANGED <<wr, reply, respCh, outCh>>
    BY <1>1, <1>4, RemoteAssumption DEF ReadTypedFrame, srvVars, wrVars
  <2>2. \A p : Among(s2c', p) => Among(s2c, p) BY <1>1, <2>1, AmongCut
  <2>3. 1 \in DOMAIN s2c => Among(s2c, s2c[1]) /\ s2c[1] \in Pieces BY <1>1 DEF Among
  <2> QED BY <2>1, <2>2, <2>3 DEF Framed, Coming, Among
<1>5. CASE Route
  <2>1. /\ cin' = NoFrame /\ UNCHANGED <<wr, reply, outCh, s2c>>
        /\ respCh' = respCh \/ respCh' = <<cin>>
    BY <1>5 DEF Route, srvVars, wrVars
  <2>2. Among(<<cin>>, f) => f = cin BY DEF Among
  <2> QED BY <1>0, <2>1, <2>2 DEF Framed, Coming, Among
<1>6. ASSUME UNCHANGED <<cin, wr, reply, respCh, s2c>>, UNCHANGED outCh \/ Out(Frame("E", 0))
      PROVE  Framed(f)
  <2>1. CASE UNCHANGED outCh BY <1>2, <1>6, <2>1
  <2>2. CASE Out(Frame("E", 0))
    <3>1. outCh' = Append(outCh, Frame("E", 0)) BY <2>2 DEF Out
    <3>2. Among(outCh', f) => Among(outCh, f) BY <1>0, <1>1, <3>1, AmongPut, FramesAre
    <3> QED BY <1>6, <3>2 DEF Framed, Coming, Among
  <2> QED BY <1>6, <2>1, <2>2
<1>7. CASE PushEvent \/ PassLine \/ \E n \in Numbers : RxClosed(n)
  BY <1>6, <1>7 DEF PushEvent, PassLine, RxClosed, chVars, srvVars, wrVars
<1>8. ~ \E n \in Numbers : RxReturn(n) BY DEF RxReturn, RxGoto, KindInv
<1>9. CASE WriterTake
  <2>1. /\ outCh # <<>> /\ wr' = Head(outCh) /\ outCh' = Tail(outCh)
        /\ UNCHANGED <<cin, reply, respCh, s2c>>
    BY <1>9 DEF WriterTake, chVars, srvVars
  <2>2. \A g : Among(outCh', g) \/ g = wr' => Among(outCh, g) BY <1>1, <2>1, AmongTake
  <2> QED BY <2>1, <2>2 DEF Framed, Coming, Among
<1>10. CASE WriterPart
  <2> DEFINE p == Piece(wr, part["writer"] + 1)
  <2>1. /\ p \in Pieces /\ s2c' = Append(s2c, p) /\ (wr' = wr \/ wr' = NoFrame)
        /\ UNCHANGED <<cin, reply, respCh, outCh>>
    BY <1>1, <1>10, PartWritten DEF WriterPart, chVars, srvVars
  <2>2. p.frame = wr BY DEF Piece
  <2> HIDE DEF p
  <2>3. \A q : Among(s2c', q) => Among(s2c, q) \/ q = p BY <1>1, <2>1, AmongPut
  <2> QED BY <1>0, <2>1, <2>2, <2>3 DEF Framed, Coming, Among
<1>11. CASE WriterFail
  BY <1>0, <1>11 DEF WriterFail, Framed, Coming, Among, chVars, srvVars
<1>12. CASE Dispatch \/ LeaveLine
  BY <1>12 DEF Dispatch, LeaveLine, Framed, Coming, Among, chVars, wrVars
<1>13. CASE SendReply
  <2>1. outCh' = Append(outCh, reply) /\ reply' = NoFrame /\ UNCHANGED <<cin, wr, respCh, s2c>>
    BY <1>13 DEF SendReply, Out, chVars, wrVars
  <2>2. Among(outCh', f) => Among(outCh, f) \/ f = reply BY <1>1, <2>1, AmongPut
  <2> QED BY <1>0, <2>1, <2>2 DEF Framed, Coming, Among
<1>14. ~Bye BY DEF Bye, ExitInv, KindInv
<1>15. CASE UNCHANGED vars \/ User \/ EnterSession \/ PrintEvent \/ ReadCommand
  BY <1>2, <1>15 DEF vars, User, MenuType, SessionType, SessionEof, Leave, EnterSession,
                     PrintEvent, ReadCommand, chVars, srvVars, wrVars
<1>16. CASE \/ ClientGone \/ SessionGone \/ RxDone \/ SessionDies
            \/ \E n \in Numbers : RxDeath(n) \/ RxStop(n)
  BY <1>2, <1>16 DEF ClientGone, SessionGone, RxDone, SessionDies, RxDeath, RxStop, chVars,
                     srvVars, wrVars
<1> QED
  BY <1>3, <1>4, <1>5, <1>7, <1>8, <1>9, <1>10, <1>11, <1>12, <1>13, <1>14, <1>15, <1>16
  DEF Next, Show, Reader, Writer, Main, Rx

(* What the client's response and start channels hold is of their type.    *)
LEMMA ChannelsStep ==
  ASSUME TInv, [Next]_vars, AnswersInv
  PROVE  /\ \A i \in DOMAIN respCh' : respCh'[i].typ = "R"
         /\ \A i \in DOMAIN startCh' :
              \/ i \in DOMAIN startCh /\ startCh'[i] = startCh[i]
              \/ Route /\ startCh = <<>> /\ startCh'[i] = cin /\ cin.typ = "S"
<1>1. respCh \in Seq(Frames) /\ startCh \in Seq(Frames) /\ Len(startCh) <= 1
  BY DEF TInv, TypeOK
<1>2. ASSUME UNCHANGED respCh PROVE \A i \in DOMAIN respCh' : respCh'[i].typ = "R"
  BY <1>2 DEF AnswersInv
<1>3. CASE ShowResponse
  <2>1. respCh # <<>> /\ respCh' = Tail(respCh) /\ UNCHANGED startCh BY <1>3 DEF ShowResponse
  <2>2. \A i \in DOMAIN respCh' : i + 1 \in DOMAIN respCh /\ respCh'[i] = respCh[i + 1]
    BY <1>1, <2>1, QueueTake
  <2> QED BY <2>1, <2>2 DEF AnswersInv
<1>4. CASE EnterSession
  <2>1. startCh # <<>> /\ startCh' = Tail(startCh) /\ UNCHANGED respCh BY <1>4 DEF EnterSession
  <2>2. DOMAIN startCh' = {} BY <1>1, <2>1, QueueTake
  <2> QED BY <1>2, <2>1, <2>2
<1>5. CASE Route
  <2>1. \A i \in DOMAIN <<cin>> : <<cin>>[i] = cin OBVIOUS
  <2>2. \/ UNCHANGED startCh /\ (UNCHANGED respCh \/ (cin.typ = "R" /\ respCh' = <<cin>>))
        \/ startCh = <<>> /\ cin.typ = "S" /\ startCh' = <<cin>> /\ UNCHANGED respCh
    BY <1>5 DEF Route
  <2> QED BY <1>2, <1>5, <2>1, <2>2
<1>6. CASE UNCHANGED <<respCh, startCh>> BY <1>2, <1>6
<1>7. CASE UNCHANGED vars \/ User \/ ReadTypedFrame \/ PrintEvent \/ ReadCommand \/ PushEvent
           \/ Writer \/ WriterFail
  BY <1>6, <1>7 DEF vars, User, MenuType, SessionType, SessionEof, Leave, ReadTypedFrame,
                    PrintEvent, ReadCommand, PushEvent, Writer, WriterTake, WriterPart, WriterFail,
                    chVars
<1>8. CASE Main \/ SessionDies \/ \E n \in Numbers : Rx(n)
  BY <1>6, <1>8 DEF Main, Dispatch, SendReply, Bye, ClientGone, LeaveLine, PassLine, SessionGone,
                    RxDone, SessionDies, Rx, RxDeath, RxClosed, RxReturn, RxStop, chVars
<1> QED
  BY <1>3, <1>4, <1>5, <1>7, <1>8 DEF Next, Show, Reader

(* A line is one that was on the way, or the one just typed.               *)
LEMMA LinesStep ==
  ASSUME TInv, [Next]_vars, NEW l \in Line, Lined(l)'
  PROVE  Lined(l) \/ ((MenuType \/ SessionType) /\ l = [n |-> asked', kind |-> kind'])
<1>1. c2s \in Seq(Line) /\ cmdCh \in Seq(Line) BY TypesOf
<1>2. ASSUME UNCHANGED <<c2s, cmdCh>> PROVE Lined(l)
  BY <1>2 DEF Lined, Among
<1>3. ASSUME NEW k \in MenuKinds \cup SessionKinds, Type(k), UNCHANGED cmdCh
      PROVE  Lined(l) \/ l = [n |-> asked', kind |-> kind']
  <2> DEFINE t == [n |-> asked + 1, kind |-> k]
  <2>1. t \in Line /\ c2s' = Append(c2s, t) /\ t = [n |-> asked', kind |-> kind']
    BY <1>3, Typed
  <2> HIDE DEF t
  <2>2. Among(c2s', l) => Among(c2s, l) \/ l = t BY <1>1, <2>1, AmongPut
  <2> QED BY <1>3, <2>1, <2>2 DEF Lined, Among
<1>4. CASE MenuType \/ SessionType
  <2>1. PICK k \in MenuKinds \cup SessionKinds : Type(k) BY <1>4 DEF MenuType, SessionType
  <2>2. UNCHANGED cmdCh BY <1>4 DEF MenuType, SessionType
  <2> QED BY <1>3, <1>4, <2>1, <2>2
<1>5. CASE Leave
  <2>1. PICK n \in 0 .. Len(c2s) : c2s' = SubSeq(c2s, 1, n) BY <1>5 DEF Leave
  <2>2. Among(c2s', l) => Among(c2s, l) BY <1>1, <2>1, AmongCut
  <2> QED BY <1>5, <2>2 DEF Leave, Lined, Among
<1>6. CASE ReadCommand
  <2>1. c2s # <<>> /\ c2s' = Tail(c2s) /\ cmdCh' = Append(cmdCh, Head(c2s))
    BY <1>6 DEF ReadCommand
  <2>2. Head(c2s) \in Line BY <1>1, <2>1, QueueTake
  <2>3. Among(c2s', l) \/ l = Head(c2s) => Among(c2s, l) BY <1>1, <2>1, AmongTake
  <2>4. Among(cmdCh', l) => Among(cmdCh, l) \/ l = Head(c2s) BY <1>1, <2>1, <2>2, AmongPut
  <2> QED BY <2>3, <2>4 DEF Lined
<1>7. CASE Dispatch \/ LeaveLine \/ PassLine
  <2>1. cmdCh # <<>> /\ cmdCh' = Tail(cmdCh) /\ UNCHANGED c2s
    BY <1>7 DEF Dispatch, LeaveLine, PassLine
  <2>2. Among(cmdCh', l) => Among(cmdCh, l) BY <1>1, <2>1, AmongTake
  <2> QED BY <2>1, <2>2 DEF Lined, Among
<1>8. CASE UNCHANGED vars \/ SessionEof \/ Show \/ Reader \/ PrintEvent \/ PushEvent \/ Writer
           \/ WriterFail
  BY <1>2, <1>8 DEF vars, SessionEof, Show, ShowResponse, EnterSession, Reader, ReadTypedFrame,
                    Route, PrintEvent, PushEvent, Writer, WriterTake, WriterPart, WriterFail
<1>9. CASE SendReply \/ Bye \/ ClientGone \/ SessionGone \/ RxDone \/ SessionDies
           \/ \E n \in Numbers : Rx(n)
  BY <1>2, <1>9 DEF SendReply, Bye, ClientGone, SessionGone, RxDone, SessionDies, Rx, RxDeath,
                    RxClosed, RxReturn, RxStop
<1> QED BY <1>4, <1>5, <1>6, <1>7, <1>8, <1>9 DEF Next, User, Main

(* With nothing on the way there is no line, and no frame answers one.     *)
LEMMA NothingLeft ==
  ASSUME TInv, AnswersInv, \A n \in Nat, k \in Way : ~At(n, k)
  PROVE  /\ \A f \in Frames : Framed(f) => f.typ \notin {"R", "S"}
         /\ \A l \in Line : ~Lined(l)
<1>1. ASSUME NEW f \in Frames, Framed(f), f.typ \in {"R", "S"} PROVE FALSE
  <2>1. f.for # 0 /\ f.for \in Nat
    BY <1>1, FramesAre, RemoteAssumption DEF AnswersInv, Answers
  <2>2. PICK k \in 1 .. 6 : At(f.for, k) BY <1>1, <2>1, FrameAt
  <2> QED BY <2>1, <2>2 DEF Way
<1>2. ASSUME NEW l \in Line, Lined(l) PROVE FALSE
  <2>1. At(l.n, 7) \/ At(l.n, 8) BY <1>2, LineAt
  <2>2. l.n \in Nat BY RemoteAssumption DEF Line, Numbers
  <2> QED BY <2>1, <2>2 DEF Way
<1> QED BY <1>1, <1>2

-----------------------------------------------------------------------------
(* The steps, one part of the invariant after the other.                   *)

(* In which mode the client waits, and what for; the session lives, and no *)
(* RX goroutine gives up on it.                                            *)
LEMMA KindStep ==
  ASSUME Answering, TInv, KindInv, [Next]_vars
  PROVE  KindInv'
<1>1. rx \in [Numbers -> {"unborn", "run", "told", "closed", "return", "done"}]
  BY DEF TInv, TypeOK
<1>2. UNCHANGED alive
  BY DEF Next, vars, User, MenuType, SessionType, SessionEof, Leave, Show, ShowResponse,
         EnterSession, Reader, ReadTypedFrame, Route, PrintEvent, ReadCommand, PushEvent, Writer,
         WriterTake, WriterPart, WriterFail, Main, Dispatch, SendReply, Bye, ClientGone, LeaveLine,
         PassLine, SessionGone, RxDone, SessionDies, Rx, RxDeath, RxClosed, RxReturn, RxStop,
         rxVars, Answering
<1>3. \A n \in Numbers : rx'[n] \in {"unborn", "run", "told", "done"}
  <2>1. CASE UNCHANGED rx BY <2>1 DEF KindInv
  <2>2. CASE SendReply BY <1>1, <2>2 DEF SendReply, KindInv
  <2>3. CASE TellRx BY <1>1, <2>3 DEF TellRx, KindInv
  <2>4. CASE \E n \in Numbers : RxStop(n) BY <1>1, <2>4 DEF RxStop, RxGoto, KindInv
  <2>5. ~ \E n \in Numbers : RxDeath(n) \/ RxClosed(n) \/ RxReturn(n)
    BY DEF RxDeath, RxClosed, RxReturn, RxGoto, KindInv
  <2>6. CASE UNCHANGED vars \/ User \/ Show \/ Reader \/ PrintEvent \/ ReadCommand \/ PushEvent
             \/ Writer \/ WriterFail
    BY <2>1, <2>6 DEF vars, User, MenuType, SessionType, SessionEof, Leave, Show, ShowResponse,
                      EnterSession, Reader, ReadTypedFrame, Route, PrintEvent, ReadCommand,
                      PushEvent, Writer, WriterTake, WriterPart, WriterFail, rxVars
  <2>7. CASE \/ Dispatch \/ Bye \/ ClientGone \/ LeaveLine \/ PassLine \/ SessionGone \/ RxDone
             \/ SessionDies
    BY <2>1, <2>3, <2>7 DEF Dispatch, Bye, ClientGone, LeaveLine, PassLine, SessionGone, RxDone,
                            SessionDies, rxVars
  <2> QED BY <2>2, <2>4, <2>5, <2>6, <2>7 DEF Next, Main, Rx
<1>4. /\ kind' # "exit"
      /\ cpc' = "await" => kind' = "tool"
      /\ cpc' = "awaitUse" => kind' = "use"
      /\ cpc' = "awaitLeave" => kind' = "back"
  <2>1. CASE UNCHANGED <<cpc, kind>> BY <2>1 DEF KindInv
  <2>2. CASE cpc' \in {"menu", "session", "off"} /\ kind' = kind BY <2>2 DEF KindInv
  <2>3. CASE MenuType
    <3>1. PICK k \in Lines \cap MenuKinds :
            kind' = k /\ cpc' = IF k = "use" THEN "awaitUse" ELSE "await"
      BY <2>3 DEF MenuType, Type
    <3> QED BY <3>1 DEF Answering, MenuKinds
  <2>4. CASE SessionType
    <3>1. PICK k \in Lines \cap SessionKinds :
            kind' = k /\ cpc' = IF k \in Passed THEN "session" ELSE "awaitLeave"
      BY <2>4 DEF SessionType, Type
    <3> QED BY <3>1 DEF Answering, SessionKinds, Passed
  <2>5. CASE SessionEof \/ Leave \/ Show
    BY <2>2, <2>5 DEF SessionEof, Leave, Show, ShowResponse, EnterSession
  <2>6. CASE UNCHANGED vars \/ Reader \/ PrintEvent \/ ReadCommand \/ PushEvent \/ Writer
             \/ WriterFail
    BY <2>1, <2>6 DEF vars, Reader, ReadTypedFrame, Route, PrintEvent, ReadCommand, PushEvent,
                      Writer, WriterTake, WriterPart, WriterFail, cliVars
  <2>7. CASE Main \/ SessionDies \/ \E n \in Numbers : Rx(n)
    BY <2>1, <2>7 DEF Main, Dispatch, SendReply, Bye, ClientGone, LeaveLine, PassLine, SessionGone,
                      RxDone, SessionDies, Rx, RxDeath, RxClosed, RxReturn, RxStop, cliVars
  <2> QED BY <2>3, <2>4, <2>5, <2>6, <2>7 DEF Next, User
<1> QED BY <1>2, <1>3, <1>4 DEF KindInv

(* The line the server's main goroutine takes next is one that is          *)
(* expected; if it is the last one typed, no line is left after it.        *)
LEMMA HeadLine ==
  ASSUME IInv, KindInv, LinesInv, cmdCh # <<>>, cmdCh' = Tail(cmdCh), UNCHANGED c2s
  PROVE  /\ Head(cmdCh) \in Line /\ Expected(Head(cmdCh)) /\ Head(cmdCh).kind # "exit"
         /\ At(Head(cmdCh).n, 7) /\ Head(cmdCh).n \in Numbers /\ Head(cmdCh).n # 0
         /\ Head(cmdCh).n = asked => \A n \in Nat : ~At(n, 7)' /\ ~At(n, 8)'
<1> DEFINE l == Head(cmdCh)
<1>1. /\ c2s \in Seq(Line) /\ cmdCh \in Seq(Line) /\ LineOf \in [Line -> Nat] /\ asked \in Nat
      /\ TInv
  BY TypesOf DEF IInv
<1>2. l \in Line /\ Among(cmdCh, l) /\ l = cmdCh[1] /\ 1 \in DOMAIN cmdCh
  BY <1>1, AmongTake, QueueTake
<1>3. l.n \in Numbers /\ l.n # 0 BY <1>1, <1>2, Taken
<1>4. kind # "exit" BY DEF KindInv
<1>5. l.kind # "exit" BY <1>2, <1>4 DEF IInv, ExitInv
<1>6. LineOf[l] = l.n BY <1>2, OfAre
<1>7. Has(LineOf, cmdCh, l.n) BY <1>2, <1>6 DEF Has
<1>8. At(l.n, 7) BY <1>3, <1>7, Stages
<1>9. Rising(LineOf, cmdCh) /\ InOrder BY <1>4 DEF IInv, WayInv
<1> HIDE DEF l
<1>10. \A n : n # 0 /\ LineOf[l] # 0 /\ Has(LineOf, cmdCh', n) => LineOf[l] < n
  BY <1>1, <1>9, HasTake DEF l
<1>11. \A n : Has(LineOf, cmdCh', n) => Has(LineOf, cmdCh, n)
  BY <1>1, HasTake
<1>12. ASSUME l.n = asked, NEW n \in Nat PROVE ~At(n, 7)' /\ ~At(n, 8)'
  <2>1. \A k \in Way : At(n, k) => n <= asked BY DEF IInv, AskedInv
  <2>2. ASSUME At(n, 7)' PROVE FALSE
    <3>1. n # 0 /\ Has(LineOf, cmdCh', n) BY <2>2, StagesThen
    <3>2. At(n, 7) BY <1>11, <3>1, Stages
    <3>3. 7 \in Way BY DEF Way
    <3>4. LineOf[l] = asked /\ asked # 0 BY <1>3, <1>6, <1>12
    <3>5. asked < n BY <1>10, <3>1, <3>4
    <3>6. n <= asked BY <2>1, <3>2, <3>3
    <3> QED BY <1>1, <3>5, <3>6
  <2>3. ASSUME At(n, 8)' PROVE FALSE
    <3>1. At(n, 8) BY <2>3 DEF At
    <3>2. 7 \in Way /\ 8 \in Way /\ Apart(7, 8) BY DEF Way, Apart
    <3>3. asked < n BY <1>1, <1>8, <1>9, <1>12, <3>1, <3>2 DEF InOrder
    <3> QED BY <1>1, <2>1, <3>1, <3>2, <3>3
  <2> QED BY <2>2, <2>3
<1> QED BY <1>2, <1>3, <1>5, <1>8, <1>12 DEF LinesInv, Lined, l

(* The server is in one of its two loops or sends a reply, and the RX      *)
(* goroutine of the session in the foreground runs.                        *)
LEMMA ServerStep ==
  ASSUME IInv, KindInv, LinesInv, ServerInv, cpc # "off", [Next]_vars
  PROVE  ServerInv'
<1>1. /\ rx \in [Numbers -> {"unborn", "run", "told", "closed", "return", "done"}]
      /\ reply \in Frames
  BY DEF IInv, TInv, TypeOK
<1>2. CASE UNCHANGED <<spc, reply, cur, rx>> BY <1>2 DEF ServerInv
<1>3. CASE Dispatch
  <2>1. Head(cmdCh).kind # "exit" BY <1>3, HeadLine DEF Dispatch
  <2>2. spc' \in {"menu", "send"} BY <1>3, <2>1 DEF Dispatch
  <2>3. spc' = "send" => reply' = ReplyTo(Head(cmdCh))
    BY <1>3 DEF Dispatch
  <2>4. \A l : ReplyTo(l).typ \in {"R", "S"} BY DEF ReplyTo, Frame
  <2> QED BY <2>2, <2>3, <2>4 DEF ServerInv
<1>4. CASE SendReply
  <2>1. CASE reply.typ = "S"
    <3>1. reply.for \in Numbers
      <4>1. reply.for # 0 BY <2>1 DEF IInv, TInv
      <4>2. reply.for \in 0 .. MaxLines BY ONLY <1>1, FramesAre
      <4>3. MaxLines \in Nat BY ONLY RemoteAssumption
      <4> QED BY ONLY <4>1, <4>2, <4>3 DEF Numbers
    <3>2. spc' = "session" /\ cur' = reply.for /\ rx' = [rx EXCEPT ![reply.for] = "run"]
      BY <1>4, <2>1 DEF SendReply
    <3> QED BY <1>1, <3>1, <3>2 DEF ServerInv
  <2>2. CASE reply.typ # "S"
    <3>1. spc' = "menu" BY <1>4, <2>2 DEF SendReply
    <3> QED BY <3>1 DEF ServerInv
  <2> QED BY <2>1, <2>2
<1>5. CASE LeaveLine
  <2>1. spc' = "send" /\ reply'.typ = "R" BY <1>5 DEF LeaveLine, Frame
  <2> QED BY <2>1 DEF ServerInv
<1>6. CASE \E n \in Numbers : RxStop(n)
  <2>1. PICK n \in Numbers : rx[n] = "told" /\ rx' = [rx EXCEPT ![n] = "done"]
    BY <1>6 DEF RxStop, RxGoto
  <2>2. UNCHANGED <<spc, reply, cur>> BY <1>6 DEF RxStop, srvVars
  <2>3. spc = "session" => rx'[cur] = rx[cur] BY <1>1, <2>1 DEF ServerInv
  <2> QED BY <2>2, <2>3 DEF ServerInv
<1>7. ~(Bye \/ ClientGone \/ SessionGone \/ RxDone
          \/ \E n \in Numbers : RxDeath(n) \/ RxClosed(n) \/ RxReturn(n))
  BY DEF Bye, ClientGone, SessionGone, Eof, RxDone, ServerInv, RxDeath, RxClosed, RxReturn,
         RxGoto, KindInv
<1>8. CASE UNCHANGED vars \/ User \/ Show \/ Reader \/ PrintEvent \/ ReadCommand \/ PushEvent
           \/ Writer \/ WriterFail
  BY <1>2, <1>8 DEF vars, User, MenuType, SessionType, SessionEof, Leave, Show, ShowResponse,
                    EnterSession, Reader, ReadTypedFrame, Route, PrintEvent, ReadCommand,
                    PushEvent, Writer, WriterTake, WriterPart, WriterFail, rxVars, srvVars
<1>9. CASE PassLine \/ SessionDies
  BY <1>2, <1>9 DEF PassLine, SessionDies, rxVars, srvVars
<1> QED BY <1>3, <1>4, <1>5, <1>6, <1>7, <1>8, <1>9 DEF Next, Main, Rx

(* Frames on the way answer the line typed last, and a start of session    *)
(* mode that the client is to see is ahead of everything else.             *)
LEMMA AnswersKept ==
  ASSUME IInv, KindInv, AnswersInv, StartInv, [Next]_vars, UNCHANGED <<cpc, asked, kind>>,
         Dispatch \/ LeaveLine => Answers(reply')
  PROVE  AnswersInv' /\ StartInv'
<1>1. TInv /\ ExitInv /\ asked \in Nat /\ cin \in Frames /\ cin.for \in Nat
  BY TypesOf DEF IInv
<1>2. \A f : Answers(f)' <=> Answers(f) BY DEF Answers
<1>3. ASSUME NEW f \in Frames, Framed(f)' PROVE Answers(f)'
  <2>1. CASE f.typ \notin {"R", "S"} BY <2>1 DEF Answers
  <2>2. CASE f.typ \in {"R", "S"}
    BY <1>1, <1>2, <1>3, <2>2, FramesStep DEF AnswersInv
  <2> QED BY <2>1, <2>2
<1>4. Answers(cin) BY <1>1 DEF AnswersInv, Framed, Coming
<1>5. AnswersInv' BY <1>1, <1>2, <1>3, <1>4, ChannelsStep DEF AnswersInv
<1>6. ASSUME NEW i \in DOMAIN startCh', NEW n \in Nat, NEW k \in Way, At(n, k)'
      PROVE  startCh'[i].for < n
  <2>1. CASE i \in DOMAIN startCh /\ startCh'[i] = startCh[i]
    <3>1. WayStep BY <1>1, WayMoves
    <3>2. \E j \in Way : At(n, j) BY <1>1, <1>6, <3>1 DEF WayStep, Kept, Moves, Adds
    <3> QED BY <2>1, <3>2 DEF StartInv
  <2>2. CASE Route /\ startCh = <<>> /\ startCh'[i] = cin /\ cin.typ = "S"
    <3>1. cin.for = asked /\ cin.for # 0 /\ kind = "use" BY <1>4, <2>2 DEF Answers
    <3>2. cin' = NoFrame /\ UNCHANGED <<c2s, cmdCh, reply, outCh, wr, s2c, respCh>>
      BY <2>2 DEF Route, srvVars, wrVars
    <3>3. k # 2 BY <1>6, <3>2, FramesAre, StagesThen
    <3>4. At(n, k)
      <4>1. Others({2}) BY <3>2 DEF Others
      <4> QED BY <1>6, <3>3, <4>1, OthersStay
    <3>5. k # 1
      <4> SUFFICES ASSUME k = 1 PROVE FALSE OBVIOUS
      <4>1. Has(ForOf, respCh, n) BY <3>4, Stages
      <4>2. PICK x \in Frames : Among(respCh, x) BY <1>1, <4>1, HasAmong, TypesOf
      <4>3. x.typ = "R" BY <4>2 DEF AnswersInv, Among
      <4>4. Answers(x) BY <4>2 DEF AnswersInv, Framed, Coming
      <4> QED BY <3>1, <4>3, <4>4 DEF Answers
    <3>6. Apart(2, k) /\ 2 \in Way BY <3>3, <3>5 DEF Apart, Way
    <3>7. At(cin.for, 2) BY <3>1, Stages
    <3>8. InOrder BY DEF IInv, WayInv, KindInv
    <3> QED BY <1>1, <2>2, <3>4, <3>6, <3>7, <3>8 DEF InOrder
  <2> QED BY <1>1, <2>1, <2>2, ChannelsStep
<1>7. StartInv' BY <1>6 DEF StartInv
<1> QED BY <1>5, <1>7

(* Lines that are left alone are still expected.                           *)
LEMMA LinesKept ==
  ASSUME TInv, LinesInv, [Next]_vars, UNCHANGED <<cpc, asked, kind, spc>>
  PROVE  LinesInv'
<1>1. ~(MenuType \/ SessionType)
  <2> SUFFICES ASSUME MenuType \/ SessionType PROVE FALSE OBVIOUS
  <2>1. asked' = asked + 1 BY DEF MenuType, SessionType, Type
  <2> QED BY <2>1, TypesOf
<1>2. \A l \in Line : Expected(l)' <=> Expected(l) BY DEF Expected
<1> QED BY <1>1, <1>2, LinesStep DEF LinesInv

(* The line the client waits for, if it is to be read.                     *)
LEMMA LineHas ==
  ASSUME NEW q \in Seq(Line), NEW n \in Nat
  PROVE  n # 0 /\ Has(LineOf, q, n) <=> \E l \in Line : Among(q, l) /\ l.n = n
<1>1. \A l \in Line : LineOf[l] = l.n /\ l.n # 0 BY OfAre
<1>2. ASSUME Has(LineOf, q, n) PROVE \E l \in Line : Among(q, l) /\ l.n = n
  <2>1. \E l \in Line : Among(q, l) /\ LineOf[l] = n BY <1>2, HasAmong
  <2> QED BY <1>1, <2>1
<1>3. ASSUME NEW l \in Line, Among(q, l), l.n = n PROVE n # 0 /\ Has(LineOf, q, n)
  <2>1. Has(LineOf, q, LineOf[l]) BY <1>3, AmongHas
  <2> QED BY <1>1, <1>3, <2>1
<1> QED BY <1>2, <1>3

LEMMA ToReadMeans ==
  ASSUME TInv, TInv'
  PROVE  /\ ToRead <=> \E l \in Line : Lined(l) /\ l.n = asked
         /\ ToRead' <=> \E l \in Line : Lined(l)' /\ l.n = asked'
<1>1. c2s \in Seq(Line) /\ cmdCh \in Seq(Line) /\ asked \in Nat BY TypesOf
<1>2. c2s' \in Seq(Line) /\ cmdCh' \in Seq(Line) /\ asked' \in Nat
  BY RemoteAssumption DEF TInv, TypeOK
<1>3. ToRead <=> asked # 0 /\ (Has(LineOf, cmdCh, asked) \/ Has(LineOf, c2s, asked))
  BY DEF ToRead, At
<1>4. ToRead' <=> asked' # 0 /\ (Has(LineOf, cmdCh', asked') \/ Has(LineOf, c2s', asked'))
  BY DEF ToRead, At
<1>5. ToRead <=> \E l \in Line : Lined(l) /\ l.n = asked
  <2>1. asked # 0 /\ Has(LineOf, c2s, asked) <=> \E l \in Line : Among(c2s, l) /\ l.n = asked
    BY ONLY <1>1, LineHas
  <2>2. asked # 0 /\ Has(LineOf, cmdCh, asked) <=> \E l \in Line : Among(cmdCh, l) /\ l.n = asked
    BY ONLY <1>1, LineHas
  <2> QED BY <1>3, <2>1, <2>2 DEF Lined
<1>6. ToRead' <=> \E l \in Line : Lined(l)' /\ l.n = asked'
  <2>1. asked' # 0 /\ Has(LineOf, c2s', asked') <=> \E l \in Line : Among(c2s', l) /\ l.n = asked'
    BY ONLY <1>2, LineHas
  <2>2. asked' # 0 /\ Has(LineOf, cmdCh', asked')
          <=> \E l \in Line : Among(cmdCh', l) /\ l.n = asked'
    BY ONLY <1>2, LineHas
  <2> QED BY <1>4, <2>1, <2>2 DEF Lined
<1> QED BY <1>5, <1>6

LEMMA LineThen ==
  ASSUME NEW l \in Line, Lined(l)'
  PROVE  At(l.n, 7)' \/ At(l.n, 8)'
<1>1. LineOf[l] = l.n /\ l.n # 0 BY OfAre
<1>2. Has(LineOf, c2s', LineOf[l]) \/ Has(LineOf, cmdCh', LineOf[l]) BY AmongHas DEF Lined
<1> QED BY <1>1, <1>2, StagesThen

Paired == AnswersInv /\ StartInv /\ LinesInv /\ ModesInv

(* A step that leaves both ends in their modes.                            *)
LEMMA QuietStep ==
  ASSUME IInv, TInv', KindInv, Paired, [Next]_vars, UNCHANGED <<cpc, asked, kind, spc>>,
         ~Dispatch, ~LeaveLine,
         \A l \in Line : cpc \in Waiting /\ l.n = asked => (Lined(l)' <=> Lined(l))
  PROVE  Paired'
<1>1. TInv BY DEF IInv
<1>2. AnswersInv' /\ StartInv' BY AnswersKept DEF Paired
<1>3. LinesInv' BY <1>1, LinesKept DEF Paired
<1>4. cpc \in Waiting => (ToRead' <=> ToRead) BY <1>1, ToReadMeans
<1>5. ModesInv' BY <1>4 DEF Paired, ModesInv
<1> QED BY <1>2, <1>3, <1>5 DEF Paired

(* The server passes on or drops a line that the client waits for no       *)
(* response to.                                                            *)
LEMMA PassStep ==
  ASSUME IInv, TInv', KindInv, Paired, PassLine
  PROVE  Paired'
<1> DEFINE h == Head(cmdCh)
<1>1. /\ cmdCh # <<>> /\ cmdCh' = Tail(cmdCh) /\ UNCHANGED <<c2s, cpc, asked, kind, spc, reply>>
      /\ spc = "session" /\ h.kind \notin {"back", "exit"}
  BY DEF PassLine, cliVars, srvVars
<1>2. TInv /\ LinesInv /\ c2s \in Seq(Line) /\ cmdCh \in Seq(Line)
  BY TypesOf DEF IInv, Paired
<1>3. h \in Line /\ Expected(h) /\ At(h.n, 7) BY <1>1, <1>2, HeadLine
<1>4. \A l : Among(cmdCh, l) <=> Among(cmdCh', l) \/ l = h BY <1>1, <1>2, AmongTake
<1> HIDE DEF h
<1>5. cpc \in Waiting => h.n # asked
  <2> SUFFICES ASSUME cpc \in Waiting, h.n = asked PROVE FALSE OBVIOUS
  <2>1. h.kind = kind BY <1>2, <1>3, RemoteAssumption DEF Expected, Line, Numbers, Waiting
  <2>2. ToRead BY <1>3 DEF ToRead
  <2>3. cpc = "awaitLeave" BY <1>1, <2>2 DEF Paired, ModesInv
  <2> QED BY <1>1, <2>1, <2>3 DEF KindInv
<1>6. \A l \in Line : cpc \in Waiting /\ l.n = asked => (Lined(l)' <=> Lined(l))
  BY <1>1, <1>4, <1>5 DEF Lined
<1>7. [Next]_vars BY DEF Next, Main
<1>8. ~Dispatch /\ ~LeaveLine BY <1>1 DEF Dispatch, LeaveLine, h
<1> QED BY <1>1, <1>6, <1>7, <1>8, QuietStep

(* The next line: both ends were idle, or in the same session.             *)
LEMMA TypedStep ==
  ASSUME Answering, IInv, TInv', KindInv, KindInv', Paired, [Next]_vars, MenuType \/ SessionType
  PROVE  Paired'
<1> DEFINE t == [n |-> asked', kind |-> kind']
<1>1. PICK k \in MenuKinds \cup SessionKinds :
        /\ Type(k) /\ cpc' # "off"
        /\ \/ cpc = "menu" /\ k \in {"tool", "use"} /\ cpc' \in Waiting \ {"awaitLeave"}
           \/ cpc = "session" /\ k \in Passed /\ cpc' = "session"
           \/ cpc = "session" /\ cpc' = "awaitLeave"
  BY DEF MenuType, SessionType, Answering, MenuKinds, Waiting
<1>2. /\ UNCHANGED <<cin, wr, reply, respCh, startCh, outCh, s2c, cmdCh, spc>>
      /\ cpc \notin Waiting
  BY <1>1 DEF MenuType, SessionType, chVars, srvVars, wrVars, Waiting
<1>3. TInv /\ asked \in Nat /\ asked' = asked + 1 /\ kind' = k /\ c2s \in Seq(Line)
  BY <1>1, TypesOf DEF IInv, Type
<1>4. t \in Line /\ c2s' = Append(c2s, t) BY <1>1, <1>3, Typed
<1>5. t.n = asked' /\ t.kind = kind' OBVIOUS
<1> HIDE DEF t
<1>6. \A f \in Frames : Framed(f)' => f.typ \notin {"R", "S"}
  BY <1>2 DEF Framed, Coming, Among, Paired, AnswersInv, Answers
<1>7. DOMAIN startCh = {} BY <1>2 DEF Paired, AnswersInv, Answers
<1>8. AnswersInv'
  BY <1>2, <1>6, <1>7 DEF Paired, AnswersInv, Answers
<1>9. StartInv' BY <1>2, <1>7 DEF StartInv
<1>10. \A l \in Line : Lined(l)' <=> Lined(l) \/ l = t
  BY <1>2, <1>3, <1>4, AmongPut DEF Lined, Among
<1>11. ModesInv'
  <2>1. ToRead' BY <1>3, <1>4, <1>5, <1>10, ToReadMeans
  <2> QED BY <1>1, <1>2, <2>1 DEF Paired, ModesInv, Waiting
<1>12. ASSUME NEW l \in Line, Lined(l)' PROVE Expected(l)'
  <2>1. CASE l = t BY <1>1, <1>2, <1>3, <1>5, <2>1 DEF Expected, Paired, ModesInv, Waiting
  <2>2. CASE Lined(l)
    <3>1. Expected(l) /\ l.n \in Nat /\ l.n <= asked
      <4>1. (At(l.n, 7) \/ At(l.n, 8)) /\ l.n \in Nat
        <5>1. At(l.n, 7) \/ At(l.n, 8) BY <1>3, <2>2, LineAt
        <5>2. \A m \in Line : m.n \in Nat BY ONLY RemoteAssumption DEF Line, Numbers
        <5> QED BY ONLY <5>1, <5>2, l \in Line
      <4>2. 7 \in Way /\ 8 \in Way BY DEF Way
      <4> QED BY <2>2, <4>1, <4>2 DEF Paired, LinesInv, IInv, AskedInv
    <3>2. l.kind \in Passed /\ spc = "session" /\ cpc = "session"
      BY <1>2, <3>1 DEF Expected, Waiting
    <3>3. cpc' \in {"session", "awaitLeave"} BY <1>1, <3>2
    <3> QED BY <1>2, <1>3, <3>1, <3>2, <3>3 DEF Expected
  <2> QED BY <1>10, <1>12, <2>1, <2>2
<1> QED BY <1>8, <1>9, <1>11, <1>12 DEF Paired, LinesInv

(* The response shown is the last thing on the way.                        *)
LEMMA ShownStep ==
  ASSUME IInv, TInv', KindInv, ServerInv, Paired, ShowResponse
  PROVE  Paired' /\ cpc' = "menu" /\ Head(respCh).for = asked
<1> DEFINE h == Head(respCh)
<1>1. /\ respCh # <<>> /\ respCh' = Tail(respCh) /\ cpc \in Waiting /\ cpc' = "menu"
      /\ UNCHANGED <<asked, kind, cin, startCh, c2s, s2c, cmdCh, spc, reply, outCh, wr>>
  BY DEF ShowResponse, srvVars, wrVars, KindInv
<1>2. /\ TInv /\ respCh \in Seq(Frames) /\ Len(respCh) <= 1 /\ asked \in Nat
      /\ reply \in Frames
  BY TypesOf DEF IInv, TInv, TypeOK
<1>3. /\ h \in Frames /\ Among(respCh, h) /\ h = respCh[1] /\ 1 \in DOMAIN respCh
      /\ DOMAIN respCh' = {}
  BY <1>1, <1>2, AmongTake, QueueTake
<1>4. h.typ = "R" BY <1>3 DEF Paired, AnswersInv
<1>5. h.for = asked /\ asked # 0 /\ kind # "use"
  BY <1>3, <1>4 DEF Paired, AnswersInv, Framed, Answers
<1>6. At(asked, 1) BY <1>3, <1>5, AmongHas, OfAre, Stages
<1> HIDE DEF h
<1>7. ASSUME NEW n \in Nat, NEW k \in Way, At(n, k) PROVE k = 1
  <2> SUFFICES ASSUME k # 1 PROVE FALSE OBVIOUS
  <2>1. Apart(1, k) /\ 1 \in Way BY DEF Apart, Way
  <2>2. asked < n BY <1>2, <1>6, <1>7, <2>1 DEF IInv, WayInv, KindInv, InOrder
  <2>3. n <= asked BY <1>7 DEF IInv, AskedInv
  <2> QED BY <1>2, <2>2, <2>3
<1>8. ASSUME NEW f \in Frames, Coming(f) PROVE f.typ \notin {"R", "S"}
  <2> SUFFICES ASSUME f.typ \in {"R", "S"} PROVE FALSE OBVIOUS
  <2>1. f.for = asked /\ f.for # 0 BY <1>8 DEF Paired, AnswersInv, Framed, Answers
  <2>2. PICK k \in 2 .. 6 : At(f.for, k) BY <1>2, <1>8, <2>1, FrameAt
  <2>3. k \in Way BY DEF Way
  <2> QED BY <1>2, <1>7, <2>1, <2>2, <2>3
<1>9. ASSUME NEW l \in Line, Lined(l) PROVE FALSE
  <2>1. (At(l.n, 7) \/ At(l.n, 8)) /\ l.n \in Nat
    BY <1>2, <1>9, LineAt, RemoteAssumption DEF Line, Numbers
  <2>2. 7 \in Way /\ 8 \in Way BY DEF Way
  <2> QED BY <1>7, <2>1, <2>2
<1>10. DOMAIN startCh = {} BY <1>5 DEF Paired, AnswersInv, Answers
<1>11. AnswersInv'
  <2>1. \A f \in Frames : Framed(f)' => Coming(f)
    BY <1>1, <1>3 DEF Framed, Coming, Among
  <2> QED BY <1>1, <1>3, <1>8, <1>10, <2>1 DEF AnswersInv, Answers
<1>12. StartInv' BY <1>1, <1>10 DEF StartInv
<1>13. LinesInv' BY <1>1, <1>9 DEF LinesInv, Lined, Among
<1>14. ModesInv'
  <2>1. ~ToRead BY <1>2, <1>7 DEF ToRead, Way
  <2>2. cpc # "awaitUse" BY <1>5 DEF KindInv
  <2>3. spc # "send" BY <1>2, <1>8 DEF ServerInv, Coming
  <2>4. spc = "menu" BY <1>1, <2>1, <2>2, <2>3 DEF Paired, ModesInv
  <2> QED BY <1>1, <2>4 DEF ModesInv, Waiting
<1> QED BY <1>1, <1>5, <1>11, <1>12, <1>13, <1>14 DEF Paired, h

(* Session mode starts with nothing else on the way.                       *)
LEMMA EnteredStep ==
  ASSUME IInv, TInv', KindInv, ServerInv, Paired, EnterSession
  PROVE  Paired'
<1>1. /\ startCh # <<>> /\ startCh' = Tail(startCh) /\ cpc = "awaitUse" /\ cpc' = "session"
      /\ UNCHANGED <<asked, kind, cin, respCh, c2s, s2c, cmdCh, spc, reply, outCh, wr>>
  BY DEF EnterSession, srvVars, wrVars
<1>2. /\ TInv /\ startCh \in Seq(Frames) /\ Len(startCh) <= 1 /\ asked \in Nat
      /\ reply \in Frames
  BY TypesOf DEF IInv, TInv, TypeOK
<1>3. 1 \in DOMAIN startCh /\ DOMAIN startCh' = {} BY <1>1, <1>2, QueueTake
<1>4. startCh[1].for = asked BY <1>3 DEF Paired, AnswersInv, Answers
<1>5. ASSUME NEW n \in Nat, NEW k \in Way, At(n, k) PROVE FALSE
  <2>1. asked < n BY <1>3, <1>4, <1>5 DEF Paired, StartInv
  <2>2. n <= asked BY <1>5 DEF IInv, AskedInv
  <2> QED BY <1>2, <2>1, <2>2
<1>6. /\ \A f \in Frames : Framed(f) => f.typ \notin {"R", "S"}
      /\ \A l \in Line : ~Lined(l)
  BY <1>2, <1>5, NothingLeft DEF Paired
<1>7. \A f \in Frames : Framed(f)' => Framed(f) BY <1>1 DEF Framed, Coming, Among
<1>8. AnswersInv' BY <1>1, <1>3, <1>6, <1>7 DEF Paired, AnswersInv, Answers
<1>9. StartInv' BY <1>3 DEF StartInv
<1>10. LinesInv' BY <1>1, <1>6 DEF LinesInv, Lined, Among
<1>11. ModesInv'
  <2>1. ~ToRead BY <1>2, <1>5 DEF ToRead, Way
  <2>2. spc # "send" BY <1>2, <1>6 DEF ServerInv, Framed, Coming
  <2>3. spc = "session" BY <1>1, <2>1, <2>2 DEF Paired, ModesInv, Waiting
  <2> QED BY <1>1, <2>3 DEF ModesInv, Waiting
<1> QED BY <1>8, <1>9, <1>10, <1>11 DEF Paired

(* Once the line the client waits for is taken, what is left is its reply. *)
LEMMA TakenStep ==
  ASSUME IInv, TInv', KindInv, Paired, Dispatch \/ LeaveLine, UNCHANGED <<cpc, asked, kind>>,
         [Next]_vars, cpc \in Waiting, Head(cmdCh).n = asked, spc' = "send", Answers(reply')
  PROVE  Paired'
<1>1. cmdCh # <<>> /\ cmdCh' = Tail(cmdCh) /\ UNCHANGED c2s BY DEF Dispatch, LeaveLine
<1>2. TInv BY DEF IInv
<1>3. \A n \in Nat : ~At(n, 7)' /\ ~At(n, 8)' BY <1>1, HeadLine DEF Paired
<1>4. ASSUME NEW l \in Line, Lined(l)' PROVE FALSE
  <2>1. l.n \in Nat BY RemoteAssumption DEF Line, Numbers
  <2> QED BY <1>3, <1>4, <2>1, LineThen
<1>5. AnswersInv' /\ StartInv' BY AnswersKept DEF Paired
<1>6. LinesInv' BY <1>4 DEF LinesInv
<1>7. ~ToRead' BY <1>2, <1>4, ToReadMeans
<1>8. ModesInv' BY <1>7 DEF ModesInv, Waiting
<1> QED BY <1>5, <1>6, <1>8 DEF Paired

LEMMA DispatchedStep ==
  ASSUME IInv, TInv', KindInv, Paired, Dispatch
  PROVE  Paired'
<1> DEFINE h == Head(cmdCh)
<1>1. /\ cmdCh # <<>> /\ cmdCh' = Tail(cmdCh) /\ UNCHANGED <<c2s, cpc, asked, kind>>
      /\ spc = "menu"
  BY DEF Dispatch, cliVars
<1>2. h \in Line /\ Expected(h) /\ At(h.n, 7) /\ h.n # 0 BY <1>1, HeadLine DEF Paired
<1>3. cpc \in Waiting /\ h.n = asked /\ h.kind = kind BY <1>1, <1>2 DEF Expected
<1>4. ToRead BY <1>2, <1>3 DEF ToRead
<1>5. h.kind \in {"tool", "use"}
  <2>1. cpc # "awaitLeave" BY <1>1, <1>4 DEF Paired, ModesInv, Waiting
  <2> QED BY <1>3, <2>1 DEF KindInv, Waiting
<1>6. spc' = "send" /\ reply' = ReplyTo(h) BY <1>5 DEF Dispatch
<1>7. reply'.for = h.n /\ reply'.typ = IF h.kind = "use" THEN "S" ELSE "R"
  BY <1>6 DEF ReplyTo, Frame, KindInv
<1>8. Answers(reply') BY <1>2, <1>3, <1>7 DEF Answers
<1>9. [Next]_vars BY DEF Next, Main
<1> QED BY <1>1, <1>3, <1>6, <1>8, <1>9, TakenStep

LEMMA LeftStep ==
  ASSUME IInv, TInv', KindInv, Paired, LeaveLine
  PROVE  Paired'
<1> DEFINE h == Head(cmdCh)
<1>1. /\ cmdCh # <<>> /\ cmdCh' = Tail(cmdCh) /\ UNCHANGED <<c2s, cpc, asked, kind>>
      /\ h.kind \in {"back", "exit"} /\ reply' = Frame("R", h.n) /\ spc' = "send"
  BY DEF LeaveLine, cliVars
<1>2. h \in Line /\ Expected(h) /\ h.kind # "exit" /\ h.n # 0 BY <1>1, HeadLine DEF Paired
<1>3. h.kind = "back" BY <1>1, <1>2
<1>4. cpc \in Waiting /\ h.n = asked /\ kind = "back"
  BY <1>2, <1>3 DEF Expected, Passed
<1>5. reply'.for = h.n /\ reply'.typ = "R" BY <1>1 DEF Frame
<1>6. Answers(reply') BY <1>2, <1>4, <1>5 DEF Answers
<1>7. [Next]_vars BY DEF Next, Main
<1> QED BY <1>1, <1>4, <1>6, <1>7, TakenStep

(* The server enters the mode the client will be in when it has read this. *)
LEMMA RepliedStep ==
  ASSUME IInv, TInv', KindInv, ServerInv, Paired, SendReply
  PROVE  Paired'
<1>1. /\ UNCHANGED <<cpc, asked, kind, c2s, cmdCh>> /\ spc = "send"
      /\ spc' = IF reply.typ = "S" THEN "session" ELSE "menu"
  BY DEF SendReply, cliVars
<1>2. [Next]_vars /\ ~Dispatch /\ ~LeaveLine BY <1>1 DEF Next, Main, Dispatch, LeaveLine
<1>3. AnswersInv' /\ StartInv' BY <1>1, <1>2, AnswersKept DEF Paired
<1>4. TInv /\ reply \in Frames /\ asked \in Nat BY TypesOf DEF IInv
<1>5. /\ cpc \in Waiting /\ reply.for = asked /\ asked # 0
      /\ reply.typ = IF kind = "use" THEN "S" ELSE "R"
  BY <1>1, <1>4 DEF ServerInv, Paired, AnswersInv, Framed, Coming, Answers
<1>6. At(asked, 6) BY <1>5, Stages
<1>7. ASSUME NEW l \in Line, Lined(l) PROVE FALSE
  <2>1. l.n = asked BY <1>1, <1>7 DEF Paired, LinesInv, Expected
  <2>2. At(asked, 7) \/ At(asked, 8) BY <1>4, <1>7, <2>1, LineAt
  <2>3. Apart(6, 7) /\ Apart(6, 8) /\ {6, 7, 8} \subseteq Way BY DEF Apart, Way
  <2>4. InOrder BY DEF IInv, WayInv, KindInv
  <2>5. asked < asked BY <1>4, <1>6, <2>2, <2>3, <2>4 DEF InOrder
  <2> QED BY <1>4, <2>5
<1>8. \A l \in Line : ~Lined(l)' BY <1>1, <1>7 DEF Lined, Among
<1>9. LinesInv' BY <1>8 DEF LinesInv
<1>10. ModesInv'
  <2>1. ~ToRead' BY <1>4, <1>8, ToReadMeans
  <2>2. cpc = "awaitUse" <=> kind = "use" BY <1>5 DEF KindInv, Waiting
  <2> QED BY <1>1, <1>5, <2>1, <2>2 DEF ModesInv, Waiting
<1> QED BY <1>3, <1>9, <1>10 DEF Paired

-----------------------------------------------------------------------------
(* Each response shown answers the line just typed.                        *)
LEMMA ShownInStep ==
  ASSUME TInv, InStep, ShowResponse, Head(respCh).for = asked
  PROVE  InStep'
<1> DEFINE a == [asked |-> asked, for |-> Head(respCh).for]
<1>1. respCh # <<>> /\ answers' = Append(answers, a) BY DEF ShowResponse
<1>2. Head(respCh) \in Frames /\ asked \in Nat /\ answers \in Seq(Shown)
  BY <1>1, QueueTake, TypesOf DEF TInv
<1>3. a \in Shown /\ a.for = a.asked
  BY <1>2, FramesAre DEF Shown
<1> HIDE DEF a
<1>4. /\ DOMAIN answers' = 1 .. Len(answers) + 1 /\ Len(answers) \in Nat
      /\ DOMAIN answers = 1 .. Len(answers)
      /\ answers'[Len(answers) + 1] = a
      /\ \A i \in 1 .. Len(answers) : answers'[i] = answers[i]
  BY <1>1, <1>2, <1>3, QueuePut
<1>5. ASSUME NEW i \in 1 .. Len(answers) + 1 PROVE answers'[i].for = answers'[i].asked
  <2>1. CASE i = Len(answers) + 1 BY <1>3, <1>4, <2>1
  <2>2. CASE i \in 1 .. Len(answers) BY <1>4, <2>2 DEF InStep
  <2> QED BY <1>4, <2>1, <2>2
<1> QED BY <1>4, <1>5 DEF InStep

-----------------------------------------------------------------------------
(* The inductive invariant of both ends in step.                           *)
SyncInv ==
  /\ KindInv /\ InStep
  /\ cpc # "off" => ServerInv /\ Paired

LEMMA SyncFirst == Init => SyncInv
<1> SUFFICES ASSUME Init PROVE SyncInv OBVIOUS
<1>1. DOMAIN <<>> = {} OBVIOUS
<1>2. KindInv /\ InStep /\ ServerInv BY <1>1 DEF Init, KindInv, InStep, ServerInv
<1>3. \A q, x : q = <<>> => ~Among(q, x) BY <1>1 DEF Among
<1>4. \A f \in Frames : Framed(f) => f = NoFrame BY <1>3 DEF Init, Framed, Coming
<1>5. AnswersInv BY <1>1, <1>4, FramesAre DEF Init, AnswersInv, Answers
<1>6. StartInv BY <1>1 DEF Init, StartInv
<1>7. LinesInv BY <1>3 DEF Init, LinesInv, Lined
<1>8. ModesInv BY DEF Init, ModesInv, Waiting
<1> QED BY <1>2, <1>5, <1>6, <1>7, <1>8 DEF SyncInv, Paired

LEMMA SyncStep ==
  ASSUME Answering, IInv, IInv', SyncInv, [Next]_vars
  PROVE  SyncInv'
<1>1. /\ KindInv /\ InStep /\ TInv /\ TInv' /\ ExitInv
      /\ cpc # "off" => ServerInv /\ Paired
  BY DEF SyncInv, IInv
<1>2. KindInv' BY <1>1, KindStep
<1>3. cpc' # "off" => cpc # "off"
  BY DEF Next, vars, cliVars, User, MenuType, SessionType, SessionEof, Leave, Show, ShowResponse,
         EnterSession, Reader, ReadTypedFrame, Route, PrintEvent, ReadCommand, PushEvent, Writer,
         WriterTake, WriterPart, WriterFail, Main, Dispatch, SendReply, Bye, ClientGone, LeaveLine,
         PassLine, SessionGone, RxDone, SessionDies, Rx, RxDeath, RxClosed, RxReturn, RxStop,
         Waiting
<1>4. CASE cpc = "off"
  <2>1. ~ShowResponse BY <1>4 DEF ShowResponse, Waiting
  <2>2. UNCHANGED answers
    BY <2>1
       DEF Next, vars, cliVars, User, MenuType, SessionType, SessionEof, Leave, Show,
           EnterSession, Reader, ReadTypedFrame, Route, PrintEvent, ReadCommand, PushEvent, Writer,
           WriterTake, WriterPart, WriterFail, Main, Dispatch, SendReply, Bye, ClientGone,
           LeaveLine, PassLine, SessionGone, RxDone, SessionDies, Rx, RxDeath, RxClosed, RxReturn,
           RxStop
  <2> QED BY <1>1, <1>2, <1>3, <1>4, <2>2 DEF SyncInv, InStep
<1>5. CASE cpc # "off"
  <2>1. ServerInv /\ Paired /\ LinesInv BY <1>1, <1>5 DEF Paired
  <2>2. ServerInv' BY <1>1, <1>5, <2>1, ServerStep
  <2>3. CASE ShowResponse
    <3>1. Paired' /\ Head(respCh).for = asked BY <1>1, <2>1, <2>3, ShownStep
    <3>2. InStep' BY <1>1, <2>3, <3>1, ShownInStep
    <3> QED BY <1>2, <2>2, <3>1, <3>2 DEF SyncInv
  <2>4. CASE ~ShowResponse
    <3>1. UNCHANGED answers
      BY <2>4
         DEF Next, vars, cliVars, User, MenuType, SessionType, SessionEof, Leave, Show,
             EnterSession, Reader, ReadTypedFrame, Route, PrintEvent, ReadCommand, PushEvent,
             Writer, WriterTake, WriterPart, WriterFail, Main, Dispatch, SendReply, Bye,
             ClientGone, LeaveLine, PassLine, SessionGone, RxDone, SessionDies, Rx, RxDeath,
             RxClosed, RxReturn, RxStop
    <3>2. InStep' BY <1>1, <3>1 DEF InStep
    <3>3. ASSUME UNCHANGED <<cpc, asked, kind, spc>>, ~Dispatch, ~LeaveLine,
                 \A l \in Line : Lined(l)' <=> Lined(l)
          PROVE  Paired'
      BY <1>1, <2>1, <3>3, QuietStep
    <3>4. ASSUME MenuType \/ SessionType PROVE Paired' BY <1>1, <1>2, <2>1, <3>4, TypedStep
    <3>5. ASSUME EnterSession PROVE Paired' BY <1>1, <2>1, <3>5, EnteredStep
    <3>6. ASSUME Dispatch PROVE Paired' BY <1>1, <2>1, <3>6, DispatchedStep
    <3>7. ASSUME SendReply PROVE Paired' BY <1>1, <2>1, <3>7, RepliedStep
    <3>8. ASSUME LeaveLine PROVE Paired' BY <1>1, <2>1, <3>8, LeftStep
    <3>9. ASSUME PassLine PROVE Paired' BY <1>1, <2>1, <3>9, PassStep
    <3>10. ASSUME ReadCommand, ~Dispatch, ~LeaveLine PROVE Paired'
      <4>1. /\ c2s # <<>> /\ c2s' = Tail(c2s) /\ cmdCh' = Append(cmdCh, Head(c2s))
            /\ UNCHANGED <<cpc, asked, kind, spc>>
        BY <3>10 DEF ReadCommand, cliVars, srvVars
      <4>2. c2s \in Seq(Line) /\ cmdCh \in Seq(Line) BY <1>1, TypesOf
      <4>3. Head(c2s) \in Line BY <4>1, <4>2, QueueTake
      <4>4. \A l : Among(c2s, l) <=> Among(c2s', l) \/ l = Head(c2s) BY <4>1, <4>2, AmongTake
      <4>5. \A l : Among(cmdCh', l) <=> Among(cmdCh, l) \/ l = Head(c2s)
        BY <4>1, <4>2, <4>3, AmongPut
      <4>6. \A l \in Line : Lined(l)' <=> Lined(l) BY <4>4, <4>5 DEF Lined
      <4> QED BY <3>3, <3>10, <4>1, <4>6
    <3>11. ASSUME UNCHANGED <<cpc, asked, kind, spc, c2s, cmdCh>>, ~Dispatch, ~LeaveLine
           PROVE  Paired'
      BY <3>3, <3>11 DEF Lined, Among
    <3>12. ASSUME \/ UNCHANGED vars \/ Reader \/ PrintEvent \/ PushEvent \/ Writer \/ WriterFail
                  \/ SessionDies \/ \E n \in Numbers : Rx(n),
                  ~Dispatch, ~LeaveLine
           PROVE  Paired'
      BY <3>11, <3>12 DEF vars, Reader, ReadTypedFrame, Route, PrintEvent, PushEvent, Writer,
                          WriterTake, WriterPart, WriterFail, SessionDies, Rx, RxDeath, RxClosed,
                          RxReturn, RxStop, cliVars, srvVars
    <3>13. ~(SessionEof \/ Bye \/ ClientGone \/ SessionGone \/ RxDone)
      BY <1>5, <2>1 DEF SessionEof, Answering, Bye, ClientGone, SessionGone, Eof, RxDone, ServerInv
    <3>14. CASE Leave
      <4>1. cpc' = "off" BY <3>14 DEF Leave
      <4> QED BY <1>2, <3>2, <4>1 DEF SyncInv
    <3>15. Paired' \/ Leave
      BY <2>4, <3>4, <3>5, <3>6, <3>7, <3>8, <3>9, <3>10, <3>12, <3>13
      DEF Next, User, Show, Main
    <3> QED BY <1>2, <2>2, <3>2, <3>14, <3>15 DEF SyncInv
  <2> QED BY <2>3, <2>4
<1> QED BY <1>4, <1>5

LEMMA SyncInvariant == ASSUME Answering PROVE Spec => []SyncInv
<1>1. Init => SyncInv BY SyncFirst
<1>2. IInv /\ IInv' /\ SyncInv /\ [Next]_vars => SyncInv' BY SyncStep
<1> QED BY <1>1, <1>2, Invariant, PTL DEF Spec

(* As long as the session lives, every line has output and the input does  *)
(* not end in session mode, each response shown answers the line just      *)
(* typed.                                                                  *)
THEOREM ResponsesInStep == ASSUME Answering PROVE Spec => []InStep
<1>1. SyncInv => InStep BY DEF SyncInv
<1> QED BY <1>1, SyncInvariant, PTL

(* And the two ends are in the same mode whenever the user can type.       *)
THEOREM ModesInStep == ASSUME Answering PROVE Spec => []ModesAgree
<1>1. IInv /\ SyncInv => ModesAgree
  <2> SUFFICES ASSUME IInv, SyncInv, cpc \in {"menu", "session"} PROVE ModesAgree
    BY DEF ModesAgree
  <2>1. ModesInv /\ LinesInv BY DEF SyncInv, Paired
  <2>2. c2s \in Seq(Line) /\ cmdCh \in Seq(Line) BY TypesOf DEF IInv
  <2>3. CASE cpc = "session" BY <2>1, <2>3 DEF ModesInv, ModesAgree
  <2>4. CASE cpc = "menu"
    <3>1. \A l \in Line : ~Lined(l)
      BY <2>1, <2>4 DEF ModesInv, LinesInv, Expected, Waiting
    <3>2. \A q \in Seq(Line) : q # <<>> => Head(q) \in Line /\ Among(q, Head(q))
      BY AmongTake, QueueTake
    <3>3. c2s = <<>> /\ cmdCh = <<>> BY <2>2, <3>1, <3>2 DEF Lined
    <3> QED BY <2>1, <2>4, <3>3 DEF ModesInv, ModesAgree
  <2> QED BY <2>3, <2>4
<1> QED BY <1>1, SyncInvariant, Invariant, PTL
=============================================================================
