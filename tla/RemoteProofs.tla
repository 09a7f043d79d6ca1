---------------------------- MODULE RemoteProofs ----------------------------
(***************************************************************************)
(* Proofs about Remote.tla, for any numbers of lines and events and any    *)
(* capacities of the channels and the connection: no response is shown     *)
(* twice or after that of a later line, whatever goes wrong.  That the two *)
(* ends stay in step, when they do, is proved in RemoteSyncProofs.         *)
(***************************************************************************)
EXTENDS Remote, SequenceTheorems, TLAPS

Line   == [n : Numbers, kind : MenuKinds \cup SessionKinds]
Pieces == [frame : Frames, part : 1 .. Parts]
Shown  == [asked : Nat, for : 0 .. MaxLines]

TInv ==
  /\ TypeOK
  /\ part \in [{"writer", "main"} -> 0 .. Parts - 1]
  /\ eventCh \in Seq(Frames) /\ startCh \in Seq(Frames) /\ respCh \in Seq(Frames)
  /\ outCh \in Seq(Frames) /\ s2c \in Seq(Pieces)
  /\ c2s \in Seq(Line) /\ cmdCh \in Seq(Line) /\ answers \in Seq(Shown)
  /\ reply.typ = "S" => reply.for # 0

-----------------------------------------------------------------------------
(* Frames, pieces and queues.                                              *)

LEMMA FramesAre ==
  /\ \A n \in 0 .. MaxLines : Frame("R", n) \in Frames /\ Frame("S", n) \in Frames
  /\ Frame("E", 0) \in Frames /\ NoFrame \in Frames
  /\ \A f \in Frames : /\ f.for \in 0 .. MaxLines /\ f.typ \in {"R", "S", "E", "none"}
                       /\ f.typ \in {"E", "none"} => f.for = 0
                       /\ f.typ = "none" => f = NoFrame
  /\ NoFrame.for = 0 /\ NoFrame.typ = "none"
  /\ \A t, n : Frame(t, n).for = n /\ Frame(t, n).typ = t
<1>1. 0 \in 0 .. MaxLines BY RemoteAssumption
<1>2. /\ \A n \in 0 .. MaxLines : Frame("R", n) \in Frames /\ Frame("S", n) \in Frames
      /\ Frame("E", 0) \in Frames /\ NoFrame \in Frames
  BY DEF Frames
<1>3. \A t, n : Frame(t, n).for = n /\ Frame(t, n).typ = t BY DEF Frame
<1>4. NoFrame.for = 0 /\ NoFrame.typ = "none" BY <1>3 DEF NoFrame
<1>5. ASSUME NEW f \in Frames
      PROVE  /\ f.for \in 0 .. MaxLines /\ f.typ \in {"R", "S", "E", "none"}
             /\ f.typ \in {"E", "none"} => f.for = 0
             /\ f.typ = "none" => f = NoFrame
  <2>1. CASE \E t \in {"R", "S"}, n \in 0 .. MaxLines : f = Frame(t, n) BY <1>3, <2>1
  <2>2. CASE f = Frame("E", 0) BY <1>1, <1>3, <2>2
  <2>3. CASE f = NoFrame BY <1>1, <1>4, <2>3
  <2> QED BY <2>1, <2>2, <2>3 DEF Frames
<1> QED BY <1>2, <1>3, <1>4, <1>5

LEMMA QueuePut ==
  ASSUME NEW X, NEW q \in Seq(X), NEW x \in X
  PROVE  /\ Append(q, x) \in Seq(X) /\ Len(Append(q, x)) = Len(q) + 1
         /\ DOMAIN Append(q, x) = 1 .. Len(q) + 1 /\ Len(q) \in Nat /\ DOMAIN q = 1 .. Len(q)
         /\ Append(q, x)[Len(q) + 1] = x /\ \A i \in 1 .. Len(q) : Append(q, x)[i] = q[i]
OBVIOUS

LEMMA QueueTake ==
  ASSUME NEW X, NEW q \in Seq(X), q # <<>>
  PROVE  /\ Head(q) \in X /\ Tail(q) \in Seq(X) /\ Len(Tail(q)) = Len(q) - 1
         /\ Head(q) = q[1] /\ Len(q) \in Nat \ {0} /\ DOMAIN q = 1 .. Len(q)
         /\ DOMAIN Tail(q) = 1 .. Len(q) - 1
         /\ \A i \in 1 .. Len(q) - 1 : Tail(q)[i] = q[i + 1]
<1>1. Len(q) \in Nat \ {0} /\ DOMAIN q = 1 .. Len(q) OBVIOUS
<1>2. Head(q) \in X /\ Head(q) = q[1] OBVIOUS
<1>3. Tail(q) \in Seq(X) /\ Len(Tail(q)) = Len(q) - 1 OBVIOUS
<1>4. \A i \in 1 .. Len(q) - 1 : Tail(q)[i] = q[i + 1] OBVIOUS
<1>5. DOMAIN Tail(q) = 1 .. Len(q) - 1 BY <1>1, <1>3
<1> QED BY <1>1, <1>2, <1>3, <1>4, <1>5

LEMMA QueueCut ==
  ASSUME NEW X, NEW q \in Seq(X), NEW n \in 0 .. Len(q)
  PROVE  /\ SubSeq(q, 1, n) \in Seq(X) /\ Len(SubSeq(q, 1, n)) = n
         /\ DOMAIN SubSeq(q, 1, n) = 1 .. n
         /\ \A i \in 1 .. n : SubSeq(q, 1, n)[i] = q[i]
         /\ SubSeq(q, n + 1, Len(q)) \in Seq(X) /\ Len(SubSeq(q, n + 1, Len(q))) = Len(q) - n
         /\ DOMAIN SubSeq(q, n + 1, Len(q)) = 1 .. Len(q) - n
         /\ \A i \in 1 .. Len(q) - n : SubSeq(q, n + 1, Len(q))[i] = q[i + n]
<1>1. Len(q) \in Nat OBVIOUS
<1>2. /\ SubSeq(q, 1, n) \in Seq(X) /\ Len(SubSeq(q, 1, n)) = n
      /\ \A i \in 1 .. n : SubSeq(q, 1, n)[i] = q[i]
  BY <1>1, SubSeqProperties
<1>3. /\ SubSeq(q, n + 1, Len(q)) \in Seq(X) /\ Len(SubSeq(q, n + 1, Len(q))) = Len(q) - n
      /\ \A i \in 1 .. Len(q) - n : SubSeq(q, n + 1, Len(q))[i] = q[i + n]
  BY <1>1, SubSeqProperties
<1> QED BY <1>1, <1>2, <1>3

(* A frame's next piece, and after its last one the next frame's first.    *)
LEMMA NextPart ==
  ASSUME NEW n \in 0 .. Parts - 1
  PROVE  /\ (n + 1) % Parts \in 0 .. Parts - 1
         /\ (n + 1) % Parts = IF n + 1 = Parts THEN 0 ELSE n + 1
<1>1. Parts \in Nat \ {0} BY RemoteAssumption
<1>2. CASE n + 1 = Parts BY <1>1, <1>2
<1>3. CASE n + 1 # Parts BY <1>1, <1>3
<1> QED BY <1>1, <1>2, <1>3

LEMMA PartWritten ==
  ASSUME TInv, NEW who \in {"writer", "main"}, NEW f \in Frames, WritePart(who, f)
  PROVE  /\ Piece(f, part[who] + 1) \in Pieces
         /\ s2c' = Append(s2c, Piece(f, part[who] + 1)) /\ s2c' \in Seq(Pieces)
         /\ Len(s2c') <= WireCap
         /\ part' \in [{"writer", "main"} -> 0 .. Parts - 1]
         /\ part'[who] = IF part[who] + 1 = Parts THEN 0 ELSE part[who] + 1
         /\ \A w \in {"writer", "main"} \ {who} : part'[w] = part[w]
<1>1. part[who] \in 0 .. Parts - 1 /\ Parts \in Nat \ {0} /\ WireCap \in Nat
  BY RemoteAssumption DEF TInv
<1>2. Piece(f, part[who] + 1) \in Pieces BY <1>1 DEF Piece, Pieces
<1>3. s2c' = Append(s2c, Piece(f, part[who] + 1)) /\ Len(s2c) < WireCap
      /\ part' = [part EXCEPT ![who] = (part[who] + 1) % Parts]
  BY DEF WritePart
<1>4. s2c' \in Seq(Pieces) /\ Len(s2c') = Len(s2c) + 1 /\ Len(s2c) \in Nat
  BY <1>2, <1>3, QueuePut DEF TInv
<1>5. Len(s2c') <= WireCap BY <1>1, <1>3, <1>4
<1>6. (part[who] + 1) % Parts \in 0 .. Parts - 1
      /\ (part[who] + 1) % Parts = IF part[who] + 1 = Parts THEN 0 ELSE part[who] + 1
  BY <1>1, NextPart
<1>7. part \in [{"writer", "main"} -> 0 .. Parts - 1] BY DEF TInv
<1> DEFINE m == (part[who] + 1) % Parts
<1>8. m \in 0 .. Parts - 1 BY <1>6
<1>9. part' = [part EXCEPT ![who] = m] BY <1>3
<1> HIDE DEF m
<1>10. /\ part' \in [{"writer", "main"} -> 0 .. Parts - 1] /\ part'[who] = m
       /\ \A w \in {"writer", "main"} \ {who} : part'[w] = part[w]
  BY <1>7, <1>8, <1>9
<1> QED BY <1>2, <1>3, <1>4, <1>5, <1>6, <1>10 DEF m
-----------------------------------------------------------------------------
(* Types are kept.                                                         *)

LEMMA TypeInit == Init => TInv
<1> SUFFICES ASSUME Init PROVE TInv OBVIOUS
<1>1. <<>> \in Seq(Frames) /\ <<>> \in Seq(Pieces) /\ <<>> \in Seq(Line) /\ <<>> \in Seq(Shown)
  OBVIOUS
<1>2. Len(<<>>) = 0 OBVIOUS
<1>3. /\ Parts \in Nat \ {0} /\ MaxLines \in Nat /\ MaxEvents \in Nat
      /\ EvCap \in Nat /\ CmdCap \in Nat /\ OutCap \in Nat /\ WireCap \in Nat
  BY RemoteAssumption
<1>4. part \in [{"writer", "main"} -> 0 .. Parts - 1]
  BY <1>3 DEF Init
<1>5. TypeOK
  <2>1. /\ cpc \in Waiting \cup {"menu", "session", "off"} /\ kind \in MenuKinds \cup SessionKinds
        /\ asked \in 0 .. MaxLines /\ cur \in 0 .. MaxLines /\ pushed \in 0 .. MaxEvents
    BY <1>3 DEF Init, MenuKinds
  <2>2. {cin, reply, wr} \subseteq Frames BY FramesAre DEF Init
  <2>3. /\ Len(eventCh) = 0 /\ Len(startCh) = 0 /\ Len(respCh) = 0 /\ Len(cmdCh) = 0
        /\ Len(outCh) = 0 /\ Len(c2s) = 0 /\ Len(s2c) = 0
    BY <1>2 DEF Init
  <2>4. rx \in [Numbers -> {"unborn", "run", "told", "closed", "return", "done"}] BY DEF Init
  <2>5. /\ spc \in {"menu", "send", "bye", "session", "gone"} /\ spc # "session"
        /\ broken \in BOOLEAN /\ alive \in BOOLEAN /\ wrDead \in BOOLEAN /\ strayed \subseteq Numbers
    BY DEF Init
  <2> QED BY <1>3, <1>4, <2>1, <2>2, <2>3, <2>4, <2>5 DEF TypeOK
<1> QED BY <1>1, <1>4, <1>5, FramesAre DEF Init, TInv

(* What the user types is one more line, with the next number.             *)
LEMMA Typed ==
  ASSUME TInv, NEW k \in MenuKinds \cup SessionKinds, Type(k)
  PROVE  /\ asked' = asked + 1 /\ asked' \in Numbers /\ asked' \in 0 .. MaxLines
         /\ kind' = k /\ k \in MenuKinds \cup SessionKinds
         /\ [n |-> asked + 1, kind |-> k] \in Line
         /\ c2s' = Append(c2s, [n |-> asked + 1, kind |-> k])
         /\ c2s' \in Seq(Line) /\ Len(c2s') <= WireCap
<1>1. asked \in 0 .. MaxLines /\ MaxLines \in Nat /\ WireCap \in Nat
  BY RemoteAssumption DEF TInv, TypeOK
<1>2. asked' = asked + 1 /\ asked + 1 \in Numbers /\ kind' = k
  BY <1>1 DEF Type, Numbers
<1>3. [n |-> asked + 1, kind |-> k] \in Line BY <1>2 DEF Line
<1>4. c2s' = Append(c2s, [n |-> asked + 1, kind |-> k]) /\ Len(c2s) < WireCap BY DEF Type
<1>5. c2s' \in Seq(Line) /\ Len(c2s') = Len(c2s) + 1 /\ Len(c2s) \in Nat
  BY <1>3, <1>4, QueuePut DEF TInv
<1>6. asked' \in Numbers /\ asked' \in 0 .. MaxLines BY <1>1, <1>2 DEF Numbers
<1> QED BY <1>1, <1>2, <1>3, <1>4, <1>5, <1>6

LEMMA Sent ==
  ASSUME TInv, NEW f \in Frames, Out(f)
  PROVE  outCh' = Append(outCh, f) /\ outCh' \in Seq(Frames) /\ Len(outCh') <= OutCap
<1>1. outCh' \in Seq(Frames) /\ Len(outCh') = Len(outCh) + 1 /\ Len(outCh) \in Nat
  BY QueuePut DEF Out, TInv
<1>2. OutCap \in Nat BY RemoteAssumption
<1> QED BY <1>1, <1>2 DEF Out

(* A line taken from cmdCh.                                                *)
LEMMA Taken ==
  ASSUME TInv, cmdCh # <<>>, cmdCh' = Tail(cmdCh)
  PROVE  /\ Head(cmdCh) \in Line /\ Head(cmdCh).n \in Numbers /\ Head(cmdCh).n \in 0 .. MaxLines
         /\ Head(cmdCh).n # 0 /\ Head(cmdCh).kind \in MenuKinds \cup SessionKinds
         /\ cmdCh' \in Seq(Line) /\ Len(cmdCh') <= CmdCap
<1>1. /\ Head(cmdCh) \in Line /\ cmdCh' \in Seq(Line) /\ Len(cmdCh') = Len(cmdCh) - 1
      /\ Len(cmdCh) \in Nat
  BY QueueTake DEF TInv
<1>2. CmdCap \in Nat /\ Len(cmdCh) <= CmdCap BY RemoteAssumption DEF TInv, TypeOK
<1>3. Head(cmdCh).n \in Numbers /\ Head(cmdCh).kind \in MenuKinds \cup SessionKinds
  BY <1>1 DEF Line
<1>4. MaxLines \in Nat BY RemoteAssumption
<1> QED BY <1>1, <1>2, <1>3, <1>4 DEF Numbers

LEMMA TypeStep == TInv /\ [Next]_vars => TInv'
<1> SUFFICES ASSUME TInv, [Next]_vars PROVE TInv' OBVIOUS
<1> USE DEF TInv, TypeOK
<1>0. /\ Parts \in Nat \ {0} /\ MaxLines \in Nat /\ MaxEvents \in Nat
      /\ EvCap \in Nat \ {0} /\ CmdCap \in Nat \ {0} /\ OutCap \in Nat \ {0} /\ WireCap \in Nat
  BY RemoteAssumption
<1>1. CASE UNCHANGED vars
  BY <1>1 DEF vars, cliVars, chVars, srvVars, rxVars, wrVars
<1>2. CASE MenuType
  <2>1. PICK k \in Lines \cap MenuKinds :
          Type(k) /\ cpc' = IF k = "use" THEN "awaitUse" ELSE "await"
    BY <1>2 DEF MenuType
  <2>2. kind' = k /\ asked' \in 0 .. MaxLines /\ c2s' \in Seq(Line) /\ Len(c2s') <= WireCap
    BY <2>1, Typed
  <2> QED BY <1>2, <2>1, <2>2
    DEF MenuType, Waiting, chVars, srvVars, rxVars, wrVars
<1>3. CASE SessionType
  <2>1. PICK k \in Lines \cap SessionKinds :
          Type(k) /\ cpc' = IF k \in Passed THEN "session" ELSE "awaitLeave"
    BY <1>3 DEF SessionType
  <2>2. kind' = k /\ asked' \in 0 .. MaxLines /\ c2s' \in Seq(Line) /\ Len(c2s') <= WireCap
    BY <2>1, Typed
  <2> QED BY <1>3, <2>1, <2>2
    DEF SessionType, Waiting, chVars, srvVars, rxVars, wrVars
<1>4. CASE SessionEof
  BY <1>4 DEF SessionEof, chVars, srvVars, rxVars, wrVars
<1>5. CASE Leave
  <2>1. PICK n \in 0 .. Len(c2s) : c2s' = SubSeq(c2s, 1, n) BY <1>5 DEF Leave
  <2>2. c2s' \in Seq(Line) /\ Len(c2s') = n /\ Len(c2s) \in Nat BY <2>1, QueueCut
  <2>3. Len(c2s') <= WireCap BY <1>0, <2>2
  <2> QED BY <1>5, <2>2, <2>3 DEF Leave, chVars, srvVars, rxVars, wrVars
<1>6. CASE ShowResponse
  <2>1. Head(respCh) \in Frames /\ respCh' \in Seq(Frames) /\ Len(respCh') = Len(respCh) - 1
        /\ Len(respCh) \in Nat
    BY <1>6, QueueTake DEF ShowResponse
  <2>2. [asked |-> asked, for |-> Head(respCh).for] \in Shown
    <3>1. asked \in Nat BY ONLY <1>0, asked \in 0 .. MaxLines
    <3>2. Head(respCh).for \in 0 .. MaxLines BY ONLY <2>1, FramesAre
    <3> QED BY ONLY <3>1, <3>2 DEF Shown
  <2>3. answers' \in Seq(Shown) BY <1>6, <2>2, QueuePut DEF ShowResponse
  <2>4. Len(respCh') <= 1 BY <2>1
  <2> QED BY <1>6, <2>1, <2>3, <2>4 DEF ShowResponse, srvVars, rxVars, wrVars
<1>7. CASE EnterSession
  <2>1. startCh' \in Seq(Frames) /\ Len(startCh') = Len(startCh) - 1 /\ Len(startCh) \in Nat
    BY <1>7, QueueTake DEF EnterSession
  <2>2. Len(startCh') <= 1 BY <2>1
  <2> QED BY <1>7, <2>1, <2>2 DEF EnterSession, srvVars, rxVars, wrVars
<1>8. CASE ReadTypedFrame
  <2>1. Len(s2c) \in Nat /\ Len(s2c) >= Parts /\ Parts \in 0 .. Len(s2c)
    BY <1>0, <1>8 DEF ReadTypedFrame
  <2>0. s2c' = SubSeq(s2c, Parts + 1, Len(s2c)) BY <1>8 DEF ReadTypedFrame
  <2>2. s2c' \in Seq(Pieces) /\ Len(s2c') = Len(s2c) - Parts
    BY <2>0, <2>1, QueueCut
  <2>3. s2c[1] \in Pieces BY <1>0, <2>1
  <2>4. s2c[1].frame \in Frames BY <2>3 DEF Pieces
  <2>5. Len(s2c') <= WireCap BY <1>0, <2>1, <2>2
  <2>6. cin' \in Frames /\ broken' \in BOOLEAN BY <1>8, <2>4 DEF ReadTypedFrame
  <2> QED BY <1>8, <2>2, <2>5, <2>6 DEF ReadTypedFrame, cliVars, srvVars, rxVars, wrVars
<1>9. CASE Route
  <2>1. cin' = NoFrame /\ cin' \in Frames BY <1>9, FramesAre DEF Route
  <2>2. eventCh' \in Seq(Frames) /\ Len(eventCh') <= EvCap
    <3>1. CASE UNCHANGED eventCh BY <3>1
    <3>2. CASE Len(eventCh) < EvCap /\ eventCh' = Append(eventCh, cin)
      <4>1. eventCh' \in Seq(Frames) /\ Len(eventCh') = Len(eventCh) + 1 /\ Len(eventCh) \in Nat
        BY <3>2, QueuePut
      <4> QED BY <1>0, <3>2, <4>1
    <3> QED BY <1>9, <3>1, <3>2 DEF Route
  <2> DEFINE one == <<cin>>
  <2>3. one \in Seq(Frames) /\ Len(one) <= 1 OBVIOUS
  <2>4. startCh' \in Seq(Frames) /\ Len(startCh') <= 1 /\ respCh' \in Seq(Frames) /\ Len(respCh') <= 1
    <3>1. startCh' = startCh \/ startCh' = one BY <1>9 DEF Route
    <3>2. respCh' = respCh \/ respCh' = one BY <1>9 DEF Route
    <3> HIDE DEF one
    <3> QED BY <2>3, <3>1, <3>2
  <2> QED BY <1>9, <2>1, <2>2, <2>4 DEF Route, cliVars, srvVars, rxVars, wrVars
<1>10. CASE PrintEvent
  <2>1. eventCh' \in Seq(Frames) /\ Len(eventCh') = Len(eventCh) - 1 /\ Len(eventCh) \in Nat
    BY <1>10, QueueTake DEF PrintEvent
  <2>2. Len(eventCh') <= EvCap BY <1>0, <2>1
  <2> QED BY <1>10, <2>1, <2>2 DEF PrintEvent, cliVars, srvVars, rxVars, wrVars
<1>11. CASE ReadCommand
  <2>1. Head(c2s) \in Line /\ c2s' \in Seq(Line) /\ Len(c2s') = Len(c2s) - 1 /\ Len(c2s) \in Nat
    BY <1>11, QueueTake DEF ReadCommand
  <2>2. cmdCh' \in Seq(Line) /\ Len(cmdCh') = Len(cmdCh) + 1 /\ Len(cmdCh) \in Nat
    BY <1>11, <2>1, QueuePut DEF ReadCommand
  <2>3. Len(c2s') <= WireCap /\ Len(cmdCh') <= CmdCap BY <1>0, <1>11, <2>1, <2>2 DEF ReadCommand
  <2> QED BY <1>11, <2>1, <2>2, <2>3 DEF ReadCommand, cliVars, chVars, srvVars, rxVars, wrVars
<1>12. CASE PushEvent
  <2>1. outCh' \in Seq(Frames) /\ Len(outCh') <= OutCap BY <1>12, FramesAre, Sent DEF PushEvent
  <2>2. pushed' \in 0 .. MaxEvents BY <1>0, <1>12 DEF PushEvent
  <2> QED BY <1>12, <2>1, <2>2 DEF PushEvent, cliVars, chVars, srvVars, rxVars, wrVars
<1>13. CASE WriterTake
  <2>1. Head(outCh) \in Frames /\ outCh' \in Seq(Frames) /\ Len(outCh') = Len(outCh) - 1
        /\ Len(outCh) \in Nat
    BY <1>13, QueueTake DEF WriterTake
  <2>2. Len(outCh') <= OutCap BY <1>0, <2>1
  <2> QED BY <1>13, <2>1, <2>2 DEF WriterTake, cliVars, chVars, srvVars, rxVars
<1>14. CASE WriterPart
  <2>1. s2c' \in Seq(Pieces) /\ Len(s2c') <= WireCap
        /\ part' \in [{"writer", "main"} -> 0 .. Parts - 1]
    BY <1>14, PartWritten DEF WriterPart
  <2>2. wr' \in Frames BY <1>14, FramesAre DEF WriterPart
  <2> QED BY <1>14, <2>1, <2>2 DEF WriterPart, cliVars, chVars, srvVars, rxVars
<1>15. CASE WriterFail
  BY <1>15, FramesAre DEF WriterFail, cliVars, chVars, srvVars, rxVars
<1>16. CASE Dispatch
  <2>1. /\ Head(cmdCh) \in Line /\ Head(cmdCh).n \in Numbers /\ Head(cmdCh).n \in 0 .. MaxLines
        /\ Head(cmdCh).n # 0 /\ cmdCh' \in Seq(Line) /\ Len(cmdCh') <= CmdCap
    BY <1>16, Taken DEF Dispatch
  <2>2. /\ reply' = NoFrame \/ reply' = Frame("R", Head(cmdCh).n)
                            \/ reply' = Frame("S", Head(cmdCh).n)
        /\ spc' \in {"bye", "menu", "send"}
        /\ strayed' = strayed \/ strayed' = strayed \cup {Head(cmdCh).n}
    BY <1>16 DEF Dispatch, ReplyTo
  <2>3. reply' \in Frames /\ (reply'.typ = "S" => reply'.for # 0)
    <3>1. \A n \in 0 .. MaxLines : n # 0 =>
            /\ Frame("R", n) \in Frames /\ Frame("R", n).typ # "S"
            /\ Frame("S", n) \in Frames /\ Frame("S", n).for # 0
      BY ONLY FramesAre
    <3>2. NoFrame \in Frames /\ NoFrame.typ # "S" BY ONLY FramesAre
    <3> QED BY ONLY <2>1, <2>2, <3>1, <3>2
  <2>4. strayed' \subseteq Numbers BY <2>1, <2>2
  <2> QED BY <1>16, <2>1, <2>2, <2>3, <2>4 DEF Dispatch, cliVars, chVars, rxVars, wrVars
<1>17. CASE SendReply
  <2>1. outCh' \in Seq(Frames) /\ Len(outCh') <= OutCap BY <1>17, Sent DEF SendReply
  <2>2. reply' = NoFrame /\ reply' \in Frames /\ reply'.typ # "S" BY <1>17, FramesAre DEF SendReply
  <2>3. reply.for \in 0 .. MaxLines /\ (reply.typ = "S" => reply.for \in Numbers)
    <3>1. reply \in Frames /\ (reply.typ = "S" => reply.for # 0) OBVIOUS
    <3>2. reply.for \in 0 .. MaxLines BY ONLY <3>1, FramesAre
    <3>3. \A n \in 0 .. MaxLines : n # 0 => n \in Numbers BY ONLY <1>0 DEF Numbers
    <3> QED BY ONLY <3>1, <3>2, <3>3
  <2>4. /\ cur' \in 0 .. MaxLines /\ (spc' = "session" => cur' # 0) /\ spc' \in {"session", "menu"}
        /\ rx' \in [Numbers -> {"unborn", "run", "told", "closed", "return", "done"}]
    <3>1. CASE reply.typ = "S"
      <4>1. spc' = "session" /\ cur' = reply.for /\ rx' = [rx EXCEPT ![reply.for] = "run"]
        BY <1>17, <3>1 DEF SendReply
      <4> QED BY <2>3, <3>1, <4>1
    <3>2. CASE reply.typ # "S"
      <4>1. spc' = "menu" /\ cur' = 0 /\ rx' = rx BY <1>17, <3>2 DEF SendReply
      <4> QED BY <1>0, <4>1
    <3> QED BY <3>1, <3>2
  <2> QED BY <1>17, <2>1, <2>2, <2>4 DEF SendReply, cliVars, chVars, wrVars
<1>18. CASE Bye
  <2>1. /\ s2c' \in Seq(Pieces) /\ Len(s2c') <= WireCap
        /\ part' \in [{"writer", "main"} -> 0 .. Parts - 1] /\ spc' \in {"gone", "bye"}
    <3>1. CASE WritePart("main", reply) /\ spc' = IF part'["main"] = 0 THEN "gone" ELSE "bye"
      BY <3>1, PartWritten
    <3>2. CASE spc' = "gone" /\ UNCHANGED <<s2c, part>> BY <3>2
    <3> QED BY <1>18, <3>1, <3>2 DEF Bye
  <2> QED BY <1>18, <2>1 DEF Bye, cliVars, chVars, rxVars, wrVars
<1>19. CASE ClientGone
  BY <1>19 DEF ClientGone, cliVars, chVars, rxVars, wrVars
<1>20. spc = "session" => cur \in Numbers BY <1>0 DEF Numbers
<1>21. CASE LeaveLine
  <2>1. Head(cmdCh).n \in 0 .. MaxLines /\ cmdCh' \in Seq(Line) /\ Len(cmdCh') <= CmdCap
    BY <1>21, Taken DEF LeaveLine
  <2>2. reply' \in Frames /\ reply'.typ # "S" BY <1>21, <2>1, FramesAre DEF LeaveLine
  <2>3. rx' \in [Numbers -> {"unborn", "run", "told", "closed", "return", "done"}]
    BY <1>20, <1>21 DEF LeaveLine, TellRx
  <2> QED BY <1>21, <2>1, <2>2, <2>3 DEF LeaveLine, cliVars, chVars, wrVars
<1>22. CASE PassLine
  <2>1. cmdCh' \in Seq(Line) /\ Len(cmdCh') <= CmdCap BY <1>22, Taken DEF PassLine
  <2>2. outCh' \in Seq(Frames) /\ Len(outCh') <= OutCap
    BY <1>22, FramesAre, Sent DEF PassLine
  <2> QED BY <1>22, <2>1, <2>2 DEF PassLine, cliVars, chVars, srvVars, rxVars, wrVars
<1>23. CASE SessionGone
  <2>1. rx' \in [Numbers -> {"unborn", "run", "told", "closed", "return", "done"}]
    BY <1>20, <1>23 DEF SessionGone, TellRx
  <2> QED BY <1>0, <1>23, <2>1 DEF SessionGone, cliVars, chVars, wrVars
<1>24. CASE RxDone
  BY <1>0, <1>24 DEF RxDone, cliVars, chVars, rxVars, wrVars
<1>25. CASE SessionDies
  BY <1>25 DEF SessionDies, cliVars, chVars, srvVars, wrVars
<1>26. ASSUME NEW n \in Numbers, RxDeath(n) \/ RxStop(n) PROVE TInv'
  BY <1>26 DEF RxDeath, RxStop, RxGoto, cliVars, chVars, srvVars, wrVars
<1>27. ASSUME NEW n \in Numbers, RxClosed(n) \/ RxReturn(n) PROVE TInv'
  <2>1. outCh' \in Seq(Frames) /\ Len(outCh') <= OutCap
    BY <1>0, <1>27, FramesAre, Sent DEF RxClosed, RxReturn
  <2>2. rx' \in [Numbers -> {"unborn", "run", "told", "closed", "return", "done"}]
    BY <1>27 DEF RxClosed, RxReturn, RxGoto
  <2> QED BY <1>27, <2>1, <2>2 DEF RxClosed, RxReturn, cliVars, chVars, srvVars, wrVars
<1> QED
  BY <1>1, <1>2, <1>3, <1>4, <1>5, <1>6, <1>7, <1>8, <1>9, <1>10, <1>11, <1>12, <1>13,
     <1>14, <1>15, <1>16, <1>17, <1>18, <1>19, <1>21, <1>22, <1>23, <1>24, <1>25, <1>26,
     <1>27
  DEF Next, User, Show, Reader, Writer, Main, Rx
-----------------------------------------------------------------------------
(* The way of a line's number: up to the server (8, 7), where it becomes   *)
(* that of the reply (6), and back to the client (5 to 1).  A queue has    *)
(* the numbers that the function `of` gives of its members; 0 is none.     *)
ForOf   == [f \in Frames |-> f.for]
LineOf  == [l \in Line |-> l.n]
PieceOf == [p \in Pieces |-> p.frame.for]

Has(of, q, n) == \E i \in DOMAIN q : of[q[i]] = n
Rising(of, q) == \A i, j \in DOMAIN q :
                   i < j /\ of[q[i]] # 0 /\ of[q[j]] # 0 => of[q[i]] < of[q[j]]

At(n, k) ==
  /\ n # 0
  /\ \/ k = 8 /\ Has(LineOf, c2s, n)
     \/ k = 7 /\ Has(LineOf, cmdCh, n)
     \/ k = 6 /\ n = reply.for
     \/ k = 5 /\ Has(ForOf, outCh, n)
     \/ k = 4 /\ n = wr.for
     \/ k = 3 /\ Has(PieceOf, s2c, n)
     \/ k = 2 /\ n = cin.for
     \/ k = 1 /\ Has(ForOf, respCh, n)
Way == 1 .. 8

(* A number further ahead is the lower one; but a frame may be in part on  *)
(* the connection (3) and with the writer (4).                             *)
Apart(j, k) == j < k /\ ~(j = 3 /\ k = 4)
InOrder ==
  \A j, k \in Way : \A m, n \in Nat : Apart(j, k) /\ At(m, j) /\ At(n, k) => m < n

(* Piece p comes before piece q: of an earlier frame, or earlier in it.    *)
Before(p, q) ==
  \/ p.frame.for = 0 \/ q.frame.for = 0 \/ p.frame.for < q.frame.for
  \/ p.frame.for = q.frame.for /\ p.part < q.part
PiecesInv ==
  /\ \A i, j \in DOMAIN s2c : i < j => Before(s2c[i], s2c[j])
  /\ \A i \in DOMAIN s2c : Before(s2c[i], Piece(wr, part["writer"] + 1))
WriterInv == wr = NoFrame /\ ~wrDead => part["writer"] = 0

(* Until the user has typed the line that ends the client, main writes     *)
(* nothing beside the writer.                                              *)
ExitInv ==
  /\ kind = "exit" => cpc \in {"await", "awaitLeave", "off"}
  /\ kind # "exit" => /\ \A i \in DOMAIN c2s : c2s[i].kind # "exit"
                      /\ \A i \in DOMAIN cmdCh : cmdCh[i].kind # "exit"
                      /\ spc # "bye"

WayInv == kind # "exit" =>
  /\ InOrder /\ PiecesInv
  /\ Rising(ForOf, outCh) /\ Rising(LineOf, cmdCh) /\ Rising(LineOf, c2s)

(* Numbers on the way have been typed and not been answered.               *)
AskedInv == /\ \A n \in Nat, k \in Way : At(n, k) => n <= asked
            /\ \A i \in DOMAIN answers : answers[i].for <= asked
FreshInv == cpc # "off" =>
  \A i \in DOMAIN answers, n \in Nat, k \in Way : At(n, k) => answers[i].for < n

-----------------------------------------------------------------------------
(* Numbers in queues.                                                      *)

LEMMA OfAre ==
  /\ ForOf \in [Frames -> Nat] /\ LineOf \in [Line -> Nat] /\ PieceOf \in [Pieces -> Nat]
  /\ \A f \in Frames : ForOf[f] = f.for
  /\ \A l \in Line : LineOf[l] = l.n /\ l.n # 0
  /\ \A p \in Pieces : PieceOf[p] = p.frame.for
<1>1. \A f \in Frames : f.for \in Nat BY FramesAre, RemoteAssumption
<1>2. \A l \in Line : l.n \in Nat /\ l.n # 0 BY RemoteAssumption DEF Line, Numbers
<1>3. \A p \in Pieces : p.frame.for \in Nat BY <1>1 DEF Pieces
<1> QED BY <1>1, <1>2, <1>3 DEF ForOf, LineOf, PieceOf

LEMMA HasNone == \A of, n : ~Has(of, <<>>, n)
BY DEF Has

LEMMA HasPut ==
  ASSUME NEW X, NEW of \in [X -> Nat], NEW q \in Seq(X), NEW x \in X
  PROVE  /\ \A n : Has(of, Append(q, x), n) => Has(of, q, n) \/ n = of[x]
         /\ /\ Rising(of, q)
            /\ \A n \in Nat : n # 0 /\ of[x] # 0 /\ Has(of, q, n) => n < of[x]
            => Rising(of, Append(q, x))
<1> DEFINE r == Append(q, x)  l == Len(q)
<1>1. /\ DOMAIN r = 1 .. l + 1 /\ l \in Nat /\ DOMAIN q = 1 .. l
      /\ r[l + 1] = x /\ \A i \in 1 .. l : r[i] = q[i]
  BY QueuePut
<1>2. \A i \in 1 .. l : of[q[i]] \in Nat BY <1>1
<1> HIDE DEF r, l
<1>3. ASSUME NEW n, Has(of, r, n) PROVE Has(of, q, n) \/ n = of[x]
  <2>1. PICK i \in 1 .. l + 1 : of[r[i]] = n BY <1>1, <1>3 DEF Has
  <2>2. CASE i = l + 1 BY <1>1, <2>1, <2>2
  <2>3. CASE i \in 1 .. l BY <1>1, <2>1, <2>3 DEF Has
  <2> QED BY <1>1, <2>1, <2>2, <2>3
<1>4. ASSUME Rising(of, q),
             \A n \in Nat : n # 0 /\ of[x] # 0 /\ Has(of, q, n) => n < of[x]
      PROVE  Rising(of, r)
  <2> SUFFICES ASSUME NEW i \in 1 .. l + 1, NEW j \in 1 .. l + 1, i < j,
                      of[r[i]] # 0, of[r[j]] # 0
               PROVE  of[r[i]] < of[r[j]]
    BY <1>1 DEF Rising
  <2>1. i \in 1 .. l BY <1>1
  <2>2. r[i] = q[i] /\ of[q[i]] \in Nat /\ Has(of, q, of[q[i]]) BY <1>1, <1>2, <2>1 DEF Has
  <2>3. CASE j = l + 1
    <3>1. r[j] = x BY <1>1, <2>3
    <3> QED BY <1>4, <2>2, <3>1
  <2>4. CASE j \in 1 .. l
    <3>1. r[j] = q[j] BY <1>1, <2>4
    <3> QED BY <1>1, <1>4, <2>1, <2>2, <2>4, <3>1 DEF Rising
  <2> QED BY <1>1, <2>3, <2>4
<1> QED BY <1>3, <1>4 DEF r

LEMMA HasTake ==
  ASSUME NEW X, NEW of \in [X -> Nat], NEW q \in Seq(X), q # <<>>
  PROVE  /\ Has(of, q, of[Head(q)]) /\ of[Head(q)] \in Nat
         /\ \A n : Has(of, Tail(q), n) => Has(of, q, n)
         /\ Rising(of, q) =>
              /\ Rising(of, Tail(q))
              /\ \A n : n # 0 /\ of[Head(q)] # 0 /\ Has(of, Tail(q), n) => of[Head(q)] < n
<1> DEFINE r == Tail(q)  l == Len(q)  h == Head(q)
<1>1. /\ h = q[1] /\ l \in Nat \ {0} /\ DOMAIN q = 1 .. l /\ h \in X
      /\ DOMAIN r = 1 .. l - 1 /\ \A i \in 1 .. l - 1 : r[i] = q[i + 1]
  BY QueueTake
<1>2. \A i \in 1 .. l : of[q[i]] \in Nat BY <1>1
<1> HIDE DEF r, l, h
<1>3. Has(of, q, of[h]) /\ of[h] \in Nat BY <1>1 DEF Has
<1>4. ASSUME NEW n, Has(of, r, n) PROVE \E i \in 2 .. l : of[q[i]] = n
  <2>1. PICK i \in 1 .. l - 1 : of[r[i]] = n BY <1>1, <1>4 DEF Has
  <2> QED BY <1>1, <2>1
<1>5. ASSUME NEW n, Has(of, r, n) PROVE Has(of, q, n)
  <2>1. PICK i \in 2 .. l : of[q[i]] = n BY <1>4, <1>5
  <2>2. i \in DOMAIN q BY <1>1
  <2> QED BY <2>1, <2>2 DEF Has
<1>6. ASSUME Rising(of, q)
      PROVE  /\ Rising(of, r)
             /\ \A n : n # 0 /\ of[h] # 0 /\ Has(of, r, n) => of[h] < n
  <2>1. ASSUME NEW i \in 1 .. l - 1, NEW j \in 1 .. l - 1, i < j, of[r[i]] # 0, of[r[j]] # 0
        PROVE  of[r[i]] < of[r[j]]
    <3>1. r[i] = q[i + 1] /\ r[j] = q[j + 1] BY <1>1
    <3>2. i + 1 \in 1 .. l /\ j + 1 \in 1 .. l /\ i + 1 < j + 1 BY <1>1, <2>1
    <3> QED BY <1>1, <1>6, <2>1, <3>1, <3>2 DEF Rising
  <2>2. ASSUME NEW n, n # 0, of[h] # 0, Has(of, r, n) PROVE of[h] < n
    <3>1. PICK i \in 2 .. l : of[q[i]] = n BY <1>4, <2>2
    <3>2. 1 \in 1 .. l /\ i \in 1 .. l /\ 1 < i BY <1>1
    <3> QED BY <1>1, <1>6, <2>2, <3>1, <3>2 DEF Rising
  <2> QED BY <1>1, <2>1, <2>2 DEF Rising
<1> QED BY <1>3, <1>5, <1>6 DEF r, h

LEMMA HasCut ==
  ASSUME NEW X, NEW of \in [X -> Nat], NEW q \in Seq(X), NEW m \in 0 .. Len(q)
  PROVE  /\ \A n : Has(of, SubSeq(q, 1, m), n) => Has(of, q, n)
         /\ Rising(of, q) => Rising(of, SubSeq(q, 1, m))
<1> DEFINE r == SubSeq(q, 1, m)
<1>1. DOMAIN r = 1 .. m /\ DOMAIN q = 1 .. Len(q) /\ \A i \in 1 .. m : r[i] = q[i]
  BY QueueCut
<1>2. m \in Nat /\ Len(q) \in Nat /\ m <= Len(q) OBVIOUS
<1> HIDE DEF r
<1>3. \A n : Has(of, r, n) => Has(of, q, n) BY <1>1, <1>2 DEF Has
<1>4. Rising(of, q) => Rising(of, r) BY <1>1, <1>2 DEF Rising
<1> QED BY <1>3, <1>4 DEF r
-----------------------------------------------------------------------------
(* Every step leaves numbers where they are or drops some (Kept), moves    *)
(* the one that is nearest forward (Moves), or adds the one just typed.    *)
Kept == \A n \in Nat, k \in Way : At(n, k)' => At(n, k)

Moves(v, to, from) ==
  /\ to \in Way /\ from \in Way /\ to < from /\ v \in Nat /\ At(v, from)
  /\ \A n \in Nat, k \in Way : At(n, k)' => At(n, k) \/ (n = v /\ k = to)
Nearest(v, to) ==
  \A n \in Nat, k \in Way : Apart(to, k) /\ At(n, k)' => v < n

Adds ==
  /\ asked' = asked + 1 /\ kind # "exit"
  /\ \A n \in Nat, k \in Way : At(n, k)' => At(n, k) \/ (n = asked' /\ k = 8)

(* What a step does to the numbers on the way.                             *)
WayStep ==
  \/ Kept /\ asked' = asked
  \/ /\ asked' = asked
     /\ \E v \in Nat, to, from \in Way :
          Moves(v, to, from) /\ (kind # "exit" /\ WayInv => Nearest(v, to))
  \/ Adds

(* A step that leaves all stages but those of S alone.                     *)
Others(S) ==
  /\ 8 \notin S => UNCHANGED c2s
  /\ 7 \notin S => UNCHANGED cmdCh
  /\ 6 \notin S => UNCHANGED reply
  /\ 5 \notin S => UNCHANGED outCh
  /\ 4 \notin S => UNCHANGED wr
  /\ 3 \notin S => UNCHANGED s2c
  /\ 2 \notin S => UNCHANGED cin
  /\ 1 \notin S => UNCHANGED respCh

LEMMA WaySame ==
  ASSUME UNCHANGED <<c2s, cmdCh, reply, outCh, wr, s2c, cin, respCh>>
  PROVE  Kept
BY DEF Kept, At

LEMMA OthersStay ==
  ASSUME NEW S, Others(S), NEW n, NEW k \in Way, k \notin S
  PROVE  At(n, k)' <=> At(n, k)
<1>1. k \in 1 .. 8 BY DEF Way
<1>2. CASE k = 1 BY <1>2 DEF At, Others
<1>3. CASE k = 2 BY <1>3 DEF At, Others
<1>4. CASE k = 3 BY <1>4 DEF At, Others
<1>5. CASE k = 4 BY <1>5 DEF At, Others
<1>6. CASE k = 5 BY <1>6 DEF At, Others
<1>7. CASE k = 6 BY <1>7 DEF At, Others
<1>8. CASE k = 7 BY <1>8 DEF At, Others
<1>9. CASE k = 8 BY <1>9 DEF At, Others
<1> QED BY <1>1, <1>2, <1>3, <1>4, <1>5, <1>6, <1>7, <1>8, <1>9

(* Of numbers in order, the first of its stage is below all those behind.  *)
LEMMA MoveKeeps ==
  ASSUME InOrder, NEW v \in Nat, NEW to \in Way, NEW from \in Way,
         Moves(v, to, from), Nearest(v, to)
  PROVE  InOrder'
<1> SUFFICES ASSUME NEW j \in Way, NEW k \in Way, NEW m \in Nat, NEW n \in Nat,
                    Apart(j, k), At(m, j)', At(n, k)'
             PROVE  m < n
  BY DEF InOrder
<1>1. (At(m, j) \/ (m = v /\ j = to)) /\ (At(n, k) \/ (n = v /\ k = to)) BY DEF Moves
<1>2. CASE At(m, j) /\ At(n, k) BY <1>2 DEF InOrder
<1>3. CASE m = v /\ j = to BY <1>3 DEF Nearest
<1>4. CASE At(m, j) /\ n = v /\ k = to
  <2>1. Apart(j, from) BY <1>4 DEF Moves, Apart, Way
  <2> QED BY <1>4, <2>1 DEF Moves, InOrder
<1> QED BY <1>1, <1>2, <1>3, <1>4

LEMMA OrderStep ==
  ASSUME TInv, AskedInv, WayInv, WayStep, kind # "exit"
  PROVE  InOrder'
<1>0. InOrder BY DEF WayInv
<1>1. CASE Kept BY <1>0, <1>1 DEF Kept, InOrder
<1>2. CASE \E v \in Nat, to, from \in Way :
             Moves(v, to, from) /\ (kind # "exit" /\ WayInv => Nearest(v, to))
  BY <1>0, <1>2, MoveKeeps
<1>3. CASE Adds
  <2> SUFFICES ASSUME NEW j \in Way, NEW k \in Way, NEW m \in Nat, NEW n \in Nat,
                      Apart(j, k), At(m, j)', At(n, k)'
               PROVE  m < n
    BY DEF InOrder
  <2>1. asked \in Nat /\ asked' = asked + 1 BY <1>3, RemoteAssumption DEF Adds, TInv, TypeOK
  <2>2. j # 8 BY DEF Apart, Way
  <2>3. At(m, j) /\ m <= asked BY <1>3, <2>2 DEF Adds, AskedInv
  <2>4. At(n, k) \/ n = asked' BY <1>3 DEF Adds
  <2> QED BY <1>0, <2>1, <2>3, <2>4 DEF InOrder
<1> QED BY <1>1, <1>2, <1>3 DEF WayStep

LEMMA FreshStep ==
  ASSUME TInv, AskedInv, FreshInv, WayStep, cpc' # "off" => cpc # "off",
         UNCHANGED answers
  PROVE  AskedInv' /\ FreshInv'
<1>1. asked \in Nat BY RemoteAssumption DEF TInv, TypeOK
<1>2. \A i \in DOMAIN answers : answers[i].for \in Nat
  <2>1. \A i \in DOMAIN answers : answers[i] \in Shown BY DEF TInv
  <2> QED BY <2>1, RemoteAssumption DEF Shown
<1>3. ASSUME NEW n \in Nat, NEW k \in Way, At(n, k)'
      PROVE  (\E j \in Way : At(n, j) /\ asked' >= asked) \/ (n = asked + 1 /\ asked' = n)
  <2>1. 8 \in Way BY DEF Way
  <2> QED BY <1>1, <1>3, <2>1 DEF WayStep, Kept, Moves, Adds
<1>4. asked' \in Nat /\ asked' >= asked BY <1>1 DEF WayStep, Adds
<1>5. AskedInv'
  <2>1. ASSUME NEW n \in Nat, NEW k \in Way, At(n, k)' PROVE n <= asked'
    BY <1>1, <1>3, <1>4, <2>1 DEF AskedInv
  <2>2. ASSUME NEW i \in DOMAIN answers PROVE answers[i].for <= asked'
    BY <1>1, <1>2, <1>4 DEF AskedInv
  <2> QED BY <2>1, <2>2 DEF AskedInv
<1>6. FreshInv'
  <2> SUFFICES ASSUME cpc # "off", NEW i \in DOMAIN answers, NEW n \in Nat, NEW k \in Way,
                      At(n, k)'
               PROVE  answers[i].for < n
    BY DEF FreshInv
  <2>1. CASE \E j \in Way : At(n, j) BY <2>1 DEF FreshInv
  <2>2. CASE n = asked + 1 BY <1>1, <1>2, <2>2 DEF AskedInv
  <2> QED BY <1>3, <2>1, <2>2
<1> QED BY <1>5, <1>6
LEMMA Stages ==
  /\ \A n : At(n, 8) <=> n # 0 /\ Has(LineOf, c2s, n)
  /\ \A n : At(n, 7) <=> n # 0 /\ Has(LineOf, cmdCh, n)
  /\ \A n : At(n, 6) <=> n # 0 /\ n = reply.for
  /\ \A n : At(n, 5) <=> n # 0 /\ Has(ForOf, outCh, n)
  /\ \A n : At(n, 4) <=> n # 0 /\ n = wr.for
  /\ \A n : At(n, 3) <=> n # 0 /\ Has(PieceOf, s2c, n)
  /\ \A n : At(n, 2) <=> n # 0 /\ n = cin.for
  /\ \A n : At(n, 1) <=> n # 0 /\ Has(ForOf, respCh, n)
BY DEF At

LEMMA StagesThen ==
  /\ \A n : At(n, 8)' <=> n # 0 /\ Has(LineOf, c2s', n)
  /\ \A n : At(n, 7)' <=> n # 0 /\ Has(LineOf, cmdCh', n)
  /\ \A n : At(n, 6)' <=> n # 0 /\ n = reply'.for
  /\ \A n : At(n, 5)' <=> n # 0 /\ Has(ForOf, outCh', n)
  /\ \A n : At(n, 4)' <=> n # 0 /\ n = wr'.for
  /\ \A n : At(n, 3)' <=> n # 0 /\ Has(PieceOf, s2c', n)
  /\ \A n : At(n, 2)' <=> n # 0 /\ n = cin'.for
  /\ \A n : At(n, 1)' <=> n # 0 /\ Has(ForOf, respCh', n)
BY DEF At

(* A step within one stage, and one between two stages.                    *)
LEMMA StageDrops ==
  ASSUME NEW s \in Way, Others({s}), \A n \in Nat : At(n, s)' => At(n, s)
  PROVE  Kept
BY OthersStay DEF Kept

LEMMA StagesDrop ==
  ASSUME NEW s \in Way, NEW t \in Way, Others({s, t}),
         \A n \in Nat : At(n, s)' => At(n, s), \A n \in Nat : At(n, t)' => At(n, t)
  PROVE  Kept
BY OthersStay DEF Kept

LEMMA StageMoves ==
  ASSUME NEW to \in Way, NEW from \in Way, to < from, Others({to, from}),
         NEW v \in Nat, At(v, from),
         \A n \in Nat : At(n, from)' => At(n, from),
         \A n \in Nat : At(n, to)' => At(n, to) \/ n = v
  PROVE  Moves(v, to, from)
BY OthersStay DEF Moves

(* Nothing stands between the stage a number leaves and the one it enters. *)
LEMMA StageNearest ==
  ASSUME WayInv, kind # "exit", NEW to \in Way, NEW from \in Way, Others({to, from}),
         NEW v \in Nat, At(v, from), from = to + 1, from # 3,
         \A n \in Nat : At(n, from)' => v < n \/ ~Apart(to, from)
  PROVE  Nearest(v, to)
<1> SUFFICES ASSUME NEW n \in Nat, NEW k \in Way, Apart(to, k), At(n, k)' PROVE v < n
  BY DEF Nearest
<1>1. CASE k = from BY <1>1
<1>2. CASE k # from
  <2>1. k \notin {to, from} /\ Apart(from, k) BY <1>2 DEF Apart, Way
  <2>2. At(n, k) BY <2>1, OthersStay
  <2> QED BY <2>1, <2>2 DEF WayInv, InOrder
<1> QED BY <1>1, <1>2
-----------------------------------------------------------------------------
(* The actions, one by one.                                                *)

LEMMA TypesOf ==
  ASSUME TInv
  PROVE  /\ ForOf \in [Frames -> Nat] /\ LineOf \in [Line -> Nat] /\ PieceOf \in [Pieces -> Nat]
         /\ respCh \in Seq(Frames) /\ outCh \in Seq(Frames) /\ s2c \in Seq(Pieces)
         /\ c2s \in Seq(Line) /\ cmdCh \in Seq(Line)
         /\ cin \in Frames /\ wr \in Frames /\ reply \in Frames
         /\ cin.for \in Nat /\ wr.for \in Nat /\ reply.for \in Nat
         /\ asked \in Nat
<1>1. cin \in Frames /\ wr \in Frames /\ reply \in Frames /\ asked \in Nat
  BY RemoteAssumption DEF TInv, TypeOK
<1>2. \A f \in Frames : f.for \in Nat BY OfAre
<1> QED BY <1>1, <1>2, OfAre DEF TInv

LEMMA TypeAdds ==
  ASSUME TInv, NEW k \in MenuKinds \cup SessionKinds, Type(k), kind # "exit", Others({8})
  PROVE  Adds
<1>1. /\ asked' = asked + 1 /\ c2s' = Append(c2s, [n |-> asked + 1, kind |-> k])
      /\ [n |-> asked + 1, kind |-> k] \in Line
  BY Typed
<1>2. \A n : Has(LineOf, c2s', n) => Has(LineOf, c2s, n) \/ n = asked'
  <2> DEFINE l == [n |-> asked + 1, kind |-> k]
  <2>1. LineOf[l] = asked + 1 BY <1>1, OfAre
  <2> HIDE DEF l
  <2>2. /\ l \in Line /\ c2s \in Seq(Line) /\ LineOf \in [Line -> Nat]
        /\ c2s' = Append(c2s, l) /\ asked' = asked + 1
    BY <1>1, TypesOf DEF l
  <2> QED BY ONLY <2>1, <2>2, HasPut
<1>3. 8 \in Way BY DEF Way
<1>4. \A n \in Nat : At(n, 8)' => At(n, 8) \/ n = asked' BY <1>2, Stages, StagesThen
<1> QED BY <1>1, <1>3, <1>4, OthersStay DEF Adds

LEMMA SendNothing ==
  ASSUME TInv, NEW f \in Frames, f.for = 0, Out(f)
  PROVE  \A n \in Nat : At(n, 5)' => At(n, 5)
<1>1. outCh' = Append(outCh, f) BY Sent
<1>2. \A n : Has(ForOf, outCh', n) => Has(ForOf, outCh, n) \/ n = ForOf[f]
  <2>1. f \in Frames /\ outCh \in Seq(Frames) /\ ForOf \in [Frames -> Nat] BY TypesOf
  <2> QED BY ONLY <1>1, <2>1, HasPut
<1>3. ForOf[f] = 0 BY OfAre
<1> QED BY <1>2, <1>3, Stages, StagesThen

LEMMA LeaveWay == ASSUME TInv, Leave PROVE WayStep
<1>1. PICK m \in 0 .. Len(c2s) : c2s' = SubSeq(c2s, 1, m) BY DEF Leave
<1>2. \A n : Has(LineOf, c2s', n) => Has(LineOf, c2s, n) BY <1>1, HasCut, TypesOf
<1>3. \A n \in Nat : At(n, 8)' => At(n, 8) BY <1>2, Stages, StagesThen
<1>4. Others({8}) BY DEF Leave, Others, chVars, srvVars, wrVars
<1>5. 8 \in Way BY DEF Way
<1> QED BY <1>3, <1>4, <1>5, StageDrops DEF WayStep, Leave

LEMMA ShowWay == ASSUME TInv, ShowResponse PROVE Kept
<1>1. respCh # <<>> /\ respCh' = Tail(respCh) BY DEF ShowResponse
<1>2. \A n : Has(ForOf, respCh', n) => Has(ForOf, respCh, n) BY <1>1, HasTake, TypesOf
<1>3. \A n \in Nat : At(n, 1)' => At(n, 1) BY <1>2, Stages, StagesThen
<1>4. Others({1}) BY DEF ShowResponse, Others, srvVars, wrVars
<1>5. 1 \in Way BY DEF Way
<1> QED BY <1>3, <1>4, <1>5, StageDrops

(* The pieces of a frame read whole are its numbers' only ones on the      *)
(* connection, and its writer is done with it.                             *)
LEMMA ReadWay == ASSUME TInv, ReadTypedFrame PROVE WayStep
<1>0. Parts \in Nat \ {0} BY RemoteAssumption
<1>1. /\ s2c' = SubSeq(s2c, Parts + 1, Len(s2c)) /\ Len(s2c) >= Parts /\ cin = NoFrame
      /\ UNCHANGED <<asked, kind>> /\ Others({2, 3})
  BY DEF ReadTypedFrame, Others, cliVars, srvVars, wrVars
<1> DEFINE l == Len(s2c)
<1>2. /\ l \in Nat /\ Parts \in 0 .. l /\ DOMAIN s2c = 1 .. l
      /\ DOMAIN s2c' = 1 .. l - Parts /\ \A i \in 1 .. l - Parts : s2c'[i] = s2c[i + Parts]
  <2>1. s2c \in Seq(Pieces) BY TypesOf
  <2>2. Parts \in 0 .. Len(s2c) BY <1>0, <1>1, <2>1
  <2> QED BY <1>1, <2>1, <2>2, QueueCut
<1> HIDE DEF l
<1>3. \A i \in 1 .. l - Parts : i + Parts \in 1 .. l BY <1>0, <1>2
<1>4. ASSUME NEW n, Has(PieceOf, s2c', n)
      PROVE  \E i \in Parts + 1 .. l : PieceOf[s2c[i]] = n
  <2>1. PICK i \in 1 .. l - Parts : PieceOf[s2c'[i]] = n BY <1>2, <1>4 DEF Has
  <2>2. i + Parts \in Parts + 1 .. l BY <1>0, <1>2
  <2> QED BY <1>2, <2>1, <2>2
<1>5. \A n \in Nat : At(n, 3)' => At(n, 3)
  <2>1. \A i \in Parts + 1 .. l : i \in DOMAIN s2c BY <1>0, <1>2
  <2>2. \A n : Has(PieceOf, s2c', n) => Has(PieceOf, s2c, n) BY <1>4, <2>1 DEF Has
  <2> QED BY <2>2, Stages, StagesThen
<1>6. 2 \in Way /\ 3 \in Way BY DEF Way
<1>7. CASE cin' = cin
  <2>1. \A n \in Nat : At(n, 2)' => At(n, 2) BY <1>7, Stages, StagesThen
  <2> QED BY <1>1, <1>5, <1>6, <2>1, StagesDrop DEF WayStep
<1> DEFINE f == s2c[1].frame  v == f.for
<1>8. s2c[1] \in Pieces /\ f \in Frames /\ v \in Nat
  <2>1. 1 \in 1 .. l BY <1>0, <1>2
  <2>2. s2c[1] \in Pieces BY <1>2, <2>1, TypesOf
  <2>3. f \in Frames BY <2>2 DEF Pieces
  <2> QED BY <2>2, <2>3, OfAre
<1>9. CASE cin' # cin
  <2>1. cin' = f /\ \A k \in 1 .. Parts : s2c[k] = Piece(f, k)
    BY <1>9 DEF ReadTypedFrame
  <2>2. 1 \in 1 .. l /\ Parts \in 1 .. l /\ Parts \in 1 .. Parts BY <1>0, <1>2
  <2>3. PieceOf[s2c[1]] = v BY <1>8, OfAre
  <2>4. Has(PieceOf, s2c, v) BY <1>2, <2>2, <2>3 DEF Has
  <2> HIDE DEF f
  <2>5. s2c[Parts].frame.for = v /\ s2c[Parts].part = Parts
    <3>1. s2c[Parts] = Piece(f, Parts) BY <2>1, <2>2
    <3> QED BY ONLY <3>1 DEF Piece
  <2> HIDE DEF v
  <2>6. \A n \in Nat : At(n, 2)' => At(n, 2) \/ n = v
    BY <2>1, Stages, StagesThen DEF v
  <2>7. CASE v = 0
    <3>1. \A n \in Nat : At(n, 2)' => At(n, 2) BY <2>6, <2>7, StagesThen
    <3> QED BY <1>1, <1>5, <1>6, <3>1, StagesDrop DEF WayStep
  <2>8. CASE v # 0
    <3>1. At(v, 3) BY <2>4, <2>8, Stages
    <3>2. Moves(v, 2, 3) BY <1>1, <1>5, <1>6, <1>8, <2>6, <3>1, StageMoves DEF v
    <3>3. ASSUME WayInv, kind # "exit" PROVE Nearest(v, 2)
      <4> SUFFICES ASSUME NEW n \in Nat, NEW k \in Way, Apart(2, k), At(n, k)' PROVE v < n
        BY DEF Nearest
      <4>0. PiecesInv /\ InOrder BY <3>3 DEF WayInv
      <4>1. CASE k = 3
        <5>1. n # 0 /\ Has(PieceOf, s2c', n) BY <4>1, StagesThen
        <5>2. PICK i \in Parts + 1 .. l : PieceOf[s2c[i]] = n BY <1>4, <5>1
        <5>3. i \in 1 .. l /\ Parts < i BY <1>0, <1>2
        <5>4. s2c[i] \in Pieces BY <1>2, <5>3, TypesOf
        <5>5. s2c[i].frame.for = n /\ s2c[i].part \in 1 .. Parts
          BY <5>2, <5>4, OfAre DEF Pieces
        <5>6. Before(s2c[Parts], s2c[i]) BY <1>2, <2>2, <4>0, <5>3 DEF PiecesInv
        <5> QED BY <1>0, <2>5, <2>8, <5>1, <5>5, <5>6 DEF Before
      <4>2. CASE k = 4
        <5>1. At(n, 4) BY <1>1, <4>2, OthersStay
        <5>2. n = wr.for /\ n # 0 BY <5>1, Stages
        <5>3. Before(s2c[Parts], Piece(wr, part["writer"] + 1)) BY <1>2, <2>2, <4>0 DEF PiecesInv
        <5>4. part["writer"] \in 0 .. Parts - 1 BY DEF TInv
        <5>5. Piece(wr, part["writer"] + 1).frame.for = n
              /\ Piece(wr, part["writer"] + 1).part = part["writer"] + 1
          BY <5>2 DEF Piece
        <5> QED BY <1>0, <2>5, <2>8, <5>2, <5>3, <5>4, <5>5 DEF Before
      <4>3. CASE k \notin {3, 4}
        <5>1. k \notin {2, 3} /\ Apart(3, k) BY <4>3 DEF Apart, Way
        <5>2. At(n, k) BY <1>1, <5>1, OthersStay
        <5> QED BY <1>6, <1>8, <3>1, <4>0, <5>1, <5>2 DEF InOrder, v
      <4> QED BY <4>1, <4>2, <4>3
    <3>4. v \in Nat /\ asked' = asked BY <1>1, <1>8 DEF v
    <3> QED BY <1>6, <3>2, <3>3, <3>4 DEF WayStep
  <2> QED BY <2>7, <2>8
<1> QED BY <1>7, <1>9

LEMMA RouteWay == ASSUME TInv, Route PROVE WayStep
<1>1. /\ cin' = NoFrame /\ asked' = asked /\ Others({1, 2})
      /\ respCh' = respCh \/ (respCh = <<>> /\ respCh' = <<cin>>)
  BY DEF Route, Others, cliVars, srvVars, wrVars
<1>2. 1 \in Way /\ 2 \in Way BY DEF Way
<1>3. \A n \in Nat : ~At(n, 2)' BY <1>1, FramesAre, StagesThen
<1>4. \A n \in Nat : At(n, 1)' => At(n, 1) \/ n = cin.for
  <2>1. CASE respCh' = respCh BY <2>1, Stages, StagesThen
  <2>2. CASE respCh = <<>> /\ respCh' = <<cin>>
    <3>1. \A n : Has(ForOf, <<cin>>, n) => n = ForOf[cin] BY DEF Has
    <3>2. ForOf[cin] = cin.for BY TypesOf, OfAre
    <3> QED BY <2>2, <3>1, <3>2, StagesThen
  <2> QED BY <1>1, <2>1, <2>2
<1>5. CASE cin.for = 0
  <2>1. \A n \in Nat : At(n, 1)' => At(n, 1) BY <1>4, <1>5, StagesThen
  <2> QED BY <1>1, <1>2, <1>3, <2>1, StagesDrop DEF WayStep
<1>6. CASE cin.for # 0
  <2>1. cin.for \in Nat /\ At(cin.for, 2) BY <1>6, TypesOf, Stages
  <2>2. Moves(cin.for, 1, 2) BY <1>1, <1>2, <1>3, <1>4, <2>1, StageMoves
  <2>3. WayInv /\ kind # "exit" => Nearest(cin.for, 1)
    BY <1>1, <1>2, <1>3, <2>1, StageNearest
  <2> QED BY <1>1, <1>2, <2>1, <2>2, <2>3 DEF WayStep
<1> QED BY <1>5, <1>6
LEMMA CommandWay == ASSUME TInv, ReadCommand PROVE WayStep
<1> DEFINE l == Head(c2s)  v == LineOf[l]
<1>1. /\ c2s # <<>> /\ c2s' = Tail(c2s) /\ cmdCh' = Append(cmdCh, l) /\ asked' = asked
      /\ Others({7, 8})
  BY DEF ReadCommand, Others, cliVars, chVars, srvVars, wrVars
<1>2. c2s \in Seq(Line) /\ cmdCh \in Seq(Line) /\ LineOf \in [Line -> Nat] BY TypesOf
<1>3. l \in Line BY <1>1, <1>2, QueueTake
<1>4. v \in Nat /\ v # 0 BY <1>3, OfAre
<1> HIDE DEF l, v
<1>5. /\ Has(LineOf, c2s, v) /\ \A n : Has(LineOf, c2s', n) => Has(LineOf, c2s, n)
      /\ Rising(LineOf, c2s) =>
           \A n : n # 0 /\ v # 0 /\ Has(LineOf, c2s', n) => v < n
  BY ONLY <1>1, <1>2, HasTake DEF l, v
<1>6. \A n : Has(LineOf, cmdCh', n) => Has(LineOf, cmdCh, n) \/ n = v
  BY ONLY <1>1, <1>2, <1>3, HasPut DEF v
<1>7. /\ At(v, 8) /\ \A n \in Nat : At(n, 8)' => At(n, 8)
      /\ \A n \in Nat : At(n, 7)' => At(n, 7) \/ n = v
  BY <1>4, <1>5, <1>6, Stages, StagesThen
<1>8. 7 \in Way /\ 8 \in Way BY DEF Way
<1>9. Moves(v, 7, 8) BY <1>1, <1>4, <1>7, <1>8, StageMoves
<1>10. ASSUME WayInv, kind # "exit" PROVE Nearest(v, 7)
  <2>1. \A n \in Nat : At(n, 8)' => v < n
    BY <1>4, <1>5, <1>10, StagesThen DEF WayInv
  <2> QED BY <1>1, <1>4, <1>7, <1>8, <1>10, <2>1, StageNearest
<1> QED BY <1>1, <1>4, <1>8, <1>9, <1>10 DEF WayStep

LEMMA TakeWay == ASSUME TInv, WriterTake PROVE WayStep
<1> DEFINE f == Head(outCh)  v == ForOf[f]
<1>1. /\ outCh # <<>> /\ outCh' = Tail(outCh) /\ wr' = f /\ asked' = asked
      /\ wr = NoFrame /\ Others({4, 5})
  BY DEF WriterTake, Others, cliVars, chVars, srvVars, wrVars
<1>2. outCh \in Seq(Frames) /\ ForOf \in [Frames -> Nat] BY TypesOf
<1>3. f \in Frames BY <1>1, <1>2, QueueTake
<1>4. v \in Nat /\ v = f.for BY <1>3, OfAre
<1> HIDE DEF f, v
<1>5. /\ Has(ForOf, outCh, v) /\ \A n : Has(ForOf, outCh', n) => Has(ForOf, outCh, n)
      /\ Rising(ForOf, outCh) =>
           \A n : n # 0 /\ v # 0 /\ Has(ForOf, outCh', n) => v < n
  BY ONLY <1>1, <1>2, HasTake DEF f, v
<1>6. /\ \A n \in Nat : At(n, 5)' => At(n, 5)
      /\ \A n \in Nat : At(n, 4)' => n = v
  BY <1>1, <1>4, <1>5, Stages, StagesThen
<1>7. 4 \in Way /\ 5 \in Way BY DEF Way
<1>8. CASE v = 0
  <2>1. \A n \in Nat : At(n, 4)' => At(n, 4) BY <1>6, <1>8, StagesThen
  <2> QED BY <1>1, <1>6, <1>7, <2>1, StagesDrop DEF WayStep
<1>9. CASE v # 0
  <2>1. At(v, 5) BY <1>5, <1>9, Stages
  <2>2. Moves(v, 4, 5) BY <1>1, <1>4, <1>6, <1>7, <2>1, StageMoves
  <2>3. ASSUME WayInv, kind # "exit" PROVE Nearest(v, 4)
    <3>1. \A n \in Nat : At(n, 5)' => v < n BY <1>5, <1>9, <2>3, StagesThen DEF WayInv
    <3> QED BY <1>1, <1>4, <1>7, <2>1, <2>3, <3>1, StageNearest
  <2> QED BY <1>1, <1>4, <1>7, <2>2, <2>3 DEF WayStep
<1> QED BY <1>8, <1>9

LEMMA PieceWay ==
  ASSUME TInv, NEW who \in {"writer", "main"}, NEW f \in Frames, WritePart(who, f)
  PROVE  \A n \in Nat : At(n, 3)' => At(n, 3) \/ n = f.for
<1> DEFINE p == Piece(f, part[who] + 1)
<1>1. p \in Pieces /\ s2c' = Append(s2c, p) BY PartWritten
<1>2. s2c \in Seq(Pieces) /\ PieceOf \in [Pieces -> Nat] BY TypesOf
<1>3. PieceOf[p] = f.for
  <2>1. p.frame = f BY DEF Piece
  <2> HIDE DEF p
  <2> QED BY <1>1, <2>1, OfAre
<1> HIDE DEF p
<1>4. \A n : Has(PieceOf, s2c', n) => Has(PieceOf, s2c, n) \/ n = f.for
  BY ONLY <1>1, <1>2, <1>3, HasPut
<1> QED BY <1>4, Stages, StagesThen

LEMMA WriteWay == ASSUME TInv, WriterPart PROVE WayStep
<1>1. /\ WritePart("writer", wr) /\ asked' = asked /\ Others({3, 4})
      /\ wr' = NoFrame \/ wr' = wr
  BY DEF WriterPart, Others, cliVars, chVars, srvVars, wrVars
<1>2. wr \in Frames /\ wr.for \in Nat BY TypesOf
<1>3. \A n \in Nat : At(n, 3)' => At(n, 3) \/ n = wr.for BY <1>1, <1>2, PieceWay
<1>4. \A n \in Nat : At(n, 4)' => At(n, 4) BY <1>1, FramesAre, Stages, StagesThen
<1>5. 3 \in Way /\ 4 \in Way BY DEF Way
<1>6. CASE wr.for = 0
  <2>1. \A n \in Nat : At(n, 3)' => At(n, 3) BY <1>3, <1>6, StagesThen
  <2> QED BY <1>1, <1>4, <1>5, <2>1, StagesDrop DEF WayStep
<1>7. CASE wr.for # 0
  <2>1. At(wr.for, 4) BY <1>7, Stages
  <2>2. Moves(wr.for, 3, 4) BY <1>1, <1>2, <1>3, <1>4, <1>5, <2>1, StageMoves
  <2>3. ~Apart(3, 4) BY DEF Apart
  <2>4. WayInv /\ kind # "exit" => Nearest(wr.for, 3)
    BY <1>1, <1>2, <1>5, <2>1, <2>3, StageNearest
  <2> QED BY <1>1, <1>2, <1>5, <2>2, <2>4 DEF WayStep
<1> QED BY <1>6, <1>7

(* A line becomes a reply, or is dropped.                                  *)
LEMMA LineWay ==
  ASSUME TInv, cmdCh # <<>>, cmdCh' = Tail(cmdCh), Others({6, 7}), asked' = asked,
         reply' = NoFrame \/ reply'.for = Head(cmdCh).n
  PROVE  WayStep
<1> DEFINE l == Head(cmdCh)  v == LineOf[l]
<1>1. cmdCh \in Seq(Line) /\ LineOf \in [Line -> Nat] BY TypesOf
<1>2. l \in Line BY <1>1, QueueTake
<1>3. v \in Nat /\ v # 0 /\ v = l.n BY <1>2, OfAre
<1>4. \A n \in Nat : At(n, 6)' => n = v BY <1>3, FramesAre, StagesThen
<1> HIDE DEF l, v
<1>5. /\ Has(LineOf, cmdCh, v) /\ \A n : Has(LineOf, cmdCh', n) => Has(LineOf, cmdCh, n)
      /\ Rising(LineOf, cmdCh) =>
           \A n : n # 0 /\ v # 0 /\ Has(LineOf, cmdCh', n) => v < n
  BY ONLY cmdCh # <<>>, cmdCh' = Tail(cmdCh), <1>1, HasTake DEF l, v
<1>6. At(v, 7) /\ \A n \in Nat : At(n, 7)' => At(n, 7)
  BY <1>3, <1>5, Stages, StagesThen
<1>7. 6 \in Way /\ 7 \in Way BY DEF Way
<1>8. Moves(v, 6, 7) BY <1>3, <1>4, <1>6, <1>7, StageMoves
<1>9. ASSUME WayInv, kind # "exit" PROVE Nearest(v, 6)
  <2>1. \A n \in Nat : At(n, 7)' => v < n
    BY <1>3, <1>5, <1>9, StagesThen DEF WayInv
  <2> QED BY <1>3, <1>6, <1>7, <1>9, <2>1, StageNearest
<1> QED BY <1>3, <1>7, <1>8, <1>9 DEF WayStep

LEMMA ReplyWay == ASSUME TInv, SendReply PROVE WayStep
<1>1. /\ Out(reply) /\ reply' = NoFrame /\ asked' = asked /\ Others({5, 6})
  BY DEF SendReply, Others, cliVars, chVars, srvVars, wrVars
<1>2. /\ reply \in Frames /\ reply.for \in Nat /\ ForOf[reply] = reply.for
      /\ outCh \in Seq(Frames) /\ ForOf \in [Frames -> Nat]
  BY TypesOf, OfAre
<1>3. outCh' = Append(outCh, reply) BY <1>1 DEF Out
<1>4. \A n : Has(ForOf, outCh', n) => Has(ForOf, outCh, n) \/ n = reply.for
  BY ONLY <1>2, <1>3, HasPut
<1>5. /\ \A n \in Nat : At(n, 5)' => At(n, 5) \/ n = reply.for
      /\ \A n \in Nat : ~At(n, 6)'
  BY <1>1, <1>4, FramesAre, Stages, StagesThen
<1>6. 5 \in Way /\ 6 \in Way BY DEF Way
<1>7. CASE reply.for = 0
  <2>1. \A n \in Nat : At(n, 5)' => At(n, 5) BY <1>5, <1>7, StagesThen
  <2> QED BY <1>1, <1>5, <1>6, <2>1, StagesDrop DEF WayStep
<1>8. CASE reply.for # 0
  <2>1. At(reply.for, 6) BY <1>8, Stages
  <2>2. Moves(reply.for, 5, 6) BY <1>1, <1>2, <1>5, <1>6, <2>1, StageMoves
  <2>3. WayInv /\ kind # "exit" => Nearest(reply.for, 5)
    BY <1>1, <1>2, <1>5, <1>6, <2>1, StageNearest
  <2> QED BY <1>1, <1>2, <1>6, <2>2, <2>3 DEF WayStep
<1> QED BY <1>7, <1>8

(* "Bye." is the last response: the user types nothing after exit.         *)
LEMMA ByeWay == ASSUME TInv, ExitInv, Bye PROVE WayStep
<1>1. kind = "exit" /\ asked' = asked /\ Others({3})
  BY DEF ExitInv, Bye, Others, cliVars, chVars, wrVars
<1>2. 3 \in Way /\ 6 \in Way BY DEF Way
<1>3. reply \in Frames /\ reply.for \in Nat BY TypesOf
<1>4. CASE s2c' = s2c
  <2>1. \A n \in Nat : At(n, 3)' => At(n, 3) BY <1>4, Stages, StagesThen
  <2> QED BY <1>1, <1>2, <2>1, StageDrops DEF WayStep
<1>5. CASE WritePart("main", reply)
  <2>1. \A n \in Nat : At(n, 3)' => At(n, 3) \/ n = reply.for BY <1>3, <1>5, PieceWay
  <2>2. CASE reply.for = 0
    <3>1. \A n \in Nat : At(n, 3)' => At(n, 3) BY <2>1, <2>2, StagesThen
    <3> QED BY <1>1, <1>2, <3>1, StageDrops DEF WayStep
  <2>3. CASE reply.for # 0
    <3>1. At(reply.for, 6) BY <2>3, Stages
    <3>2. Moves(reply.for, 3, 6) BY <1>1, <1>2, <1>3, <2>1, <3>1, OthersStay DEF Moves
    <3> QED BY <1>1, <1>2, <1>3, <3>2 DEF WayStep
  <2> QED BY <2>2, <2>3
<1> QED BY <1>4, <1>5 DEF Bye

LEMMA WayMoves == ASSUME TInv, ExitInv, [Next]_vars PROVE WayStep
<1>1. CASE UNCHANGED vars
  BY <1>1, WaySame DEF WayStep, vars, cliVars, chVars, srvVars, wrVars
<1>2. CASE MenuType
  <2>1. kind # "exit" /\ Others({8})
    BY <1>2 DEF ExitInv, MenuType, Others, chVars, srvVars, wrVars
  <2>2. PICK k \in Lines \cap MenuKinds : Type(k) BY <1>2 DEF MenuType
  <2> QED BY <2>1, <2>2, TypeAdds DEF WayStep
<1>3. CASE SessionType
  <2>1. kind # "exit" /\ Others({8})
    BY <1>3 DEF ExitInv, SessionType, Others, chVars, srvVars, wrVars
  <2>2. PICK k \in Lines \cap SessionKinds : Type(k) BY <1>3 DEF SessionType
  <2> QED BY <2>1, <2>2, TypeAdds DEF WayStep
<1>4. CASE Leave BY <1>4, LeaveWay
<1>5. CASE ShowResponse BY <1>5, ShowWay DEF WayStep, ShowResponse
<1>6. CASE SessionEof \/ EnterSession \/ PrintEvent \/ ClientGone
  BY <1>6, WaySame DEF WayStep, SessionEof, EnterSession, PrintEvent, ClientGone,
                       cliVars, chVars, srvVars, wrVars
<1>7. CASE SessionGone \/ RxDone \/ SessionDies \/ \E n \in Numbers : RxDeath(n) \/ RxStop(n)
  BY <1>7, WaySame DEF WayStep, SessionGone, RxDone, SessionDies, RxDeath, RxStop,
                       cliVars, chVars, srvVars, wrVars
<1>8. CASE PushEvent \/ \E n \in Numbers : RxClosed(n) \/ RxReturn(n)
  <2>1. PICK f \in {Frame("E", 0), Frame("R", 0)} : Out(f)
    BY <1>8 DEF PushEvent, RxClosed, RxReturn
  <2>2. f \in Frames /\ f.for = 0
    <3>1. 0 \in 0 .. MaxLines BY RemoteAssumption
    <3> QED BY <3>1, FramesAre
  <2>3. \A n \in Nat : At(n, 5)' => At(n, 5) BY <2>1, <2>2, SendNothing
  <2>4. Others({5}) /\ asked' = asked
    BY <1>8 DEF PushEvent, RxClosed, RxReturn, Others, cliVars, chVars, srvVars, wrVars
  <2>5. 5 \in Way BY DEF Way
  <2> QED BY <2>3, <2>4, <2>5, StageDrops DEF WayStep
<1>9. CASE ReadTypedFrame \/ Route BY <1>9, ReadWay, RouteWay
<1>10. CASE ReadCommand \/ WriterTake \/ WriterPart
  BY <1>10, CommandWay, TakeWay, WriteWay
<1>11. CASE WriterFail
  <2>1. \A n \in Nat : At(n, 4)' => At(n, 4) BY <1>11, FramesAre, StagesThen DEF WriterFail
  <2>2. Others({4}) /\ asked' = asked
    BY <1>11 DEF WriterFail, Others, cliVars, chVars, srvVars, wrVars
  <2>3. 4 \in Way BY DEF Way
  <2> QED BY <2>1, <2>2, <2>3, StageDrops DEF WayStep
<1>12. CASE Dispatch
  <2>1. /\ cmdCh # <<>> /\ cmdCh' = Tail(cmdCh) /\ asked' = asked /\ Others({6, 7})
    BY <1>12 DEF Dispatch, Others, cliVars, chVars, wrVars
  <2>2. \/ reply' = NoFrame
        \/ \E t \in {"R", "S"} : reply' = Frame(t, Head(cmdCh).n)
    BY <1>12 DEF Dispatch, ReplyTo
  <2>3. reply' = NoFrame \/ reply'.for = Head(cmdCh).n BY <2>2, FramesAre
  <2> QED BY <2>1, <2>3, LineWay
<1>13. CASE LeaveLine
  <2>1. /\ cmdCh # <<>> /\ cmdCh' = Tail(cmdCh) /\ asked' = asked /\ Others({6, 7})
        /\ reply' = Frame("R", Head(cmdCh).n)
    BY <1>13 DEF LeaveLine, Others, cliVars, chVars, wrVars
  <2>2. reply'.for = Head(cmdCh).n BY <2>1, FramesAre
  <2> QED BY <2>1, <2>2, LineWay
<1>14. CASE SendReply \/ Bye BY <1>14, ReplyWay, ByeWay
<1>15. CASE PassLine
  <2>1. /\ cmdCh # <<>> /\ cmdCh' = Tail(cmdCh) /\ asked' = asked /\ Others({5, 7})
        /\ Out(Frame("E", 0)) \/ UNCHANGED outCh
    BY <1>15 DEF PassLine, Others, cliVars, chVars, srvVars, wrVars
  <2>2. \A n \in Nat : At(n, 5)' => At(n, 5)
    <3>1. CASE UNCHANGED outCh BY <3>1, Stages, StagesThen
    <3>2. CASE Out(Frame("E", 0)) BY <3>2, FramesAre, SendNothing
    <3> QED BY <2>1, <3>1, <3>2
  <2>3. \A n : Has(LineOf, cmdCh', n) => Has(LineOf, cmdCh, n) BY <2>1, TypesOf, HasTake
  <2>4. \A n \in Nat : At(n, 7)' => At(n, 7) BY <2>3, Stages, StagesThen
  <2>5. 5 \in Way /\ 7 \in Way BY DEF Way
  <2> QED BY <2>1, <2>2, <2>4, <2>5, StagesDrop DEF WayStep
<1> QED
  BY <1>1, <1>2, <1>3, <1>4, <1>5, <1>6, <1>7, <1>8, <1>9, <1>10, <1>11, <1>12, <1>13,
     <1>14, <1>15
  DEF Next, User, Show, Reader, Writer, Main, Rx
-----------------------------------------------------------------------------
(* The queues, the pieces and the answers.                                 *)

LEMMA ExitStep == ASSUME TInv, ExitInv, [Next]_vars PROVE ExitInv'
<1>1. /\ c2s \in Seq(Line) /\ cmdCh \in Seq(Line) BY DEF TInv
<1>2. CASE UNCHANGED <<kind, cpc, c2s, cmdCh, spc>> BY <1>2 DEF ExitInv
<1>3. ASSUME NEW k \in MenuKinds \cup SessionKinds, Type(k), cpc \in {"menu", "session"},
             cpc' \in {"await", "awaitLeave"} \/ k # "exit", UNCHANGED <<cmdCh, spc>>
      PROVE  ExitInv'
  <2>1. kind # "exit" BY <1>3 DEF ExitInv
  <2> DEFINE l == [n |-> asked + 1, kind |-> k]
  <2>2. l \in Line /\ c2s' = Append(c2s, l) /\ kind' = k /\ l.kind = k BY <1>3, Typed
  <2> HIDE DEF l
  <2>3. ASSUME k # "exit", NEW i \in DOMAIN c2s' PROVE c2s'[i].kind # "exit"
    <3>1. i \in 1 .. Len(c2s) + 1 /\ Len(c2s) \in Nat /\ DOMAIN c2s = 1 .. Len(c2s)
          /\ c2s'[Len(c2s) + 1] = l /\ \A j \in 1 .. Len(c2s) : c2s'[j] = c2s[j]
      BY <1>1, <2>2, <2>3, QueuePut
    <3>2. CASE i = Len(c2s) + 1 BY <2>2, <2>3, <3>1, <3>2
    <3>3. CASE i \in 1 .. Len(c2s) BY <2>1, <3>1, <3>3 DEF ExitInv
    <3> QED BY <3>1, <3>2, <3>3
  <2> QED BY <1>3, <2>1, <2>2, <2>3 DEF ExitInv
<1>4. CASE MenuType
  <2>1. PICK k \in Lines \cap MenuKinds :
          Type(k) /\ cpc' = IF k = "use" THEN "awaitUse" ELSE "await"
    BY <1>4 DEF MenuType
  <2>2. cpc = "menu" /\ UNCHANGED <<cmdCh, spc>> BY <1>4 DEF MenuType, srvVars
  <2> QED BY <1>3, <2>1, <2>2
<1>5. CASE SessionType
  <2>1. PICK k \in Lines \cap SessionKinds :
          Type(k) /\ cpc' = IF k \in Passed THEN "session" ELSE "awaitLeave"
    BY <1>5 DEF SessionType
  <2>2. cpc = "session" /\ UNCHANGED <<cmdCh, spc>> BY <1>5 DEF SessionType, srvVars
  <2> QED BY <1>3, <2>1, <2>2 DEF Passed
<1>6. CASE SessionEof \/ EnterSession
  BY <1>6 DEF SessionEof, EnterSession, ExitInv, srvVars
<1>7. CASE ShowResponse
  BY <1>7 DEF ShowResponse, ExitInv, srvVars
<1>8. CASE Leave
  <2>1. PICK m \in 0 .. Len(c2s) : c2s' = SubSeq(c2s, 1, m) BY <1>8 DEF Leave
  <2>2. \A i \in DOMAIN c2s' : i \in DOMAIN c2s /\ c2s'[i] = c2s[i] BY <1>1, <2>1, QueueCut
  <2> QED BY <1>8, <2>2 DEF Leave, ExitInv, srvVars
<1>9. CASE ReadCommand
  <2>1. /\ c2s # <<>> /\ c2s' = Tail(c2s) /\ cmdCh' = Append(cmdCh, Head(c2s))
        /\ UNCHANGED <<kind, cpc, spc>>
    BY <1>9 DEF ReadCommand, cliVars, srvVars
  <2>2. /\ Len(c2s) \in Nat \ {0} /\ DOMAIN c2s = 1 .. Len(c2s) /\ Head(c2s) = c2s[1]
        /\ DOMAIN c2s' = 1 .. Len(c2s) - 1 /\ Head(c2s) \in Line
        /\ \A i \in 1 .. Len(c2s) - 1 : c2s'[i] = c2s[i + 1]
    BY <1>1, <2>1, QueueTake
  <2> DEFINE h == Head(c2s)
  <2>3. h \in Line /\ cmdCh' = Append(cmdCh, h) BY <2>1, <2>2
  <2> HIDE DEF h
  <2>4. /\ Len(cmdCh) \in Nat /\ DOMAIN cmdCh = 1 .. Len(cmdCh)
        /\ DOMAIN cmdCh' = 1 .. Len(cmdCh) + 1 /\ cmdCh'[Len(cmdCh) + 1] = h
        /\ \A i \in 1 .. Len(cmdCh) : cmdCh'[i] = cmdCh[i]
    BY ONLY <1>1, <2>3, QueuePut
  <2>5. ASSUME kind # "exit", NEW i \in DOMAIN c2s' PROVE c2s'[i].kind # "exit"
    <3>1. i + 1 \in DOMAIN c2s /\ c2s'[i] = c2s[i + 1] BY <2>2, <2>5
    <3> QED BY <2>5, <3>1 DEF ExitInv
  <2>6. ASSUME kind # "exit", NEW i \in DOMAIN cmdCh' PROVE cmdCh'[i].kind # "exit"
    <3>1. CASE i = Len(cmdCh) + 1
      <4>1. 1 \in DOMAIN c2s /\ cmdCh'[i] = c2s[1] BY <2>2, <2>4, <3>1 DEF h
      <4> QED BY <2>6, <4>1 DEF ExitInv
    <3>2. CASE i \in 1 .. Len(cmdCh) BY <2>4, <2>6, <3>2 DEF ExitInv
    <3> QED BY <2>4, <2>6, <3>1, <3>2
  <2> QED BY <2>1, <2>5, <2>6 DEF ExitInv
<1>10. ASSUME cmdCh # <<>>, cmdCh' = Tail(cmdCh), UNCHANGED <<kind, cpc, c2s>>,
              kind # "exit" /\ Head(cmdCh).kind # "exit" => spc' # "bye"
       PROVE  ExitInv'
  <2>1. /\ Len(cmdCh) \in Nat \ {0} /\ DOMAIN cmdCh = 1 .. Len(cmdCh)
        /\ DOMAIN cmdCh' = 1 .. Len(cmdCh) - 1 /\ Head(cmdCh) = cmdCh[1]
        /\ \A i \in 1 .. Len(cmdCh) - 1 : cmdCh'[i] = cmdCh[i + 1]
    BY <1>1, <1>10, QueueTake
  <2>2. ASSUME kind # "exit", NEW i \in DOMAIN cmdCh' PROVE cmdCh'[i].kind # "exit"
    <3>1. i + 1 \in DOMAIN cmdCh /\ cmdCh'[i] = cmdCh[i + 1] BY <2>1, <2>2
    <3> QED BY <2>2, <3>1 DEF ExitInv
  <2>3. 1 \in DOMAIN cmdCh BY <2>1
  <2>4. kind # "exit" => Head(cmdCh).kind # "exit" BY <2>1, <2>3 DEF ExitInv
  <2> QED BY <1>10, <2>2, <2>4 DEF ExitInv
<1>11. CASE Dispatch
  BY <1>10, <1>11 DEF Dispatch, cliVars
<1>12. CASE LeaveLine \/ PassLine
  <2>1. /\ cmdCh # <<>> /\ cmdCh' = Tail(cmdCh) /\ UNCHANGED <<kind, cpc, c2s>>
        /\ spc' # "bye"
    BY <1>12 DEF LeaveLine, PassLine, cliVars, srvVars
  <2> QED BY <1>10, <2>1
<1>13. CASE SendReply \/ ClientGone \/ SessionGone \/ RxDone
  BY <1>13 DEF SendReply, ClientGone, SessionGone, RxDone, ExitInv, cliVars
<1>14. CASE Bye
  BY <1>14 DEF Bye, ExitInv, cliVars
<1>15. CASE \/ UNCHANGED vars \/ ReadTypedFrame \/ Route \/ PrintEvent \/ PushEvent
            \/ WriterTake \/ WriterPart \/ WriterFail
  BY <1>2, <1>15 DEF vars, ReadTypedFrame, Route, PrintEvent, PushEvent, WriterTake, WriterPart,
                     WriterFail, cliVars, srvVars
<1>16. CASE SessionDies \/ \E n \in Numbers : Rx(n)
  BY <1>2, <1>16 DEF SessionDies, Rx, RxDeath, RxClosed, RxReturn, RxStop, cliVars, srvVars
<1> QED
  BY <1>4, <1>5, <1>6, <1>7, <1>8, <1>9, <1>11, <1>12, <1>13, <1>14, <1>15, <1>16
  DEF Next, User, Show, Reader, Writer, Main

(* A number that comes to the end of a queue is behind those in it.        *)
LEMMA RisingStep ==
  ASSUME TInv, ExitInv, AskedInv, WayInv, kind # "exit", [Next]_vars
  PROVE  Rising(ForOf, outCh)' /\ Rising(LineOf, cmdCh)' /\ Rising(LineOf, c2s)'
<1>0. /\ InOrder /\ Rising(ForOf, outCh) /\ Rising(LineOf, cmdCh) /\ Rising(LineOf, c2s)
  BY DEF WayInv
<1>1. /\ ForOf \in [Frames -> Nat] /\ LineOf \in [Line -> Nat]
      /\ outCh \in Seq(Frames) /\ c2s \in Seq(Line) /\ cmdCh \in Seq(Line)
      /\ reply \in Frames /\ reply.for \in Nat /\ asked \in Nat
  BY TypesOf
<1>2. CASE UNCHANGED <<outCh, cmdCh, c2s>> BY <1>0, <1>2
<1>3. ASSUME NEW k \in MenuKinds \cup SessionKinds, Type(k), UNCHANGED <<outCh, cmdCh>>
      PROVE  Rising(ForOf, outCh') /\ Rising(LineOf, cmdCh') /\ Rising(LineOf, c2s')
  <2> DEFINE l == [n |-> asked + 1, kind |-> k]
  <2>1. l \in Line /\ c2s' = Append(c2s, l) /\ l.n = asked + 1 BY <1>3, Typed
  <2> HIDE DEF l
  <2>2. LineOf[l] = asked + 1 BY <2>1, OfAre
  <2>3. ASSUME NEW n \in Nat, n # 0, Has(LineOf, c2s, n) PROVE n < LineOf[l]
    <3>1. At(n, 8) /\ 8 \in Way BY <2>3, Stages DEF Way
    <3>2. n <= asked BY <3>1 DEF AskedInv
    <3> QED BY <1>1, <2>2, <3>2
  <2>4. Rising(LineOf, c2s') BY ONLY <1>0, <1>1, <2>1, <2>3, HasPut
  <2> QED BY <1>0, <1>3, <2>4
<1>4. CASE MenuType \/ SessionType
  <2>1. PICK k \in MenuKinds \cup SessionKinds : Type(k)
    BY <1>4 DEF MenuType, SessionType
  <2>2. UNCHANGED <<outCh, cmdCh>> BY <1>4 DEF MenuType, SessionType
  <2> QED BY <1>3, <2>1, <2>2
<1>5. CASE Leave
  <2>1. PICK m \in 0 .. Len(c2s) : c2s' = SubSeq(c2s, 1, m) BY <1>5 DEF Leave
  <2>2. Rising(LineOf, c2s') BY ONLY <1>0, <1>1, <2>1, HasCut
  <2> QED BY <1>0, <1>5, <2>2 DEF Leave
<1>6. CASE ReadCommand
  <2> DEFINE h == Head(c2s)
  <2>1. c2s # <<>> /\ c2s' = Tail(c2s) /\ cmdCh' = Append(cmdCh, h) /\ UNCHANGED outCh
    BY <1>6 DEF ReadCommand
  <2>2. h \in Line /\ Rising(LineOf, c2s') /\ Has(LineOf, c2s, LineOf[h])
    BY ONLY <1>0, <1>1, <2>1, HasTake, QueueTake
  <2> HIDE DEF h
  <2>3. ASSUME NEW n \in Nat, n # 0, Has(LineOf, cmdCh, n) PROVE n < LineOf[h]
    <3>1. LineOf[h] \in Nat /\ LineOf[h] # 0 BY <1>1, <2>2, OfAre
    <3>2. At(n, 7) /\ At(LineOf[h], 8) BY <2>2, <2>3, <3>1, Stages
    <3>3. 7 \in Way /\ 8 \in Way /\ Apart(7, 8) BY DEF Way, Apart
    <3> QED BY <1>0, <3>1, <3>2, <3>3 DEF InOrder
  <2>4. Rising(LineOf, cmdCh') BY ONLY <1>0, <1>1, <2>1, <2>2, <2>3, HasPut
  <2> QED BY <1>0, <2>1, <2>2, <2>4
<1>7. ASSUME NEW f \in Frames, f.for = 0, Out(f) PROVE Rising(ForOf, outCh')
  <2>1. outCh' = Append(outCh, f) /\ ForOf[f] = 0 BY <1>7, OfAre DEF Out
  <2> QED BY ONLY <1>0, <1>1, <2>1, f \in Frames, HasPut
<1>8. CASE PushEvent \/ \E n \in Numbers : RxClosed(n) \/ RxReturn(n)
  <2>1. PICK f \in {Frame("E", 0), Frame("R", 0)} : Out(f)
    BY <1>8 DEF PushEvent, RxClosed, RxReturn
  <2>2. f \in Frames /\ f.for = 0
    <3>1. 0 \in 0 .. MaxLines BY RemoteAssumption
    <3> QED BY <3>1, FramesAre
  <2>3. UNCHANGED <<cmdCh, c2s>> BY <1>8 DEF PushEvent, RxClosed, RxReturn
  <2> QED BY <1>0, <1>7, <2>1, <2>2, <2>3
<1>9. ASSUME cmdCh # <<>>, cmdCh' = Tail(cmdCh) PROVE Rising(LineOf, cmdCh')
  BY ONLY <1>0, <1>1, <1>9, HasTake
<1>10. CASE Dispatch \/ LeaveLine
  <2>1. cmdCh # <<>> /\ cmdCh' = Tail(cmdCh) /\ UNCHANGED <<outCh, c2s>>
    BY <1>10 DEF Dispatch, LeaveLine
  <2> QED BY <1>0, <1>9, <2>1
<1>11. CASE PassLine
  <2>1. /\ cmdCh # <<>> /\ cmdCh' = Tail(cmdCh) /\ UNCHANGED c2s
        /\ UNCHANGED outCh \/ Out(Frame("E", 0))
    BY <1>11 DEF PassLine
  <2> QED BY <1>0, <1>7, <1>9, <2>1, FramesAre
<1>12. CASE WriterTake
  <2>1. outCh # <<>> /\ outCh' = Tail(outCh) /\ UNCHANGED <<cmdCh, c2s>>
    BY <1>12 DEF WriterTake
  <2>2. Rising(ForOf, outCh') BY ONLY <1>0, <1>1, <2>1, HasTake
  <2> QED BY <1>0, <2>1, <2>2
<1>13. CASE SendReply
  <2>1. outCh' = Append(outCh, reply) /\ UNCHANGED <<cmdCh, c2s>> /\ ForOf[reply] = reply.for
    BY <1>1, <1>13, OfAre DEF SendReply, Out
  <2>2. ASSUME NEW n \in Nat, n # 0, ForOf[reply] # 0, Has(ForOf, outCh, n)
        PROVE  n < ForOf[reply]
    <3>1. At(n, 5) /\ At(reply.for, 6) BY <2>1, <2>2, Stages
    <3>2. 5 \in Way /\ 6 \in Way /\ Apart(5, 6) BY DEF Way, Apart
    <3> QED BY <1>0, <1>1, <2>1, <3>1, <3>2 DEF InOrder
  <2>3. Rising(ForOf, outCh') BY ONLY <1>0, <1>1, <2>1, <2>2, HasPut
  <2> QED BY <1>0, <2>1, <2>3
<1>14. CASE \/ UNCHANGED vars \/ SessionEof \/ Show \/ Reader \/ PrintEvent
            \/ WriterPart \/ WriterFail \/ Bye \/ ClientGone
  BY <1>2, <1>14 DEF vars, SessionEof, Show, ShowResponse, EnterSession, Reader, ReadTypedFrame,
                     Route, PrintEvent, WriterPart, WriterFail, Bye, ClientGone
<1>15. CASE SessionGone \/ RxDone \/ SessionDies \/ \E n \in Numbers : RxDeath(n) \/ RxStop(n)
  BY <1>2, <1>15 DEF SessionGone, RxDone, SessionDies, RxDeath, RxStop
<1> QED
  BY <1>4, <1>5, <1>6, <1>8, <1>10, <1>11, <1>12, <1>13, <1>14, <1>15
  DEF Next, User, Writer, Main, Rx
(* The writer starts a frame with its first piece.                         *)
LEMMA WriterStep == ASSUME TInv, WriterInv, [Next]_vars PROVE WriterInv'
<1>1. part \in [{"writer", "main"} -> 0 .. Parts - 1] BY DEF TInv
<1>2. CASE UNCHANGED <<wr, wrDead, part>> BY <1>2 DEF WriterInv
<1>3. CASE WriterTake
  <2>1. wr = NoFrame /\ ~wrDead /\ UNCHANGED <<wrDead, part>> BY <1>3 DEF WriterTake
  <2> QED BY <2>1 DEF WriterInv
<1>4. CASE WriterPart
  BY <1>4 DEF WriterPart, WriterInv
<1>5. CASE WriterFail
  BY <1>5 DEF WriterFail, WriterInv
<1>6. CASE Bye
  <2>1. CASE UNCHANGED part BY <1>2, <1>6, <2>1 DEF Bye, wrVars
  <2>2. CASE WritePart("main", reply)
    <3>1. part'["writer"] = part["writer"] BY <2>2, PartWritten, TypesOf
    <3> QED BY <1>6, <3>1 DEF Bye, WriterInv, wrVars
  <2> QED BY <1>6, <2>1, <2>2 DEF Bye
<1>7. CASE UNCHANGED vars \/ User \/ Show \/ Reader \/ PrintEvent \/ ReadCommand \/ PushEvent
  BY <1>2, <1>7 DEF vars, User, MenuType, SessionType, SessionEof, Leave, Show, ShowResponse,
                    EnterSession, Reader, ReadTypedFrame, Route, PrintEvent, ReadCommand,
                    PushEvent, wrVars
<1>8. CASE \/ Dispatch \/ SendReply \/ ClientGone \/ LeaveLine \/ PassLine \/ SessionGone
           \/ RxDone \/ SessionDies
  BY <1>2, <1>8 DEF Dispatch, SendReply, ClientGone, LeaveLine, PassLine, SessionGone, RxDone,
                    SessionDies, wrVars
<1>9. CASE \E n \in Numbers : Rx(n)
  BY <1>2, <1>9 DEF Rx, RxDeath, RxClosed, RxReturn, RxStop, wrVars
<1> QED
  BY <1>3, <1>4, <1>5, <1>6, <1>7, <1>8, <1>9 DEF Next, Writer, Main

(* Pieces come in the order of their frames, and of the parts of each.     *)
LEMMA PiecesStep ==
  ASSUME TInv, ExitInv, WriterInv, WayInv, kind # "exit", [Next]_vars
  PROVE  PiecesInv'
<1>0. InOrder /\ PiecesInv BY DEF WayInv
<1>1. /\ s2c \in Seq(Pieces) /\ outCh \in Seq(Frames) /\ wr \in Frames /\ wr.for \in Nat
      /\ part \in [{"writer", "main"} -> 0 .. Parts - 1]
      /\ ForOf \in [Frames -> Nat]
  BY TypesOf DEF TInv
<1>2. /\ Len(s2c) \in Nat /\ DOMAIN s2c = 1 .. Len(s2c) /\ Parts \in Nat \ {0}
      /\ part["writer"] \in 0 .. Parts - 1
  BY <1>1, RemoteAssumption
<1>3. \A f, k : Piece(f, k).frame = f /\ Piece(f, k).part = k BY DEF Piece
<1>4. CASE UNCHANGED <<s2c, wr, part>> BY <1>0, <1>4 DEF PiecesInv
<1>5. CASE ReadTypedFrame
  <2>1. s2c' = SubSeq(s2c, Parts + 1, Len(s2c)) /\ Len(s2c) >= Parts /\ UNCHANGED <<wr, part>>
    BY <1>5 DEF ReadTypedFrame, wrVars
  <2>2. Parts \in 0 .. Len(s2c) BY <1>2, <2>1
  <2>3. /\ DOMAIN s2c' = 1 .. Len(s2c) - Parts
        /\ \A i \in 1 .. Len(s2c) - Parts : s2c'[i] = s2c[i + Parts]
    BY ONLY <1>1, <2>1, <2>2, QueueCut
  <2>4. \A i \in 1 .. Len(s2c) - Parts : i + Parts \in DOMAIN s2c BY <1>2, <2>2
  <2>5. ASSUME NEW i \in DOMAIN s2c', NEW j \in DOMAIN s2c', i < j
        PROVE  Before(s2c'[i], s2c'[j])
    <3>1. i + Parts < j + Parts BY <1>2, <2>3, <2>5
    <3> QED BY <1>0, <2>3, <2>4, <3>1 DEF PiecesInv
  <2>6. ASSUME NEW i \in DOMAIN s2c' PROVE Before(s2c'[i], Piece(wr, part["writer"] + 1))
    BY <1>0, <2>3, <2>4 DEF PiecesInv
  <2> QED BY <2>1, <2>5, <2>6 DEF PiecesInv
<1>6. CASE WriterTake
  <2> DEFINE f == Head(outCh)
  <2>1. outCh # <<>> /\ wr = NoFrame /\ ~wrDead /\ wr' = f /\ UNCHANGED <<s2c, part>>
    BY <1>6 DEF WriterTake
  <2>2. f \in Frames /\ Has(ForOf, outCh, ForOf[f])
    BY ONLY <1>1, <2>1, HasTake, QueueTake
  <2> HIDE DEF f
  <2>3. ForOf[f] = f.for /\ f.for \in Nat BY <1>1, <2>2, OfAre
  <2>4. ASSUME NEW i \in DOMAIN s2c PROVE Before(s2c[i], Piece(f, part["writer"] + 1))
    <3>1. s2c[i] \in Pieces BY <1>1, <1>2
    <3>2. PieceOf[s2c[i]] = s2c[i].frame.for /\ s2c[i].frame.for \in Nat
      BY <3>1, OfAre, TypesOf
    <3>3. CASE f.for = 0 BY <1>3, <3>3 DEF Before
    <3>4. CASE s2c[i].frame.for = 0 BY <3>4 DEF Before
    <3>5. CASE f.for # 0 /\ s2c[i].frame.for # 0
      <4>1. Has(PieceOf, s2c, s2c[i].frame.for) BY <3>2 DEF Has
      <4>2. At(s2c[i].frame.for, 3) /\ At(f.for, 5) BY <2>2, <2>3, <3>5, <4>1, Stages
      <4>3. 3 \in Way /\ 5 \in Way /\ Apart(3, 5) BY DEF Way, Apart
      <4>4. s2c[i].frame.for < f.for BY <1>0, <2>3, <3>2, <4>2, <4>3 DEF InOrder
      <4> QED BY <1>3, <4>4 DEF Before
    <3> QED BY <3>3, <3>4, <3>5
  <2> QED BY <1>0, <2>1, <2>4 DEF PiecesInv
<1>7. CASE WriterPart
  <2> DEFINE k == part["writer"] + 1  p == Piece(wr, k)
  <2>1. /\ p \in Pieces /\ s2c' = Append(s2c, p)
        /\ part'["writer"] = IF k = Parts THEN 0 ELSE k
        /\ wr' = IF part'["writer"] = 0 THEN NoFrame ELSE wr
    BY <1>1, <1>7, PartWritten DEF WriterPart
  <2>2. p.frame = wr /\ p.part = k BY <1>3
  <2>3. k \in 1 .. Parts BY <1>2
  <2>4. \A i \in 1 .. Len(s2c) : Before(s2c[i], p) BY <1>0, <1>2 DEF PiecesInv
  <2> HIDE DEF k, p
  <2>5. /\ DOMAIN s2c' = 1 .. Len(s2c) + 1 /\ s2c'[Len(s2c) + 1] = p
        /\ \A i \in 1 .. Len(s2c) : s2c'[i] = s2c[i]
    BY ONLY <1>1, <2>1, QueuePut
  <2>6. ASSUME NEW i \in DOMAIN s2c', NEW j \in DOMAIN s2c', i < j
        PROVE  Before(s2c'[i], s2c'[j])
    <3>1. i \in 1 .. Len(s2c) /\ s2c'[i] = s2c[i] BY <1>2, <2>5, <2>6
    <3>2. CASE j = Len(s2c) + 1 BY <2>4, <2>5, <3>1, <3>2
    <3>3. CASE j \in 1 .. Len(s2c) BY <1>0, <1>2, <2>5, <2>6, <3>1, <3>3 DEF PiecesInv
    <3> QED BY <1>2, <2>5, <3>2, <3>3
  <2>7. ASSUME NEW i \in DOMAIN s2c'
        PROVE  Before(s2c'[i], Piece(wr', part'["writer"] + 1))
    <3>1. CASE wr'.for = 0 BY <1>3, <3>1 DEF Before
    <3>2. CASE wr'.for # 0
      <4>1. wr' = wr /\ k # Parts /\ part'["writer"] = k BY <2>1, <3>2, FramesAre
      <4> DEFINE q == Piece(wr, k + 1)
      <4>2. q.frame = wr /\ q.part = k + 1 BY <1>3
      <4> HIDE DEF q
      <4>3. CASE i = Len(s2c) + 1
        <5>1. s2c'[i] = p BY <2>5, <4>3
        <5>2. Before(p, q) BY <2>2, <2>3, <4>2 DEF Before
        <5> QED BY <4>1, <5>1, <5>2 DEF q
      <4>4. CASE i \in 1 .. Len(s2c)
        <5>1. s2c'[i] = s2c[i] /\ Before(s2c[i], p) /\ s2c[i] \in Pieces
          BY <1>1, <1>2, <2>4, <2>5, <4>4
        <5>2. s2c[i].part \in Nat BY <5>1, <1>2 DEF Pieces
        <5>3. Before(s2c[i], q) BY <2>2, <2>3, <4>2, <5>1, <5>2 DEF Before
        <5> QED BY <4>1, <5>1, <5>3 DEF q
      <4> QED BY <1>2, <2>5, <4>3, <4>4
    <3> QED BY <3>1, <3>2
  <2> QED BY <2>6, <2>7 DEF PiecesInv
<1>8. CASE WriterFail
  <2>1. wr' = NoFrame /\ UNCHANGED <<s2c, part>> BY <1>8 DEF WriterFail
  <2>2. \A p : Before(p, Piece(wr', part'["writer"] + 1))
    BY <1>3, <2>1, FramesAre DEF Before
  <2> QED BY <1>0, <2>1, <2>2 DEF PiecesInv
<1>9. ~Bye BY DEF Bye, ExitInv
<1>10. CASE UNCHANGED vars \/ User \/ Show \/ Route \/ PrintEvent \/ ReadCommand \/ PushEvent
  BY <1>4, <1>10 DEF vars, User, MenuType, SessionType, SessionEof, Leave, Show, ShowResponse,
                    EnterSession, Route, PrintEvent, ReadCommand, PushEvent, wrVars
<1>11. CASE \/ Dispatch \/ SendReply \/ ClientGone \/ LeaveLine \/ PassLine \/ SessionGone
            \/ RxDone \/ SessionDies
  BY <1>4, <1>11 DEF Dispatch, SendReply, ClientGone, LeaveLine, PassLine, SessionGone, RxDone,
                    SessionDies, wrVars
<1>12. CASE \E n \in Numbers : Rx(n)
  BY <1>4, <1>12 DEF Rx, RxDeath, RxClosed, RxReturn, RxStop, wrVars
<1> QED
  BY <1>5, <1>6, <1>7, <1>8, <1>9, <1>10, <1>11, <1>12 DEF Next, Reader, Writer, Main

(* The response shown was not shown before, and is ahead of all others.    *)
LEMMA ShowStep ==
  ASSUME TInv, ExitInv, WayInv, AskedInv, FreshInv, AnswersOrdered, ShowResponse
  PROVE  AskedInv' /\ FreshInv' /\ AnswersOrdered'
<1> DEFINE f == Head(respCh)  a == [asked |-> asked, for |-> f.for]  m == Len(answers)
<1>1. /\ respCh # <<>> /\ respCh' = Tail(respCh) /\ answers' = Append(answers, a)
      /\ UNCHANGED <<asked, kind>> /\ cpc # "off" /\ (cpc' # "off" => kind # "exit")
  BY DEF ShowResponse, Waiting
<1>2. respCh \in Seq(Frames) /\ Len(respCh) <= 1 /\ asked \in Nat /\ ForOf \in [Frames -> Nat]
      /\ answers \in Seq(Shown)
  BY TypesOf DEF TInv, TypeOK
<1>3. f \in Frames /\ Len(respCh') = Len(respCh) - 1 /\ Len(respCh) \in Nat
      /\ respCh' \in Seq(Frames) /\ Has(ForOf, respCh, ForOf[f])
  BY ONLY <1>1, <1>2, HasTake, QueueTake
<1>4. ForOf[f] = f.for /\ f.for \in 0 .. MaxLines /\ f.for \in Nat
  BY <1>3, OfAre, FramesAre, RemoteAssumption
<1>5. a \in Shown /\ a.for = f.for BY <1>2, <1>4 DEF Shown
<1> HIDE DEF f, a, m
<1>6. /\ m \in Nat /\ DOMAIN answers = 1 .. m /\ DOMAIN answers' = 1 .. m + 1
      /\ answers'[m + 1] = a /\ \A i \in 1 .. m : answers'[i] = answers[i]
  BY ONLY <1>1, <1>2, <1>5, QueuePut DEF m
<1>7. respCh' = <<>> BY <1>2, <1>3
<1>8. f.for # 0 => At(f.for, 1) BY <1>3, <1>4, Stages
<1>9. 1 \in Way BY DEF Way
<1>10. Kept BY ShowWay
<1>11. \A i \in 1 .. m : answers[i].for \in Nat
  <2>1. \A i \in 1 .. m : answers[i] \in Shown BY <1>2, <1>6
  <2> QED BY <2>1, RemoteAssumption DEF Shown
<1>12. AskedInv'
  <2>1. ASSUME NEW n \in Nat, NEW k \in Way, At(n, k)' PROVE n <= asked
    BY <1>10, <2>1 DEF Kept, AskedInv
  <2>2. f.for <= asked BY <1>2, <1>4, <1>8, <1>9 DEF AskedInv
  <2>3. ASSUME NEW i \in 1 .. m + 1 PROVE answers'[i].for <= asked
    <3>1. CASE i = m + 1 BY <1>5, <1>6, <2>2, <3>1
    <3>2. CASE i \in 1 .. m BY <1>6, <3>2 DEF AskedInv
    <3> QED BY <1>6, <3>1, <3>2
  <2> QED BY <1>1, <1>6, <2>1, <2>3 DEF AskedInv
<1>13. FreshInv'
  <2> SUFFICES ASSUME cpc' # "off", NEW i \in 1 .. m + 1, NEW n \in Nat, NEW k \in Way, At(n, k)'
               PROVE  answers'[i].for < n
    BY <1>6 DEF FreshInv
  <2>1. At(n, k) /\ n # 0 BY <1>10 DEF Kept, At
  <2>2. CASE i \in 1 .. m BY <1>1, <1>6, <2>1, <2>2 DEF FreshInv
  <2>3. CASE i = m + 1
    <3>1. k # 1 BY <1>7, HasNone, StagesThen
    <3>2. Apart(1, k) BY <3>1 DEF Apart, Way
    <3>3. f.for < n
      <4>1. CASE f.for = 0 BY <2>1, <4>1
      <4>2. CASE f.for # 0 BY <1>1, <1>4, <1>8, <1>9, <2>1, <3>2, <4>2 DEF WayInv, InOrder
      <4> QED BY <4>1, <4>2
    <3> QED BY <1>5, <1>6, <2>3, <3>3
  <2> QED BY <1>6, <2>2, <2>3
<1>14. AnswersOrdered'
  <2> SUFFICES ASSUME NEW i \in 1 .. m + 1, NEW j \in 1 .. m + 1, i < j,
                      answers'[i].for # 0, answers'[j].for # 0
               PROVE  answers'[i].for < answers'[j].for
    BY <1>6 DEF AnswersOrdered
  <2>1. i \in 1 .. m /\ answers'[i] = answers[i] BY <1>6
  <2>2. CASE j \in 1 .. m
    <3>1. answers'[j] = answers[j] BY <1>6, <2>2
    <3> QED BY <1>6, <2>1, <2>2, <3>1 DEF AnswersOrdered
  <2>3. CASE j = m + 1
    <3>1. answers'[j].for = f.for BY <1>5, <1>6, <2>3
    <3>2. At(f.for, 1) BY <1>8, <3>1
    <3> QED BY <1>1, <1>4, <1>6, <1>9, <2>1, <3>1, <3>2 DEF FreshInv
  <2> QED BY <1>6, <2>2, <2>3
<1> QED BY <1>12, <1>13, <1>14

-----------------------------------------------------------------------------
(* The inductive invariant of the connection, whatever goes wrong.         *)
IInv == TInv /\ ExitInv /\ WriterInv /\ WayInv /\ AskedInv /\ FreshInv /\ AnswersOrdered

LEMMA FirstState == Init => IInv
<1> SUFFICES ASSUME Init PROVE IInv OBVIOUS
<1>1. TInv BY TypeInit
<1>2. DOMAIN <<>> = {} OBVIOUS
<1>3. \A n, k : ~At(n, k)
  BY HasNone, FramesAre DEF Init, At
<1>4. ExitInv BY <1>2 DEF Init, ExitInv
<1>5. WriterInv BY DEF Init, WriterInv
<1>6. AskedInv /\ FreshInv /\ AnswersOrdered
  BY <1>2, <1>3 DEF Init, AskedInv, FreshInv, AnswersOrdered
<1>7. WayInv BY <1>2, <1>3 DEF Init, WayInv, InOrder, PiecesInv, Rising
<1> QED BY <1>1, <1>4, <1>5, <1>6, <1>7 DEF IInv

LEMMA EveryStep == IInv /\ [Next]_vars => IInv'
<1> SUFFICES ASSUME IInv, [Next]_vars PROVE IInv' OBVIOUS
<1> USE DEF IInv
<1>1. TInv' /\ ExitInv' /\ WriterInv' BY TypeStep, ExitStep, WriterStep
<1>2. WayStep BY WayMoves
<1>3. kind' # "exit" => kind # "exit"
  <2>1. kind' = kind \/ cpc \in {"menu", "session"}
    BY DEF Next, vars, cliVars, User, MenuType, SessionType, SessionEof, Leave, Show, ShowResponse,
           EnterSession, Reader, ReadTypedFrame, Route, PrintEvent, ReadCommand, PushEvent, Writer,
           WriterTake, WriterPart, WriterFail, Main, Dispatch, SendReply, Bye, ClientGone, LeaveLine,
           PassLine, SessionGone, RxDone, SessionDies, Rx, RxDeath, RxClosed, RxReturn, RxStop
  <2> QED BY <2>1 DEF ExitInv
<1>4. WayInv' BY <1>2, <1>3, OrderStep, PiecesStep, RisingStep DEF WayInv
<1>5. CASE ShowResponse BY <1>1, <1>4, <1>5, ShowStep
<1>6. CASE ~ShowResponse
  <2>1. UNCHANGED answers /\ (cpc' # "off" => cpc # "off")
    BY <1>6
       DEF Next, vars, cliVars, User, MenuType, SessionType, SessionEof, Leave, Show,
           EnterSession, Reader, ReadTypedFrame, Route, PrintEvent, ReadCommand, PushEvent, Writer,
           WriterTake, WriterPart, WriterFail, Main, Dispatch, SendReply, Bye, ClientGone, LeaveLine,
           PassLine, SessionGone, RxDone, SessionDies, Rx, RxDeath, RxClosed, RxReturn, RxStop
  <2>2. AskedInv' /\ FreshInv' BY <1>2, <2>1, FreshStep
  <2> QED BY <1>1, <1>4, <2>1, <2>2 DEF AnswersOrdered
<1> QED BY <1>5, <1>6

LEMMA Invariant == Spec => []IInv
<1> QED BY FirstState, EveryStep, PTL DEF Spec

(* Every variable has its type, and every channel stays in its capacity,   *)
(* for any capacities, lines and mishaps.                                  *)
THEOREM TypeCorrect == Spec => []TypeOK
<1>1. IInv => TypeOK BY DEF IInv, TInv
<1> QED BY <1>1, Invariant, PTL

(* Whatever goes wrong, no response is shown twice or after the response   *)
(* to a later line.                                                        *)
THEOREM AnswersInOrder == Spec => []AnswersOrdered
<1>1. IInv => AnswersOrdered BY DEF IInv
<1> QED BY <1>1, Invariant, PTL
=============================================================================
