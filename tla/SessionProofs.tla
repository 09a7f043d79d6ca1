--------------------------- MODULE SessionProofs ---------------------------
(***************************************************************************)
(* Session.tla, proved for any set of drain goroutines, either mode and    *)
(* any number of bytes.                                                    *)
(***************************************************************************)
EXTENDS Session, SequenceTheorems, TLAPS

(* A current attachment is recorded, so that exitFlag marks a drainer.     *)
Recorded == pc["cmd"] = "session" => cur \in Drainers

(* What was read from the socket is held only on the way to rxBuf.         *)
ChunkInv == pc["rx"] # "append" => chunk = <<>>

TInv == TypeOK /\ Recorded

LEMMA Names ==
  /\ "rx" \notin Sleepers /\ "cmd" \notin Sleepers /\ "watch" \notin Drainers
  /\ "none" \notin Sleepers /\ "rx" \in Threads /\ "cmd" \in Threads
  /\ "watch" \in Threads /\ "watch" \in Sleepers /\ "rx" # "cmd"
  /\ \A d \in Drainers : d \in Threads /\ d \in Sleepers
  /\ \A t \in Sleepers : t \in Threads
BY SessionAssumption DEF Sleepers, Threads

(* A part of a sequence has the sequence's elements.                       *)
LEMMA PartOfSeq ==
  ASSUME NEW S, NEW s \in Seq(S), NEW m \in 1 .. Len(s) + 1,
         NEW n \in 0 .. Len(s)
  PROVE  SubSeq(s, m, n) \in Seq(S)
BY SubSeqProperties

LEMMA TypeInit == Init => TInv
<1> SUFFICES ASSUME Init PROVE TInv
  OBVIOUS
<1> USE Names, SessionAssumption DEF Init
<1>1. /\ pc["rx"] = "read" /\ pc["watch"] = "lock" /\ pc["cmd"] = "menu"
      /\ \A d \in Drainers : pc[d] = "unborn"
  <2>1. ASSUME NEW d \in Drainers PROVE pc[d] = "unborn"
    <3>1. d \in Threads /\ d # "rx" /\ d # "watch" /\ d # "cmd"
      OBVIOUS
    <3> QED BY <3>1 DEF Start
  <2> QED BY <2>1 DEF Start
<1>2. hand \in [Drainers -> [data : Seq(Byte), isDead : BOOLEAN]]
  <2>1. NoHand \in [data : Seq(Byte), isDead : BOOLEAN]
    BY DEF NoHand
  <2> QED BY <2>1
<1>3. /\ wire \in Seq(Byte) /\ chunk \in Seq(Byte) /\ rxBuf \in Seq(Byte)
      /\ drained \in Seq(Byte) /\ out \in Seq(Byte \cup {Notice})
  OBVIOUS
<1>4. DOMAIN pc = Threads
  OBVIOUS
<1>5. /\ state \in {"Active", "Foreground", "Background", "Dead"}
      /\ registered \in BOOLEAN /\ sent \in 0 .. MaxBytes
      /\ peerClosed \in BOOLEAN /\ connClosed \in BOOLEAN
      /\ writeFailed \in BOOLEAN /\ rxMu \in Sleepers \cup {"none"}
      /\ waiters \subseteq Sleepers /\ cur \in Drainers \cup {"none"}
      /\ exitFlag \subseteq Drainers
  <2>1. sent \in 0 .. MaxBytes
    OBVIOUS
  <2>2. exitFlag \subseteq Drainers /\ waiters \subseteq Sleepers
    OBVIOUS
  <2>3. rxMu \in Sleepers \cup {"none"} /\ cur \in Drainers \cup {"none"}
    OBVIOUS
  <2> QED BY ONLY Init, <2>1, <2>2, <2>3 DEF Init
<1> QED BY ONLY <1>1, <1>2, <1>3, <1>4, <1>5 DEF TInv, TypeOK, Recorded

LEMMA TypeStep == TInv /\ [Next]_vars => TInv'
<1> SUFFICES ASSUME TInv, [Next]_vars PROVE TInv'
  OBVIOUS
<1> USE Names, SessionAssumption DEF TInv, TypeOK, Recorded, Goto
<1>1. CASE PeerSend
  BY <1>1 DEF PeerSend, cmdVars, Byte
<1>2. CASE PeerClose
  BY <1>2 DEF PeerClose, cmdVars
<1>3. ASSUME NEW t \in Sleepers, Acquire(t) PROVE TInv'
  BY <1>3 DEF Acquire, sockVars, cmdVars, Sleepers
<1>4. ASSUME NEW t \in Sleepers, Park(t) PROVE TInv'
  BY <1>4 DEF Park, sockVars, cmdVars, Sleepers
<1>5. CASE RxRead
  <2>1. chunk' \in Seq(Byte) /\ wire' \in Seq(Byte)
    BY <1>5, PartOfSeq DEF RxRead
  <2> QED BY <1>5, <2>1 DEF RxRead, cmdVars
<1>6. CASE RxAppend
  BY <1>6 DEF RxAppend, Buffered, Broadcast, sockVars, cmdVars
<1>7. CASE RxError
  BY <1>7 DEF RxError, sockVars, cmdVars
<1>8. CASE RxSetDead
  BY <1>8 DEF RxSetDead, sockVars, cmdVars
<1>9. CASE RxBroadcast
  BY <1>9 DEF RxBroadcast, Broadcast, sockVars, cmdVars
<1>10. CASE WatchCheck
  BY <1>10 DEF WatchCheck, sockVars, cmdVars
<1>11. CASE WatchReport
  BY <1>11 DEF WatchReport, sockVars, cmdVars
<1>12. CASE RemoveDead
  BY <1>12 DEF RemoveDead, sockVars, cmdVars
<1>13. ASSUME NEW d \in Drainers, DrainWait(d) PROVE TInv'
  BY <1>13 DEF DrainWait, sockVars, cmdVars
<1>14. ASSUME NEW d \in Drainers, DrainTake(d) PROVE TInv'
  BY <1>14 DEF DrainTake, sockVars, cmdVars
<1>15. ASSUME NEW d \in Drainers, DrainOutput(d) PROVE TInv'
  <2>1. out' \in Seq(Byte \cup {Notice})
    <3>1. hand[d].data \in Seq(Byte \cup {Notice})
      BY Z3
    <3> DEFINE last == IF hand[d].isDead /\ (Server \/ state = "Dead")
                       THEN <<Notice>> ELSE <<>>
    <3>2. last \in Seq(Byte \cup {Notice})
      <4>1. <<Notice>> \in Seq(Byte \cup {Notice})
        OBVIOUS
      <4>2. <<>> \in Seq(Byte \cup {Notice})
        OBVIOUS
      <4> QED BY ONLY <4>1, <4>2
    <3>3. out' = out \o hand[d].data \o last
      BY <1>15 DEF DrainOutput, Shown
    <3>4. out \o hand[d].data \in Seq(Byte \cup {Notice})
      BY <3>1
    <3> HIDE DEF last
    <3> QED BY <3>2, <3>3, <3>4
  <2> QED BY <1>15, <2>1 DEF DrainOutput, Shown, NoHand, sockVars, cmdVars
<1>16. CASE UsePick
  BY <1>16 DEF UsePick, sockVars, cmdVars
<1>17. ASSUME NEW d \in Drainers, UseAttach(d) PROVE TInv'
  BY <1>17 DEF UseAttach, sockVars
<1>18. CASE Back
  BY <1>18 DEF Back, TellDrainer, Broadcast, sockVars
<1>19. CASE Bg
  BY <1>19 DEF Bg, TellDrainer, Broadcast, sockVars
<1>20. CASE WriteFail
  BY <1>20 DEF WriteFail, Broadcast, sockVars
<1>21. CASE SessionOver
  BY <1>21 DEF SessionOver, sockVars, cmdVars
<1>22. CASE Defer
  BY <1>22 DEF Defer, NextAfterDefer, sockVars, cmdVars
<1>23. CASE DeferSet
  BY <1>23 DEF DeferSet, sockVars, cmdVars
<1>24. CASE ReadBuffered
  BY <1>24 DEF ReadBuffered, sockVars, cmdVars
<1>25. CASE KillClose
  BY <1>25 DEF KillClose, CloseConn, cmdVars
<1>26. CASE KillRemove
  BY <1>26 DEF KillRemove, sockVars, cmdVars
<1>27. CASE UNCHANGED vars
  BY <1>27 DEF vars, sockVars, cmdVars
<1> QED
  BY <1>1, <1>2, <1>3, <1>4, <1>5, <1>6, <1>7, <1>8, <1>9, <1>10, <1>11,
     <1>12, <1>13, <1>14, <1>15, <1>16, <1>17, <1>18, <1>19, <1>20, <1>21,
     <1>22, <1>23, <1>24, <1>25, <1>26, <1>27
  DEF Next, Peer, RxLoop, Watch, Finish, Attach, User, Drain

(* Every variable has its type in every reachable state.                   *)
THEOREM TypeCorrect == Spec => []TypeOK
<1>1. TInv => TypeOK
  BY DEF TInv
<1> QED BY <1>1, TypeInit, TypeStep, PTL DEF Spec

(***************************************************************************)
(* The lock.  A waiter holds rxMu from its test to the end of Wait's first *)
(* half, so nothing can be appended while it decides to sleep.             *)
(***************************************************************************)
Holding    == \A t \in Sleepers : rxMu = t <=> pc[t] \in Locked
Parked     == \A t \in waiters : pc[t] = "wait"
EmptyAsleep ==
  \A d \in Drainers : d \in waiters \/ pc[d] = "park" => rxBuf = <<>>
LockInv    == Holding /\ Parked /\ EmptyAsleep

LEMMA LockInit == Init => LockInv
BY Names, SessionAssumption
   DEF Init, Start, LockInv, Holding, Parked, EmptyAsleep, Locked

LEMMA LockStep == TypeOK /\ LockInv /\ [Next]_vars => LockInv'
<1> SUFFICES ASSUME TypeOK /\ LockInv, [Next]_vars PROVE LockInv'
  OBVIOUS
<1> USE Names, SessionAssumption DEF TypeOK, LockInv, Holding, Parked,
               EmptyAsleep, Locked, Goto
<1>1. CASE PeerSend
  BY <1>1 DEF PeerSend, cmdVars
<1>2. CASE PeerClose
  BY <1>2 DEF PeerClose, cmdVars
<1>3. ASSUME NEW t \in Sleepers, Acquire(t) PROVE LockInv'
  BY <1>3 DEF Acquire, Awake, sockVars, cmdVars
<1>4. ASSUME NEW t \in Sleepers, Park(t) PROVE LockInv'
  BY <1>4 DEF Park, sockVars, cmdVars
<1>5. CASE RxRead
  BY <1>5 DEF RxRead, cmdVars
<1>6. CASE RxAppend
  BY <1>6 DEF RxAppend, Buffered, Broadcast, sockVars, cmdVars
<1>7. CASE RxError
  BY <1>7 DEF RxError, sockVars, cmdVars
<1>8. CASE RxSetDead
  BY <1>8 DEF RxSetDead, sockVars, cmdVars
<1>9. CASE RxBroadcast
  BY <1>9 DEF RxBroadcast, Broadcast, sockVars, cmdVars
<1>10. CASE WatchCheck
  <2>1. CASE state = "Dead"
    BY <1>10, <2>1 DEF WatchCheck, sockVars, cmdVars
  <2>2. CASE state # "Dead"
    BY <1>10, <2>2 DEF WatchCheck, sockVars, cmdVars
  <2> QED BY <2>1, <2>2
<1>11. CASE WatchReport
  BY <1>11 DEF WatchReport, sockVars, cmdVars
<1>12. CASE RemoveDead
  BY <1>12 DEF RemoveDead, sockVars, cmdVars
<1>13. ASSUME NEW d \in Drainers, DrainWait(d) PROVE LockInv'
  BY <1>13 DEF DrainWait, Idle, sockVars, cmdVars
<1>14. ASSUME NEW d \in Drainers, DrainTake(d) PROVE LockInv'
  BY <1>14 DEF DrainTake, sockVars, cmdVars
<1>15. ASSUME NEW d \in Drainers, DrainOutput(d) PROVE LockInv'
  BY <1>15 DEF DrainOutput, Shown, sockVars, cmdVars
<1>16. CASE UsePick
  BY <1>16 DEF UsePick, sockVars, cmdVars
<1>17. ASSUME NEW d \in Drainers, UseAttach(d) PROVE LockInv'
  BY <1>17 DEF UseAttach, sockVars
<1>18. CASE Back
  BY <1>18 DEF Back, TellDrainer, Broadcast, sockVars
<1>19. CASE Bg
  BY <1>19 DEF Bg, TellDrainer, Broadcast, sockVars
<1>20. CASE WriteFail
  BY <1>20 DEF WriteFail, Broadcast, sockVars
<1>21. CASE SessionOver
  BY <1>21 DEF SessionOver, sockVars, cmdVars
<1>22. CASE Defer
  BY <1>22 DEF Defer, sockVars, cmdVars
<1>23. CASE DeferSet
  BY <1>23 DEF DeferSet, sockVars, cmdVars
<1>24. CASE ReadBuffered
  BY <1>24 DEF ReadBuffered, sockVars, cmdVars
<1>25. CASE KillClose
  BY <1>25 DEF KillClose, CloseConn, cmdVars
<1>26. CASE KillRemove
  BY <1>26 DEF KillRemove, sockVars, cmdVars
<1>27. CASE UNCHANGED vars
  BY <1>27 DEF vars, sockVars, cmdVars
<1> QED
  BY <1>1, <1>2, <1>3, <1>4, <1>5, <1>6, <1>7, <1>8, <1>9, <1>10, <1>11,
     <1>12, <1>13, <1>14, <1>15, <1>16, <1>17, <1>18, <1>19, <1>20, <1>21,
     <1>22, <1>23, <1>24, <1>25, <1>26, <1>27
  DEF Next, Peer, RxLoop, Watch, Finish, Attach, User, Drain

(* No drain goroutine sleeps on received data (NoSleepOnData).             *)
THEOREM NeverAsleepOnData == Spec => []NoSleepOnData
<1>1. LockInv => NoSleepOnData
  BY DEF LockInv, EmptyAsleep, NoSleepOnData
<1>2. Spec => []TypeOK
  BY TypeCorrect
<1> QED BY <1>1, <1>2, LockInit, LockStep, PTL DEF Spec

(***************************************************************************)
(* The stream.  Only the peer adds to it; every other step moves bytes     *)
(* from one of its parts to the one before.                                *)
(***************************************************************************)
StreamInv == Lossless /\ ChunkInv

LEMMA StreamInit == Init => StreamInv
BY DEF Init, StreamInv, Lossless, ChunkInv, Stream

(* Appending the next byte to the bytes 1 .. n gives the bytes 1 .. n + 1. *)
LEMMA NextByte ==
  ASSUME NEW n \in Nat
  PROVE  [i \in 1 .. n |-> i] \o <<n + 1>> = [i \in 1 .. n + 1 |-> i]
OBVIOUS

(* Cutting a sequence in two and joining the parts gives it back.          *)
LEMMA CutJoin ==
  ASSUME NEW S, NEW s \in Seq(S), NEW n \in 1 .. Len(s)
  PROVE  SubSeq(s, 1, n) \o SubSeq(s, n + 1, Len(s)) = s
BY ConcatAdjacentSubSeq, SubSeqFull

LEMMA EmptyRight == ASSUME NEW S, NEW s \in Seq(S) PROVE s \o <<>> = s
BY ConcatEmptySeq

LEMMA Assoc ==
  ASSUME NEW S, NEW a \in Seq(S), NEW b \in Seq(S), NEW c \in Seq(S)
  PROVE  (a \o b) \o c = a \o (b \o c)
BY ConcatAssociative, SMTT(60)

(* A stream in four parts: a byte joins the last, the last two are cut     *)
(* elsewhere, a part empties into the one before it.                       *)
LEMMA StreamGrows ==
  ASSUME NEW a \in Seq(Byte), NEW b \in Seq(Byte), NEW c \in Seq(Byte),
         NEW w \in Seq(Byte), NEW x \in Byte
  PROVE  a \o b \o c \o (w \o <<x>>) = (a \o b \o c \o w) \o <<x>>
<1>1. a \o b \o c \in Seq(Byte) /\ <<x>> \in Seq(Byte)
  OBVIOUS
<1> QED BY <1>1, Assoc, SMTT(60)

SameCut(a, b, h, t) == a \o b \o h \o t = a \o b \o <<>> \o (h \o t)
LEMMA StreamCut == \A a, b, h, t \in Seq(Byte) : SameCut(a, b, h, t)
<1> TAKE a, b, h, t \in Seq(Byte)
<1> USE DEF SameCut
<1>1. a \o b \in Seq(Byte)
  OBVIOUS
<1>2. a \o b \o h \o t = (a \o b) \o (h \o t)
  BY <1>1, Assoc, SMTT(60)
<1>3. (a \o b) \o <<>> = a \o b
  BY <1>1, EmptyRight, SMTT(60)
<1> QED BY <1>2, <1>3

LEMMA StreamMoves ==
  ASSUME NEW a \in Seq(Byte), NEW b \in Seq(Byte), NEW c \in Seq(Byte),
         NEW w \in Seq(Byte)
  PROVE  /\ a \o (b \o c) \o <<>> \o w = a \o b \o c \o w
         /\ (a \o b) \o <<>> \o c \o w = a \o b \o c \o w
<1>1. a \o b \in Seq(Byte) /\ a \o (b \o c) \in Seq(Byte)
  OBVIOUS
<1>2. (a \o b) \o <<>> = a \o b /\ (a \o (b \o c)) \o <<>> = a \o (b \o c)
  BY <1>1, EmptyRight, SMTT(60)
<1>3. a \o (b \o c) = (a \o b) \o c
  BY Assoc, SMTT(60)
<1> QED BY <1>2, <1>3

LEMMA StreamStep == TypeOK /\ StreamInv /\ [Next]_vars => StreamInv'
<1> SUFFICES ASSUME TypeOK /\ StreamInv, [Next]_vars PROVE StreamInv'
  OBVIOUS
<1> USE Names, SessionAssumption DEF TypeOK, Goto
<1>0. /\ drained \in Seq(Byte) /\ rxBuf \in Seq(Byte) /\ chunk \in Seq(Byte)
      /\ wire \in Seq(Byte)
  OBVIOUS
<1>1. CASE PeerSend
  <2>1. /\ sent' = sent + 1 /\ wire' = Append(wire, sent + 1)
        /\ UNCHANGED <<drained, rxBuf, chunk, pc>>
    BY <1>1 DEF PeerSend, cmdVars
  <2>a. sent + 1 \in Byte
    BY <1>1 DEF PeerSend, Byte
  <2>b. wire' = wire \o <<sent + 1>>
    BY <2>1, <2>a, AppendIsConcat
  <2>2. drained \o rxBuf \o chunk \o (wire \o <<sent + 1>>)
          = (drained \o rxBuf \o chunk \o wire) \o <<sent + 1>>
    BY ONLY <1>0, <2>a, StreamGrows, SMTT(60)
  <2>3. Stream' = Stream \o <<sent + 1>>
    BY <2>1, <2>2, <2>b DEF Stream
  <2>4. Stream' = [i \in 1 .. sent + 1 |-> i]
    BY <2>3, NextByte DEF StreamInv, Lossless
  <2>5. ChunkInv'
    BY <2>1 DEF StreamInv, ChunkInv
  <2> QED BY ONLY <2>1, <2>4, <2>5 DEF StreamInv, Lossless
<1>2. CASE PeerClose
  BY <1>2
  DEF PeerClose, cmdVars, StreamInv, Lossless,
      ChunkInv, Stream
<1>3. ASSUME NEW t \in Sleepers, Acquire(t) PROVE StreamInv'
  BY <1>3
  DEF Acquire, sockVars, cmdVars, StreamInv, Lossless,
      ChunkInv, Stream
<1>4. ASSUME NEW t \in Sleepers, Park(t) PROVE StreamInv'
  BY <1>4
  DEF Park, sockVars, cmdVars, StreamInv, Lossless,
      ChunkInv, Stream
<1>5. CASE RxRead
  <2>1. PICK n \in 1 .. Len(wire) :
          /\ chunk' = SubSeq(wire, 1, n)
          /\ wire' = SubSeq(wire, n + 1, Len(wire))
    BY <1>5 DEF RxRead
  <2>2. /\ chunk = <<>> /\ UNCHANGED <<drained, rxBuf, sent>> /\ ChunkInv'
    BY <1>5 DEF RxRead, cmdVars, StreamInv, ChunkInv
  <2>3. chunk' \in Seq(Byte) /\ wire' \in Seq(Byte)
    BY <2>1, PartOfSeq
  <2>a. chunk' \o wire' = wire
    BY <2>1, CutJoin
  <2>4. drained \o rxBuf \o chunk' \o wire'
          = drained \o rxBuf \o <<>> \o (chunk' \o wire')
    <3>1. drained \in Seq(Byte) /\ rxBuf \in Seq(Byte)
      BY ONLY <1>0
    <3>2. SameCut(drained, rxBuf, chunk', wire')
      BY ONLY <2>3, <3>1, StreamCut
    <3> QED BY ONLY <3>2 DEF SameCut
  <2>5. Stream' = Stream
    BY <2>2, <2>a, <2>4 DEF Stream
  <2> QED BY <2>2, <2>5 DEF StreamInv, Lossless
<1>6. CASE RxAppend
  <2>1. /\ rxBuf' = rxBuf \o chunk /\ chunk' = <<>> /\ ChunkInv'
        /\ UNCHANGED <<drained, sent, wire>>
    BY <1>6 DEF RxAppend, Buffered, sockVars, cmdVars, ChunkInv
  <2>2. Stream' = Stream
    BY <2>1, StreamMoves, SMTT(60) DEF Stream
  <2> QED BY <2>1, <2>2 DEF StreamInv, Lossless
<1>7. CASE RxError
  BY <1>7
  DEF RxError, sockVars, cmdVars, StreamInv, Lossless,
      ChunkInv, Stream
<1>8. CASE RxSetDead
  BY <1>8
  DEF RxSetDead, sockVars, cmdVars, StreamInv, Lossless,
      ChunkInv, Stream
<1>9. CASE RxBroadcast
  BY <1>9
  DEF RxBroadcast, Broadcast, sockVars, cmdVars, StreamInv, Lossless,
      ChunkInv, Stream
<1>10. CASE WatchCheck
  BY <1>10
  DEF WatchCheck, sockVars, cmdVars, StreamInv, Lossless,
      ChunkInv, Stream
<1>11. CASE WatchReport
  BY <1>11
  DEF WatchReport, sockVars, cmdVars, StreamInv, Lossless,
      ChunkInv, Stream
<1>12. CASE RemoveDead
  BY <1>12
  DEF RemoveDead, sockVars, cmdVars, StreamInv, Lossless,
      ChunkInv, Stream
<1>13. ASSUME NEW d \in Drainers, DrainWait(d) PROVE StreamInv'
  BY <1>13
  DEF DrainWait, sockVars, cmdVars, StreamInv, Lossless,
      ChunkInv, Stream
<1>14. ASSUME NEW d \in Drainers, DrainTake(d) PROVE StreamInv'
  <2>1. /\ rxBuf' = <<>> /\ drained' = drained \o rxBuf /\ ChunkInv'
        /\ UNCHANGED <<chunk, sent, wire>>
    BY <1>14 DEF DrainTake, sockVars, cmdVars, StreamInv, ChunkInv
  <2>2. Stream' = Stream
    BY <2>1, StreamMoves, SMTT(60) DEF Stream
  <2> QED BY <2>1, <2>2 DEF StreamInv, Lossless
<1>15. ASSUME NEW d \in Drainers, DrainOutput(d) PROVE StreamInv'
  BY <1>15
  DEF DrainOutput, Shown, sockVars, cmdVars, StreamInv, Lossless,
      ChunkInv, Stream
<1>16. CASE UsePick
  BY <1>16
  DEF UsePick, sockVars, cmdVars, StreamInv, Lossless,
      ChunkInv, Stream
<1>17. ASSUME NEW d \in Drainers, UseAttach(d) PROVE StreamInv'
  BY <1>17
  DEF UseAttach, sockVars, StreamInv, Lossless,
      ChunkInv, Stream
<1>18. CASE Back
  BY <1>18
  DEF Back, TellDrainer, Broadcast, sockVars, StreamInv, Lossless,
      ChunkInv, Stream
<1>19. CASE Bg
  BY <1>19
  DEF Bg, TellDrainer, Broadcast, sockVars, StreamInv, Lossless,
      ChunkInv, Stream
<1>20. CASE WriteFail
  BY <1>20
  DEF WriteFail, Broadcast, sockVars, StreamInv, Lossless,
      ChunkInv, Stream
<1>21. CASE SessionOver
  BY <1>21
  DEF SessionOver, sockVars, cmdVars, StreamInv, Lossless,
      ChunkInv, Stream
<1>22. CASE Defer
  BY <1>22
  DEF Defer, sockVars, cmdVars, StreamInv, Lossless,
      ChunkInv, Stream
<1>23. CASE DeferSet
  BY <1>23
  DEF DeferSet, sockVars, cmdVars, StreamInv, Lossless,
      ChunkInv, Stream
<1>24. CASE ReadBuffered
  <2>1. /\ rxBuf' = <<>> /\ drained' = drained \o rxBuf /\ ChunkInv'
        /\ UNCHANGED <<chunk, sent, wire>>
    BY <1>24 DEF ReadBuffered, sockVars, cmdVars, StreamInv, ChunkInv
  <2>2. Stream' = Stream
    BY <2>1, StreamMoves, SMTT(60) DEF Stream
  <2> QED BY <2>1, <2>2 DEF StreamInv, Lossless
<1>25. CASE KillClose
  BY <1>25
  DEF KillClose, CloseConn, cmdVars, StreamInv, Lossless,
      ChunkInv, Stream
<1>26. CASE KillRemove
  BY <1>26
  DEF KillRemove, sockVars, cmdVars, StreamInv, Lossless,
      ChunkInv, Stream
<1>27. CASE UNCHANGED vars
  BY <1>27
  DEF vars, sockVars, cmdVars, StreamInv, Lossless,
      ChunkInv, Stream
<1> QED
  BY <1>1, <1>2, <1>3, <1>4, <1>5, <1>6, <1>7, <1>8, <1>9, <1>10, <1>11,
     <1>12, <1>13, <1>14, <1>15, <1>16, <1>17, <1>18, <1>19, <1>20, <1>21,
     <1>22, <1>23, <1>24, <1>25, <1>26, <1>27
  DEF Next, Peer, RxLoop, Watch, Finish, Attach, User, Drain

(* Nothing is lost, repeated or reordered before a reader (Lossless).      *)
THEOREM StreamKept == Spec => []Lossless
<1>1. StreamInv => Lossless
  BY DEF StreamInv
<1>2. Spec => []TypeOK
  BY TypeCorrect
<1> QED BY <1>1, <1>2, StreamInit, StreamStep, PTL DEF Spec

(***************************************************************************)
(* Who holds the foreground, and which sessions may be forgotten.          *)
(***************************************************************************)
LEMMA ForegroundInit == Init => ForegroundIsAttached
BY DEF Init, ForegroundIsAttached

LEMMA ForegroundStep == TypeOK /\ ForegroundIsAttached /\ [Next]_vars => ForegroundIsAttached'
<1> SUFFICES ASSUME TypeOK /\ ForegroundIsAttached, [Next]_vars PROVE ForegroundIsAttached'
  OBVIOUS
<1> USE Names, SessionAssumption DEF TypeOK, ForegroundIsAttached, Goto
<1>1. CASE PeerSend
  BY <1>1 DEF PeerSend, cmdVars
<1>2. CASE PeerClose
  BY <1>2 DEF PeerClose, cmdVars
<1>3. ASSUME NEW t \in Sleepers, Acquire(t) PROVE ForegroundIsAttached'
  BY <1>3 DEF Acquire, sockVars, cmdVars
<1>4. ASSUME NEW t \in Sleepers, Park(t) PROVE ForegroundIsAttached'
  BY <1>4 DEF Park, sockVars, cmdVars
<1>5. CASE RxRead
  BY <1>5 DEF RxRead, cmdVars
<1>6. CASE RxAppend
  BY <1>6 DEF RxAppend, Buffered, Broadcast, sockVars, cmdVars
<1>7. CASE RxError
  BY <1>7 DEF RxError, sockVars, cmdVars
<1>8. CASE RxSetDead
  BY <1>8 DEF RxSetDead, sockVars, cmdVars
<1>9. CASE RxBroadcast
  BY <1>9 DEF RxBroadcast, Broadcast, sockVars, cmdVars
<1>10. CASE WatchCheck
  BY <1>10 DEF WatchCheck, sockVars, cmdVars
<1>11. CASE WatchReport
  BY <1>11 DEF WatchReport, sockVars, cmdVars
<1>12. CASE RemoveDead
  BY <1>12 DEF RemoveDead, sockVars, cmdVars
<1>13. ASSUME NEW d \in Drainers, DrainWait(d) PROVE ForegroundIsAttached'
  BY <1>13 DEF DrainWait, sockVars, cmdVars
<1>14. ASSUME NEW d \in Drainers, DrainTake(d) PROVE ForegroundIsAttached'
  BY <1>14 DEF DrainTake, sockVars, cmdVars
<1>15. ASSUME NEW d \in Drainers, DrainOutput(d) PROVE ForegroundIsAttached'
  BY <1>15 DEF DrainOutput, sockVars, cmdVars
<1>16. CASE UsePick
  BY <1>16 DEF UsePick, sockVars, cmdVars
<1>17. ASSUME NEW d \in Drainers, UseAttach(d) PROVE ForegroundIsAttached'
  BY <1>17 DEF UseAttach, sockVars
<1>18. CASE Back
  BY <1>18 DEF Back, TellDrainer, Broadcast, sockVars
<1>19. CASE Bg
  BY <1>19 DEF Bg, TellDrainer, Broadcast, sockVars
<1>20. CASE WriteFail
  BY <1>20 DEF WriteFail, Broadcast, sockVars
<1>21. CASE SessionOver
  BY <1>21 DEF SessionOver, sockVars, cmdVars
<1>22. CASE Defer
  BY <1>22 DEF Defer, sockVars, cmdVars, NextAfterDefer
<1>23. CASE DeferSet
  BY <1>23 DEF DeferSet, sockVars, cmdVars
<1>24. CASE ReadBuffered
  BY <1>24 DEF ReadBuffered, sockVars, cmdVars
<1>25. CASE KillClose
  BY <1>25 DEF KillClose, CloseConn, cmdVars
<1>26. CASE KillRemove
  BY <1>26 DEF KillRemove, sockVars, cmdVars
<1>27. CASE UNCHANGED vars
  BY <1>27 DEF vars, sockVars, cmdVars
<1> QED
  BY <1>1, <1>2, <1>3, <1>4, <1>5, <1>6, <1>7, <1>8, <1>9, <1>10, <1>11,
     <1>12, <1>13, <1>14, <1>15, <1>16, <1>17, <1>18, <1>19, <1>20, <1>21,
     <1>22, <1>23, <1>24, <1>25, <1>26, <1>27
  DEF Next, Peer, RxLoop, Watch, Finish, Attach, User, Drain

(* A session marked foreground has a user (ForegroundIsAttached).          *)
THEOREM ForegroundHasUser == Spec => []ForegroundIsAttached
<1>1. Spec => []TypeOK
  BY TypeCorrect
<1> QED BY <1>1, ForegroundInit, ForegroundStep, PTL DEF Spec

(* Every step towards forgetting a session follows the end of its          *)
(* connection.                                                             *)
Down == connClosed \/ peerClosed
DownInv ==
  /\ ~registered => Down
  /\ state = "Dead" => Down
  /\ pc["watch"] = "reported" => Down
  /\ pc["rx"] = "setdead" => Down
  /\ pc["cmd"] = "killed" => connClosed

LEMMA DownInit == Init => DownInv
BY Names, SessionAssumption DEF Init, Start, DownInv

LEMMA DownStep == TypeOK /\ DownInv /\ [Next]_vars => DownInv'
<1> SUFFICES ASSUME TypeOK /\ DownInv, [Next]_vars PROVE DownInv'
  OBVIOUS
<1> USE Names, SessionAssumption DEF TypeOK, DownInv, Down, Goto
<1>1. CASE PeerSend
  BY <1>1 DEF PeerSend, cmdVars
<1>2. CASE PeerClose
  BY <1>2 DEF PeerClose, cmdVars
<1>3. ASSUME NEW t \in Sleepers, Acquire(t) PROVE DownInv'
  BY <1>3 DEF Acquire, sockVars, cmdVars
<1>4. ASSUME NEW t \in Sleepers, Park(t) PROVE DownInv'
  BY <1>4 DEF Park, sockVars, cmdVars
<1>5. CASE RxRead
  BY <1>5 DEF RxRead, cmdVars
<1>6. CASE RxAppend
  BY <1>6 DEF RxAppend, Buffered, Broadcast, sockVars, cmdVars
<1>7. CASE RxError
  BY <1>7 DEF RxError, sockVars, cmdVars, ReadFails
<1>8. CASE RxSetDead
  BY <1>8 DEF RxSetDead, sockVars, cmdVars
<1>9. CASE RxBroadcast
  BY <1>9 DEF RxBroadcast, Broadcast, sockVars, cmdVars
<1>10. CASE WatchCheck
  BY <1>10 DEF WatchCheck, sockVars, cmdVars
<1>11. CASE WatchReport
  BY <1>11 DEF WatchReport, sockVars, cmdVars
<1>12. CASE RemoveDead
  BY <1>12 DEF RemoveDead, sockVars, cmdVars
<1>13. ASSUME NEW d \in Drainers, DrainWait(d) PROVE DownInv'
  BY <1>13 DEF DrainWait, sockVars, cmdVars
<1>14. ASSUME NEW d \in Drainers, DrainTake(d) PROVE DownInv'
  BY <1>14 DEF DrainTake, sockVars, cmdVars
<1>15. ASSUME NEW d \in Drainers, DrainOutput(d) PROVE DownInv'
  BY <1>15 DEF DrainOutput, sockVars, cmdVars
<1>16. CASE UsePick
  BY <1>16 DEF UsePick, sockVars, cmdVars
<1>17. ASSUME NEW d \in Drainers, UseAttach(d) PROVE DownInv'
  BY <1>17 DEF UseAttach, sockVars
<1>18. CASE Back
  BY <1>18 DEF Back, TellDrainer, Broadcast, sockVars
<1>19. CASE Bg
  BY <1>19 DEF Bg, TellDrainer, Broadcast, sockVars
<1>20. CASE WriteFail
  BY <1>20 DEF WriteFail, Broadcast, sockVars
<1>21. CASE SessionOver
  BY <1>21 DEF SessionOver, sockVars, cmdVars
<1>22. CASE Defer
  BY <1>22 DEF Defer, sockVars, cmdVars, NextAfterDefer
<1>23. CASE DeferSet
  BY <1>23 DEF DeferSet, sockVars, cmdVars
<1>24. CASE ReadBuffered
  BY <1>24 DEF ReadBuffered, sockVars, cmdVars
<1>25. CASE KillClose
  BY <1>25 DEF KillClose, CloseConn, cmdVars
<1>26. CASE KillRemove
  BY <1>26 DEF KillRemove, sockVars, cmdVars
<1>27. CASE UNCHANGED vars
  BY <1>27 DEF vars, sockVars, cmdVars
<1> QED
  BY <1>1, <1>2, <1>3, <1>4, <1>5, <1>6, <1>7, <1>8, <1>9, <1>10, <1>11,
     <1>12, <1>13, <1>14, <1>15, <1>16, <1>17, <1>18, <1>19, <1>20, <1>21,
     <1>22, <1>23, <1>24, <1>25, <1>26, <1>27
  DEF Next, Peer, RxLoop, Watch, Finish, Attach, User, Drain

(* The manager forgets a session only when its connection is down.         *)
THEOREM NeverForgottenAlive == Spec => []NeverForgotten
<1>1. DownInv => NeverForgotten
  BY DEF DownInv, Down, NeverForgotten
<1>2. Spec => []TypeOK
  BY TypeCorrect
<1> QED BY <1>1, <1>2, DownInit, DownStep, PTL DEF Spec

(***************************************************************************)
(* The notice.  When the connection ends by itself, the RX loop is the one *)
(* that marks the session dead, after it has read everything; a drainer    *)
(* that sees it dead has just emptied the buffer.                          *)
(***************************************************************************)
Announced == \E i \in DOMAIN out : out[i] = Notice
Natural   == ~connClosed /\ ~writeFailed
RxOver    == pc["rx"] \in {"bcast", "done"}
EndInv ==
  /\ pc["cmd"] = "killed" => connClosed
  /\ Natural /\ (RxOver \/ pc["rx"] = "setdead") => peerClosed /\ wire = <<>>
  /\ Natural /\ state = "Dead" => RxOver
  /\ Natural /\ Announced => RxOver /\ rxBuf = <<>>
  /\ \A d \in Drainers :
       Natural /\ hand[d].isDead => RxOver /\ rxBuf = <<>>

LEMMA EndInit == Init => EndInv
BY Names, SessionAssumption
   DEF Init, Start, EndInv, NoHand, Announced, Natural, RxOver

(* Data does not hold the notice.                                          *)
LEMMA OnlyTheNotice ==
  ASSUME NEW a \in Seq(Byte \cup {Notice}), NEW b \in Seq(Byte),
         NEW c \in {<<>>, <<Notice>>},
         NEW i \in DOMAIN (a \o b \o c), (a \o b \o c)[i] = Notice
  PROVE  (\E j \in DOMAIN a : a[j] = Notice) \/ c = <<Notice>>
<1>1. CASE c = <<>>
  <2>1. b \in Seq(Byte \cup {Notice})
    OBVIOUS
  <2>2. a \o b \in Seq(Byte \cup {Notice})
    BY <2>1
  <2>3. a \o b \o c = a \o b
    BY <1>1, <2>2, EmptyRight, SMTT(60)
  <2>4. i \in 1 .. Len(a) + Len(b) /\ (a \o b)[i] = Notice
    BY <2>3
  <2>5. CASE i \in 1 .. Len(a)
    BY <2>4, <2>5
  <2>6. CASE i \in Len(a) + 1 .. Len(a) + Len(b)
    <3>1. b[i - Len(a)] = Notice /\ i - Len(a) \in 1 .. Len(b)
      BY <2>4, <2>6
    <3>2. b[i - Len(a)] \in Byte
      BY <3>1
    <3> QED BY <3>1, <3>2, SessionAssumption DEF Byte, Notice
  <2> QED BY <2>4, <2>5, <2>6
<1>2. CASE c = <<Notice>>
  BY <1>2
<1> QED BY <1>1, <1>2

LEMMA EndStep == TypeOK /\ EndInv /\ [Next]_vars => EndInv'
<1> SUFFICES ASSUME TypeOK /\ EndInv, [Next]_vars PROVE EndInv'
  OBVIOUS
<1> USE Names, SessionAssumption DEF TypeOK, EndInv, RxOver, Natural,
               Announced, Goto
<1>1. CASE PeerSend
  BY <1>1 DEF PeerSend, cmdVars
<1>2. CASE PeerClose
  BY <1>2 DEF PeerClose, cmdVars
<1>3. ASSUME NEW t \in Sleepers, Acquire(t) PROVE EndInv'
  BY <1>3 DEF Acquire, sockVars, cmdVars
<1>4. ASSUME NEW t \in Sleepers, Park(t) PROVE EndInv'
  BY <1>4 DEF Park, sockVars, cmdVars
<1>5. CASE RxRead
  BY <1>5 DEF RxRead, cmdVars
<1>6. CASE RxAppend
  BY <1>6 DEF RxAppend, Buffered, Broadcast, sockVars, cmdVars
<1>7. CASE RxError
  BY <1>7 DEF RxError, sockVars, cmdVars, ReadFails
<1>8. CASE RxSetDead
  BY <1>8 DEF RxSetDead, sockVars, cmdVars
<1>9. CASE RxBroadcast
  BY <1>9 DEF RxBroadcast, Broadcast, sockVars, cmdVars
<1>10. CASE WatchCheck
  BY <1>10 DEF WatchCheck, sockVars, cmdVars
<1>11. CASE WatchReport
  BY <1>11 DEF WatchReport, sockVars, cmdVars
<1>12. CASE RemoveDead
  BY <1>12 DEF RemoveDead, sockVars, cmdVars
<1>13. ASSUME NEW d \in Drainers, DrainWait(d) PROVE EndInv'
  BY <1>13 DEF DrainWait, sockVars, cmdVars
<1>14. ASSUME NEW d \in Drainers, DrainTake(d) PROVE EndInv'
  BY <1>14 DEF DrainTake, sockVars, cmdVars, Idle
<1>15. ASSUME NEW d \in Drainers, DrainOutput(d) PROVE EndInv'
  <2> DEFINE last == IF hand[d].isDead /\ (Server \/ state = "Dead")
                     THEN <<Notice>> ELSE <<>>
  <2>1. out' = out \o hand[d].data \o last
    BY <1>15 DEF DrainOutput, Shown
  <2>2. last \in {<<>>, <<Notice>>} /\ (last = <<Notice>> => hand[d].isDead)
    OBVIOUS
  <2>3. hand[d].data \in Seq(Byte)
    BY Z3
  <2> HIDE DEF last
  <2>4. Announced' => Announced \/ hand[d].isDead
    BY <2>1, <2>2, <2>3, OnlyTheNotice
  <2> QED BY <1>15, <2>4 DEF DrainOutput, Shown, NoHand, sockVars, cmdVars
<1>16. CASE UsePick
  BY <1>16 DEF UsePick, sockVars, cmdVars
<1>17. ASSUME NEW d \in Drainers, UseAttach(d) PROVE EndInv'
  BY <1>17 DEF UseAttach, sockVars
<1>18. CASE Back
  BY <1>18 DEF Back, TellDrainer, Broadcast, sockVars
<1>19. CASE Bg
  BY <1>19 DEF Bg, TellDrainer, Broadcast, sockVars
<1>20. CASE WriteFail
  BY <1>20 DEF WriteFail, Broadcast, sockVars
<1>21. CASE SessionOver
  BY <1>21 DEF SessionOver, sockVars, cmdVars
<1>22. CASE Defer
  BY <1>22 DEF Defer, sockVars, cmdVars, NextAfterDefer
<1>23. CASE DeferSet
  BY <1>23 DEF DeferSet, sockVars, cmdVars
<1>24. CASE ReadBuffered
  <2>1. out' = out \o rxBuf /\ out \o rxBuf \in Seq(Byte \cup {Notice})
    BY <1>24 DEF ReadBuffered
  <2> DEFINE last == <<>>
  <2>a. out' = out \o rxBuf \o last /\ last # <<Notice>>
    BY <2>1, EmptyRight, SMTT(60)
  <2>b. last \in {<<>>, <<Notice>>}
    OBVIOUS
  <2> HIDE DEF last
  <2>2. Announced' => Announced
    BY <2>a, <2>b, OnlyTheNotice
  <2> QED BY <1>24, <2>2 DEF ReadBuffered, sockVars, cmdVars
<1>25. CASE KillClose
  BY <1>25 DEF KillClose, CloseConn, cmdVars
<1>26. CASE KillRemove
  BY <1>26 DEF KillRemove, sockVars, cmdVars
<1>27. CASE UNCHANGED vars
  BY <1>27 DEF vars, sockVars, cmdVars
<1> QED
  BY <1>1, <1>2, <1>3, <1>4, <1>5, <1>6, <1>7, <1>8, <1>9, <1>10, <1>11,
     <1>12, <1>13, <1>14, <1>15, <1>16, <1>17, <1>18, <1>19, <1>20, <1>21,
     <1>22, <1>23, <1>24, <1>25, <1>26, <1>27
  DEF Next, Peer, RxLoop, Watch, Finish, Attach, User, Drain

(* After a hang-up of the peer's own, the notice follows the last byte.    *)
THEOREM NoticeIsLast == Spec => []NoticeComplete
<1>1. TypeOK /\ StreamInv /\ EndInv => NoticeComplete
  <2> SUFFICES ASSUME TypeOK, StreamInv, EndInv, Natural, Announced
               PROVE  Len(drained) = sent
    BY DEF NoticeComplete, Natural, Announced
  <2>1. rxBuf = <<>> /\ wire = <<>> /\ chunk = <<>>
    BY DEF EndInv, RxOver, StreamInv, ChunkInv
  <2>2. drained \in Seq(Byte) /\ sent \in Nat
    BY SessionAssumption DEF TypeOK
  <2>3. Stream = drained
    BY <2>1, <2>2, EmptyRight, SMTT(60) DEF Stream
  <2> QED BY <2>2, <2>3 DEF StreamInv, Lossless
<1>2. Spec => []TypeOK
  BY TypeCorrect
<1> QED BY <1>1, <1>2, StreamInit, StreamStep, EndInit, EndStep, PTL DEF Spec

(***************************************************************************)
(* The receive path implements ByteStream.  The peer's step is Put, the    *)
(* reader's Take of the whole buffer, every other step a stutter.          *)
(***************************************************************************)
Pending == rxBuf \o chunk \o wire

(* Moves between the parts of what is pending do not change it.            *)
LEMMA PendingMoves ==
  ASSUME NEW a \in Seq(Byte), NEW b \in Seq(Byte), NEW c \in Seq(Byte)
  PROVE  /\ (a \o b) \o <<>> \o c = a \o b \o c
         /\ a \o <<>> \o (b \o c) = a \o b \o c
<1>1. a \o b \in Seq(Byte)
  OBVIOUS
<1>2. (a \o b) \o <<>> = a \o b /\ a \o <<>> = a
  BY <1>1, EmptyRight, SMTT(60)
<1>3. (a \o b) \o c = a \o (b \o c)
  BY Assoc, SMTT(60)
<1> QED BY <1>2, <1>3

(* The number of pending and taken bytes is the number sent.               *)
LEMMA Counted ==
  ASSUME TypeOK, Lossless
  PROVE  Len(drained) + Len(Pending) = sent
<1>1. /\ drained \in Seq(Byte) /\ rxBuf \in Seq(Byte) /\ chunk \in Seq(Byte)
      /\ wire \in Seq(Byte) /\ sent \in Nat
  BY SessionAssumption DEF TypeOK
<1>2. Len(Stream) = Len(drained) + Len(rxBuf) + Len(chunk) + Len(wire)
  BY <1>1 DEF Stream
<1>3. Len(Pending) = Len(rxBuf) + Len(chunk) + Len(wire)
  BY <1>1 DEF Pending
<1>4. Len(Stream) = sent
  BY <1>1 DEF Lossless
<1>5. \A a, b, c, d, m, n \in Nat : n = a + b + c + d /\ m = b + c + d => a + m = n
  OBVIOUS
<1>6. {Len(drained), Len(rxBuf), Len(chunk), Len(wire), Len(Stream), Len(Pending)} \subseteq Nat
  BY <1>1, <1>2, <1>3
<1> QED BY ONLY <1>2, <1>3, <1>4, <1>5, <1>6

(* A reader that empties the buffer takes a prefix of what is pending.     *)
LEMMA TakesPrefix ==
  ASSUME NEW b \in Seq(Byte), NEW c \in Seq(Byte)
  PROVE  /\ SubSeq(b \o c, 1, Len(b)) = b
         /\ SubSeq(b \o c, Len(b) + 1, Len(b \o c)) = c
OBVIOUS

LEMMA TakeBuffer ==
  ASSUME TypeOK, rxBuf' = <<>>, drained' = drained \o rxBuf,
         UNCHANGED <<chunk, wire>>
  PROVE  [Abstract!StreamNext]_(Abstract!streamVars)
<1>1. /\ drained \in Seq(Byte) /\ rxBuf \in Seq(Byte) /\ chunk \in Seq(Byte)
      /\ wire \in Seq(Byte)
  BY DEF TypeOK
<1>2. chunk \o wire \in Seq(Byte)
  BY <1>1
<1>3. Pending = rxBuf \o (chunk \o wire)
  BY <1>1, Assoc, SMTT(60) DEF Pending
<1>4. Pending' = chunk \o wire
  BY <1>1, <1>2, ConcatEmptySeq DEF Pending
<1>5. CASE rxBuf = <<>>
  <2>1. Pending' = Pending
    BY <1>2, <1>3, <1>4, <1>5, ConcatEmptySeq
  <2>2. drained' = drained
    BY <1>1, <1>5, EmptyRight, SMTT(60)
  <2> QED BY <2>1, <2>2 DEF Abstract!streamVars, Pending
<1>6. CASE rxBuf # <<>>
  <2>1. Len(rxBuf) \in 1 .. Len(Pending)
    <3>1. Len(rxBuf) \in Nat /\ Len(rxBuf) # 0
      BY <1>1, <1>6
    <3>2. Len(Pending) = Len(rxBuf) + Len(chunk \o wire)
      BY <1>1, <1>2, <1>3
    <3>3. Len(chunk \o wire) \in Nat
      BY <1>2
    <3> QED BY <3>1, <3>2, <3>3
  <2>2. /\ drained' = drained \o SubSeq(Pending, 1, Len(rxBuf))
        /\ Pending' = SubSeq(Pending, Len(rxBuf) + 1, Len(Pending))
    BY <1>1, <1>2, <1>3, <1>4, TakesPrefix
  <2> QED BY <2>1, <2>2 DEF Abstract!StreamNext, Abstract!Take, Pending
<1> QED BY <1>5, <1>6

LEMMA StreamRefined ==
  TypeOK /\ StreamInv /\ [Next]_vars => [Abstract!StreamNext]_(Abstract!streamVars)
<1> SUFFICES ASSUME TypeOK /\ StreamInv, [Next]_vars
             PROVE  [Abstract!StreamNext]_(Abstract!streamVars)
  OBVIOUS
<1> USE Names, SessionAssumption DEF TypeOK
<1>1. CASE PeerSend
  <2>1. /\ sent' = sent + 1 /\ wire' = Append(wire, sent + 1)
        /\ UNCHANGED <<drained, rxBuf, chunk>>
    BY <1>1 DEF PeerSend, cmdVars, Abstract!streamVars
  <2>2. sent + 1 \in Byte
    BY <1>1 DEF PeerSend, Byte, Abstract!streamVars
  <2>3. Pending' = Append(Pending, sent + 1)
    <3>1. rxBuf \o chunk \in Seq(Byte)
      OBVIOUS
    <3>2. (rxBuf \o chunk) \o Append(wire, sent + 1)
            = Append((rxBuf \o chunk) \o wire, sent + 1)
      BY <2>2, <3>1
    <3> QED BY <2>1, <3>2 DEF Pending
  <2>4. Len(drained) + Len(Pending) + 1 = sent + 1
    BY Counted DEF StreamInv
  <2> QED BY <2>1, <2>3, <2>4 DEF Abstract!StreamNext, Abstract!Put, Pending
<1>2. CASE PeerClose
  BY <1>2 DEF PeerClose, cmdVars, Abstract!streamVars
<1>3. ASSUME NEW t \in Sleepers, Acquire(t)
       PROVE  [Abstract!StreamNext]_(Abstract!streamVars)
  BY <1>3 DEF Acquire, sockVars, cmdVars, Abstract!streamVars
<1>4. ASSUME NEW t \in Sleepers, Park(t)
       PROVE  [Abstract!StreamNext]_(Abstract!streamVars)
  BY <1>4 DEF Park, sockVars, cmdVars, Abstract!streamVars
<1>5. CASE RxRead
  <2>1. PICK n \in 1 .. Len(wire) :
          /\ chunk' = SubSeq(wire, 1, n)
          /\ wire' = SubSeq(wire, n + 1, Len(wire))
    BY <1>5 DEF RxRead, Abstract!streamVars
  <2>2. chunk = <<>> /\ UNCHANGED <<drained, rxBuf>>
    BY <1>5 DEF RxRead, cmdVars, StreamInv, ChunkInv, Abstract!streamVars
  <2>3. chunk' \in Seq(Byte) /\ wire' \in Seq(Byte)
    BY <2>1, PartOfSeq
  <2>4. chunk' \o wire' = wire
    BY <2>1, CutJoin
  <2>5. rxBuf \o <<>> \o (chunk' \o wire') = rxBuf \o chunk' \o wire'
    <3>1. \A h, t \in Seq(Byte) : rxBuf \o <<>> \o (h \o t) = rxBuf \o h \o t
      <4>1. rxBuf \in Seq(Byte)
        OBVIOUS
      <4> TAKE h, t \in Seq(Byte)
      <4> QED BY ONLY <4>1, h \in Seq(Byte), t \in Seq(Byte), PendingMoves, SMTT(60)
    <3> QED BY ONLY <2>3, <3>1
  <2>6. Pending' = Pending
    BY <2>2, <2>4, <2>5 DEF Pending
  <2> QED BY <2>2, <2>6 DEF Pending, Abstract!streamVars
<1>6. CASE RxAppend
  <2>1. /\ rxBuf' = rxBuf \o chunk /\ chunk' = <<>>
        /\ UNCHANGED <<drained, wire>>
    BY <1>6 DEF RxAppend, Buffered, sockVars, cmdVars, Abstract!streamVars
  <2>2. Pending' = Pending
    BY <2>1, PendingMoves, SMTT(60) DEF Pending
  <2> QED BY <2>1, <2>2 DEF Pending, Abstract!streamVars
<1>7. CASE RxError
  BY <1>7 DEF RxError, sockVars, cmdVars, Abstract!streamVars
<1>8. CASE RxSetDead
  BY <1>8 DEF RxSetDead, sockVars, cmdVars, Abstract!streamVars
<1>9. CASE RxBroadcast
  BY <1>9 DEF RxBroadcast, Broadcast, sockVars, cmdVars, Abstract!streamVars
<1>10. CASE WatchCheck
  BY <1>10 DEF WatchCheck, sockVars, cmdVars, Abstract!streamVars
<1>11. CASE WatchReport
  BY <1>11 DEF WatchReport, sockVars, cmdVars, Abstract!streamVars
<1>12. CASE RemoveDead
  BY <1>12 DEF RemoveDead, sockVars, cmdVars, Abstract!streamVars
<1>13. ASSUME NEW d \in Drainers, DrainWait(d)
       PROVE  [Abstract!StreamNext]_(Abstract!streamVars)
  BY <1>13 DEF DrainWait, sockVars, cmdVars, Abstract!streamVars
<1>14. ASSUME NEW d \in Drainers, DrainTake(d)
       PROVE  [Abstract!StreamNext]_(Abstract!streamVars)
  BY <1>14, TakeBuffer DEF DrainTake, sockVars, cmdVars
<1>15. ASSUME NEW d \in Drainers, DrainOutput(d)
       PROVE  [Abstract!StreamNext]_(Abstract!streamVars)
  BY <1>15 DEF DrainOutput, sockVars, cmdVars, Abstract!streamVars
<1>16. CASE UsePick
  BY <1>16 DEF UsePick, sockVars, cmdVars, Abstract!streamVars
<1>17. ASSUME NEW d \in Drainers, UseAttach(d)
       PROVE  [Abstract!StreamNext]_(Abstract!streamVars)
  BY <1>17 DEF UseAttach, sockVars, Abstract!streamVars
<1>18. CASE Back
  BY <1>18 DEF Back, TellDrainer, Broadcast, sockVars, Abstract!streamVars
<1>19. CASE Bg
  BY <1>19 DEF Bg, TellDrainer, Broadcast, sockVars, Abstract!streamVars
<1>20. CASE WriteFail
  BY <1>20 DEF WriteFail, Broadcast, sockVars, Abstract!streamVars
<1>21. CASE SessionOver
  BY <1>21 DEF SessionOver, sockVars, cmdVars, Abstract!streamVars
<1>22. CASE Defer
  BY <1>22 DEF Defer, sockVars, cmdVars, Abstract!streamVars
<1>23. CASE DeferSet
  BY <1>23 DEF DeferSet, sockVars, cmdVars, Abstract!streamVars
<1>24. CASE ReadBuffered
  BY <1>24, TakeBuffer DEF ReadBuffered, sockVars, cmdVars
<1>25. CASE KillClose
  BY <1>25 DEF KillClose, CloseConn, cmdVars, Abstract!streamVars
<1>26. CASE KillRemove
  BY <1>26 DEF KillRemove, sockVars, cmdVars, Abstract!streamVars
<1>27. CASE UNCHANGED vars
  BY <1>27 DEF vars, sockVars, cmdVars, Abstract!streamVars
<1> QED
  BY <1>1, <1>2, <1>3, <1>4, <1>5, <1>6, <1>7, <1>8, <1>9, <1>10, <1>11,
     <1>12, <1>13, <1>14, <1>15, <1>16, <1>17, <1>18, <1>19, <1>20, <1>21,
     <1>22, <1>23, <1>24, <1>25, <1>26, <1>27
  DEF Next, Peer, RxLoop, Watch, Finish, Attach, User, Drain

(* The receive path refines the abstract byte stream.                      *)
THEOREM Refinement == Spec => RefinesStream
<1>1. Init => Abstract!StreamInit
  BY DEF Init, Abstract!StreamInit
<1>2. Spec => []TypeOK
  BY TypeCorrect
<1> QED BY <1>1, <1>2, StreamInit, StreamStep, StreamRefined, PTL
        DEF Spec, RefinesStream, Abstract!StreamSpec
=============================================================================
