--------------------------- MODULE ForwardProofs ---------------------------
(***************************************************************************)
(* Forward.tla, proved for any sets of ports, forwards, proxies and        *)
(* connections, any number of bytes and either mode.                       *)
(***************************************************************************)
EXTENDS Forward, SequenceTheorems, FiniteSetTheorems, TLAPS

Line == [byte : Nat, to : Logs \cup {None}]

TInv ==
  /\ TypeOK
  /\ sent \in [Pipes -> Nat] /\ src \in [Pipes -> Seq(Nat)]
  /\ buf \in [Pipes -> Seq(Nat)] /\ got \in [Pipes -> Seq(Nat)]
  /\ logged \in [Pipes -> Seq(Line)]

(* A connection belongs to a forward from its accept on; its pipes start   *)
(* empty, after that; a copying goroutine reads with empty hands.          *)
StageInv ==
  /\ \A c \in Conns : h[c] # "new" => fw[c] # None
  /\ \A x \in Pipes :
       /\ cp[x] # "unborn" => h[x[1]] \in {"pipe", "done"}
       /\ cp[x] \in {"unborn", "read"} => buf[x] = <<>>
       /\ cp[x] = "unborn" => got[x] = <<>> /\ logged[x] = <<>>

(* A proxy has logged exactly what it has read.                            *)
Bytes(l) == [k \in DOMAIN l |-> l[k].byte]
LogInv == \A x \in Pipes : fw[x[1]] \in Proxies => Bytes(logged[x]) = got[x] \o buf[x]
-----------------------------------------------------------------------------
(* Sequences.                                                              *)

LEMMA PartOfSeq ==
  ASSUME NEW S, NEW s \in Seq(S), NEW m \in 1 .. Len(s) + 1,
         NEW n \in 0 .. Len(s)
  PROVE  SubSeq(s, m, n) \in Seq(S)
BY SubSeqProperties

LEMMA CutJoin ==
  ASSUME NEW S, NEW s \in Seq(S), NEW n \in 1 .. Len(s)
  PROVE  SubSeq(s, 1, n) \o SubSeq(s, n + 1, Len(s)) = s
BY ConcatAdjacentSubSeq, SubSeqFull

LEMMA Assoc ==
  ASSUME NEW a \in Seq(Nat), NEW b \in Seq(Nat), NEW c \in Seq(Nat)
  PROVE  (a \o b) \o c = a \o (b \o c)
BY ConcatAssociative, SMTT(60)

LEMMA Prefix ==
  ASSUME NEW S, NEW s \in Seq(S), NEW t \in Seq(S)
  PROVE  IsPrefix(s, s \o t)
BY DEF IsPrefix

(* A function on 1 .. n is a sequence.                                     *)
LEMMA FunctionIsSeq ==
  ASSUME NEW S, NEW n \in Nat, NEW f, f = [k \in 1 .. n |-> f[k]],
         \A k \in 1 .. n : f[k] \in S
  PROVE  f \in Seq(S) /\ Len(f) = n
<1>1. f \in [1 .. n -> S]
  OBVIOUS
<1> QED BY <1>1, SeqDef, LenProperties

LEMMA ConcatIs ==
  ASSUME NEW S, NEW a \in Seq(S), NEW b \in Seq(S)
  PROVE  /\ a \o b = [k \in 1 .. Len(a) + Len(b) |-> (a \o b)[k]]
         /\ \A k \in 1 .. Len(a) : (a \o b)[k] = a[k]
         /\ \A k \in Len(a) + 1 .. Len(a) + Len(b) : (a \o b)[k] = b[k - Len(a)]
<1> DEFINE ab == a \o b
<1>1. ab \in Seq(S) /\ Len(ab) = Len(a) + Len(b) /\ Len(a) \in Nat /\ Len(b) \in Nat
  BY ConcatProperties, LenProperties
<1>2. \A k \in 1 .. Len(a) + Len(b) : ab[k] = IF k <= Len(a) THEN a[k] ELSE b[k - Len(a)]
  BY ConcatProperties
<1> HIDE DEF ab
<1>3. ab \in [1 .. Len(ab) -> S]
  BY <1>1, LenProperties
<1>4. ab = [k \in 1 .. Len(a) + Len(b) |-> ab[k]]
  BY <1>1, <1>3
<1>5. /\ \A k \in 1 .. Len(a) : ab[k] = a[k]
      /\ \A k \in Len(a) + 1 .. Len(a) + Len(b) : ab[k] = b[k - Len(a)]
  BY ONLY <1>1, <1>2
<1> QED BY ONLY <1>4, <1>5 DEF ab

(* The bytes of a log that grows.                                          *)
LEMMA BytesJoin ==
  ASSUME NEW a \in Seq(Line), NEW b \in Seq(Line)
  PROVE  Bytes(a \o b) = Bytes(a) \o Bytes(b)
<1>1. /\ DOMAIN (a \o b) = 1 .. Len(a) + Len(b) /\ Len(a) \in Nat /\ Len(b) \in Nat
      /\ DOMAIN a = 1 .. Len(a) /\ DOMAIN b = 1 .. Len(b)
      /\ \A k \in 1 .. Len(a) : (a \o b)[k] = a[k]
      /\ \A k \in Len(a) + 1 .. Len(a) + Len(b) : (a \o b)[k] = b[k - Len(a)]
  OBVIOUS
<1>2. Bytes(a) \in Seq(Nat) /\ Len(Bytes(a)) = Len(a)
  <2>1. \A k \in 1 .. Len(a) : a[k] \in Line
    BY <1>1
  <2>2. \A k \in 1 .. Len(a) : Bytes(a)[k] \in Nat
    BY <1>1, <2>1 DEF Bytes, Line
  <2>3. Bytes(a) = [k \in 1 .. Len(a) |-> Bytes(a)[k]]
    BY <1>1 DEF Bytes
  <2> QED BY ONLY <1>1, <2>2, <2>3, FunctionIsSeq
<1>3. Bytes(b) \in Seq(Nat) /\ Len(Bytes(b)) = Len(b)
  <2>1. \A k \in 1 .. Len(b) : b[k] \in Line
    BY <1>1
  <2>2. \A k \in 1 .. Len(b) : Bytes(b)[k] \in Nat
    BY <1>1, <2>1 DEF Bytes, Line
  <2>3. Bytes(b) = [k \in 1 .. Len(b) |-> Bytes(b)[k]]
    BY <1>1 DEF Bytes
  <2> QED BY ONLY <1>1, <2>2, <2>3, FunctionIsSeq
<1> DEFINE ab == Bytes(a) \o Bytes(b)
<1>4. /\ ab = [k \in 1 .. Len(a) + Len(b) |-> ab[k]]
      /\ \A k \in 1 .. Len(a) : ab[k] = Bytes(a)[k]
      /\ \A k \in Len(a) + 1 .. Len(a) + Len(b) : ab[k] = Bytes(b)[k - Len(a)]
  <2> DEFINE ba == Bytes(a)
             bb == Bytes(b)
  <2>1. ba \in Seq(Nat) /\ bb \in Seq(Nat) /\ Len(ba) = Len(a) /\ Len(bb) = Len(b)
    BY <1>2, <1>3
  <2> HIDE DEF ba, bb
  <2>2. /\ ba \o bb = [k \in 1 .. Len(ba) + Len(bb) |-> (ba \o bb)[k]]
        /\ \A k \in 1 .. Len(ba) : (ba \o bb)[k] = ba[k]
        /\ \A k \in Len(ba) + 1 .. Len(ba) + Len(bb) : (ba \o bb)[k] = bb[k - Len(ba)]
    BY ONLY <2>1, ConcatIs
  <2> QED BY ONLY <2>1, <2>2 DEF ba, bb
<1>5. \A k \in 1 .. Len(a) + Len(b) : ab[k] = (a \o b)[k].byte
  BY <1>1, <1>4 DEF Bytes
<1>7. Bytes(a \o b) = [k \in 1 .. Len(a) + Len(b) |-> (a \o b)[k].byte]
  BY <1>1 DEF Bytes
<1> HIDE DEF ab
<1>8. Bytes(a \o b) = ab
  BY ONLY <1>4, <1>5, <1>7
<1> QED BY <1>8 DEF ab

-----------------------------------------------------------------------------
(* Types.                                                                  *)

LEMMA PipeParts == \A x \in Pipes : x[1] \in Conns /\ x[2] \in Dirs
BY DEF Pipes

LEMMA TypeInit == Init => TInv /\ StageInv
<1> SUFFICES ASSUME Init PROVE TInv /\ StageInv
  OBVIOUS
<1>1. StageInv
  BY DEF Init, StageInv, Pipes
<1>2. TypeOK
  BY ForwardAssumption, PipeParts DEF Init, TypeOK, Byte
<1> QED BY <1>1, <1>2 DEF Init, TInv

LEMMA StageStep == TInv /\ StageInv /\ [Next]_vars => StageInv'
<1> SUFFICES ASSUME TInv, StageInv, [Next]_vars PROVE StageInv'
  OBVIOUS
<1> USE ForwardAssumption, PipeParts DEF TInv, TypeOK, StageInv
<1>1. CASE UNCHANGED <<fw, h, cp, buf, got, logged>>
  BY <1>1
<1>2. CASE Manager
  BY <1>1, <1>2 DEF Manager, Open, Close, SetLogFile, ClientGone, ClientCome,
                    connVars, copyVars, logVars
<1>3. ASSUME NEW x \in Pipes, PeerSend(x) \/ PeerFin(x) PROVE StageInv'
  BY <1>1, <1>3 DEF PeerSend, PeerFin, connVars, copyVars, logVars
<1>4. ASSUME NEW c \in Conns, PeerReset(c) PROVE StageInv'
  BY <1>1, <1>4 DEF PeerReset, connVars, copyVars, logVars
<1>5. ASSUME NEW c \in Conns, NEW i \in Instances, Accept(c, i) PROVE StageInv'
  BY <1>5 DEF Accept, copyVars, logVars
<1>6. ASSUME NEW c \in Conns, DialFail(c) PROVE StageInv'
  BY <1>6 DEF DialFail, copyVars, logVars
<1>7. ASSUME NEW c \in Conns, Dial(c) PROVE StageInv'
  BY <1>7 DEF Dial
<1>8. ASSUME NEW c \in Conns, HandleDone(c) \/ HandleCancelled(c) PROVE StageInv'
  BY <1>8 DEF HandleDone, HandleCancelled, copyVars, logVars
<1>9. ASSUME NEW x \in Pipes, CopyRead(x) PROVE StageInv'
  BY <1>9 DEF CopyRead, At, CpGoto, connVars
<1>10. ASSUME NEW x \in Pipes, CopyWrite(x) PROVE StageInv'
  BY <1>10 DEF CopyWrite, At, CpGoto, connVars, logVars
<1>11. ASSUME NEW x \in Pipes, CopyEnd(x) PROVE StageInv'
  BY <1>11 DEF CopyEnd, At, CpGoto, connVars, logVars
<1>12. ASSUME NEW x \in Pipes, CopyCount(x) PROVE StageInv'
  BY <1>12 DEF CopyCount, At, CpGoto, connVars, logVars
<1>13. ASSUME NEW x \in Pipes, CopyClose(x) PROVE StageInv'
  BY <1>13 DEF CopyClose, At, CpGoto, connVars, logVars
<1>14. CASE UNCHANGED vars
  BY <1>1, <1>14 DEF vars, connVars, copyVars, logVars
<1> QED
  BY <1>2, <1>3, <1>4, <1>5, <1>6, <1>7, <1>8, <1>9, <1>10, <1>11, <1>12, <1>13,
     <1>14
  DEF Next, Peers, Handle, Copy

(* `done` is closed once. *)
LEMMA ClosedOnce ==
  ASSUME TypeOK, NEW c \in Conns, CloseAll(c)
  PROVE  up' \subseteq Conns /\ dones' \in [Conns -> 0 .. 1]
BY DEF TypeOK, CloseAll, endVars

LEMMA TypeStep == TInv /\ StageInv /\ [Next]_vars => TInv'
<1> SUFFICES ASSUME TInv, StageInv, [Next]_vars PROVE TInv'
  OBVIOUS
<1> USE ForwardAssumption, PipeParts DEF TInv, TypeOK
<1>1. ASSUME NEW p \in Ports, NEW i \in Instances, Open(p, i) PROVE TInv'
  BY <1>1 DEF Open, connVars, endVars, peerVars, copyVars
<1>2. ASSUME NEW p \in Ports, Close(p) PROVE TInv'
  BY <1>2 DEF Close, connVars, endVars, peerVars, copyVars, logVars
<1>3. ASSUME NEW p \in Ports, NEW d \in Logs, SetLogFile(p, d) PROVE TInv'
  BY <1>3 DEF SetLogFile, mgrVars, connVars, endVars, peerVars, copyVars
<1>4. CASE ClientGone \/ ClientCome
  <2>1. CASE ClientGone
    BY <2>1 DEF ClientGone, connVars, endVars, peerVars, copyVars, logVars
  <2>2. CASE ClientCome
    BY <2>2 DEF ClientCome, connVars, endVars, peerVars, copyVars, logVars
  <2> QED BY <1>4, <2>1, <2>2
<1>5. ASSUME NEW c \in Conns, NEW i \in Instances, Accept(c, i) PROVE TInv'
  BY <1>5 DEF Accept, mgrVars, peerVars, copyVars, logVars
<1>6. ASSUME NEW c \in Conns, DialFail(c) PROVE TInv'
  BY <1>6 DEF DialFail, mgrVars, peerVars, copyVars, logVars
<1>7. ASSUME NEW c \in Conns, Dial(c) PROVE TInv'
  BY <1>7 DEF Dial, StageInv, mgrVars, endVars, peerVars
<1>8. ASSUME NEW c \in Conns, HandleDone(c) PROVE TInv'
  BY <1>8 DEF HandleDone, mgrVars, endVars, peerVars, copyVars, logVars
<1>9. ASSUME NEW c \in Conns, HandleCancelled(c) PROVE TInv'
  BY <1>9, ClosedOnce DEF HandleCancelled, mgrVars, peerVars, copyVars, logVars
<1>10. ASSUME NEW x \in Pipes, PeerSend(x) PROVE TInv'
  <2>1. /\ sent' = [sent EXCEPT ![x] = @ + 1] /\ sent[x] < MaxBytes[x[2]]
        /\ src' = [src EXCEPT ![x] = Append(@, sent[x] + 1)]
    BY <1>10 DEF PeerSend
  <2>2. sent[x] + 1 \in Byte(x) /\ sent[x] \in Nat
    BY <2>1 DEF Byte
  <2>3. /\ Append(src[x], sent[x] + 1) \in Seq(Byte(x))
        /\ Append(src[x], sent[x] + 1) \in Seq(Nat)
    BY <2>2, AppendProperties, SMTT(60)
  <2> QED
    BY <1>10, <2>1, <2>2, <2>3
    DEF PeerSend, mgrVars, connVars, endVars, copyVars, logVars
<1>11. ASSUME NEW x \in Pipes, PeerFin(x) PROVE TInv'
  BY <1>11 DEF PeerFin, mgrVars, connVars, endVars, copyVars, logVars
<1>12. ASSUME NEW c \in Conns, PeerReset(c) PROVE TInv'
  BY <1>12 DEF PeerReset, mgrVars, connVars, endVars, copyVars, logVars
<1>13. ASSUME NEW x \in Pipes, CopyRead(x) PROVE TInv'
  <2>1. PICK n \in 1 .. Len(src[x]) :
          /\ buf' = [buf EXCEPT ![x] = SubSeq(src[x], 1, n)]
          /\ src' = [src EXCEPT ![x] = SubSeq(@, n + 1, Len(@))]
          /\ LET lines == [k \in 1 .. n |-> [byte |-> src[x][k], to |-> lw[x[1]]]]
             IN  logged' = IF Tees(x) THEN [logged EXCEPT ![x] = @ \o lines]
                                      ELSE logged
    BY <1>13 DEF CopyRead
  <2> DEFINE head == SubSeq(src[x], 1, n)
             rest == SubSeq(src[x], n + 1, Len(src[x]))
             lines == [k \in 1 .. n |-> [byte |-> src[x][k], to |-> lw[x[1]]]]
  <2>2. {head, rest} \subseteq Seq(Byte(x)) /\ {head, rest} \subseteq Seq(Nat)
    BY PartOfSeq, SMTT(60)
  <2>3. lines \in Seq(Line)
    <3>1. \A k \in 1 .. n : lines[k] \in Line
      BY DEF Line
    <3>2. lines = [k \in 1 .. n |-> lines[k]]
      OBVIOUS
    <3> HIDE DEF lines
    <3> QED BY ONLY <3>1, <3>2, FunctionIsSeq, n \in Nat
  <2>4. logged' \in [Pipes -> Seq(Line)]
    BY <2>1, <2>3, SMTT(60)
  <2>5. /\ buf' = [buf EXCEPT ![x] = head] /\ src' = [src EXCEPT ![x] = rest]
        /\ cp' = [cp EXCEPT ![x] = "write"]
    BY <1>13, <2>1 DEF CopyRead, CpGoto
  <2> HIDE DEF head, rest, lines
  <2>6. /\ src' \in [Pipes -> Seq(Nat)] /\ buf' \in [Pipes -> Seq(Nat)]
        /\ cp' \in [Pipes -> {"unborn", "read", "write", "count", "close", "done"}]
    BY <2>2, <2>5
  <2>7. ASSUME NEW y \in Pipes
        PROVE  {src'[y], buf'[y], got[y]} \subseteq Seq(Byte(y))
    BY <2>2, <2>5
  <2> QED
    BY <1>13, <2>4, <2>6, <2>7 DEF CopyRead, mgrVars, connVars, endVars
<1>14. ASSUME NEW x \in Pipes, CopyWrite(x) PROVE TInv'
  <2>1. PICK n \in 1 .. Len(buf[x]) :
          /\ got' = [got EXCEPT ![x] = @ \o SubSeq(buf[x], 1, n)]
          /\ buf' = [buf EXCEPT ![x] = SubSeq(@, n + 1, Len(@))]
          /\ CpGoto(x, IF n = Len(buf[x]) THEN "read" ELSE "write")
    BY <1>14 DEF CopyWrite
  <2> DEFINE head == SubSeq(buf[x], 1, n)
             rest == SubSeq(buf[x], n + 1, Len(buf[x]))
  <2>2. {head, rest} \subseteq Seq(Byte(x)) /\ {head, rest} \subseteq Seq(Nat)
    BY PartOfSeq, SMTT(60)
  <2> HIDE DEF head, rest
  <2>3. got[x] \o head \in Seq(Byte(x)) /\ got[x] \o head \in Seq(Nat)
    BY <2>2, SMTT(60)
  <2>4. /\ got' = [got EXCEPT ![x] = got[x] \o head]
        /\ buf' = [buf EXCEPT ![x] = rest]
    BY <2>1 DEF head, rest
  <2>5. cp' \in [Pipes -> {"unborn", "read", "write", "count", "close", "done"}]
    BY <2>1 DEF CpGoto
  <2>6. got' \in [Pipes -> Seq(Nat)] /\ buf' \in [Pipes -> Seq(Nat)]
    BY <2>2, <2>3, <2>4
  <2>7. ASSUME NEW y \in Pipes
        PROVE  {src[y], buf'[y], got'[y]} \subseteq Seq(Byte(y))
    BY <2>2, <2>3, <2>4
  <2> QED
    BY <1>14, <2>5, <2>6, <2>7
    DEF CopyWrite, mgrVars, connVars, endVars, peerVars, logVars
<1>15. ASSUME NEW x \in Pipes, CopyEnd(x) PROVE TInv'
  BY <1>15 DEF CopyEnd, CpGoto, mgrVars, connVars, endVars, peerVars, logVars
<1>16. ASSUME NEW x \in Pipes, CopyCount(x) PROVE TInv'
  <2>1. fw[x[1]] \in Instances
    <3>1. h[x[1]] # "new"
      BY <1>16 DEF CopyCount, At, StageInv
    <3> QED BY <3>1 DEF StageInv
  <2>3. Count(x) \in Nat
    <3>1. got[x] \in Seq(Nat)
      OBVIOUS
    <3> QED BY <3>1 DEF Count
  <2>2. total' \in [Instances \X Dirs -> Nat]
    <3>1. /\ <<fw[x[1]], x[2]>> \in Instances \X Dirs
          /\ total[<<fw[x[1]], x[2]>>] + Count(x) \in Nat
      BY <2>1, <2>3
    <3> HIDE DEF TypeOK, TInv
    <3> QED BY <1>16, <3>1, TypeOK DEF CopyCount, TypeOK, TInv
  <2> QED
    BY <1>16, <2>2 DEF CopyCount, CpGoto, mgrVars, connVars, endVars, peerVars, logVars
<1>17. ASSUME NEW x \in Pipes, CopyClose(x) PROVE TInv'
  BY <1>17, ClosedOnce DEF CopyClose, CpGoto, mgrVars, connVars, peerVars, logVars
<1>18. CASE UNCHANGED vars
  BY <1>18 DEF vars, mgrVars, connVars, endVars, peerVars, copyVars, logVars
<1> QED
  BY <1>1, <1>2, <1>3, <1>4, <1>5, <1>6, <1>7, <1>8, <1>9, <1>10, <1>11, <1>12,
     <1>13, <1>14, <1>15, <1>16, <1>17, <1>18
  DEF Next, Manager, Peers, Handle, Copy
-----------------------------------------------------------------------------
(* What a pipe holds and what it has delivered.                            *)

LEMMA PipeTypes ==
  ASSUME TInv, NEW x \in Pipes
  PROVE  /\ got[x] \in Seq(Nat) /\ buf[x] \in Seq(Nat) /\ src[x] \in Seq(Nat)
         /\ sent[x] \in Nat
BY DEF TInv

LEMMA EmptySides ==
  ASSUME NEW S, NEW s \in Seq(S)
  PROVE  s \o <<>> = s /\ <<>> \o s = s
BY ConcatEmptySeq

LEMMA NextByte ==
  ASSUME NEW n \in Nat
  PROVE  [k \in 1 .. n |-> k] \o <<n + 1>> = [k \in 1 .. n + 1 |-> k]
OBVIOUS

(* The three moves of a byte: it is sent, read, written.                   *)
LEMMA PipeGrows ==
  ASSUME NEW g \in Seq(Nat), NEW b \in Seq(Nat), NEW s \in Seq(Nat), NEW e \in Nat
  PROVE  g \o b \o Append(s, e) = (g \o b \o s) \o <<e>>
<1>1. g \o b \in Seq(Nat) /\ <<e>> \in Seq(Nat)
  OBVIOUS
<1>2. Append(s, e) = s \o <<e>>
  BY AppendIsConcat
<1> QED BY <1>1, <1>2, Assoc, SMTT(60)

LEMMA PipeReads ==
  ASSUME NEW g \in Seq(Nat), NEW s \in Seq(Nat), NEW n \in 1 .. Len(s)
  PROVE  g \o SubSeq(s, 1, n) \o SubSeq(s, n + 1, Len(s)) = g \o <<>> \o s
<1> DEFINE head == SubSeq(s, 1, n)
           rest == SubSeq(s, n + 1, Len(s))
<1>1. head \in Seq(Nat) /\ rest \in Seq(Nat)
  BY PartOfSeq
<1>2. head \o rest = s
  BY CutJoin
<1> HIDE DEF head, rest
<1>3. (g \o head) \o rest = g \o (head \o rest)
  BY ONLY <1>1, g \in Seq(Nat), Assoc
<1>4. g \o <<>> = g
  BY EmptySides
<1> QED BY ONLY <1>2, <1>3, <1>4 DEF head, rest

LEMMA PipeWrites ==
  ASSUME NEW g \in Seq(Nat), NEW b \in Seq(Nat), NEW n \in 1 .. Len(b)
  PROVE  (g \o SubSeq(b, 1, n)) \o SubSeq(b, n + 1, Len(b)) = g \o b
<1> DEFINE head == SubSeq(b, 1, n)
           rest == SubSeq(b, n + 1, Len(b))
<1>1. head \in Seq(Nat) /\ rest \in Seq(Nat)
  BY PartOfSeq
<1>2. head \o rest = b
  BY CutJoin
<1> HIDE DEF head, rest
<1>3. (g \o head) \o rest = g \o (head \o rest)
  BY ONLY <1>1, g \in Seq(Nat), Assoc
<1> QED BY ONLY <1>2, <1>3 DEF head, rest

pipeVars == <<fw, sent, src, buf, got, logged>>

(* Only sending, reading, writing and accepting touch what a pipe holds.   *)
LEMMA PipesAlone ==
  ASSUME [Next]_vars
  PROVE  \/ UNCHANGED pipeVars
         \/ \E c \in Conns, i \in Instances : Accept(c, i)
         \/ \E x \in Pipes : PeerSend(x) \/ CopyRead(x) \/ CopyWrite(x)
<1> USE DEF pipeVars, mgrVars, connVars, endVars, peerVars, copyVars, logVars
<1>1. CASE Manager
  BY <1>1 DEF Manager, Open, Close, SetLogFile, ClientGone, ClientCome
<1>2. ASSUME NEW x \in Pipes, PeerFin(x) PROVE UNCHANGED pipeVars
  BY <1>2 DEF PeerFin
<1>3. ASSUME NEW c \in Conns, PeerReset(c) PROVE UNCHANGED pipeVars
  BY <1>3 DEF PeerReset
<1>4. ASSUME NEW c \in Conns, Handle(c) PROVE UNCHANGED pipeVars
  BY <1>4 DEF Handle, DialFail, Dial, HandleDone, HandleCancelled
<1>5. ASSUME NEW x \in Pipes, CopyEnd(x) \/ CopyCount(x) \/ CopyClose(x)
      PROVE  UNCHANGED pipeVars
  BY <1>5 DEF CopyEnd, CopyCount, CopyClose
<1>6. CASE UNCHANGED vars
  BY <1>6 DEF vars
<1> QED
  BY <1>1, <1>2, <1>3, <1>4, <1>5, <1>6 DEF Next, Peers, Copy

LEMMA OrderInit == Init => InOrder /\ LogInv
<1> SUFFICES ASSUME Init PROVE InOrder /\ LogInv
  OBVIOUS
<1>1. ASSUME NEW x \in Pipes
      PROVE /\ got[x] = <<>> /\ buf[x] = <<>> /\ src[x] = <<>> /\ logged[x] = <<>>
            /\ sent[x] = 0
  BY DEF Init
<1>2. <<>> \o <<>> = <<>> /\ [k \in 1 .. 0 |-> k] = <<>> /\ Bytes(<<>>) = <<>>
  BY DEF Bytes
<1>3. InOrder
  BY <1>1, <1>2 DEF InOrder, AllSent
<1> QED BY <1>1, <1>2, <1>3 DEF LogInv

LEMMA OrderStep == TInv /\ StageInv /\ InOrder /\ [Next]_vars => InOrder'
<1> SUFFICES ASSUME TInv, StageInv, InOrder, [Next]_vars, NEW x \in Pipes
             PROVE  got'[x] \o buf'[x] \o src'[x] = AllSent(x)'
  BY DEF InOrder
<1>1. got[x] \o buf[x] \o src[x] = AllSent(x)
  BY DEF InOrder
<1>2. CASE UNCHANGED <<got[x], buf[x], src[x], sent[x]>>
  BY <1>1, <1>2 DEF AllSent
<1>3. CASE UNCHANGED pipeVars
  BY <1>2, <1>3 DEF pipeVars
<1>4. ASSUME NEW c \in Conns, NEW i \in Instances, Accept(c, i)
      PROVE  UNCHANGED <<got[x], buf[x], src[x], sent[x]>>
  BY <1>4 DEF Accept, peerVars, copyVars
<1>5. ASSUME NEW y \in Pipes, y # x, PeerSend(y) \/ CopyRead(y) \/ CopyWrite(y)
      PROVE  UNCHANGED <<got[x], buf[x], src[x], sent[x]>>
  BY <1>5 DEF PeerSend, CopyRead, CopyWrite, peerVars, copyVars, TInv
<1>6. CASE PeerSend(x)
  <2>1. /\ sent'[x] = sent[x] + 1 /\ src'[x] = Append(src[x], sent[x] + 1)
        /\ got'[x] = got[x] /\ buf'[x] = buf[x]
    BY <1>6 DEF PeerSend, copyVars, TInv
  <2>2. got[x] \o buf[x] \o Append(src[x], sent[x] + 1)
          = AllSent(x) \o <<sent[x] + 1>>
    <3>1. \A e \in Nat : got[x] \o buf[x] \o Append(src[x], e)
                            = (got[x] \o buf[x] \o src[x]) \o <<e>>
      BY PipeTypes, PipeGrows
    <3>2. sent[x] + 1 \in Nat
      BY PipeTypes
    <3> QED BY ONLY <1>1, <3>1, <3>2
  <2> QED BY <2>1, <2>2, PipeTypes, NextByte DEF AllSent
<1>7. CASE CopyRead(x)
  <2>1. PICK n \in 1 .. Len(src[x]) :
          /\ buf'[x] = SubSeq(src[x], 1, n)
          /\ src'[x] = SubSeq(src[x], n + 1, Len(src[x]))
    BY <1>7 DEF CopyRead, TInv
  <2>2. buf[x] = <<>> /\ got'[x] = got[x] /\ sent'[x] = sent[x]
    BY <1>7 DEF CopyRead, At, StageInv
  <2>3. got[x] \o buf'[x] \o src'[x] = got[x] \o <<>> \o src[x]
    BY <2>1, PipeTypes, PipeReads
  <2> QED BY ONLY <1>1, <2>2, <2>3 DEF AllSent
<1>8. CASE CopyWrite(x)
  <2>1. PICK n \in 1 .. Len(buf[x]) :
          /\ got'[x] = got[x] \o SubSeq(buf[x], 1, n)
          /\ buf'[x] = SubSeq(buf[x], n + 1, Len(buf[x]))
    BY <1>8 DEF CopyWrite, TInv
  <2>2. src'[x] = src[x] /\ sent'[x] = sent[x]
    BY <1>8 DEF CopyWrite, peerVars
  <2>3. got'[x] \o buf'[x] = got[x] \o buf[x]
    BY <2>1, PipeTypes, PipeWrites
  <2> QED BY ONLY <1>1, <2>2, <2>3 DEF AllSent
<1> QED
  BY <1>2, <1>3, <1>4, <1>5, <1>6, <1>7, <1>8, PipesAlone

LEMMA LogStep == TInv /\ StageInv /\ LogInv /\ [Next]_vars => LogInv'
<1> SUFFICES ASSUME TInv, StageInv, LogInv, [Next]_vars, NEW x \in Pipes,
                    fw'[x[1]] \in Proxies
             PROVE  Bytes(logged'[x]) = got'[x] \o buf'[x]
  BY DEF LogInv
<1> USE PipeParts
<1>1. fw[x[1]] \in Proxies => Bytes(logged[x]) = got[x] \o buf[x]
  BY DEF LogInv
<1>2. CASE UNCHANGED <<fw[x[1]], got[x], buf[x], logged[x]>>
  BY <1>1, <1>2
<1>3. CASE UNCHANGED pipeVars
  BY <1>2, <1>3 DEF pipeVars
<1>4. ASSUME NEW c \in Conns, NEW i \in Instances, Accept(c, i)
      PROVE  Bytes(logged'[x]) = got'[x] \o buf'[x]
  <2>1. CASE c = x[1]
    <3>1. cp[x] = "unborn"
      BY <1>4, <2>1 DEF Accept, StageInv, TInv, TypeOK
    <3>2. got'[x] = <<>> /\ buf'[x] = <<>> /\ logged'[x] = <<>>
      BY <1>4, <3>1 DEF Accept, StageInv, copyVars, logVars
    <3> QED BY <3>2 DEF Bytes
  <2>2. CASE c # x[1]
    BY <1>2, <1>4, <2>2 DEF Accept, copyVars, logVars, TInv, TypeOK
  <2> QED BY <2>1, <2>2
<1>5. ASSUME NEW y \in Pipes, y # x, PeerSend(y) \/ CopyRead(y) \/ CopyWrite(y)
      PROVE  UNCHANGED <<fw[x[1]], got[x], buf[x], logged[x]>>
  BY <1>5 DEF PeerSend, CopyRead, CopyWrite, connVars, copyVars, logVars, TInv
<1>6. CASE PeerSend(x)
  BY <1>2, <1>6 DEF PeerSend, connVars, copyVars, logVars
<1>7. CASE CopyRead(x)
  <2>0. PICK n \in 1 .. Len(src[x]) :
          /\ buf'[x] = SubSeq(src[x], 1, n)
          /\ LET lines == [k \in 1 .. n |-> [byte |-> src[x][k], to |-> lw[x[1]]]]
             IN  logged' = IF Tees(x) THEN [logged EXCEPT ![x] = @ \o lines]
                                      ELSE logged
    BY <1>7 DEF CopyRead, TInv
  <2> DEFINE lines == [k \in 1 .. n |-> [byte |-> src[x][k], to |-> lw[x[1]]]]
  <2>1. fw[x[1]] \in Proxies /\ buf[x] = <<>> /\ got'[x] = got[x]
    BY <1>7 DEF CopyRead, At, StageInv, connVars
  <2>2. logged'[x] = logged[x] \o lines
    BY <2>0, <2>1 DEF Tees, TInv
  <2>3. lines \in Seq(Line)
    <3>0. lw[x[1]] \in Logs \cup {None} /\ src[x] \in Seq(Nat)
      BY PipeTypes DEF TInv, TypeOK
    <3>1. ASSUME NEW k \in 1 .. n PROVE lines[k] \in Line
      <4>1. src[x][k] \in Nat
        BY ONLY <3>0, n \in 1 .. Len(src[x]), k \in 1 .. n
      <4> QED BY ONLY <3>0, <4>1, k \in 1 .. n DEF Line
    <3>2. lines = [k \in 1 .. n |-> lines[k]]
      OBVIOUS
    <3> HIDE DEF lines
    <3> QED BY ONLY <3>1, <3>2, FunctionIsSeq, n \in Nat
  <2>4. Bytes(lines) = SubSeq(src[x], 1, n)
    BY PipeTypes DEF Bytes
  <2> HIDE DEF lines
  <2>5. Bytes(logged'[x]) = Bytes(logged[x]) \o Bytes(lines)
    BY <2>2, <2>3, BytesJoin DEF TInv
  <2>6. Bytes(logged[x]) = got[x]
    BY <1>1, <2>1, PipeTypes, EmptySides
  <2> QED BY <2>0, <2>1, <2>4, <2>5, <2>6
<1>8. CASE CopyWrite(x)
  <2>1. PICK n \in 1 .. Len(buf[x]) :
          /\ got'[x] = got[x] \o SubSeq(buf[x], 1, n)
          /\ buf'[x] = SubSeq(buf[x], n + 1, Len(buf[x]))
    BY <1>8 DEF CopyWrite, TInv
  <2>2. logged'[x] = logged[x] /\ fw[x[1]] \in Proxies
    BY <1>8 DEF CopyWrite, logVars, connVars
  <2> QED BY <1>1, <2>1, <2>2, PipeTypes, PipeWrites
<1> QED
  BY <1>2, <1>3, <1>4, <1>5, <1>6, <1>7, <1>8, PipesAlone

-----------------------------------------------------------------------------
(* What has been counted.                                                  *)

(* The totals are the bytes of the pipes that have been counted.           *)
Counted(i, d) == {c \in Conns : fw[c] = i /\ cp[<<c, d>>] \in {"close", "done"}}
CountInv ==
  \A i \in Instances \ Proxies, d \in Dirs :
    LET bytes == Arrived(Counted(i, d), d)
    IN  IsFiniteSet(bytes) /\ total[<<i, d>>] = Cardinality(bytes)

LEMMA OneMoreArrived ==
  ASSUME TInv, NEW d \in Dirs, NEW C \in SUBSET Conns, NEW c \in Conns \ C,
         IsFiniteSet(Arrived(C, d))
  PROVE  /\ IsFiniteSet(Arrived(C \cup {c}, d))
         /\ Cardinality(Arrived(C \cup {c}, d))
              = Cardinality(Arrived(C, d)) + Len(got[<<c, d>>])
<1> DEFINE n == Len(got[<<c, d>>])
           A == Arrived(C, d)
           B == {c} \X (1 .. n)
<1>1. got[<<c, d>>] \in Seq(Nat)
  BY DEF TInv, Pipes
<1>2. n \in Nat /\ DOMAIN got[<<c, d>>] = 1 .. n
  BY <1>1
<1>3. Arrived(C \cup {c}, d) = A \cup B
  BY <1>2 DEF Arrived
<1>4. A \cap B = {}
  <2> SUFFICES ASSUME NEW p \in A, p \in B PROVE FALSE
    OBVIOUS
  <2>1. PICK e \in C : p \in {e} \X DOMAIN got[<<e, d>>]
    BY DEF Arrived
  <2>2. p[1] = e /\ p[1] = c
    BY <2>1
  <2> QED BY <2>2
<1> HIDE DEF n, A
<1>5. IsFiniteSet(B) /\ Cardinality(B) = n
  <2>1. IsFiniteSet({c}) /\ Cardinality({c}) = 1
    BY FS_Singleton
  <2>2. IsFiniteSet(1 .. n) /\ Cardinality(1 .. n) = n
    BY <1>2, FS_Interval
  <2>3. IsFiniteSet(B) /\ Cardinality(B) = Cardinality({c}) * Cardinality(1 .. n)
    BY <2>1, <2>2, FS_Product
  <2> QED BY <1>2, <2>1, <2>2, <2>3
<1> HIDE DEF B
<1>6. /\ IsFiniteSet(A \cup B)
      /\ Cardinality(A \cup B) = Cardinality(A) + Cardinality(B) - Cardinality(A \cap B)
  BY <1>5, FS_Union DEF A
<1>7. Cardinality(A \cap B) = 0 /\ Cardinality(A) \in Nat
  BY <1>4, FS_EmptySet, FS_CardinalityType DEF A
<1>8. Cardinality(A \cup B) = Cardinality(A) + n
  BY ONLY <1>2, <1>5, <1>6, <1>7
<1> QED BY <1>3, <1>6, <1>8 DEF n, A

LEMMA CountStep == TInv /\ StageInv /\ CountInv /\ [Next]_vars => CountInv'
<1> SUFFICES ASSUME TInv, StageInv, CountInv, [Next]_vars,
                    NEW i \in Instances \ Proxies, NEW d \in Dirs
             PROVE  /\ IsFiniteSet(Arrived(Counted(i, d), d))'
                    /\ total'[<<i, d>>] = Cardinality(Arrived(Counted(i, d), d))'
  BY DEF CountInv
<1> DEFINE C == Counted(i, d)
<1>1. IsFiniteSet(Arrived(C, d)) /\ total[<<i, d>>] = Cardinality(Arrived(C, d))
  BY DEF CountInv
<1>2. ASSUME total'[<<i, d>>] = total[<<i, d>>], C' = C,
             \A c \in C : got'[<<c, d>>] = got[<<c, d>>]
      PROVE  /\ IsFiniteSet(Arrived(C, d))'
             /\ total'[<<i, d>>] = Cardinality(Arrived(C, d))'
  <2>1. Arrived(C, d)' = Arrived(C, d)
    BY <1>2 DEF Arrived
  <2> QED BY <1>1, <1>2, <2>1
<1>3. CASE UNCHANGED <<fw, cp, got, total>>
  BY <1>2, <1>3 DEF Counted
<1>4. ASSUME NEW c \in Conns, NEW j \in Instances, Accept(c, j)
      PROVE  C' = C /\ UNCHANGED <<got, total>>
  <2>1. h[c] = "new" /\ fw' = [fw EXCEPT ![c] = j] /\ UNCHANGED <<cp, got, total>>
    BY <1>4 DEF Accept, copyVars
  <2>2. cp[<<c, d>>] = "unborn"
    <3>1. <<c, d>> \in Pipes /\ <<c, d>>[1] = c
      BY DEF Pipes
    <3> QED BY <2>1, <3>1 DEF StageInv
  <2> QED BY <2>1, <2>2 DEF Counted, TInv, TypeOK
<1>5. ASSUME NEW c \in Conns, Dial(c)
      PROVE  C' = C /\ UNCHANGED <<got, total>>
  <2>1. /\ h[c] = "dial" /\ UNCHANGED <<fw, got, total>>
        /\ cp' = [x \in Pipes |-> IF x[1] = c THEN "read" ELSE cp[x]]
    BY <1>5 DEF Dial
  <2>2. cp[<<c, d>>] = "unborn"
    <3>1. <<c, d>> \in Pipes /\ <<c, d>>[1] = c
      BY DEF Pipes
    <3> QED BY <2>1, <3>1 DEF StageInv
  <2> QED BY <2>1, <2>2 DEF Counted, Pipes
<1>6. ASSUME NEW x \in Pipes, CopyRead(x) \/ CopyWrite(x) \/ CopyEnd(x) \/ CopyClose(x)
      PROVE  /\ C' = C /\ UNCHANGED total
             /\ \A c \in C : got'[<<c, d>>] = got[<<c, d>>]
  <2>1. UNCHANGED <<fw, total>>
    BY <1>6 DEF CopyRead, CopyWrite, CopyEnd, CopyClose, connVars
  <2>2. /\ \A y \in Pipes \ {x} : cp'[y] = cp[y] /\ got'[y] = got[y]
        /\ cp'[x] \in {"close", "done"} <=> cp[x] \in {"close", "done"}
        /\ cp[x] \in {"close", "done"} => got'[x] = got[x]
    BY <1>6 DEF CopyRead, CopyWrite, CopyEnd, CopyClose, At, CpGoto, TInv, TypeOK
  <2> QED BY <2>1, <2>2 DEF Counted, Pipes
<1>7. ASSUME NEW x \in Pipes, CopyCount(x)
      PROVE  /\ IsFiniteSet(Arrived(C, d))'
             /\ total'[<<i, d>>] = Cardinality(Arrived(C, d))'
  <2> DEFINE c == x[1]
  <2>1. /\ cp[x] = "count" /\ cp' = [cp EXCEPT ![x] = "close"] /\ UNCHANGED <<fw, got>>
        /\ total' = IF fw[c] \in Proxies THEN total
                    ELSE [total EXCEPT ![<<fw[c], x[2]>>] = @ + Len(got[x])]
    BY <1>7 DEF CopyCount, At, CpGoto, Count, connVars
  <2>2. c \in Conns /\ x = <<c, x[2]>> /\ x[2] \in Dirs
    BY DEF Pipes
  <2>3. CASE fw[c] # i \/ x[2] # d
    <3>1. C' = C
      BY <2>1, <2>2, <2>3 DEF Counted, TInv, TypeOK, Pipes
    <3>2. total'[<<i, d>>] = total[<<i, d>>]
      BY <2>1, <2>2, <2>3 DEF TInv, TypeOK
    <3> QED BY <1>2, <2>1, <3>1, <3>2
  <2>4. CASE fw[c] = i /\ x[2] = d
    <3>1. x = <<c, d>> /\ c \in Conns \ C
      BY <2>1, <2>2, <2>4 DEF Counted
    <3>2. C' = C \cup {c}
      BY <2>1, <2>2, <2>4, <3>1 DEF Counted, TInv, TypeOK, Pipes
    <3>3. Arrived(C, d)' = Arrived(C \cup {c}, d)
      BY <2>1, <3>2 DEF Arrived
    <3>4. C \in SUBSET Conns
      BY DEF Counted
    <3>5. total'[<<i, d>>] = total[<<i, d>>] + Len(got[<<c, d>>])
      BY <2>1, <2>4, <3>1 DEF TInv, TypeOK
    <3> HIDE DEF C, c
    <3> QED BY <1>1, <3>1, <3>3, <3>4, <3>5, OneMoreArrived
  <2> QED BY <2>3, <2>4
<1> HIDE DEF C
<1>8. CASE Manager
  BY <1>3, <1>8 DEF Manager, Open, Close, SetLogFile, ClientGone, ClientCome, connVars, copyVars
<1>9. CASE \/ \E x \in Pipes : PeerSend(x) \/ PeerFin(x)
           \/ \E c \in Conns : PeerReset(c) \/ DialFail(c) \/ HandleDone(c) \/ HandleCancelled(c)
  BY <1>3, <1>9 DEF PeerSend, PeerFin, PeerReset, DialFail, HandleDone, HandleCancelled,
                    connVars, copyVars
<1>10. CASE UNCHANGED vars
  BY <1>3, <1>10 DEF vars, connVars, copyVars
<1> QED
  BY <1>2, <1>4, <1>5, <1>6, <1>7, <1>8, <1>9, <1>10 DEF Next, Peers, Handle, Copy, C

-----------------------------------------------------------------------------
(* The theorems.                                                           *)

LEMMA StageAlways == Spec => [](TInv /\ StageInv)
<1>1. TInv /\ StageInv /\ [Next]_vars => (TInv /\ StageInv)'
  BY TypeStep, StageStep
<1> QED BY <1>1, TypeInit, PTL DEF Spec

(* Every variable has its type, and the channel `done` of a pipe is closed *)
(* at most once: by the handler or by whichever copy ends first.           *)
THEOREM TypeCorrect == Spec => []TypeOK
<1>1. TInv => TypeOK
  BY DEF TInv
<1> QED BY <1>1, StageAlways, PTL

(* A pipe is a faithful stream: nothing lost, repeated or reordered.       *)
THEOREM PipesInOrder == Spec => []InOrder
<1>1. Init => InOrder
  BY OrderInit
<1>2. TInv /\ StageInv /\ InOrder /\ [Next]_vars => InOrder'
  BY OrderStep
<1> QED BY <1>1, <1>2, StageAlways, PTL DEF Spec

-----------------------------------------------------------------------------
(* A pipe refines the byte stream.                                         *)

LEMMA TakesPrefix ==
  ASSUME NEW b \in Seq(Nat), NEW c \in Seq(Nat)
  PROVE  /\ SubSeq(b \o c, 1, Len(b)) = b
         /\ SubSeq(b \o c, Len(b) + 1, Len(b \o c)) = c
OBVIOUS

(* To write the first n bytes held is to take the first n pending.         *)
LEMMA WriteTakes ==
  ASSUME NEW b \in Seq(Nat), NEW s \in Seq(Nat), NEW n \in 1 .. Len(b)
  PROVE  /\ n \in 1 .. Len(b \o s)
         /\ SubSeq(b \o s, 1, n) = SubSeq(b, 1, n)
         /\ SubSeq(b \o s, n + 1, Len(b \o s)) = SubSeq(b, n + 1, Len(b)) \o s
<1> DEFINE head == SubSeq(b, 1, n)
           rest == SubSeq(b, n + 1, Len(b))
<1>1. head \in Seq(Nat) /\ rest \in Seq(Nat)
  BY PartOfSeq
<1>2. head \o rest = b
  BY CutJoin
<1>3. Len(head) = n
  OBVIOUS
<1>4. n \in 1 .. Len(b \o s)
  OBVIOUS
<1> HIDE DEF head, rest
<1>5. rest \o s \in Seq(Nat)
  BY <1>1
<1>6. b \o s = head \o (rest \o s)
  BY ONLY <1>1, <1>2, s \in Seq(Nat), Assoc
<1>7. /\ SubSeq(head \o (rest \o s), 1, Len(head)) = head
      /\ SubSeq(head \o (rest \o s), Len(head) + 1, Len(head \o (rest \o s))) = rest \o s
  BY ONLY <1>1, <1>5, TakesPrefix
<1> QED BY ONLY <1>3, <1>4, <1>6, <1>7 DEF head, rest

(* Sending puts a byte, writing takes some, and reading moves them from    *)
(* one part of what is pending to the other.                               *)
LEMMA StreamStep ==
  ASSUME TInv, StageInv, InOrder, [Next]_vars, NEW x \in Pipes
  PROVE  [Pipe(x)!StreamNext]_(Pipe(x)!streamVars)
<1>1. CASE UNCHANGED <<got[x], buf[x], src[x]>>
  BY <1>1 DEF Pipe!streamVars
<1>2. CASE UNCHANGED pipeVars
  BY <1>1, <1>2 DEF pipeVars
<1>3. ASSUME NEW c \in Conns, NEW i \in Instances, Accept(c, i)
      PROVE  UNCHANGED <<got[x], buf[x], src[x]>>
  BY <1>3 DEF Accept, peerVars, copyVars
<1>4. ASSUME NEW y \in Pipes, y # x, PeerSend(y) \/ CopyRead(y) \/ CopyWrite(y)
      PROVE  UNCHANGED <<got[x], buf[x], src[x]>>
  BY <1>4 DEF PeerSend, CopyRead, CopyWrite, peerVars, copyVars, TInv
<1>5. /\ got[x] \in Seq(Nat) /\ buf[x] \in Seq(Nat) /\ src[x] \in Seq(Nat)
      /\ sent[x] \in Nat
  BY PipeTypes
<1>6. CASE PeerSend(x)
  <2>1. /\ src'[x] = Append(src[x], sent[x] + 1)
        /\ got'[x] = got[x] /\ buf'[x] = buf[x]
    BY <1>6 DEF PeerSend, copyVars, TInv
  <2>2. Len(got[x]) + Len(buf[x] \o src[x]) = sent[x]
    <3>1. got[x] \o buf[x] \o src[x] = AllSent(x)
      BY DEF InOrder
    <3>2. Len(AllSent(x)) = sent[x]
      BY <1>5 DEF AllSent
    <3>3. \A g, b, s \in Seq(Nat) : Len(g \o b \o s) = Len(g) + Len(b \o s)
      OBVIOUS
    <3>4. Len(got[x] \o buf[x] \o src[x]) = Len(got[x]) + Len(buf[x] \o src[x])
      BY ONLY <1>5, <3>3, Zenon
    <3> QED BY ONLY <3>1, <3>2, <3>4, Zenon
  <2>3. buf[x] \o Append(src[x], sent[x] + 1) = Append(buf[x] \o src[x], sent[x] + 1)
    <3>1. \A b, s \in Seq(Nat), e \in Nat : b \o Append(s, e) = Append(b \o s, e)
      OBVIOUS
    <3> QED BY ONLY <1>5, <3>1, sent[x] + 1 \in Nat
  <2> QED BY <2>1, <2>2, <2>3 DEF Pipe!StreamNext, Pipe!Put
<1>7. CASE CopyRead(x)
  <2>1. PICK n \in 1 .. Len(src[x]) :
          /\ buf'[x] = SubSeq(src[x], 1, n)
          /\ src'[x] = SubSeq(src[x], n + 1, Len(src[x]))
    BY <1>7 DEF CopyRead, TInv
  <2>2. buf[x] = <<>> /\ got'[x] = got[x]
    BY <1>7 DEF CopyRead, At, StageInv
  <2>3. buf'[x] \o src'[x] = src[x]
    BY <1>5, <2>1, CutJoin
  <2>4. <<>> \o src[x] = src[x]
    BY <1>5, EmptySides
  <2> QED BY <2>2, <2>3, <2>4 DEF Pipe!streamVars
<1>8. CASE CopyWrite(x)
  <2>1. PICK n \in 1 .. Len(buf[x]) :
          /\ got'[x] = got[x] \o SubSeq(buf[x], 1, n)
          /\ buf'[x] = SubSeq(buf[x], n + 1, Len(buf[x]))
    BY <1>8 DEF CopyWrite, TInv
  <2>2. src'[x] = src[x]
    BY <1>8 DEF CopyWrite, peerVars
  <2>3. /\ n \in 1 .. Len(buf[x] \o src[x])
        /\ SubSeq(buf[x] \o src[x], 1, n) = SubSeq(buf[x], 1, n)
        /\ SubSeq(buf[x] \o src[x], n + 1, Len(buf[x] \o src[x]))
             = SubSeq(buf[x], n + 1, Len(buf[x])) \o src[x]
    BY <1>5, WriteTakes
  <2> QED BY <2>1, <2>2, <2>3 DEF Pipe!StreamNext, Pipe!Take
<1> QED BY <1>1, <1>2, <1>3, <1>4, <1>6, <1>7, <1>8, PipesAlone

(* Each direction of each pipe implements the abstract byte stream: what   *)
(* its destination has got is never taken back, and grows by what is       *)
(* pending, oldest first.                                                  *)
THEOREM PipesRefineStreams == Spec => PipesAreStreams
<1>1. Init => \A x \in Pipes : Pipe(x)!StreamInit
  <2> SUFFICES ASSUME Init, NEW x \in Pipes PROVE Pipe(x)!StreamInit
    OBVIOUS
  <2>1. got[x] = <<>> /\ buf[x] = <<>> /\ src[x] = <<>>
    BY DEF Init
  <2>2. <<>> \o <<>> = <<>>
    OBVIOUS
  <2> QED BY <2>1, <2>2 DEF Pipe!StreamInit
<1>2. TInv /\ StageInv /\ InOrder /\ [Next]_vars
        => \A x \in Pipes : [Pipe(x)!StreamNext]_(Pipe(x)!streamVars)
  BY StreamStep
<1> QED BY <1>1, <1>2, StageAlways, PipesInOrder, PTL DEF Spec, PipesAreStreams

(* A proxy has logged, in order, whatever it passes on.                    *)
THEOREM LogsFirst == Spec => []LoggedFirst
<1>1. Init => LogInv
  BY OrderInit
<1>2. TInv /\ StageInv /\ LogInv /\ [Next]_vars => LogInv'
  BY LogStep
<1>3. TInv /\ InOrder /\ LogInv => LoggedFirst
  <2> SUFFICES ASSUME TInv, InOrder, LogInv, NEW x \in Pipes, fw[x[1]] \in Proxies
               PROVE  /\ IsPrefix(got[x], Bytes(logged[x]))
                      /\ IsPrefix(Bytes(logged[x]), AllSent(x))
    BY DEF LoggedFirst, Bytes
  <2>1. Bytes(logged[x]) = got[x] \o buf[x]
    BY DEF LogInv
  <2>2. got[x] \o buf[x] \in Seq(Nat)
    BY PipeTypes
  <2>3. IsPrefix(got[x] \o buf[x], (got[x] \o buf[x]) \o src[x])
    BY <2>2, PipeTypes, Prefix
  <2> QED BY <2>1, <2>3, PipeTypes, Prefix DEF InOrder
<1> QED BY <1>1, <1>2, <1>3, StageAlways, PipesInOrder, PTL DEF Spec

(* When all pipes of a forward are over, its totals are the bytes that were *)
(* delivered: no copy that ends after its handler is forgotten, none is     *)
(* counted twice.                                                           *)
THEOREM TotalsInTheEnd == Spec => []TotalsSettle
<1>1. Init => CountInv
  <2> SUFFICES ASSUME Init, NEW i \in Instances \ Proxies, NEW d \in Dirs
               PROVE  /\ IsFiniteSet(Arrived(Counted(i, d), d))
                      /\ total[<<i, d>>] = Cardinality(Arrived(Counted(i, d), d))
    BY DEF CountInv
  <2>1. Counted(i, d) = {}
    BY DEF Init, Counted, Pipes
  <2>2. Arrived(Counted(i, d), d) = {}
    BY <2>1 DEF Arrived
  <2> QED BY <2>2, FS_EmptySet DEF Init
<1>2. TInv /\ StageInv /\ CountInv /\ [Next]_vars => CountInv'
  BY CountStep
<1>3. TInv /\ StageInv /\ CountInv => TotalsSettle
  <2> SUFFICES ASSUME TInv, StageInv, CountInv, NEW i \in Instances \ Proxies,
                      \A c \in Conns : fw[c] = i => Finished(c), NEW d \in Dirs
               PROVE  total[<<i, d>>] = Delivered(i, d)
    BY DEF TotalsSettle
  <2> DEFINE all == {c \in Conns : fw[c] = i}
  <2>1. Counted(i, d) \subseteq all
    BY DEF Counted
  <2>2. ASSUME NEW c \in all \ Counted(i, d) PROVE DOMAIN got[<<c, d>>] = {}
    <3>1. cp[<<c, d>>] = "unborn"
      BY <2>2 DEF Counted, Finished
    <3>2. got[<<c, d>>] = <<>>
      BY <2>2, <3>1 DEF StageInv, Pipes
    <3> QED BY <3>2
  <2>3. Arrived(Counted(i, d), d) = Arrived(all, d)
    <3>1. Arrived(Counted(i, d), d) \subseteq Arrived(all, d)
      BY <2>1 DEF Arrived
    <3>2. ASSUME NEW c \in all, NEW b \in {c} \X DOMAIN got[<<c, d>>]
          PROVE  b \in Arrived(Counted(i, d), d)
      <4>1. DOMAIN got[<<c, d>>] # {} BY <3>2
      <4>2. c \in Counted(i, d) BY <2>2, <4>1
      <4> QED BY <3>2, <4>2 DEF Arrived
    <3> QED BY <3>1, <3>2 DEF Arrived
  <2> QED BY <2>3 DEF CountInv, Delivered
<1> QED BY <1>1, <1>2, <1>3, StageAlways, PTL DEF Spec
=============================================================================
