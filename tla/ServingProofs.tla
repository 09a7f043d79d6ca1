---------------------------- MODULE ServingProofs ---------------------------
(***************************************************************************)
(* Proofs about Serving.tla, for any clients, lines, events and data and   *)
(* any capacities: who is served, that every line is looked at, and that   *)
(* what is pushed comes in order, to one client, and is lost only with it. *)
(***************************************************************************)
EXTENDS Serving, FiniteSetTheorems, SequenceTheorems, TLAPS

Pushes   == {"E", "D"}
Messages == [typ : {"R", "S", "READY"} \cup Pushes, ns : Seq(Nat)]

-----------------------------------------------------------------------------
(* Types. *)
TInv ==
  /\ spc \in Serving \cup {"accept", "auth", "stopped"} /\ cl \in Clients \cup {None}
  /\ (spc \in Serving \cup {"auth"}) = (cl # None)
  /\ backlog \in Seq(Clients) /\ ended \subseteq Clients /\ reply \in {Response, Start}
  /\ cli \in [Clients -> {"new", "dial", "menu", "ask", "use", "session", "leave", "off"}]
  /\ typed \in [Clients -> Seq(Lines)] /\ handled \in [Clients -> Seq(Lines)]
  /\ c2s \in [Clients -> Seq(Lines \cup {Hello, Garbage})]
  /\ dr \in [Clients -> {"off", "run", "told", "last"}]
  /\ taken \in [Clients -> SUBSET (Pushes \X Nat)]

PushTInv ==
  /\ s2c \in [Clients -> Seq(Messages)] /\ outCh \in [Clients -> Seq(Messages)]
  /\ shown \in [Clients -> Seq(Messages)]
  /\ evHand \in [Clients -> Seq(Messages)] /\ rxHand \in [Clients -> Seq(Messages)]
  /\ events \in Seq(Nat) /\ rx \in Seq(Nat) /\ sent \in [Pushes -> Nat]

(* Bounds, and that only the session loop's own drain goroutine runs on.   *)
CapInv ==
  /\ \A c \in Clients :
       /\ Len(typed[c]) <= MaxLines
       /\ Len(outCh[c]) <= OutCap /\ Len(s2c[c]) <= WireCap
       /\ dr[c] = "run" => spc = "session" /\ cl = c

-----------------------------------------------------------------------------
(* Who is served.  A client that the server has done anything for has been *)
(* let in; one that still waits has not said more than its first frame.    *)
Touched(c) ==
  \/ s2c[c] # <<>> \/ outCh[c] # <<>> \/ evHand[c] # <<>> \/ rxHand[c] # <<>>
  \/ dr[c] # "off" \/ c \in ended

HasExited(c) == \E i \in DOMAIN handled[c] : handled[c][i] # <<>> /\ Exits(handled[c][i])
Served(c)    == cl = c /\ spc \in Serving
Waits(c)     == (\E i \in DOMAIN backlog : backlog[i] = c) \/ (spc = "auth" /\ cl = c)

WaitInv ==
  /\ \A i, j \in DOMAIN backlog : backlog[i] = backlog[j] => i = j
  /\ (\A i \in DOMAIN backlog : backlog[i] # cl) /\ cl \notin ended
  /\ \A c \in Clients :
       Waits(c) => ~Touched(c) /\ cli[c] \in {"dial", "off"} /\ Len(c2s[c]) <= 1

NewInv ==
  \A c \in Clients :
    cli[c] = "new" => ~Touched(c) /\ ~Waits(c) /\ ~Served(c) /\ c2s[c] = <<>>

AdmittedInv ==
  /\ \A c \in Clients :
       Present(c) \/ (cli[c] = "dial" /\ Touched(c)) => Served(c) \/ HasExited(c)
  /\ spc = "bye" => HasExited(cl)

LineInv ==
  \A c \in Clients :
    /\ cli[c] \in {"new", "dial"} => typed[c] = <<>> /\ handled[c] = <<>>
    /\ cli[c] = "dial" /\ (Touched(c) \/ Served(c)) => c2s[c] = <<>>
    /\ Present(c) /\ c \notin ended => typed[c] = handled[c] \o c2s[c]

-----------------------------------------------------------------------------
(* What is pushed.  The numbers of a kind that are in one part of the way  *)
(* to a client rise along it and are below those of the parts behind, and  *)
(* all of them are below what still waits.                                 *)
Of(m, t)     == {n \in Nat : m.typ = t /\ \E k \in DOMAIN m.ns : m.ns[k] = n}
Nums(q, t)   == {n \in Nat : \E i \in DOMAIN q : n \in Of(q[i], t)}
Below(S, T)  == \A m \in S, n \in T : m < n
Rising(q, t) == \A i, j \in DOMAIN q : i < j => Below(Of(q[i], t), Of(q[j], t))

Held(c, t) == IF t = "E" THEN evHand[c] ELSE rxHand[c]
Chain(c, t) ==
  /\ Rising(shown[c], t) /\ Rising(s2c[c], t) /\ Rising(outCh[c], t)
  /\ Below(Nums(shown[c], t), Nums(s2c[c], t))
  /\ Below(Nums(shown[c], t) \cup Nums(s2c[c], t), Nums(outCh[c], t))
  /\ Below(Nums(shown[c], t) \cup Nums(s2c[c], t) \cup Nums(outCh[c], t), Nums(Held(c, t), t))

Ahead(c, t) == Nums(shown[c], t) \cup Nums(s2c[c], t) \cup Nums(outCh[c], t)
                 \cup Nums(Held(c, t), t)

ChainInv == \A t \in Pushes, c \in Clients : Chain(c, t)

ApartInv ==
  \A t \in Pushes :
    /\ Waiting(t) \subseteq 1 .. sent[t]
    /\ \A c \in Clients :
         /\ Ahead(c, t) \subseteq 1 .. sent[t] /\ Below(Ahead(c, t), Waiting(t))
         /\ \A d \in Clients \ {c} : Ahead(c, t) \cap Ahead(d, t) = {}

HandInv ==
  /\ \A i, j \in DOMAIN events : i < j => events[i] < events[j]
  /\ \A c \in Clients :
       /\ Len(evHand[c]) <= 1 /\ (evHand[c] # <<>> => evHand[c][1].typ = "E")
       /\ Len(rxHand[c]) <= 1 /\ (rxHand[c] # <<>> => rxHand[c][1].typ = "D")

LossInv ==
  \A t \in Pushes :
    /\ \A c \in Clients : \A n \in Ahead(c, t) : <<t, n>> \in taken[c]
    /\ \A n \in 1 .. sent[t] :
         \/ n \in Waiting(t)
         \/ \E c \in Clients : n \in Ahead(c, t)
         \/ \E c \in Clients : <<t, n>> \in taken[c] /\ (c \in ended \/ cli[c] = "off")
-----------------------------------------------------------------------------
(* What changing one client's sequence gives. *)

LEMMA Cell ==
  ASSUME NEW X, NEW f \in [Clients -> Seq(X)], NEW c \in Clients, NEW q \in Seq(X)
  PROVE  [f EXCEPT ![c] = q] \in [Clients -> Seq(X)]
OBVIOUS

LEMMA Ends ==
  ASSUME NEW X, NEW q \in Seq(X)
  PROVE  /\ \A x \in X : Append(q, x) \in Seq(X) /\ Append(q, x) # <<>>
         /\ q # <<>> => Head(q) \in X /\ Tail(q) \in Seq(X) /\ Len(Tail(q)) = Len(q) - 1
         /\ \A n \in 0 .. Len(q) : SubSeq(q, 1, n) \in Seq(X)
         /\ \A n \in 1 .. Len(q) : SubSeq(q, n + 1, Len(q)) \in Seq(X)
         /\ <<>> \in Seq(X) /\ \A x \in X : <<x>> \in Seq(X)
<1>1. ASSUME NEW x \in X PROVE Append(q, x) \in Seq(X) /\ Append(q, x) # <<>>
  <2>1. Append(q, x) \in Seq(X) /\ Len(Append(q, x)) = Len(q) + 1 /\ Len(q) \in Nat
    OBVIOUS
  <2>2. Len(<<>>) = 0 OBVIOUS
  <2> QED BY ONLY <2>1, <2>2
<1>2. q # <<>> => Head(q) \in X /\ Tail(q) \in Seq(X) /\ Len(Tail(q)) = Len(q) - 1 OBVIOUS
<1>3. \A n \in 0 .. Len(q) : SubSeq(q, 1, n) \in Seq(X) OBVIOUS
<1>4. \A n \in 1 .. Len(q) : SubSeq(q, n + 1, Len(q)) \in Seq(X) OBVIOUS
<1>5. <<>> \in Seq(X) /\ \A x \in X : <<x>> \in Seq(X) OBVIOUS
<1> QED BY <1>1, <1>2, <1>3, <1>4, <1>5

LEMMA MessagesAre ==
  /\ Response \in Messages /\ Start \in Messages /\ Ready \in Messages
  /\ \A n \in Nat : Msg("E", <<n>>) \in Messages
  /\ \A q \in Seq(Nat) : Msg("D", q) \in Messages
<1>1. \A t \in {"R", "S", "READY"} \cup Pushes, q \in Seq(Nat) : Msg(t, q) \in Messages
  BY DEF Messages, Msg
<1>2. <<>> \in Seq(Nat) /\ \A n \in Nat : <<n>> \in Seq(Nat) OBVIOUS
<1> QED BY <1>1, <1>2 DEF Pushes, Response, Start, Ready

-----------------------------------------------------------------------------
(* Types are kept. *)

LEMMA TypesStep ==
  ASSUME TInv, PushTInv, [Next]_vars PROVE TInv'
<1> USE DEF TInv, Serving
<1>0. None \notin Clients BY ServingAssumption
<1>1. CASE UNCHANGED vars
  BY <1>1 DEF vars, userVars, runVars, wireVars, handVars
<1>2. ASSUME NEW c \in Clients, Dial(c) PROVE TInv'
  <2>1. PICK hello \in {<<Hello>>, <<Garbage>>, <<>>} : c2s' = [c2s EXCEPT ![c] = hello]
    BY <1>2 DEF Dial
  <2>2. hello \in Seq(Lines \cup {Hello, Garbage})
    <3> DEFINE X == Lines \cup {Hello, Garbage}
    <3>1. Hello \in X /\ Garbage \in X OBVIOUS
    <3> HIDE DEF X
    <3>2. <<Hello>> \in Seq(X) /\ <<Garbage>> \in Seq(X) /\ <<>> \in Seq(X)
      BY <3>1
    <3>3. hello \in Seq(X) BY <2>1, <3>2
    <3> QED BY <3>3 DEF X
  <2>3. c2s' \in [Clients -> Seq(Lines \cup {Hello, Garbage})] BY <2>1, <2>2, Cell
  <2>4. Append(backlog, c) \in Seq(Clients) BY Ends
  <2> QED BY <1>2, <2>3, <2>4 DEF Dial, handVars
<1>3. ASSUME NEW c \in Clients, NEW line \in Lines, Type(c, line) PROVE TInv'
  <2>1. cli'[c] \in {"leave", "session", "use", "ask"} /\ \A d \in Clients \ {c} : cli'[d] = cli[d]
    BY <1>3 DEF Type
  <2>2. cli' \in [Clients -> {"new", "dial", "menu", "ask", "use", "session", "leave", "off"}]
    BY <1>3, <2>1 DEF Type
  <2>3. typed' \in [Clients -> Seq(Lines)] BY <1>3, Ends, Cell DEF Type
  <2>4. c2s' \in [Clients -> Seq(Lines \cup {Hello, Garbage})] BY <1>3, Ends, Cell DEF Type
  <2>5. UNCHANGED <<runVars, dr, handVars>> BY <1>3 DEF Type
  <2> QED BY <2>2, <2>3, <2>4, <2>5 DEF runVars, handVars
<1>4. ASSUME NEW c \in Clients, SessionEof(c) PROVE TInv'
  BY <1>4 DEF SessionEof, runVars, wireVars, handVars
<1>5. ASSUME NEW c \in Clients, Leave(c) PROVE TInv'
  <2>1. c2s' \in [Clients -> Seq(Lines \cup {Hello, Garbage})]
    <3>1. PICK n \in 0 .. Len(c2s[c]) : c2s' = [c2s EXCEPT ![c] = SubSeq(@, 1, n)]
      BY <1>5 DEF Leave
    <3>2. SubSeq(c2s[c], 1, n) \in Seq(Lines \cup {Hello, Garbage}) BY Ends
    <3> QED BY <3>1, <3>2, Cell
  <2> QED BY <1>5, <2>1 DEF Leave, runVars, handVars
<1>6. ASSUME NEW c \in Clients, Receive(c) PROVE TInv'
  BY <1>6 DEF Receive, AfterResponse, runVars, handVars
<1>7. CASE Accept
  BY <1>0, <1>7 DEF Accept, userVars, wireVars, handVars
<1>8. CASE AuthOk
  <2>1. c2s' \in [Clients -> Seq(Lines \cup {Hello, Garbage})]
    <3>1. PICK n \in 1 .. Len(c2s[cl]) : c2s' = [c2s EXCEPT ![cl] = SubSeq(@, n + 1, Len(@))]
      BY <1>8 DEF AuthOk
    <3>2. cl \in Clients BY <1>8 DEF AuthOk
    <3>3. SubSeq(c2s[cl], n + 1, Len(c2s[cl])) \in Seq(Lines \cup {Hello, Garbage})
      BY <3>2, Ends
    <3> QED BY <3>1, <3>2, <3>3, Cell
  <2>2. /\ spc = "auth" /\ spc' = "menu"
        /\ UNCHANGED <<userVars, cl, backlog, reply, handled, ended, dr, handVars>>
    BY <1>8 DEF AuthOk
  <2> QED BY <2>1, <2>2 DEF userVars, handVars
<1>9. CASE AuthFail
  BY <1>0, <1>9 DEF AuthFail, wireVars, handVars
<1>23. CASE AcceptFails
  BY <1>23 DEF AcceptFails, userVars, wireVars, handVars
<1>10. ASSUME NEW line \in Lines, NextLine(line), cl \in Clients
       PROVE  /\ c2s' \in [Clients -> Seq(Lines \cup {Hello, Garbage})]
              /\ handled' \in [Clients -> Seq(Lines)]
  BY <1>10, Ends, Cell DEF NextLine
<1>11. ASSUME NEW line \in Lines, MenuLine(line) PROVE TInv'
  <2>1. /\ spc = "menu" /\ cl \in Clients /\ NextLine(line)
        /\ UNCHANGED <<userVars, cl, backlog, ended, dr, handVars>>
    BY <1>11 DEF MenuLine
  <2>2. spc' \in {"menu", "bye", "reply"} /\ reply' \in {Response, Start}
    BY <1>11, <2>1 DEF MenuLine, Replies
  <2> QED BY <1>10, <2>1, <2>2 DEF userVars, handVars
<1>12. CASE Reply
  BY <1>12 DEF Reply, userVars, runVars, wireVars, handVars
<1>13. CASE Bye
  BY <1>13 DEF Bye, Return, userVars, handVars
<1>14. ASSUME NEW line \in Lines, SessionLine(line) PROVE TInv'
  <2>1. /\ spc = "session" /\ cl \in Clients /\ NextLine(line)
        /\ UNCHANGED <<userVars, cl, backlog, ended, handVars>>
        /\ spc' \in {"reply", "session"} /\ reply' \in {Response, Start}
    BY <1>14 DEF SessionLine
  <2>2. dr' \in [Clients -> {"off", "run", "told", "last"}]
    BY <1>14 DEF SessionLine, TellDrainer
  <2> QED BY <1>10, <2>1, <2>2 DEF userVars, handVars
<1>15. CASE ClientGone
  <2>1. dr' \in [Clients -> {"off", "run", "told", "last"}]
    BY <1>15 DEF ClientGone, TellDrainer
  <2> QED BY <1>15, <2>1 DEF ClientGone, Return, userVars, wireVars, handVars
<1>16. ASSUME NEW c \in Clients, NEW m, m.typ \in Pushes, m.ns \in Seq(Nat), Took(c, m)
       PROVE  taken' \in [Clients -> SUBSET (Pushes \X Nat)]
  BY <1>16 DEF Took, Range
<1>17. ASSUME NEW c \in Clients, ForwarderTake(c) PROVE TInv'
  <2>1. Head(events) \in Nat BY <1>17, Ends DEF ForwarderTake, PushTInv
  <2>2. taken' \in [Clients -> SUBSET (Pushes \X Nat)]
    <3>1. <<Head(events)>> \in Seq(Nat) BY <2>1
    <3>2. Took(c, Msg("E", <<Head(events)>>)) BY <1>17 DEF ForwarderTake
    <3>3. /\ Msg("E", <<Head(events)>>).typ \in Pushes
          /\ Msg("E", <<Head(events)>>).ns \in Seq(Nat)
      BY <3>1 DEF Msg, Pushes
    <3> QED BY <1>16, <3>2, <3>3
  <2> QED BY <1>17, <2>2 DEF ForwarderTake, userVars, runVars, wireVars
<1>18. ASSUME NEW c \in Clients, ForwarderPush(c) PROVE TInv'
  BY <1>18 DEF ForwarderPush, userVars, runVars, wireVars
<1>19. ASSUME NEW c \in Clients, DrainerTake(c) PROVE TInv'
  <2>1. Took(c, Msg("D", rx)) \/ UNCHANGED taken BY <1>19 DEF DrainerTake
  <2>2. taken' \in [Clients -> SUBSET (Pushes \X Nat)]
    <3>1. rx \in Seq(Nat) BY DEF PushTInv
    <3>2. Msg("D", rx).typ \in Pushes /\ Msg("D", rx).ns \in Seq(Nat)
      BY <3>1 DEF Msg, Pushes
    <3>3. CASE Took(c, Msg("D", rx)) BY <1>16, <3>2, <3>3
    <3>4. CASE UNCHANGED taken BY <3>4
    <3> QED BY <2>1, <3>3, <3>4
  <2>3. dr' \in [Clients -> {"off", "run", "told", "last"}] BY <1>19 DEF DrainerTake
  <2>4. UNCHANGED <<userVars, runVars, wireVars>> BY <1>19 DEF DrainerTake
  <2> QED BY <2>2, <2>3, <2>4 DEF userVars, runVars, wireVars
<1>20. ASSUME NEW c \in Clients, DrainerPush(c) PROVE TInv'
  BY <1>20 DEF DrainerPush, userVars, runVars, wireVars
<1>21. ASSUME NEW c \in Clients, WriterWrite(c) PROVE TInv'
  BY <1>21 DEF WriterWrite, userVars, runVars, handVars
<1>22. CASE Happen
  BY <1>22 DEF Happen, userVars, runVars, wireVars, handVars
<1> QED
  BY <1>1, <1>2, <1>3, <1>4, <1>5, <1>6, <1>7, <1>8, <1>9, <1>23, <1>11, <1>12, <1>13, <1>14, <1>15,
     <1>17, <1>18, <1>19, <1>20, <1>21, <1>22
  DEF Next, Main, User, Pushing
-----------------------------------------------------------------------------
(* Numbers of the messages in a queue. *)

LEMMA EmptyQueue == \A t : Nums(<<>>, t) = {} /\ Rising(<<>>, t)
BY DEF Nums, Rising

LEMMA OneMessage ==
  ASSUME NEW m \in Messages, NEW t
  PROVE  Nums(<<m>>, t) = Of(m, t) /\ Rising(<<m>>, t)
<1>1. DOMAIN <<m>> = {1} /\ <<m>>[1] = m OBVIOUS
<1> QED BY <1>1 DEF Nums, Of, Rising

LEMMA PutLast ==
  ASSUME NEW q \in Seq(Messages), NEW m \in Messages, NEW t
  PROVE  /\ Nums(Append(q, m), t) = Nums(q, t) \cup Of(m, t)
         /\ Rising(q, t) /\ Below(Nums(q, t), Of(m, t)) => Rising(Append(q, m), t)
<1> DEFINE r == Append(q, m)  n == Len(q)
<1>1. /\ n \in Nat /\ DOMAIN q = 1 .. n /\ DOMAIN r = 1 .. n + 1
      /\ r[n + 1] = m /\ \A i \in 1 .. n : r[i] = q[i]
  OBVIOUS
<1> HIDE DEF r, n
<1>2. Nums(r, t) = Nums(q, t) \cup Of(m, t)
  <2>1. ASSUME NEW x \in Nums(r, t) PROVE x \in Nums(q, t) \cup Of(m, t)
    <3>1. PICK i \in DOMAIN r : x \in Of(r[i], t) BY DEF Nums
    <3>2. CASE i = n + 1 BY <1>1, <3>1, <3>2
    <3>3. CASE i \in 1 .. n BY <1>1, <3>1, <3>3 DEF Nums, Of
    <3> QED BY <1>1, <3>2, <3>3
  <2>2. ASSUME NEW x \in Nums(q, t) PROVE x \in Nums(r, t)
    <3>1. PICK i \in DOMAIN q : x \in Of(q[i], t) BY DEF Nums
    <3>2. i \in DOMAIN r /\ r[i] = q[i] BY <1>1
    <3> QED BY <3>1, <3>2 DEF Nums, Of
  <2>3. ASSUME NEW x \in Of(m, t) PROVE x \in Nums(r, t)
    <3>1. n + 1 \in DOMAIN r /\ r[n + 1] = m BY <1>1
    <3> QED BY <3>1 DEF Nums, Of
  <2> QED BY <2>1, <2>2, <2>3
<1>3. ASSUME Rising(q, t), Below(Nums(q, t), Of(m, t)) PROVE Rising(r, t)
  <2> SUFFICES ASSUME NEW i \in DOMAIN r, NEW j \in DOMAIN r, i < j
               PROVE  Below(Of(r[i], t), Of(r[j], t))
    BY DEF Rising
  <2>1. i \in 1 .. n /\ r[i] = q[i] BY <1>1
  <2>2. CASE j \in 1 .. n BY <1>1, <1>3, <2>1, <2>2 DEF Rising
  <2>3. CASE j = n + 1
    <3>1. Of(q[i], t) \subseteq Nums(q, t) BY <1>1, <2>1 DEF Nums, Of
    <3> QED BY <1>1, <1>3, <2>1, <2>3, <3>1 DEF Below
  <2> QED BY <1>1, <2>2, <2>3
<1> QED BY <1>2, <1>3 DEF r

LEMMA PutOther ==
  ASSUME NEW q \in Seq(Messages), NEW m \in Messages, NEW t, Of(m, t) = {}
  PROVE  /\ Nums(Append(q, m), t) = Nums(q, t)
         /\ Rising(q, t) => Rising(Append(q, m), t)
<1>1. Below(Nums(q, t), Of(m, t)) BY DEF Below
<1>2. /\ Nums(Append(q, m), t) = Nums(q, t) \cup Of(m, t)
      /\ Rising(q, t) => Rising(Append(q, m), t)
  BY <1>1, PutLast
<1>3. Nums(Append(q, m), t) = Nums(q, t) BY ONLY <1>2, Of(m, t) = {}
<1> QED BY <1>2, <1>3

LEMMA TakeFirst ==
  ASSUME NEW q \in Seq(Messages), q # <<>>, NEW t
  PROVE  /\ Nums(q, t) = Of(Head(q), t) \cup Nums(Tail(q), t)
         /\ Rising(q, t) => Rising(Tail(q), t) /\ Below(Of(Head(q), t), Nums(Tail(q), t))
<1> DEFINE r == Tail(q)  n == Len(q)
<1>1. /\ n \in Nat \ {0} /\ DOMAIN q = 1 .. n /\ DOMAIN r = 1 .. n - 1
      /\ Head(q) = q[1] /\ \A i \in 1 .. n - 1 : r[i] = q[i + 1]
  OBVIOUS
<1> HIDE DEF r, n
<1>2. \A i \in DOMAIN r : i + 1 \in DOMAIN q /\ r[i] = q[i + 1] BY <1>1
<1>3. \A i \in DOMAIN q : i = 1 \/ (i - 1 \in DOMAIN r /\ r[i - 1] = q[i])
  BY <1>1
<1>4. Nums(q, t) = Of(q[1], t) \cup Nums(r, t)
  <2>1. ASSUME NEW x \in Nums(q, t) PROVE x \in Of(q[1], t) \cup Nums(r, t)
    <3>1. PICK i \in DOMAIN q : x \in Of(q[i], t) BY DEF Nums
    <3>2. CASE i = 1 BY <3>1, <3>2
    <3>3. CASE i - 1 \in DOMAIN r /\ r[i - 1] = q[i] BY <3>1, <3>3 DEF Nums, Of
    <3> QED BY <1>3, <3>2, <3>3
  <2>2. ASSUME NEW x \in Of(q[1], t) PROVE x \in Nums(q, t)
    <3>1. 1 \in DOMAIN q BY <1>1
    <3> QED BY <3>1 DEF Nums, Of
  <2>3. ASSUME NEW x \in Nums(r, t) PROVE x \in Nums(q, t)
    <3>1. PICK i \in DOMAIN r : x \in Of(r[i], t) BY DEF Nums
    <3> QED BY <1>2, <3>1 DEF Nums, Of
  <2> QED BY <2>1, <2>2, <2>3
<1>5. ASSUME Rising(q, t) PROVE Rising(r, t)
  <2> SUFFICES ASSUME NEW i \in DOMAIN r, NEW j \in DOMAIN r, i < j
               PROVE  Below(Of(r[i], t), Of(r[j], t))
    BY DEF Rising
  <2>1. i + 1 < j + 1 BY <1>1
  <2> QED BY <1>2, <1>5, <2>1 DEF Rising
<1>6. ASSUME Rising(q, t) PROVE Below(Of(q[1], t), Nums(r, t))
  <2> SUFFICES ASSUME NEW x \in Of(q[1], t), NEW y \in Nums(r, t) PROVE x < y
    BY DEF Below
  <2>1. PICK i \in DOMAIN r : y \in Of(r[i], t) BY DEF Nums
  <2>2. 1 \in DOMAIN q /\ i + 1 \in DOMAIN q /\ 1 < i + 1 /\ r[i] = q[i + 1] BY <1>1
  <2> QED BY <1>6, <2>1, <2>2 DEF Rising, Below
<1> QED BY <1>1, <1>4, <1>5, <1>6 DEF r

LEMMA OtherKind ==
  ASSUME NEW m, NEW t, m.typ # t PROVE Of(m, t) = {}
BY DEF Of
-----------------------------------------------------------------------------
(* The steps as seen by what is pushed: most leave the way to the clients  *)
(* alone, and of the rest each is about one client.                        *)

Way == <<shown, s2c, outCh, evHand, rxHand, taken, events, rx, sent>>

Drop(c) ==
  /\ s2c' = [s2c EXCEPT ![c] = <<>>] /\ cli'[c] = "off"
  /\ UNCHANGED <<shown, outCh, evHand, rxHand, taken, events, rx, sent>>

Insert(c) ==
  /\ \E m \in {Response, Ready} : s2c' = [s2c EXCEPT ![c] = Append(@, m)]
  /\ UNCHANGED <<shown, outCh, evHand, rxHand, taken, events, rx, sent>>

Queue(c) ==
  /\ Push(c, reply)
  /\ UNCHANGED <<shown, s2c, evHand, rxHand, taken, events, rx, sent>>

Ways ==
  \/ UNCHANGED Way
  \/ \E c \in Clients : \/ Drop(c) \/ Insert(c) \/ Receive(c) \/ Queue(c)
                        \/ Pushing(c) \/ WriterWrite(c)
  \/ Happen

LEMMA StepWays == ASSUME TInv, [Next]_vars PROVE Ways
<1>1. CASE UNCHANGED vars
  BY <1>1 DEF vars, Ways, Way, wireVars, handVars
<1>2. ASSUME NEW c \in Clients,
             Dial(c) \/ SessionEof(c) \/ \E line \in Lines : Type(c, line)
      PROVE  Ways
  BY <1>2 DEF Dial, SessionEof, Type, Ways, Way, wireVars, handVars
<1>3. ASSUME NEW c \in Clients, Leave(c) PROVE Ways
  <2>1. cli \in [Clients -> {"new", "dial", "menu", "ask", "use", "session", "leave", "off"}]
    BY DEF TInv
  <2>2. Drop(c) BY <1>3, <2>1 DEF Leave, Drop, handVars
  <2> QED BY <2>2 DEF Ways
<1>4. CASE \/ Accept \/ AuthFail \/ AcceptFails \/ ClientGone
           \/ \E line \in Lines : MenuLine(line) \/ SessionLine(line)
  BY <1>4
  DEF Accept, AuthFail, AcceptFails, ClientGone, MenuLine, SessionLine, Ways, Way, wireVars,
      handVars
<1>5. CASE AuthOk
  <2>1. cl \in Clients /\ Insert(cl) BY <1>5 DEF AuthOk, Insert, TInv, handVars
  <2> QED BY <2>1 DEF Ways
<1>6. CASE Bye
  <2>1. cl \in Clients BY <1>6 DEF Bye, TInv, Serving
  <2>2. CASE UNCHANGED s2c BY <1>6, <2>2 DEF Bye, Ways, Way, handVars
  <2>3. CASE s2c' = [s2c EXCEPT ![cl] = Append(@, Response)]
    <3>1. Insert(cl) BY <1>6, <2>3 DEF Bye, Insert, handVars
    <3> QED BY <2>1, <3>1 DEF Ways
  <2> QED BY <1>6, <2>2, <2>3 DEF Bye
<1>7. CASE Reply
  <2>1. cl \in Clients BY <1>7 DEF Reply, TInv, Serving
  <2>2. Queue(cl) BY <1>7 DEF Reply, Queue, wireVars, handVars
  <2> QED BY <2>1, <2>2 DEF Ways
<1>8. ASSUME NEW c \in Clients, Receive(c) \/ Pushing(c) \/ WriterWrite(c) PROVE Ways
  BY <1>8 DEF Ways
<1>9. CASE Happen BY <1>9 DEF Ways
<1> QED
  BY <1>1, <1>2, <1>3, <1>4, <1>5, <1>6, <1>7, <1>8, <1>9 DEF Next, Main, User

(* A message in the hand, at the head of a queue, or of the server's own.  *)
LEMMA ReplyKinds ==
  /\ Response \in Messages /\ Start \in Messages /\ Ready \in Messages
  /\ \A m \in {Response, Start, Ready} : m.typ \notin Pushes
BY MessagesAre DEF Response, Start, Ready, Msg, Pushes

LEMMA PushTypesStep ==
  ASSUME TInv, PushTInv, [Next]_vars PROVE PushTInv'
<1> USE DEF PushTInv
<1>1. CASE UNCHANGED Way BY <1>1 DEF Way
<1>2. ASSUME NEW c \in Clients, Drop(c) PROVE PushTInv'
  <2>1. s2c' \in [Clients -> Seq(Messages)] BY <1>2, Ends, Cell DEF Drop
  <2> QED BY <1>2, <2>1 DEF Drop
<1>3. ASSUME NEW c \in Clients, Insert(c) PROVE PushTInv'
  <2>1. s2c' \in [Clients -> Seq(Messages)] BY <1>3, ReplyKinds, Ends, Cell DEF Insert
  <2> QED BY <1>3, <2>1 DEF Insert
<1>4. ASSUME NEW c \in Clients, Queue(c) PROVE PushTInv'
  <2>1. reply \in Messages BY ReplyKinds DEF TInv
  <2>2. outCh' \in [Clients -> Seq(Messages)] BY <1>4, <2>1, Ends, Cell DEF Queue, Push
  <2> QED BY <1>4, <2>2 DEF Queue
<1>5. ASSUME NEW c \in Clients, Receive(c) PROVE PushTInv'
  <2>1. Head(s2c[c]) \in Messages /\ Tail(s2c[c]) \in Seq(Messages)
    BY <1>5, Ends DEF Receive
  <2>2. s2c' \in [Clients -> Seq(Messages)] BY <1>5, <2>1, Cell DEF Receive
  <2>3. Append(shown[c], Head(s2c[c])) \in Seq(Messages) BY <2>1, Ends
  <2>4. shown' \in [Clients -> Seq(Messages)] BY <1>5, <2>3, Cell DEF Receive
  <2> QED BY <1>5, <2>2, <2>4 DEF Receive, handVars
<1>6. ASSUME NEW c \in Clients, ForwarderTake(c) PROVE PushTInv'
  <2>1. Head(events) \in Nat /\ Tail(events) \in Seq(Nat)
    BY <1>6, Ends DEF ForwarderTake
  <2>2. <<Msg("E", <<Head(events)>>)>> \in Seq(Messages) BY <2>1, MessagesAre, Ends
  <2>3. evHand' \in [Clients -> Seq(Messages)] BY <1>6, <2>2, Cell DEF ForwarderTake
  <2> QED BY <1>6, <2>1, <2>3 DEF ForwarderTake, wireVars
<1>7. ASSUME NEW c \in Clients, NEW q \in Seq(Messages), q # <<>>,
             Push(c, q[1]) \/ GivesUp(c)
      PROVE  outCh' \in [Clients -> Seq(Messages)]
  <2>1. q[1] \in Messages BY <1>7
  <2>2. Append(outCh[c], q[1]) \in Seq(Messages) BY <2>1, Ends
  <2>3. CASE outCh' = [outCh EXCEPT ![c] = Append(@, q[1])] BY <2>2, <2>3, Cell
  <2> QED BY <1>7, <2>3 DEF Push, GivesUp
<1>8. ASSUME NEW c \in Clients, ForwarderPush(c) PROVE PushTInv'
  <2>1. outCh' \in [Clients -> Seq(Messages)] BY <1>7, <1>8 DEF ForwarderPush
  <2>2. evHand' \in [Clients -> Seq(Messages)] BY <1>8, Cell, Ends DEF ForwarderPush
  <2> QED BY <1>8, <2>1, <2>2 DEF ForwarderPush, wireVars
<1>9. ASSUME NEW c \in Clients, DrainerTake(c) PROVE PushTInv'
  <2>1. <<Msg("D", rx)>> \in Seq(Messages) BY MessagesAre, Ends
  <2>2. rxHand' \in [Clients -> Seq(Messages)] BY <1>9, <2>1, Cell DEF DrainerTake
  <2> QED BY <1>9, <2>2, Ends DEF DrainerTake, wireVars
<1>10. ASSUME NEW c \in Clients, DrainerPush(c) PROVE PushTInv'
  <2>1. outCh' \in [Clients -> Seq(Messages)] BY <1>7, <1>10 DEF DrainerPush
  <2>2. rxHand' \in [Clients -> Seq(Messages)] BY <1>10, Cell, Ends DEF DrainerPush
  <2> QED BY <1>10, <2>1, <2>2 DEF DrainerPush, wireVars
<1>11. ASSUME NEW c \in Clients, WriterWrite(c) PROVE PushTInv'
  <2>1. Head(outCh[c]) \in Messages /\ Tail(outCh[c]) \in Seq(Messages)
    BY <1>11, Ends DEF WriterWrite
  <2>2. outCh' \in [Clients -> Seq(Messages)] BY <1>11, <2>1, Cell DEF WriterWrite
  <2>3. s2c' \in [Clients -> Seq(Messages)]
    <3>1. Append(s2c[c], Head(outCh[c])) \in Seq(Messages) BY <2>1, Ends
    <3>2. CASE s2c' = [s2c EXCEPT ![c] = Append(@, Head(outCh[c]))] BY <3>1, <3>2, Cell
    <3> QED BY <1>11, <3>2 DEF WriterWrite
  <2> QED BY <1>11, <2>2, <2>3 DEF WriterWrite, handVars
<1>12. CASE Happen
  <2>1. sent["E"] + 1 \in Nat /\ sent["D"] + 1 \in Nat BY DEF Pushes
  <2>2. sent' \in [Pushes -> Nat] BY <1>12, <2>1 DEF Happen, Pushes
  <2>3. sent'["E"] \in Nat /\ sent'["D"] \in Nat BY <2>2 DEF Pushes
  <2>4. Append(events, sent'["E"]) \in Seq(Nat) /\ Append(rx, sent'["D"]) \in Seq(Nat)
    BY <2>3, Ends
  <2>5. events' \in Seq(Nat) /\ rx' \in Seq(Nat) BY <1>12, <2>4 DEF Happen
  <2> QED BY <1>12, <2>2, <2>5 DEF Happen, wireVars, handVars
<1> QED
  BY <1>1, <1>2, <1>3, <1>4, <1>5, <1>6, <1>8, <1>9, <1>10, <1>11, <1>12, StepWays
  DEF Ways, Pushing
-----------------------------------------------------------------------------
(* What a step does to the numbers on the way to one client. *)

Same(c, t) == Chain(c, t)' /\ Ahead(c, t)' = Ahead(c, t)
Less(c, t) == Chain(c, t)' /\ Ahead(c, t)' \subseteq Ahead(c, t)

LEMMA Alone ==
  ASSUME NEW c, NEW t, Chain(c, t), UNCHANGED <<shown[c], s2c[c], outCh[c]>>,
         Held(c, t)' = Held(c, t)
  PROVE  Same(c, t)
BY DEF Same, Chain, Ahead

LEMMA DropLess ==
  ASSUME PushTInv, NEW c \in Clients, NEW t, Chain(c, t), Drop(c)
  PROVE  Less(c, t)
<1>1. /\ s2c'[c] = <<>> /\ UNCHANGED <<shown[c], outCh[c]>>
      /\ Held(c, t)' = Held(c, t)
  BY DEF Drop, PushTInv, Held
<1> QED BY <1>1, EmptyQueue DEF Less, Chain, Ahead, Below

LEMMA InsertSame ==
  ASSUME PushTInv, NEW c \in Clients, NEW t \in Pushes, Chain(c, t), Insert(c)
  PROVE  Same(c, t)
<1>1. PICK m \in {Response, Ready} : s2c' = [s2c EXCEPT ![c] = Append(@, m)]
  BY DEF Insert
<1>2. /\ s2c'[c] = Append(s2c[c], m) /\ UNCHANGED <<shown[c], outCh[c]>>
      /\ Held(c, t)' = Held(c, t) /\ s2c[c] \in Seq(Messages)
  BY <1>1 DEF Insert, PushTInv, Held
<1>3. m \in Messages /\ Of(m, t) = {} BY ReplyKinds, OtherKind
<1>4. Nums(s2c'[c], t) = Nums(s2c[c], t) /\ (Rising(s2c[c], t) => Rising(s2c'[c], t))
  BY <1>2, <1>3, PutOther
<1> QED BY <1>2, <1>4 DEF Same, Chain, Ahead

LEMMA QueueSame ==
  ASSUME TInv, PushTInv, NEW c \in Clients, NEW t \in Pushes, Chain(c, t), Queue(c)
  PROVE  Same(c, t)
<1>1. /\ outCh'[c] = Append(outCh[c], reply) /\ UNCHANGED <<shown[c], s2c[c]>>
      /\ Held(c, t)' = Held(c, t) /\ outCh[c] \in Seq(Messages)
  BY DEF Queue, Push, PushTInv, Held
<1>2. reply \in Messages /\ Of(reply, t) = {} BY ReplyKinds, OtherKind DEF TInv
<1>3. Nums(outCh'[c], t) = Nums(outCh[c], t) /\ (Rising(outCh[c], t) => Rising(outCh'[c], t))
  BY <1>1, <1>2, PutOther
<1> QED BY <1>1, <1>3 DEF Same, Chain, Ahead

LEMMA ReceiveSame ==
  ASSUME PushTInv, NEW c \in Clients, NEW t \in Pushes, Chain(c, t), Receive(c)
  PROVE  Same(c, t)
<1> DEFINE m == Head(s2c[c])
<1>1. /\ s2c'[c] = Tail(s2c[c]) /\ UNCHANGED <<outCh[c]>> /\ Held(c, t)' = Held(c, t)
      /\ s2c[c] \in Seq(Messages) /\ s2c[c] # <<>> /\ shown[c] \in Seq(Messages)
      /\ m \in Messages
      /\ \/ shown'[c] = Append(shown[c], m)
         \/ shown'[c] = shown[c] /\ m.typ \notin Pushes
  BY Ends DEF Receive, PushTInv, Held, handVars, Pushes
<1>2. /\ Nums(s2c[c], t) = Of(m, t) \cup Nums(s2c'[c], t)
      /\ Rising(s2c[c], t) => Rising(s2c'[c], t) /\ Below(Of(m, t), Nums(s2c'[c], t))
  BY <1>1, TakeFirst
<1>3. CASE shown'[c] = Append(shown[c], m)
  <2>1. /\ Nums(shown'[c], t) = Nums(shown[c], t) \cup Of(m, t)
        /\ Rising(shown[c], t) /\ Below(Nums(shown[c], t), Of(m, t)) => Rising(shown'[c], t)
    BY <1>1, <1>3, PutLast
  <2> HIDE DEF m
  <2> QED BY <1>1, <1>2, <2>1 DEF Same, Chain, Ahead, Below
<1>4. CASE shown'[c] = shown[c] /\ m.typ \notin Pushes
  <2>1. Of(m, t) = {} BY <1>4, OtherKind
  <2> QED BY <1>1, <1>2, <1>4, <2>1 DEF Same, Chain, Ahead
<1> QED BY <1>1, <1>3, <1>4

(* From a hand into outCh, or nowhere. *)
LEMMA PushOn ==
  ASSUME PushTInv, NEW c \in Clients, NEW t, Chain(c, t),
         NEW m \in Messages, Held(c, t) = <<m>>, Held(c, t)' = <<>>,
         UNCHANGED <<shown[c], s2c[c]>>, Push(c, m)
  PROVE  Same(c, t)
<1>1. outCh'[c] = Append(outCh[c], m) /\ outCh[c] \in Seq(Messages)
  BY DEF Push, PushTInv
<1>2. /\ Nums(outCh'[c], t) = Nums(outCh[c], t) \cup Of(m, t)
      /\ Rising(outCh[c], t) /\ Below(Nums(outCh[c], t), Of(m, t)) => Rising(outCh'[c], t)
  BY <1>1, PutLast
<1>3. Nums(Held(c, t), t) = Of(m, t) BY OneMessage
<1>4. Nums(Held(c, t)', t) = {} BY EmptyQueue
<1> QED BY <1>2, <1>3, <1>4 DEF Same, Chain, Ahead, Below

LEMMA PushBy ==
  ASSUME PushTInv, NEW c \in Clients, NEW t, Chain(c, t),
         NEW m \in Messages, Of(m, t) = {}, Held(c, t)' = Held(c, t),
         UNCHANGED <<shown[c], s2c[c]>>, Push(c, m)
  PROVE  Same(c, t)
<1>1. outCh'[c] = Append(outCh[c], m) /\ outCh[c] \in Seq(Messages)
  BY DEF Push, PushTInv
<1>2. /\ Nums(outCh'[c], t) = Nums(outCh[c], t)
      /\ Rising(outCh[c], t) => Rising(outCh'[c], t)
  BY <1>1, PutOther
<1> QED BY <1>2 DEF Same, Chain, Ahead

LEMMA GiveUp ==
  ASSUME PushTInv, NEW c \in Clients, NEW t, Chain(c, t), Held(c, t)' = <<>>,
         UNCHANGED <<shown[c], s2c[c], outCh[c]>>
  PROVE  Less(c, t)
BY EmptyQueue DEF Less, Chain, Ahead, Below

LEMMA Singleton ==
  ASSUME NEW q \in Seq(Messages), q # <<>>, Len(q) <= 1
  PROVE  q[1] \in Messages /\ q = <<q[1]>>
OBVIOUS

LEMMA ForwarderPushes ==
  ASSUME PushTInv, HandInv, NEW c \in Clients, NEW t \in Pushes, Chain(c, t), ForwarderPush(c)
  PROVE  Less(c, t) /\ (Same(c, t) \/ c \in ended)
<1> DEFINE m == evHand[c][1]
<1>1. /\ m \in Messages /\ m.typ = "E" /\ evHand[c] = <<m>>
  BY Singleton DEF ForwarderPush, HandInv, PushTInv
<1>2. /\ UNCHANGED <<shown[c], s2c[c], rxHand[c]>> /\ evHand'[c] = <<>>
      /\ Push(c, m) \/ (c \in ended /\ UNCHANGED outCh)
  BY DEF ForwarderPush, GivesUp, PushTInv, wireVars
<1> HIDE DEF m
<1>3. CASE t = "E"
  <2>1. Held(c, t) = <<m>> /\ Held(c, t)' = <<>> BY <1>1, <1>2, <1>3 DEF Held
  <2>2. CASE Push(c, m) BY <1>1, <1>2, <2>1, <2>2, PushOn DEF Less, Same
  <2>3. CASE c \in ended /\ UNCHANGED outCh BY <1>2, <2>1, <2>3, GiveUp
  <2> QED BY <1>2, <2>2, <2>3
<1>4. CASE t = "D"
  <2>1. Held(c, t)' = Held(c, t) /\ Of(m, t) = {} BY <1>1, <1>2, <1>4, OtherKind DEF Held
  <2>2. CASE Push(c, m) BY <1>1, <1>2, <2>1, <2>2, PushBy DEF Less, Same
  <2>3. CASE UNCHANGED outCh BY <1>2, <2>1, <2>3, Alone DEF Less, Same
  <2> QED BY <1>2, <2>2, <2>3
<1> QED BY <1>3, <1>4 DEF Pushes

LEMMA DrainerPushes ==
  ASSUME PushTInv, HandInv, NEW c \in Clients, NEW t \in Pushes, Chain(c, t), DrainerPush(c)
  PROVE  Less(c, t) /\ (Same(c, t) \/ c \in ended)
<1> DEFINE m == rxHand[c][1]
<1>1. /\ m \in Messages /\ m.typ = "D" /\ rxHand[c] = <<m>>
  BY Singleton DEF DrainerPush, HandInv, PushTInv
<1>2. /\ UNCHANGED <<shown[c], s2c[c], evHand[c]>> /\ rxHand'[c] = <<>>
      /\ Push(c, m) \/ (c \in ended /\ UNCHANGED outCh)
  BY DEF DrainerPush, GivesUp, PushTInv, wireVars
<1> HIDE DEF m
<1>3. CASE t = "D"
  <2>1. Held(c, t) = <<m>> /\ Held(c, t)' = <<>> BY <1>1, <1>2, <1>3 DEF Held
  <2>2. CASE Push(c, m) BY <1>1, <1>2, <2>1, <2>2, PushOn DEF Less, Same
  <2>3. CASE c \in ended /\ UNCHANGED outCh BY <1>2, <2>1, <2>3, GiveUp
  <2> QED BY <1>2, <2>2, <2>3
<1>4. CASE t = "E"
  <2>1. Held(c, t)' = Held(c, t) /\ Of(m, t) = {} BY <1>1, <1>2, <1>4, OtherKind DEF Held
  <2>2. CASE Push(c, m) BY <1>1, <1>2, <2>1, <2>2, PushBy DEF Less, Same
  <2>3. CASE UNCHANGED outCh BY <1>2, <2>1, <2>3, Alone DEF Less, Same
  <2> QED BY <1>2, <2>2, <2>3
<1> QED BY <1>3, <1>4 DEF Pushes

LEMMA WriterWrites ==
  ASSUME PushTInv, NEW c \in Clients, NEW t \in Pushes, Chain(c, t), WriterWrite(c)
  PROVE  Less(c, t) /\ (Same(c, t) \/ cli[c] = "off")
<1> DEFINE m == Head(outCh[c])
<1>1. /\ outCh'[c] = Tail(outCh[c]) /\ UNCHANGED <<shown[c]>> /\ Held(c, t)' = Held(c, t)
      /\ outCh[c] \in Seq(Messages) /\ outCh[c] # <<>> /\ s2c[c] \in Seq(Messages)
      /\ m \in Messages
      /\ \/ s2c'[c] = Append(s2c[c], m)
         \/ s2c'[c] = s2c[c] /\ cli[c] = "off"
  BY Ends DEF WriterWrite, PushTInv, Held, handVars
<1>2. /\ Nums(outCh[c], t) = Of(m, t) \cup Nums(outCh'[c], t)
      /\ Rising(outCh[c], t) => Rising(outCh'[c], t) /\ Below(Of(m, t), Nums(outCh'[c], t))
  BY <1>1, TakeFirst
<1>3. CASE s2c'[c] = Append(s2c[c], m)
  <2>1. /\ Nums(s2c'[c], t) = Nums(s2c[c], t) \cup Of(m, t)
        /\ Rising(s2c[c], t) /\ Below(Nums(s2c[c], t), Of(m, t)) => Rising(s2c'[c], t)
    BY <1>1, <1>3, PutLast
  <2> HIDE DEF m
  <2> QED BY <1>1, <1>2, <2>1 DEF Same, Less, Chain, Ahead, Below
<1>4. CASE s2c'[c] = s2c[c] /\ cli[c] = "off"
  <2> HIDE DEF m
  <2> QED BY <1>1, <1>2, <1>4 DEF Less, Chain, Ahead, Below
<1> QED BY <1>1, <1>3, <1>4

(* Into a hand: what is taken must be above all that is ahead of it. *)
LEMMA TakeOn ==
  ASSUME NEW c, NEW t, Chain(c, t), UNCHANGED <<shown[c], s2c[c], outCh[c]>>,
         NEW m \in Messages, Held(c, t)' = <<m>>, Held(c, t) = <<>>,
         Below(Ahead(c, t), Of(m, t))
  PROVE  Chain(c, t)' /\ Ahead(c, t)' = Ahead(c, t) \cup Of(m, t)
<1>1. Nums(Held(c, t)', t) = Of(m, t) BY OneMessage
<1>2. Nums(Held(c, t), t) = {} BY EmptyQueue
<1> QED BY <1>1, <1>2 DEF Chain, Ahead, Below
-----------------------------------------------------------------------------
(* A step loses only with a client, or takes what waits for one client, or *)
(* adds to what waits.                                                     *)

Quiet ==
  /\ UNCHANGED <<events, rx, sent, taken>>
  /\ \A c \in Clients, t \in Pushes :
       Less(c, t) /\ (Same(c, t) \/ c \in ended \/ cli'[c] = "off")

Takes(c, t, N) ==
  /\ Chain(c, t)' /\ Ahead(c, t)' = Ahead(c, t) \cup N
  /\ Waiting(t) = N \cup Waiting(t)' /\ Below(N, Waiting(t)')
  /\ taken' = [taken EXCEPT ![c] = @ \cup {<<t, n>> : n \in N}] /\ UNCHANGED sent
  /\ \A u \in Pushes \ {t} : Waiting(u)' = Waiting(u)
  /\ \A d \in Clients, u \in Pushes : d # c \/ u # t => Same(d, u)

Adds(t) ==
  /\ sent' = [sent EXCEPT ![t] = @ + 1]
  /\ Waiting(t)' = Waiting(t) \cup {sent[t] + 1}
  /\ \A u \in Pushes \ {t} : Waiting(u)' = Waiting(u)
  /\ UNCHANGED taken /\ \A c \in Clients, u \in Pushes : Same(c, u)

LEMMA OthersAlone ==
  ASSUME PushTInv, ChainInv, NEW c \in Clients,
         \A d \in Clients \ {c} : UNCHANGED <<shown[d], s2c[d], outCh[d], evHand[d], rxHand[d]>>
  PROVE  \A d \in Clients \ {c}, t \in Pushes : Same(d, t) /\ Less(d, t)
<1> SUFFICES ASSUME NEW d \in Clients \ {c}, NEW t \in Pushes
             PROVE  Same(d, t) /\ Less(d, t)
  OBVIOUS
<1>1. Held(d, t)' = Held(d, t) BY DEF Held
<1> QED BY <1>1, Alone DEF ChainInv, Same, Less

LEMMA WaitingIs ==
  /\ \A n : n \in Waiting("E") <=> \E i \in DOMAIN events : events[i] = n
  /\ \A n : n \in Waiting("D") <=> \E i \in DOMAIN rx : rx[i] = n
BY DEF Waiting, Range

LEMMA ForwarderTakes ==
  ASSUME TInv, PushTInv, HandInv, ChainInv, ApartInv, NEW c \in Clients, ForwarderTake(c)
  PROVE  Takes(c, "E", {Head(events)})
<1> DEFINE n == Head(events)  m == Msg("E", <<n>>)
<1>1. /\ events # <<>> /\ evHand[c] = <<>> /\ events' = Tail(events) /\ Took(c, m)
      /\ evHand' = [evHand EXCEPT ![c] = <<m>>]
      /\ UNCHANGED <<shown, s2c, outCh, rxHand, rx, sent>>
  BY DEF ForwarderTake, wireVars
<1>2. evHand'[c] = <<m>> BY <1>1 DEF PushTInv
<1>3. \A d \in Clients \ {c} : UNCHANGED <<shown[d], s2c[d], outCh[d], evHand[d], rxHand[d]>>
  BY <1>1 DEF PushTInv
<1>4. /\ n \in Nat /\ m \in Messages /\ m.typ = "E" /\ m.ns = <<n>>
  <2>1. n \in Nat BY <1>1, Ends DEF PushTInv
  <2> QED BY <2>1, MessagesAre DEF Msg
<1>5. Of(m, "E") = {n} /\ Of(m, "D") = {}
  <2>1. DOMAIN <<n>> = {1} /\ <<n>>[1] = n BY <1>4
  <2> HIDE DEF m
  <2> QED BY <1>4, <2>1 DEF Of
<1>6. /\ n \in Waiting("E") /\ Waiting("E") = {n} \cup Waiting("E")'
      /\ Below({n}, Waiting("E")')
  <2>1. /\ DOMAIN events = 1 .. Len(events) /\ Len(events) \in Nat \ {0}
        /\ DOMAIN events' = 1 .. Len(events) - 1
        /\ n = events[1] /\ \A i \in DOMAIN events' : events'[i] = events[i + 1]
    BY <1>1 DEF PushTInv
  <2>2. \A x : x \in Waiting("E")' <=> \E i \in DOMAIN events' : events'[i] = x
    BY DEF Waiting, Range
  <2> HIDE DEF n
  <2>3. n \in Waiting("E") BY <2>1, WaitingIs
  <2>4. ASSUME NEW x \in Waiting("E")' PROVE x \in Waiting("E") /\ n < x
    <3>1. PICK i \in DOMAIN events' : events'[i] = x BY <2>2
    <3>2. i + 1 \in DOMAIN events /\ 1 \in DOMAIN events /\ 1 < i + 1 /\ events[i + 1] = x
      BY <2>1, <3>1
    <3> QED BY <2>1, <3>2, WaitingIs DEF HandInv
  <2>5. ASSUME NEW x \in Waiting("E") PROVE x = n \/ x \in Waiting("E")'
    <3>1. PICK i \in DOMAIN events : events[i] = x BY WaitingIs
    <3>2. i = 1 \/ (i - 1 \in DOMAIN events' /\ events'[i - 1] = x) BY <2>1, <3>1
    <3> QED BY <2>1, <2>2, <3>1, <3>2
  <2> QED BY <2>3, <2>4, <2>5 DEF Below
<1> HIDE DEF n, m
<1>7. Chain(c, "E")' /\ Ahead(c, "E")' = Ahead(c, "E") \cup {n}
  <2>1. Below(Ahead(c, "E"), {n}) BY <1>6 DEF ApartInv, Below, Pushes
  <2>2. Chain(c, "E") BY DEF ChainInv, Pushes
  <2>3. Held(c, "E")' = <<m>> /\ Held(c, "E") = <<>> BY <1>1, <1>2 DEF Held
  <2>4. Below(Ahead(c, "E"), Of(m, "E")) BY <1>5, <2>1
  <2>5. UNCHANGED <<shown[c], s2c[c], outCh[c]>> BY <1>1
  <2>6. Chain(c, "E")' /\ Ahead(c, "E")' = Ahead(c, "E") \cup Of(m, "E")
    BY <1>4, <2>2, <2>3, <2>4, <2>5, TakeOn
  <2> QED BY <1>5, <2>6
<1>8. Same(c, "D")
  <2>1. Held(c, "D")' = Held(c, "D") BY <1>1 DEF Held
  <2> QED BY <1>1, <2>1, Alone DEF ChainInv, Pushes
<1>9. taken' = [taken EXCEPT ![c] = @ \cup {<<"E", x>> : x \in {n}}]
  <2>1. Range(m.ns) = {n} BY <1>4 DEF Range
  <2> QED BY <1>1, <1>4, <2>1 DEF Took
<1>10. Waiting("D")' = Waiting("D") BY <1>1 DEF Waiting
<1>11. \A d \in Clients, u \in Pushes : d # c \/ u # "E" => Same(d, u)
  BY <1>3, <1>8, OthersAlone DEF Pushes
<1> QED BY <1>1, <1>6, <1>7, <1>9, <1>10, <1>11 DEF Takes, Pushes, n

LEMMA DrainerTakes ==
  ASSUME TInv, PushTInv, HandInv, ChainInv, ApartInv, NEW c \in Clients, DrainerTake(c)
  PROVE  Quiet \/ Takes(c, "D", Waiting("D"))
<1> DEFINE m == Msg("D", rx)
<1>1. /\ rxHand[c] = <<>> /\ rx' = <<>>
      /\ UNCHANGED <<shown, s2c, outCh, evHand, events, sent>>
      /\ \/ rx = <<>> /\ UNCHANGED <<rxHand, taken>>
         \/ rxHand' = [rxHand EXCEPT ![c] = <<m>>] /\ Took(c, m)
  BY DEF DrainerTake, wireVars
<1>2. \A d \in Clients \ {c} : UNCHANGED <<shown[d], s2c[d], outCh[d], evHand[d], rxHand[d]>>
  BY <1>1 DEF PushTInv
<1>3. CASE rx = <<>> /\ UNCHANGED <<rxHand, taken>>
  <2>1. \A t \in Pushes : Held(c, t)' = Held(c, t) BY <1>1, <1>3 DEF Held
  <2>2. \A t \in Pushes : Same(c, t) BY <1>1, <2>1, Alone DEF ChainInv
  <2>3. \A t \in Pushes : Less(c, t) BY <2>2 DEF Same, Less
  <2> QED BY <1>1, <1>2, <1>3, <2>2, <2>3, OthersAlone DEF Quiet
<1>4. CASE rxHand' = [rxHand EXCEPT ![c] = <<m>>] /\ Took(c, m)
  <2>1. rxHand'[c] = <<m>> BY <1>4 DEF PushTInv
  <2>2. m \in Messages /\ m.typ = "D" /\ m.ns = rx BY MessagesAre DEF PushTInv, Msg
  <2> HIDE DEF m
  <2>3. Range(m.ns) = Waiting("D") BY <2>2 DEF Waiting
  <2>4. Of(m, "D") = Waiting("D")
    <3>1. Waiting("D") \subseteq Nat BY WaitingIs DEF PushTInv
    <3> QED BY <2>2, <3>1, WaitingIs DEF Of
  <2>5. Waiting("D")' = {} /\ Waiting("E")' = Waiting("E")
    BY <1>1 DEF Waiting, Range
  <2>6. Chain(c, "D")' /\ Ahead(c, "D")' = Ahead(c, "D") \cup Waiting("D")
    <3>1. Below(Ahead(c, "D"), Waiting("D")) BY DEF ApartInv, Pushes
    <3>2. Chain(c, "D") BY DEF ChainInv, Pushes
    <3>3. Held(c, "D")' = <<m>> /\ Held(c, "D") = <<>> BY <1>1, <2>1 DEF Held
    <3> QED BY <1>1, <2>2, <2>4, <3>1, <3>2, <3>3, TakeOn
  <2>7. Same(c, "E")
    <3>1. Held(c, "E")' = Held(c, "E") BY <1>1 DEF Held
    <3> QED BY <1>1, <3>1, Alone DEF ChainInv, Pushes
  <2>8. taken' = [taken EXCEPT ![c] = @ \cup {<<"D", x>> : x \in Waiting("D")}]
    BY <1>4, <2>2, <2>3 DEF Took
  <2>9. \A d \in Clients, u \in Pushes : d # c \/ u # "D" => Same(d, u)
    BY <1>2, <2>7, OthersAlone DEF Pushes
  <2>10. Below(Waiting("D"), {}) BY DEF Below
  <2> QED BY <1>1, <2>5, <2>6, <2>8, <2>9, <2>10 DEF Takes, Pushes
<1> QED BY <1>1, <1>3, <1>4

LEMMA HappenAdds ==
  ASSUME PushTInv, ChainInv, Happen PROVE \E t \in Pushes : Adds(t)
<1>1. /\ UNCHANGED <<shown, s2c, outCh, evHand, rxHand, taken>>
      /\ \/ /\ sent' = [sent EXCEPT !["E"] = @ + 1]
            /\ events' = Append(events, sent'["E"]) /\ UNCHANGED rx
         \/ /\ sent' = [sent EXCEPT !["D"] = @ + 1]
            /\ rx' = Append(rx, sent'["D"]) /\ UNCHANGED events
  BY DEF Happen, wireVars, handVars
<1>2. ASSUME NEW q \in Seq(Nat), NEW n \in Nat
      PROVE  Range(Append(q, n)) = Range(q) \cup {n}
  <2> DEFINE r == Append(q, n)
  <2>1. /\ Len(q) \in Nat /\ DOMAIN q = 1 .. Len(q) /\ DOMAIN r = 1 .. Len(q) + 1
        /\ r[Len(q) + 1] = n /\ \A i \in 1 .. Len(q) : r[i] = q[i]
    OBVIOUS
  <2> HIDE DEF r
  <2>2. \A x \in Range(q) : x \in Range(r) BY <2>1 DEF Range
  <2>3. n \in Range(r) BY <2>1 DEF Range
  <2>4. ASSUME NEW i \in DOMAIN r PROVE r[i] = n \/ r[i] \in Range(q) BY <2>1 DEF Range
  <2>5. Range(r) \subseteq Range(q) \cup {n} BY <2>4 DEF Range
  <2> QED BY <2>2, <2>3, <2>5 DEF r
<1>3. \A c \in Clients, u \in Pushes : Same(c, u)
  <2>1. \A c \in Clients, u \in Pushes : Held(c, u)' = Held(c, u) BY <1>1 DEF Held
  <2> QED BY <1>1, <2>1, Alone DEF ChainInv
<1>4. sent["E"] \in Nat /\ sent["D"] \in Nat BY DEF PushTInv, Pushes
<1>5. CASE /\ sent' = [sent EXCEPT !["E"] = @ + 1]
           /\ events' = Append(events, sent'["E"]) /\ UNCHANGED rx
  <2>1. sent'["E"] = sent["E"] + 1 BY <1>5 DEF PushTInv, Pushes
  <2>2. Waiting("E")' = Waiting("E") \cup {sent["E"] + 1}
    BY <1>2, <1>4, <1>5, <2>1 DEF Waiting, PushTInv
  <2>3. Waiting("D")' = Waiting("D") BY <1>5 DEF Waiting
  <2> QED BY <1>1, <1>3, <1>5, <2>2, <2>3 DEF Adds, Pushes
<1>6. CASE /\ sent' = [sent EXCEPT !["D"] = @ + 1]
           /\ rx' = Append(rx, sent'["D"]) /\ UNCHANGED events
  <2>1. sent'["D"] = sent["D"] + 1 BY <1>6 DEF PushTInv, Pushes
  <2>2. Waiting("D")' = Waiting("D") \cup {sent["D"] + 1}
    BY <1>2, <1>4, <1>6, <2>1 DEF Waiting, PushTInv
  <2>3. Waiting("E")' = Waiting("E") BY <1>6 DEF Waiting
  <2> QED BY <1>1, <1>3, <1>6, <2>2, <2>3 DEF Adds, Pushes
<1> QED BY <1>1, <1>5, <1>6
-----------------------------------------------------------------------------
(* Every step is one of the three. *)

LEMMA QuietAt ==
  ASSUME PushTInv, ChainInv, NEW c \in Clients,
         \A d \in Clients \ {c} : UNCHANGED <<shown[d], s2c[d], outCh[d], evHand[d], rxHand[d]>>,
         \A t \in Pushes : Less(c, t) /\ (Same(c, t) \/ c \in ended \/ cli'[c] = "off"),
         UNCHANGED <<events, rx, sent, taken>>
  PROVE  Quiet
BY OthersAlone DEF Quiet

LEMMA StepKinds ==
  ASSUME TInv, PushTInv, HandInv, ChainInv, ApartInv, [Next]_vars
  PROVE  \/ Quiet
         \/ \E c \in Clients, t \in Pushes, N \in SUBSET Nat : Takes(c, t, N)
         \/ \E t \in Pushes : Adds(t)
<1>1. CASE UNCHANGED Way
  <2>1. \A c \in Clients, t \in Pushes : Held(c, t)' = Held(c, t) BY <1>1 DEF Way, Held
  <2>2. \A c \in Clients, t \in Pushes : Same(c, t)
    BY <1>1, <2>1, Alone DEF Way, ChainInv
  <2> QED BY <1>1, <2>2 DEF Way, Quiet, Same, Less
<1>2. ASSUME NEW c \in Clients, Drop(c) PROVE Quiet
  <2>1. \A d \in Clients \ {c} : UNCHANGED <<shown[d], s2c[d], outCh[d], evHand[d], rxHand[d]>>
    BY <1>2 DEF Drop, PushTInv
  <2>2. \A t \in Pushes : Less(c, t) BY <1>2, DropLess DEF ChainInv
  <2>3. cli'[c] = "off" /\ UNCHANGED <<events, rx, sent, taken>> BY <1>2 DEF Drop
  <2> QED BY <2>1, <2>2, <2>3, QuietAt
<1>3. ASSUME NEW c \in Clients, Insert(c) PROVE Quiet
  <2>1. \A d \in Clients \ {c} : UNCHANGED <<shown[d], s2c[d], outCh[d], evHand[d], rxHand[d]>>
    BY <1>3 DEF Insert, PushTInv
  <2>2. \A t \in Pushes : Same(c, t) BY <1>3, InsertSame DEF ChainInv
  <2>3. UNCHANGED <<events, rx, sent, taken>> BY <1>3 DEF Insert
  <2> QED BY <2>1, <2>2, <2>3, QuietAt DEF Same, Less
<1>4. ASSUME NEW c \in Clients, Queue(c) PROVE Quiet
  <2>1. \A d \in Clients \ {c} : UNCHANGED <<shown[d], s2c[d], outCh[d], evHand[d], rxHand[d]>>
    BY <1>4 DEF Queue, Push, PushTInv
  <2>2. \A t \in Pushes : Same(c, t) BY <1>4, QueueSame DEF ChainInv
  <2>3. UNCHANGED <<events, rx, sent, taken>> BY <1>4 DEF Queue
  <2> QED BY <2>1, <2>2, <2>3, QuietAt DEF Same, Less
<1>5. ASSUME NEW c \in Clients, Receive(c) PROVE Quiet
  <2>1. \A d \in Clients \ {c} : UNCHANGED <<shown[d], s2c[d], outCh[d], evHand[d], rxHand[d]>>
    BY <1>5 DEF Receive, PushTInv, handVars
  <2>2. \A t \in Pushes : Same(c, t) BY <1>5, ReceiveSame DEF ChainInv
  <2>3. UNCHANGED <<events, rx, sent, taken>> BY <1>5 DEF Receive, handVars
  <2> QED BY <2>1, <2>2, <2>3, QuietAt DEF Same, Less
<1>6. ASSUME NEW c \in Clients, ForwarderPush(c) PROVE Quiet
  <2>1. \A d \in Clients \ {c} : UNCHANGED <<shown[d], s2c[d], outCh[d], evHand[d], rxHand[d]>>
    BY <1>6 DEF ForwarderPush, Push, GivesUp, PushTInv, wireVars
  <2>2. \A t \in Pushes : Less(c, t) /\ (Same(c, t) \/ c \in ended)
    BY <1>6, ForwarderPushes DEF ChainInv
  <2>3. UNCHANGED <<events, rx, sent, taken>> BY <1>6 DEF ForwarderPush
  <2> QED BY <2>1, <2>2, <2>3, QuietAt
<1>7. ASSUME NEW c \in Clients, DrainerPush(c) PROVE Quiet
  <2>1. \A d \in Clients \ {c} : UNCHANGED <<shown[d], s2c[d], outCh[d], evHand[d], rxHand[d]>>
    BY <1>7 DEF DrainerPush, Push, GivesUp, PushTInv, wireVars
  <2>2. \A t \in Pushes : Less(c, t) /\ (Same(c, t) \/ c \in ended)
    BY <1>7, DrainerPushes DEF ChainInv
  <2>3. UNCHANGED <<events, rx, sent, taken>> BY <1>7 DEF DrainerPush
  <2> QED BY <2>1, <2>2, <2>3, QuietAt
<1>8. ASSUME NEW c \in Clients, WriterWrite(c) PROVE Quiet
  <2>1. \A d \in Clients \ {c} : UNCHANGED <<shown[d], s2c[d], outCh[d], evHand[d], rxHand[d]>>
    BY <1>8 DEF WriterWrite, PushTInv, handVars
  <2>2. \A t \in Pushes : Less(c, t) /\ (Same(c, t) \/ cli[c] = "off")
    BY <1>8, WriterWrites DEF ChainInv
  <2>3. UNCHANGED <<cli, events, rx, sent, taken>> BY <1>8 DEF WriterWrite, handVars, userVars
  <2> QED BY <2>1, <2>2, <2>3, QuietAt
<1>9. ASSUME NEW c \in Clients, ForwarderTake(c)
      PROVE  \E t \in Pushes, N \in SUBSET Nat : Takes(c, t, N)
  <2>1. {Head(events)} \in SUBSET Nat BY <1>9, Ends DEF ForwarderTake, PushTInv
  <2> QED BY <1>9, <2>1, ForwarderTakes DEF Pushes
<1>10. ASSUME NEW c \in Clients, DrainerTake(c)
       PROVE  Quiet \/ \E t \in Pushes, N \in SUBSET Nat : Takes(c, t, N)
  <2>1. Waiting("D") \in SUBSET Nat BY WaitingIs DEF PushTInv
  <2> QED BY <1>10, <2>1, DrainerTakes DEF Pushes
<1> QED
  BY <1>1, <1>2, <1>3, <1>4, <1>5, <1>6, <1>7, <1>8, <1>9, <1>10, HappenAdds, StepWays
  DEF Ways, Pushing

-----------------------------------------------------------------------------
(* What is pushed stays in order and apart. *)

LEMMA ChainStep ==
  ASSUME TInv, PushTInv, HandInv, ChainInv, ApartInv, [Next]_vars PROVE ChainInv'
<1>1. CASE Quiet BY <1>1 DEF Quiet, Less, ChainInv
<1>2. ASSUME NEW c \in Clients, NEW t \in Pushes, NEW N \in SUBSET Nat, Takes(c, t, N)
      PROVE  ChainInv'
  BY <1>2 DEF Takes, Same, ChainInv
<1>3. ASSUME NEW t \in Pushes, Adds(t) PROVE ChainInv' BY <1>3 DEF Adds, Same, ChainInv
<1> QED BY <1>1, <1>2, <1>3, StepKinds

LEMMA ApartStep ==
  ASSUME TInv, PushTInv, HandInv, ChainInv, ApartInv, [Next]_vars PROVE ApartInv'
<1>0. \A t \in Pushes : sent[t] \in Nat BY DEF PushTInv
<1>1. CASE Quiet
  <2>1. \A t \in Pushes : Waiting(t)' = Waiting(t) /\ sent'[t] = sent[t]
    BY <1>1 DEF Quiet, Waiting
  <2>2. \A c \in Clients, t \in Pushes : Ahead(c, t)' \subseteq Ahead(c, t)
    BY <1>1 DEF Quiet, Less
  <2> QED BY <2>1, <2>2 DEF ApartInv, Below
<1>2. ASSUME NEW c \in Clients, NEW t \in Pushes, NEW N \in SUBSET Nat, Takes(c, t, N)
      PROVE  ApartInv'
  <2>1. /\ Ahead(c, t)' = Ahead(c, t) \cup N /\ sent' = sent
        /\ Waiting(t) = N \cup Waiting(t)' /\ Below(N, Waiting(t)')
        /\ \A u \in Pushes \ {t} : Waiting(u)' = Waiting(u)
        /\ \A d \in Clients, u \in Pushes : d # c \/ u # t => Ahead(d, u)' = Ahead(d, u)
    BY <1>2 DEF Takes, Same
  <2>2. ASSUME NEW d \in Clients \ {c} PROVE N \cap Ahead(d, t) = {}
    <3>1. Below(Ahead(d, t), N) BY <2>1 DEF ApartInv, Below
    <3> SUFFICES ASSUME NEW n \in N, n \in Ahead(d, t) PROVE FALSE OBVIOUS
    <3>2. n < n /\ n \in Nat BY <3>1 DEF Below
    <3> QED BY <3>2
  <2>3. ASSUME NEW u \in Pushes \ {t}
        PROVE  /\ Waiting(u)' \subseteq 1 .. sent'[u]
               /\ \A d \in Clients :
                    /\ Ahead(d, u)' \subseteq 1 .. sent'[u] /\ Below(Ahead(d, u)', Waiting(u)')
                    /\ \A e \in Clients \ {d} : Ahead(d, u)' \cap Ahead(e, u)' = {}
    BY <2>1 DEF ApartInv
  <2>4. /\ Waiting(t)' \subseteq 1 .. sent'[t]
        /\ \A d \in Clients :
             /\ Ahead(d, t)' \subseteq 1 .. sent'[t] /\ Below(Ahead(d, t)', Waiting(t)')
             /\ \A e \in Clients \ {d} : Ahead(d, t)' \cap Ahead(e, t)' = {}
    BY <2>1, <2>2 DEF ApartInv, Below
  <2> QED BY <2>3, <2>4 DEF ApartInv
<1>3. ASSUME NEW t \in Pushes, Adds(t) PROVE ApartInv'
  <2>1. /\ sent'[t] = sent[t] + 1 /\ \A u \in Pushes \ {t} : sent'[u] = sent[u]
        /\ Waiting(t)' = Waiting(t) \cup {sent[t] + 1}
        /\ \A u \in Pushes \ {t} : Waiting(u)' = Waiting(u)
        /\ \A d \in Clients, u \in Pushes : Ahead(d, u)' = Ahead(d, u)
    BY <1>3 DEF Adds, Same, PushTInv
  <2>2. ASSUME NEW u \in Pushes \ {t}
        PROVE  /\ Waiting(u)' \subseteq 1 .. sent'[u]
               /\ \A d \in Clients :
                    /\ Ahead(d, u)' \subseteq 1 .. sent'[u] /\ Below(Ahead(d, u)', Waiting(u)')
                    /\ \A e \in Clients \ {d} : Ahead(d, u)' \cap Ahead(e, u)' = {}
    BY <2>1 DEF ApartInv
  <2>3. Waiting(t)' \subseteq 1 .. sent'[t] BY <1>0, <2>1 DEF ApartInv
  <2>4. ASSUME NEW d \in Clients
        PROVE  /\ Ahead(d, t)' \subseteq 1 .. sent'[t] /\ Below(Ahead(d, t)', Waiting(t)')
               /\ \A e \in Clients \ {d} : Ahead(d, t)' \cap Ahead(e, t)' = {}
    BY <1>0, <2>1 DEF ApartInv, Below
  <2> QED BY <2>2, <2>3, <2>4 DEF ApartInv
<1> QED BY <1>1, <1>2, <1>3, StepKinds
LEMMA Forever ==
  ASSUME TInv, [Next]_vars
  PROVE  /\ ended \subseteq ended'
         /\ \A c \in Clients : cli[c] = "off" => cli'[c] = "off"
<1> USE DEF TInv
<1>1. CASE UNCHANGED vars BY <1>1 DEF vars, userVars, runVars
<1>2. ASSUME NEW c \in Clients, Dial(c) PROVE ended' = ended /\ cli[c] # "off" /\ cli' = [cli EXCEPT ![c] = "dial"]
  BY <1>2 DEF Dial
<1>3. ASSUME NEW c \in Clients, Receive(c) \/ SessionEof(c) \/ \E line \in Lines : Type(c, line)
      PROVE  ended' = ended /\ cli[c] # "off" /\ \A d \in Clients \ {c} : cli'[d] = cli[d]
  BY <1>3 DEF Receive, SessionEof, Type, Types, runVars
<1>4. ASSUME NEW c \in Clients, Leave(c)
      PROVE  ended' = ended /\ \A d \in Clients \ {c} : cli'[d] = cli[d]
  BY <1>4 DEF Leave, runVars
<1>5. CASE AuthFail BY <1>5 DEF AuthFail
<1>6. CASE \/ Accept \/ AuthOk \/ AcceptFails \/ Reply \/ Bye \/ ClientGone
           \/ \E line \in Lines : MenuLine(line) \/ SessionLine(line)
  BY <1>6 DEF Accept, AuthOk, AcceptFails, Reply, Bye, ClientGone, MenuLine, SessionLine, Return,
              userVars
<1>7. ASSUME NEW c \in Clients, Pushing(c) \/ WriterWrite(c) PROVE UNCHANGED <<cli, ended>>
  BY <1>7 DEF Pushing, ForwarderTake, ForwarderPush, DrainerTake, DrainerPush, WriterWrite,
              userVars, runVars
<1>8. CASE Happen BY <1>8 DEF Happen, userVars, runVars
<1>9. ASSUME NEW c \in Clients, Leave(c) PROVE cli'[c] = "off" BY <1>9 DEF Leave
<1> QED BY <1>1, <1>2, <1>3, <1>4, <1>5, <1>6, <1>7, <1>8, <1>9 DEF Next, Main, User

(* Who takes is above all it holds, and what was taken and is not ahead of *)
(* a client any more was on its way to one that has left.                  *)
LEMMA LossStep ==
  ASSUME TInv, PushTInv, HandInv, ChainInv, ApartInv, LossInv, [Next]_vars PROVE LossInv'
<1>0. \A t \in Pushes : sent[t] \in Nat BY DEF PushTInv
<1>1. CASE Quiet
  <2>1. \A t \in Pushes : Waiting(t)' = Waiting(t) /\ sent'[t] = sent[t] /\ taken' = taken
    BY <1>1 DEF Quiet, Waiting
  <2>2. \A c \in Clients, t \in Pushes :
          /\ Ahead(c, t)' \subseteq Ahead(c, t)
          /\ Ahead(c, t)' = Ahead(c, t) \/ c \in ended' \/ cli'[c] = "off"
    BY <1>1, Forever DEF Quiet, Less, Same
  <2> SUFFICES ASSUME NEW t \in Pushes
               PROVE  /\ \A c \in Clients : \A n \in Ahead(c, t)' : <<t, n>> \in taken'[c]
                      /\ \A n \in 1 .. sent'[t] :
                           \/ n \in Waiting(t)'
                           \/ \E c \in Clients : n \in Ahead(c, t)'
                           \/ \E c \in Clients : <<t, n>> \in taken'[c]
                                                   /\ (c \in ended' \/ cli'[c] = "off")
    BY DEF LossInv
  <2>3. ASSUME NEW c \in Clients, NEW n \in Ahead(c, t)' PROVE <<t, n>> \in taken'[c]
    BY <2>1, <2>2 DEF LossInv
  <2>4. ASSUME NEW n \in 1 .. sent'[t], n \notin Waiting(t)',
               \A c \in Clients : n \notin Ahead(c, t)'
        PROVE  \E c \in Clients : <<t, n>> \in taken'[c] /\ (c \in ended' \/ cli'[c] = "off")
    <3>1. n \in 1 .. sent[t] /\ n \notin Waiting(t) BY <2>1, <2>4
    <3>2. CASE \E c \in Clients : n \in Ahead(c, t)
      <4>1. PICK c \in Clients : n \in Ahead(c, t) BY <3>2
      <4>2. c \in ended' \/ cli'[c] = "off" BY <2>2, <2>4, <4>1
      <4>3. <<t, n>> \in taken[c] BY <4>1 DEF LossInv
      <4> QED BY <2>1, <4>2, <4>3
    <3>3. CASE \E c \in Clients : <<t, n>> \in taken[c] /\ (c \in ended \/ cli[c] = "off")
      BY <2>1, <3>3, Forever
    <3> QED BY <3>1, <3>2, <3>3 DEF LossInv
  <2> QED BY <2>3, <2>4
<1>2. ASSUME NEW c \in Clients, NEW t \in Pushes, NEW N \in SUBSET Nat, Takes(c, t, N)
      PROVE  LossInv'
  <2>1. /\ Ahead(c, t)' = Ahead(c, t) \cup N /\ sent' = sent /\ Waiting(t) = N \cup Waiting(t)'
        /\ \A u \in Pushes \ {t} : Waiting(u)' = Waiting(u)
        /\ \A d \in Clients, u \in Pushes : d # c \/ u # t => Ahead(d, u)' = Ahead(d, u)
    BY <1>2 DEF Takes, Same
  <2>2. /\ taken'[c] = taken[c] \cup {<<t, n>> : n \in N}
        /\ \A d \in Clients \ {c} : taken'[d] = taken[d]
    BY <1>2 DEF Takes, TInv
  <2>3. \A d \in Clients : taken[d] \subseteq taken'[d] BY <2>2
  <2>4. \A d \in Clients, u \in Pushes : \A n \in Ahead(d, u)' : <<u, n>> \in taken'[d]
    BY <2>1, <2>2, <2>3 DEF LossInv
  <2>5. ASSUME NEW u \in Pushes, NEW n \in 1 .. sent'[u]
        PROVE  \/ n \in Waiting(u)'
               \/ \E d \in Clients : n \in Ahead(d, u)'
               \/ \E d \in Clients : <<u, n>> \in taken'[d] /\ (d \in ended' \/ cli'[d] = "off")
    <3>1. n \in 1 .. sent[u] BY <2>1
    <3>2. CASE n \in Waiting(u) BY <2>1, <3>2
    <3>3. ASSUME NEW d \in Clients, n \in Ahead(d, u) PROVE n \in Ahead(d, u)' BY <2>1, <3>3
    <3>4. CASE \E d \in Clients : <<u, n>> \in taken[d] /\ (d \in ended \/ cli[d] = "off")
      BY <2>3, <3>4, Forever
    <3> QED BY <3>1, <3>2, <3>3, <3>4 DEF LossInv
  <2> QED BY <2>4, <2>5 DEF LossInv
<1>3. ASSUME NEW t \in Pushes, Adds(t) PROVE LossInv'
  <2>1. /\ sent'[t] = sent[t] + 1 /\ \A u \in Pushes \ {t} : sent'[u] = sent[u]
        /\ Waiting(t)' = Waiting(t) \cup {sent[t] + 1} /\ taken' = taken
        /\ \A u \in Pushes \ {t} : Waiting(u)' = Waiting(u)
        /\ \A d \in Clients, u \in Pushes : Ahead(d, u)' = Ahead(d, u)
    BY <1>3 DEF Adds, Same, PushTInv
  <2>2. \A d \in Clients, u \in Pushes : \A n \in Ahead(d, u)' : <<u, n>> \in taken'[d]
    BY <2>1 DEF LossInv
  <2>3. ASSUME NEW u \in Pushes, NEW n \in 1 .. sent'[u]
        PROVE  \/ n \in Waiting(u)'
               \/ \E d \in Clients : n \in Ahead(d, u)'
               \/ \E d \in Clients : <<u, n>> \in taken'[d] /\ (d \in ended' \/ cli'[d] = "off")
    <3>1. (u = t /\ n = sent[t] + 1) \/ n \in 1 .. sent[u] BY <1>0, <2>1
    <3>2. CASE n \in 1 .. sent[u] BY <2>1, <3>2, Forever DEF LossInv
    <3> QED BY <2>1, <3>1, <3>2
  <2> QED BY <2>2, <2>3 DEF LossInv
<1> QED BY <1>1, <1>2, <1>3, StepKinds

LEMMA HandStep ==
  ASSUME TInv, PushTInv, HandInv, ApartInv, [Next]_vars PROVE HandInv'
<1>1. CASE UNCHANGED <<events, evHand, rxHand>> BY <1>1 DEF HandInv
<1>2. ASSUME NEW c \in Clients, ForwarderTake(c) PROVE HandInv'
  <2> DEFINE m == Msg("E", <<Head(events)>>)
  <2>1. /\ evHand' = [evHand EXCEPT ![c] = <<m>>] /\ rxHand' = rxHand
        /\ events' = Tail(events) /\ events # <<>>
    BY <1>2 DEF ForwarderTake
  <2>2. Len(<<m>>) = 1 /\ <<m>>[1].typ = "E" BY DEF Msg
  <2> HIDE DEF m
  <2>3. \A i, j \in DOMAIN events' : i < j => events'[i] < events'[j]
    <3>1. /\ DOMAIN events = 1 .. Len(events) /\ Len(events) \in Nat \ {0}
          /\ DOMAIN events' = 1 .. Len(events) - 1
          /\ \A i \in DOMAIN events' : events'[i] = events[i + 1]
      BY <2>1 DEF PushTInv
    <3> TAKE i, j \in DOMAIN events'
    <3>2. i + 1 \in DOMAIN events /\ j + 1 \in DOMAIN events /\ (i < j => i + 1 < j + 1)
      BY <3>1
    <3> QED BY <3>1, <3>2 DEF HandInv
  <2> QED BY <2>1, <2>2, <2>3 DEF HandInv, PushTInv
<1>3. ASSUME NEW c \in Clients, ForwarderPush(c) PROVE HandInv'
  BY <1>3 DEF ForwarderPush, HandInv, PushTInv
<1>4. ASSUME NEW c \in Clients, DrainerTake(c) PROVE HandInv'
  <2> DEFINE m == Msg("D", rx)
  <2>1. /\ evHand' = evHand /\ events' = events
        /\ rxHand' = [rxHand EXCEPT ![c] = <<m>>] \/ rxHand' = rxHand
    BY <1>4 DEF DrainerTake
  <2>2. Len(<<m>>) = 1 /\ <<m>>[1].typ = "D" BY DEF Msg
  <2> HIDE DEF m
  <2>3. CASE rxHand' = [rxHand EXCEPT ![c] = <<m>>]
    BY <2>1, <2>2, <2>3 DEF HandInv, PushTInv
  <2>4. CASE rxHand' = rxHand BY <2>1, <2>4 DEF HandInv
  <2> QED BY <2>1, <2>3, <2>4
<1>5. ASSUME NEW c \in Clients, DrainerPush(c) PROVE HandInv'
  BY <1>5 DEF DrainerPush, HandInv, PushTInv
<1>6. CASE Happen
  <2>1. UNCHANGED <<evHand, rxHand>> BY <1>6 DEF Happen, handVars
  <2>2. CASE UNCHANGED events BY <2>1, <2>2 DEF HandInv
  <2>3. CASE events' = Append(events, sent'.E) /\ sent' = [sent EXCEPT !.E = @ + 1]
    <3>1. sent'["E"] = sent["E"] + 1 /\ sent["E"] \in Nat /\ events' = Append(events, sent'["E"])
      BY <2>3 DEF PushTInv, Pushes
    <3>2. /\ Len(events) \in Nat /\ DOMAIN events = 1 .. Len(events)
          /\ DOMAIN events' = 1 .. Len(events) + 1 /\ events'[Len(events) + 1] = sent'["E"]
          /\ \A i \in 1 .. Len(events) : events'[i] = events[i] /\ events[i] \in Nat
      BY <3>1 DEF PushTInv
    <3>3. \A i \in 1 .. Len(events) : events[i] <= sent["E"]
      BY <3>2, WaitingIs DEF ApartInv, Pushes
    <3>4. ASSUME NEW i \in DOMAIN events', NEW j \in DOMAIN events', i < j
          PROVE  events'[i] < events'[j]
      <4>1. i \in 1 .. Len(events) BY <3>2, <3>4
      <4>2. CASE j \in 1 .. Len(events) BY <3>2, <3>4, <4>1, <4>2 DEF HandInv
      <4>3. CASE j = Len(events) + 1 BY <3>1, <3>2, <3>3, <4>1, <4>3
      <4> QED BY <3>2, <4>2, <4>3
    <3> QED BY <2>1, <3>4 DEF HandInv
  <2> QED BY <1>6, <2>2, <2>3 DEF Happen
<1>7. ASSUME NEW c \in Clients,
             Drop(c) \/ Insert(c) \/ Receive(c) \/ Queue(c) \/ WriterWrite(c)
      PROVE  UNCHANGED <<events, evHand, rxHand>>
  BY <1>7 DEF Drop, Insert, Receive, Queue, WriterWrite, handVars
<1>8. CASE UNCHANGED Way BY <1>1, <1>8 DEF Way
<1> QED BY <1>1, <1>2, <1>3, <1>4, <1>5, <1>6, <1>7, <1>8, StepWays DEF Ways, Pushing
-----------------------------------------------------------------------------
(* Who is served: the steps of the goroutines that push and write do not   *)
(* matter, and nobody is touched who is not served.                        *)

Background == Happen \/ UNCHANGED vars \/ \E c \in Clients : Pushing(c) \/ WriterWrite(c)

LEMMA InBackground ==
  ASSUME Background PROVE UNCHANGED <<userVars, runVars, c2s>>
BY DEF Background, Pushing, ForwarderTake, ForwarderPush, DrainerTake, DrainerPush, WriterWrite,
       Happen, vars, wireVars

LEMMA TouchedStep ==
  ASSUME TInv, PushTInv, [Next]_vars, NEW c \in Clients, Touched(c)'
  PROVE  Touched(c) \/ Served(c) \/ (AuthOk /\ c = cl)
<1>1. CASE UNCHANGED vars
  BY <1>1 DEF vars, Touched, userVars, runVars, wireVars, handVars
<1>2. ASSUME NEW d \in Clients, Dial(d) PROVE Touched(c)
  BY <1>2 DEF Dial, Touched, handVars
<1>3. ASSUME NEW d \in Clients, NEW line \in Lines, Type(d, line) PROVE Touched(c)
  BY <1>3 DEF Type, Touched, handVars, runVars
<1>4. ASSUME NEW d \in Clients, SessionEof(d) PROVE Touched(c)
  BY <1>4 DEF SessionEof, Touched, handVars, runVars, wireVars
<1>5. ASSUME NEW d \in Clients, Leave(d) PROVE Touched(c)
  <2>1. s2c'[c] = s2c[c] \/ s2c'[c] = <<>> BY <1>5 DEF Leave, PushTInv
  <2> QED BY <1>5, <2>1 DEF Leave, Touched, handVars, runVars
<1>6. ASSUME NEW d \in Clients, Receive(d) PROVE Touched(c)
  <2>1. s2c'[c] = s2c[c] \/ s2c[c] # <<>> BY <1>6 DEF Receive, PushTInv
  <2> QED BY <1>6, <2>1 DEF Receive, Touched, handVars, runVars
<1>7. CASE Accept BY <1>7 DEF Accept, Touched, handVars, wireVars
<1>8. CASE AuthOk
  <2>1. c # cl => s2c'[c] = s2c[c] BY <1>8 DEF AuthOk, PushTInv
  <2> QED BY <1>8, <2>1 DEF AuthOk, Touched, handVars
<1>9. CASE AuthFail BY <1>9 DEF AuthFail, Touched, handVars, wireVars
<1>10. CASE AcceptFails BY <1>10 DEF AcceptFails, Touched, handVars, wireVars
<1>11. ASSUME NEW line \in Lines, MenuLine(line) PROVE Touched(c)
  BY <1>11 DEF MenuLine, Touched, handVars
<1>12. CASE Reply
  <2>1. c # cl => outCh'[c] = outCh[c] /\ dr'[c] = dr[c]
    BY <1>12 DEF Reply, Push, PushTInv, TInv
  <2>2. spc \in Serving BY <1>12 DEF Reply, Serving
  <2> QED BY <1>12, <2>1, <2>2 DEF Reply, Touched, Served, handVars, wireVars
<1>13. CASE Bye
  <2>1. c # cl => s2c'[c] = s2c[c] /\ (c \in ended' => c \in ended)
    BY <1>13 DEF Bye, Return, PushTInv
  <2>2. spc \in Serving BY <1>13 DEF Bye, Serving
  <2> QED BY <1>13, <2>1, <2>2 DEF Bye, Touched, Served, handVars
<1>14. ASSUME NEW line \in Lines, SessionLine(line) PROVE Touched(c)
  <2>1. dr'[c] = dr[c] \/ dr[c] # "off" BY <1>14 DEF SessionLine, TellDrainer, TInv
  <2> QED BY <1>14, <2>1 DEF SessionLine, Touched, handVars
<1>15. CASE ClientGone
  <2>1. dr'[c] = dr[c] \/ dr[c] # "off" BY <1>15 DEF ClientGone, TellDrainer, TInv
  <2>2. c # cl => (c \in ended' => c \in ended) BY <1>15 DEF ClientGone, Return
  <2>3. spc \in Serving BY <1>15 DEF ClientGone, Serving
  <2> QED BY <1>15, <2>1, <2>2, <2>3 DEF ClientGone, Touched, Served, handVars, wireVars
<1>16. ASSUME NEW d \in Clients, ForwarderTake(d) PROVE Touched(c) \/ Served(c)
  <2>1. c # d => evHand'[c] = evHand[c] BY <1>16 DEF ForwarderTake, PushTInv
  <2>2. Touched(d) \/ Served(d)
    <3>1. CASE d \in ended BY <3>1 DEF Touched
    <3>2. CASE d = cl /\ spc # "auth"
      <4>1. cl # None BY <3>2, ServingAssumption
      <4>2. spc \in Serving BY <3>2, <4>1 DEF TInv
      <4> QED BY <3>2, <4>2 DEF Served
    <3> QED BY <1>16, <3>1, <3>2 DEF ForwarderTake
  <2> QED BY <1>16, <2>1, <2>2 DEF ForwarderTake, Touched, runVars, wireVars
<1>17. ASSUME NEW d \in Clients, ForwarderPush(d) PROVE Touched(c)
  <2>1. c # d => evHand'[c] = evHand[c] /\ outCh'[c] = outCh[c]
    BY <1>17 DEF ForwarderPush, Push, GivesUp, PushTInv
  <2>2. Touched(d) BY <1>17 DEF ForwarderPush, Touched
  <2> QED BY <1>17, <2>1, <2>2 DEF ForwarderPush, Touched, runVars, wireVars
<1>18. ASSUME NEW d \in Clients, DrainerTake(d) PROVE Touched(c)
  <2>1. c # d => rxHand'[c] = rxHand[c] /\ dr'[c] = dr[c]
    BY <1>18 DEF DrainerTake, PushTInv, TInv
  <2>2. Touched(d) BY <1>18 DEF DrainerTake, Touched
  <2> QED BY <1>18, <2>1, <2>2 DEF DrainerTake, Touched, runVars, wireVars
<1>19. ASSUME NEW d \in Clients, DrainerPush(d) PROVE Touched(c)
  <2>1. c # d => rxHand'[c] = rxHand[c] /\ outCh'[c] = outCh[c] /\ dr'[c] = dr[c]
    BY <1>19 DEF DrainerPush, Push, GivesUp, PushTInv, TInv
  <2>2. Touched(d) BY <1>19 DEF DrainerPush, Touched
  <2> QED BY <1>19, <2>1, <2>2 DEF DrainerPush, Touched, runVars, wireVars
<1>20. ASSUME NEW d \in Clients, WriterWrite(d) PROVE Touched(c)
  <2>1. c # d => outCh'[c] = outCh[c] /\ s2c'[c] = s2c[c] BY <1>20 DEF WriterWrite, PushTInv
  <2>2. Touched(d) BY <1>20 DEF WriterWrite, Touched
  <2> QED BY <1>20, <2>1, <2>2 DEF WriterWrite, Touched, runVars, handVars
<1>21. CASE Happen BY <1>21 DEF Happen, Touched, runVars, wireVars, handVars
<1> QED
  BY <1>1, <1>2, <1>3, <1>4, <1>5, <1>6, <1>7, <1>8, <1>9, <1>10, <1>11, <1>12, <1>13, <1>14,
     <1>15, <1>16, <1>17, <1>18, <1>19, <1>20, <1>21
  DEF Next, Main, User, Pushing
-----------------------------------------------------------------------------
(* Bounds. *)

LEMMA TypedCounts ==
  ASSUME TInv, NEW c \in Clients
  PROVE  Len(typed[c]) <= Cardinality(AllTyped) /\ Cardinality(AllTyped) \in Nat
<1>1. \A d \in Clients : Len(typed[d]) \in Nat /\ DOMAIN typed[d] = 1 .. Len(typed[d])
  BY DEF TInv
<1>2. \A d \in Clients : IsFiniteSet({d} \X DOMAIN typed[d])
  <2> TAKE d \in Clients
  <2>1. IsFiniteSet(DOMAIN typed[d]) BY <1>1, FS_Interval
  <2> QED BY <2>1, FS_Singleton, FS_Product
<1>3. IsFiniteSet(AllTyped)
  <2>1. IsFiniteSet({{d} \X DOMAIN typed[d] : d \in Clients})
    <3> DEFINE S == {{d} \X DOMAIN typed[d] : d \in Clients}
               f == [d \in Clients |-> {d} \X DOMAIN typed[d]]
    <3>1. f \in Surjection(Clients, S) BY DEF Surjection
    <3> QED BY <3>1, FS_Surjection, ServingAssumption
  <2> QED BY <1>2, <2>1, FS_UNION DEF AllTyped
<1>4. {c} \X DOMAIN typed[c] \subseteq AllTyped BY DEF AllTyped
<1>5. Cardinality({c} \X DOMAIN typed[c]) = Len(typed[c])
  <2>1. IsFiniteSet(DOMAIN typed[c]) /\ Cardinality(DOMAIN typed[c]) = Len(typed[c])
    <3>1. \A n \in Nat : IsFiniteSet(1 .. n) /\ Cardinality(1 .. n) = IF 1 > n THEN 0 ELSE n - 1 + 1
      BY ONLY FS_Interval
    <3>2. \A n \in Nat : (IF 1 > n THEN 0 ELSE n - 1 + 1) = n OBVIOUS
    <3> QED BY ONLY <1>1, <3>1, <3>2
  <2>2. IsFiniteSet({c}) /\ Cardinality({c}) = 1 BY FS_Singleton
  <2>3. Cardinality({c} \X DOMAIN typed[c])
          = Cardinality({c}) * Cardinality(DOMAIN typed[c])
    BY ONLY <2>1, <2>2, FS_Product
  <2> QED BY <1>1, <2>1, <2>2, <2>3
<1> QED BY <1>3, <1>4, <1>5, FS_Subset, FS_CardinalityType

LEMMA CapStep ==
  ASSUME TInv, PushTInv, CapInv, WaitInv, [Next]_vars PROVE CapInv'
<1> USE ServingAssumption
<1>0. /\ \A c \in Clients : Len(typed[c]) \in Nat /\ Len(outCh[c]) \in Nat /\ Len(s2c[c]) \in Nat
      /\ MaxLines \in Nat /\ OutCap \in Nat \ {0} /\ WireCap \in Nat \ {0}
  BY DEF TInv, PushTInv
<1> SUFFICES ASSUME NEW d \in Clients
             PROVE  /\ Len(typed'[d]) <= MaxLines
                    /\ Len(outCh'[d]) <= OutCap /\ Len(s2c'[d]) <= WireCap
                    /\ dr'[d] = "run" => spc' = "session" /\ cl' = d
  BY DEF CapInv
<1> USE DEF CapInv
<1>1. CASE UNCHANGED vars
  BY <1>1 DEF vars, userVars, runVars, wireVars
<1>2. ASSUME NEW c \in Clients, NEW X, NEW f \in [Clients -> Seq(X)], NEW x \in X,
             NEW f1, f1 = [f EXCEPT ![c] = Append(@, x)]
      PROVE  (d # c => Len(f1[d]) = Len(f[d])) /\ (d = c => Len(f1[d]) = Len(f[d]) + 1)
  BY <1>2
<1>3. ASSUME NEW c \in Clients, NEW X, NEW f \in [Clients -> Seq(X)], f[c] # <<>>,
             NEW f1, f1 = [f EXCEPT ![c] = Tail(@)]
      PROVE  Len(f1[d]) <= Len(f[d])
  <2>1. Len(Tail(f[c])) = Len(f[c]) - 1 /\ Len(f[d]) \in Nat BY <1>3
  <2> QED BY <1>3, <2>1
<1>4. ASSUME NEW c \in Clients, NEW m \in Messages, Push(c, m)
      PROVE  Len(outCh'[d]) <= OutCap
  <2>1. Len(outCh[c]) < OutCap /\ outCh' = [outCh EXCEPT ![c] = Append(@, m)]
    BY <1>4 DEF Push, Room
  <2>2. (d # c => Len(outCh'[d]) = Len(outCh[d])) /\ (d = c => Len(outCh'[d]) = Len(outCh[d]) + 1)
    BY <1>2, <2>1 DEF PushTInv
  <2> QED BY <1>0, <2>1, <2>2
<1>5. ASSUME NEW c \in Clients, Dial(c) \/ SessionEof(c)
      PROVE  UNCHANGED <<typed, outCh, s2c, dr, spc, cl>>
  BY <1>5 DEF Dial, SessionEof, runVars, wireVars
<1>6. ASSUME NEW c \in Clients, NEW line \in Lines, Type(c, line)
      PROVE  Len(typed'[d]) <= MaxLines /\ UNCHANGED <<outCh, s2c, dr, spc, cl>>
  <2>1. /\ typed' = [typed EXCEPT ![c] = Append(@, line)] /\ Cardinality(AllTyped) < MaxLines
        /\ UNCHANGED <<outCh, s2c, dr, spc, cl>>
    BY <1>6 DEF Type, runVars
  <2>2. (d # c => Len(typed'[d]) = Len(typed[d])) /\ (d = c => Len(typed'[d]) = Len(typed[d]) + 1)
    BY <1>2, <2>1 DEF TInv
  <2> QED BY <1>0, <2>1, <2>2, TypedCounts
<1>7. ASSUME NEW c \in Clients, Leave(c)
      PROVE  Len(s2c'[d]) <= WireCap /\ UNCHANGED <<typed, outCh, dr, spc, cl>>
  <2>1. s2c'[d] = s2c[d] \/ s2c'[d] = <<>> BY <1>7 DEF Leave, PushTInv
  <2>2. Len(<<>>) = 0 OBVIOUS
  <2> QED BY <1>0, <1>7, <2>1, <2>2 DEF Leave, runVars
<1>8. ASSUME NEW c \in Clients, Receive(c)
      PROVE  Len(s2c'[d]) <= WireCap /\ UNCHANGED <<typed, outCh, dr, spc, cl>>
  <2>1. Len(s2c'[d]) <= Len(s2c[d])
    <3>1. s2c[c] # <<>> /\ s2c' = [s2c EXCEPT ![c] = Tail(@)] /\ s2c \in [Clients -> Seq(Messages)]
      BY <1>8 DEF Receive, PushTInv
    <3> QED BY <1>3, <3>1
  <2>2. Len(s2c'[d]) \in Nat BY PushTypesStep DEF PushTInv
  <2> QED BY <1>0, <1>8, <2>1, <2>2 DEF Receive, runVars
<1>9. CASE Accept \/ AuthFail \/ AcceptFails
  BY <1>9 DEF Accept, AuthFail, AcceptFails, userVars, wireVars
<1>10. CASE AuthOk
  <2>1. cl \in Clients /\ s2c' = [s2c EXCEPT ![cl] = Append(@, Ready)] /\ spc = "auth"
    BY <1>10 DEF AuthOk, TInv
  <2>2. s2c[cl] = <<>> BY <2>1 DEF WaitInv, Waits, Touched
  <2>3. Len(s2c'[cl]) = 1 BY <2>1, <2>2, <1>2, ReplyKinds DEF PushTInv
  <2>4. d # cl => s2c'[d] = s2c[d] BY <2>1 DEF PushTInv
  <2>5. Len(s2c'[d]) <= WireCap
    <3>1. CASE d = cl
      <4>1. 1 <= WireCap BY <1>0
      <4>2. Len(s2c'[d]) = 1 BY <2>3, <3>1
      <4> QED BY ONLY <4>1, <4>2
    <3>2. CASE d # cl BY <2>4, <3>2
    <3> QED BY <3>1, <3>2
  <2> QED BY <1>10, <2>5 DEF AuthOk, userVars
<1>11. ASSUME NEW line \in Lines, MenuLine(line)
       PROVE  UNCHANGED <<typed, outCh, s2c, dr, cl>> /\ spc = "menu"
  BY <1>11 DEF MenuLine, userVars
<1>12. CASE Reply
  <2>1. cl \in Clients /\ Push(cl, reply) /\ reply \in Messages
    BY <1>12, ReplyKinds DEF Reply, TInv, Serving
  <2>2. Len(outCh'[d]) <= OutCap BY <1>4, <2>1
  <2>3. dr'[d] = "run" => spc' = "session" /\ cl' = d BY <1>12 DEF Reply, TInv
  <2> QED BY <1>12, <2>2, <2>3 DEF Reply, userVars, wireVars
<1>13. CASE Bye
  <2>1. cl \in Clients BY <1>13 DEF Bye, TInv, Serving
  <2>2. CASE Len(s2c[cl]) < WireCap /\ s2c' = [s2c EXCEPT ![cl] = Append(@, Response)]
    <3>1. (d # cl => Len(s2c'[d]) = Len(s2c[d])) /\ (d = cl => Len(s2c'[d]) = Len(s2c[d]) + 1)
      BY <1>2, <2>1, <2>2, ReplyKinds DEF PushTInv
    <3> QED BY <1>0, <1>13, <2>2, <3>1 DEF Bye, userVars
  <2> QED BY <1>13, <2>2 DEF Bye, userVars
<1>14. ASSUME NEW line \in Lines, SessionLine(line)
       PROVE  /\ UNCHANGED <<typed, outCh, s2c, cl>>
              /\ dr'[d] = "run" => spc' = "session" /\ cl' = d
  <2>1. dr'[d] = "run" => dr[d] = "run" BY <1>14 DEF SessionLine, TellDrainer, TInv
  <2>2. spc' = spc \/ (TellDrainer /\ cl \in Clients)
    BY <1>14 DEF SessionLine, TInv, Serving
  <2>3. TellDrainer /\ cl = d => dr'[d] # "run" BY DEF TellDrainer, TInv
  <2> QED BY <1>14, <2>1, <2>2, <2>3 DEF SessionLine, userVars
<1>15. CASE ClientGone
  <2>1. dr'[d] = "run" => dr[d] = "run" BY <1>15 DEF ClientGone, TellDrainer, TInv
  <2>2. spc = "menu" \/ (TellDrainer /\ cl' = cl) BY <1>15 DEF ClientGone
  <2>3. TellDrainer /\ cl = d => dr'[d] # "run" BY DEF TellDrainer, TInv
  <2> QED BY <1>15, <2>1, <2>2, <2>3 DEF ClientGone, userVars, wireVars
<1>16. ASSUME NEW c \in Clients, ForwarderTake(c)
       PROVE  UNCHANGED <<typed, outCh, s2c, dr, spc, cl>>
  BY <1>16 DEF ForwarderTake, userVars, runVars, wireVars
<1>17. ASSUME NEW c \in Clients, ForwarderPush(c)
       PROVE  Len(outCh'[d]) <= OutCap /\ UNCHANGED <<typed, s2c, dr, spc, cl>>
  <2>1. evHand[c][1] \in Messages BY <1>17 DEF ForwarderPush, PushTInv
  <2> QED BY <1>4, <1>17, <2>1 DEF ForwarderPush, GivesUp, userVars, runVars, wireVars
<1>18. ASSUME NEW c \in Clients, DrainerTake(c)
       PROVE  UNCHANGED <<typed, outCh, s2c, spc, cl>> /\ (dr'[d] = "run" => dr[d] = "run")
  BY <1>18 DEF DrainerTake, userVars, runVars, wireVars, TInv
<1>19. ASSUME NEW c \in Clients, DrainerPush(c)
       PROVE  /\ Len(outCh'[d]) <= OutCap /\ UNCHANGED <<typed, s2c, spc, cl>>
              /\ dr'[d] = "run" => dr[d] = "run"
  <2>1. rxHand[c][1] \in Messages BY <1>19 DEF DrainerPush, PushTInv
  <2>2. Len(outCh'[d]) <= OutCap BY <1>4, <1>19, <2>1 DEF DrainerPush, GivesUp
  <2> QED BY <1>19, <2>2 DEF DrainerPush, userVars, runVars, wireVars, TInv
<1>20. ASSUME NEW c \in Clients, WriterWrite(c)
       PROVE  /\ Len(outCh'[d]) <= OutCap /\ Len(s2c'[d]) <= WireCap
              /\ UNCHANGED <<typed, dr, spc, cl>>
  <2>1. /\ outCh[c] # <<>> /\ outCh' = [outCh EXCEPT ![c] = Tail(@)]
        /\ outCh \in [Clients -> Seq(Messages)] /\ Head(outCh[c]) \in Messages
    BY <1>20, Ends DEF WriterWrite, PushTInv
  <2>2. Len(outCh'[d]) <= Len(outCh[d]) BY <1>3, <2>1
  <2>3. Len(outCh'[d]) \in Nat BY PushTypesStep DEF PushTInv
  <2>4. Len(s2c'[d]) <= WireCap
    <3>1. CASE Len(s2c[c]) < WireCap /\ s2c' = [s2c EXCEPT ![c] = Append(@, Head(outCh[c]))]
      <4>1. (d # c => Len(s2c'[d]) = Len(s2c[d])) /\ (d = c => Len(s2c'[d]) = Len(s2c[d]) + 1)
        BY <1>2, <2>1, <3>1 DEF PushTInv
      <4> QED BY <1>0, <3>1, <4>1
    <3> QED BY <1>20, <3>1 DEF WriterWrite
  <2> QED BY <1>0, <1>20, <2>2, <2>3, <2>4 DEF WriterWrite, userVars, runVars
<1>21. CASE Happen BY <1>21 DEF Happen, userVars, runVars, wireVars
<1> QED
  BY <1>1, <1>5, <1>6, <1>7, <1>8, <1>9, <1>10, <1>11, <1>12, <1>13, <1>14,
     <1>15, <1>16, <1>17, <1>18, <1>19, <1>20, <1>21
  DEF Next, Main, User, Pushing

-----------------------------------------------------------------------------
(* Who waits, who is new. *)

LEMMA WaitStep ==
  ASSUME TInv, PushTInv, WaitInv, NewInv, [Next]_vars PROVE WaitInv'
<1>0. None \notin Clients BY ServingAssumption
<1>1. \A d \in Clients : Waits(d) => ~Served(d)
  BY DEF WaitInv, Waits, Served, Serving
<1>2. ASSUME UNCHANGED <<spc, cl, backlog, ended>>,
             \A d \in Clients : Waits(d) =>
               cli'[d] \in {"dial", "off"} /\ Len(c2s'[d]) <= 1
      PROVE  WaitInv'
  <2>1. ASSUME NEW d \in Clients, Waits(d) PROVE ~Touched(d)'
    <3>1. ~AuthOk \/ d # cl BY <1>2 DEF AuthOk
    <3> QED BY <1>1, <2>1, <3>1, TouchedStep DEF WaitInv
  <2>2. \A d \in Clients : Waits(d)' <=> Waits(d) BY <1>2 DEF Waits
  <2> QED BY <1>2, <2>1, <2>2 DEF WaitInv
<1>3. CASE Background
  BY <1>2, <1>3, InBackground DEF WaitInv, userVars, runVars
<1>4. ASSUME NEW c \in Clients, Dial(c) PROVE WaitInv'
  <2>1. /\ cli[c] = "new" /\ cli' = [cli EXCEPT ![c] = "dial"] /\ backlog' = Append(backlog, c)
        /\ UNCHANGED <<spc, cl, ended>>
        /\ \E hello \in {<<Hello>>, <<Garbage>>, <<>>} : c2s' = [c2s EXCEPT ![c] = hello]
    BY <1>4 DEF Dial
  <2>2. ~Touched(c) /\ ~Waits(c) /\ ~Served(c) BY <2>1 DEF NewInv
  <2>3. /\ DOMAIN backlog = 1 .. Len(backlog) /\ Len(backlog) \in Nat
        /\ DOMAIN backlog' = 1 .. Len(backlog) + 1 /\ backlog'[Len(backlog) + 1] = c
        /\ \A i \in 1 .. Len(backlog) : backlog'[i] = backlog[i] /\ backlog[i] # c
    BY <2>1, <2>2 DEF TInv, Waits
  <2>4. c # cl BY <1>0, <2>2 DEF TInv, Waits, Served
  <2>5. \A i, j \in DOMAIN backlog' : backlog'[i] = backlog'[j] => i = j
    BY <2>3 DEF WaitInv
  <2>6. (\A i \in DOMAIN backlog' : backlog'[i] # cl') /\ cl' \notin ended'
    BY <2>1, <2>3, <2>4 DEF WaitInv
  <2>7. Len(c2s'[c]) <= 1 /\ \A d \in Clients \ {c} : c2s'[d] = c2s[d]
    <3>1. Len(<<Hello>>) = 1 /\ Len(<<Garbage>>) = 1 /\ Len(<<>>) = 0 OBVIOUS
    <3>2. PICK hello \in {<<Hello>>, <<Garbage>>, <<>>} : c2s' = [c2s EXCEPT ![c] = hello]
      BY <2>1
    <3>3. c2s'[c] = hello /\ \A d \in Clients \ {c} : c2s'[d] = c2s[d] BY <3>2 DEF TInv
    <3>4. CASE hello = <<Hello>> BY ONLY <3>1, <3>3, <3>4
    <3>5. CASE hello = <<Garbage>> BY ONLY <3>1, <3>3, <3>5
    <3>6. CASE hello = <<>> BY ONLY <3>1, <3>3, <3>6
    <3> QED BY <3>2, <3>4, <3>5, <3>6
  <2>8. \A d \in Clients : Waits(d)' => Waits(d) \/ d = c
    BY <2>1, <2>3 DEF Waits
  <2>9. \A d \in Clients : Waits(d) \/ d = c => ~Touched(d)'
    <3>1. ~AuthOk BY <2>1, <2>2, <2>4 DEF AuthOk, Dial
    <3> QED BY <1>1, <2>2, <3>1, TouchedStep DEF WaitInv
  <2>10. cli'[c] = "dial" /\ \A d \in Clients \ {c} : cli'[d] = cli[d] BY <2>1 DEF TInv
  <2> QED BY <2>5, <2>6, <2>7, <2>8, <2>9, <2>10 DEF WaitInv
<1>5. ASSUME NEW c \in Clients,
             SessionEof(c) \/ Receive(c) \/ \E line \in Lines : Type(c, line)
      PROVE  WaitInv'
  <2>1. UNCHANGED <<spc, cl, backlog, ended>>
    BY <1>5 DEF SessionEof, Receive, Type, runVars
  <2>2. ~Waits(c)
    BY <1>5 DEF SessionEof, Receive, Type, Types, Touched, WaitInv
  <2>3. \A d \in Clients \ {c} : cli'[d] = cli[d] /\ c2s'[d] = c2s[d]
    BY <1>5 DEF SessionEof, Receive, Type, TInv, wireVars
  <2> QED BY <1>2, <2>1, <2>2, <2>3 DEF WaitInv
<1>6. ASSUME NEW c \in Clients, Leave(c) PROVE WaitInv'
  <2>1. UNCHANGED <<spc, cl, backlog, ended>> BY <1>6 DEF Leave, runVars
  <2>2. /\ cli'[c] = "off" /\ \A d \in Clients \ {c} : cli'[d] = cli[d] /\ c2s'[d] = c2s[d]
    BY <1>6 DEF Leave, TInv
  <2>3. Waits(c) => Len(c2s'[c]) <= 1
    <3>1. PICK n \in 0 .. Len(c2s[c]) : c2s' = [c2s EXCEPT ![c] = SubSeq(@, 1, n)]
      BY <1>6 DEF Leave
    <3>2. c2s'[c] = SubSeq(c2s[c], 1, n) BY <3>1 DEF TInv
    <3>3. Len(SubSeq(c2s[c], 1, n)) = n /\ Len(c2s[c]) \in Nat BY DEF TInv
    <3> QED BY <3>2, <3>3 DEF WaitInv
  <2> QED BY <1>2, <2>1, <2>2, <2>3 DEF WaitInv
<1>7. CASE Accept
  <2>1. /\ spc = "accept" /\ spc' = "auth" /\ backlog # <<>> /\ cl' = backlog[1]
        /\ backlog' = Tail(backlog) /\ UNCHANGED <<cli, c2s, ended>>
    BY <1>7 DEF Accept, userVars, wireVars, TInv
  <2>2. /\ DOMAIN backlog = 1 .. Len(backlog) /\ Len(backlog) \in Nat \ {0}
        /\ DOMAIN backlog' = 1 .. Len(backlog) - 1
        /\ \A i \in DOMAIN backlog' : backlog'[i] = backlog[i + 1] /\ i + 1 \in DOMAIN backlog
        /\ 1 \in DOMAIN backlog
    BY <2>1 DEF TInv
  <2>3. \A i, j \in DOMAIN backlog' : backlog'[i] = backlog'[j] => i = j
    BY <2>2 DEF WaitInv
  <2>4. \A i \in DOMAIN backlog' : backlog'[i] # cl' BY <2>1, <2>2 DEF WaitInv
  <2>5. \A d \in Clients : Waits(d)' => Waits(d) BY <2>1, <2>2 DEF Waits
  <2>6. cl' \in Clients /\ Waits(cl')
    <3>1. backlog[1] \in Clients BY <2>2 DEF TInv
    <3>2. Waits(backlog[1]) BY <2>2 DEF Waits
    <3> QED BY <2>1, <3>1, <3>2
  <2>7. cl' \notin ended' BY <2>1, <2>6 DEF WaitInv, Touched
  <2>8. \A d \in Clients : Waits(d)' => ~Touched(d)'
    <3>1. ~AuthOk BY <2>1 DEF AuthOk
    <3> QED BY <1>1, <2>5, <3>1, TouchedStep DEF WaitInv
  <2> QED BY <2>1, <2>3, <2>4, <2>5, <2>7, <2>8 DEF WaitInv
<1>8. CASE AuthOk
  <2>1. /\ spc' = "menu" /\ UNCHANGED <<cl, backlog, cli, ended>>
        /\ \E n \in 1 .. Len(c2s[cl]) : c2s' = [c2s EXCEPT ![cl] = SubSeq(@, n + 1, Len(@))]
    BY <1>8 DEF AuthOk, userVars
  <2>2. \A d \in Clients : Waits(d)' => Waits(d) /\ d # cl BY <2>1 DEF Waits, WaitInv
  <2>3. \A d \in Clients : d # cl => c2s'[d] = c2s[d] BY <2>1 DEF TInv
  <2>4. \A d \in Clients : Waits(d)' => ~Touched(d)' BY <1>1, <2>2, TouchedStep DEF WaitInv
  <2> QED BY <2>1, <2>2, <2>3, <2>4 DEF WaitInv
<1>9. CASE AuthFail \/ AcceptFails
  <2>1. /\ spc' \in {"accept", "stopped"}
        /\ UNCHANGED <<backlog, c2s, ended>> /\ cl' = None
        /\ \A d \in Clients : cli'[d] = cli[d] \/ cli'[d] = "off"
    BY <1>9 DEF AuthFail, AcceptFails, userVars, wireVars, TInv, Serving
  <2>2. \A d \in Clients : Waits(d)' => Waits(d) BY <1>0, <2>1 DEF Waits
  <2>3. \A d \in Clients : Waits(d)' => ~Touched(d)'
    <3>1. ~AuthOk BY <1>9 DEF AuthOk, AuthFail, AcceptFails
    <3> QED BY <1>1, <2>2, <3>1, TouchedStep DEF WaitInv
  <2>4. (\A i \in DOMAIN backlog' : backlog'[i] # cl') /\ cl' \notin ended'
    BY <1>0, <2>1 DEF TInv
  <2> QED BY <2>1, <2>2, <2>3, <2>4 DEF WaitInv
<1>10. ASSUME NEW line \in Lines, MenuLine(line) \/ SessionLine(line) PROVE WaitInv'
  <2>1. /\ UNCHANGED <<cl, backlog, cli, ended>> /\ spc \in Serving /\ spc' # "auth"
        /\ \A d \in Clients : d # cl => c2s'[d] = c2s[d]
    BY <1>10 DEF MenuLine, SessionLine, NextLine, userVars, TInv, Serving
  <2>2. \A d \in Clients : Waits(d)' => Waits(d) /\ d # cl BY <2>1 DEF Waits, WaitInv
  <2>3. \A d \in Clients : Waits(d)' => ~Touched(d)'
    <3>1. ~AuthOk BY <2>1 DEF AuthOk, Serving
    <3> QED BY <1>1, <2>2, <3>1, TouchedStep DEF WaitInv
  <2> QED BY <2>1, <2>2, <2>3 DEF WaitInv
<1>11. CASE Reply \/ Bye \/ ClientGone
  <2>1. /\ UNCHANGED <<backlog, cli, c2s>> /\ spc \in Serving /\ spc' # "auth"
        /\ (cl' = None) \/ (cl' = cl /\ ended' = ended)
    BY <1>11 DEF Reply, Bye, ClientGone, Return, userVars, wireVars, Serving
  <2>2. \A d \in Clients : Waits(d)' => Waits(d) BY <2>1 DEF Waits
  <2>3. \A d \in Clients : Waits(d)' => ~Touched(d)'
    <3>1. ~AuthOk BY <2>1 DEF AuthOk, Serving
    <3> QED BY <1>1, <2>2, <3>1, TouchedStep DEF WaitInv
  <2>4. (\A i \in DOMAIN backlog' : backlog'[i] # cl') /\ cl' \notin ended'
    <3>1. CASE cl' = None
      <4>1. \A i \in DOMAIN backlog : backlog[i] \in Clients BY DEF TInv
      <4>2. ended' \subseteq Clients BY TypesStep DEF TInv
      <4> QED BY <1>0, <2>1, <3>1, <4>1, <4>2
    <3> QED BY <2>1, <3>1 DEF WaitInv
  <2> QED BY <2>1, <2>2, <2>3, <2>4 DEF WaitInv
<1> QED
  BY <1>3, <1>4, <1>5, <1>6, <1>7, <1>8, <1>9, <1>10, <1>11
  DEF Next, Main, User, Background

LEMMA NewStep ==
  ASSUME TInv, PushTInv, WaitInv, NewInv, [Next]_vars PROVE NewInv'
<1> SUFFICES ASSUME NEW d \in Clients, cli'[d] = "new"
             PROVE  ~Touched(d)' /\ ~Waits(d)' /\ ~Served(d)' /\ c2s'[d] = <<>>
  BY DEF NewInv
<1>1. CASE cli[d] # "new"
  <2> USE <1>1 DEF TInv
  <2>1. ASSUME NEW c \in Clients, User(c) \/ Receive(c) PROVE cli'[d] # "new"
    <3>1. CASE UNCHANGED cli BY <3>1
    <3>2. CASE cli' # cli
      <4>1. \E place \in {"dial", "session", "leave", "use", "ask", "menu", "off"} :
              cli' = [cli EXCEPT ![c] = place]
        BY <2>1, <3>2 DEF User, Dial, SessionEof, Leave, Type, Receive, AfterResponse
      <4> QED BY ONLY <1>1, <4>1, cli \in [Clients -> {"new", "dial", "menu", "ask", "use", "session", "leave", "off"}]
    <3> QED BY <3>1, <3>2
  <2>2. CASE AuthFail
    BY <2>2 DEF AuthFail
  <2>3. CASE (Main /\ ~AuthFail) \/ AcceptFails
    BY <2>3 DEF Main, Accept, AuthOk, AcceptFails, Reply, Bye, ClientGone, MenuLine,
                SessionLine, userVars
  <2>4. CASE Background
    BY <2>4, InBackground DEF userVars
  <2> QED BY <2>1, <2>2, <2>3, <2>4 DEF Next, Background
<1>2. CASE cli[d] = "new"
  <2>1. ~Touched(d) /\ ~Waits(d) /\ ~Served(d) /\ c2s[d] = <<>> BY <1>2 DEF NewInv
  <2>2. ~Touched(d)' BY <2>1, TouchedStep DEF AuthOk, Waits
  <2>3. CASE Background
    BY <2>1, <2>2, <2>3, InBackground DEF Waits, Served, runVars
  <2>4. ASSUME NEW c \in Clients, Dial(c)
        PROVE  ~Waits(d)' /\ ~Served(d)' /\ c2s'[d] = <<>>
    <3>1. c # d /\ backlog' = Append(backlog, c) /\ UNCHANGED <<spc, cl>>
      BY <2>4 DEF Dial, TInv
    <3>2. /\ DOMAIN backlog = 1 .. Len(backlog) /\ Len(backlog) \in Nat
          /\ DOMAIN backlog' = 1 .. Len(backlog) + 1 /\ backlog'[Len(backlog) + 1] = c
          /\ \A i \in 1 .. Len(backlog) : backlog'[i] = backlog[i]
      BY <3>1 DEF TInv
    <3>3. ~Waits(d)' BY <2>1, <3>1, <3>2 DEF Waits
    <3>4. c2s'[d] = c2s[d] BY <2>4, <3>1 DEF Dial, TInv
    <3> QED BY <2>1, <3>1, <3>3, <3>4 DEF Served
  <2>5. ASSUME NEW c \in Clients,
               SessionEof(c) \/ Leave(c) \/ Receive(c) \/ \E line \in Lines : Type(c, line)
        PROVE  UNCHANGED <<spc, cl, backlog, c2s[d]>>
    <3>1. c # d \/ UNCHANGED c2s
      BY <2>5, <1>2 DEF SessionEof, Leave, Receive, Type, Types, wireVars
    <3>2. UNCHANGED <<spc, cl, backlog>>
      BY <2>5 DEF SessionEof, Leave, Receive, Type, runVars
    <3>3. \A e \in Clients \ {c} : c2s'[e] = c2s[e]
      BY <2>5 DEF SessionEof, Leave, Receive, Type, wireVars, TInv
    <3> QED BY <3>1, <3>2, <3>3
  <2>6. CASE Accept
    <3>1. /\ spc' = "auth" /\ backlog # <<>> /\ cl' = backlog[1]
          /\ backlog' = Tail(backlog) /\ UNCHANGED c2s
      BY <2>6 DEF Accept, userVars, wireVars, TInv
    <3>2. /\ \A i \in DOMAIN backlog' : backlog'[i] = backlog[i + 1] /\ i + 1 \in DOMAIN backlog
          /\ 1 \in DOMAIN backlog
      BY <3>1 DEF TInv
    <3> QED BY <2>1, <2>2, <3>1, <3>2 DEF Waits, Served, Serving
  <2>7. CASE AuthOk \/ AuthFail \/ AcceptFails
    <3>1. /\ spc' # "auth" /\ (cl' = None \/ (cl' = cl /\ cl # d)) /\ UNCHANGED <<backlog, c2s[d]>>
      BY <2>1, <2>7 DEF AuthOk, AuthFail, AcceptFails, wireVars, TInv, Waits, Serving
    <3> QED BY <2>1, <2>2, <3>1, ServingAssumption DEF Waits, Served
  <2>8. CASE \/ Reply \/ Bye \/ ClientGone
             \/ \E line \in Lines : MenuLine(line) \/ SessionLine(line)
    <3>1. spc \in Serving /\ cl # d
      BY <2>1, <2>8 DEF Reply, Bye, ClientGone, MenuLine, SessionLine, Served, Serving
    <3>2. UNCHANGED <<backlog, c2s[d]>> /\ (cl' = None \/ cl' = cl) /\ spc' # "auth"
      BY <2>8, <3>1
      DEF Reply, Bye, ClientGone, Return, MenuLine, SessionLine, NextLine, wireVars, TInv, Serving
    <3> QED BY <2>1, <2>2, <3>1, <3>2, ServingAssumption DEF Waits, Served
  <2> QED
    BY <2>1, <2>2, <2>3, <2>4, <2>5, <2>6, <2>7, <2>8
    DEF Next, Main, User, Background, Waits, Served
<1> QED BY <1>1, <1>2

-----------------------------------------------------------------------------
(* Who was let in is served until it exits. *)

LEMMA Looked ==
  ASSUME TInv, NEW line \in Lines, NextLine(line), NEW c \in Clients
  PROVE  /\ c # cl => handled'[c] = handled[c]
         /\ c = cl => (HasExited(c)' <=> HasExited(c) \/ (line # <<>> /\ Exits(line)))
<1>1. c # cl => handled'[c] = handled[c] BY DEF NextLine, TInv
<1> SUFFICES ASSUME c = cl
             PROVE  HasExited(c)' <=> HasExited(c) \/ (line # <<>> /\ Exits(line))
  BY <1>1
<1> DEFINE q == handled[c]  r == handled'[c]
<1>2. r = Append(q, line) /\ q \in Seq(Lines) BY DEF NextLine, TInv
<1>3. /\ Len(q) \in Nat /\ DOMAIN q = 1 .. Len(q) /\ DOMAIN r = 1 .. Len(q) + 1
      /\ r[Len(q) + 1] = line /\ \A i \in 1 .. Len(q) : r[i] = q[i]
  BY <1>2
<1>4. HasExited(c)' <=> \E i \in DOMAIN r : r[i] # <<>> /\ Exits(r[i]) BY DEF HasExited
<1>5. HasExited(c) <=> \E i \in DOMAIN q : q[i] # <<>> /\ Exits(q[i]) BY DEF HasExited
<1> HIDE DEF q, r
<1> QED BY <1>3, <1>4, <1>5

LEMMA AdmittedStep ==
  ASSUME TInv, PushTInv, WaitInv, NewInv, AdmittedInv, [Next]_vars PROVE AdmittedInv'
<1> DEFINE In(d)  == Present(d) \/ (cli[d] = "dial" /\ Touched(d))
           In1(d) == Present(d)' \/ (cli'[d] = "dial" /\ Touched(d)')
<1>0. None \notin Clients BY ServingAssumption
<1>a. \A d \in Clients : In(d) => Served(d) \/ HasExited(d) BY DEF AdmittedInv
<1> SUFFICES /\ \A d \in Clients : In1(d) => Served(d)' \/ HasExited(d)'
             /\ spc' = "bye" => \E d \in Clients : d = cl' /\ HasExited(d)'
  BY DEF AdmittedInv, HasExited
(* Steps that leave Run where it is: only a client that was let in can be. *)
<1>1. ASSUME UNCHANGED <<spc, cl, handled>>,
             \A d \in Clients : In1(d) => In(d) \/ Served(d)
      PROVE  /\ \A d \in Clients : In1(d) => Served(d)' \/ HasExited(d)'
             /\ spc' = "bye" => \E d \in Clients : d = cl' /\ HasExited(d)'
  <2>1. \A d \in Clients : (Served(d)' <=> Served(d)) /\ (HasExited(d)' <=> HasExited(d))
    BY <1>1 DEF Served, HasExited
  <2>2. spc = "bye" => cl \in Clients /\ HasExited(cl) BY DEF AdmittedInv, TInv, Serving
  <2>3. \A d \in Clients : d = cl /\ HasExited(cl) => HasExited(d) OBVIOUS
  <2> HIDE DEF In, In1
  <2> QED BY <1>a, <1>1, <2>1, <2>2, <2>3
<1>2. CASE Background
  <2>1. UNCHANGED <<spc, cl, cli, handled>> BY <1>2, InBackground DEF userVars, runVars
  <2>2. ~AuthOk BY <2>1 DEF AuthOk
  <2>3. \A d \in Clients : In1(d) => In(d) \/ Served(d)
    BY <2>1, <2>2, TouchedStep DEF Present
  <2> HIDE DEF In, In1
  <2> QED BY <1>1, <2>1, <2>3
<1>3. ASSUME NEW c \in Clients,
             \/ Dial(c) \/ SessionEof(c) \/ Leave(c) \/ Receive(c)
             \/ \E line \in Lines : Type(c, line)
      PROVE  /\ \A d \in Clients : In1(d) => Served(d)' \/ HasExited(d)'
             /\ spc' = "bye" => \E d \in Clients : d = cl' /\ HasExited(d)'
  <2>1. UNCHANGED <<spc, cl, handled>>
    BY <1>3 DEF Dial, SessionEof, Leave, Receive, Type, runVars
  <2>2. ~AuthOk BY <1>3 DEF AuthOk, Dial, SessionEof, Leave, Receive, Type, runVars
  <2>3. \A d \in Clients \ {c} : cli'[d] = cli[d]
    BY <1>3 DEF Dial, SessionEof, Leave, Receive, Type, TInv
  <2>4. cli'[c] = "dial" => cli[c] \in {"new", "dial"} /\ (cli[c] = "new" => ~Touched(c))
    BY <1>3 DEF Dial, SessionEof, Leave, Receive, Type, AfterResponse, NewInv, TInv
  <2>5. Present(c)' => Present(c) \/ (cli[c] = "dial" /\ Touched(c))
    BY <1>3 DEF Dial, SessionEof, Leave, Receive, Type, Types, AfterResponse, Present, TInv, Touched
  <2>6. \A d \in Clients : In1(d) => In(d) \/ Served(d)
    BY <2>2, <2>3, <2>4, <2>5, TouchedStep DEF Present
  <2> HIDE DEF In, In1
  <2> QED BY <1>1, <2>1, <2>6
<1>4. CASE Accept \/ AuthOk \/ AuthFail \/ AcceptFails
  <2>1. /\ UNCHANGED handled /\ spc \in {"accept", "auth"} /\ spc' # "bye"
        /\ \A d \in Clients : cli'[d] = cli[d] \/ cli'[d] = "off"
    BY <1>4 DEF Accept, AuthOk, AuthFail, AcceptFails, userVars, TInv
  <2>2. AuthOk => cl' = cl /\ spc' \in Serving
    BY DEF AuthOk, Serving
  <2>3. \A d \in Clients : ~Served(d) /\ (HasExited(d)' <=> HasExited(d))
    BY <2>1 DEF Served, Serving, HasExited
  <2>4. \A d \in Clients : In1(d) => In(d) \/ (AuthOk /\ d = cl)
    BY <2>1, <2>3, TouchedStep DEF Present
  <2>5. \A d \in Clients : AuthOk /\ d = cl => Served(d)' BY <2>2 DEF Served
  <2> HIDE DEF In, In1
  <2> QED BY <1>a, <2>1, <2>3, <2>4, <2>5
<1>5. ASSUME NEW line \in Lines, MenuLine(line) \/ SessionLine(line)
      PROVE  /\ \A d \in Clients : In1(d) => Served(d)' \/ HasExited(d)'
             /\ spc' = "bye" => \E d \in Clients : d = cl' /\ HasExited(d)'
  <2>1. /\ UNCHANGED <<cli, cl>> /\ spc \in Serving /\ NextLine(line) /\ cl \in Clients
        /\ spc' \in Serving /\ (spc' = "bye" => line # <<>> /\ Exits(line))
    BY <1>5 DEF MenuLine, SessionLine, userVars, TInv, Serving
  <2>2. \A d \in Clients : HasExited(d) => HasExited(d)' BY <2>1, Looked DEF HasExited
  <2>3. \A d \in Clients : Served(d)' <=> Served(d) BY <2>1 DEF Served
  <2>4. \A d \in Clients : In1(d) => In(d) \/ Served(d)
    BY <2>1, TouchedStep DEF Present, AuthOk, Serving
  <2> HIDE DEF In, In1
  <2>6. spc' = "bye" => \E d \in Clients : d = cl' /\ HasExited(d)' BY <2>1, Looked
  <2> QED BY <1>a, <2>2, <2>3, <2>4, <2>6
<1>6. CASE Reply \/ Bye \/ ClientGone
  <2>1. /\ UNCHANGED <<cli, handled>> /\ spc \in Serving /\ spc' # "bye"
        /\ \/ cl' = cl /\ spc' \in Serving
           \/ spc = "bye" \/ cli[cl] = "off"
    BY <1>6 DEF Reply, Bye, ClientGone, Return, userVars, Serving
  <2>2. \A d \in Clients : HasExited(d)' <=> HasExited(d) BY <2>1 DEF HasExited
  <2>3. \A d \in Clients : In1(d) => In(d) \/ Served(d)
    BY <2>1, TouchedStep DEF Present, AuthOk, Serving
  <2>4. \A d \in Clients : Served(d) => Served(d)' \/ HasExited(d) \/ cli'[d] = "off"
    BY <2>1 DEF Served, AdmittedInv
  <2>5. \A d \in Clients : In1(d) => cli'[d] # "off" BY DEF Present
  <2> HIDE DEF In, In1
  <2> QED BY <1>a, <2>1, <2>2, <2>3, <2>4, <2>5
<1> QED BY <1>2, <1>3, <1>4, <1>5, <1>6 DEF Next, Main, User, Background

-----------------------------------------------------------------------------
(* Every line is looked at. *)

LEMMA PutJoined ==
  ASSUME NEW X, NEW p \in Seq(X), NEW q \in Seq(X), NEW x \in X,
         NEW r, r = p \o q, NEW r1, r1 = Append(r, x), NEW q1, q1 = Append(q, x)
  PROVE  r1 = p \o q1
<1>1. p \o q \in Seq(X) /\ <<x>> \in Seq(X) BY ConcatProperties
<1>2. Append(p \o q, x) = (p \o q) \o <<x>> BY <1>1, AppendIsConcat
<1>3. Append(q, x) = q \o <<x>> BY AppendIsConcat
<1> QED BY <1>1, <1>2, <1>3, ConcatAssociative

LEMMA MoveJoined ==
  ASSUME NEW X, NEW p \in Seq(X), NEW q \in Seq(X), q # <<>>
  PROVE  p \o q = Append(p, Head(q)) \o Tail(q)
<1> DEFINE x == Head(q)  r == Tail(q)
<1>1. x \in X /\ r \in Seq(X) /\ <<x>> \in Seq(X) BY HeadTailProperties
<1>2. q = <<x>> \o r
  <2>1. <<x>> \o r \in Seq(X) /\ Len(<<x>> \o r) = Len(q) BY <1>1, HeadTailProperties
  <2>2. \A i \in 1 .. Len(q) : q[i] = (<<x>> \o r)[i] BY <1>1, HeadTailProperties
  <2> QED BY <2>1, <2>2, SeqEqual
<1>3. Append(p, x) = p \o <<x>> BY <1>1, AppendIsConcat
<1> HIDE DEF x, r
<1>4. p \o (<<x>> \o r) = (p \o <<x>>) \o r BY <1>1, ConcatAssociative
<1> QED BY <1>2, <1>3, <1>4 DEF x, r

LEMMA LineStep ==
  ASSUME TInv, PushTInv, WaitInv, NewInv, LineInv, [Next]_vars PROVE LineInv'
<1> DEFINE Early(d) == cli[d] \in {"new", "dial"} => typed[d] = <<>> /\ handled[d] = <<>>
           Still(d) == cli[d] = "dial" /\ (Touched(d) \/ Served(d)) => c2s[d] = <<>>
           Whole(d) == Present(d) /\ d \notin ended => typed[d] = handled[d] \o c2s[d]
<1>0. \A d \in Clients : Early(d) /\ Still(d) /\ Whole(d) BY DEF LineInv
<1> SUFFICES ASSUME NEW d \in Clients PROVE Early(d)' /\ Still(d)' /\ Whole(d)'
  BY DEF LineInv
(* A client whose lines do not move. *)
<1>1. ASSUME UNCHANGED <<typed[d], handled[d], c2s[d]>>, ended \subseteq ended',
             cli'[d] \in {"new", "dial"} => cli[d] \in {"new", "dial"},
             cli'[d] = "dial" /\ (Touched(d)' \/ Served(d)')
               => (cli[d] = "dial" /\ (Touched(d) \/ Served(d))) \/ c2s[d] = <<>>,
             Present(d)' => Present(d)
      PROVE  Early(d)' /\ Still(d)' /\ Whole(d)'
  BY <1>0, <1>1
<1>2. Touched(d)' => Touched(d) \/ Served(d) \/ (AuthOk /\ d = cl) BY TouchedStep
<1>3. ended \subseteq ended' BY Forever
<1>4. CASE Background
  <2>1. UNCHANGED <<spc, cl, cli, typed, handled, c2s, ended>>
    BY <1>4, InBackground DEF userVars, runVars
  <2>2. ~AuthOk BY <2>1 DEF AuthOk
  <2>3. (Served(d)' <=> Served(d)) /\ (Present(d)' <=> Present(d))
    BY <2>1 DEF Served, Present
  <2> HIDE DEF Early, Still, Whole
  <2> QED BY <1>1, <1>2, <2>1, <2>2, <2>3
<1>5. ASSUME NEW c \in Clients, Dial(c) PROVE Early(d)' /\ Still(d)' /\ Whole(d)'
  <2>1. /\ cli[c] = "new" /\ cli' = [cli EXCEPT ![c] = "dial"]
        /\ UNCHANGED <<typed, handled, ended, spc, cl>> /\ ~AuthOk
        /\ \A e \in Clients \ {c} : c2s'[e] = c2s[e]
    BY <1>5 DEF Dial, AuthOk, TInv
  <2>2. Served(d)' <=> Served(d) BY <2>1 DEF Served
  <2>3. CASE d = c
    <3>1. ~Touched(c) /\ ~Served(c) BY <2>1 DEF NewInv
    <3> QED BY <1>0, <1>2, <2>1, <2>2, <2>3, <3>1 DEF Present, TInv
  <2>4. CASE d # c
    <3>1. UNCHANGED <<cli[d], typed[d], handled[d], c2s[d]>> BY <2>1, <2>4 DEF TInv
    <3> HIDE DEF Early, Still, Whole
    <3> QED BY <1>1, <1>2, <1>3, <2>1, <2>2, <3>1 DEF Present
  <2> QED BY <2>3, <2>4
<1>6. ASSUME NEW c \in Clients, NEW line \in Lines, Type(c, line)
      PROVE  Early(d)' /\ Still(d)' /\ Whole(d)'
  <2>1. /\ cli[c] \in Types /\ cli'[c] \in {"leave", "session", "use", "ask"}
        /\ typed'[c] = Append(typed[c], line) /\ c2s'[c] = Append(c2s[c], line)
        /\ \A e \in Clients \ {c} : UNCHANGED <<cli[e], typed[e], c2s[e]>>
        /\ UNCHANGED <<handled, ended, spc, cl>> /\ ~AuthOk
    BY <1>6 DEF Type, AuthOk, runVars, TInv
  <2>2. Served(d)' <=> Served(d) BY <2>1 DEF Served
  <2>3. CASE d = c
    <3>1. Present(c) BY <2>1 DEF Present, Types
    <3>2. c \notin ended => typed[c] = handled[c] \o c2s[c] BY <1>0, <3>1
    <3> DEFINE X == Lines \cup {Hello, Garbage}
    <3>3. handled[c] \in Seq(X) /\ line \in X /\ c2s[c] \in Seq(X) BY DEF TInv
    <3> HIDE DEF X
    <3>4. ASSUME typed[c] = handled[c] \o c2s[c] PROVE typed'[c] = handled[c] \o c2s'[c]
      <4> DEFINE p == handled[c]  q == c2s[c]  r == typed[c]  q1 == c2s'[c]  r1 == typed'[c]
      <4>1. p \in Seq(X) /\ line \in X /\ q \in Seq(X) BY <3>3
      <4>2. r1 = Append(r, line) /\ q1 = Append(q, line) BY <2>1
      <4>3. r = p \o q BY <3>4
      <4> HIDE DEF p, q, r, q1, r1
      <4>4. r1 = p \o q1 BY ONLY <4>1, <4>2, <4>3, PutJoined
      <4> QED BY <4>4 DEF p, q1, r1
    <3> QED BY <2>1, <2>3, <3>2, <3>4
  <2>4. CASE d # c
    <3>1. UNCHANGED <<cli[d], typed[d], handled[d], c2s[d]>> BY <2>1, <2>4
    <3> HIDE DEF Early, Still, Whole
    <3> QED BY <1>1, <1>2, <1>3, <2>1, <2>2, <3>1 DEF Present
  <2> QED BY <2>3, <2>4
<1>7. ASSUME NEW c \in Clients, Receive(c) PROVE Early(d)' /\ Still(d)' /\ Whole(d)'
  <2>1. /\ UNCHANGED <<typed, handled, c2s, ended, spc, cl>> /\ ~AuthOk
        /\ s2c[c] # <<>> /\ cli[c] # "off"
        /\ \A e \in Clients \ {c} : cli'[e] = cli[e]
        /\ cli'[c] = cli[c] \/ cli'[c] \in {"menu", "session", "off"}
    BY <1>7 DEF Receive, AfterResponse, AuthOk, runVars, TInv
  <2>2. Served(d)' <=> Served(d) BY <2>1 DEF Served
  <2>3. CASE d = c /\ cli[d] = "dial" /\ cli'[d] # "dial"
    <3>1. Touched(d) BY <2>1, <2>3 DEF Touched
    <3>2. typed[d] = <<>> /\ handled[d] = <<>> /\ c2s[d] = <<>> BY <1>0, <2>3, <3>1
    <3>3. <<>> = <<>> \o <<>> OBVIOUS
    <3> QED BY <2>1, <2>3, <3>2, <3>3
  <2>4. CASE ~(d = c /\ cli[d] = "dial" /\ cli'[d] # "dial")
    <3>1. Present(d)' => Present(d)
      BY <1>7, <2>1, <2>4 DEF Present, Receive
    <3>2. cli'[d] = cli[d] \/ cli'[d] \notin {"new", "dial"} BY <2>1
    <3> HIDE DEF Early, Still, Whole
    <3> QED BY <1>1, <1>2, <1>3, <2>1, <2>2, <3>1, <3>2
  <2> QED BY <2>3, <2>4
<1>8. ASSUME NEW c \in Clients, SessionEof(c) \/ Leave(c)
      PROVE  Early(d)' /\ Still(d)' /\ Whole(d)'
  <2>1. /\ UNCHANGED <<typed, handled, ended, spc, cl>> /\ ~AuthOk
        /\ \A e \in Clients \ {c} : cli'[e] = cli[e] /\ c2s'[e] = c2s[e]
        /\ cli'[c] = "off" \/ (cli'[c] = "menu" /\ cli[c] = "session" /\ c2s' = c2s)
    BY <1>8 DEF SessionEof, Leave, AuthOk, runVars, wireVars, TInv
  <2>2. Served(d)' <=> Served(d) BY <2>1 DEF Served
  <2>3. CASE d = c /\ cli'[c] = "off" BY <2>3 DEF Present
  <2>4. CASE ~(d = c /\ cli'[c] = "off")
    <3>1. /\ UNCHANGED <<typed[d], handled[d], c2s[d]>> /\ (Present(d)' => Present(d))
          /\ cli'[d] = cli[d] \/ cli'[d] \notin {"new", "dial"}
      BY <2>1, <2>4 DEF Present
    <3> HIDE DEF Early, Still, Whole
    <3> QED BY <1>1, <1>2, <1>3, <2>1, <2>2, <3>1
  <2> QED BY <2>3, <2>4
<1>9. CASE Accept \/ AuthFail \/ AcceptFails
  <2>1. /\ UNCHANGED <<typed, handled, c2s, ended>> /\ ~AuthOk
        /\ \A e \in Clients : cli'[e] = cli[e] \/ cli'[e] = "off"
        /\ ~Served(d)'
    BY <1>9 DEF Accept, AuthFail, AcceptFails, AuthOk, userVars, wireVars, TInv, Served, Serving
  <2>2. ~Served(d)
    BY <1>9 DEF Accept, AuthFail, AcceptFails, Served, Serving
  <2>3. Present(d)' => Present(d) BY <2>1 DEF Present
  <2> HIDE DEF Early, Still, Whole
  <2> QED BY <1>1, <1>2, <2>1, <2>2, <2>3
<1>10. CASE AuthOk
  <2>1. /\ cl \in Clients /\ Waits(cl) /\ UNCHANGED <<cli, typed, handled, ended, cl>>
        /\ spc = "auth"
    BY <1>10 DEF AuthOk, userVars, Waits, TInv
  <2>2. cli[cl] \in {"dial", "off"} /\ Len(c2s[cl]) <= 1 BY <2>1 DEF WaitInv
  <2>3. PICK n \in 1 .. Len(c2s[cl]) : c2s' = [c2s EXCEPT ![cl] = SubSeq(@, n + 1, Len(@))]
    BY <1>10 DEF AuthOk
  <2>4. CASE d = cl
    <3>1. c2s[cl] \in Seq(Lines \cup {Hello, Garbage}) /\ c2s'[cl] = SubSeq(c2s[cl], n + 1, Len(c2s[cl]))
      BY <2>1, <2>3 DEF TInv
    <3>2. c2s'[cl] = <<>> BY <2>2, <2>3, <3>1
    <3> QED BY <1>0, <2>1, <2>2, <2>4, <3>2 DEF Present
  <2>5. CASE d # cl
    <3>1. UNCHANGED <<cli[d], typed[d], handled[d], c2s[d]>> BY <2>1, <2>3, <2>5 DEF TInv
    <3>2. ~Served(d)' BY <2>1, <2>5 DEF Served
    <3>3. Touched(d)' => Touched(d) BY <1>2, <2>1, <2>5 DEF Served
    <3> HIDE DEF Early, Still, Whole
    <3> QED BY <1>1, <1>3, <3>1, <3>2, <3>3 DEF Present
  <2> QED BY <2>4, <2>5
<1>11. ASSUME NEW line \in Lines, MenuLine(line) \/ SessionLine(line)
       PROVE  Early(d)' /\ Still(d)' /\ Whole(d)'
  <2>1. /\ UNCHANGED <<cli, typed, ended, cl>> /\ spc \in Serving /\ cl \in Clients
        /\ NextLine(line) /\ ~AuthOk
    BY <1>11 DEF MenuLine, SessionLine, userVars, TInv, Serving, AuthOk
  <2>2. /\ c2s[cl] # <<>> /\ line = Head(c2s[cl]) /\ c2s'[cl] = Tail(c2s[cl])
        /\ handled'[cl] = Append(handled[cl], line)
        /\ \A e \in Clients \ {cl} : UNCHANGED <<c2s[e], handled[e]>>
    BY <2>1 DEF NextLine, TInv
  <2>3. CASE d = cl
    <3>1. Served(d) /\ cli[d] \notin {"new", "dial"}
      BY <1>0, <2>1, <2>2, <2>3 DEF Served, NewInv
    <3> DEFINE X == Lines \cup {Hello, Garbage}
    <3>2. handled[cl] \in Seq(X) /\ c2s[cl] \in Seq(X) BY <2>1 DEF TInv
    <3> HIDE DEF X
    <3>3. handled[cl] \o c2s[cl] = handled'[cl] \o c2s'[cl] BY <2>2, <3>2, MoveJoined
    <3> QED BY <1>0, <2>1, <2>3, <3>1, <3>3 DEF Present
  <2>4. CASE d # cl
    <3>1. UNCHANGED <<cli[d], typed[d], handled[d], c2s[d]>> BY <2>1, <2>2, <2>4
    <3>2. ~Served(d)' BY <2>1, <2>4 DEF Served
    <3> HIDE DEF Early, Still, Whole
    <3> QED BY <1>1, <1>2, <1>3, <2>1, <3>1, <3>2 DEF Present
  <2> QED BY <2>3, <2>4
<1>12. CASE Reply \/ Bye \/ ClientGone
  <2>1. UNCHANGED <<cli, typed, handled, c2s>> /\ ~AuthOk
    BY <1>12 DEF Reply, Bye, ClientGone, AuthOk, userVars, wireVars
  <2>2. Served(d)' => Served(d)
    BY <1>12, ServingAssumption DEF Reply, Bye, ClientGone, Return, Served, Serving
  <2> HIDE DEF Early, Still, Whole
  <2> QED BY <1>1, <1>2, <1>3, <2>1, <2>2 DEF Present
<1> QED
  BY <1>4, <1>5, <1>6, <1>7, <1>8, <1>9, <1>10, <1>11, <1>12 DEF Next, Main, User, Background

-----------------------------------------------------------------------------
(* The parts of the way to a client, put together again. *)

LEMMA TwoQueues ==
  ASSUME NEW q \in Seq(Messages), NEW r \in Seq(Messages), NEW t
  PROVE  /\ q \o r \in Seq(Messages) /\ Nums(q \o r, t) = Nums(q, t) \cup Nums(r, t)
         /\ Rising(q, t) /\ Rising(r, t) /\ Below(Nums(q, t), Nums(r, t)) => Rising(q \o r, t)
<1> DEFINE s == q \o r  n == Len(q)  k == Len(r)
<1>1. /\ n \in Nat /\ k \in Nat /\ DOMAIN q = 1 .. n /\ DOMAIN r = 1 .. k
      /\ s \in Seq(Messages) /\ DOMAIN s = 1 .. n + k
      /\ \A i \in 1 .. n + k : s[i] = IF i <= n THEN q[i] ELSE r[i - n]
  BY ConcatProperties
<1> HIDE DEF s, n, k
<1>2. \A i \in DOMAIN q : i \in DOMAIN s /\ s[i] = q[i] BY <1>1
<1>3. \A i \in DOMAIN r : i + n \in DOMAIN s /\ s[i + n] = r[i] BY <1>1
<1>4. \A i \in DOMAIN s : (i \in DOMAIN q /\ s[i] = q[i])
                            \/ (i > n /\ i - n \in DOMAIN r /\ s[i] = r[i - n])
  BY <1>1
<1>5. Nums(s, t) = Nums(q, t) \cup Nums(r, t)
  <2>1. ASSUME NEW x \in Nums(s, t) PROVE x \in Nums(q, t) \cup Nums(r, t)
    <3>1. PICK i \in DOMAIN s : x \in Of(s[i], t) BY DEF Nums
    <3> QED BY <1>4, <3>1 DEF Nums, Of
  <2>2. ASSUME NEW x \in Nums(q, t) PROVE x \in Nums(s, t)
    <3>1. PICK i \in DOMAIN q : x \in Of(q[i], t) BY DEF Nums
    <3> QED BY <1>2, <3>1 DEF Nums, Of
  <2>3. ASSUME NEW x \in Nums(r, t) PROVE x \in Nums(s, t)
    <3>1. PICK i \in DOMAIN r : x \in Of(r[i], t) BY DEF Nums
    <3> QED BY <1>3, <3>1 DEF Nums, Of
  <2> QED BY <2>1, <2>2, <2>3
<1>6. ASSUME Rising(q, t), Rising(r, t), Below(Nums(q, t), Nums(r, t)) PROVE Rising(s, t)
  <2> SUFFICES ASSUME NEW i \in DOMAIN s, NEW j \in DOMAIN s, i < j
               PROVE  Below(Of(s[i], t), Of(s[j], t))
    BY DEF Rising
  <2>1. CASE i \in DOMAIN q /\ s[i] = q[i] /\ j \in DOMAIN q /\ s[j] = q[j]
    BY <1>6, <2>1 DEF Rising
  <2>2. CASE /\ i \in DOMAIN q /\ s[i] = q[i]
             /\ j > n /\ j - n \in DOMAIN r /\ s[j] = r[j - n]
    <3>1. Of(s[i], t) \subseteq Nums(q, t) BY <2>2 DEF Nums, Of
    <3>2. Of(s[j], t) \subseteq Nums(r, t) BY <2>2 DEF Nums, Of
    <3> QED BY <1>6, <3>1, <3>2 DEF Below
  <2>3. CASE i > n /\ i - n \in DOMAIN r /\ s[i] = r[i - n]
    <3>1. j > n BY <1>1, <2>3
    <3>2. j - n \in DOMAIN r /\ s[j] = r[j - n] BY <1>1, <1>4, <3>1
    <3>3. i - n < j - n BY <1>1
    <3> QED BY <1>6, <2>3, <3>2, <3>3 DEF Rising
  <2> QED BY <1>4, <2>1, <2>2, <2>3
<1> QED BY <1>1, <1>5, <1>6 DEF s

LEMMA InOneHand ==
  ASSUME PushTInv, HandInv, NEW c \in Clients, NEW t \in Pushes
  PROVE  Held(c, t) \in Seq(Messages) /\ Rising(Held(c, t), t)
<1>1. Held(c, t) \in Seq(Messages) /\ Len(Held(c, t)) <= 1
  BY DEF Held, PushTInv, HandInv
<1>2. \A i, j \in DOMAIN Held(c, t) : ~(i < j) BY <1>1
<1> QED BY <1>1, <1>2 DEF Rising

LEMMA WholeWay ==
  ASSUME PushTInv, HandInv, ChainInv, NEW c \in Clients, NEW t \in Pushes
  PROVE  /\ Through(c, t) \in Seq(Messages) /\ Rising(Through(c, t), t)
         /\ Nums(Through(c, t), t) = Ahead(c, t)
<1> DEFINE p == shown[c]  q == s2c[c]  r == outCh[c]  h == Held(c, t)
<1>1. p \in Seq(Messages) /\ q \in Seq(Messages) /\ r \in Seq(Messages) BY DEF PushTInv
<1>2. h \in Seq(Messages) /\ Rising(h, t) BY InOneHand
<1>3. /\ Rising(p, t) /\ Rising(q, t) /\ Rising(r, t)
      /\ Below(Nums(p, t), Nums(q, t)) /\ Below(Nums(p, t) \cup Nums(q, t), Nums(r, t))
      /\ Below(Nums(p, t) \cup Nums(q, t) \cup Nums(r, t), Nums(h, t))
  BY DEF ChainInv, Chain
<1>4. Ahead(c, t) = Nums(p, t) \cup Nums(q, t) \cup Nums(r, t) \cup Nums(h, t) BY DEF Ahead
<1>5. Through(c, t) = ((p \o q) \o r) \o h
  BY <1>1, <1>2, ConcatAssociative DEF Through, Carried, Held
<1> HIDE DEF p, q, r, h
<1>6. /\ p \o q \in Seq(Messages) /\ Rising(p \o q, t)
      /\ Nums(p \o q, t) = Nums(p, t) \cup Nums(q, t)
  BY <1>1, <1>3, TwoQueues
<1> DEFINE pq == p \o q
<1> HIDE DEF pq
<1>7. /\ pq \o r \in Seq(Messages) /\ Rising(pq \o r, t)
      /\ Nums(pq \o r, t) = Nums(p, t) \cup Nums(q, t) \cup Nums(r, t)
  <2>1. pq \in Seq(Messages) /\ Rising(pq, t) /\ Nums(pq, t) = Nums(p, t) \cup Nums(q, t)
    BY <1>6 DEF pq
  <2>2. Below(Nums(pq, t), Nums(r, t)) /\ Rising(r, t) BY <1>3, <2>1
  <2>3. /\ pq \o r \in Seq(Messages) /\ Rising(pq \o r, t)
        /\ Nums(pq \o r, t) = Nums(pq, t) \cup Nums(r, t)
    BY <1>1, <2>1, <2>2, TwoQueues
  <2> QED BY <2>1, <2>3
<1> DEFINE pqr == pq \o r
<1> HIDE DEF pqr
<1>8. /\ pqr \o h \in Seq(Messages) /\ Rising(pqr \o h, t)
      /\ Nums(pqr \o h, t) = Nums(p, t) \cup Nums(q, t) \cup Nums(r, t) \cup Nums(h, t)
  <2>1. /\ pqr \in Seq(Messages) /\ Rising(pqr, t)
        /\ Nums(pqr, t) = Nums(p, t) \cup Nums(q, t) \cup Nums(r, t)
    BY <1>7 DEF pqr
  <2>2. Below(Nums(pqr, t), Nums(h, t)) BY <1>3, <2>1
  <2>3. /\ pqr \o h \in Seq(Messages) /\ Rising(pqr \o h, t)
        /\ Nums(pqr \o h, t) = Nums(pqr, t) \cup Nums(h, t)
    BY <1>2, <2>1, <2>2, TwoQueues
  <2> QED BY <2>1, <2>3
<1> QED BY <1>4, <1>5, <1>8 DEF pq, pqr

LEMMA NumbersAre ==
  ASSUME PushTInv, HandInv, ChainInv, NEW c \in Clients, NEW t \in Pushes
  PROVE  Numbers(c, t) = Ahead(c, t)
<1> DEFINE q == Through(c, t)
<1>1. q \in Seq(Messages) /\ Nums(q, t) = Ahead(c, t) BY WholeWay
<1>2. Numbers(c, t) = UNION {Range(m.ns) : m \in {x \in Range(q) : x.typ = t}} BY DEF Numbers
<1> HIDE DEF q
<1>3. \A i \in DOMAIN q : \A k \in DOMAIN q[i].ns : q[i].ns[k] \in Nat
  <2>1. \A i \in DOMAIN q : q[i] \in Messages BY <1>1
  <2>2. \A m \in Messages : m.ns \in Seq(Nat) BY DEF Messages
  <2> QED BY <2>1, <2>2
<1>4. UNION {Range(m.ns) : m \in {x \in Range(q) : x.typ = t}} = Nums(q, t)
  <2>1. ASSUME NEW n \in UNION {Range(m.ns) : m \in {x \in Range(q) : x.typ = t}}
        PROVE  n \in Nums(q, t)
    <3>1. PICK i \in DOMAIN q : q[i].typ = t /\ n \in Range(q[i].ns) BY DEF Range
    <3>2. PICK k \in DOMAIN q[i].ns : q[i].ns[k] = n BY <3>1 DEF Range
    <3> QED BY <1>3, <3>1, <3>2 DEF Nums, Of
  <2>2. ASSUME NEW n \in Nums(q, t)
        PROVE  n \in UNION {Range(m.ns) : m \in {x \in Range(q) : x.typ = t}}
    <3>1. PICK i \in DOMAIN q : n \in Of(q[i], t) BY DEF Nums
    <3>2. q[i].typ = t /\ n \in Range(q[i].ns) /\ q[i] \in Range(q) BY <3>1 DEF Of, Range
    <3> QED BY <3>2
  <2> QED BY <2>1, <2>2
<1> QED BY <1>1, <1>2, <1>4

-----------------------------------------------------------------------------
(* The inductive invariant. *)

IndInv ==
  /\ TInv /\ PushTInv /\ CapInv /\ WaitInv /\ NewInv /\ AdmittedInv /\ LineInv
  /\ HandInv /\ ChainInv /\ ApartInv /\ LossInv

LEMMA InitiallySo == Init => IndInv
<1> SUFFICES ASSUME Init PROVE IndInv OBVIOUS
<1> USE DEF Init
<1>1. \A X : <<>> \in Seq(X) OBVIOUS
<1>2. DOMAIN <<>> = {} /\ Len(<<>>) = 0 OBVIOUS
<1>3. TInv BY <1>1 DEF TInv, Serving
<1>4. PushTInv BY <1>1 DEF PushTInv, Pushes
<1>5. CapInv BY <1>2, ServingAssumption DEF CapInv
<1>6. \A c \in Clients : ~Touched(c) /\ ~Waits(c) /\ ~Served(c) /\ ~Present(c)
  BY <1>2 DEF Touched, Waits, Served, Present, Serving
<1>7. WaitInv /\ NewInv /\ AdmittedInv
  BY <1>2, <1>6 DEF WaitInv, NewInv, AdmittedInv
<1>8. LineInv BY <1>6 DEF LineInv
<1>9. HandInv BY <1>2 DEF HandInv
<1>10. ASSUME NEW c \in Clients, NEW t \in Pushes
       PROVE  Chain(c, t) /\ Ahead(c, t) = {}
  <2>1. shown[c] = <<>> /\ s2c[c] = <<>> /\ outCh[c] = <<>> /\ Held(c, t) = <<>> BY DEF Held
  <2> QED BY <2>1, EmptyQueue DEF Chain, Ahead, Below
<1>11. \A t \in Pushes : Waiting(t) = {} /\ sent[t] = 0
  BY <1>2 DEF Waiting, Range, Pushes
<1>12. ChainInv /\ ApartInv /\ LossInv
  BY <1>10, <1>11 DEF ChainInv, ApartInv, LossInv, Below
<1> QED BY <1>3, <1>4, <1>5, <1>7, <1>8, <1>9, <1>12 DEF IndInv

-----------------------------------------------------------------------------
(* The inductive invariant of the server holds from start to end: what is  *)
(* in a queue, in a hand or on its way stands behind what was delivered    *)
(* before it, and what is missing was lost with a client that has left.    *)
THEOREM Inductive == Spec => []IndInv
<1>1. IndInv /\ [Next]_vars => IndInv'
  <2> SUFFICES ASSUME IndInv, [Next]_vars PROVE IndInv' OBVIOUS
  <2> USE DEF IndInv
  <2>1. TInv' /\ PushTInv' /\ CapInv' BY TypesStep, PushTypesStep, CapStep
  <2>2. WaitInv' /\ NewInv' BY WaitStep, NewStep
  <2>3. AdmittedInv' /\ LineInv' BY AdmittedStep, LineStep
  <2>4. HandInv' /\ ChainInv' BY HandStep, ChainStep
  <2>5. ApartInv' /\ LossInv' BY ApartStep, LossStep
  <2> QED BY <2>1, <2>2, <2>3, <2>4, <2>5
<1> QED BY <1>1, InitiallySo, PTL DEF Spec

-----------------------------------------------------------------------------
(* Every variable has its type, and what is bounded stays in its bounds:   *)
(* a message is only put where there is room for it, and a client that is  *)
(* no longer served has no drain goroutine that was not told.              *)
THEOREM TypeCorrect == Spec => []TypeOK
<1>1. IndInv => TypeOK
  <2> SUFFICES ASSUME IndInv PROVE TypeOK OBVIOUS
  <2> USE DEF IndInv
  <2>1. Range(backlog) \subseteq Clients BY DEF TInv, Range
  <2>2. \A c \in Clients :
          /\ cli[c] \in {"new", "dial", "menu", "ask", "use", "session", "leave", "off"}
          /\ dr[c] \in {"off", "run", "told", "last"}
    BY DEF TInv
  <2>3. \A c \in Clients : c \in ended => dr[c] # "run" BY DEF CapInv, WaitInv
  <2>4. \A c \in Clients : /\ Len(typed[c]) <= MaxLines /\ Len(outCh[c]) <= OutCap
                           /\ Len(s2c[c]) <= WireCap
    BY DEF CapInv
  <2>5. \A c \in Clients : Len(evHand[c]) <= 1 /\ Len(rxHand[c]) <= 1 BY DEF HandInv
  <2>6. /\ spc \in Serving \cup {"accept", "auth", "stopped"} /\ cl \in Clients \cup {None}
        /\ spc \in Serving \cup {"auth"} => cl # None
        /\ ended \subseteq Clients /\ reply \in {Response, Start}
    BY DEF TInv
  <2> QED BY <2>1, <2>2, <2>3, <2>4, <2>5, <2>6 DEF TypeOK
<1> QED BY <1>1, Inductive, PTL

(* What is pushed reaches one client, in the order it happened in: a       *)
(* forwarder takes the head of the event channel and a drain goroutine all *)
(* of the buffer, each holds what it took until it is in outCh, and the    *)
(* writer and the connection keep the order.                               *)
THEOREM PushedInOrder == Spec => []PushedOnceInOrder
<1>1. IndInv => PushedOnceInOrder
  <2> SUFFICES ASSUME IndInv, NEW t \in {"E", "D"}, NEW c \in Clients
               PROVE  /\ \A i, j \in DOMAIN Through(c, t) :
                           i < j /\ Through(c, t)[i].typ = t /\ Through(c, t)[j].typ = t =>
                           \A m \in Range(Through(c, t)[i].ns), n \in Range(Through(c, t)[j].ns) :
                             m < n
                      /\ Numbers(c, t) \cap Waiting(t) = {}
                      /\ \A d \in Clients \ {c} : Numbers(c, t) \cap Numbers(d, t) = {}
    BY DEF PushedOnceInOrder
  <2>1. t \in Pushes /\ PushTInv /\ HandInv /\ ChainInv /\ ApartInv BY DEF Pushes, IndInv
  <2>2. \A d \in Clients : Numbers(d, t) = Ahead(d, t) BY <2>1, NumbersAre
  <2>3. Ahead(c, t) \cap Waiting(t) = {}
    <3> SUFFICES ASSUME NEW n \in Ahead(c, t), n \in Waiting(t) PROVE FALSE OBVIOUS
    <3>1. n < n /\ n \in 1 .. sent[t] BY <2>1 DEF ApartInv, Below
    <3> QED BY <3>1
  <2>4. \A d \in Clients \ {c} : Ahead(c, t) \cap Ahead(d, t) = {} BY <2>1 DEF ApartInv
  <2> DEFINE q == Through(c, t)
  <2>5. q \in Seq(Messages) /\ Rising(q, t) BY <2>1, WholeWay
  <2> HIDE DEF q
  <2>6. ASSUME NEW i \in DOMAIN q, NEW j \in DOMAIN q, i < j, q[i].typ = t, q[j].typ = t,
               NEW m \in Range(q[i].ns), NEW n \in Range(q[j].ns)
        PROVE  m < n
    <3>1. \A x \in Messages : x.ns \in Seq(Nat) BY DEF Messages
    <3>2. q[i] \in Messages /\ q[j] \in Messages BY <2>5
    <3>3. m \in Of(q[i], t) /\ n \in Of(q[j], t) BY <2>6, <3>1, <3>2 DEF Of, Range
    <3> QED BY <2>5, <2>6, <3>3 DEF Rising, Below
  <2> QED BY <2>2, <2>3, <2>4, <2>6 DEF q
<1> QED BY <1>1, Inductive, PTL

(* Nothing pushed is lost but what a goroutine took for a client that has  *)
(* left or is no longer served: GivesUp and a writer whose client has gone *)
(* are the only places where a message ends.                               *)
THEOREM LostWithClient == Spec => []LostOnlyWithClient
<1>1. IndInv => LostOnlyWithClient
  <2> SUFFICES ASSUME IndInv, NEW t \in {"E", "D"}, NEW n \in 1 .. sent[t]
               PROVE  \/ n \in Waiting(t)
                      \/ \E c \in Clients : n \in Numbers(c, t)
                      \/ \E c \in Clients : <<t, n>> \in taken[c] /\ (c \in ended \/ cli[c] = "off")
    BY DEF LostOnlyWithClient
  <2>1. t \in Pushes /\ PushTInv /\ HandInv /\ ChainInv /\ LossInv BY DEF Pushes, IndInv
  <2>2. \A c \in Clients : Numbers(c, t) = Ahead(c, t) BY <2>1, NumbersAre
  <2> QED BY <2>1, <2>2 DEF LossInv
<1> QED BY <1>1, Inductive, PTL

(* What a client's user has typed is what the server has looked at         *)
(* followed by what is still on its way: authenticate's own reader has     *)
(* taken nothing but HELLO, because a client types only after READY.       *)
THEOREM EveryLineLookedAt == Spec => []LinesReachServer
<1>1. IndInv => LinesReachServer BY DEF IndInv, LineInv, LinesReachServer
<1> QED BY <1>1, Inductive, PTL

(* A client that got READY is the one Run is with, until it leaves or one  *)
(* of its lines begins with exit.                                          *)
THEOREM InIsServed == Spec => []ServedWhileIn
<1>1. IndInv => ServedWhileIn
  BY DEF IndInv, AdmittedInv, ServedWhileIn, Served, HasExited
<1> QED BY <1>1, Inductive, PTL
=============================================================================
