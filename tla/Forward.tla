------------------------------ MODULE Forward -------------------------------
(***************************************************************************)
(* Forwards and logging proxies (internal/forward): the manager's table,   *)
(* the accept loop and the handler of every connection, the two copying    *)
(* goroutines of a pipe and the closing of both its ends, byte counters    *)
(* and proxy logs.  The two ends of a pipe are external: they send bytes,  *)
(* end their half of the stream, and may reset.                            *)
(***************************************************************************)
EXTENDS Integers, Sequences, FiniteSets, SequencesExt

CONSTANTS
  Ports,
  Instances,  \* identities of Forwarder and Proxy objects
  Proxies,    \* those that are proxies
  Conns,      \* connections that local peers may make
  Logs,       \* destinations of proxy logs
  MaxBytes,   \* bound, per direction: bytes of a connection
  Server,     \* TRUE: commands come from a client that may disconnect
  None

Dirs  == {"tx", "rx"}        \* local to remote, remote to local
Pipes == Conns \X Dirs

ASSUME ForwardAssumption ==
  /\ Proxies \subseteq Instances /\ Logs # {} /\ MaxBytes \in [Dirs -> Nat]
  /\ Server \in BOOLEAN /\ None \notin Instances

Byte(x) == 1 .. MaxBytes[x[2]]      \* byte n is the n-th of its direction

VARIABLES
  entries,   \* Manager.entries: per port its Forwarder or Proxy, or None
  ln,        \* per instance: its net.Listener is "unborn", "open", "closed"
  cancelled, \* instances whose context is cancelled
  client,    \* the REPL runs / a client is connected
  fw,        \* per connection: the instance it was made to
  h,         \* per connection: where its handler is
  up,        \* connections whose two ends are not closed on this side
  dones,     \* per connection: how often `done` was closed
  sent,      \* per pipe: how many bytes its source has sent
  src,       \* per pipe: those of them not read yet
  fin,       \* pipes whose source has ended its half
  reset,     \* history: connections one of whose peers has reset
  cp,        \* per pipe: where its copying goroutine is
  buf,       \* per pipe: what that goroutine has read and not written
  got,       \* per pipe: what was written to its destination
  total,     \* per instance and direction: totalTX, totalRX
  logOut,    \* per instance: Proxy.logOut
  lw,        \* per connection: the destination its logWriters hold
  logged     \* history, per pipe: [byte, to] of what was logged

mgrVars  == <<entries, ln, cancelled, client>>
connVars == <<fw, h>>
endVars  == <<up, dones>>
peerVars == <<sent, src, fin, reset>>
copyVars == <<cp, buf, got, total>>
logVars  == <<logOut, lw, logged>>
vars == <<mgrVars, connVars, endVars, peerVars, copyVars, logVars>>

Init ==
  /\ entries = [p \in Ports |-> None] /\ ln = [i \in Instances |-> "unborn"]
  /\ cancelled = {} /\ client = TRUE
  /\ fw = [c \in Conns |-> None] /\ h = [c \in Conns |-> "new"]
  /\ up = {} /\ dones = [c \in Conns |-> 0]
  /\ sent = [x \in Pipes |-> 0] /\ src = [x \in Pipes |-> <<>>] /\ fin = {} /\ reset = {}
  /\ cp = [x \in Pipes |-> "unborn"]
  /\ buf = [x \in Pipes |-> <<>>] /\ got = [x \in Pipes |-> <<>>]
  /\ total = [x \in Instances \X Dirs |-> 0]
  /\ logOut = [i \in Instances |-> None] /\ lw = [c \in Conns |-> None]
  /\ logged = [x \in Pipes |-> <<>>]

-----------------------------------------------------------------------------
(* The manager.  Each operation holds mu from end to end. *)

(* fwd, proxy.  A port that is in use elsewhere cannot be bound. *)
Open(p, i) ==
  /\ client /\ entries[p] = None /\ ln[i] = "unborn"
  /\ entries' = [entries EXCEPT ![p] = i] /\ ln' = [ln EXCEPT ![i] = "open"]
  /\ IF i \in Proxies
     THEN \E d \in Logs : logOut' = [logOut EXCEPT ![i] = d]
     ELSE UNCHANGED logOut
  /\ UNCHANGED <<cancelled, client, connVars, endVars, peerVars, copyVars, lw, logged>>

CloseKeepsCtx(p) ==           \* mutant: only the listening socket is closed
  /\ entries[p] # None
  /\ ln' = [ln EXCEPT ![entries[p]] = "closed"]
  /\ entries' = [entries EXCEPT ![p] = None]
  /\ UNCHANGED <<cancelled, client, connVars, endVars, peerVars, copyVars, logVars>>

(* fwd close, proxy close: either command closes either kind; also each    *)
(* step of CloseAll.                                                       *)
Close(p) ==
  /\ entries[p] # None
  /\ cancelled' = cancelled \cup {entries[p]}
  /\ ln' = [ln EXCEPT ![entries[p]] = "closed"]
  /\ entries' = [entries EXCEPT ![p] = None]
  /\ UNCHANGED <<client, connVars, endVars, peerVars, copyVars, logVars>>

(* proxy log.  Only logOut changes. *)
SetLogFile(p, d) ==
  /\ client /\ entries[p] \in Proxies /\ logOut[entries[p]] # d
  /\ logOut' = [logOut EXCEPT ![entries[p]] = d]
  /\ UNCHANGED <<mgrVars, connVars, endVars, peerVars, copyVars, lw, logged>>

(* The client's context is the parent of every forward it started. *)
ClientGone ==
  /\ Server /\ client /\ client' = FALSE
  /\ cancelled' = {i \in Instances : ln[i] # "unborn"}
  /\ UNCHANGED <<entries, ln, connVars, endVars, peerVars, copyVars, logVars>>

ClientCome ==
  /\ Server /\ ~client /\ client' = TRUE
  /\ UNCHANGED <<entries, ln, cancelled, connVars, endVars, peerVars, copyVars, logVars>>

-----------------------------------------------------------------------------
(* acceptLoop and handle. *)

(* A local peer connects, and is accepted. *)
Accept(c, i) ==
  /\ h[c] = "new" /\ ln[i] = "open"
  /\ fw' = [fw EXCEPT ![c] = i] /\ h' = [h EXCEPT ![c] = "dial"]
  /\ up' = up \cup {c}
  /\ UNCHANGED <<mgrVars, dones, peerVars, copyVars, logVars>>

(* Refused, timed out, or the context is cancelled. *)
DialFail(c) ==
  /\ h[c] = "dial" /\ h' = [h EXCEPT ![c] = "done"] /\ up' = up \ {c}
  /\ UNCHANGED <<mgrVars, fw, dones, peerVars, copyVars, logVars>>

(* The pipe starts.  logOut is read without logMu, once. *)
Dial(c) ==
  /\ h[c] = "dial" /\ fw[c] \notin cancelled
  /\ h' = [h EXCEPT ![c] = "pipe"]
  /\ cp' = [x \in Pipes |-> IF x[1] = c THEN "read" ELSE cp[x]]
  /\ lw' = [lw EXCEPT ![c] = logOut[fw[c]]]
  /\ UNCHANGED <<mgrVars, fw, endVars, peerVars, buf, got, total, logOut, logged>>

(* closeAll: both ends, then `done`, once. *)
CloseAllTwice(c) == up' = up \ {c} /\ dones' = [dones EXCEPT ![c] = @ + 1] \* mutant
CloseAll(c) ==
  IF dones[c] = 0 THEN up' = up \ {c} /\ dones' = [dones EXCEPT ![c] = 1]
                  ELSE UNCHANGED endVars

HandleDone(c) ==
  /\ h[c] = "pipe" /\ dones[c] > 0
  /\ h' = [h EXCEPT ![c] = "done"]
  /\ UNCHANGED <<mgrVars, fw, endVars, peerVars, copyVars, logVars>>

HandleCancelled(c) ==
  /\ h[c] = "pipe" /\ fw[c] \in cancelled
  /\ CloseAll(c) /\ h' = [h EXCEPT ![c] = "done"]
  /\ UNCHANGED <<mgrVars, fw, peerVars, copyVars, logVars>>

-----------------------------------------------------------------------------
(* The two ends. *)

PeerSend(x) ==
  /\ x[1] \in up /\ x[1] \notin reset /\ x \notin fin /\ sent[x] < MaxBytes[x[2]]
  /\ sent' = [sent EXCEPT ![x] = @ + 1]
  /\ src' = [src EXCEPT ![x] = Append(@, sent[x] + 1)]
  /\ UNCHANGED <<mgrVars, connVars, endVars, fin, reset, copyVars, logVars>>

PeerFin(x) ==
  /\ x[1] \in up /\ x \notin fin /\ fin' = fin \cup {x}
  /\ UNCHANGED <<mgrVars, connVars, endVars, sent, src, reset, copyVars, logVars>>

PeerReset(c) ==
  /\ c \in up /\ c \notin reset /\ reset' = reset \cup {c}
  /\ UNCHANGED <<mgrVars, connVars, endVars, sent, src, fin, copyVars, logVars>>

-----------------------------------------------------------------------------
(* The goroutine that copies one direction: io.Copy, counters, closeAll.   *)

Broken(x) == x[1] \notin up \/ x[1] \in reset
At(x, l) == cp[x] = l
CpGoto(x, l) == cp' = [cp EXCEPT ![x] = l]

TeesTx(x) == fw[x[1]] \in Proxies /\ x[2] = "tx"   \* mutant: logs one direction
Tees(x)   == fw[x[1]] \in Proxies

(* A proxy logs what it has read before it writes it (TeeReader). *)
CopyRead(x) ==
  /\ At(x, "read") /\ x[1] \in up
  /\ \E n \in 1 .. Len(src[x]) :
       /\ buf' = [buf EXCEPT ![x] = SubSeq(src[x], 1, n)]
       /\ src' = [src EXCEPT ![x] = SubSeq(@, n + 1, Len(@))]
       /\ LET lines == [k \in 1 .. n |-> [byte |-> src[x][k], to |-> lw[x[1]]]]
          IN  logged' = IF Tees(x) THEN [logged EXCEPT ![x] = @ \o lines] ELSE logged
  /\ CpGoto(x, "write")
  /\ UNCHANGED <<mgrVars, connVars, endVars, sent, fin, reset, got, total, logOut, lw>>

CopyWriteShort(x) ==          \* mutant: a short write is taken for a whole one
  /\ At(x, "write") /\ x[1] \in up
  /\ \E n \in 1 .. Len(buf[x]) : got' = [got EXCEPT ![x] = @ \o SubSeq(buf[x], 1, n)]
  /\ buf' = [buf EXCEPT ![x] = <<>>] /\ CpGoto(x, "read")
  /\ UNCHANGED <<mgrVars, connVars, endVars, peerVars, total, logVars>>

(* The kernel takes a part at a time. *)
CopyWrite(x) ==
  /\ At(x, "write") /\ x[1] \in up
  /\ \E n \in 1 .. Len(buf[x]) :
       /\ got' = [got EXCEPT ![x] = @ \o SubSeq(buf[x], 1, n)]
       /\ buf' = [buf EXCEPT ![x] = SubSeq(@, n + 1, Len(@))]
       /\ CpGoto(x, IF n = Len(buf[x]) THEN "read" ELSE "write")
  /\ UNCHANGED <<mgrVars, connVars, endVars, peerVars, total, logVars>>

(* io.Copy returns: end of stream, or either end fails or is closed. *)
CopyEnd(x) ==
  /\ \/ At(x, "read") /\ x \in fin /\ src[x] = <<>>
     \/ (At(x, "read") \/ At(x, "write")) /\ Broken(x)
  /\ CpGoto(x, "count")
  /\ UNCHANGED <<mgrVars, connVars, endVars, peerVars, buf, got, total, logVars>>

CountEof(x) == IF Broken(x) THEN 0 ELSE Len(got[x])  \* mutant: not after an error
Count(x)    == Len(got[x])

(* A proxy has no counters. *)
CopyCount(x) ==
  /\ At(x, "count") /\ CpGoto(x, "close")
  /\ total' = IF fw[x[1]] \in Proxies THEN total
              ELSE [total EXCEPT ![<<fw[x[1]], x[2]>>] = @ + Count(x)]
  /\ UNCHANGED <<mgrVars, connVars, endVars, peerVars, buf, got, logVars>>

CopyClose(x) ==
  /\ At(x, "close") /\ CpGoto(x, "done") /\ CloseAll(x[1])
  /\ UNCHANGED <<mgrVars, connVars, peerVars, buf, got, total, logVars>>

-----------------------------------------------------------------------------
Manager == \/ \E p \in Ports : \/ Close(p)
                               \/ \E i \in Instances : Open(p, i)
                               \/ \E d \in Logs : SetLogFile(p, d)
           \/ ClientGone \/ ClientCome
Peers == \/ \E x \in Pipes : PeerSend(x) \/ PeerFin(x)
         \/ \E c \in Conns : PeerReset(c) \/ \E i \in Instances : Accept(c, i)
Handle(c) == DialFail(c) \/ Dial(c) \/ HandleDone(c) \/ HandleCancelled(c)
Copy(x)   == CopyRead(x) \/ CopyWrite(x) \/ CopyEnd(x) \/ CopyCount(x) \/ CopyClose(x)

Next == \/ Manager \/ Peers
        \/ \E c \in Conns : Handle(c)
        \/ \E x \in Pipes : Copy(x)

Spec == Init /\ [][Next]_vars

(* Every goroutine runs; a dial ends, in a connection or at its timeout.   *)
FairSpec == /\ Spec /\ \A c \in Conns : WF_vars(Handle(c))
            /\ \A x \in Pipes : WF_vars(Copy(x))

-----------------------------------------------------------------------------
(* Every variable has its type, and `done` is closed at most once per      *)
(* connection: closing it twice would stop the program.                    *)
TypeOK ==
  /\ entries \in [Ports -> Instances \cup {None}]
  /\ ln \in [Instances -> {"unborn", "open", "closed"}]
  /\ cancelled \subseteq Instances /\ client \in BOOLEAN
  /\ fw \in [Conns -> Instances \cup {None}]
  /\ h \in [Conns -> {"new", "dial", "pipe", "done"}]
  /\ up \subseteq Conns /\ dones \in [Conns -> 0 .. 1]
  /\ \A x \in Pipes : /\ sent[x] \in Byte(x) \cup {0}
                      /\ {src[x], buf[x], got[x]} \subseteq Seq(Byte(x))
  /\ fin \subseteq Pipes /\ reset \subseteq Conns
  /\ cp \in [Pipes -> {"unborn", "read", "write", "count", "close", "done"}]
  /\ total \in [Instances \X Dirs -> Nat]
  /\ logOut \in [Instances -> Logs \cup {None}] /\ lw \in [Conns -> Logs \cup {None}]

(* A pipe loses, repeats and reorders nothing between what its destination *)
(* has got and what its source has sent, whoever closes it and when; what  *)
(* is cut off is always the end.                                           *)
AllSent(x) == [k \in 1 .. sent[x] |-> k]
InOrder == \A x \in Pipes : got[x] \o buf[x] \o src[x] = AllSent(x)

(* Each direction of a pipe implements the abstract byte stream: what was  *)
(* read and not written, and what is still to be read, is pending, and     *)
(* what its destination has got stays as it is.                            *)
Pipe(x) == INSTANCE ByteStream WITH pending <- buf[x] \o src[x], taken <- got[x]
PipesAreStreams ==
  /\ \A x \in Pipes : Pipe(x)!StreamInit
  /\ [][\A x \in Pipes : [Pipe(x)!StreamNext]_(Pipe(x)!streamVars)]_vars

(* A proxy passes on nothing it has not logged, in the order it was sent.  *)
LoggedFirst ==
  \A x \in Pipes : fw[x[1]] \in Proxies =>
    LET log == [k \in DOMAIN logged[x] |-> logged[x][k].byte]
    IN  IsPrefix(got[x], log) /\ IsPrefix(log, AllSent(x))

(* When all pipes of a forward are over, its totals are the bytes that     *)
(* were delivered, although handle returns before the second copy counts.  *)
(* A byte is named by its connection and its place.                        *)
Finished(c) == h[c] = "done" /\ \A d \in Dirs : cp[<<c, d>>] \in {"unborn", "done"}
Arrived(C, d)   == UNION {{c} \X DOMAIN got[<<c, d>>] : c \in C}
Delivered(i, d) == Cardinality(Arrived({c \in Conns : fw[c] = i}, d))
TotalsSettle ==
  \A i \in Instances \ Proxies :
    (\A c \in Conns : fw[c] = i => Finished(c))
      => \A d \in Dirs : total[<<i, d>>] = Delivered(i, d)

(* `fwd close` and `proxy close` end every pipe of the forward, the ones   *)
(* still dialling included, and leave no goroutine behind.                 *)
CloseEndsPipes ==
  \A c \in Conns, i \in Instances :
    (fw[c] = i /\ ln[i] = "closed") ~> (Finished(c) /\ c \notin up)

(* README: "fwd <lport> <host:rport>: Start transparent TCP forward":      *)
(* unless it is closed or reset, a pipe ends only when both directions     *)
(* have been delivered.                                                    *)
Transparent ==
  \A c \in Conns :
    h[c] = "done" /\ dones[c] > 0 /\ fw[c] \notin cancelled /\ c \notin reset
      => \A d \in Dirs : Len(got[<<c, d>>]) = sent[<<c, d>>]

(* README: "proxy log <lport> <file>: Redirect proxy log to file": what is *)
(* logged after that goes there.                                           *)
LogFollows ==
  [][\A x \in Pipes :
       logged'[x] # logged[x] => Last(logged'[x]).to = logOut[fw[x[1]]]]_vars

(* forwarder.go: "Stats returns cumulative bytes transferred".             *)
StatsCurrent ==
  \A i \in Instances \ Proxies, d \in Dirs : total[<<i, d>>] = Delivered(i, d)

(* README: "The server preserves all state (open ports, sessions,          *)
(* forwards) if the client disconnects": a listed forward still forwards.  *)
ForwardsPreserved == \A p \in Ports : entries[p] \notin cancelled
=============================================================================
