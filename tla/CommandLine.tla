---------------------------- MODULE CommandLine ----------------------------
(***************************************************************************)
(* What a line means (internal/console/parser.go, and the places of        *)
(* repl.go, dispatcher.go, server.go and client.go that look at a line).   *)
(* Operators only; Dispatcher, Console and Serving extend this module.     *)
(*                                                                         *)
(* A line is what strings.TrimSpace and strings.Fields make of it: a       *)
(* sequence of tokens.  A token is the sequence of its pieces between      *)
(* colons: "4444:2" is <<"4444", "2">>.                                    *)
(***************************************************************************)
EXTENDS Integers, Sequences

CONSTANTS
  Number,      \* strconv.Atoi: the pieces that are numbers, with their values
  LowerCase,   \* strings.ToLower: the pieces with capitals, with their lower case
  Bang, Plus   \* the pieces that start with "!", with "+"

ASSUME CommandLineAssumption ==
  /\ \A p \in DOMAIN Number : Number[p] \in Int
  /\ Bang \cap Plus = {} /\ (Bang \cup Plus) \cap DOMAIN Number = {}

-----------------------------------------------------------------------------
(* Parse. *)

Lower(p) == IF p \in DOMAIN LowerCase THEN LowerCase[p] ELSE p
Word(t)  == [i \in DOMAIN t |-> Lower(t[i])]

Verb(line) == Word(Head(line))
Args(line) == Tail(line)

ToolVerbs == {<<v>> : v \in {"open", "close", "kill", "use", "list", "info", "log",
                             "fwd", "proxy", "help", "exit", "clear", "send", "read"}}

Kind(line, sessionMode) ==
  IF line = <<>> THEN "empty"
  ELSE IF line[1][1] \in Bang THEN "system"
  ELSE IF line[1][1] \in Plus THEN "special"
  ELSE IF Verb(line) \in ToolVerbs \/ ~sessionMode THEN "tool"
  ELSE "pass"

(* ParsePortIdx, ParseRemote, and strconv.Atoi of a whole token. *)
IsNumber(t)  == Len(t) = 1 /\ t[1] \in DOMAIN Number
IsPortIdx(t) == Len(t) \in {1, 2} /\ \A i \in 1 .. Len(t) : t[i] \in DOMAIN Number
IsRemote(t)  == Len(t) > 1 /\ t[Len(t)] \in DOMAIN Number
Port(t)      == Number[t[1]]
Index(t)     == IF Len(t) = 2 THEN Number[t[2]] ELSE 0

-----------------------------------------------------------------------------
(* An index is 1-based and 0 means none; of n sessions listed only the     *)
(* upper bound is tested.                                                  *)

TooHighByOne(n, idx) == idx > n + 1     \* mutant: off by one
TooHigh(n, idx) == idx > n
Panics(n, idx)  == idx # 0 /\ ~TooHigh(n, idx) /\ idx - 1 \notin 0 .. n - 1

-----------------------------------------------------------------------------
(* Who leaves what.  At the menu the REPL and the server look at the first *)
(* token, the client at the whole line.  In session mode the REPL looks at *)
(* the first token in lower case, server and client at the whole line.     *)

EndLines   == {<<<<"exit">>>>, <<<<"+exit">>>>}
BackVerbs  == {<<"+back">>, <<"+bg">>, <<"+background">>}
LeaveLines == {<<v>> : v \in BackVerbs} \cup EndLines

Exits(line)        == Verb(line) \in {<<"exit">>, <<"+exit">>}
ClientExits(line)  == [i \in DOMAIN line |-> Word(line[i])] \in EndLines
IsUse(line)        == Verb(line) = <<"use">>
LeavesRemote(line) == line \in LeaveLines
=============================================================================
