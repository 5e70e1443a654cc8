------------------------------ MODULE Registry ------------------------------
(***************************************************************************)
(* The command registry: Register, Get, List and Execute.                  *)
(*                                                                         *)
(* A word, or a line, is the slashes it begins with, the letters up to the *)
(* first blank inside it, the rest after that blank (Nothing without one), *)
(* and whether it is as the registry stores it: one that is not plain has  *)
(* capitals, or blanks around it.                                          *)
(***************************************************************************)
EXTENDS Integers, Sequences, Functions

CONSTANTS
  Client,     \* the clients, each with a goroutine that executes its lines
  NoClient,   \* the client of a context that has none
  Command,    \* the commands that Register is given
  Name,       \* Command.Name
  Aliases,    \* Command.Aliases
  MinLevel,   \* Command.MinLevel
  Letters     \* the letters words are made of, Nothing among them

levelUser == 0
levelAdmin == 1
Level == {levelUser, levelAdmin}

Nothing == ""

Word ==
  {w \in [slashes : Nat, letters : Letters, rest : Letters, plain : BOOLEAN] :
     w.slashes = 0 /\ w.letters = Nothing => w.rest = Nothing}

ASSUME RegistryAssumption ==
  /\ NoClient \notin Client
  /\ Name \in [Command -> Word] /\ Aliases \in [Command -> Seq(Word)]
  /\ MinLevel \in [Command -> Int]
  /\ Nothing \in Letters

VARIABLES
  byName,     \* Registry.byName: from words to commands
  list,       \* Registry.list
  failed,     \* history: unlisted commands some Register returned an error for
  level,      \* Client.Meta["level"], of the clients that have one
  exec        \* what each Execute is doing, the command it found, its client

registryVars == <<byName, list, failed, level, exec>>

RegistryTypeOK ==
  /\ DOMAIN byName \subseteq Word /\ Range(byName) \subseteq Command
  /\ list \in Seq(Command) /\ failed \subseteq Command
  /\ DOMAIN level \subseteq Client /\ Range(level) \subseteq Level
  /\ exec \in [Client -> {<<"idle">>} \cup
                ({"check", "handler"} \X Command \X (Client \cup {NoClient}))]

RegistryInit ==
  /\ byName = <<>> /\ list = <<>> /\ failed = {}
  /\ level = <<>>
  /\ exec = [c \in Client |-> <<"idle">>]

---------------------------------------------------------------------------
(* Words.                                                                  *)

ToLowerTrimSpace(w) == [w EXCEPT !.plain = TRUE]
TrimPrefix(w) == [w EXCEPT !.slashes = IF @ > 0 THEN @ - 1 ELSE 0]

\* The first of strings.Fields: what comes before the first blank.
Field1(w) == [w EXCEPT !.rest = Nothing]
Empty(w) == w.slashes = 0 /\ w.letters = Nothing

---------------------------------------------------------------------------
(* Register, under the write lock.                                         *)

\* The name of a command and its aliases, in the order they are entered.
Words(cmd) ==
  [i \in 1..(Len(Aliases[cmd]) + 1) |->
     ToLowerTrimSpace(IF i = 1 THEN Name[cmd] ELSE Aliases[cmd][i - 1])]

ValidName(cmd) == ~Empty(Name[cmd]) /\ Name[cmd].slashes = 0

\* The i-th word, unless it is empty and skipped, is in the map already when
\* its turn comes.
Exists(cmd, i) ==
  /\ ~Empty(Words(cmd)[i])
  /\ \/ Words(cmd)[i] \in DOMAIN byName
     \/ \E j \in 1..(i - 1) : Words(cmd)[j] = Words(cmd)[i]

\* The words among the first n that come before any that exists.
Entered(cmd, n) ==
  {Words(cmd)[i] : i \in {j \in 1..n : /\ ~Empty(Words(cmd)[j])
                                       /\ \A k \in 1..j : ~Exists(cmd, k)}}

Enter(cmd, words) ==
  byName' = [w \in DOMAIN byName \cup words |->
               IF w \in words THEN cmd ELSE byName[w]]

\* Faulty variant of Register: an alias is entered without a look at the map.
RegisterOver(cmd) ==
  /\ ValidName(cmd)
  /\ IF Exists(cmd, 1)
     THEN failed' = failed \cup ({cmd} \ Range(list)) /\ UNCHANGED <<byName, list>>
     ELSE /\ Enter(cmd, {w \in Range(Words(cmd)) : ~Empty(w)})
          /\ list' = Append(list, cmd) /\ UNCHANGED failed
  /\ UNCHANGED <<level, exec>>

\* Faulty variant of Register: the command is listed before its aliases are entered.
RegisterListsFirst(cmd) ==
  /\ ValidName(cmd)
  /\ Enter(cmd, Entered(cmd, Len(Words(cmd))))
  /\ list' = IF Exists(cmd, 1) THEN list ELSE Append(list, cmd)
  /\ failed' = IF \E i \in DOMAIN Words(cmd) : Exists(cmd, i)
               THEN failed \cup ({cmd} \ Range(list)) ELSE failed
  /\ UNCHANGED <<level, exec>>

\* Faulty variant of Register: an empty alias ends it, as if all were done.
RegisterStopsAtEmpty(cmd) ==
  LET stops == \E i \in DOMAIN Words(cmd) : Empty(Words(cmd)[i])
      n == IF stops THEN 1 ELSE Len(Words(cmd))
  IN /\ ValidName(cmd)
     /\ Enter(cmd, Entered(cmd, n))
     /\ IF \E i \in 1..n : Exists(cmd, i)
        THEN failed' = failed \cup ({cmd} \ Range(list)) /\ UNCHANGED list
        ELSE list' = (IF stops THEN list ELSE Append(list, cmd)) /\ UNCHANGED failed
     /\ UNCHANGED <<level, exec>>

\* Words are entered up to the first one that exists already; an error leaves
\* those before it entered and the command out of the list.
Register(cmd) ==
  /\ ValidName(cmd)
  /\ Enter(cmd, Entered(cmd, Len(Words(cmd))))
  /\ IF \E i \in DOMAIN Words(cmd) : Exists(cmd, i)
     THEN failed' = failed \cup ({cmd} \ Range(list)) /\ UNCHANGED list
     ELSE list' = Append(list, cmd) /\ UNCHANGED failed
  /\ UNCHANGED <<level, exec>>

---------------------------------------------------------------------------
(* Get and Execute.                                                        *)

Key(w) == ToLowerTrimSpace(TrimPrefix(w))

\* Execute takes one slash off the first field of the line and Get another.
Found(line) == Key(TrimPrefix(Field1(line)))

\* A line that is a command: what Get finds is kept, over the unlock.  The
\* context names the client, or none.
Execute(c, client, line) ==
  /\ exec[c] = <<"idle">>
  /\ line.slashes > 0
  /\ Found(line) \in DOMAIN byName
  /\ exec' = [exec EXCEPT ![c] = <<"check", byName[Found(line)], client>>]
  /\ UNCHANGED <<byName, list, failed, level>>

\* Faulty variant of checkPermission: a client without a level may do anything.
checkPermissionLax(c, need) ==
  \/ c = NoClient
  \/ need <= levelUser
  \/ c \in DOMAIN level => level[c] >= need

checkPermission(c, need) ==
  \/ c = NoClient
  \/ need <= levelUser
  \/ c \in DOMAIN level /\ level[c] >= need

Check(c) ==
  /\ exec[c][1] = "check"
  /\ exec' = [exec EXCEPT ![c] = IF checkPermission(@[3], MinLevel[@[2]])
                                 THEN <<"handler", @[2], @[3]>> ELSE <<"idle">>]
  /\ UNCHANGED <<byName, list, failed, level>>

InHandler(c, cmd) == exec[c][1] = "handler" /\ exec[c][2] = cmd

Finish(c) == exec' = [exec EXCEPT ![c] = <<"idle">>]

SetLevel(c, lv) ==
  level' = [d \in DOMAIN level \cup {c} |-> IF d = c THEN lv ELSE level[d]]

\* /auth: the client has the level it asks for.  Without a client it panics.
Auth(c, lv) ==
  /\ exec[c][3] = c
  /\ lv \in Level
  /\ SetLevel(c, lv)
  /\ Finish(c)
  /\ UNCHANGED <<byName, list, failed>>

\* A handler that changes nothing here: /help, or one that refuses its arguments.
Answer(c) ==
  /\ Finish(c)
  /\ UNCHANGED <<byName, list, failed, level>>

---------------------------------------------------------------------------
\* A word that executes a command goes on executing that command: no later
\* Register, failed half-way or not, takes it over.
WordsKeepMeaning ==
  [][\A w \in DOMAIN byName : w \in DOMAIN byName' /\ byName'[w] = byName[w]]_registryVars

\* What /help lists can be typed: the name and every alias of a listed command
\* that has no blank inside executes that command, with a slash before it, or
\* with two if it begins with slashes of its own, which Execute and Get take
\* off.  Register accepts a word with a blank inside, and lists it, but a line
\* is looked up by its first field: such a word is never found.
ListedCanBeTyped ==
  \A i \in DOMAIN list : \A j \in DOMAIN Words(list[i]) :
    LET w == Words(list[i])[j]
        line == [w EXCEPT !.slashes = IF @ = 0 THEN 1 ELSE @ + 2]
    IN ~Empty(w) =>
         IF w.rest = Nothing THEN /\ Found(line) \in DOMAIN byName
                                  /\ byName[Found(line)] = list[i]
         ELSE Found(line) # w

\* What can be typed is listed once, unless its Register returned an error and
\* left it half entered.
TypedIsListed ==
  /\ IsInjective(list)
  /\ \A w \in DOMAIN byName : byName[w] \in Range(list) \cup failed

\* What is being executed was registered before: it is listed, or its Register
\* failed half-way.  Execute keeps the command it found over the unlock.
ExecutedIsRegistered ==
  \A c \in Client : exec[c] # <<"idle">> => exec[c][2] \in Range(list) \cup failed

\* A handler runs for an administrator only while its client is one.
AdminsOnly ==
  \A c \in Client, cmd \in Command :
    InHandler(c, cmd) /\ exec[c][3] = c /\ MinLevel[cmd] = levelAdmin =>
      c \in DOMAIN level /\ level[c] = levelAdmin
============================================================================
