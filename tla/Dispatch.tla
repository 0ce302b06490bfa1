------------------------------- MODULE Dispatch -------------------------------
(***************************************************************************)
(* The Runs of an application: how Cli.Run, Cli.parse and Cmd.parse take a *)
(* command line apart, command by command, and how a Run ends.  What       *)
(* state.parse answers (modules Fsm and Values) are the constants Accepts  *)
(* and Clears; entry.run is the module Interceptors, which Flow            *)
(* implements; the rest of doInit is the module DoInit.                    *)
(***************************************************************************)
EXTENDS Integers, Sequences, SequencesExt

CONSTANTS
  App,        \* the command of the application
  Subs,       \* for each command, its sub commands in the order of declaration
  Aliases,    \* for each sub command, the words that call it
  Accepts(_, _, _),   \* do the spec and the values of a command, some of whose options
                      \* have a value from the environment, accept these arguments?
  Clears(_, _, _),    \* the sets of options whose valueSetFromEnv is then cleared: the
                      \* slices that were given, or some of them if a value was refused
  Actions,    \* the commands with an Action
  Broken,     \* the commands whose spec does not parse
  Version,    \* the options of App that ask for the version
  Help,       \* -h and --help
  Settings,   \* the ErrorHandling that initializers may set, for each command: a
              \* policy or Unset, before and after they declare their sub commands
  Environments,   \* the options with a value from the environment, for each command
  Texts,      \* the arguments of command lines
  Lines,      \* the command lines
  Exits, Panics, Nil,   \* as in Flow
  MaxDepth,             \* bound: the longest path of commands
  MaxRuns               \* bound: the Runs of one line

Commands == DOMAIN Subs
Policies == {"exit", "panic", "continue"}
Unset    == "unset"

ASSUME TreeAssumption ==
  /\ App \in Commands /\ Actions \subseteq Commands
  /\ Broken \subseteq Commands \ {App}   \* else Run panics before it reads the line
  /\ Subs \in [Commands -> Seq(Commands)]
  /\ \A c \in Commands : App \notin ToSet(Subs[c]) /\ c \notin ToSet(Subs[c])
  /\ \A c, d \in Commands : c # d => ToSet(Subs[c]) \cap ToSet(Subs[d]) = {}

\* Sub commands, each one of the one before.
IsPath(p) == p # <<>> /\ p[1] = App /\ \A i \in 1 .. Len(p) - 1 : p[i + 1] \in ToSet(Subs[p[i]])

ASSUME DepthAssumption ==
  MaxDepth \in Nat \ {0} /\ \A p \in SeqOf(Commands, MaxDepth + 1) : IsPath(p) => Len(p) <= MaxDepth /\ IsInjective(p)
ASSUME SettingsAssumption ==
  \A h \in Settings : h \in [Commands -> [before : Policies \cup {Unset}, after : Policies \cup {Unset}]]

ASSUME EnvironmentsAssumption == \A e \in Environments : DOMAIN e = Commands

ASSUME LinesAssumption == Lines \subseteq Seq(Texts)
ASSUME ErrorsAssumption ==   \* an Exit(0) of a hook would say what a success says
  /\ Nil \notin Exits \cup Panics \cup {"wrong", "illegal"}
  /\ 0 \notin Exits

VARIABLES
  sets,       \* what the initializers set
  handlings,  \* the ErrorHandling of each command: of all the copies of it that its
              \* parent has declared, Run after Run
  environment,   \* the options whose variables the environment sets
  fromEnv,    \* for each command, those whose valueSetFromEnv is up: of the options last
              \* declared, and of those its initializer declared in earlier Runs
  line,       \* the command line, without the name of the program
  runs,       \* the number of the Run
  found,      \* fromEnv as this Run found it
  earlier,    \* how the Runs before ended: their path, message and ending
  at,         \* where Run stands: see Places
  path,       \* the commands whose parse was called, App first
  args,       \* the arguments of the last of them
  message,    \* what was printed: a message, or "" while there is none
  ending,     \* how Run ends: <<how, with what>>
  open, phase, err   \* of Interceptors

given   == <<sets, environment, line, runs, found, earlier>>
parsing == <<given, handlings, path, args, message>>
flow    == <<open, phase, err>>
vars    == <<parsing, fromEnv, at, ending, flow>>

Places   == {"app", "command", "next", "flow", "over"}
Messages == {"", "version", "help", "wrong", "illegal", "noaction"}

\* The steps linked by the commands on the path.
I == INSTANCE Interceptors WITH
  Errors <- Exits \cup Panics, depth <- Len(path)

Cmd == Last(path)

\* What an initializer leaves behind in h when it sets the policies p of the command
\* c: Cmd.Command copies the ErrorHandling of the moment.
Or(p, q) == IF p = Unset THEN q ELSE p

Initialized_TooLate(h, c, p) ==
  LET own == Or(p.after, Or(p.before, h[c][1]))
  IN  [d \in Commands |-> IF d = c THEN [h[c] EXCEPT ![1] = own]
                          ELSE IF d \in ToSet(Subs[c]) THEN Append(h[d], own) ELSE h[d]]

Initialized(h, c, p) ==
  [d \in Commands |-> IF d = c THEN [h[c] EXCEPT ![1] = Or(p.after, Or(p.before, @))]
                      ELSE IF d \in ToSet(Subs[c]) THEN Append(h[d], Or(p.before, h[c][1]))
                      ELSE h[d]]

\* The options that an initializer declares get their values from the environment,
\* and hide those of the same names that it declared in a Run before.
Declared(f, c) == [f EXCEPT ![c] = [last |-> environment[c], before |-> @.last \cup @.before]]

\* The loop over c.commands comes to the first copy first.
Handling_Newest(c) == Last(handlings[c])
Handling(c) == handlings[c][1]

\* App: the default, and what the program sets as it declares its commands.
Init ==
  /\ sets \in Settings /\ line \in Lines
  /\ handlings = Initialized([c \in Commands |-> IF c = App THEN <<"exit">> ELSE <<>>], App, sets[App])
  /\ environment \in Environments
  /\ fromEnv = [c \in Commands |-> [last |-> IF c = App THEN environment[App] ELSE {}, before |-> {}]]
  /\ runs = 1 /\ found = fromEnv /\ earlier = <<>>
  /\ at = "app" /\ path = <<App>> /\ args = line
  /\ message = "" /\ ending = <<"none", Nil>>
  /\ open = 0 /\ phase = "down" /\ err = Nil

\* onError: how Run ends when the exiter is os.Exit.
Requests == {"help", "version"}

OnError(c, msg) ==
  LET e == IF msg = "noaction" THEN Nil ELSE msg
  IN  CASE Handling(c) = "exit" -> <<"exited", IF msg \in Requests THEN 0 ELSE 2>>
        [] Handling(c) # "exit" /\ msg \in Requests    -> <<"returned", Nil>>
        [] Handling(c) = "panic" /\ msg \notin Requests -> <<"panicked", e>>
        [] OTHER                                        -> <<"returned", e>>

\* A message, then onError of the command, then parse returns.
Refuse(msg) ==
  /\ message' = msg
  /\ ending' = OnError(Cmd, msg)
  /\ at' = "over"
  /\ UNCHANGED <<given, handlings, path, args, flow>>

\* isFlagSet: only the first argument counts.
Asks(names) == args # <<>> /\ args[1] \in names

\* Cli.parse
AskVersion == at = "app" /\ Asks(Version) /\ Refuse("version") /\ UNCHANGED fromEnv

ParseApp ==
  /\ at = "app" /\ ~Asks(Version)
  /\ at' = "command"
  /\ UNCHANGED <<parsing, fromEnv, ending, flow>>

\* Cmd.parse
AskHelp_GoesOn ==
  /\ at = "command" /\ Asks(Help)
  /\ message' = "help" /\ at' = "next"
  /\ UNCHANGED <<given, handlings, fromEnv, path, args, ending, flow>>

AskHelp == at = "command" /\ Asks(Help) /\ Refuse("help") /\ UNCHANGED fromEnv

\* getOptsAndArgs: the arguments before the first that calls a sub command.
CallsSub(c, word) == \E i \in DOMAIN Subs[c] : word \in Aliases[Subs[c][i]]

GetOptsAndArgs_Last(c, as) ==
  LET i == SelectLastInSeq(as, LAMBDA w : CallsSub(c, w))
  IN  IF i = 0 THEN Len(as) ELSE i - 1

GetOptsAndArgs(c, as) ==
  LET i == SelectInSeq(as, LAMBDA w : CallsSub(c, w))
  IN  IF i = 0 THEN Len(as) ELSE i - 1

Own == SubSeq(args, 1, GetOptsAndArgs(Cmd, args))

\* state.parse: does it answer nil, and what it leaves in valueSetFromEnv.
Accepted == Accepts(Cmd, fromEnv[Cmd], Own)
Cleared ==
  \E os \in Clears(Cmd, fromEnv[Cmd], Own) : fromEnv' = [fromEnv EXCEPT ![Cmd].last = @ \ os]

Wrong == at = "command" /\ ~Asks(Help) /\ ~Accepted /\ Cleared /\ Refuse("wrong")

Right ==
  /\ at = "command" /\ ~Asks(Help) /\ Accepted /\ Cleared
  /\ at' = "next"
  /\ args' = SubSeq(args, Len(Own) + 1, Len(args))
  /\ UNCHANGED <<given, handlings, path, message, ending, flow>>

NoAction_OfLeaves == at = "next" /\ args = <<>> /\ Cmd \notin Actions /\ Subs[Cmd] = <<>> /\ Refuse("noaction") /\ UNCHANGED fromEnv
NoAction == at = "next" /\ args = <<>> /\ Cmd \notin Actions /\ Refuse("noaction") /\ UNCHANGED fromEnv

RunFlow_Early ==
  /\ at = "next" /\ Cmd \in Actions
  /\ at' = "flow"
  /\ UNCHANGED <<parsing, fromEnv, ending, flow>>

RunFlow ==
  /\ at = "next" /\ args = <<>> /\ Cmd \in Actions
  /\ at' = "flow"
  /\ UNCHANGED <<parsing, fromEnv, ending, flow>>

Descend_ForgetsTheWay ==
  /\ at = "next" /\ args # <<>>
  /\ \E i \in DOMAIN Subs[Cmd] : args[1] \in Aliases[Subs[Cmd][i]] /\ path' = <<Subs[Cmd][i]>>
  /\ args' = Tail(args)
  /\ at' = "command"
  /\ UNCHANGED <<given, handlings, fromEnv, message, ending, flow>>

\* The sub command of c that a word calls: the first one declared.
CalledBy(c, word) == SelectInSeq(Subs[c], LAMBDA sub : word \in Aliases[sub])
Called == CalledBy(Cmd, args[1])

Descend ==
  /\ at = "next" /\ args # <<>>
  /\ \/ Called = 0 /\ Refuse("illegal") /\ UNCHANGED fromEnv
     \/ /\ Called # 0 /\ Subs[Cmd][Called] \notin Broken
        /\ path' = Append(path, Subs[Cmd][Called])
        /\ args' = Tail(args)
        /\ at' = "command"
        /\ handlings' = Initialized(handlings, Subs[Cmd][Called], sets[Subs[Cmd][Called]])
        /\ fromEnv' = Declared(fromEnv, Subs[Cmd][Called])
        /\ UNCHANGED <<given, message, ending, flow>>

\* doInit of the sub command panics, whatever its ErrorHandling.
SpecPanics ==
  /\ at = "next" /\ args # <<>> /\ Called # 0 /\ Subs[Cmd][Called] \in Broken
  /\ ending' = <<"panicked", "spec">> /\ at' = "over"
  /\ handlings' = Initialized(handlings, Subs[Cmd][Called], sets[Subs[Cmd][Called]])
  /\ fromEnv' = Declared(fromEnv, Subs[Cmd][Called])
  /\ UNCHANGED <<given, path, args, message, flow>>

\* The hooks run, and the last error leaves Run as RootOut lets it.
Hooks ==
  /\ at = "flow" /\ phase # "done"
  /\ UNCHANGED <<parsing, fromEnv, at, ending>>
  /\ I!Next

Return_FallsThrough == at = "flow" /\ phase = "done" /\ Refuse("noaction") /\ UNCHANGED fromEnv

Return ==
  /\ at = "flow" /\ phase = "done"
  /\ at' = "over"
  /\ ending' = IF err \in Exits THEN <<"exited", err>>
               ELSE IF err \in Panics THEN <<"panicked", err>> ELSE <<"returned", Nil>>
  /\ UNCHANGED <<parsing, fromEnv, flow>>

\* Unless the process ended, the program may call Run again, here for the same line.
RunAgain ==
  /\ at = "over" /\ ending[1] # "exited" /\ runs < MaxRuns
  /\ runs' = runs + 1 /\ found' = fromEnv
  /\ earlier' = Append(earlier, [path |-> path, message |-> message, ending |-> ending])
  /\ at' = "app" /\ path' = <<App>> /\ args' = line
  /\ message' = "" /\ ending' = <<"none", Nil>>
  /\ open' = 0 /\ phase' = "down" /\ err' = Nil
  /\ UNCHANGED <<sets, environment, handlings, fromEnv, line>>

Terminated == at = "over" /\ UNCHANGED vars

Step ==
  \/ AskVersion \/ ParseApp
  \/ AskHelp \/ Wrong \/ Right
  \/ NoAction \/ RunFlow
  \/ Descend \/ SpecPanics
  \/ Hooks \/ Return

Next == Step \/ RunAgain \/ Terminated

Spec == Init /\ [][Next]_vars /\ WF_vars(Step)

(***************************************************************************)
(* Properties.                                                             *)
(***************************************************************************)

\* Every variable has the type of what it stands for.
TypeOK ==
  /\ at \in Places /\ message \in Messages
  /\ path \in SeqOf(Commands, MaxDepth) /\ path[1] = App
  /\ \A i \in 1 .. Len(path) - 1 : path[i + 1] \in ToSet(Subs[path[i]])
  /\ IsSuffix(args, line)
  /\ open \in 0 .. Len(path) /\ phase \in {"down", "up", "done"}
  /\ err \in Exits \cup Panics \cup {Nil}

\* The options with a value from the environment when a command's spec is asked in
\* this Run: a command is asked once, after its initializer ran if it has one.
Finds(c) == IF c = App THEN found[c] ELSE Declared(found, c)[c]

\* A reading of the line: it calls the commands of the path p, one behind the other,
\* and each accepts its arguments, up to the next call.  from[i] is where those of
\* p[i] start.  In a plain reading every argument that calls a sub command stands for
\* the call of it, of the first declared if there are more.
Paths == {p \in SeqOf(Commands, MaxDepth) : IsPath(p)}

Part(p, from, i) == SubSeq(line, from[i], IF i = Len(p) THEN Len(line) ELSE from[i + 1] - 2)

IsReading(p, from) ==
  /\ from[1] = 1
  /\ \A i \in 1 .. Len(p) - 1 : from[i] < from[i + 1] /\ line[from[i + 1] - 1] \in Aliases[p[i + 1]]
  /\ \A i \in 1 .. Len(p) : Accepts(p[i], Finds(p[i]), Part(p, from, i))

IsPlain(p, from) ==
  /\ \A i \in 1 .. Len(p) - 1 : p[i + 1] = Subs[p[i]][CalledBy(p[i], line[from[i + 1] - 1])]
  /\ \A i \in 1 .. Len(p) : \A k \in DOMAIN Part(p, from, i) : ~CallsSub(p[i], Part(p, from, i)[k])

Cuts(p) == [1 .. Len(p) -> 1 .. Len(line) + 1]

\* Hooks run only for a line that was read to its end, with the commands it calls,
\* and each of these accepts its part (README, "Commands").
HooksNeedAWholeLine ==
  at = "flow" => IsPath(path) /\ \E from \in Cuts(path) : IsReading(path, from)

\* A line that calls its commands in the plain way is not refused, and it is always
\* the spec of a command that refuses: the branches "illegal option" and "illegal
\* input" of Cmd.parse are never taken, as every argument that calls no sub command
\* is cut off for the spec.
PlainLinesAreRead ==
  /\ message = "wrong" => \A p \in Paths : ~\E from \in Cuts(p) : IsReading(p, from) /\ IsPlain(p, from)
  /\ message # "illegal"

\* The ErrorHandling in force at the last command of a path: what its initializer has
\* set behind its sub commands, or else the last that was set on the way before sub
\* commands were declared.
InForce(p) ==
  LET i == SelectLastInSeq(p, LAMBDA c : sets[c].before # Unset)
  IN  Or(sets[Last(p)].after, IF i = 0 THEN "exit" ELSE sets[p[i]].before)

\* A failure ends as the ErrorHandling in force says, in every Run, and Run ends in
\* silence (it returns nil, or the exit status is that of a success) only if the
\* action ran without an error, or help or the version was asked for, or there is no
\* action and the application goes on after errors (ErrorHandling in commands.go).
FailuresEndAsSet ==
  /\ message \in {"wrong", "noaction"} =>
       ending[1] = [exit |-> "exited", panic |-> "panicked", continue |-> "returned"][InForce(path)]
  /\ ending \in {<<"returned", Nil>>, <<"exited", 0>>} =>
       \/ phase = "done" /\ err = Nil
       \/ message \in Requests
       \/ message = "noaction" /\ InForce(path) = "continue"

\* There is one answer to a line: once something was printed the Run is over and no
\* hook runs any more, and once a hook ran nothing is printed and no other command
\* is asked.
HooksRan == open # 0 \/ phase # "down"
OneAnswer ==
  [][~RunAgain => /\ message # "" => UNCHANGED <<message, ending, flow>>
                  /\ HooksRan => UNCHANGED <<message, path, args>>]_vars

\* A second Run of a line calls the same commands, prints the same and, unless the
\* hooks decide, ends in the same way, though the commands on the way have declared
\* their options and sub commands once more, with the ErrorHandling they have by now.
\* Not so if one of them has options from the environment: see README.
SameAnswerAgain ==
  at = "over" /\ (\A k \in DOMAIN path : environment[path[k]] = {}) => \A i \in DOMAIN earlier :
    /\ earlier[i].path = path /\ earlier[i].message = message
    /\ phase # "done" => earlier[i].ending = ending

\* Every Run ends.
Ends == at # "over" ~> at = "over"
=============================================================================
