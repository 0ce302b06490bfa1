------------------------------ MODULE Matchers ------------------------------
(***************************************************************************)
(* What one transition of the automaton consumes of a command line         *)
(* (matchers.go).                                                          *)
(*                                                                         *)
(* A command-line argument is a record [k, v]:                             *)
(*    word   <<w>>              anything that does not start with a dash   *)
(*    dash   <<>>               -                                          *)
(*    ddash  <<>>               --                                         *)
(*    long   <<c1, .., cm>>     --c1..cm, character by character           *)
(*    short  <<c1, .., cm>>     -c1..cm, character by character            *)
(* with at least one character in a long or a short one, and no dash for   *)
(* the first of a short one.  Values have the same form; the value of a    *)
(* flag is True.                                                           *)
(***************************************************************************)
EXTENDS Automata

CONSTANTS
  ShortNames,   \* from the letters that name an option to the option
  LongNames,    \* from the long names, sequences of characters, to the option:
                \* both are optionsIdx
  Bools         \* the options whose value is a boolValued: opt.isBool

ASSUME NamesAssumption == "=" \notin DOMAIN ShortNames

\* An argument, or a value.
Argument ==
  {a \in [k : {"word", "dash", "ddash", "long", "short", "true"}, v : Seq(STRING)] :
     /\ a.k \in {"long", "short"} => a.v # <<>>
     /\ a.k \in {"dash", "ddash", "true"} => a.v = <<>>
     /\ a.k = "short" => a.v[1] # "-"}

Word(cs)   == [k |-> "word", v |-> cs]
Short(cs)  == [k |-> "short", v |-> cs]
Long(cs)   == [k |-> "long", v |-> cs]
True       == [k |-> "true", v |-> <<>>]
DashDash   == [k |-> "ddash", v |-> <<>>]
HasDash(a) == a.k # "word"

\* A matcher names its argument, its option or its options.
IsMatcher(m) ==
  /\ m.kind = "arg" => m.arg \in STRING
  /\ m.kind = "opt" => m.opt \in STRING
  /\ m.kind = "opts" => m.opts \in Seq(STRING)

\* A value bound to an argument or an option, on the way through the automaton.
Binding(key, val) == [key |-> key, val |-> val]

\* What a matcher answers: (matched?, the remaining arguments), and what it put
\* into the parse context.
Matches(rem, got) == [ok |-> TRUE, rem |-> rem, got |-> got]
NoMatch(args)     == [ok |-> FALSE, rem |-> args, got |-> <<>>]

\* removeStringAt, removeStringsBetween (two in a row), replaceStringAt
Without(args, i)       == RemoveAt(args, i)
WithoutTwo_OffByOne(args, i) == RemoveAt(args, i)
WithoutTwo(args, i)    == RemoveAt(RemoveAt(args, i), i)
Replaced(args, i, with) == ReplaceAt(args, i, with)

(***************************************************************************)
(* arg.match                                                               *)
(***************************************************************************)
MatchArg(a, args, reject) ==
  IF args = <<>> \/ (~reject /\ HasDash(args[1]) /\ args[1].k # "dash")
  THEN NoMatch(args)
  ELSE Matches(Tail(args), <<Binding(a, args[1])>>)

(***************************************************************************)
(* optMatcher looks for its option among the arguments from the first on,  *)
(* over other options and their values.  At the argument i it finds it     *)
(* (Found), goes on n arguments further (Skips), or gives up (Stops).      *)
(***************************************************************************)
Found(rem, o, val) == [found |-> TRUE, skip |-> 0, rem |-> rem, got |-> <<Binding(o, val)>>]
Skips(n)           == [found |-> FALSE, skip |-> n, rem |-> <<>>, got |-> <<>>]
Stops              == Skips(0)

\* strings.Split(arg, "="): the name of a long option, the text after the first
\* equal sign, and whether that is the only one.
EqualSign(cs) == SelectInSeq(cs, LAMBDA c : c = "=")
Name(cs)      == IF EqualSign(cs) = 0 THEN cs ELSE SubSeq(cs, 1, EqualSign(cs) - 1)
Value(cs)     == SubSeq(cs, EqualSign(cs) + 1, Len(cs))
HasValue(cs)  == EqualSign(cs) # 0 /\ EqualSign(Value(cs)) = 0

\* matchLongOpt
LongOpt(o, args, i) ==
  LET cs    == args[i].v
      known == Name(cs) \in DOMAIN LongNames
      opt   == LongNames[Name(cs)]
  IN  CASE ~known -> Stops
        [] known /\ HasValue(cs) ->
             IF opt # o THEN Skips(1) ELSE Found(Without(args, i), o, Word(Value(cs)))
        [] known /\ ~HasValue(cs) /\ opt \in Bools ->
             IF opt # o THEN Skips(1) ELSE Found(Without(args, i), o, True)
        [] OTHER ->
             CASE i = Len(args)                     -> Stops
               [] i < Len(args) /\ opt # o          -> Skips(2)
               [] i < Len(args) /\ opt = o /\ HasDash(args[i + 1]) -> Stops
               [] OTHER -> Found(WithoutTwo(args, i), o, args[i + 1])

\* A dash and what is left of a cluster without the part that was consumed: with
\* another dash in front, `-a-` without its `a` is the end of the options, and
\* `-a-b` the long option `--b`.
Folded(cs) ==
  CASE cs[1] # "-"  -> Short(cs)
    [] cs = <<"-">> -> DashDash
    [] OTHER        -> Long(Tail(cs))

LeftOf_Nothing(args, i, cs) == Without(args, i)
LeftOf(args, i, cs) == IF cs = <<>> THEN Without(args, i) ELSE Replaced(args, i, Folded(cs))

\* The first letter of a cluster at which the search for o may not go on: it is
\* o, it names no option, or its option takes a value.
Turn(o, cs) ==
  SelectInSeq(cs, LAMBDA c : IF c \in DOMAIN ShortNames
                             THEN ShortNames[c] = o \/ ShortNames[c] \notin Bools ELSE TRUE)

\* matchShortOpt, when the search turns at the letter j of a cluster.
Turned(o, args, i, j) ==
  LET cs     == args[i].v
      opt    == ShortNames[cs[j]]
      before == SubSeq(cs, 1, j - 1)
      after  == SubSeq(cs, j + 1, Len(cs))
  IN  CASE j = 0                                   -> Skips(1)
        [] j > 0 /\ cs[j] \notin DOMAIN ShortNames -> Stops
        [] j > 0 /\ cs[j] \in DOMAIN ShortNames /\ opt \in Bools ->
             Found(LeftOf(args, i, before \o after), o, True)
        [] j > 0 /\ cs[j] \in DOMAIN ShortNames /\ opt \notin Bools /\ after # <<>> ->
             IF opt # o THEN Skips(1) ELSE Found(LeftOf(args, i, before), o, Word(after))
        [] OTHER ->
             CASE i = Len(args)            -> Stops
               [] i < Len(args) /\ opt # o -> Skips(2)
               [] i < Len(args) /\ opt = o /\ HasDash(args[i + 1]) -> Stops
               [] OTHER -> Found(LeftOf(Without(args, i + 1), i, before), o, args[i + 1])

ShortOpt(o, args, i) ==
  LET cs == args[i].v
  IN  IF Len(cs) >= 2 /\ cs[2] = "="
      THEN IF cs[1] \in DOMAIN ShortNames /\ ShortNames[cs[1]] = o
           THEN IF Len(cs) = 2 THEN Stops
                ELSE Found(Without(args, i), o, Word(SubSeq(cs, 3, Len(cs))))
           ELSE Skips(1)
      ELSE Turned(o, args, i, Turn(o, cs))

Named(o, args, i) == IF args[i].k = "long" THEN LongOpt(o, args, i) ELSE ShortOpt(o, args, i)

\* The option is not there: it matches if it has a value from the environment.
Absent(o, rem, env) == IF o \in env THEN Matches(rem, <<>>) ELSE NoMatch(rem)

\* The search ends, or goes on: scan[i] is its answer from the argument i on.
GoOn(r, i, scan, absent) ==
  IF r.found THEN Matches(r.rem, r.got) ELSE IF r.skip = 0 THEN absent ELSE scan[i + r.skip]

MatchOpt_OverWords(o, args, reject, env) ==
  LET scan[i \in 1 .. Len(args) + 2] ==
        IF i > Len(args) THEN Absent(o, args, env)
        ELSE IF args[i].k \in {"dash", "word"} THEN scan[i + 1]
        ELSE IF args[i].k = "ddash" THEN Absent(o, <<>>, env)
        ELSE GoOn(Named(o, args, i), i, scan, Absent(o, args, env))
  IN  IF args = <<>> \/ reject THEN Absent(o, args, env) ELSE scan[1]

\* optMatcher.match: an option with a value from the environment (an element of
\* env, valueSetFromEnv) matches without being there.
MatchOpt(o, args, reject, env) ==
  LET scan[i \in 1 .. Len(args) + 2] ==
        IF i > Len(args) THEN Absent(o, args, env)
        ELSE IF args[i].k = "dash" THEN scan[i + 1]
        ELSE IF args[i].k = "ddash" THEN Absent(o, <<>>, env)
        ELSE IF args[i].k = "word" THEN Absent(o, args, env)
        ELSE GoOn(Named(o, args, i), i, scan, Absent(o, args, env))
  IN  IF args = <<>> \/ reject THEN Absent(o, args, env) ELSE scan[1]

(***************************************************************************)
(* optsMatcher: the first of the options that matches, again and again.    *)
(* An option with a value from the environment is tried until it matches.  *)
(***************************************************************************)

\* What is left after a number of rounds, and what they have bound.
Rounds == [ok : BOOLEAN, rem : Seq(Argument), got : Seq([key : STRING, val : Argument]), excluded : SUBSET STRING]

NoRound(args, excluded) == [ok |-> FALSE, rem |-> args, got |-> <<>>, excluded |-> excluded]

\* The first option that matches is taken, with what it answers.
FirstOf(options, answers, none, env) ==
  LET i == SelectInSeq(answers, LAMBDA a : a.ok)
  IN  IF i = 0 THEN none
      ELSE [ok |-> TRUE, rem |-> answers[i].rem, got |-> answers[i].got,
            excluded |-> none.excluded \cup ({options[i]} \cap env)]

Try(options, args, reject, env, excluded) ==
  IF args = <<>> \/ reject THEN NoRound(args, excluded)
  ELSE FirstOf(options,
               [i \in DOMAIN options |-> IF options[i] \in excluded THEN NoMatch(args)
                                         ELSE MatchOpt(options[i], args, reject, env)],
               NoRound(args, excluded), env)

\* One more round, unless none of the options matches.
Again(r, next, more) == IF next.ok THEN more[[next EXCEPT !.got = r.got \o @]] ELSE r

AnyRound(r, args) == IF r.ok THEN Matches(r.rem, r.got) ELSE NoMatch(args)

MatchOpts_Once(options, args, reject, env) ==
  AnyRound(Try(options, args, reject, env, {}), args)

MatchOpts_NotFromEnvironment(options, args, reject, env) ==
  LET more[r \in Rounds] == Again(r, Try(options, r.rem, reject, env, r.excluded), more)
  IN  AnyRound(more[NoRound(args, env)], args)

MatchOpts(options, args, reject, env) ==
  LET more[r \in Rounds] == Again(r, Try(options, r.rem, reject, env, r.excluded), more)
  IN  AnyRound(more[NoRound(args, {})], args)

(***************************************************************************)
(* upMatcher.match for every kind of matcher, and the new rejectOptions.   *)
(***************************************************************************)
Match(m, args, reject, env) ==
  CASE m.kind = "arg"  -> MatchArg(m.arg, args, reject)
    [] m.kind = "opt"  -> MatchOpt(m.opt, args, reject, env)
    [] m.kind = "opts" -> MatchOpts(m.opts, args, reject, env)
    [] OTHER           -> Matches(args, <<>>)

RejectAfter(m, reject) == reject \/ m.kind = "optsEnd"
=============================================================================
