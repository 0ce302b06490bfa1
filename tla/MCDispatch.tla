------------------------------ MODULE MCDispatch ------------------------------
(***************************************************************************)
(* An application app with the commands start (or s) and job, and the sub  *)
(* commands list (or s) and rm of job.  job has no action, the spec of rm  *)
(* does not parse.  s calls commands of different levels, and of app the   *)
(* first of two that answer to it.  -ex gives app and start an option e.    *)
(***************************************************************************)
EXTENDS Dispatch, TLC

CONSTANTS MaxLine, exit1, panic1

MCSubs    == ("app" :> <<"start", "job">>) @@ ("start" :> <<>>) @@ ("job" :> <<"list", "rm">>)
             @@ ("list" :> <<>>) @@ ("rm" :> <<>>)
MCAliases == ("start" :> {"start", "s"}) @@ ("job" :> {"job", "s"}) @@ ("list" :> {"list", "s"}) @@ ("rm" :> {"rm"})

MCWords == {"x", "s", "job", "rm", "-ex", "-v", "-h", "--"}

MCLines == SeqOf(MCWords, MaxLine)

\* Between lo and hi arguments, the last of them after a `--` if there is one.
Fits(as, lo, hi) ==
  LET d == SelectInSeq(as, LAMBDA t : t = "--")
  IN  IF d = 0 THEN Len(as) \in lo .. hi /\ ToSet(as) \subseteq {"x", "s", "job", "rm"}
      ELSE /\ Len(as) - 1 \in lo .. hi /\ d < Len(as)
           /\ ToSet(SubSeq(as, 1, d - 1)) \subseteq {"x", "s", "job", "rm"}

\* What is left of a line behind its first -ex.
Behind(as) ==
  LET i == SelectInSeq(as, LAMBDA t : t # "-ex") IN IF i = 0 THEN <<>> ELSE SubSeq(as, i, Len(as))

\* [-e -e] [X] for app, where e is a slice, [OPTIONS] X... for start, where it is not,
\* [X] for job and X [Y] for list.  With a value from the environment -e may be left
\* out, is taken once by [OPTIONS], and the `--` of a line may stand in its place.
\* An option that start declared before, which has such a value, drops what follows
\* a `--` that it finds behind other options.
Read(c, env, n, rest) ==
  CASE c = "app"   -> IF env.last = {} THEN n \in {0, 2} /\ Fits(rest, 0, 1)
                      ELSE (n <= 2 /\ Fits(rest, 0, 1)) \/ (n <= 1 /\ rest = <<"--">>)
    [] c = "start" -> /\ Fits(rest, 1, MaxLine)
                      /\ env.last = {} \/ n <= 1
                      /\ env.before = {} \/ n = 0 \/ rest[1] # "--"
    [] c = "job"   -> n = 0 /\ Fits(rest, 0, 1)
    [] c = "list"  -> n = 0 /\ Fits(rest, 1, 2)
    [] c = "rm"    -> n = 0 /\ rest = <<>>

\* The arguments are computed once, also where TLC asks what is ENABLED.
MCAccepts(c, env, words) == \E as \in {words} : \E rest \in {Behind(as)} : Read(c, env, Len(as) - Len(rest), rest)

MCClears(c, env, words) ==
  {IF c = "app" /\ as # <<>> /\ as[1] = "-ex" /\ MCAccepts(c, env, as) THEN {"e"} ELSE {} : as \in {words}}

MCEnvironments == {[c \in Commands |-> {}], [c \in Commands |-> IF c \in {"app", "start"} THEN {"e"} ELSE {}]}

Sets(c, before, after, d, b, a) ==
  [x \in Commands |-> IF x = c THEN [before |-> before, after |-> after]
                      ELSE IF x = d THEN [before |-> b, after |-> a] ELSE [before |-> Unset, after |-> Unset]]

\* The default for all; another one for all; one for app after its commands were
\* declared with the default; and job sets its own, for its commands and then for
\* itself.
MCSettings ==
  { Sets("app", Unset, Unset, "job", Unset, Unset),
    Sets("app", "continue", Unset, "job", Unset, Unset),
    Sets("app", Unset, "panic", "job", "continue", "panic"),
    Sets("app", "panic", "continue", "job", Unset, "continue") }
=============================================================================
