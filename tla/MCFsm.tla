-------------------------------- MODULE MCFsm --------------------------------
(***************************************************************************)
(* Fsm on the automata of a list of specs, for all the command lines of at *)
(* most MaxArgs arguments out of a set.  The options: -a and -b are flags, *)
(* -e (or --ee) takes a value.                                             *)
(***************************************************************************)
EXTENDS Fsm

CONSTANTS
  Specs, SpecsWithEnv, Arguments, MaxArgs,   \* some specs, for lines of many arguments
  OtherSpecs, FewArguments, MaxFewArgs, MaxTokens   \* many specs, for short lines

MCShortNames == ("a" :> "a") @@ ("b" :> "b") @@ ("e" :> "e")
MCLongNames  == (<<"e", "e">> :> "e")
MCBools      == {"a", "b"}

P == INSTANCE SpecParser
Parse1(spec) == P!UParse({"A", "B"}, <<"a", "b", "e">>, spec)

T(typ, val) == [typ |-> typ, val |-> val]

\* The tokens of a spec.
A      == T("pos", "A")
B      == T("pos", "B")
a      == T("shortOpt", "a")
b      == T("shortOpt", "b")
e      == T("shortOpt", "e")
ab     == T("optSeq", <<"a", "b">>)
OPTIONS == T("options", "OPTIONS")
Open   == T("openPar", "(")
Close  == T("closePar", ")")
OpenSq == T("openSq", "[")
CloseSq == T("closeSq", "]")
Or     == T("choice", "|")
Rep    == T("rep", "...")
DD     == T("dblDash", "--")

\* A spec with its option groups written out: ((-a | -b)...) for -ab.
Repeated(os) ==
  <<Open, Open>> \o FlattenSeq([i \in DOMAIN os |-> (IF i = 1 THEN <<>> ELSE <<Or>>) \o <<T("shortOpt", os[i])>>])
  \o <<Close, Rep, Close>>
WrittenOut(spec) ==
  FlattenSeq([i \in DOMAIN spec |->
    CASE spec[i] = OPTIONS -> Repeated(<<"a", "b", "e">>)
      [] spec[i].typ = "optSeq" -> Repeated(spec[i].val)
      [] OTHER -> <<spec[i]>>])

Automaton(spec, fromEnv) ==
  LET g     == Parse1(spec)
      means == Direct(g)
      long  == IF WrittenOut(spec) = spec THEN means ELSE Direct(Parse1(WrittenOut(spec)))
  IN  [spec |-> spec, env |-> fromEnv, tr |-> g.tr, start |-> g.start, terminal |-> g.terminal,
       means |-> means, long |-> long]

\* The options of Specs and OtherSpecs have no value from the environment, -e has one
\* in SpecsWithEnv.
MCBuilt == {Automaton(spec, {}) : spec \in Specs \cup OtherSpecs} \cup {Automaton(spec, {"e"}) : spec \in SpecsWithEnv}

MCLines(g) ==
  IF g.spec \in Specs \cup SpecsWithEnv THEN UNION {[1 .. n -> Arguments] : n \in 0 .. MaxArgs}
  ELSE UNION {[1 .. n -> FewArguments] : n \in 0 .. MaxFewArgs}

\* Specs of README "Specs", and some where one line has several readings.
UsualSpecs ==
  { <<OpenSq, OPTIONS, CloseSq, A>>,                           \* [OPTIONS] A
    <<A, Rep, B>>,                                             \* A... B
    <<a, e, A, b, B>>,                                         \* -a -e A -b B
    <<OpenSq, a, Or, e, CloseSq, Rep, A>>,                     \* [-a | -e]... A
    <<Open, e, A, Close, Rep, Or, Open, a, Or, b, Close>>,     \* (-e A)... | (-a | -b)
    <<OpenSq, ab, CloseSq, OpenSq, e, CloseSq, A, Rep>>,       \* [-ab] [-e] A...
    <<a, Or, A, Rep>>,                                         \* -a | A...
    <<OpenSq, a, CloseSq, OpenSq, A, CloseSq, OpenSq, e, CloseSq, OpenSq, B, CloseSq>>, \* [-a] [A] [-e] [B]
    <<OpenSq, a, OpenSq, e, CloseSq, CloseSq, A>>,             \* [-a [-e]] A
    <<OpenSq, A, Rep, CloseSq, e>>,                            \* [A...] -e
    <<Open, a, b, A, Close, Or, Open, b, a, B, Close>> }       \* (-a -b A) | (-b -a B)

\* Specs that end the options themselves.
OptsEndSpecs ==
  { <<DD, A, Rep>>,                                            \* -- A...
    <<OpenSq, a, CloseSq, OpenSq, DD, A, OpenSq, B, Rep, CloseSq, CloseSq>>,   \* [-a] [-- A [B...]]
    <<OpenSq, ab, CloseSq, DD, A, Rep>>,                       \* [-ab] -- A...
    <<a, Or, Open, DD, A, Rep, Close>>,                        \* -a | (-- A...)
    <<OpenSq, e, CloseSq, A, DD, B>> }                         \* [-e] A -- B

\* Specs with option groups.
GroupSpecs ==
  { <<ab, Or, e, A>>,                                          \* -ab | -e A
    <<OpenSq, ab, CloseSq, a, A>>,                             \* [-ab] -a A
    <<Open, ab, Or, A, Close, Rep>>,                           \* (-ab | A)...
    <<OPTIONS, OpenSq, A, Rep, CloseSq>> }                     \* OPTIONS [A...]

ManySpecs == UsualSpecs \cup OptsEndSpecs \cup GroupSpecs

\* Specs where -e is not repeated, to have its value from the environment.
EnvSpecs ==
  { <<OpenSq, OPTIONS, CloseSq, A>>,                           \* [OPTIONS] A
    <<e, OpenSq, A, CloseSq>>,                                 \* -e [A]
    <<a, e, A, b, B>>,                                         \* -a -e A -b B
    <<OpenSq, e, CloseSq, A, Rep>>,                            \* [-e] A...
    <<OpenSq, a, CloseSq, OpenSq, e, CloseSq, OpenSq, A, CloseSq>>,   \* [-a] [-e] [A]
    <<e, Or, A, Rep>>,                                         \* -e | A...
    <<Open, e, A, Close, Rep>> }                               \* (-e A)...

\* Every spec of at most MaxTokens tokens of these that the parser accepts.
AllSpecs ==
  LET open[n \in Nat] ==
        IF n = 0 THEN {<<>>}
        ELSE {q \in {Append(p, t) : p \in open[n - 1], t \in {A, a, e, OpenSq, CloseSq, Or, Rep}} :
                LET g == Parse1(q) IN g.err = "" \/ g.pos > Len(q)}
  IN  {q \in UNION {open[n] : n \in 0 .. MaxTokens} : Parse1(q).err = ""}

w(x)  == Word(<<x>>)
s(cs) == Short(cs)

UsualArguments ==
  { w("x"), w("y"), DashDash, s(<<"a">>), s(<<"e">>), s(<<"a", "b">>), s(<<"a", "e">>),
    s(<<"e", "x">>), s(<<"e", "=", "x">>), Long(<<"e", "e", "=", "x">>), Long(<<"e", "e">>) }

MCFewArguments == {w("x"), DashDash, s(<<"a">>), s(<<"e">>), s(<<"a", "e">>)}

\* A dash alone, and a dash inside a cluster: -a-ee.
Dash    == [k |-> "dash", v |-> <<>>]
AllArguments == UsualArguments \cup {Dash, s(<<"a", "-", "e", "e">>)}

NoSpecs == {}

\* One spec and a few arguments for each disagreement with the documentation.
RepeatedOption == {<<e, Rep>>}                                  \* -e...
OneArgument    == {w("x")}

ThreeOptionals == {<<OpenSq, a, CloseSq, OpenSq, e, CloseSq, OpenSq, A, CloseSq>>}   \* [-a] [-e] [A]
AfterTheEnd    == {w("x"), DashDash, s(<<"a">>)}
=============================================================================
