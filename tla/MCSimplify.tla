------------------------------ MODULE MCSimplify ------------------------------
(***************************************************************************)
(* Simplify on the automata SpecParser builds for every spec of at most    *)
(* MaxTokens tokens over an alphabet.                                      *)
(***************************************************************************)
EXTENDS Simplify

CONSTANTS MaxTokens, Alphabet

T(typ, val) == [typ |-> typ, val |-> val]

P == INSTANCE SpecParser

\* Elements of every kind of matcher, and the operators.
Elements ==
  { T("pos", "A"), T("shortOpt", "a"), T("optSeq", <<"a", "b">>),
    T("openPar", "("), T("closePar", ")"), T("openSq", "["), T("closeSq", "]"), T("choice", "|"), T("rep", "..."),
    T("dblDash", "--") }

\* Optional elements that repeat.
Optionals ==
  { T("pos", "A"), T("openSq", "["), T("closeSq", "]"), T("rep", "...") }

\* Option sets that repeat.
OptionSets ==
  { T("options", "OPTIONS"), T("optSeq", <<"a", "b">>), T("openPar", "("), T("closePar", ")"),
    T("openSq", "["), T("closeSq", "]"), T("rep", "...") }

\* The specs of n tokens whose tokens the parser accepts one after the other.
Specs ==
  LET open[n \in Nat] ==
        IF n = 0 THEN {<<>>}
        ELSE {s \in {Append(p, t) : p \in open[n - 1], t \in Alphabet} :
                LET g == P!UParse({"A"}, <<"a", "b">>, s) IN g.err = "" \/ g.pos > Len(s)}
  IN  UNION {open[n] : n \in 0 .. MaxTokens}

Automaton(s) ==
  LET g == P!UParse({"A"}, <<"a", "b">>, s) IN [spec |-> s, tr |-> g.tr, start |-> g.start, terminal |-> g.terminal]

MCBuilt == {Automaton(s) : s \in {r \in Specs : P!UParse({"A"}, <<"a", "b">>, r).err = ""}}
=============================================================================
