----------------------------- MODULE SpecGrammar ----------------------------
(***************************************************************************)
(* The reference for SpecParser: the grammar of the README ("Grammar"),    *)
(* read as a relation between spans of tokens and the sets of matcher      *)
(* sequences they stand for, with no automaton and no parsing position.    *)
(***************************************************************************)
EXTENDS SpecParser

Concat(U, V, W) == {uv \in {u \o v : u \in U, v \in V} : Len(uv) <= W}

\* One or more words of U in a row, up to length W.
Repeated(U, W) ==
  LET upTo[n \in Nat] == IF n <= 1 THEN U ELSE U \cup Concat(upTo[n - 1], U, W)
  IN  upTo[W]

Symbols == {"spec", "sequence", "choice", "atom", "item"}
Spans(s) == Symbols \X (1 .. Len(s) + 1) \X (1 .. Len(s) + 1)

\* Do the tokens i .. j - 1 of the spec s derive from the symbol k?  d is the answer for
\* the parts of them and for the symbols below k.
Rule(s, k, i, j, d) ==
  CASE k = "spec"     -> i = j \/ d[<<"sequence", i, j>>]
    [] k = "sequence" -> d[<<"choice", i, j>>] \/ \E m \in i + 1 .. j - 1 : d[<<"choice", i, m>>] /\ d[<<"sequence", m, j>>]
    [] k = "choice"   -> \/ d[<<"atom", i, j>>]
                         \/ \E m \in i + 1 .. j - 2 : s[m].typ = "choice" /\ d[<<"atom", i, m>>] /\ d[<<"choice", m + 1, j>>]
    [] k = "atom"     -> \/ j = i + 1 /\ s[i].typ = "dblDash"
                         \/ d[<<"item", i, j>>]
                         \/ j > i + 1 /\ s[j - 1].typ = "rep" /\ d[<<"item", i, j - 1>>]
    [] k = "item"     -> \/ j = i + 1 /\ s[i].typ \in {"pos", "options", "shortOpt", "longOpt", "optSeq"}
                         \/ /\ j = i + 2 /\ s[i].typ \in {"shortOpt", "longOpt"}
                            /\ s[i + 1].typ = "optValue"
                         \/ /\ j > i + 2
                            /\ <<s[i].typ, s[j - 1].typ>> \in {<<"openPar", "closePar">>, <<"openSq", "closeSq">>}
                            /\ d[<<"sequence", i + 1, j - 1>>]

Derivations(s) ==
  LET derives[x \in Spans(s)] == Rule(s, x[1], x[2], x[3], derives) IN derives

Derives(s, k, i, j) == Derivations(s)[<<k, i, j>>]

\* The words of at most W matchers the tokens i .. j - 1 stand for.
Meaning(options, s, W, k, i, j, means) ==
  CASE k = "spec"     -> IF i = j THEN {<<>>} ELSE means[<<"sequence", i, j>>]
    [] k = "sequence" -> means[<<"choice", i, j>>] \cup
                         UNION {Concat(means[<<"choice", i, m>>], means[<<"sequence", m, j>>], W) : m \in i + 1 .. j - 1}
    [] k = "choice"   -> means[<<"atom", i, j>>] \cup
                         UNION {means[<<"atom", i, m>>] \cup means[<<"choice", m + 1, j>>]
                                : m \in {n \in i + 1 .. j - 2 : s[n].typ = "choice" /\ Derives(s, "atom", i, n)
                                                                /\ Derives(s, "choice", n + 1, j)}}
    [] k = "atom"     -> IF s[i].typ = "dblDash" THEN {<<OptsEnd>>}
                         ELSE IF s[j - 1].typ = "rep" THEN Repeated(means[<<"item", i, j - 1>>], W)
                         ELSE means[<<"item", i, j>>]
    [] k = "item"     ->
         CASE s[i].typ = "pos"     -> {<<ArgMatcher(s[i].val)>>}
           [] s[i].typ = "options" -> {<<OptsMatcher(options, i)>>}
           [] s[i].typ = "optSeq"  -> {<<OptsMatcher(s[i].val, i)>>}
           [] s[i].typ = "openPar" -> means[<<"sequence", i + 1, j - 1>>]
           [] s[i].typ = "openSq"  -> {<<>>} \cup means[<<"sequence", i + 1, j - 1>>]
           [] OTHER                -> {<<OptMatcher(s[i].val, i)>>}

Means(options, s, W, k, i, j) ==
  LET meant[x \in Spans(s)] ==
        IF Derives(s, x[1], x[2], x[3]) THEN Meaning(options, s, W, x[1], x[2], x[3], meant) ELSE {}
  IN  meant[<<k, i, j>>]

Known(args, options, t) ==
  /\ t.typ = "pos"                      => t.val \in args
  /\ t.typ \in {"shortOpt", "longOpt"} => t.val \in ToSet(options)
  /\ t.typ = "optSeq"                   => ToSet(t.val) \subseteq ToSet(options)

NamesDeclared(args, options, s) == \A i \in DOMAIN s : Known(args, options, s[i])

\* "placing a `--` in the spec string": no option may follow one.
NoOptionsAfterDashes(s) ==
  \A i, j \in DOMAIN s : s[i].typ = "dblDash" /\ i < j => s[j].typ \notin OptTypes

Valid(args, options, s) ==
  Derives(s, "spec", 1, Len(s) + 1) /\ NamesDeclared(args, options, s) /\ NoOptionsAfterDashes(s)

\* The brackets that close what the first n tokens of the spec s leave open, innermost first.
Closer(t) ==
  IF t.typ = "openPar" THEN [typ |-> "closePar", val |-> ")"] ELSE [typ |-> "closeSq", val |-> "]"]

OpenBehind(o, t) ==
  CASE t.typ \in {"openPar", "openSq"}   -> <<Closer(t)>> \o o
    [] t.typ \in {"closePar", "closeSq"} -> IF o = <<>> THEN o ELSE Tail(o)
    [] OTHER                             -> o

Pending(s) ==
  LET open[n \in Nat] == IF n = 0 THEN <<>> ELSE OpenBehind(open[n - 1], s[n]) IN open

\* A spec can go on when a `--`, where an element is missing, and the closing brackets
\* complete it.
Fillers == {<<>>, <<[typ |-> "dblDash", val |-> "--"]>>}

Completed(s, filler) == s \o filler \o Pending(s)[Len(s)]

Viable(args, options, s) == \E filler \in Fillers : Valid(args, options, Completed(s, filler))
=============================================================================
