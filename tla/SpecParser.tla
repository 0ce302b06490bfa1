----------------------------- MODULE SpecParser -----------------------------
(***************************************************************************)
(* The parser of spec strings (spec_parser.go): a recursive descent over   *)
(* the tokens that builds an automaton on its way.                         *)
(*                                                                         *)
(* A token is a record [typ, val].  A parser p is the record of the fields *)
(* of uParser, with the declared arguments (the keys of cmd.argsIdx) and   *)
(* options (cmd.options, a sequence), and of the automaton built so far;   *)
(* p.err is the message of the panic that ends a parse, "" while there is  *)
(* none.  A production returns a piece: the parser, and the start and end  *)
(* state of what it built.                                                 *)
(***************************************************************************)
EXTENDS Automata

Parser(args, options, tokens) ==
  [args |-> args, options |-> options, tokens |-> tokens, tkpos |-> 1, reject |-> FALSE, err |-> "", tr |-> <<>>]

\* cmd.optionsIdx has every declared option under its names.
Declared(p) == ToSet(p.options)

Eof(p)      == p.tkpos > Len(p.tokens)
Token(p)    == p.tokens[p.tkpos]
Is(p, typ)  == ~Eof(p) /\ Token(p).typ = typ
Next1(p)    == [p EXCEPT !.tkpos = @ + 1]
Fail_AfterToken(p, msg) == [p EXCEPT !.err = msg, !.tkpos = @ + 1]
Fail(p, msg) == [p EXCEPT !.err = msg]

Expect(p, typ) == IF Is(p, typ) THEN Next1(p) ELSE Fail(p, "Was expecting")

AtomTypes == {"pos", "options", "shortOpt", "longOpt", "optSeq", "openPar", "openSq", "dblDash"}
OptTypes  == {"options", "shortOpt", "longOpt", "optSeq"}
CanAtom_NoDashes(p) == ~Eof(p) /\ Token(p).typ \in AtomTypes \ {"dblDash"}
CanAtom(p) == ~Eof(p) /\ Token(p).typ \in AtomTypes

Piece(p, s, e) == [p |-> p, start |-> s, end |-> e]
Failed(p, msg) == Piece(Fail(p, msg), 0, 0)

Rep_Backwards(r) ==
  IF r.p.err = "" /\ Is(r.p, "rep")
  THEN [r EXCEPT !.p = Link(Next1(r.p), r.start, Shortcut, r.end)]
  ELSE r

\* A postfix `...` leads from the end back to the start.
Rep(r) ==
  IF r.p.err = "" /\ Is(r.p, "rep")
  THEN [r EXCEPT !.p = Link(Next1(r.p), r.end, Shortcut, r.start)]
  ELSE r

\* A piece between the last two states.
LastTwo(p) == Piece(p, Len(p.tr) - 1, Len(p.tr))

\* One transition from a new state to another, labelled m.
Labelled(r, m) == [r EXCEPT !.p = Link(@, r.start, m, r.end)]
Single(p, m)   == Labelled(LastTwo(NewState(NewState(p))), m)

\* An option may announce its value.
WithValue(r) == IF Is(r.p, "optValue") THEN [r EXCEPT !.p = Next1(@)] ELSE r

\* The brackets of a group that parsed: `[` lets it be skipped.
Closed(r, typ) == IF r.p.err = "" THEN [r EXCEPT !.p = Expect(@, typ)] ELSE r
Optional(r)    == IF r.p.err = "" THEN Labelled(r, Shortcut) ELSE r

\* A call of a production, and the piece it goes on with: a sequence that needs a
\* component or whose next component is optional, an alternative of a choice, an
\* atom of a piece.
Call(production, r) == [production |-> production, r |-> r]
Sequence(p, production) ==
  LET q == NewState(p) IN Call(production, Piece(q, Len(q.tr), Len(q.tr)))
Choice(p) == Call("choice", LastTwo(NewState(NewState(p))))

\* The transitions of the component's start are copied onto the end of what comes
\* before it.
AppendComp(r, c) == Piece([c.p EXCEPT !.tr[r.end] = @ \o c.p.tr[c.start]], r.start, c.end)

\* What each production returns, where parse is what the calls it makes return.
Components(r, required, parse) ==
  IF required \/ CanAtom(r.p)
  THEN LET c == parse[Choice(r.p)]
       IN  IF c.p.err = "" THEN parse[Call("components", AppendComp(r, c))] ELSE c
  ELSE r

\* Shortcuts lead into and out of every alternative.
Add(r, a) == [r EXCEPT !.p = Link(Link(a.p, r.start, Shortcut, a.start), a.end, Shortcut, r.end)]

More(r, parse) == IF Is(r.p, "choice") THEN parse[Call("choice", [r EXCEPT !.p = Next1(@)])] ELSE r

Alternatives(r, parse) ==
  LET a == parse[Call("atom", r)] IN IF a.p.err = "" THEN More(Add(r, a), parse) ELSE a

Atom(p, parse) ==
  CASE Eof(p) -> Failed(p, "Unexpected end of input")
    [] Is(p, "pos") ->
         IF Token(p).val \in p.args THEN Rep(Single(Next1(p), ArgMatcher(Token(p).val)))
         ELSE Failed(p, "Undeclared arg")
    [] ~Eof(p) /\ Token(p).typ \in OptTypes /\ p.reject -> Failed(p, "No options after --")
    [] Is(p, "options") /\ ~p.reject ->
         Rep(Single(Next1(p), OptsMatcher(p.options, p.tkpos)))
    [] (Is(p, "shortOpt") \/ Is(p, "longOpt")) /\ ~p.reject ->
         IF Token(p).val \in Declared(p)
         THEN Rep(WithValue(Single(Next1(p), OptMatcher(Token(p).val, p.tkpos))))
         ELSE Failed(p, "Undeclared option")
    [] Is(p, "optSeq") /\ ~p.reject ->
         IF ToSet(Token(p).val) \subseteq Declared(p)
         THEN Rep(Single(Next1(p), OptsMatcher(Token(p).val, p.tkpos)))
         ELSE Failed(p, "Undeclared option")
    [] Is(p, "openPar") -> Rep(Closed(parse[Sequence(Next1(p), "sequence")], "closePar"))
    [] Is(p, "openSq")  -> Rep(Closed(Optional(parse[Sequence(Next1(p), "sequence")]), "closeSq"))
    [] Is(p, "dblDash") -> Single([Next1(p) EXCEPT !.reject = TRUE], OptsEnd)
    [] OTHER -> Failed(p, "Unexpected input")

Answer(c, parse) ==
  CASE c.production = "sequence"   -> Components(c.r, TRUE, parse)
    [] c.production = "components" -> Components(c.r, FALSE, parse)
    [] c.production = "choice"     -> Alternatives(c.r, parse)
    [] c.production = "atom"       -> Atom(c.r.p, parse)

\* The calls there may be: for a piece of an automaton, while nothing failed.
Matchers(args, options) ==
  [kind : {"shortcut", "optsEnd"}] \cup [kind : {"arg"}, arg : args]
  \cup [kind : {"opt"}, opt : ToSet(options), at : Nat] \cup [kind : {"opts"}, opts : Seq(ToSet(options)), at : Nat]
Parsers(args, options, tokens) ==
  [args : {args}, options : {options}, tokens : {tokens}, tkpos : Nat \ {0}, reject : BOOLEAN, err : {""},
   tr : Seq(Seq([m : Matchers(args, options), next : Nat]))]
Pieces(args, options, tokens) ==
  {r \in [p : Parsers(args, options, tokens), start : Nat, end : Nat] : {r.start, r.end} \subseteq States(r.p)}
Calls(args, options, tokens) ==
  [production : {"sequence", "components", "choice", "atom"}, r : Pieces(args, options, tokens)]

Parses(args, options, tokens) ==
  LET parse[c \in Calls(args, options, tokens)] == Answer(c, parse) IN parse

\* What is left when the sequence ends is an error.
Whole(r) == IF r.p.err = "" /\ ~Eof(r.p) THEN [r EXCEPT !.p = Fail(@, "Unexpected input")] ELSE r

\* uParse, up to the simplification: the automaton, its start state, and err.
Result(r) ==
  [tr |-> r.p.tr, start |-> r.start, err |-> r.p.err, pos |-> r.p.tkpos,
   terminal |-> IF r.p.err = "" THEN {r.end} ELSE {}]

UParse(args, options, tokens) ==
  Result(Whole(Parses(args, options, tokens)[Sequence(Parser(args, options, tokens), "components")]))
=============================================================================
