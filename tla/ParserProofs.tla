---------------------------- MODULE ParserProofs ----------------------------
(***************************************************************************)
(* Theorems about the spec parser.  Each production is a call of the       *)
(* function Parses; the proofs go by recursion over the calls, from those  *)
(* with the fewest tokens left.  First what an answer may be, then what it *)
(* has read, by the grammar of SpecGrammar.                                *)
(***************************************************************************)
EXTENDS Writing, Facts

(***************************************************************************)
(* What a parser and a piece are.                                          *)
(***************************************************************************)
IsSpec(ts) == ts \in Seq(ToSet(ts)) /\ \A t \in ToSet(ts) : t.typ = "optSeq" => t.val \in Seq(ToSet(t.val))

IsParser(p) ==
  /\ IsSpec(p.tokens) /\ p.options \in Seq(ToSet(p.options))
  /\ p \in Parsers(p.args, p.options, p.tokens)

IsPiece(r) == IsParser(r.p) /\ r \in [p : {r.p}, start : States(r.p), end : States(r.p)]

\* A matcher waits for an option or argument that a token stands for, or for all the options.
From(m, as, os, ts) ==
  /\ m.kind = "arg"  => m.arg \in as /\ \E i \in DOMAIN ts : ts[i].typ = "pos" /\ ts[i].val = m.arg
  /\ m.kind = "opt"  => /\ m.opt \in ToSet(os)
                        /\ \E i \in DOMAIN ts : ts[i].typ \in {"shortOpt", "longOpt"} /\ ts[i].val = m.opt
  /\ m.kind = "opts" => \/ m.opts = os
                        \/ /\ ToSet(m.opts) \subseteq ToSet(os)
                           /\ \E i \in DOMAIN ts : ts[i].typ = "optSeq" /\ ts[i].val = m.opts

WaitsForTokens(g, as, os, ts) == \A s \in States(g) : \A t \in ToSet(g.tr[s]) : From(t.m, as, os, ts)

Made(p) == WaitsForTokens(p, p.args, p.options, p.tokens)

\* The parser q has gone on from p.
Same(p, q)  == q.args = p.args /\ q.options = p.options /\ q.tokens = p.tokens
Grows(p, q) ==
  /\ IsParser(q) /\ Same(p, q) /\ p.tkpos <= q.tkpos /\ Len(p.tr) <= Len(q.tr)
  /\ Made(p) => Made(q)

LEMMA Fields ==
  ASSUME NEW p, IsParser(p)
  PROVE  /\ p.tkpos \in Nat \ {0} /\ p.reject \in BOOLEAN /\ p.err = "" /\ Len(p.tr) \in Nat
         /\ p.tr \in Seq(Seq([m : Matchers(p.args, p.options), next : Nat]))
         /\ States(p) = 1 .. Len(p.tr) /\ DOMAIN p.tr = 1 .. Len(p.tr)
         /\ Len(p.tokens) \in Nat
<1>1. p.tokens \in Seq(ToSet(p.tokens))
  BY DEF IsParser, IsSpec
<1> QED BY <1>1, LenProperties DEF IsParser, Parsers, States

LEMMA GrowsSelf ==
  ASSUME NEW p, IsParser(p)
  PROVE  Grows(p, p)
<1>1. p.tkpos \in Nat /\ Len(p.tr) \in Nat
  BY Fields
<1>2. p.tkpos <= p.tkpos /\ Len(p.tr) <= Len(p.tr)
  BY <1>1
<1> QED BY <1>2, Zenon DEF Grows, Same

LEMMA GrowsOn ==
  ASSUME NEW p, NEW q, NEW r, IsParser(p), Grows(p, q), Grows(q, r)
  PROVE  Grows(p, r)
<1>1. /\ p.tkpos \in Nat /\ q.tkpos \in Nat /\ r.tkpos \in Nat
      /\ Len(p.tr) \in Nat /\ Len(q.tr) \in Nat /\ Len(r.tr) \in Nat
  BY Fields DEF Grows
<1> QED BY <1>1 DEF Grows, Same

\* A parser with other transitions.
LEMMA WithTr ==
  ASSUME NEW p, IsParser(p), NEW tr \in Seq(Seq([m : Matchers(p.args, p.options), next : Nat])),
         Len(p.tr) <= Len(tr),
         Made(p) => \A s \in DOMAIN tr : \A t \in ToSet(tr[s]) : From(t.m, p.args, p.options, p.tokens)
  PROVE  Grows(p, [p EXCEPT !.tr = tr]) /\ [p EXCEPT !.tr = tr].tr = tr
<1> DEFINE q == [p EXCEPT !.tr = tr]
<1>1. p = [args |-> p.args, options |-> p.options, tokens |-> p.tokens, tkpos |-> p.tkpos, reject |-> p.reject,
           err |-> p.err, tr |-> p.tr]
  BY DEF IsParser, Parsers
<1>2. q = [args |-> p.args, options |-> p.options, tokens |-> p.tokens, tkpos |-> p.tkpos, reject |-> p.reject,
           err |-> p.err, tr |-> tr]
  BY <1>1
<1>3. /\ q.args = p.args /\ q.options = p.options /\ q.tokens = p.tokens /\ q.tkpos = p.tkpos
      /\ q.reject = p.reject /\ q.err = p.err /\ q.tr = tr
  BY <1>2
<1> HIDE DEF q
<1>4. q \in Parsers(p.args, p.options, p.tokens)
  BY <1>2, Fields DEF Parsers
<1>5. IsParser(q)
  BY <1>3, <1>4 DEF IsParser
<1>6. Made(p) => Made(q)
  <2>1. States(q) = DOMAIN tr
    BY <1>3, LenProperties DEF States
  <2> QED BY <1>3, <2>1 DEF Made, WaitsForTokens
<1>7. p.tkpos <= q.tkpos /\ Len(p.tr) <= Len(q.tr)
  <2>1. p.tkpos \in Nat
    BY Fields
  <2> QED BY <1>3, <2>1
<1>8. Grows(p, q)
  BY <1>3, <1>5, <1>6, <1>7 DEF Grows, Same
<1> QED BY <1>3, <1>8 DEF q

LEMMA NewStateGrows ==
  ASSUME NEW p, IsParser(p)
  PROVE  /\ Grows(p, NewState(p)) /\ Len(NewState(p).tr) = Len(p.tr) + 1
         /\ NewState(p).tkpos = p.tkpos
<1> DEFINE tr == Append(p.tr, <<>>)
           X == [m : Matchers(p.args, p.options), next : Nat]
<1>1. p.tr \in Seq(Seq(X)) /\ Len(p.tr) \in Nat /\ DOMAIN p.tr = 1 .. Len(p.tr) /\ States(p) = DOMAIN p.tr
  BY Fields
<1> HIDE DEF X
<1>2. <<>> \in Seq(X)
  OBVIOUS
<1>3. /\ tr \in Seq(Seq(X)) /\ Len(tr) = Len(p.tr) + 1 /\ DOMAIN tr = 1 .. Len(p.tr) + 1
      /\ \A s \in 1 .. Len(p.tr) : tr[s] = p.tr[s]
      /\ tr[Len(p.tr) + 1] = <<>>
  BY <1>1, <1>2, AppendProperties
<1> HIDE DEF tr
<1>4. ASSUME Made(p), NEW s \in DOMAIN tr, NEW t \in ToSet(tr[s]) PROVE From(t.m, p.args, p.options, p.tokens)
  <2>1. CASE s \in 1 .. Len(p.tr)
    BY <1>1, <1>3, <1>4, <2>1 DEF Made, WaitsForTokens
  <2>2. CASE s = Len(p.tr) + 1
    BY <1>3, <1>4, <2>2 DEF ToSet
  <2> QED BY <1>1, <1>3, <2>1, <2>2
<1>5. Len(p.tr) <= Len(tr)
  BY <1>1, <1>3
<1>6. Grows(p, [p EXCEPT !.tr = tr]) /\ [p EXCEPT !.tr = tr].tr = tr
  BY <1>3, <1>4, <1>5, WithTr DEF X
<1>7. NewState(p) = [p EXCEPT !.tr = tr]
  BY DEF NewState, tr
<1>8. [p EXCEPT !.tr = tr].tkpos = p.tkpos
  BY DEF IsParser, Parsers
<1> QED BY <1>3, <1>6, <1>7, <1>8

\* A transition more: from a state of p to any, with a matcher a token stands for.
LEMMA LinkGrows ==
  ASSUME NEW p, IsParser(p), NEW s \in States(p), NEW m \in Matchers(p.args, p.options), NEW next \in Nat,
         From(m, p.args, p.options, p.tokens)
  PROVE  /\ Grows(p, Link(p, s, m, next)) /\ Len(Link(p, s, m, next).tr) = Len(p.tr)
         /\ Link(p, s, m, next).tkpos = p.tkpos
<1> DEFINE X == [m : Matchers(p.args, p.options), next : Nat]
           t == Transition(m, next)
           tr == [p.tr EXCEPT ![s] = Append(p.tr[s], t)]
<1>1. p.tr \in Seq(Seq(X)) /\ Len(p.tr) \in Nat /\ DOMAIN p.tr = 1 .. Len(p.tr) /\ States(p) = DOMAIN p.tr
  BY Fields
<1>2. t \in X /\ t.m = m
  BY DEF Transition
<1> HIDE DEF X, t
<1>3. p.tr[s] \in Seq(X)
  BY <1>1, ElementOfSeq
<1>4. Append(p.tr[s], t) \in Seq(X) /\ ToSet(Append(p.tr[s], t)) = ToSet(p.tr[s]) \cup {t}
  <2> DEFINE ts == p.tr[s]
             more == Append(ts, t)
  <2> HIDE DEF ts
  <2>0. ts \in Seq(X)
    BY <1>3 DEF ts
  <2>1. /\ more \in Seq(X) /\ Len(more) = Len(ts) + 1
        /\ \A i \in 1 .. Len(ts) : more[i] = ts[i]
        /\ more[Len(ts) + 1] = t
    BY <1>2, <2>0, AppendProperties
  <2> HIDE DEF more
  <2>2. ToSet(more) = {more[i] : i \in 1 .. Len(more)}
    BY <2>1, Members
  <2>3. ToSet(ts) = {ts[i] : i \in 1 .. Len(ts)} /\ Len(ts) \in Nat
    BY <2>0, Members
  <2>4. ToSet(more) = ToSet(ts) \cup {t}
    BY <2>1, <2>2, <2>3
  <2> QED BY <2>1, <2>4 DEF more, ts
<1>5. /\ tr \in Seq(Seq(X)) /\ Len(tr) = Len(p.tr) /\ DOMAIN tr = DOMAIN p.tr
      /\ \A u \in DOMAIN tr : tr[u] = IF u = s THEN Append(p.tr[s], t) ELSE p.tr[u]
  BY <1>1, <1>4, ExceptSeq
<1> HIDE DEF tr
<1>6. ASSUME Made(p), NEW u \in DOMAIN tr, NEW x \in ToSet(tr[u]) PROVE From(x.m, p.args, p.options, p.tokens)
  BY <1>1, <1>2, <1>4, <1>5, <1>6 DEF Made, WaitsForTokens
<1>7. Len(p.tr) <= Len(tr)
  BY <1>1, <1>5
<1>8. Grows(p, [p EXCEPT !.tr = tr]) /\ [p EXCEPT !.tr = tr].tr = tr
  BY <1>5, <1>6, <1>7, WithTr DEF X
<1>9. Link(p, s, m, next) = [p EXCEPT !.tr = tr]
  BY DEF Link, tr, t, IsParser, Parsers
<1>10. [p EXCEPT !.tr = tr].tkpos = p.tkpos
  BY DEF IsParser, Parsers
<1> QED BY <1>5, <1>8, <1>9, <1>10

\* The parser goes past a token, or to the end of the options.
LEMMA NextGrows ==
  ASSUME NEW p, IsParser(p)
  PROVE  /\ Grows(p, Next1(p)) /\ Next1(p).tkpos = p.tkpos + 1 /\ Next1(p).tr = p.tr
         /\ Next1(p).reject = p.reject
<1> DEFINE q == Next1(p)
<1>1. p = [args |-> p.args, options |-> p.options, tokens |-> p.tokens, tkpos |-> p.tkpos, reject |-> p.reject,
           err |-> p.err, tr |-> p.tr] /\ p.tkpos \in Nat /\ Len(p.tr) \in Nat
  BY Fields DEF IsParser, Parsers
<1>2. q = [args |-> p.args, options |-> p.options, tokens |-> p.tokens, tkpos |-> p.tkpos + 1, reject |-> p.reject,
           err |-> p.err, tr |-> p.tr]
  BY <1>1 DEF Next1
<1>3. /\ q.args = p.args /\ q.options = p.options /\ q.tokens = p.tokens /\ q.tkpos = p.tkpos + 1
      /\ q.reject = p.reject /\ q.err = p.err /\ q.tr = p.tr
  BY <1>2
<1> HIDE DEF q
<1>4. q \in Parsers(p.args, p.options, p.tokens)
  <2>1. p.tkpos + 1 \in Nat \ {0}
    BY <1>1
  <2> QED BY <1>2, <2>1, Fields DEF Parsers
<1>5. IsParser(q)
  BY <1>3, <1>4 DEF IsParser
<1>6. Made(p) => Made(q)
  BY <1>3 DEF Made, WaitsForTokens, States
<1>7. Grows(p, q)
  BY <1>1, <1>3, <1>5, <1>6 DEF Grows, Same
<1> QED BY <1>3, <1>7 DEF q

LEMMA RejectGrows ==
  ASSUME NEW p, IsParser(p), NEW b \in BOOLEAN
  PROVE  /\ Grows(p, [p EXCEPT !.reject = b]) /\ [p EXCEPT !.reject = b].tkpos = p.tkpos
         /\ [p EXCEPT !.reject = b].tr = p.tr
<1> DEFINE q == [p EXCEPT !.reject = b]
<1>1. p = [args |-> p.args, options |-> p.options, tokens |-> p.tokens, tkpos |-> p.tkpos, reject |-> p.reject,
           err |-> p.err, tr |-> p.tr] /\ p.tkpos \in Nat /\ Len(p.tr) \in Nat
  BY Fields DEF IsParser, Parsers
<1>2. q = [args |-> p.args, options |-> p.options, tokens |-> p.tokens, tkpos |-> p.tkpos, reject |-> b,
           err |-> p.err, tr |-> p.tr]
  BY <1>1
<1>3. /\ q.args = p.args /\ q.options = p.options /\ q.tokens = p.tokens /\ q.tkpos = p.tkpos
      /\ q.err = p.err /\ q.tr = p.tr
  BY <1>2
<1> HIDE DEF q
<1>4. q \in Parsers(p.args, p.options, p.tokens)
  BY <1>2, Fields DEF Parsers
<1>5. IsParser(q)
  BY <1>3, <1>4 DEF IsParser
<1>6. Made(p) => Made(q)
  BY <1>3 DEF Made, WaitsForTokens, States
<1>7. Grows(p, q)
  BY <1>1, <1>3, <1>5, <1>6 DEF Grows, Same
<1> QED BY <1>3, <1>7 DEF q

LEMMA DashesGrow ==
  ASSUME NEW p, IsParser(p)
  PROVE  /\ Grows(p, [p EXCEPT !.reject = TRUE]) /\ [p EXCEPT !.reject = TRUE].tkpos = p.tkpos
         /\ [p EXCEPT !.reject = TRUE].tr = p.tr
<1>1. TRUE \in BOOLEAN
  OBVIOUS
<1> QED BY <1>1, RejectGrows, Zenon

\* A piece whose parser has gone on.
LEMMA PieceGrows ==
  ASSUME NEW r, IsPiece(r), NEW q, Grows(r.p, q)
  PROVE  /\ IsPiece([r EXCEPT !.p = q]) /\ [r EXCEPT !.p = q].p = q
         /\ [r EXCEPT !.p = q].start = r.start /\ [r EXCEPT !.p = q].end = r.end
<1>1. r = [p |-> r.p, start |-> r.start, end |-> r.end] /\ {r.start, r.end} \subseteq States(r.p)
  BY DEF IsPiece
<1>2. [r EXCEPT !.p = q] = [p |-> q, start |-> r.start, end |-> r.end]
  BY <1>1
<1>3. IsParser(r.p) /\ IsParser(q) /\ Len(r.p.tr) <= Len(q.tr)
  BY DEF IsPiece, Grows
<1>4. States(r.p) \subseteq States(q)
  <2>1. /\ States(r.p) = 1 .. Len(r.p.tr) /\ States(q) = 1 .. Len(q.tr)
        /\ Len(r.p.tr) \in Nat /\ Len(q.tr) \in Nat
    BY <1>3, Fields
  <2> QED BY <1>3, <2>1
<1> QED BY <1>1, <1>2, <1>3, <1>4 DEF IsPiece

LEMMA LastTwoIs ==
  ASSUME NEW p, IsParser(p)
  PROVE  LET r == LastTwo(NewState(NewState(p)))
         IN  IsPiece(r) /\ Grows(p, r.p) /\ r.p.tkpos = p.tkpos
<1> DEFINE q == NewState(p)
           s == NewState(q)
<1>1. Grows(p, q) /\ Len(q.tr) = Len(p.tr) + 1 /\ q.tkpos = p.tkpos /\ Len(p.tr) \in Nat
  BY NewStateGrows, Fields
<1> HIDE DEF q
<1>2. Grows(q, s) /\ Len(s.tr) = Len(q.tr) + 1 /\ s.tkpos = q.tkpos
  BY <1>1, NewStateGrows DEF Grows
<1> HIDE DEF s
<1>3. Grows(p, s)
  BY <1>1, <1>2, GrowsOn
<1>4. IsParser(s) /\ States(s) = 1 .. Len(s.tr)
  BY <1>2, Fields DEF Grows
<1>5. {Len(s.tr) - 1, Len(s.tr)} \subseteq States(s)
  BY <1>1, <1>2, <1>4
<1>6. IsPiece(LastTwo(s)) /\ LastTwo(s).p = s
  BY <1>4, <1>5 DEF IsPiece, LastTwo, Piece
<1> QED BY <1>1, <1>2, <1>3, <1>6 DEF q, s

\* A transition between the ends of a piece.
LEMMA LabelledGrows ==
  ASSUME NEW r, IsPiece(r), NEW m \in Matchers(r.p.args, r.p.options), From(m, r.p.args, r.p.options, r.p.tokens)
  PROVE  /\ IsPiece(Labelled(r, m)) /\ Grows(r.p, Labelled(r, m).p) /\ Labelled(r, m).p.tkpos = r.p.tkpos
         /\ Labelled(r, m).start = r.start /\ Labelled(r, m).end = r.end
<1>1. IsParser(r.p) /\ r.start \in States(r.p) /\ r.end \in States(r.p) /\ r.end \in Nat
  <2>1. IsParser(r.p) /\ r.start \in States(r.p) /\ r.end \in States(r.p)
    BY DEF IsPiece
  <2>2. States(r.p) = 1 .. Len(r.p.tr)
    BY <2>1, Fields
  <2> QED BY <2>1, <2>2
<1> DEFINE q == Link(r.p, r.start, m, r.end)
<1>2. Grows(r.p, q) /\ q.tkpos = r.p.tkpos
  BY <1>1, LinkGrows
<1>3. Labelled(r, m) = [r EXCEPT !.p = q]
  BY DEF Labelled, IsPiece
<1> HIDE DEF q
<1> QED BY <1>2, <1>3, PieceGrows

LEMMA NoNames ==
  ASSUME NEW as, NEW os, NEW ts
  PROVE  /\ Shortcut \in Matchers(as, os) /\ From(Shortcut, as, os, ts)
         /\ OptsEnd \in Matchers(as, os) /\ From(OptsEnd, as, os, ts)
BY DEF Shortcut, OptsEnd, Matchers, From

LEMMA SingleGrows ==
  ASSUME NEW p, IsParser(p), NEW m \in Matchers(p.args, p.options), From(m, p.args, p.options, p.tokens)
  PROVE  IsPiece(Single(p, m)) /\ Grows(p, Single(p, m).p) /\ Single(p, m).p.tkpos = p.tkpos
<1> DEFINE r == LastTwo(NewState(NewState(p)))
<1>1. IsPiece(r) /\ Grows(p, r.p) /\ r.p.tkpos = p.tkpos
  BY LastTwoIs
<1>2. Single(p, m) = Labelled(r, m)
  BY DEF Single
<1> HIDE DEF r
<1>3. m \in Matchers(r.p.args, r.p.options) /\ From(m, r.p.args, r.p.options, r.p.tokens)
  BY <1>1 DEF Grows, Same
<1>4. IsPiece(Labelled(r, m)) /\ Grows(r.p, Labelled(r, m).p) /\ Labelled(r, m).p.tkpos = r.p.tkpos
  BY <1>1, <1>3, LabelledGrows
<1>5. Grows(p, Labelled(r, m).p)
  BY <1>1, <1>4, GrowsOn
<1> QED BY <1>1, <1>2, <1>4, <1>5

(***************************************************************************)
(* What a call may return: a piece that goes on behind a token, or an      *)
(* error.                                                                  *)
(***************************************************************************)
Errors == {"Was expecting", "Unexpected end of input", "Undeclared arg", "No options after --",
           "Undeclared option", "Unexpected input"}
AnyParsers(as, os, ts) ==
  [args : {as}, options : {os}, tokens : {ts}, tkpos : Nat, reject : BOOLEAN, err : {""} \cup Errors,
   tr : Seq(Seq([m : Matchers(as, os), next : Nat]))]
AnyPieces(as, os, ts) == [p : AnyParsers(as, os, ts), start : Nat, end : Nat]

\* The piece r is what becomes of the parser p, at once or behind a token.
Follows(p, r) == IsPiece(r) /\ Grows(p, r.p)
Consumes(p, r) == Follows(p, r) /\ p.tkpos < r.p.tkpos /\ p.tkpos <= Len(p.tokens)

Answered(p, r) ==
  /\ r \in AnyPieces(p.args, p.options, p.tokens)
  /\ r.p.err = "" => Consumes(p, r)

LEMMA PiecesAreAny ==
  ASSUME NEW p, NEW r, Follows(p, r)
  PROVE  r \in AnyPieces(p.args, p.options, p.tokens) /\ r.p.err = ""
<1>1. IsParser(r.p) /\ r.start \in States(r.p) /\ r.end \in States(r.p) /\ Same(p, r.p)
      /\ r = [p |-> r.p, start |-> r.start, end |-> r.end]
  BY DEF Follows, IsPiece, Grows
<1>2. States(r.p) = 1 .. Len(r.p.tr)
  BY <1>1, Fields
<1>3. r.start \in Nat /\ r.end \in Nat
  BY <1>1, <1>2
<1>4. r.p \in Parsers(p.args, p.options, p.tokens)
  BY <1>1 DEF IsParser, Same
<1> QED BY <1>1, <1>3, <1>4 DEF AnyPieces, AnyParsers, Parsers

LEMMA ConsumesAnswers ==
  ASSUME NEW p, NEW r, Consumes(p, r)
  PROVE  Answered(p, r)
BY PiecesAreAny DEF Consumes, Answered

LEMMA FailedAnswers ==
  ASSUME NEW p, NEW q, IsParser(p), Same(q, p), NEW msg \in Errors
  PROVE  Answered(q, Failed(p, msg)) /\ Failed(p, msg).p.err # ""
<1>1. p = [args |-> p.args, options |-> p.options, tokens |-> p.tokens, tkpos |-> p.tkpos, reject |-> p.reject,
           err |-> p.err, tr |-> p.tr] /\ p \in Parsers(p.args, p.options, p.tokens)
  BY DEF IsParser, Parsers
<1>2. Fail(p, msg) = [args |-> p.args, options |-> p.options, tokens |-> p.tokens, tkpos |-> p.tkpos,
                      reject |-> p.reject, err |-> msg, tr |-> p.tr]
  BY <1>1 DEF Fail
<1>3. Failed(p, msg) = [p |-> Fail(p, msg), start |-> 0, end |-> 0]
  BY DEF Failed, Piece
<1>4. msg # ""
  BY DEF Errors
<1> HIDE DEF Errors
<1>5. Failed(p, msg) \in AnyPieces(q.args, q.options, q.tokens)
  <2>1. q.args = p.args /\ q.options = p.options /\ q.tokens = p.tokens
    BY DEF Same
  <2>2. /\ p.tkpos \in Nat /\ p.reject \in BOOLEAN
        /\ p.tr \in Seq(Seq([m : Matchers(p.args, p.options), next : Nat]))
    BY Fields
  <2>3. Fail(p, msg) \in AnyParsers(p.args, p.options, p.tokens)
    <3> DEFINE E == {""} \cup Errors
    <3>1. msg \in E
      OBVIOUS
    <3> HIDE DEF E
    <3>2. Fail(p, msg) \in [args : {p.args}, options : {p.options}, tokens : {p.tokens}, tkpos : Nat, reject : BOOLEAN,
                            err : E, tr : Seq(Seq([m : Matchers(p.args, p.options), next : Nat]))]
      BY <1>2, <2>2, <3>1
    <3> QED BY <3>2 DEF E, AnyParsers
  <2> QED BY <1>3, <2>1, <2>3 DEF AnyPieces
<1>6. Failed(p, msg).p.err = msg
  BY <1>2, <1>3
<1> QED BY <1>4, <1>5, <1>6 DEF Answered

LEMMA FollowsOn ==
  ASSUME NEW p, NEW q, NEW r, IsParser(p), Grows(p, q), Consumes(q, r)
  PROVE  Follows(p, r) /\ p.tkpos < r.p.tkpos
<1>1. Grows(p, r.p)
  BY GrowsOn DEF Consumes, Follows
<1>2. p.tkpos \in Nat /\ q.tkpos \in Nat /\ r.p.tkpos \in Nat
  BY Fields DEF Consumes, Follows, Grows, IsPiece
<1>3. p.tkpos <= q.tkpos /\ q.tkpos < r.p.tkpos
  BY DEF Grows, Consumes
<1> QED BY <1>1, <1>2, <1>3 DEF Consumes, Follows

\* Whatever follows a piece keeps what is known of it.
LEMMA ConsumesMore ==
  ASSUME NEW p, IsParser(p), NEW r, Consumes(p, r), NEW s, IsPiece(s), Grows(r.p, s.p)
  PROVE  Consumes(p, s)
<1>1. Grows(p, s.p)
  BY GrowsOn DEF Consumes, Follows
<1>2. p.tkpos \in Nat /\ s.p.tkpos \in Nat /\ r.p.tkpos \in Nat
  BY Fields DEF Consumes, Follows, Grows, IsPiece
<1>3. p.tkpos < r.p.tkpos /\ r.p.tkpos <= s.p.tkpos
  BY DEF Grows, Consumes
<1> QED BY <1>1, <1>2, <1>3 DEF Consumes, Follows

LEMMA RepGrows ==
  ASSUME NEW r, IsPiece(r)
  PROVE  /\ IsPiece(Rep(r)) /\ Grows(r.p, Rep(r).p)
         /\ Rep(r).p.tkpos = IF Is(r.p, "rep") THEN r.p.tkpos + 1 ELSE r.p.tkpos
         /\ Rep(r).start = r.start /\ Rep(r).end = r.end /\ Rep(r).p.reject = r.p.reject
<1>1. IsParser(r.p) /\ r.p.err = "" /\ r.start \in States(r.p) /\ r.end \in States(r.p)
  BY Fields DEF IsPiece
<1>2. CASE ~Is(r.p, "rep")
  <2>1. Rep(r) = r
    BY <1>2 DEF Rep
  <2>2. Grows(r.p, r.p)
    BY <1>1, GrowsSelf
  <2> QED BY <1>2, <2>1, <2>2
<1>3. CASE Is(r.p, "rep")
  <2> DEFINE q == Next1(r.p)
             s == Link(q, r.end, Shortcut, r.start)
  <2>1. Grows(r.p, q) /\ q.tkpos = r.p.tkpos + 1 /\ q.tr = r.p.tr /\ q.reject = r.p.reject
    BY <1>1, NextGrows
  <2> HIDE DEF q
  <2>2. r.end \in States(q) /\ r.start \in Nat
    <3>1. r.end \in States(q)
      BY <1>1, <2>1 DEF States
    <3>2. States(r.p) = 1 .. Len(r.p.tr) /\ Len(r.p.tr) \in Nat
      BY <1>1, Fields
    <3>3. r.start \in 1 .. Len(r.p.tr)
      BY <1>1, <3>2
    <3> QED BY <3>1, <3>2, <3>3
  <2>3. Grows(q, s) /\ s.tkpos = q.tkpos /\ s.reject = q.reject
    <3>1. IsParser(q)
      BY <2>1 DEF Grows
    <3>2. s.reject = q.reject
      BY <3>1 DEF Link, IsParser, Parsers
    <3> QED BY <2>2, <3>1, <3>2, LinkGrows, NoNames
  <2> HIDE DEF s
  <2>4. Grows(r.p, s)
    BY <1>1, <2>1, <2>3, GrowsOn
  <2>5. Rep(r) = [r EXCEPT !.p = s]
    BY <1>1, <1>3 DEF Rep, s, q
  <2> QED BY <1>3, <2>1, <2>3, <2>4, <2>5, PieceGrows
<1> QED BY <1>2, <1>3

LEMMA WithValueGrows ==
  ASSUME NEW r, IsPiece(r)
  PROVE  /\ IsPiece(WithValue(r)) /\ Grows(r.p, WithValue(r).p)
         /\ WithValue(r).p.tkpos = IF Is(r.p, "optValue") THEN r.p.tkpos + 1 ELSE r.p.tkpos
         /\ WithValue(r).start = r.start /\ WithValue(r).end = r.end /\ WithValue(r).p.reject = r.p.reject
<1>1. IsParser(r.p)
  BY DEF IsPiece
<1>2. CASE ~Is(r.p, "optValue")
  BY <1>1, <1>2, GrowsSelf DEF WithValue
<1>3. CASE Is(r.p, "optValue")
  <2> DEFINE q == Next1(r.p)
  <2>1. Grows(r.p, q) /\ q.tkpos = r.p.tkpos + 1 /\ q.reject = r.p.reject
    BY <1>1, NextGrows
  <2>2. WithValue(r) = [r EXCEPT !.p = q]
    BY <1>3 DEF WithValue, IsPiece
  <2> HIDE DEF q
  <2> QED BY <1>3, <2>1, <2>2, PieceGrows
<1> QED BY <1>2, <1>3

\* A piece whose parser failed.
LEMMA FailedPiece ==
  ASSUME NEW p, NEW r, Follows(p, r), NEW msg \in Errors
  PROVE  Answered(p, [r EXCEPT !.p = Fail(r.p, msg)]) /\ [r EXCEPT !.p = Fail(r.p, msg)].p.err # ""
<1>1. r \in AnyPieces(p.args, p.options, p.tokens) /\ IsParser(r.p) /\ Same(p, r.p)
  BY PiecesAreAny DEF Follows, Grows
<1>2. /\ r = [p |-> r.p, start |-> r.start, end |-> r.end]
      /\ r.start \in Nat /\ r.end \in Nat
  BY <1>1 DEF AnyPieces
<1> DEFINE f == Fail(r.p, msg)
<1>3. f.err # "" /\ f \in AnyParsers(p.args, p.options, p.tokens)
  <2>1. Answered(p, Failed(r.p, msg)) /\ Failed(r.p, msg).p.err # ""
    BY <1>1, FailedAnswers
  <2>2. Failed(r.p, msg).p = f
    BY DEF Failed, Piece
  <2> QED BY <2>1, <2>2 DEF Answered, AnyPieces
<1> HIDE DEF f
<1>4. [r EXCEPT !.p = f] = [p |-> f, start |-> r.start, end |-> r.end]
  BY <1>2
<1>5. [r EXCEPT !.p = f] \in AnyPieces(p.args, p.options, p.tokens)
  BY <1>2, <1>3, <1>4 DEF AnyPieces
<1>6. [r EXCEPT !.p = f].p.err # ""
  BY <1>3, <1>4
<1> QED BY <1>5, <1>6 DEF Answered, f

\* The bracket behind a group.
LEMMA ClosedAnswers ==
  ASSUME NEW p, IsParser(p), NEW r, Answered(p, r), NEW typ
  PROVE  /\ Answered(p, Closed(r, typ))
         /\ Closed(r, typ).p.err = "" <=> r.p.err = "" /\ Is(r.p, typ)
         /\ Closed(r, typ).p.err = "" =>
              /\ IsPiece(Closed(r, typ)) /\ Grows(r.p, Closed(r, typ).p)
              /\ Closed(r, typ).p.tkpos = r.p.tkpos + 1 /\ Closed(r, typ).p.reject = r.p.reject
<1>1. CASE r.p.err # ""
  BY <1>1 DEF Closed
<1>2. CASE r.p.err = "" /\ Is(r.p, typ)
  <2> DEFINE q == Next1(r.p)
  <2>1. Consumes(p, r) /\ IsPiece(r) /\ IsParser(r.p)
    BY <1>2 DEF Answered, Consumes, Follows, IsPiece
  <2>2. Grows(r.p, q) /\ q.tkpos = r.p.tkpos + 1 /\ q.reject = r.p.reject
    BY <2>1, NextGrows
  <2>3. Closed(r, typ) = [r EXCEPT !.p = q]
    BY <1>2, <2>1 DEF Closed, Expect, IsPiece
  <2> HIDE DEF q
  <2>4. IsPiece([r EXCEPT !.p = q]) /\ [r EXCEPT !.p = q].p = q
    BY <2>1, <2>2, PieceGrows
  <2> DEFINE s == [r EXCEPT !.p = q]
  <2> HIDE DEF s
  <2>5. IsPiece(s) /\ s.p = q /\ Closed(r, typ) = s
    BY <2>3, <2>4 DEF s
  <2>6. Consumes(p, s)
    BY <2>1, <2>2, <2>5, ConsumesMore
  <2>7. s.p.err = ""
    BY <2>5, Fields DEF IsPiece
  <2> QED BY <1>2, <2>2, <2>5, <2>6, <2>7, ConsumesAnswers
<1>3. CASE r.p.err = "" /\ ~Is(r.p, typ)
  <2>1. Follows(p, r)
    BY <1>3 DEF Answered, Consumes
  <2>2. "Was expecting" \in Errors
    BY DEF Errors
  <2>3. Closed(r, typ) = [r EXCEPT !.p = Fail(r.p, "Was expecting")]
    BY <1>3, <2>1 DEF Closed, Expect, Follows, IsPiece
  <2>4. Answered(p, Closed(r, typ)) /\ Closed(r, typ).p.err # ""
    <3> DEFINE f == [r EXCEPT !.p = Fail(r.p, "Was expecting")]
    <3>1. Answered(p, f) /\ f.p.err # ""
      BY <2>1, <2>2, FailedPiece
    <3> HIDE DEF f
    <3> QED BY <2>3, <3>1 DEF f
  <2> QED BY <1>3, <2>4
<1> QED BY <1>1, <1>2, <1>3

LEMMA OptionalAnswers ==
  ASSUME NEW p, IsParser(p), NEW r, Answered(p, r)
  PROVE  /\ Answered(p, Optional(r))
         /\ Optional(r).p.err = "" <=> r.p.err = ""
         /\ Optional(r).p.err = "" =>
              /\ IsPiece(Optional(r)) /\ Grows(r.p, Optional(r).p)
              /\ Optional(r).p.tkpos = r.p.tkpos /\ Optional(r).p.reject = r.p.reject
              /\ Optional(r).start = r.start /\ Optional(r).end = r.end
<1>1. CASE r.p.err # ""
  BY <1>1 DEF Optional
<1>2. CASE r.p.err = ""
  <2> DEFINE s == Labelled(r, Shortcut)
  <2>1. Consumes(p, r) /\ IsPiece(r) /\ IsParser(r.p)
    BY <1>2 DEF Answered, Consumes, Follows, IsPiece
  <2>2. IsPiece(s) /\ Grows(r.p, s.p) /\ s.p.tkpos = r.p.tkpos /\ s.start = r.start /\ s.end = r.end
    BY <2>1, NoNames, LabelledGrows
  <2>3. Optional(r) = s
    BY <1>2 DEF Optional
  <2>4. s.p.reject = r.p.reject
    BY <2>1 DEF Labelled, Link, IsPiece, IsParser, Parsers
  <2> HIDE DEF s
  <2>5. Consumes(p, s)
    BY <2>1, <2>2, ConsumesMore
  <2>6. s.p.err = ""
    BY <2>2, Fields DEF IsPiece
  <2> QED BY <1>2, <2>2, <2>3, <2>4, <2>5, <2>6, ConsumesAnswers
<1> QED BY <1>1, <1>2

\* An alternative gets its shortcuts.
LEMMA AddFollows ==
  ASSUME NEW r, IsPiece(r), NEW a, Follows(r.p, a)
  PROVE  /\ IsPiece(Add(r, a)) /\ Grows(a.p, Add(r, a).p) /\ Follows(r.p, Add(r, a))
         /\ Add(r, a).p.tkpos = a.p.tkpos /\ Add(r, a).p.reject = a.p.reject
<1> DEFINE q == Link(a.p, r.start, Shortcut, a.start)
           s == Link(q, a.end, Shortcut, r.end)
<1>1. /\ IsParser(r.p) /\ IsParser(a.p) /\ Grows(r.p, a.p) /\ {r.start, r.end} \subseteq States(r.p)
      /\ {a.start, a.end} \subseteq States(a.p)
  BY DEF Follows, IsPiece
<1>2. /\ States(r.p) = 1 .. Len(r.p.tr) /\ States(a.p) = 1 .. Len(a.p.tr) /\ Len(r.p.tr) <= Len(a.p.tr)
      /\ Len(r.p.tr) \in Nat /\ Len(a.p.tr) \in Nat
  BY <1>1, Fields DEF Grows
<1>3. r.start \in States(a.p) /\ a.start \in Nat /\ r.end \in Nat
  BY <1>1, <1>2
<1>4. Grows(a.p, q) /\ Len(q.tr) = Len(a.p.tr) /\ q.tkpos = a.p.tkpos
  BY <1>1, <1>3, NoNames, LinkGrows
<1>5. q.reject = a.p.reject
  BY <1>1 DEF Link, IsParser, Parsers
<1> HIDE DEF q
<1>6. IsParser(q) /\ a.end \in States(q)
  BY <1>1, <1>4 DEF Grows, States
<1>7. Grows(q, s) /\ s.tkpos = q.tkpos
  BY <1>3, <1>6, NoNames, LinkGrows
<1>8. s.reject = q.reject
  BY <1>6 DEF Link, IsParser, Parsers
<1>9. Add(r, a) = [r EXCEPT !.p = s]
  BY DEF Add, q
<1> HIDE DEF s
<1>10. Grows(a.p, s) /\ Grows(r.p, s)
  BY <1>1, <1>4, <1>7, GrowsOn
<1>11. IsPiece([r EXCEPT !.p = s]) /\ [r EXCEPT !.p = s].p = s
  BY <1>10, PieceGrows
<1> QED BY <1>4, <1>5, <1>7, <1>8, <1>9, <1>10, <1>11 DEF Follows

\* A component joins what comes before it.
LEMMA AppendFollows ==
  ASSUME NEW r, IsPiece(r), NEW c, Follows(r.p, c)
  PROVE  /\ IsPiece(AppendComp(r, c)) /\ Grows(c.p, AppendComp(r, c).p) /\ Follows(r.p, AppendComp(r, c))
         /\ AppendComp(r, c).p.tkpos = c.p.tkpos /\ AppendComp(r, c).p.reject = c.p.reject
<1> DEFINE X == [m : Matchers(c.p.args, c.p.options), next : Nat]
           both == c.p.tr[r.end] \o c.p.tr[c.start]
           tr == [c.p.tr EXCEPT ![r.end] = both]
           q == [c.p EXCEPT !.tr = tr]
<1>1. /\ IsParser(r.p) /\ IsParser(c.p) /\ Grows(r.p, c.p) /\ {r.start, r.end} \subseteq States(r.p)
      /\ {c.start, c.end} \subseteq States(c.p)
  BY DEF Follows, IsPiece
<1>2. /\ States(r.p) = 1 .. Len(r.p.tr) /\ States(c.p) = 1 .. Len(c.p.tr) /\ Len(r.p.tr) <= Len(c.p.tr)
      /\ Len(r.p.tr) \in Nat /\ Len(c.p.tr) \in Nat /\ DOMAIN c.p.tr = 1 .. Len(c.p.tr)
      /\ c.p.tr \in Seq(Seq(X))
  BY <1>1, Fields DEF Grows
<1>3. r.end \in 1 .. Len(c.p.tr) /\ c.start \in 1 .. Len(c.p.tr) /\ r.start \in 1 .. Len(c.p.tr)
  <2>1. 1 .. Len(r.p.tr) \subseteq 1 .. Len(c.p.tr)
    BY <1>2
  <2> QED BY <1>1, <1>2, <2>1
<1> HIDE DEF X
<1>4. c.p.tr[r.end] \in Seq(X) /\ c.p.tr[c.start] \in Seq(X)
  BY <1>2, <1>3, ElementOfSeq
<1>5. both \in Seq(X) /\ ToSet(both) = ToSet(c.p.tr[r.end]) \cup ToSet(c.p.tr[c.start])
  BY <1>4, Concatenated
<1> HIDE DEF both
<1>6. /\ tr \in Seq(Seq(X)) /\ Len(tr) = Len(c.p.tr) /\ DOMAIN tr = DOMAIN c.p.tr
      /\ \A u \in DOMAIN tr : tr[u] = IF u = r.end THEN both ELSE c.p.tr[u]
  BY <1>2, <1>3, <1>5, ExceptSeq
<1> HIDE DEF tr
<1>7. ASSUME Made(c.p), NEW u \in DOMAIN tr, NEW x \in ToSet(tr[u])
      PROVE  From(x.m, c.p.args, c.p.options, c.p.tokens)
  <2>1. \A s \in 1 .. Len(c.p.tr) : \A t \in ToSet(c.p.tr[s]) : From(t.m, c.p.args, c.p.options, c.p.tokens)
    BY <1>2, <1>7 DEF Made, WaitsForTokens
  <2>2. x \in ToSet(both) \/ x \in ToSet(c.p.tr[u])
    BY <1>6, <1>7
  <2> QED BY <1>2, <1>3, <1>5, <1>6, <2>1, <2>2
<1>8. Len(c.p.tr) <= Len(tr)
  BY <1>2, <1>6
<1>9. Grows(c.p, q)
  BY <1>1, <1>6, <1>7, <1>8, WithTr DEF X
<1>10. q.tkpos = c.p.tkpos /\ q.reject = c.p.reject
  BY <1>1 DEF IsParser, Parsers
<1>11. AppendComp(r, c) = Piece(q, r.start, c.end)
  BY <1>1 DEF AppendComp, tr, both, IsParser, Parsers
<1>12. {r.start, c.end} \subseteq States(q)
  BY <1>1, <1>2, <1>3, <1>6, WithTr DEF States
<1> HIDE DEF q
<1>13. Grows(r.p, q)
  BY <1>1, <1>9, GrowsOn
<1>14. AppendComp(r, c) = [p |-> q, start |-> r.start, end |-> c.end] /\ IsParser(q)
  BY <1>9, <1>11 DEF Piece, Grows
<1>15. IsPiece(AppendComp(r, c)) /\ AppendComp(r, c).p = q
  BY <1>12, <1>14 DEF IsPiece
<1> QED BY <1>9, <1>10, <1>13, <1>15 DEF Follows

LEMMA AnsweredOn ==
  ASSUME NEW p, NEW q, NEW a, IsParser(p), Grows(p, q), Answered(q, a), p.tkpos <= Len(p.tokens)
  PROVE  Answered(p, a)
<1>1. a \in AnyPieces(p.args, p.options, p.tokens)
  BY DEF Answered, Grows, Same
<1>2. a.p.err = "" => Consumes(p, a)
  BY FollowsOn DEF Answered, Consumes
<1> QED BY <1>1, <1>2 DEF Answered

\* The token a parser is at.
LEMMA AtToken ==
  ASSUME NEW p, IsParser(p), ~Eof(p)
  PROVE  /\ p.tkpos <= Len(p.tokens) /\ p.tkpos \in DOMAIN p.tokens /\ p.tokens[p.tkpos] = Token(p)
         /\ Token(p).typ = "optSeq" => Token(p).val \in Seq(ToSet(Token(p).val))
<1>1. p.tkpos \in Nat \ {0} /\ Len(p.tokens) \in Nat /\ DOMAIN p.tokens = 1 .. Len(p.tokens) /\ IsSpec(p.tokens)
  BY Fields, LenProperties DEF IsParser, IsSpec
<1>2. p.tkpos \in 1 .. Len(p.tokens)
  BY <1>1 DEF Eof
<1>3. Token(p) \in ToSet(p.tokens)
  BY <1>1, <1>2 DEF Token, ToSet
<1> QED BY <1>1, <1>2, <1>3 DEF Token, IsSpec

\* An element of a spec, with its `...`.
LEMMA SingleAnswers ==
  ASSUME NEW p, IsParser(p), ~Eof(p), NEW m \in Matchers(p.args, p.options), From(m, p.args, p.options, p.tokens)
  PROVE  /\ Consumes(p, Single(Next1(p), m)) /\ Single(Next1(p), m).p.tkpos = p.tkpos + 1
         /\ Single(Next1(p), m).p.reject = p.reject
<1> DEFINE q == Next1(p)
<1>1. Grows(p, q) /\ q.tkpos = p.tkpos + 1 /\ q.reject = p.reject /\ p.tkpos \in Nat /\ p.tkpos <= Len(p.tokens)
  BY NextGrows, Fields, AtToken
<1> HIDE DEF q
<1>2. m \in Matchers(q.args, q.options) /\ From(m, q.args, q.options, q.tokens) /\ IsParser(q)
  BY <1>1 DEF Grows, Same
<1> DEFINE s == Single(q, m)
<1>3. IsPiece(s) /\ Grows(q, s.p) /\ s.p.tkpos = q.tkpos
  BY <1>2, SingleGrows
<1>4. s.p.reject = q.reject
  BY <1>2 DEF Single, Labelled, LastTwo, Piece, Link, NewState, IsParser, Parsers
<1> HIDE DEF s
<1>5. Grows(p, s.p)
  BY <1>1, <1>3, GrowsOn
<1>6. Consumes(p, s)
  BY <1>1, <1>3, <1>5 DEF Consumes, Follows
<1> QED BY <1>1, <1>3, <1>4, <1>6 DEF s, q

LEMMA RepAnswers ==
  ASSUME NEW p, IsParser(p), NEW r, Answered(p, r)
  PROVE  /\ Answered(p, Rep(r))
         /\ Rep(r).p.err = "" <=> r.p.err = ""
         /\ r.p.err = "" => Consumes(p, Rep(r))
<1>1. CASE r.p.err # ""
  BY <1>1 DEF Rep
<1>2. CASE r.p.err = ""
  <2>1. Consumes(p, r) /\ IsPiece(r)
    BY <1>2 DEF Answered, Consumes, Follows
  <2>2. Consumes(p, Rep(r))
    BY <2>1, RepGrows, ConsumesMore
  <2>3. Rep(r).p.err = ""
    BY <2>2, Fields DEF Consumes, Follows, IsPiece
  <2> QED BY <1>2, <2>2, <2>3, ConsumesAnswers
<1> QED BY <1>1, <1>2

\* The matchers that an atom waits for come from its token.
LEMMA MatchersOfTokens ==
  ASSUME NEW p, IsParser(p), ~Eof(p)
  PROVE  /\ Token(p).typ = "pos" /\ Token(p).val \in p.args =>
              /\ ArgMatcher(Token(p).val) \in Matchers(p.args, p.options)
              /\ From(ArgMatcher(Token(p).val), p.args, p.options, p.tokens)
         /\ Token(p).typ \in {"shortOpt", "longOpt"} /\ Token(p).val \in Declared(p) =>
              /\ OptMatcher(Token(p).val, p.tkpos) \in Matchers(p.args, p.options)
              /\ From(OptMatcher(Token(p).val, p.tkpos), p.args, p.options, p.tokens)
         /\ Token(p).typ = "optSeq" /\ ToSet(Token(p).val) \subseteq Declared(p) =>
              /\ OptsMatcher(Token(p).val, p.tkpos) \in Matchers(p.args, p.options)
              /\ From(OptsMatcher(Token(p).val, p.tkpos), p.args, p.options, p.tokens)
         /\ OptsMatcher(p.options, p.tkpos) \in Matchers(p.args, p.options)
         /\ From(OptsMatcher(p.options, p.tkpos), p.args, p.options, p.tokens)
<1> DEFINE at == p.tkpos
           t == Token(p)
<1>1. at \in Nat /\ at \in DOMAIN p.tokens /\ p.tokens[at] = t /\ (t.typ = "optSeq" => t.val \in Seq(ToSet(t.val)))
      /\ p.options \in Seq(ToSet(p.options))
  BY AtToken, Fields DEF IsParser
<1> HIDE DEF at, t
<1>2. t.typ = "pos" /\ t.val \in p.args =>
        /\ ArgMatcher(t.val) \in Matchers(p.args, p.options)
        /\ From(ArgMatcher(t.val), p.args, p.options, p.tokens)
  BY <1>1 DEF ArgMatcher, Matchers, From
<1>3. t.typ \in {"shortOpt", "longOpt"} /\ t.val \in Declared(p) =>
        /\ OptMatcher(t.val, at) \in Matchers(p.args, p.options)
        /\ From(OptMatcher(t.val, at), p.args, p.options, p.tokens)
  BY <1>1 DEF OptMatcher, Matchers, From, Declared
<1>4. t.typ = "optSeq" /\ ToSet(t.val) \subseteq Declared(p) =>
        /\ OptsMatcher(t.val, at) \in Matchers(p.args, p.options)
        /\ From(OptsMatcher(t.val, at), p.args, p.options, p.tokens)
  <2> SUFFICES ASSUME t.typ = "optSeq", ToSet(t.val) \subseteq Declared(p)
               PROVE  /\ OptsMatcher(t.val, at) \in Matchers(p.args, p.options)
                      /\ From(OptsMatcher(t.val, at), p.args, p.options, p.tokens)
    OBVIOUS
  <2>1. t.val \in Seq(Declared(p))
    BY <1>1
  <2> QED BY <1>1, <2>1 DEF OptsMatcher, Matchers, From, Declared
<1>5. /\ OptsMatcher(p.options, at) \in Matchers(p.args, p.options)
      /\ From(OptsMatcher(p.options, at), p.args, p.options, p.tokens)
  BY <1>1 DEF OptsMatcher, Matchers, From
<1> QED BY <1>2, <1>3, <1>4, <1>5 DEF at, t

(***************************************************************************)
(* The productions.                                                        *)
(***************************************************************************)
Element(p, m) == Rep(Single(Next1(p), m))
Valued(p)     == Rep(WithValue(Single(Next1(p), OptMatcher(Token(p).val, p.tkpos))))
Group(p)      == Sequence(Next1(p), "sequence")

LEMMA AtomIs ==
  ASSUME NEW p, NEW parse
  PROVE  /\ Eof(p) => Atom(p, parse) = Failed(p, "Unexpected end of input")
         /\ Is(p, "pos") =>
              Atom(p, parse) = IF Token(p).val \in p.args THEN Element(p, ArgMatcher(Token(p).val))
                               ELSE Failed(p, "Undeclared arg")
         /\ ~Eof(p) /\ Token(p).typ \in OptTypes /\ p.reject => Atom(p, parse) = Failed(p, "No options after --")
         /\ Is(p, "options") /\ ~p.reject => Atom(p, parse) = Element(p, OptsMatcher(p.options, p.tkpos))
         /\ (Is(p, "shortOpt") \/ Is(p, "longOpt")) /\ ~p.reject =>
              Atom(p, parse) = IF Token(p).val \in Declared(p) THEN Valued(p) ELSE Failed(p, "Undeclared option")
         /\ Is(p, "optSeq") /\ ~p.reject =>
              Atom(p, parse) = IF ToSet(Token(p).val) \subseteq Declared(p)
                               THEN Element(p, OptsMatcher(Token(p).val, p.tkpos)) ELSE Failed(p, "Undeclared option")
         /\ Is(p, "openPar") => Atom(p, parse) = Rep(Closed(parse[Group(p)], "closePar"))
         /\ Is(p, "openSq") => Atom(p, parse) = Rep(Closed(Optional(parse[Group(p)]), "closeSq"))
         /\ Is(p, "dblDash") => Atom(p, parse) = Single([Next1(p) EXCEPT !.reject = TRUE], OptsEnd)
         /\ ~Eof(p) /\ ~CanAtom(p) => Atom(p, parse) = Failed(p, "Unexpected input")
<1>1. CASE Eof(p)
  BY <1>1 DEF Atom, Is
<1>2. CASE ~Eof(p) /\ Token(p).typ \in OptTypes /\ p.reject
  BY <1>2 DEF Atom, Is, OptTypes, CanAtom, AtomTypes
<1>3. CASE ~Eof(p) /\ Token(p).typ \in OptTypes /\ ~p.reject
  BY <1>3 DEF Atom, Is, OptTypes, CanAtom, AtomTypes, Element, Valued
<1>4. CASE ~Eof(p) /\ Token(p).typ \notin OptTypes
  BY <1>4 DEF Atom, Is, OptTypes, CanAtom, AtomTypes, Element, Group
<1> QED BY <1>1, <1>2, <1>3, <1>4

\* The calls of a production start where the parser is.
LEMMA SequenceIs ==
  ASSUME NEW p, IsParser(p), NEW production
  PROVE  LET c == Sequence(p, production)
         IN  /\ c.production = production /\ IsPiece(c.r) /\ Grows(p, c.r.p) /\ c.r.p.tkpos = p.tkpos
             /\ c.r.p.reject = p.reject /\ c = Call(production, c.r)
<1> DEFINE q == NewState(p)
           r == Piece(q, Len(q.tr), Len(q.tr))
<1>1. Grows(p, q) /\ Len(q.tr) = Len(p.tr) + 1 /\ q.tkpos = p.tkpos /\ Len(p.tr) \in Nat
  BY NewStateGrows, Fields
<1>2. q.reject = p.reject
  BY DEF NewState, IsParser, Parsers
<1>3. Sequence(p, production) = [production |-> production, r |-> r] /\ Sequence(p, production) = Call(production, r)
  BY DEF Sequence, Call
<1> HIDE DEF q
<1>4. IsParser(q) /\ States(q) = 1 .. Len(q.tr) /\ Len(q.tr) \in 1 .. Len(q.tr)
  <2>1. IsParser(q)
    BY <1>1 DEF Grows
  <2>2. States(q) = 1 .. Len(q.tr)
    BY <2>1, Fields
  <2> QED BY <1>1, <2>1, <2>2
<1>5. IsPiece(r) /\ r.p = q
  BY <1>4 DEF Piece, IsPiece
<1> HIDE DEF r
<1> QED BY <1>1, <1>2, <1>3, <1>5

LEMMA ChoiceIs ==
  ASSUME NEW p, IsParser(p)
  PROVE  LET c == Choice(p)
         IN  /\ c.production = "choice" /\ IsPiece(c.r) /\ Grows(p, c.r.p) /\ c.r.p.tkpos = p.tkpos
             /\ c.r.p.reject = p.reject /\ c = Call("choice", c.r)
<1> DEFINE r == LastTwo(NewState(NewState(p)))
<1>1. IsPiece(r) /\ Grows(p, r.p) /\ r.p.tkpos = p.tkpos
  BY LastTwoIs
<1>2. r.p.reject = p.reject
  BY DEF LastTwo, Piece, NewState, IsParser, Parsers
<1>3. Choice(p) = [production |-> "choice", r |-> r] /\ Choice(p) = Call("choice", r)
  BY DEF Choice, Call
<1> HIDE DEF r
<1> QED BY <1>1, <1>2, <1>3

LEMMA GroupIs ==
  ASSUME NEW p, IsParser(p), ~Eof(p)
  PROVE  /\ Group(p).production = "sequence" /\ IsPiece(Group(p).r) /\ Grows(p, Group(p).r.p)
         /\ Group(p).r.p.tkpos = p.tkpos + 1 /\ Group(p).r.p.reject = p.reject
         /\ Group(p) = Call("sequence", Group(p).r)
<1> DEFINE q == Next1(p)
<1>1. Grows(p, q) /\ q.tkpos = p.tkpos + 1 /\ q.reject = p.reject /\ IsParser(q)
  BY NextGrows DEF Grows
<1> HIDE DEF q
<1> DEFINE c == Sequence(q, "sequence")
<1>2. /\ c.production = "sequence" /\ IsPiece(c.r) /\ Grows(q, c.r.p) /\ c.r.p.tkpos = q.tkpos
      /\ c.r.p.reject = q.reject /\ c = Call("sequence", c.r)
  BY <1>1, SequenceIs
<1>3. Group(p) = c
  BY DEF Group, q
<1> HIDE DEF c
<1>4. Grows(p, c.r.p)
  BY <1>1, <1>2, GrowsOn
<1> QED BY <1>1, <1>2, <1>3, <1>4

\* `--` lets no option follow.
LEMMA DashesAnswer ==
  ASSUME NEW p, IsParser(p), ~Eof(p)
  PROVE  LET r == Single([Next1(p) EXCEPT !.reject = TRUE], OptsEnd)
         IN  Consumes(p, r) /\ r.p.tkpos = p.tkpos + 1 /\ r.p.reject
<1> DEFINE q == Next1(p)
           s == [q EXCEPT !.reject = TRUE]
           r == Single(s, OptsEnd)
<1>1. Grows(p, q) /\ q.tkpos = p.tkpos + 1 /\ p.tkpos \in Nat /\ p.tkpos <= Len(p.tokens) /\ IsParser(q)
  BY NextGrows, Fields, AtToken DEF Grows
<1> HIDE DEF q
<1>2. Grows(q, s) /\ s.tkpos = q.tkpos /\ IsParser(s)
  BY <1>1, DashesGrow DEF Grows
<1>3. s.reject
  BY <1>1 DEF IsParser, Parsers
<1> HIDE DEF s
<1>4. OptsEnd \in Matchers(s.args, s.options) /\ From(OptsEnd, s.args, s.options, s.tokens)
  BY NoNames
<1>5. IsPiece(r) /\ Grows(s, r.p) /\ r.p.tkpos = s.tkpos
  BY <1>2, <1>4, SingleGrows
<1>6. r.p.reject = s.reject
  BY <1>2 DEF Single, Labelled, LastTwo, Piece, Link, NewState, IsParser, Parsers
<1> HIDE DEF r
<1>7. Grows(p, s)
  BY <1>1, <1>2, GrowsOn
<1>8. Grows(p, r.p)
  BY <1>5, <1>7, GrowsOn
<1>9. Consumes(p, r)
  BY <1>1, <1>2, <1>5, <1>8 DEF Consumes, Follows
<1> QED BY <1>1, <1>2, <1>3, <1>5, <1>6, <1>9 DEF r, s, q

LEMMA ElementAnswers ==
  ASSUME NEW p, IsParser(p), ~Eof(p), NEW m \in Matchers(p.args, p.options), From(m, p.args, p.options, p.tokens)
  PROVE  Consumes(p, Element(p, m))
<1> DEFINE s == Single(Next1(p), m)
<1>1. Consumes(p, s)
  BY SingleAnswers
<1>2. Element(p, m) = Rep(s)
  BY DEF Element
<1> HIDE DEF s
<1> QED BY <1>1, <1>2, RepGrows, ConsumesMore DEF Consumes, Follows

LEMMA ValuedAnswers ==
  ASSUME NEW p, IsParser(p), ~Eof(p), Token(p).typ \in {"shortOpt", "longOpt"}, Token(p).val \in Declared(p)
  PROVE  Consumes(p, Valued(p))
<1> DEFINE s == Single(Next1(p), OptMatcher(Token(p).val, p.tkpos))
           v == WithValue(s)
<1>1. Consumes(p, s)
  BY MatchersOfTokens, SingleAnswers
<1>2. Valued(p) = Rep(v)
  BY DEF Valued
<1> HIDE DEF s
<1>3. Consumes(p, v) /\ IsPiece(v)
  BY <1>1, WithValueGrows, ConsumesMore DEF Consumes, Follows
<1> HIDE DEF v
<1> QED BY <1>2, <1>3, RepGrows, ConsumesMore DEF Consumes, Follows

\* What an atom returns, if the sequence in a group returned what it may.
LEMMA AtomAnswers ==
  ASSUME NEW p, IsParser(p), NEW parse,
         Is(p, "openPar") \/ Is(p, "openSq") => Answered(Group(p).r.p, parse[Group(p)])
  PROVE  Answered(p, Atom(p, parse))
<1>0. Same(p, p) /\ p.reject \in BOOLEAN
  BY Fields DEF Same
<1>1. \A msg \in Errors : Answered(p, Failed(p, msg))
  BY <1>0, FailedAnswers
<1>2. CASE Eof(p)
  <2>1. Atom(p, parse) = Failed(p, "Unexpected end of input")
    BY <1>2, AtomIs
  <2> QED BY <1>1, <2>1 DEF Errors
<1>3. CASE Is(p, "pos")
  <2>1. ~Eof(p) /\ Token(p).typ = "pos"
    BY <1>3 DEF Is
  <2>2. Token(p).val \in p.args => Consumes(p, Element(p, ArgMatcher(Token(p).val)))
    BY <2>1, MatchersOfTokens, ElementAnswers
  <2>3. Atom(p, parse) = IF Token(p).val \in p.args THEN Element(p, ArgMatcher(Token(p).val))
                         ELSE Failed(p, "Undeclared arg")
    BY <1>3, AtomIs
  <2> QED BY <1>1, <2>2, <2>3, ConsumesAnswers DEF Errors
<1>4. CASE ~Eof(p) /\ Token(p).typ \in OptTypes /\ p.reject
  <2>1. Atom(p, parse) = Failed(p, "No options after --")
    BY <1>4, AtomIs
  <2> QED BY <1>1, <2>1 DEF Errors
<1>5. CASE Is(p, "options") /\ ~p.reject
  <2>1. Atom(p, parse) = Element(p, OptsMatcher(p.options, p.tkpos)) /\ ~Eof(p)
    BY <1>5, AtomIs DEF Is
  <2>2. Consumes(p, Element(p, OptsMatcher(p.options, p.tkpos)))
    BY <2>1, MatchersOfTokens, ElementAnswers
  <2> QED BY <2>1, <2>2, ConsumesAnswers
<1>6. CASE (Is(p, "shortOpt") \/ Is(p, "longOpt")) /\ ~p.reject
  <2>1. ~Eof(p) /\ Token(p).typ \in {"shortOpt", "longOpt"}
    BY <1>6 DEF Is
  <2>2. Token(p).val \in Declared(p) => Consumes(p, Valued(p))
    BY <2>1, ValuedAnswers
  <2>3. Atom(p, parse) = IF Token(p).val \in Declared(p) THEN Valued(p) ELSE Failed(p, "Undeclared option")
    BY <1>6, AtomIs
  <2> QED BY <1>1, <2>2, <2>3, ConsumesAnswers DEF Errors
<1>7. CASE Is(p, "optSeq") /\ ~p.reject
  <2>1. ~Eof(p) /\ Token(p).typ = "optSeq"
    BY <1>7 DEF Is
  <2>2. ToSet(Token(p).val) \subseteq Declared(p) => Consumes(p, Element(p, OptsMatcher(Token(p).val, p.tkpos)))
    BY <2>1, MatchersOfTokens, ElementAnswers
  <2>3. Atom(p, parse) = IF ToSet(Token(p).val) \subseteq Declared(p)
                         THEN Element(p, OptsMatcher(Token(p).val, p.tkpos)) ELSE Failed(p, "Undeclared option")
    BY <1>7, AtomIs
  <2> QED BY <1>1, <2>2, <2>3, ConsumesAnswers DEF Errors
<1>8. CASE Is(p, "openPar") \/ Is(p, "openSq")
  <2> DEFINE g == Group(p)
             a == parse[g]
  <2>1. ~Eof(p)
    BY <1>8 DEF Is
  <2>2. Grows(p, g.r.p) /\ p.tkpos <= Len(p.tokens)
    BY <2>1, GroupIs, AtToken
  <2>3. Answered(p, a)
    BY <1>8, <2>2, AnsweredOn
  <2>4. /\ Is(p, "openPar") => Atom(p, parse) = Rep(Closed(a, "closePar"))
        /\ Is(p, "openSq") => Atom(p, parse) = Rep(Closed(Optional(a), "closeSq"))
    BY AtomIs
  <2> HIDE DEF a, g
  <2>5. Answered(p, Closed(a, "closePar"))
    BY <2>3, ClosedAnswers
  <2>6. Answered(p, Optional(a))
    BY <2>3, OptionalAnswers
  <2>7. Answered(p, Closed(Optional(a), "closeSq"))
    BY <2>6, ClosedAnswers
  <2>8. Answered(p, Rep(Closed(a, "closePar"))) /\ Answered(p, Rep(Closed(Optional(a), "closeSq")))
    BY <2>5, <2>7, RepAnswers
  <2> QED BY <1>8, <2>4, <2>8
<1>9. CASE Is(p, "dblDash")
  <2>1. Atom(p, parse) = Single([Next1(p) EXCEPT !.reject = TRUE], OptsEnd) /\ ~Eof(p)
    <3>1. ~Eof(p)
      BY <1>9 DEF Is
    <3> QED BY <1>9, <3>1, AtomIs, Zenon
  <2> DEFINE r == Single([Next1(p) EXCEPT !.reject = TRUE], OptsEnd)
  <2>2. Consumes(p, r)
    BY <2>1, DashesAnswer, Zenon
  <2>3. Atom(p, parse) = r
    BY <2>1, Zenon
  <2> HIDE DEF r
  <2> QED BY <2>2, <2>3, ConsumesAnswers
<1>10. CASE ~Eof(p) /\ ~CanAtom(p)
  <2>1. Atom(p, parse) = Failed(p, "Unexpected input")
    BY <1>10, AtomIs
  <2> QED BY <1>1, <2>1 DEF Errors
<1> QED BY <1>0, <1>2, <1>3, <1>4, <1>5, <1>6, <1>7, <1>8, <1>9, <1>10 DEF CanAtom, AtomTypes, OptTypes, Is

(***************************************************************************)
(* The calls a parse makes, and what each may return.                      *)
(***************************************************************************)
Productions == {"sequence", "components", "choice", "atom"}
Inputs(os, ts) == IsSpec(ts) /\ os \in Seq(ToSet(os))

\* The rest of the components is none if the next token starts none.
Returned(c, r) ==
  /\ r \in AnyPieces(c.r.p.args, c.r.p.options, c.r.p.tokens)
  /\ r.p.err = "" => IF c.production = "components" THEN Follows(c.r.p, r) ELSE Consumes(c.r.p, r)

\* The calls behind an alternative and behind a component.
MoreOf(r, a) == Call("choice", [Add(r, a) EXCEPT !.p = Next1(@)])
RestOf(r, c) == Call("components", AppendComp(r, c))

\* A call is made by one with more tokens left, or by one of a symbol above its own.
Left(p)  == IF p.tkpos > Len(p.tokens) + 1 THEN 0 ELSE (Len(p.tokens) + 1) - p.tkpos
Level(k) == IF k = "atom" THEN 0 ELSE IF k = "choice" THEN 1 ELSE 2
Size(c)  == 3 * Left(c.r.p) + Level(c.production)

LEMMA CallIn ==
  ASSUME NEW r, IsPiece(r), NEW k \in Productions
  PROVE  /\ Call(k, r) \in Calls(r.p.args, r.p.options, r.p.tokens)
         /\ Call(k, r).production = k /\ Call(k, r).r = r
<1>1. IsParser(r.p) /\ r = [p |-> r.p, start |-> r.start, end |-> r.end] /\ {r.start, r.end} \subseteq States(r.p)
  BY DEF IsPiece
<1>2. r.start \in Nat /\ r.end \in Nat
  <2>1. States(r.p) = 1 .. Len(r.p.tr)
    BY <1>1, Fields
  <2> QED BY <1>1, <2>1
<1>3. r \in Pieces(r.p.args, r.p.options, r.p.tokens)
  BY <1>1, <1>2 DEF Pieces, IsParser
<1> QED BY <1>3 DEF Call, Calls, Productions

IsCall(c, as, os, ts) ==
  /\ c.production \in Productions /\ IsPiece(c.r) /\ IsParser(c.r.p) /\ c = Call(c.production, c.r)
  /\ c.r.p.args = as /\ c.r.p.options = os /\ c.r.p.tokens = ts

LEMMA CallIs ==
  ASSUME NEW as, NEW os, NEW ts, NEW c \in Calls(as, os, ts), Inputs(os, ts)
  PROVE  IsCall(c, as, os, ts)
<1>1. /\ c.production \in Productions /\ c.r \in Pieces(as, os, ts) /\ c = Call(c.production, c.r)
  BY DEF Calls, Productions, Call
<1>2. c.r.p \in Parsers(as, os, ts) /\ c.r \in [p : {c.r.p}, start : States(c.r.p), end : States(c.r.p)]
  BY <1>1 DEF Pieces
<1>3. c.r.p.args = as /\ c.r.p.options = os /\ c.r.p.tokens = ts
  BY <1>2 DEF Parsers
<1>4. IsParser(c.r.p)
  BY <1>2, <1>3 DEF IsParser, Inputs
<1> QED BY <1>1, <1>2, <1>3, <1>4 DEF IsPiece, IsCall

LEMMA LeftIs ==
  ASSUME NEW p, NEW q, IsParser(p), Grows(p, q)
  PROVE  /\ Left(p) \in Nat /\ Left(q) \in Nat
         /\ p.tkpos = q.tkpos => Left(p) = Left(q)
         /\ p.tkpos < q.tkpos /\ p.tkpos <= Len(p.tokens) => Left(q) < Left(p)
<1>1. /\ p.tkpos \in Nat /\ q.tkpos \in Nat /\ Len(p.tokens) \in Nat /\ q.tokens = p.tokens
  BY Fields DEF Grows, Same
<1> DEFINE l == Len(p.tokens)
           a == p.tkpos
           b == q.tkpos
<1>2. Left(p) = (IF a > l + 1 THEN 0 ELSE (l + 1) - a) /\ Left(q) = (IF b > l + 1 THEN 0 ELSE (l + 1) - b)
  BY <1>1 DEF Left
<1> HIDE DEF l, a, b
<1>3. a \in Nat /\ b \in Nat /\ l \in Nat
  BY <1>1 DEF a, b, l
<1>4. /\ Left(p) \in Nat /\ Left(q) \in Nat /\ (a = b => Left(p) = Left(q))
      /\ a < b /\ a <= l => Left(q) < Left(p)
  BY <1>2, <1>3
<1> QED BY <1>4 DEF a, b, l

LEMMA Sizes ==
  ASSUME NEW p, NEW q, IsParser(p), Grows(p, q)
  PROVE  /\ \A k \in Productions : \A l \in Productions :
              /\ 3 * Left(p) + Level(k) \in Nat /\ 3 * Left(q) + Level(l) \in Nat
              /\ p.tkpos = q.tkpos /\ Level(l) < Level(k) => 3 * Left(q) + Level(l) < 3 * Left(p) + Level(k)
              /\ p.tkpos < q.tkpos /\ p.tkpos <= Len(p.tokens) => 3 * Left(q) + Level(l) < 3 * Left(p) + Level(k)
<1> DEFINE a == Left(p)
           b == Left(q)
<1>1. /\ a \in Nat /\ b \in Nat /\ (p.tkpos = q.tkpos => a = b)
      /\ p.tkpos < q.tkpos /\ p.tkpos <= Len(p.tokens) => b < a
  BY LeftIs
<1> HIDE DEF a, b
<1>2. \A k \in Productions : Level(k) \in 0 .. 2
  BY DEF Level
<1> SUFFICES ASSUME NEW k \in Productions, NEW l \in Productions
             PROVE  /\ 3 * a + Level(k) \in Nat /\ 3 * b + Level(l) \in Nat
                    /\ p.tkpos = q.tkpos /\ Level(l) < Level(k) => 3 * b + Level(l) < 3 * a + Level(k)
                    /\ p.tkpos < q.tkpos /\ p.tkpos <= Len(p.tokens) => 3 * b + Level(l) < 3 * a + Level(k)
  BY DEF a, b
<1> QED BY <1>1, <1>2

\* What an answer v of the alternatives is, if a is that of the first.
FromFirst(r, parse, a, v) ==
  /\ a.p.err # "" => v = a
  /\ a.p.err = "" /\ Is(Add(r, a).p, "choice") => v = parse[MoreOf(r, a)]
  /\ a.p.err = "" /\ ~Is(Add(r, a).p, "choice") => v = Add(r, a)

LEMMA AlternativesIs ==
  ASSUME NEW r, NEW parse
  PROVE  FromFirst(r, parse, parse[Call("atom", r)], Alternatives(r, parse))
<1> DEFINE a == parse[Call("atom", r)]
           d == Add(r, a)
<1>1. Alternatives(r, parse) = IF a.p.err = "" THEN More(d, parse) ELSE a
  BY DEF Alternatives
<1>2. MoreOf(r, a) = Call("choice", [d EXCEPT !.p = Next1(@)])
  BY DEF MoreOf
<1> HIDE DEF d, a
<1>3. More(d, parse) = IF Is(d.p, "choice") THEN parse[MoreOf(r, a)] ELSE d
  BY <1>2, Zenon DEF More
<1>4. FromFirst(r, parse, a, Alternatives(r, parse))
  BY <1>1, <1>3 DEF d, FromFirst
<1> QED BY <1>4 DEF a

\* Behind the alternative a the piece is b; m is the call for those behind a bar.
AddedTo(r, a, b, m) ==
  /\ Consumes(r.p, b) /\ b.p.err = "" /\ Grows(a.p, b.p) /\ b.p.tkpos = a.p.tkpos /\ b.p.reject = a.p.reject
  /\ m.production = "choice" /\ m = Call("choice", m.r) /\ IsPiece(m.r) /\ Grows(a.p, m.r.p) /\ Grows(r.p, m.r.p)
  /\ m.r.p.tkpos = a.p.tkpos + 1 /\ r.p.tkpos < m.r.p.tkpos /\ m.r.p.reject = a.p.reject

LEMMA MoreIs ==
  ASSUME NEW r, NEW a, IsPiece(r), Consumes(r.p, a)
  PROVE  AddedTo(r, a, Add(r, a), MoreOf(r, a))
<1> DEFINE d == Add(r, a)
           q == Next1(d.p)
           s == [d EXCEPT !.p = q]
<1>1. Follows(r.p, a) /\ IsParser(r.p) /\ IsParser(a.p) /\ r.p.tkpos < a.p.tkpos /\ r.p.tkpos <= Len(r.p.tokens)
  BY DEF Consumes, Follows, IsPiece
<1>2. IsPiece(d) /\ Grows(a.p, d.p) /\ Follows(r.p, d) /\ d.p.tkpos = a.p.tkpos /\ d.p.reject = a.p.reject
  BY <1>1, AddFollows
<1>3. MoreOf(r, a) = Call("choice", s)
  BY <1>2 DEF MoreOf, IsPiece
<1> HIDE DEF d
<1>4. IsParser(d.p) /\ d.p.err = "" /\ Consumes(r.p, d)
  BY <1>1, <1>2, Fields DEF IsPiece, Consumes
<1>5. Grows(d.p, q) /\ q.tkpos = d.p.tkpos + 1 /\ q.reject = d.p.reject
  BY <1>4, NextGrows
<1> HIDE DEF q
<1>6. IsPiece(s) /\ s.p = q
  BY <1>2, <1>5, PieceGrows
<1> HIDE DEF s
<1>7. MoreOf(r, a).production = "choice" /\ MoreOf(r, a).r = s
  BY <1>3 DEF Call
<1>8. Grows(a.p, q)
  BY <1>1, <1>2, <1>5, GrowsOn
<1>9. Grows(r.p, q)
  BY <1>1, <1>2, <1>5, GrowsOn DEF Follows
<1>10. r.p.tkpos < q.tkpos
  <2>1. r.p.tkpos \in Nat /\ a.p.tkpos \in Nat
    BY <1>1, Fields
  <2> QED BY <1>1, <1>2, <1>5, <2>1
<1> DEFINE m == MoreOf(r, a)
<1>11. m.production = "choice" /\ m.r = s /\ m = Call("choice", m.r) /\ s.p = q
  BY <1>3, <1>6, <1>7
<1> HIDE DEF m
<1>12. AddedTo(r, a, d, m)
  BY <1>2, <1>4, <1>5, <1>6, <1>8, <1>9, <1>10, <1>11 DEF AddedTo
<1> QED BY <1>12 DEF d, m

\* Behind the component c, m is the call for the rest of the components.
AppendedTo(r, c, m) ==
  /\ m.production = "components" /\ m = Call("components", m.r) /\ IsPiece(m.r)
  /\ Grows(c.p, m.r.p) /\ Consumes(r.p, m.r) /\ m.r.p.tkpos = c.p.tkpos /\ m.r.p.reject = c.p.reject

LEMMA RestIs ==
  ASSUME NEW r, NEW c, IsPiece(r), Consumes(r.p, c)
  PROVE  AppendedTo(r, c, RestOf(r, c))
<1> DEFINE d == AppendComp(r, c)
<1>1. Follows(r.p, c) /\ IsParser(r.p)
  BY DEF Consumes, IsPiece
<1>2. IsPiece(d) /\ Grows(c.p, d.p) /\ Follows(r.p, d) /\ d.p.tkpos = c.p.tkpos /\ d.p.reject = c.p.reject
  BY <1>1, AppendFollows
<1>3. RestOf(r, c) = Call("components", d)
  BY DEF RestOf
<1> HIDE DEF d
<1>4. Consumes(r.p, d)
  BY <1>1, <1>2, ConsumesMore
<1> QED BY <1>2, <1>3, <1>4 DEF Call, AppendedTo

AllReturned(parse, as, os, ts) == \A c \in Calls(as, os, ts) : Returned(c, parse[c])

\* The calls that are made return what they may: what a call returns goes on from its parser.
LEMMA CallReturns ==
  ASSUME NEW as, NEW os, NEW ts, NEW p, IsParser(p), p.args = as, p.options = os, p.tokens = ts,
         NEW parse, AllReturned(parse, as, os, ts),
         NEW k \in Productions, k # "components", NEW r, IsPiece(r), Grows(p, r.p)
  PROVE  /\ Call(k, r) \in Calls(as, os, ts)
         /\ Answered(r.p, parse[Call(k, r)])
<1>1. r.p.args = as /\ r.p.options = os /\ r.p.tokens = ts
  BY DEF Grows, Same
<1>2. Call(k, r) \in Calls(as, os, ts) /\ Call(k, r).production = k /\ Call(k, r).r = r
  BY <1>1, CallIn
<1>3. Returned(Call(k, r), parse[Call(k, r)])
  BY <1>2 DEF AllReturned
<1> QED BY <1>2, <1>3 DEF Returned, Answered

LEMMA AlternativesAnswer ==
  ASSUME NEW as, NEW os, NEW ts, NEW r, IsPiece(r), r.p.args = as, r.p.options = os, r.p.tokens = ts,
         NEW parse, AllReturned(parse, as, os, ts)
  PROVE  Answered(r.p, Alternatives(r, parse))
<1> DEFINE a == parse[Call("atom", r)]
<1>1. IsParser(r.p) /\ Grows(r.p, r.p)
  BY GrowsSelf DEF IsPiece
<1>2. Answered(r.p, a)
  BY <1>1, CallReturns DEF Productions
<1> DEFINE m == MoreOf(r, a)
           d == Add(r, a)
<1>3. /\ a.p.err # "" => Alternatives(r, parse) = a
      /\ a.p.err = "" /\ Is(d.p, "choice") => Alternatives(r, parse) = parse[m]
      /\ a.p.err = "" /\ ~Is(d.p, "choice") => Alternatives(r, parse) = d
  <2>1. FromFirst(r, parse, a, Alternatives(r, parse))
    BY AlternativesIs
  <2> HIDE DEF a
  <2> QED BY <2>1 DEF FromFirst
<1> HIDE DEF a
<1>4. CASE a.p.err # ""
  BY <1>2, <1>3, <1>4
<1>5. CASE a.p.err = ""
  <2>1. Consumes(r.p, a)
    BY <1>2, <1>5 DEF Answered
  <2>2. /\ Consumes(r.p, d) /\ IsPiece(m.r) /\ Grows(r.p, m.r.p) /\ m = Call("choice", m.r)
    <3>1. AddedTo(r, a, d, m)
      BY <2>1, MoreIs
    <3> QED BY <3>1 DEF AddedTo
  <2>3. Answered(r.p, d)
    BY <2>2, ConsumesAnswers
  <2> HIDE DEF m
  <2>4. Answered(m.r.p, parse[m])
    <3> DEFINE s == m.r
    <3>1. Answered(s.p, parse[Call("choice", s)])
      <4> HIDE DEF s
      <4>1. IsPiece(s) /\ Grows(r.p, s.p)
        BY <2>2 DEF s
      <4> QED BY <1>1, <4>1, CallReturns DEF Productions
    <3> QED BY <2>2, <3>1
  <2>5. r.p.tkpos <= Len(r.p.tokens)
    BY <2>1 DEF Consumes
  <2>6. Answered(r.p, parse[m])
    BY <1>1, <2>2, <2>4, <2>5, AnsweredOn
  <2> QED BY <1>3, <1>5, <2>3, <2>6
<1> QED BY <1>4, <1>5

LEMMA ComponentsAnswer ==
  ASSUME NEW as, NEW os, NEW ts, NEW r, IsPiece(r), r.p.args = as, r.p.options = os, r.p.tokens = ts,
         NEW parse, AllReturned(parse, as, os, ts), NEW required \in BOOLEAN
  PROVE  /\ required => Answered(r.p, Components(r, required, parse))
         /\ Returned(Call("components", r), Components(r, required, parse))
<1> DEFINE h == Choice(r.p)
           c == parse[h]
           m == RestOf(r, c)
<1>1. IsParser(r.p) /\ Grows(r.p, r.p)
  BY GrowsSelf DEF IsPiece
<1>2. IsPiece(h.r) /\ Grows(r.p, h.r.p) /\ h.r.p.tkpos = r.p.tkpos /\ h = Call("choice", h.r)
  BY <1>1, ChoiceIs
<1>3. /\ ~required /\ ~CanAtom(r.p) => Components(r, required, parse) = r
      /\ (required \/ CanAtom(r.p)) /\ c.p.err # "" => Components(r, required, parse) = c
      /\ (required \/ CanAtom(r.p)) /\ c.p.err = "" => Components(r, required, parse) = parse[m]
  BY Zenon DEF Components, RestOf
<1>4. Answered(h.r.p, c)
  <2> DEFINE s == h.r
  <2> HIDE DEF h
  <2>1. Answered(s.p, parse[Call("choice", s)])
    <3>1. IsPiece(s) /\ Grows(r.p, s.p)
      BY <1>2
    <3> HIDE DEF s
    <3> QED BY <1>1, <3>1, CallReturns DEF Productions
  <2> QED BY <1>2, <2>1
<1> HIDE DEF h
<1>5. Answered(r.p, c)
  <2>1. c \in AnyPieces(r.p.args, r.p.options, r.p.tokens)
    BY <1>2, <1>4 DEF Answered, Grows, Same
  <2>2. ASSUME c.p.err = "" PROVE Consumes(r.p, c)
    <3>1. Consumes(h.r.p, c)
      BY <1>4, <2>2 DEF Answered
    <3>2. Follows(r.p, c) /\ r.p.tkpos < c.p.tkpos
      BY <1>1, <1>2, <3>1, FollowsOn
    <3>3. r.p.tkpos <= Len(r.p.tokens)
      BY <1>2, <3>1 DEF Consumes, Grows, Same
    <3> QED BY <3>2, <3>3 DEF Consumes
  <2> QED BY <2>1, <2>2 DEF Answered
<1>6. Call("components", r).production = "components" /\ Call("components", r).r = r
  BY DEF Call
<1>7. ASSUME c.p.err = "" PROVE Answered(r.p, parse[m])
  <2> HIDE DEF c
  <2>1. Consumes(r.p, c)
    BY <1>5, <1>7 DEF Answered
  <2>2. IsPiece(m.r) /\ Consumes(r.p, m.r) /\ m = Call("components", m.r) /\ m.production = "components"
    <3>1. AppendedTo(r, c, m)
      BY <2>1, RestIs
    <3> QED BY <3>1 DEF AppendedTo
  <2> HIDE DEF m
  <2> DEFINE s == m.r
  <2>3. Grows(r.p, s.p) /\ IsParser(s.p)
    BY <2>2 DEF Consumes, Follows, IsPiece
  <2>4. s.p.args = as /\ s.p.options = os /\ s.p.tokens = ts
    BY <2>3 DEF Grows, Same
  <2>5. m \in Calls(as, os, ts)
    <3>1. Call("components", s) \in Calls(as, os, ts)
      <4>1. IsPiece(s)
        BY <2>2
      <4> HIDE DEF s
      <4> QED BY <2>4, <4>1, CallIn DEF Productions
    <3> QED BY <2>2, <3>1
  <2> DEFINE u == parse[m]
  <2>6. Returned(m, u)
    BY <2>5 DEF AllReturned
  <2> HIDE DEF u
  <2>7. u \in AnyPieces(as, os, ts) /\ (u.p.err = "" => Follows(s.p, u))
    BY <2>2, <2>4, <2>6 DEF Returned
  <2>8. ASSUME u.p.err = "" PROVE Consumes(r.p, u)
    <3>1. IsPiece(u) /\ Grows(s.p, u.p)
      BY <2>7, <2>8 DEF Follows
    <3> QED BY <1>1, <2>2, <3>1, ConsumesMore
  <2> QED BY <2>7, <2>8 DEF Answered, u
<1>8. Follows(r.p, r) /\ r \in AnyPieces(as, os, ts)
  BY <1>1, PiecesAreAny DEF Follows
<1> HIDE DEF c, m
<1>9. ASSUME NEW u, Answered(r.p, u) PROVE Returned(Call("components", r), u)
  BY <1>6, <1>9 DEF Answered, Returned, Consumes
<1>10. Returned(Call("components", r), r)
  BY <1>6, <1>8 DEF Returned
<1>11. CASE required \/ CanAtom(r.p)
  <2>1. Answered(r.p, Components(r, required, parse))
    BY <1>3, <1>5, <1>7, <1>11
  <2> QED BY <1>9, <2>1
<1>12. CASE ~required /\ ~CanAtom(r.p)
  BY <1>3, <1>10, <1>12
<1> QED BY <1>11, <1>12

LEMMA AnswerReturned ==
  ASSUME NEW as, NEW os, NEW ts, Inputs(os, ts), NEW c \in Calls(as, os, ts),
         NEW parse, AllReturned(parse, as, os, ts)
  PROVE  Returned(c, Answer(c, parse))
<1> DEFINE r == c.r
<1>1. /\ c.production \in Productions /\ IsPiece(r) /\ IsParser(r.p) /\ c = Call(c.production, r)
      /\ r.p.args = as /\ r.p.options = os /\ r.p.tokens = ts
  <2>1. IsCall(c, as, os, ts)
    BY CallIs
  <2> QED BY <2>1 DEF IsCall
<1>2. \A b \in BOOLEAN : /\ b => Answered(r.p, Components(r, b, parse))
                         /\ Returned(Call("components", r), Components(r, b, parse))
  <2> HIDE DEF r
  <2> QED BY <1>1, ComponentsAnswer
<1>3. \A u : c.production # "components" /\ Answered(r.p, u) => Returned(c, u)
  BY DEF Answered, Returned
<1>4. CASE c.production = "sequence"
  <2>1. Answer(c, parse) = Components(r, TRUE, parse)
    BY <1>4, Zenon DEF Answer
  <2>2. Answered(r.p, Components(r, TRUE, parse))
    BY <1>2, Zenon
  <2> QED BY <1>3, <1>4, <2>1, <2>2
<1>5. CASE c.production = "components"
  <2>1. Answer(c, parse) = Components(r, FALSE, parse)
    BY <1>5 DEF Answer
  <2>2. Returned(Call("components", r), Components(r, FALSE, parse))
    BY <1>2, Zenon
  <2>3. Call("components", r) = c
    BY <1>1, <1>5
  <2> QED BY <2>1, <2>2, <2>3, Zenon
<1>6. CASE c.production = "choice"
  <2>1. Answer(c, parse) = Alternatives(r, parse)
    BY <1>6 DEF Answer
  <2>2. Answered(r.p, Alternatives(r, parse))
    <3> HIDE DEF r
    <3> QED BY <1>1, AlternativesAnswer
  <2> QED BY <1>3, <1>6, <2>1, <2>2
<1>7. CASE c.production = "atom"
  <2>1. Answer(c, parse) = Atom(r.p, parse)
    BY <1>7 DEF Answer
  <2>2. ASSUME Is(r.p, "openPar") \/ Is(r.p, "openSq") PROVE Answered(Group(r.p).r.p, parse[Group(r.p)])
    <3> DEFINE p == r.p
               g == Group(p).r
    <3> HIDE DEF r
    <3>1. ~Eof(p)
      BY <2>2 DEF Is
    <3>2. IsPiece(g) /\ Grows(p, g.p) /\ Group(p) = Call("sequence", g)
      BY <1>1, <3>1, GroupIs
    <3> HIDE DEF g
    <3>3. Answered(g.p, parse[Call("sequence", g)])
      BY <1>1, <3>2, CallReturns DEF Productions
    <3> QED BY <3>2, <3>3 DEF g
  <2>3. Answered(r.p, Atom(r.p, parse))
    <3> HIDE DEF r
    <3> QED BY <1>1, <2>2, AtomAnswers
  <2> QED BY <1>3, <1>7, <2>1, <2>3
<1> QED BY <1>1, <1>4, <1>5, <1>6, <1>7 DEF Productions

(***************************************************************************)
(* An answer depends on the smaller calls alone, so that Parses is defined *)
(* on every call.                                                          *)
(***************************************************************************)
Agree(h, k, c, as, os, ts) == \A y \in Calls(as, os, ts) : Size(y) < Size(c) => h[y] = k[y]

Below(y, c, as, os, ts)     == y \in Calls(as, os, ts) /\ Size(y) < Size(c)
SameOn(c, h, k)             == Answer(c, h) = Answer(c, k)

\* The call of l at s is below the call c.
Onward(c, l, s) ==
  /\ IsPiece(s) /\ Grows(c.r.p, s.p) /\ l \in Productions
  /\ \/ c.r.p.tkpos = s.p.tkpos /\ Level(l) < Level(c.production)
     \/ c.r.p.tkpos < s.p.tkpos /\ c.r.p.tkpos <= Len(c.r.p.tokens)

LEMMA Smaller ==
  ASSUME NEW as, NEW os, NEW ts, NEW c, IsCall(c, as, os, ts), NEW l, NEW s, Onward(c, l, s)
  PROVE  Below(Call(l, s), c, as, os, ts)
<1> DEFINE p == c.r.p
           q == s.p
<1>2. c.production \in Productions /\ IsParser(p) /\ p.args = as /\ p.options = os /\ p.tokens = ts
  BY DEF IsCall
<1>3. q.args = as /\ q.options = os /\ q.tokens = ts
  BY <1>2 DEF Grows, Same, Onward
<1>4. Call(l, s) \in Calls(as, os, ts) /\ Call(l, s).production = l /\ Call(l, s).r = s
  BY <1>3, CallIn DEF Onward
<1>5. 3 * Left(q) + Level(l) < 3 * Left(p) + Level(c.production)
  <2> DEFINE n == c.production
  <2>1. /\ n \in Productions /\ l \in Productions /\ Grows(p, q)
        /\ \/ p.tkpos = q.tkpos /\ Level(l) < Level(n)
           \/ p.tkpos < q.tkpos /\ p.tkpos <= Len(p.tokens)
    BY <1>2 DEF Onward
  <2> HIDE DEF n, p, q
  <2>2. 3 * Left(q) + Level(l) < 3 * Left(p) + Level(n)
    BY <1>2, <2>1, Sizes
  <2> QED BY <2>2 DEF n
<1> QED BY <1>4, <1>5 DEF Size, Below

LEMMA SameAtom ==
  ASSUME NEW p, NEW h, NEW k, Is(p, "openPar") \/ Is(p, "openSq") => h[Group(p)] = k[Group(p)]
  PROVE  Atom(p, h) = Atom(p, k)
<1>1. CASE Is(p, "openPar") \/ Is(p, "openSq")
  <2>1. h[Group(p)] = k[Group(p)]
    BY <1>1
  <2> QED BY <2>1, Zenon DEF Atom, Group
<1>2. CASE ~Is(p, "openPar") /\ ~Is(p, "openSq")
  <2>1. \A parse : Atom(p, parse) =
          CASE Eof(p) -> Failed(p, "Unexpected end of input")
            [] Is(p, "pos") ->
                 IF Token(p).val \in p.args THEN Rep(Single(Next1(p), ArgMatcher(Token(p).val)))
                 ELSE Failed(p, "Undeclared arg")
            [] ~Eof(p) /\ Token(p).typ \in OptTypes /\ p.reject -> Failed(p, "No options after --")
            [] Is(p, "options") /\ ~p.reject -> Rep(Single(Next1(p), OptsMatcher(p.options, p.tkpos)))
            [] (Is(p, "shortOpt") \/ Is(p, "longOpt")) /\ ~p.reject ->
                 IF Token(p).val \in Declared(p)
                 THEN Rep(WithValue(Single(Next1(p), OptMatcher(Token(p).val, p.tkpos))))
                 ELSE Failed(p, "Undeclared option")
            [] Is(p, "optSeq") /\ ~p.reject ->
                 IF ToSet(Token(p).val) \subseteq Declared(p)
                 THEN Rep(Single(Next1(p), OptsMatcher(Token(p).val, p.tkpos)))
                 ELSE Failed(p, "Undeclared option")
            [] Is(p, "dblDash") -> Single([Next1(p) EXCEPT !.reject = TRUE], OptsEnd)
            [] OTHER -> Failed(p, "Unexpected input")
    BY <1>2 DEF Atom
  <2> QED BY <2>1, Zenon
<1> QED BY <1>1, <1>2

LEMMA SameAlternatives ==
  ASSUME NEW as, NEW os, NEW ts, NEW c, IsCall(c, as, os, ts), c.production = "choice",
         NEW h, NEW k, AllReturned(h, as, os, ts), Agree(h, k, c, as, os, ts)
  PROVE  SameOn(c, h, k)
<1> DEFINE r == c.r
           x == Call("atom", r)
           a == h[x]
           m == MoreOf(r, a)
<1>1. IsPiece(r) /\ IsParser(r.p) /\ r.p.args = as /\ r.p.options = os /\ r.p.tokens = ts
  BY DEF IsCall
<1>2. Grows(r.p, r.p)
  BY <1>1, GrowsSelf
<1>3. a = k[x]
  <2>1. Onward(c, "atom", r)
    BY <1>1, <1>2 DEF Productions, Level, Onward
  <2>2. Below(x, c, as, os, ts)
    BY <2>1, Smaller
  <2> HIDE DEF x
  <2> QED BY <2>2 DEF Below, Agree
<1>4. Answered(r.p, a)
  <2> HIDE DEF r
  <2> QED BY <1>1, <1>2, CallReturns DEF Productions
<1>5. FromFirst(r, h, a, Alternatives(r, h))
  BY AlternativesIs
<1>6. FromFirst(r, k, k[x], Alternatives(r, k))
  BY AlternativesIs
<1>7. FromFirst(r, k, a, Alternatives(r, k))
  <2> HIDE DEF a
  <2> QED BY <1>3, <1>6
<1>8. a.p.err = "" => h[m] = k[m]
  <2> SUFFICES ASSUME a.p.err = "" PROVE h[m] = k[m]
    OBVIOUS
  <2>1. Consumes(r.p, a)
    BY <1>4 DEF Answered
  <2> HIDE DEF a
  <2>2. IsPiece(m.r) /\ Grows(r.p, m.r.p) /\ r.p.tkpos < m.r.p.tkpos /\ m = Call("choice", m.r)
    <3> HIDE DEF r
    <3>1. AddedTo(r, a, Add(r, a), m)
      BY <1>1, <2>1, MoreIs
    <3> QED BY <3>1 DEF AddedTo
  <2> HIDE DEF m
  <2>3. Onward(c, "choice", m.r)
    BY <2>1, <2>2 DEF Productions, Consumes, Onward
  <2>4. Below(m, c, as, os, ts)
    <3>1. Below(Call("choice", m.r), c, as, os, ts)
      BY <2>3, Smaller
    <3> QED BY <2>2, <3>1
  <2> QED BY <2>4 DEF Below, Agree
<1>9. Alternatives(r, h) = Alternatives(r, k)
  <2> HIDE DEF a, r
  <2> QED BY <1>5, <1>7, <1>8 DEF FromFirst
<1>10. Answer(c, h) = Alternatives(c.r, h) /\ Answer(c, k) = Alternatives(c.r, k)
  BY DEF Answer
<1> HIDE DEF a, m, x
<1> QED BY <1>9, <1>10 DEF SameOn

LEMMA SameComponents ==
  ASSUME NEW as, NEW os, NEW ts, NEW c, IsCall(c, as, os, ts),
         c.production \in {"sequence", "components"},
         NEW h, NEW k, AllReturned(h, as, os, ts), Agree(h, k, c, as, os, ts)
  PROVE  SameOn(c, h, k)
<1> DEFINE r == c.r
           x == Choice(r.p)
           a == h[x]
           m == RestOf(r, a)
<1>1. IsPiece(r) /\ IsParser(r.p) /\ r.p.args = as /\ r.p.options = os /\ r.p.tokens = ts
  BY DEF IsCall
<1>2. IsPiece(x.r) /\ Grows(r.p, x.r.p) /\ x.r.p.tkpos = r.p.tkpos /\ x = Call("choice", x.r)
  <2> HIDE DEF r
  <2> QED BY <1>1, ChoiceIs
<1>x. x = Choice(r.p)
  OBVIOUS
<1> HIDE DEF x
<1>3. a = k[x] /\ Answered(x.r.p, a)
  <2> DEFINE s == x.r
  <2>1. Onward(c, "choice", s) /\ x = Call("choice", s)
    BY <1>2 DEF Productions, Level, Onward
  <2> HIDE DEF s
  <2>2. Below(x, c, as, os, ts)
    <3>1. Below(Call("choice", s), c, as, os, ts)
      BY <2>1, Smaller
    <3> QED BY <2>1, <3>1
  <2>3. a = k[x]
    BY <2>2 DEF Below, Agree
  <2>4. Answered(s.p, h[Call("choice", s)])
    <3> DEFINE p == r.p
    <3>1. IsPiece(s) /\ Grows(p, s.p) /\ IsParser(p) /\ p.args = as /\ p.options = os /\ p.tokens = ts
      BY <1>1, <1>2 DEF s
    <3> HIDE DEF p
    <3> QED BY <3>1, CallReturns DEF Productions
  <2> QED BY <2>1, <2>3, <2>4 DEF s
<1> DEFINE Goes(b, f) == IF b \/ CanAtom(r.p) THEN (IF a.p.err = "" THEN f[m] ELSE a) ELSE r
<1>4. \A b : Components(r, b, h) = Goes(b, h)
  BY <1>x, Zenon DEF Components, RestOf
<1>5. \A b : Components(r, b, k) = Goes(b, k)
  BY <1>3, <1>x, Zenon DEF Components, RestOf
<1>6. a.p.err = "" => h[m] = k[m]
  <2> SUFFICES ASSUME a.p.err = "" PROVE h[m] = k[m]
    OBVIOUS
  <2>1. Consumes(x.r.p, a)
    BY <1>3 DEF Answered
  <2> HIDE DEF a
  <2>2. Follows(r.p, a) /\ r.p.tkpos < a.p.tkpos /\ r.p.tkpos <= Len(r.p.tokens)
    <3> DEFINE p == r.p
               q == x.r.p
    <3>1. Grows(p, q) /\ Consumes(q, a) /\ IsParser(p) /\ q.tkpos = p.tkpos /\ q.tkpos <= Len(q.tokens)
      BY <1>1, <1>2, <2>1 DEF Consumes
    <3> HIDE DEF p, q
    <3>2. Follows(p, a) /\ p.tkpos < a.p.tkpos
      BY <3>1, FollowsOn
    <3>3. p.tkpos <= Len(p.tokens)
      BY <3>1 DEF Grows, Same
    <3> QED BY <3>2, <3>3 DEF p
  <2>3. IsPiece(m.r) /\ Consumes(r.p, m.r) /\ m = Call("components", m.r)
    <3>1. Consumes(r.p, a)
      BY <2>2 DEF Consumes
    <3> HIDE DEF r
    <3>2. AppendedTo(r, a, m)
      BY <1>1, <3>1, RestIs
    <3> QED BY <3>2 DEF AppendedTo
  <2> HIDE DEF m
  <2>4. Onward(c, "components", m.r)
    BY <2>3 DEF Consumes, Follows, Onward, Productions
  <2>5. Below(m, c, as, os, ts)
    <3>1. Below(Call("components", m.r), c, as, os, ts)
      BY <2>4, Smaller
    <3> QED BY <2>3, <3>1
  <2> QED BY <2>5 DEF Below, Agree
<1> HIDE DEF a, m
<1>7. \A b : Goes(b, h) = Goes(b, k)
  BY <1>6, Zenon
<1> HIDE DEF Goes
<1>8. \A b : Components(r, b, h) = Components(r, b, k)
  BY <1>4, <1>5, <1>7, Zenon
<1>9. \A parse : /\ c.production = "sequence" => Answer(c, parse) = Components(r, TRUE, parse)
                 /\ c.production = "components" => Answer(c, parse) = Components(r, FALSE, parse)
  <2>1. c.production = "components" => c.production # "sequence"
    OBVIOUS
  <2> QED BY <2>1, Zenon DEF Answer
<1>10. CASE c.production = "sequence"
  BY <1>8, <1>9, <1>10, Zenon DEF SameOn
<1>11. CASE c.production = "components"
  BY <1>8, <1>9, <1>11, Zenon DEF SameOn
<1> QED BY <1>10, <1>11

LEMMA SameAnswer ==
  ASSUME NEW as, NEW os, NEW ts, NEW c, IsCall(c, as, os, ts),
         NEW h, NEW k, AllReturned(h, as, os, ts), Agree(h, k, c, as, os, ts)
  PROVE  SameOn(c, h, k)
<1>1. c.production \in Productions /\ IsPiece(c.r) /\ IsParser(c.r.p)
  BY DEF IsCall
<1>2. CASE c.production \in {"sequence", "components"}
  BY <1>2, SameComponents
<1>3. CASE c.production = "choice"
  BY <1>3, SameAlternatives
<1>4. CASE c.production = "atom"
  <2>1. \A parse : Answer(c, parse) = Atom(c.r.p, parse)
    BY <1>4 DEF Answer
  <2> DEFINE p == c.r.p
             g == Group(p)
  <2>2. ASSUME ~Eof(p) PROVE h[g] = k[g]
    <3>0. IsParser(p)
      BY <1>1
    <3>1. /\ IsPiece(g.r) /\ Grows(p, g.r.p) /\ g = Call("sequence", g.r)
          /\ g.r.p.tkpos = p.tkpos + 1 /\ p.tkpos \in Nat /\ p.tkpos <= Len(p.tokens)
      <4> HIDE DEF p
      <4> QED BY <3>0, <2>2, GroupIs, Fields, AtToken
    <3> HIDE DEF g
    <3>2. p.tkpos < g.r.p.tkpos
      BY <3>1
    <3>3. Onward(c, "sequence", g.r)
      BY <3>1, <3>2 DEF Onward, Productions
    <3>4. Below(g, c, as, os, ts)
      <4>1. Below(Call("sequence", g.r), c, as, os, ts)
        BY <3>3, Smaller
      <4> QED BY <3>1, <4>1
    <3> QED BY <3>4 DEF Below, Agree
  <2>3. Is(p, "openPar") \/ Is(p, "openSq") => h[g] = k[g]
    BY <2>2 DEF Is
  <2>4. Atom(p, h) = Atom(p, k)
    <3> HIDE DEF p
    <3> QED BY <2>3, SameAtom
  <2> QED BY <2>1, <2>4 DEF SameOn
<1> QED BY <1>1, <1>2, <1>3, <1>4 DEF Productions

IsParse(parse, as, os, ts) ==
  /\ AllReturned(parse, as, os, ts)
  /\ \A c \in Calls(as, os, ts) : parse[c] = Answer(c, parse)

\* Parses is a function that answers every call as the body of its production does
\* (uParser.seq, choice and atom), and without an error has read on.
THEOREM ParsesAnswer ==
  ASSUME NEW as, NEW os, NEW ts, Inputs(os, ts)
  PROVE  IsParse(Parses(as, os, ts), as, os, ts)
<1> DEFINE D == Calls(as, os, ts)
           U == AnyPieces(as, os, ts)
           T == [c \in D |-> {u \in U : Returned(c, u)}]
           G == [x \in D \X [D -> U] |-> Answer(x[1], x[2])]
           rank == [c \in D |-> Size(c)]
<1>1. \A c \in D : IsCall(c, as, os, ts)
  BY CallIs
<1>2. \A h \in Within(D, U, T) : AllReturned(h, as, os, ts) /\ h \in [D -> U]
  BY DEF Within, AllReturned
<1>3. \A h : AllReturned(h, as, os, ts) => \A c \in D : Returned(c, Answer(c, h))
  BY AnswerReturned
<1>4. \A c \in D : T[c] = {u \in U : Returned(c, u)}
  OBVIOUS
<1>5. \A c \in D : \A u : Returned(c, u) => u \in U
  BY <1>1 DEF IsCall, Returned
<1>6. \A c \in D : T[c] # {}
  <2> TAKE c \in D
  <2> DEFINE p == c.r.p
             u == Failed(p, "Unexpected input")
  <2>1. IsParser(p)
    BY <1>1 DEF IsCall
  <2>2. Answered(p, u) /\ u.p.err # ""
    <3> HIDE DEF p
    <3> QED BY <2>1, FailedAnswers DEF Same, Errors
  <2> HIDE DEF u
  <2>3. Returned(c, u)
    BY <2>2 DEF Returned, Answered
  <2> QED BY <1>4, <1>5, <2>3
<1>7. T \in [D -> (SUBSET U) \ {{}}]
  BY <1>4, <1>6
<1>8. rank \in [D -> Nat] /\ \A c \in D : rank[c] = Size(c)
  <2>1. \A c \in D : Size(c) \in Nat
    <3> TAKE c \in D
    <3> DEFINE p == c.r.p
    <3>1. IsParser(p) /\ c.production \in Productions
      BY <1>1 DEF IsCall
    <3>2. 3 * Left(p) + Level(c.production) \in Nat
      <4> DEFINE n == c.production
      <4>1. n \in Productions
        BY <3>1
      <4> HIDE DEF n, p
      <4>2. 3 * Left(p) + Level(n) \in Nat
        BY <3>1, <4>1, GrowsSelf, Sizes
      <4> QED BY <4>2 DEF n
    <3> QED BY <3>2 DEF Size
  <2> QED BY <2>1
<1>9. \A c \in D : \A h \in [D -> U] : G[<<c, h>>] = Answer(c, h)
  <2> HIDE DEF D, U
  <2> QED OBVIOUS
<1> HIDE DEF G
<1>10. \A c \in D : \A h \in Within(D, U, T) : G[<<c, h>>] \in T[c]
  <2> TAKE c \in D
  <2> TAKE h \in Within(D, U, T)
  <2>1. AllReturned(h, as, os, ts) /\ h \in [D -> U]
    BY <1>2
  <2>2. Returned(c, Answer(c, h))
    BY <1>3, <2>1
  <2> QED BY <1>4, <1>5, <1>9, <2>1, <2>2
<1>11. ASSUME NEW c \in D, NEW h, NEW k, AllReturned(h, as, os, ts), \A y \in D : rank[y] < rank[c] => h[y] = k[y]
       PROVE  Answer(c, h) = Answer(c, k)
  <2>1. Agree(h, k, c, as, os, ts) /\ IsCall(c, as, os, ts)
    BY <1>1, <1>8, <1>11 DEF Agree
  <2>2. SameOn(c, h, k)
    BY <1>11, <2>1, SameAnswer
  <2> QED BY <2>2 DEF SameOn
<1>12. \A c \in D : \A h, k \in Within(D, U, T) :
         (\A y \in D : rank[y] < rank[c] => h[y] = k[y]) => G[<<c, h>>] = G[<<c, k>>]
  <2> SUFFICES ASSUME NEW c \in D, NEW h \in Within(D, U, T), NEW k \in Within(D, U, T),
                      \A y \in D : rank[y] < rank[c] => h[y] = k[y]
               PROVE  G[<<c, h>>] = G[<<c, k>>]
    BY Zenon
  <2>1. AllReturned(h, as, os, ts) /\ h \in [D -> U] /\ k \in [D -> U]
    BY <1>2
  <2> HIDE DEF D, U, T, rank
  <2>2. Answer(c, h) = Answer(c, k)
    BY <1>11, <2>1
  <2> QED BY <1>9, <2>1, <2>2
<1>13. U # {}
  <2> HIDE DEF U
  <2>1. CASE D = {}
    <3> DEFINE q == [args |-> as, options |-> os, tokens |-> ts, tkpos |-> 1, reject |-> FALSE, err |-> "", tr |-> <<>>]
    <3> HIDE DEF D
    <3>1. Piece(q, 0, 0) \in U
      <4>1. q \in AnyParsers(as, os, ts)
        BY EmptySeq, Zenon DEF AnyParsers
      <4> HIDE DEF q
      <4> QED BY <4>1 DEF U, AnyPieces, Piece
    <3> QED BY <3>1
  <2>2. CASE D # {}
    <3> HIDE DEF D, T
    <3> QED BY <1>7, <2>2
  <2> QED BY <2>1, <2>2
<1> HIDE DEF D, U, T, rank
<1>14. RankedWithin(D, U, T, rank, G)
  BY <1>7, <1>8, <1>10, <1>12 DEF RankedWithin
<1>15. PICK f \in Within(D, U, T) : \A c \in D : f[c] = G[<<c, f>>]
  BY <1>13, <1>14, RecursionWithin
<1>16. AllReturned(f, as, os, ts) /\ f \in [D -> U] /\ \A c \in D : f[c] = Answer(c, f)
  BY <1>2, <1>9, <1>15
<1> DEFINE parse == CHOOSE g : g = [c \in D |-> Answer(c, g)]
<1>17. f = [c \in D |-> Answer(c, f)]
  BY <1>16
<1>18. parse = [c \in D |-> Answer(c, parse)]
  BY <1>17, Zenon
<1>19. Parses(as, os, ts) = parse
  BY Zenon DEF Parses, D
<1> HIDE DEF parse
<1>20. \A c \in D : parse[c] = Answer(c, parse)
  BY <1>18, Zenon
<1> DEFINE S == {c \in D : parse[c] = f[c]}
<1>21. ASSUME NEW c \in D, \A y \in D : rank[y] < rank[c] => y \in S PROVE c \in S
  <2>1. \A y \in D : rank[y] < rank[c] => f[y] = parse[y]
    BY <1>21
  <2>2. Answer(c, f) = Answer(c, parse)
    BY <1>11, <1>16, <2>1
  <2> QED BY <1>16, <1>20, <2>2
<1>22. D \subseteq S
  <2> HIDE DEF S
  <2> QED BY <1>8, <1>21, RankInduction
<1>23. \A c \in D : Returned(c, parse[c])
  BY <1>16, <1>22 DEF AllReturned, D
<1> QED BY <1>19, <1>20, <1>23 DEF IsParse, AllReturned, D

(***************************************************************************)
(* What a parse begins with and ends with.                                 *)
(***************************************************************************)
First(as, os, ts) == Sequence(Parser(as, os, ts), "components")

AtStart(p, as, os, ts) ==
  /\ IsParser(p) /\ p.args = as /\ p.options = os /\ p.tokens = ts /\ p.tkpos = 1 /\ ~p.reject
  /\ Made(p)

\* The automaton g is the result of a parse whose last piece is r, which began at c.
Results(g, r, c) ==
  /\ g.err = "" <=> r.p.err = "" /\ Eof(r.p)
  /\ g.err = "" => g.tr = r.p.tr /\ g.start = r.start /\ g.terminal = {r.end} /\ Follows(c.r.p, r)

LEMMA ParserIs ==
  ASSUME NEW as, NEW os, NEW ts, Inputs(os, ts)
  PROVE  AtStart(Parser(as, os, ts), as, os, ts)
<1> DEFINE p == Parser(as, os, ts)
<1>1. \A b \in BOOLEAN : [args |-> as, options |-> os, tokens |-> ts, tkpos |-> 1, reject |-> b, err |-> "", tr |-> <<>>]
                           \in Parsers(as, os, ts)
  <2>1. <<>> \in Seq(Seq([m : Matchers(as, os), next : Nat])) /\ 1 \in Nat \ {0}
    BY EmptySeq
  <2> QED BY <2>1 DEF Parsers
<1>2. p \in Parsers(as, os, ts)
  BY <1>1, Zenon DEF Parser
<1>3. p.args = as /\ p.options = os /\ p.tokens = ts /\ p.tkpos = 1 /\ p.tr = <<>>
  BY DEF Parser
<1>4. ~p.reject
  BY DEF Parser
<1> HIDE DEF p
<1>5. IsParser(p)
  BY <1>2, <1>3 DEF IsParser, Inputs
<1>6. Made(p)
  <2>1. Len(p.tr) = 0
    BY <1>3
  <2>2. States(p) = {}
    BY <2>1 DEF States
  <2> QED BY <2>2 DEF Made, WaitsForTokens
<1> QED BY <1>3, <1>4, <1>5, <1>6 DEF p, AtStart

LEMMA FirstIs ==
  ASSUME NEW as, NEW os, NEW ts, Inputs(os, ts)
  PROVE  /\ First(as, os, ts) \in Calls(as, os, ts) /\ IsCall(First(as, os, ts), as, os, ts)
         /\ First(as, os, ts).production = "components" /\ AtStart(First(as, os, ts).r.p, as, os, ts)
<1> DEFINE p == Parser(as, os, ts)
           c == First(as, os, ts)
<1>1. /\ IsParser(p) /\ p.args = as /\ p.options = os /\ p.tokens = ts /\ p.tkpos = 1 /\ ~p.reject
      /\ Made(p)
  <2>1. AtStart(p, as, os, ts)
    BY ParserIs
  <2> HIDE DEF p
  <2> QED BY <2>1 DEF AtStart
<1> HIDE DEF p
<1>2. c = Sequence(p, "components")
  BY DEF First, p
<1>3. /\ c.production = "components" /\ IsPiece(c.r) /\ Grows(p, c.r.p) /\ c.r.p.tkpos = 1
      /\ ~c.r.p.reject /\ c = Call("components", c.r)
  BY <1>1, <1>2, SequenceIs
<1> HIDE DEF c
<1>4. c.r.p.args = as /\ c.r.p.options = os /\ c.r.p.tokens = ts /\ Made(c.r.p)
  BY <1>1, <1>3 DEF Grows, Same
<1>5. c \in Calls(as, os, ts)
  <2> DEFINE s == c.r
  <2>1. Call("components", s) \in Calls(as, os, ts)
    <3>1. IsPiece(s) /\ s.p.args = as /\ s.p.options = os /\ s.p.tokens = ts
      BY <1>3, <1>4
    <3> HIDE DEF s
    <3> QED BY <3>1, CallIn DEF Productions
  <2> QED BY <1>3, <2>1
<1>6. IsCall(c, as, os, ts)
  BY <1>5, CallIs
<1>7. AtStart(c.r.p, as, os, ts)
  BY <1>3, <1>4 DEF AtStart, IsPiece
<1> QED BY <1>3, <1>5, <1>6, <1>7 DEF c

\* A parse without an error: its last piece comes to the end of the tokens.
LEMMA ParsedIs ==
  ASSUME NEW as, NEW os, NEW ts, Inputs(os, ts)
  PROVE  Results(UParse(as, os, ts), Parses(as, os, ts)[First(as, os, ts)], First(as, os, ts))
<1> DEFINE c == First(as, os, ts)
           parse == Parses(as, os, ts)
           r == parse[c]
           g == UParse(as, os, ts)
<1>1. c \in Calls(as, os, ts) /\ c.production = "components" /\ IsCall(c, as, os, ts)
  BY FirstIs
<1>2. g = Result(Whole(r))
  BY DEF UParse, First
<1>3. Returned(c, r)
  <2> HIDE DEF c
  <2> QED BY <1>1, ParsesAnswer DEF IsParse, AllReturned
<1> HIDE DEF g, c, parse
<1>4. r \in AnyPieces(as, os, ts) /\ (r.p.err = "" => Follows(c.r.p, r))
  BY <1>1, <1>3 DEF Returned, IsCall
<1> HIDE DEF r
<1>5. ASSUME r.p.err = "" /\ Eof(r.p) PROVE Results(g, r, c)
  <2>1. Whole(r) = r
    BY <1>5 DEF Whole
  <2> QED BY <1>2, <1>4, <1>5, <2>1 DEF Result, Results
<1>6. ASSUME r.p.err = "" /\ ~Eof(r.p) PROVE Results(g, r, c)
  <2> DEFINE f == [r EXCEPT !.p = Fail(r.p, "Unexpected input")]
  <2>1. Whole(r) = f
    BY <1>4, <1>6 DEF Whole, AnyPieces
  <2>2. f.p.err # ""
    <3>1. Follows(c.r.p, r) /\ "Unexpected input" \in Errors
      BY <1>4, <1>6 DEF Errors
    <3> QED BY <3>1, FailedPiece
  <2> HIDE DEF f
  <2>3. g.err # ""
    BY <1>2, <2>1, <2>2 DEF Result
  <2> QED BY <1>6, <2>3 DEF Results
<1>7. ASSUME r.p.err # "" PROVE Results(g, r, c)
  <2>1. Whole(r) = r
    BY <1>7 DEF Whole
  <2>2. g.err # ""
    BY <1>2, <1>7, <2>1 DEF Result
  <2> QED BY <1>7, <2>2 DEF Results
<1>8. Results(g, r, c)
  BY <1>5, <1>6, <1>7
<1> QED BY <1>8 DEF g, r, c, parse

\* The automaton waits for nothing but declared options and arguments that a token
\* of the spec stands for.
THEOREM ParsedWaits ==
  ASSUME NEW as, NEW os, NEW ts, Inputs(os, ts), UParse(as, os, ts).err = ""
  PROVE  WaitsForTokens(UParse(as, os, ts), as, os, ts)
<1> DEFINE c == First(as, os, ts)
           r == Parses(as, os, ts)[c]
           g == UParse(as, os, ts)
<1>1. g.tr = r.p.tr /\ Follows(c.r.p, r)
  <2>1. Results(g, r, c)
    BY ParsedIs
  <2> HIDE DEF r, c
  <2> QED BY <2>1 DEF Results
<1>2. Made(c.r.p) /\ c.r.p.args = as /\ c.r.p.options = os /\ c.r.p.tokens = ts
  <2>1. AtStart(c.r.p, as, os, ts)
    BY FirstIs
  <2> HIDE DEF c
  <2> QED BY <2>1 DEF AtStart
<1> HIDE DEF g, r, c
<1>3. Made(r.p) /\ r.p.args = as /\ r.p.options = os /\ r.p.tokens = ts
  BY <1>1, <1>2 DEF Follows, Grows, Same
<1>4. WaitsForTokens(g, as, os, ts)
  BY <1>1, <1>3 DEF Made, WaitsForTokens, States
<1> QED BY <1>4 DEF g

(***************************************************************************)
(* The grammar: what derives from each symbol.                             *)
(***************************************************************************)
Order(k)    == CASE k = "item" -> 0 [] k = "atom" -> 1 [] k = "choice" -> 2 [] k = "sequence" -> 3 [] k = "spec" -> 4
Width(i, j) == IF i <= j THEN j - i ELSE 0
Depth(x)    == 5 * Width(x[2], x[3]) + Order(x[1])

LEMMA Depths ==
  ASSUME NEW n \in Nat, NEW i \in 1 .. n, NEW j \in 1 .. n, NEW l \in 1 .. n, NEW m \in 1 .. n,
         NEW k \in Symbols, NEW h \in Symbols
  PROVE  /\ Depth(<<k, i, j>>) \in Nat
         /\ Order(h) < Order(k) /\ l = i /\ m = j => Depth(<<h, l, m>>) < Depth(<<k, i, j>>)
         /\ i <= l /\ l <= m /\ m <= j /\ (i < l \/ m < j) => Depth(<<h, l, m>>) < Depth(<<k, i, j>>)
<1>1. Order(k) \in 0 .. 4 /\ Order(h) \in 0 .. 4
  BY DEF Order, Symbols
<1>2. Width(i, j) \in Nat /\ Width(l, m) \in Nat
  BY DEF Width
<1>3. i <= l /\ l <= m /\ m <= j /\ (i < l \/ m < j) => Width(l, m) + 1 <= Width(i, j)
  BY DEF Width
<1>4. l = i /\ m = j => Width(l, m) = Width(i, j)
  OBVIOUS
<1>5. Depth(<<k, i, j>>) = 5 * Width(i, j) + Order(k) /\ Depth(<<h, l, m>>) = 5 * Width(l, m) + Order(h)
  BY DEF Depth
<1> QED BY <1>1, <1>2, <1>3, <1>4, <1>5

\* What the rule of a symbol asks for is below it.
LEMMA RuleBelow ==
  ASSUME NEW s, Len(s) \in Nat, NEW k \in Symbols, NEW i \in 1 .. Len(s) + 1, NEW j \in 1 .. Len(s) + 1,
         NEW d, NEW e, \A y \in Spans(s) : Depth(y) < Depth(<<k, i, j>>) => d[y] = e[y]
  PROVE  Rule(s, k, i, j, d) = Rule(s, k, i, j, e)
<1> DEFINE n == Len(s) + 1
<1>0. n \in Nat /\ i \in 1 .. n /\ j \in 1 .. n
  OBVIOUS
<1>1. ASSUME NEW h \in Symbols, Order(h) < Order(k) PROVE d[<<h, i, j>>] = e[<<h, i, j>>]
  BY <1>0, <1>1, Depths DEF Spans
<1>2. ASSUME NEW h \in Symbols, NEW l \in 1 .. n, NEW m \in 1 .. n, i <= l, l <= m, m <= j, i < l \/ m < j
      PROVE  d[<<h, l, m>>] = e[<<h, l, m>>]
  BY <1>0, <1>2, Depths DEF Spans
<1>3. CASE k = "spec"
  <2>1. d[<<"sequence", i, j>>] = e[<<"sequence", i, j>>]
    BY <1>1, <1>3 DEF Order, Symbols
  <2> QED BY <1>3, <2>1 DEF Rule
<1>4. CASE k = "sequence"
  <2>1. d[<<"choice", i, j>>] = e[<<"choice", i, j>>]
    BY <1>1, <1>4 DEF Order, Symbols
  <2>2. \A m \in i + 1 .. j - 1 : /\ d[<<"choice", i, m>>] = e[<<"choice", i, m>>]
                                  /\ d[<<"sequence", m, j>>] = e[<<"sequence", m, j>>]
    BY <1>0, <1>2 DEF Symbols
  <2> QED BY <1>4, <2>1, <2>2 DEF Rule
<1>5. CASE k = "choice"
  <2>1. d[<<"atom", i, j>>] = e[<<"atom", i, j>>]
    BY <1>1, <1>5 DEF Order, Symbols
  <2>2. \A m \in i + 1 .. j - 2 : /\ d[<<"atom", i, m>>] = e[<<"atom", i, m>>]
                                  /\ d[<<"choice", m + 1, j>>] = e[<<"choice", m + 1, j>>]
    BY <1>0, <1>2 DEF Symbols
  <2> QED BY <1>5, <2>1, <2>2 DEF Rule
<1>6. CASE k = "atom"
  <2>1. d[<<"item", i, j>>] = e[<<"item", i, j>>]
    BY <1>1, <1>6 DEF Order, Symbols
  <2>2. j > i + 1 => d[<<"item", i, j - 1>>] = e[<<"item", i, j - 1>>]
    BY <1>0, <1>2 DEF Symbols
  <2> QED BY <1>6, <2>1, <2>2 DEF Rule
<1>7. CASE k = "item"
  <2>1. j > i + 2 => d[<<"sequence", i + 1, j - 1>>] = e[<<"sequence", i + 1, j - 1>>]
    BY <1>0, <1>2 DEF Symbols
  <2> QED BY <1>7, <2>1 DEF Rule
<1> QED BY <1>3, <1>4, <1>5, <1>6, <1>7 DEF Symbols

LEMMA RuleIs ==
  ASSUME NEW s, NEW k \in Symbols, NEW i, NEW j, NEW d
  PROVE  Rule(s, k, i, j, d) \in BOOLEAN
BY DEF Rule, Symbols

LEMMA Derived ==
  ASSUME NEW s, Len(s) \in Nat
  PROVE  \A x \in Spans(s) : Derivations(s)[x] = Rule(s, x[1], x[2], x[3], Derivations(s))
<1> DEFINE D == Spans(s)
           G == [y \in D \X [D -> BOOLEAN] |-> Rule(s, y[1][1], y[1][2], y[1][3], y[2])]
           rank == [x \in D |-> Depth(x)]
<1>1. \A x \in D : x = <<x[1], x[2], x[3]>> /\ x[1] \in Symbols /\ x[2] \in 1 .. Len(s) + 1 /\ x[3] \in 1 .. Len(s) + 1
  BY DEF Spans
<1>2. \A x \in D : Depth(x) \in Nat
  BY <1>1, Depths
<1>3. \A x \in D, h \in [D -> BOOLEAN] : G[<<x, h>>] = Rule(s, x[1], x[2], x[3], h)
  OBVIOUS
<1>4. \A x \in D, h, k \in [D -> BOOLEAN] :
        (\A y \in D : rank[y] < rank[x] => h[y] = k[y]) => G[<<x, h>>] = G[<<x, k>>]
  <2> SUFFICES ASSUME NEW x \in D, NEW h \in [D -> BOOLEAN], NEW k \in [D -> BOOLEAN],
                      \A y \in D : Depth(y) < Depth(x) => h[y] = k[y]
               PROVE  Rule(s, x[1], x[2], x[3], h) = Rule(s, x[1], x[2], x[3], k)
    BY <1>3
  <2> QED BY <1>1, RuleBelow
<1>5. G \in [D \X [D -> BOOLEAN] -> BOOLEAN]
  BY <1>1, RuleIs
<1>6. rank \in [D -> Nat]
  BY <1>2
<1>7. Ranked(D, BOOLEAN, rank, G)
  <2> HIDE DEF D, G, rank
  <2> QED BY <1>4, <1>5, <1>6 DEF Ranked
<1>8. PICK f : Computed(f, D, BOOLEAN, G)
  <2> HIDE DEF D, G, rank
  <2> QED BY <1>7, Recursion
<1>9. f = [x \in Spans(s) |-> Rule(s, x[1], x[2], x[3], f)]
  BY <1>3, <1>8 DEF Computed
<1>10. Derivations(s) = CHOOSE d : d = [x \in Spans(s) |-> Rule(s, x[1], x[2], x[3], d)]
  BY DEF Derivations
<1>11. Derivations(s) = [x \in Spans(s) |-> Rule(s, x[1], x[2], x[3], Derivations(s))]
  BY <1>9, <1>10, Zenon
<1> QED BY <1>11

Places(s) == 1 .. Len(s) + 1

LEMMA Rules ==
  ASSUME NEW s, Len(s) \in Nat, NEW i \in Places(s), NEW j \in Places(s)
  PROVE  /\ Derives(s, "spec", i, j) <=> i = j \/ Derives(s, "sequence", i, j)
         /\ Derives(s, "sequence", i, j) <=>
              Derives(s, "choice", i, j) \/ \E m \in i + 1 .. j - 1 : Derives(s, "choice", i, m) /\ Derives(s, "sequence", m, j)
         /\ Derives(s, "choice", i, j) <=>
              \/ Derives(s, "atom", i, j)
              \/ \E m \in i + 1 .. j - 2 :
                   s[m].typ = "choice" /\ Derives(s, "atom", i, m) /\ Derives(s, "choice", m + 1, j)
         /\ Derives(s, "atom", i, j) <=>
              \/ j = i + 1 /\ s[i].typ = "dblDash"
              \/ Derives(s, "item", i, j)
              \/ j > i + 1 /\ s[j - 1].typ = "rep" /\ Derives(s, "item", i, j - 1)
         /\ Derives(s, "item", i, j) <=>
              \/ j = i + 1 /\ s[i].typ \in {"pos", "options", "shortOpt", "longOpt", "optSeq"}
              \/ j = i + 2 /\ s[i].typ \in {"shortOpt", "longOpt"} /\ s[i + 1].typ = "optValue"
              \/ /\ j > i + 2
                 /\ <<s[i].typ, s[j - 1].typ>> \in {<<"openPar", "closePar">>, <<"openSq", "closeSq">>}
                 /\ Derives(s, "sequence", i + 1, j - 1)
<1>1. ASSUME NEW k \in Symbols PROVE Derives(s, k, i, j) = Rule(s, k, i, j, Derivations(s))
  <2>1. <<k, i, j>> \in Spans(s)
    BY DEF Spans, Places
  <2> QED BY <2>1, Derived DEF Derives
<1>2. /\ Derives(s, "spec", i, j) = Rule(s, "spec", i, j, Derivations(s))
      /\ Derives(s, "sequence", i, j) = Rule(s, "sequence", i, j, Derivations(s))
      /\ Derives(s, "choice", i, j) = Rule(s, "choice", i, j, Derivations(s))
      /\ Derives(s, "atom", i, j) = Rule(s, "atom", i, j, Derivations(s))
      /\ Derives(s, "item", i, j) = Rule(s, "item", i, j, Derivations(s))
  BY <1>1 DEF Symbols
<1>3. Derives(s, "spec", i, j) <=> i = j \/ Derives(s, "sequence", i, j)
  BY <1>2 DEF Rule, Derives
<1>4. Derives(s, "sequence", i, j) <=>
        Derives(s, "choice", i, j) \/ \E m \in i + 1 .. j - 1 : Derives(s, "choice", i, m) /\ Derives(s, "sequence", m, j)
  BY <1>2 DEF Rule, Derives
<1>5. Derives(s, "choice", i, j) <=>
        \/ Derives(s, "atom", i, j)
        \/ \E m \in i + 1 .. j - 2 : s[m].typ = "choice" /\ Derives(s, "atom", i, m) /\ Derives(s, "choice", m + 1, j)
  BY <1>2 DEF Rule, Derives
<1>6. Derives(s, "atom", i, j) <=>
        \/ j = i + 1 /\ s[i].typ = "dblDash"
        \/ Derives(s, "item", i, j)
        \/ j > i + 1 /\ s[j - 1].typ = "rep" /\ Derives(s, "item", i, j - 1)
  BY <1>2 DEF Rule, Derives
<1>7. Derives(s, "item", i, j) <=>
        \/ j = i + 1 /\ s[i].typ \in {"pos", "options", "shortOpt", "longOpt", "optSeq"}
        \/ j = i + 2 /\ s[i].typ \in {"shortOpt", "longOpt"} /\ s[i + 1].typ = "optValue"
        \/ /\ j > i + 2
           /\ <<s[i].typ, s[j - 1].typ>> \in {<<"openPar", "closePar">>, <<"openSq", "closeSq">>}
           /\ Derives(s, "sequence", i + 1, j - 1)
  BY <1>2 DEF Rule, Derives
<1> QED BY <1>3, <1>4, <1>5, <1>6, <1>7

\* Whatever derives from a symbol other than the spec begins with a token that may start an atom.
LEMMA Starts ==
  ASSUME NEW s, Len(s) \in Nat, NEW i \in Places(s), NEW j \in Places(s),
         NEW k \in {"item", "atom", "choice", "sequence"}, Derives(s, k, i, j)
  PROVE  i < j /\ s[i].typ \in AtomTypes
<1>0. i \in Nat /\ j \in Nat
  BY DEF Places
<1>1. ASSUME NEW m \in Places(s), Derives(s, "item", i, m) PROVE i < m /\ s[i].typ \in AtomTypes
  <2>0. m \in Nat
    BY DEF Places
  <2>1. \/ m = i + 1 /\ s[i].typ \in {"pos", "options", "shortOpt", "longOpt", "optSeq"}
        \/ m = i + 2 /\ s[i].typ \in {"shortOpt", "longOpt"}
        \/ m > i + 2 /\ s[i].typ \in {"openPar", "openSq"}
    BY <1>1, Rules
  <2> QED BY <1>0, <2>0, <2>1 DEF AtomTypes
<1>2. ASSUME NEW m \in Places(s), Derives(s, "atom", i, m) PROVE i < m /\ s[i].typ \in AtomTypes
  <2>0. m \in Nat /\ (m > i + 1 => m - 1 \in Places(s))
    BY <1>0 DEF Places
  <2>1. \/ m = i + 1 /\ s[i].typ = "dblDash"
        \/ Derives(s, "item", i, m)
        \/ m > i + 1 /\ Derives(s, "item", i, m - 1)
    BY <1>2, Rules
  <2> QED BY <1>0, <1>1, <2>0, <2>1 DEF AtomTypes
<1>3. ASSUME NEW m \in Places(s), Derives(s, "choice", i, m) PROVE i < m /\ s[i].typ \in AtomTypes
  <2>1. CASE Derives(s, "atom", i, m)
    BY <1>2, <2>1
  <2>2. CASE \E l \in i + 1 .. m - 2 : Derives(s, "atom", i, l)
    <3>1. PICK l \in i + 1 .. m - 2 : Derives(s, "atom", i, l)
      BY <2>2
    <3>2. l \in Places(s) /\ i < m
      BY <1>0 DEF Places
    <3> QED BY <1>2, <3>1, <3>2
  <2> QED BY <1>3, <2>1, <2>2, Rules
<1>4. ASSUME Derives(s, "sequence", i, j) PROVE i < j /\ s[i].typ \in AtomTypes
  <2>1. CASE Derives(s, "choice", i, j)
    BY <1>3, <2>1
  <2>2. CASE \E l \in i + 1 .. j - 1 : Derives(s, "choice", i, l)
    <3>1. PICK l \in i + 1 .. j - 1 : Derives(s, "choice", i, l)
      BY <2>2
    <3>2. l \in Places(s) /\ i < j
      BY <1>0 DEF Places
    <3> QED BY <1>3, <3>1, <3>2
  <2> QED BY <1>4, <2>1, <2>2, Rules
<1> QED BY <1>1, <1>2, <1>3, <1>4

(***************************************************************************)
(* What a parser reads from a place to another.                            *)
(***************************************************************************)
Dashes(s, i, j) == \E n \in i .. j - 1 : s[n].typ = "dblDash"

\* From i on, where no options may stand any more if rejected, the tokens up to j are legal.
Legal(as, os, s, rejected, i, j) ==
  \A n \in i .. j - 1 : /\ Known(as, os, s[n])
                        /\ s[n].typ \in OptTypes => ~rejected /\ ~Dashes(s, i, n)

\* The tokens a symbol could go on with.
GoesOn(k) ==
  {"optValue"} \cup (IF k = "item" THEN {} ELSE {"rep"}) \cup (IF k \in {"item", "atom"} THEN {} ELSE {"choice"})
  \cup (IF k \in {"sequence", "components"} THEN AtomTypes ELSE {})

Stops(s, k, j) == j <= Len(s) => s[j].typ \notin GoesOn(k)

Read(s, k, i, j) ==
  IF k = "components" THEN i = j \/ Derives(s, "sequence", i, j) ELSE Derives(s, k, i, j)

\* The answer r for the symbol k at the parser p has read what derives from the symbol, ...
ReadsRight(k, p, r) ==
  r.p.err = "" =>
    /\ r.p.tkpos \in Places(p.tokens)
    /\ Read(p.tokens, k, p.tkpos, r.p.tkpos)
    /\ Legal(p.args, p.options, p.tokens, p.reject, p.tkpos, r.p.tkpos)
    /\ r.p.reject <=> p.reject \/ Dashes(p.tokens, p.tkpos, r.p.tkpos)

\* ... and whatever derives from it, if the next token could not go on.
ReadsAll(k, p, r) ==
  \A j \in Places(p.tokens) :
    /\ Read(p.tokens, k, p.tkpos, j)
    /\ Legal(p.args, p.options, p.tokens, p.reject, p.tkpos, j)
    /\ Stops(p.tokens, k, j)
    => r.p.err = "" /\ r.p.tkpos = j

ReadsSymbol(k, p, r) == ReadsRight(k, p, r) /\ ReadsAll(k, p, r)

\* One part after the other.
LEMMA DashesJoin ==
  ASSUME NEW s, NEW i \in Nat, NEW m \in Nat, NEW j \in Nat, i <= m, m <= j
  PROVE  Dashes(s, i, j) <=> Dashes(s, i, m) \/ Dashes(s, m, j)
<1>1. \A n : n \in i .. j - 1 <=> n \in i .. m - 1 \/ n \in m .. j - 1
  OBVIOUS
<1> QED BY <1>1 DEF Dashes

LEMMA LegalJoins ==
  ASSUME NEW as, NEW os, NEW s, NEW b, NEW c, NEW i \in Nat, NEW m \in Nat, NEW j \in Nat, i <= m, m <= j,
         c <=> b \/ Dashes(s, i, m)
  PROVE  Legal(as, os, s, b, i, j) <=> Legal(as, os, s, b, i, m) /\ Legal(as, os, s, c, m, j)
<1>1. \A n : n \in i .. j - 1 <=> n \in i .. m - 1 \/ n \in m .. j - 1
  OBVIOUS
<1>2. \A n \in m .. j - 1 : Dashes(s, i, n) <=> Dashes(s, i, m) \/ Dashes(s, m, n)
  <2> TAKE n \in m .. j - 1
  <2>1. n \in Nat /\ m <= n
    OBVIOUS
  <2> QED BY <2>1, DashesJoin
<1> QED BY <1>1, <1>2 DEF Legal

LEMMA LegalBefore ==
  ASSUME NEW as, NEW os, NEW s, NEW b, NEW i \in Nat, NEW m \in Nat, NEW j \in Nat, m <= j, Legal(as, os, s, b, i, j)
  PROVE  Legal(as, os, s, b, i, m)
<1>1. \A n \in i .. m - 1 : n \in i .. j - 1
  OBVIOUS
<1> QED BY <1>1 DEF Legal

\* A single token.
LEMMA OneToken ==
  ASSUME NEW as, NEW os, NEW s, NEW b, NEW i \in Nat
  PROVE  /\ Known(as, os, s[i]) /\ s[i].typ \notin OptTypes => Legal(as, os, s, b, i, i + 1)
         /\ Known(as, os, s[i]) /\ ~b => Legal(as, os, s, b, i, i + 1)
         /\ Dashes(s, i, i + 1) <=> s[i].typ = "dblDash"
         /\ Legal(as, os, s, b, i, i) /\ ~Dashes(s, i, i)
<1>1. i .. (i + 1) - 1 = {i} /\ i .. i - 1 = {}
  OBVIOUS
<1> QED BY <1>1 DEF Legal, Dashes

LEMMA LegalAt ==
  ASSUME NEW as, NEW os, NEW s, NEW b, NEW i \in Nat, NEW j \in Nat, i < j, Legal(as, os, s, b, i, j)
  PROVE  Known(as, os, s[i]) /\ (s[i].typ \in OptTypes => ~b)
<1>1. i \in i .. j - 1
  OBVIOUS
<1> QED BY <1>1 DEF Legal

LEMMA AtPlace ==
  ASSUME NEW p, IsParser(p), ~Eof(p)
  PROVE  /\ p.tkpos \in Nat /\ Len(p.tokens) \in Nat /\ p.tkpos <= Len(p.tokens)
         /\ p.tkpos \in Places(p.tokens) /\ p.tkpos + 1 \in Places(p.tokens)
         /\ p.tokens[p.tkpos] = Token(p)
<1>1. p.tkpos \in Nat \ {0} /\ Len(p.tokens) \in Nat
  BY Fields
<1> QED BY <1>1, AtToken DEF Places

LEMMA PlaceIs ==
  ASSUME NEW q, NEW typ, q.tkpos \in Nat, Len(q.tokens) \in Nat
  PROVE  Is(q, typ) <=> q.tkpos <= Len(q.tokens) /\ q.tokens[q.tkpos].typ = typ
BY DEF Is, Eof, Token

\* An answer that does go on is no failure.
LEMMA GoneOnIs ==
  ASSUME NEW p, NEW r, Consumes(p, r)
  PROVE  r.p.err = "" /\ IsParser(r.p) /\ IsPiece(r) /\ r.p.tokens = p.tokens /\ r.p.args = p.args /\ r.p.options = p.options
BY Fields DEF Consumes, Follows, IsPiece, Grows, Same

\* A parser that fails where nothing derives from the symbol reads it right.
LEMMA FailsRight ==
  ASSUME NEW k, NEW p, NEW r, r.p.err # "",
         \A j \in Places(p.tokens) : ~(Read(p.tokens, k, p.tkpos, j)
                                       /\ Legal(p.args, p.options, p.tokens, p.reject, p.tkpos, j)
                                       /\ Stops(p.tokens, k, j))
  PROVE  ReadsSymbol(k, p, r)
BY DEF ReadsSymbol, ReadsRight, ReadsAll

LEMMA ItemRule ==
  ASSUME NEW s, Len(s) \in Nat, NEW i \in Places(s), NEW j \in Places(s)
  PROVE  Derives(s, "item", i, j) <=>
           \/ j = i + 1 /\ s[i].typ \in {"pos", "options", "shortOpt", "longOpt", "optSeq"}
           \/ j = i + 2 /\ s[i].typ \in {"shortOpt", "longOpt"} /\ s[i + 1].typ = "optValue"
           \/ j > i + 2 /\ s[i].typ = "openPar" /\ s[j - 1].typ = "closePar" /\ Derives(s, "sequence", i + 1, j - 1)
           \/ j > i + 2 /\ s[i].typ = "openSq" /\ s[j - 1].typ = "closeSq" /\ Derives(s, "sequence", i + 1, j - 1)
<1> DEFINE a == s[i].typ
           b == s[j - 1].typ
<1>1. <<a, b>> \in {<<"openPar", "closePar">>, <<"openSq", "closeSq">>}
        <=> (a = "openPar" /\ b = "closePar") \/ (a = "openSq" /\ b = "closeSq")
  <2> HIDE DEF a, b
  <2>1. ASSUME NEW c, NEW d PROVE <<a, b>> = <<c, d>> <=> a = c /\ b = d
    OBVIOUS
  <2> QED BY <2>1
<1>2. Derives(s, "item", i, j) <=>
        \/ j = i + 1 /\ a \in {"pos", "options", "shortOpt", "longOpt", "optSeq"}
        \/ j = i + 2 /\ a \in {"shortOpt", "longOpt"} /\ s[i + 1].typ = "optValue"
        \/ /\ j > i + 2
           /\ <<a, b>> \in {<<"openPar", "closePar">>, <<"openSq", "closeSq">>}
           /\ Derives(s, "sequence", i + 1, j - 1)
  BY Rules
<1> QED BY <1>1, <1>2

LEMMA ElementRule ==
  ASSUME NEW s, Len(s) \in Nat, NEW i \in Places(s)
  PROVE  /\ s[i].typ \in {"pos", "options", "optSeq"} => \A j \in Places(s) : Derives(s, "item", i, j) <=> j = i + 1
         /\ s[i].typ \in {"shortOpt", "longOpt"} =>
              \A j \in Places(s) : Derives(s, "item", i, j) <=> j = i + 1 \/ (j = i + 2 /\ s[i + 1].typ = "optValue")
<1>1. ASSUME s[i].typ \in {"pos", "options", "optSeq"}, NEW j \in Places(s) PROVE Derives(s, "item", i, j) <=> j = i + 1
  BY <1>1, ItemRule
<1>2. ASSUME s[i].typ \in {"shortOpt", "longOpt"}, NEW j \in Places(s)
      PROVE  Derives(s, "item", i, j) <=> j = i + 1 \/ (j = i + 2 /\ s[i + 1].typ = "optValue")
  <2>1. Derives(s, "item", i, j) <=>
          \/ j = i + 1
          \/ j = i + 2 /\ s[i + 1].typ = "optValue"
    BY <1>2, ItemRule
  <2> QED BY <2>1
<1> QED BY <1>1, <1>2

\* The element that is a single token.
LEMMA SingleReads ==
  ASSUME NEW p, NEW r, IsParser(p), ~Eof(p), Token(p).typ \in {"pos", "options", "optSeq"},
         Token(p).typ \in OptTypes => ~p.reject, Known(p.args, p.options, Token(p)),
         Consumes(p, r), r.p.tkpos = p.tkpos + 1, r.p.reject = p.reject
  PROVE  ReadsSymbol("item", p, r)
<1> DEFINE s == p.tokens
           i == p.tkpos
           t == Token(p)
<1>1. i \in Nat /\ Len(s) \in Nat /\ i <= Len(s) /\ i \in Places(s) /\ i + 1 \in Places(s) /\ s[i] = t
  BY AtPlace
<1>2. \A j \in Places(s) : Derives(s, "item", i, j) <=> j = i + 1
  <2> HIDE DEF s, i
  <2> QED BY <1>1, ElementRule
<1>3. Legal(p.args, p.options, s, p.reject, i, i + 1) /\ ~Dashes(s, i, i + 1)
  <2>1. s[i].typ # "dblDash" /\ Known(p.args, p.options, s[i]) /\ (s[i].typ \in OptTypes => ~p.reject)
    BY <1>1
  <2> HIDE DEF s, i
  <2> QED BY <1>1, <2>1, OneToken
<1>4. r.p.err = ""
  BY GoneOnIs
<1> QED BY <1>1, <1>2, <1>3, <1>4 DEF ReadsSymbol, ReadsRight, ReadsAll, Read

\* An option, and its value.
LEMMA ValueReads ==
  ASSUME NEW p, NEW r, IsParser(p), ~Eof(p), Token(p).typ \in {"shortOpt", "longOpt"}, ~p.reject,
         Known(p.args, p.options, Token(p)), Consumes(p, r), r.p.reject = p.reject,
         r.p.tkpos = IF Is(Next1(p), "optValue") THEN p.tkpos + 2 ELSE p.tkpos + 1
  PROVE  ReadsSymbol("item", p, r)
<1> DEFINE s == p.tokens
           i == p.tkpos
           v == Is(Next1(p), "optValue")
<1>1. i \in Nat /\ Len(s) \in Nat /\ i <= Len(s) /\ i \in Places(s) /\ i + 1 \in Places(s) /\ s[i] = Token(p)
  BY AtPlace
<1>2. \A j \in Places(s) : Derives(s, "item", i, j) <=> j = i + 1 \/ (j = i + 2 /\ s[i + 1].typ = "optValue")
  <2>1. s[i].typ \in {"shortOpt", "longOpt"}
    BY <1>1
  <2> HIDE DEF s, i
  <2> QED BY <1>1, <2>1, ElementRule
<1>3. v <=> i + 1 <= Len(s) /\ s[i + 1].typ = "optValue"
  <2>1. Next1(p).tkpos = i + 1 /\ Next1(p).tokens = s
    BY NextGrows DEF Grows, Same
  <2> QED BY <1>1, <2>1 DEF Is, Eof, Token
<1>4. Legal(p.args, p.options, s, p.reject, i, i + 1) /\ ~Dashes(s, i, i + 1)
  <2>1. s[i].typ # "dblDash" /\ Known(p.args, p.options, s[i]) /\ ~p.reject
    BY <1>1
  <2> HIDE DEF s, i
  <2> QED BY <1>1, <2>1, OneToken
<1>5. r.p.err = ""
  BY GoneOnIs
<1>6. r.p.tkpos = IF v THEN i + 2 ELSE i + 1
  OBVIOUS
<1>7. CASE v
  <2>1. i + 2 \in Places(s) /\ (i + 1) + 1 = i + 2
    BY <1>1, <1>3, <1>7 DEF Places
  <2>2. Legal(p.args, p.options, s, p.reject, i + 1, (i + 1) + 1) /\ ~Dashes(s, i + 1, (i + 1) + 1)
    <3>1. Known(p.args, p.options, s[i + 1]) /\ s[i + 1].typ \notin OptTypes /\ s[i + 1].typ # "dblDash"
      BY <1>3, <1>7 DEF Known, OptTypes
    <3>2. i + 1 \in Nat
      BY <1>1
    <3> HIDE DEF s, i
    <3> QED BY <3>1, <3>2, OneToken
  <2>3. Legal(p.args, p.options, s, p.reject, i, i + 2) /\ ~Dashes(s, i, i + 2)
    <3>1. i + 1 \in Nat /\ i + 2 \in Nat /\ i <= i + 1 /\ i + 1 <= i + 2
      BY <1>1
    <3>2. p.reject <=> p.reject \/ Dashes(s, i, i + 1)
      BY <1>4
    <3> HIDE DEF s, i
    <3>3. Dashes(s, i, i + 2) <=> Dashes(s, i, i + 1) \/ Dashes(s, i + 1, i + 2)
      BY <1>1, <3>1, DashesJoin
    <3>4. Legal(p.args, p.options, s, p.reject, i, i + 2) <=>
            /\ Legal(p.args, p.options, s, p.reject, i, i + 1)
            /\ Legal(p.args, p.options, s, p.reject, i + 1, i + 2)
      BY <1>1, <3>1, <3>2, LegalJoins
    <3> QED BY <1>4, <2>1, <2>2, <3>3, <3>4
  <2>4. ~Stops(s, "item", i + 1)
    BY <1>3, <1>7 DEF Stops, GoesOn
  <2>5. r.p.tkpos = i + 2
    BY <1>6, <1>7
  <2> QED BY <1>1, <1>2, <1>3, <1>5, <1>7, <2>1, <2>3, <2>4, <2>5 DEF ReadsSymbol, ReadsRight, ReadsAll, Read
<1>8. CASE ~v
  <2>1. \A j \in Places(s) : Derives(s, "item", i, j) <=> j = i + 1
    <3>1. i + 2 \in Places(s) => i + 1 <= Len(s)
      BY <1>1 DEF Places
    <3>2. ~(i + 2 \in Places(s) /\ s[i + 1].typ = "optValue")
      BY <1>3, <1>8, <3>1
    <3> HIDE DEF s, i, v
    <3> TAKE j \in Places(s)
    <3>3. Derives(s, "item", i, j) <=> j = i + 1 \/ (j = i + 2 /\ s[i + 1].typ = "optValue")
      BY <1>2
    <3>4. j = i + 2 => s[i + 1].typ # "optValue"
      BY <3>2
    <3> QED BY <3>3, <3>4, Zenon
  <2>2. r.p.tkpos = i + 1
    BY <1>6, <1>8
  <2> QED BY <1>1, <1>4, <1>5, <2>1, <2>2 DEF ReadsSymbol, ReadsRight, ReadsAll, Read
<1> QED BY <1>7, <1>8

\* Parsers at the same place of the same tokens.
LEMMA ReadsFrom ==
  ASSUME NEW k, NEW p, NEW q, NEW r, Same(p, q), q.tkpos = p.tkpos, q.reject = p.reject, ReadsSymbol(k, q, r)
  PROVE  ReadsSymbol(k, p, r)
BY DEF Same, ReadsSymbol, ReadsRight, ReadsAll

\* A repetition behind an item makes an atom, as does none.
LEMMA RepReads ==
  ASSUME NEW p, NEW r, IsParser(p), ~Eof(p), Token(p).typ # "dblDash", Answered(p, r), ReadsSymbol("item", p, r)
  PROVE  ReadsSymbol("atom", p, Rep(r))
<1> DEFINE s == p.tokens
           i == p.tkpos
           e == r.p.tkpos
           v == Is(r.p, "rep")
<1>1. i \in Nat /\ Len(s) \in Nat /\ i <= Len(s) /\ i \in Places(s) /\ i + 1 \in Places(s) /\ s[i] = Token(p)
  BY AtPlace
<1>2. \A j \in Places(s) : Derives(s, "atom", i, j) <=>
         \/ Derives(s, "item", i, j)
         \/ j > i + 1 /\ s[j - 1].typ = "rep" /\ Derives(s, "item", i, j - 1)
  <2>1. s[i].typ # "dblDash"
    BY <1>1
  <2> HIDE DEF s, i
  <2> QED BY <1>1, <2>1, Rules
<1>3. Rep(r).p.err = "" <=> r.p.err = ""
  BY RepAnswers
<1>4. CASE r.p.err # ""
  <2>1. \A j \in Places(s) : Read(s, "item", i, j) /\ Legal(p.args, p.options, s, p.reject, i, j) => ~Stops(s, "item", j)
    BY <1>4 DEF ReadsSymbol, ReadsAll
  <2>2. ASSUME NEW j \in Places(s), Derives(s, "atom", i, j), Legal(p.args, p.options, s, p.reject, i, j),
               Stops(s, "atom", j)
        PROVE  FALSE
    <3>1. CASE Derives(s, "item", i, j)
      BY <2>1, <2>2, <3>1 DEF Read, Stops, GoesOn
    <3>2. CASE j > i + 1 /\ s[j - 1].typ = "rep" /\ Derives(s, "item", i, j - 1)
      <4>1. j - 1 \in Places(s) /\ j \in Nat /\ j - 1 \in Nat /\ i <= j - 1 /\ j - 1 <= j
        BY <1>1, <3>2 DEF Places
      <4>2. Legal(p.args, p.options, s, p.reject, i, j - 1)
        BY <1>1, <2>2, <4>1, LegalBefore
      <4>3. Stops(s, "item", j - 1)
        BY <3>2 DEF Stops, GoesOn
      <4> QED BY <2>1, <3>2, <4>1, <4>2, <4>3 DEF Read
    <3> QED BY <1>2, <2>2, <3>1, <3>2
  <2> QED BY <1>3, <1>4, <2>2, FailsRight DEF Read
<1>5. CASE r.p.err = ""
  <2>a. Consumes(p, r)
    BY <1>5 DEF Answered
  <2>b. IsPiece(r) /\ r.p.tokens = s /\ Rep(r).p.err = ""
    BY <1>3, <1>5, <2>a, GoneOnIs
  <2>0. e \in Nat
    BY <2>a, GoneOnIs, Fields
  <2>1. /\ e \in Places(s) /\ Derives(s, "item", i, e) /\ Legal(p.args, p.options, s, p.reject, i, e)
        /\ r.p.reject <=> p.reject \/ Dashes(s, i, e)
    BY <1>5 DEF ReadsSymbol, ReadsRight, Read
  <2>2. i < e
    <3> HIDE DEF s, i, e
    <3> QED BY <1>1, <2>1, Starts
  <2>3. Rep(r).p.tkpos = (IF v THEN e + 1 ELSE e) /\ Rep(r).p.reject = r.p.reject
    BY <2>b, RepGrows
  <2>4. v <=> e <= Len(s) /\ s[e].typ = "rep"
    <3>1. r.p.tkpos \in Nat /\ Len(r.p.tokens) \in Nat /\ r.p.tokens = s
      BY <1>1, <2>0, <2>b
    <3> QED BY <3>1, PlaceIs
  <2>5. \A j \in Places(s) : Derives(s, "item", i, j) /\ Legal(p.args, p.options, s, p.reject, i, j) /\ Stops(s, "item", j) => e = j
    BY <1>5 DEF ReadsSymbol, ReadsAll, Read
  <2>6. CASE v
    <3>1. e + 1 \in Places(s) /\ e + 1 > i + 1 /\ (e + 1) - 1 = e
      BY <1>1, <2>0, <2>2, <2>4, <2>6 DEF Places
    <3>2. Derives(s, "atom", i, e + 1)
      <4> HIDE DEF s, i, e, v
      <4> QED BY <1>2, <2>1, <2>4, <2>6, <3>1
    <3>3. Legal(p.args, p.options, s, p.reject, i, e + 1) /\ (Dashes(s, i, e + 1) <=> Dashes(s, i, e))
      <4>1. Known(p.args, p.options, s[e]) /\ s[e].typ \notin OptTypes /\ s[e].typ # "dblDash"
        BY <2>4, <2>6 DEF Known, OptTypes
      <4>2. e + 1 \in Nat /\ i <= e /\ e <= e + 1
        BY <1>1, <2>0, <2>2
      <4> HIDE DEF s, i, e, v
      <4>3. Legal(p.args, p.options, s, r.p.reject, e, e + 1) /\ ~Dashes(s, e, e + 1)
        BY <2>0, <4>1, OneToken
      <4>4. Dashes(s, i, e + 1) <=> Dashes(s, i, e) \/ Dashes(s, e, e + 1)
        BY <1>1, <2>0, <4>2, DashesJoin
      <4>5. Legal(p.args, p.options, s, p.reject, i, e + 1) <=>
              Legal(p.args, p.options, s, p.reject, i, e) /\ Legal(p.args, p.options, s, r.p.reject, e, e + 1)
        BY <1>1, <2>0, <2>1, <4>2, LegalJoins
      <4> QED BY <2>1, <4>3, <4>4, <4>5
    <3>4. ReadsRight("atom", p, Rep(r))
      BY <2>1, <2>3, <2>6, <3>1, <3>2, <3>3 DEF ReadsRight, Read
    <3>5. ASSUME NEW j \in Places(s), Derives(s, "atom", i, j), Legal(p.args, p.options, s, p.reject, i, j),
                 Stops(s, "atom", j)
          PROVE  j = e + 1
      <4>1. CASE Derives(s, "item", i, j)
        <5>1. Stops(s, "item", j)
          BY <3>5 DEF Stops, GoesOn
        <5>2. e = j
          BY <2>5, <3>5, <4>1, <5>1
        <5> QED BY <2>4, <2>6, <3>5, <5>2 DEF Stops, GoesOn
      <4>2. CASE j > i + 1 /\ s[j - 1].typ = "rep" /\ Derives(s, "item", i, j - 1)
        <5>1. j - 1 \in Places(s) /\ j \in Nat /\ j - 1 \in Nat /\ i <= j - 1 /\ j - 1 <= j
          BY <1>1, <4>2 DEF Places
        <5>2. Legal(p.args, p.options, s, p.reject, i, j - 1)
          BY <1>1, <3>5, <5>1, LegalBefore
        <5>3. Stops(s, "item", j - 1)
          BY <4>2 DEF Stops, GoesOn
        <5>4. e = j - 1
          BY <2>5, <4>2, <5>1, <5>2, <5>3
        <5> QED BY <5>1, <5>4
      <4> QED BY <1>2, <3>5, <4>1, <4>2
    <3>6. ReadsAll("atom", p, Rep(r))
      BY <2>b, <2>3, <2>6, <3>5 DEF ReadsAll, Read
    <3> QED BY <3>4, <3>6 DEF ReadsSymbol
  <2>7. CASE ~v
    <3>1. Derives(s, "atom", i, e)
      <4> HIDE DEF s, i, e, v
      <4> QED BY <1>2, <2>1
    <3>2. ReadsRight("atom", p, Rep(r))
      BY <2>1, <2>3, <2>7, <3>1 DEF ReadsRight, Read
    <3>3. ASSUME NEW j \in Places(s), Derives(s, "atom", i, j), Legal(p.args, p.options, s, p.reject, i, j),
                 Stops(s, "atom", j)
          PROVE  j = e
      <4>1. CASE Derives(s, "item", i, j)
        <5>1. Stops(s, "item", j)
          BY <3>3 DEF Stops, GoesOn
        <5> QED BY <2>5, <3>3, <4>1, <5>1
      <4>2. CASE j > i + 1 /\ s[j - 1].typ = "rep" /\ Derives(s, "item", i, j - 1)
        <5>1. j - 1 \in Places(s) /\ j \in Nat /\ j - 1 \in Nat /\ i <= j - 1 /\ j - 1 <= j /\ j - 1 <= Len(s)
          BY <1>1, <4>2 DEF Places
        <5>2. Legal(p.args, p.options, s, p.reject, i, j - 1)
          BY <1>1, <3>3, <5>1, LegalBefore
        <5>3. Stops(s, "item", j - 1)
          BY <4>2 DEF Stops, GoesOn
        <5>4. e = j - 1
          BY <2>5, <4>2, <5>1, <5>2, <5>3
        <5> QED BY <2>4, <2>7, <4>2, <5>1, <5>4
      <4> QED BY <1>2, <3>3, <4>1, <4>2
    <3>4. ReadsAll("atom", p, Rep(r))
      BY <2>b, <2>3, <2>7, <3>3 DEF ReadsAll, Read
    <3> QED BY <3>2, <3>4 DEF ReadsSymbol
  <2> QED BY <2>6, <2>7
<1> QED BY <1>4, <1>5

\* Brackets around a span.
Brackets == {<<"openPar", "closePar">>, <<"openSq", "closeSq">>}

LEMMA Behind ==
  ASSUME NEW s, Len(s) \in Nat, NEW i \in Nat, NEW e \in Nat, i + 1 < e, e <= Len(s)
  PROVE  e + 1 \in Places(s) /\ e + 1 > i + 2 /\ (e + 1) - 1 = e /\ i + 1 <= e
BY DEF Places

LEMMA LegalWithin ==
  ASSUME NEW as, NEW os, NEW s, NEW b, NEW i \in Nat, NEW e \in Nat, i + 1 <= e,
         s[i].typ \in {"openPar", "openSq"}, s[e].typ \in {"closePar", "closeSq"}
  PROVE  /\ Legal(as, os, s, b, i, e + 1) <=> Legal(as, os, s, b, i + 1, e)
         /\ Dashes(s, i, e + 1) <=> Dashes(s, i + 1, e)
<1>1. \A n : n \in i .. (e + 1) - 1 <=> n = i \/ n \in i + 1 .. e - 1 \/ n = e
  OBVIOUS
<1>2. \A n \in {i, e} : Known(as, os, s[n]) /\ s[n].typ \notin OptTypes /\ s[n].typ # "dblDash"
  BY DEF Known, OptTypes
<1>3. \A n \in i + 1 .. e - 1 : Dashes(s, i, n) <=> Dashes(s, i + 1, n)
  <2> TAKE n \in i + 1 .. e - 1
  <2>1. \A m : m \in i .. n - 1 <=> m = i \/ m \in i + 1 .. n - 1
    OBVIOUS
  <2> QED BY <1>2, <2>1 DEF Dashes
<1>4. Dashes(s, i, e + 1) <=> Dashes(s, i + 1, e)
  BY <1>1, <1>2 DEF Dashes
<1>5. Legal(as, os, s, b, i, e + 1) <=> Legal(as, os, s, b, i + 1, e)
  BY <1>1, <1>2, <1>3 DEF Legal
<1> QED BY <1>4, <1>5

\* The answer r is a, behind which a token was expected.
ClosedBy(r, a, typ) ==
  /\ r.p.err = "" <=> a.p.err = "" /\ Is(a.p, typ)
  /\ r.p.err = "" => r.p.tkpos = a.p.tkpos + 1 /\ r.p.reject = a.p.reject

\* A group: what its brackets hold is a sequence.
LEMMA GroupReads ==
  ASSUME NEW p, NEW a, NEW r, NEW typ, IsParser(p), ~Eof(p), <<Token(p).typ, typ>> \in Brackets,
         Answered(Group(p).r.p, a), ReadsSymbol("sequence", Group(p).r.p, a), ClosedBy(r, a, typ)
  PROVE  ReadsSymbol("item", p, r)
<1> DEFINE s == p.tokens
           i == p.tkpos
           e == a.p.tkpos
           q == Group(p).r.p
           as == p.args
           os == p.options
<1>1. i \in Nat /\ Len(s) \in Nat /\ i <= Len(s) /\ i \in Places(s) /\ i + 1 \in Places(s) /\ s[i] = Token(p)
  BY AtPlace
<1>2. q.tkpos = i + 1 /\ q.reject = p.reject /\ q.tokens = s /\ q.args = as /\ q.options = os
  <2>1. Group(p).r.p.tkpos = p.tkpos + 1 /\ Group(p).r.p.reject = p.reject /\ Grows(p, Group(p).r.p)
    BY GroupIs
  <2> QED BY <2>1 DEF Grows, Same
<1>3. \/ s[i].typ = "openPar" /\ typ = "closePar"
      \/ s[i].typ = "openSq" /\ typ = "closeSq"
  <2> DEFINE u == Token(p).typ
  <2>1. <<u, typ>> \in Brackets
    OBVIOUS
  <2> HIDE DEF u
  <2>2. \A c, d : <<u, typ>> = <<c, d>> <=> u = c /\ typ = d
    OBVIOUS
  <2>3. (u = "openPar" /\ typ = "closePar") \/ (u = "openSq" /\ typ = "closeSq")
    BY <2>1, <2>2 DEF Brackets
  <2> QED BY <1>1, <2>3 DEF u
<1>4. \A j \in Places(s) : Derives(s, "item", i, j) <=> j > i + 2 /\ s[j - 1].typ = typ /\ Derives(s, "sequence", i + 1, j - 1)
  <2> HIDE DEF s, i
  <2> TAKE j \in Places(s)
  <2>1. Derives(s, "item", i, j) <=>
           \/ j = i + 1 /\ s[i].typ \in {"pos", "options", "shortOpt", "longOpt", "optSeq"}
           \/ j = i + 2 /\ s[i].typ \in {"shortOpt", "longOpt"} /\ s[i + 1].typ = "optValue"
           \/ j > i + 2 /\ s[i].typ = "openPar" /\ s[j - 1].typ = "closePar" /\ Derives(s, "sequence", i + 1, j - 1)
           \/ j > i + 2 /\ s[i].typ = "openSq" /\ s[j - 1].typ = "closeSq" /\ Derives(s, "sequence", i + 1, j - 1)
    BY <1>1, ItemRule
  <2> QED BY <1>3, <2>1
<1>5. a.p.err = "" => e \in Nat /\ Len(a.p.tokens) \in Nat /\ a.p.tokens = s
  <2> SUFFICES ASSUME a.p.err = "" PROVE e \in Nat /\ Len(a.p.tokens) \in Nat /\ a.p.tokens = s
    OBVIOUS
  <2> HIDE DEF q
  <2>1. Consumes(q, a)
    BY DEF Answered, q
  <2>2. IsParser(a.p) /\ a.p.tokens = s
    BY <1>2, <2>1, GoneOnIs
  <2> QED BY <2>2, Fields
<1>6. a.p.err = "" => (Is(a.p, typ) <=> e <= Len(s) /\ s[e].typ = typ)
  BY <1>5, PlaceIs
<1>7. ReadsRight("sequence", q, a) /\ ReadsAll("sequence", q, a)
  BY DEF ReadsSymbol
<1> HIDE DEF q
<1>8. a.p.err = "" => /\ e \in Places(s) /\ Derives(s, "sequence", i + 1, e) /\ Legal(as, os, s, p.reject, i + 1, e)
                      /\ a.p.reject <=> p.reject \/ Dashes(s, i + 1, e)
  BY <1>2, <1>7 DEF ReadsRight, Read
<1>9. \A j \in Places(s) :
         Derives(s, "sequence", i + 1, j) /\ Legal(as, os, s, p.reject, i + 1, j) /\ Stops(s, "sequence", j)
         => a.p.err = "" /\ e = j
  BY <1>2, <1>7 DEF ReadsAll, Read
<1>10. ReadsRight("item", p, r)
  <2> SUFFICES ASSUME r.p.err = ""
               PROVE  /\ r.p.tkpos \in Places(s) /\ Derives(s, "item", i, r.p.tkpos)
                      /\ Legal(as, os, s, p.reject, i, r.p.tkpos)
                      /\ r.p.reject <=> p.reject \/ Dashes(s, i, r.p.tkpos)
    BY DEF ReadsRight, Read
  <2>1. r.p.tkpos = e + 1 /\ r.p.reject = a.p.reject /\ a.p.err = "" /\ Is(a.p, typ)
    BY DEF ClosedBy
  <2>2. /\ e \in Places(s) /\ Derives(s, "sequence", i + 1, e) /\ Legal(as, os, s, p.reject, i + 1, e)
        /\ r.p.reject <=> p.reject \/ Dashes(s, i + 1, e)
    BY <1>8, <2>1
  <2>3. e \in Nat /\ e <= Len(s) /\ s[e].typ = typ
    BY <1>5, <1>6, <2>1
  <2>4. i + 1 < e
    <3> HIDE DEF s, i, e
    <3> QED BY <1>1, <2>2, Starts
  <2>5. e + 1 \in Places(s) /\ e + 1 > i + 2 /\ (e + 1) - 1 = e /\ i + 1 <= e
    BY <1>1, <2>3, <2>4, Behind
  <2>6. Derives(s, "item", i, e + 1)
    <3> HIDE DEF s, i, e
    <3> QED BY <1>4, <2>2, <2>3, <2>5
  <2>7. s[i].typ \in {"openPar", "openSq"} /\ s[e].typ \in {"closePar", "closeSq"}
    BY <1>3, <2>3
  <2>8. Legal(as, os, s, p.reject, i, e + 1) /\ (Dashes(s, i, e + 1) <=> Dashes(s, i + 1, e))
    <3> HIDE DEF s, i, e, as, os
    <3> QED BY <1>1, <2>2, <2>3, <2>5, <2>7, LegalWithin
  <2> QED BY <2>1, <2>2, <2>5, <2>6, <2>8
<1>11. ReadsAll("item", p, r)
  <2> SUFFICES ASSUME NEW j \in Places(s), Derives(s, "item", i, j), Legal(as, os, s, p.reject, i, j)
               PROVE  r.p.err = "" /\ r.p.tkpos = j
    BY DEF ReadsAll, Read
  <2>1. j > i + 2 /\ s[j - 1].typ = typ /\ Derives(s, "sequence", i + 1, j - 1)
    <3> HIDE DEF s, i
    <3> QED BY <1>4
  <2>2. j \in Nat /\ j - 1 \in Places(s) /\ j - 1 \in Nat /\ (j - 1) + 1 = j /\ i + 1 <= j - 1 /\ j - 1 <= Len(s)
    <3> HIDE DEF s, i
    <3> QED BY <1>1, <2>1 DEF Places
  <2>3. s[i].typ \in {"openPar", "openSq"} /\ s[j - 1].typ \in {"closePar", "closeSq"}
    BY <1>3, <2>1
  <2>4. Legal(as, os, s, p.reject, i + 1, j - 1)
    <3> HIDE DEF s, i, as, os
    <3>1. Legal(as, os, s, p.reject, i, (j - 1) + 1)
      BY <2>2
    <3> QED BY <1>1, <2>2, <2>3, <3>1, LegalWithin
  <2>5. Stops(s, "sequence", j - 1)
    BY <2>3 DEF Stops, GoesOn, AtomTypes
  <2>6. a.p.err = "" /\ e = j - 1
    BY <1>9, <2>1, <2>2, <2>4, <2>5
  <2>7. Is(a.p, typ)
    BY <1>6, <2>1, <2>2, <2>6
  <2>8. r.p.err = "" /\ r.p.tkpos = e + 1
    BY <2>6, <2>7 DEF ClosedBy
  <2> QED BY <2>2, <2>6, <2>8
<1> QED BY <1>10, <1>11 DEF ReadsSymbol

\* An atom is refused where none may stand.
AtomRefused(p) ==
  \/ ~CanAtom(p)
  \/ ~Known(p.args, p.options, Token(p))
  \/ Token(p).typ \in OptTypes /\ p.reject

LEMMA NoAtom ==
  ASSUME NEW p, IsParser(p), p.tkpos \in Places(p.tokens), AtomRefused(p), NEW j \in Places(p.tokens)
  PROVE  ~(Derives(p.tokens, "atom", p.tkpos, j) /\ Legal(p.args, p.options, p.tokens, p.reject, p.tkpos, j))
<1> DEFINE s == p.tokens
           i == p.tkpos
<1>1. Len(s) \in Nat /\ i \in Places(s) /\ j \in Places(s) /\ i \in Nat /\ j \in Nat /\ j <= Len(s) + 1
  <2>1. Len(s) \in Nat
    BY Fields
  <2> QED BY <2>1 DEF Places
<1>2. ASSUME Derives(s, "atom", i, j), Legal(p.args, p.options, s, p.reject, i, j) PROVE FALSE
  <2>1. i < j /\ s[i].typ \in AtomTypes
    <3> HIDE DEF s, i
    <3> QED BY <1>1, <1>2, Starts
  <2>2. Known(p.args, p.options, s[i]) /\ (s[i].typ \in OptTypes => ~p.reject)
    <3> HIDE DEF s, i
    <3> QED BY <1>1, <1>2, <2>1, LegalAt
  <2>3. ~Eof(p) /\ s[i] = Token(p)
    BY <1>1, <2>1 DEF Eof, Token
  <2> QED BY <2>1, <2>2, <2>3 DEF CanAtom, AtomRefused
<1> QED BY <1>2

LEMMA RefusesRight ==
  ASSUME NEW p, NEW r, IsParser(p), p.tkpos \in Places(p.tokens), r.p.err # "", AtomRefused(p)
  PROVE  ReadsSymbol("atom", p, r)
<1>1. \A j \in Places(p.tokens) :
        ~(Derives(p.tokens, "atom", p.tkpos, j) /\ Legal(p.args, p.options, p.tokens, p.reject, p.tkpos, j))
  BY NoAtom
<1> QED BY <1>1, FailsRight DEF Read

LEMMA ElementReads ==
  ASSUME NEW p, NEW m, IsParser(p), ~Eof(p), Token(p).typ \in {"pos", "options", "optSeq"},
         Token(p).typ \in OptTypes => ~p.reject, Known(p.args, p.options, Token(p)),
         m \in Matchers(p.args, p.options), From(m, p.args, p.options, p.tokens)
  PROVE  ReadsSymbol("atom", p, Element(p, m))
<1> DEFINE r == Single(Next1(p), m)
<1>1. Consumes(p, r) /\ r.p.tkpos = p.tkpos + 1 /\ r.p.reject = p.reject
  BY SingleAnswers
<1> HIDE DEF r
<1>2. ReadsSymbol("item", p, r) /\ Answered(p, r)
  BY <1>1, SingleReads, ConsumesAnswers
<1>3. ReadsSymbol("atom", p, Rep(r))
  BY <1>2, RepReads
<1> QED BY <1>3 DEF r, Element

LEMMA ValuedReads ==
  ASSUME NEW p, IsParser(p), ~Eof(p), Token(p).typ \in {"shortOpt", "longOpt"}, ~p.reject,
         Token(p).val \in Declared(p)
  PROVE  ReadsSymbol("atom", p, Valued(p))
<1> DEFINE m == OptMatcher(Token(p).val, p.tkpos)
           one == Single(Next1(p), m)
           r == WithValue(one)
           v == Is(one.p, "optValue")
<1>1. m \in Matchers(p.args, p.options) /\ From(m, p.args, p.options, p.tokens)
  BY MatchersOfTokens
<1> HIDE DEF m
<1>2. Consumes(p, one) /\ one.p.tkpos = p.tkpos + 1 /\ one.p.reject = p.reject
  BY <1>1, SingleAnswers
<1> HIDE DEF one
<1>3. IsPiece(one) /\ one.p.tokens = p.tokens
  BY <1>2, GoneOnIs
<1>4. /\ IsPiece(r) /\ Grows(one.p, r.p) /\ r.p.reject = one.p.reject
      /\ r.p.tkpos = IF v THEN one.p.tkpos + 1 ELSE one.p.tkpos
  BY <1>3, WithValueGrows
<1>5. v <=> Is(Next1(p), "optValue")
  <2>1. Next1(p).tkpos = p.tkpos + 1 /\ Next1(p).tokens = p.tokens
    BY NextGrows DEF Grows, Same
  <2> QED BY <1>2, <1>3, <2>1 DEF Is, Eof, Token
<1> HIDE DEF r, v
<1>6. Consumes(p, r) /\ r.p.reject = p.reject
  BY <1>2, <1>4, ConsumesMore
<1>7. r.p.tkpos = IF Is(Next1(p), "optValue") THEN p.tkpos + 2 ELSE p.tkpos + 1
  <2>1. p.tkpos \in Nat
    BY Fields
  <2>2. (p.tkpos + 1) + 1 = p.tkpos + 2
    BY <2>1
  <2> QED BY <1>2, <1>4, <1>5, <2>2
<1>8. Known(p.args, p.options, Token(p))
  BY DEF Known, Declared
<1>9. ReadsSymbol("item", p, r) /\ Answered(p, r)
  BY <1>6, <1>7, <1>8, ValueReads, ConsumesAnswers
<1>10. ReadsSymbol("atom", p, Rep(r))
  BY <1>9, RepReads
<1> QED BY <1>10 DEF r, one, m, Valued

LEMMA DashesRead ==
  ASSUME NEW p, NEW r, IsParser(p), ~Eof(p), Token(p).typ = "dblDash",
         Consumes(p, r), r.p.tkpos = p.tkpos + 1, r.p.reject
  PROVE  ReadsSymbol("atom", p, r)
<1> DEFINE s == p.tokens
           i == p.tkpos
<1>1. i \in Nat /\ Len(s) \in Nat /\ i <= Len(s) /\ i \in Places(s) /\ i + 1 \in Places(s) /\ s[i] = Token(p)
  BY AtPlace
<1>2. s[i].typ = "dblDash"
  BY <1>1
<1>3. \A j \in Places(s) : ~Derives(s, "item", i, j)
  <2> HIDE DEF s, i
  <2> QED BY <1>1, <1>2, ItemRule
<1>4. \A j \in Places(s) : Derives(s, "atom", i, j) <=> j = i + 1
  <2> HIDE DEF s, i
  <2> TAKE j \in Places(s)
  <2>1. Derives(s, "atom", i, j) <=>
           \/ j = i + 1 /\ s[i].typ = "dblDash"
           \/ Derives(s, "item", i, j)
           \/ j > i + 1 /\ s[j - 1].typ = "rep" /\ Derives(s, "item", i, j - 1)
    BY <1>1, Rules
  <2>2. j > i + 1 => j - 1 \in Places(s)
    BY <1>1 DEF Places
  <2> QED BY <1>2, <1>3, <2>1, <2>2
<1>5. Legal(p.args, p.options, s, p.reject, i, i + 1) /\ Dashes(s, i, i + 1)
  <2>1. Known(p.args, p.options, s[i]) /\ s[i].typ \notin OptTypes
    BY <1>2 DEF Known, OptTypes
  <2> HIDE DEF s, i
  <2> QED BY <1>1, <1>2, <2>1, OneToken
<1>6. r.p.err = ""
  BY GoneOnIs
<1> QED BY <1>1, <1>4, <1>5, <1>6 DEF ReadsSymbol, ReadsRight, ReadsAll, Read

\* What the call of a production is answered by, and has read.
AnsweredReads(k, p, r) == Answered(p, r) /\ ReadsSymbol(k, p, r)

LEMMA FailedReads ==
  ASSUME NEW p, IsParser(p), p.tkpos \in Places(p.tokens), AtomRefused(p), NEW msg \in Errors
  PROVE  ReadsSymbol("atom", p, Failed(p, msg))
<1>1. Failed(p, msg).p.err # ""
  BY FailedAnswers DEF Same
<1> QED BY <1>1, RefusesRight

LEMMA BracketsRead ==
  ASSUME NEW p, NEW a, NEW r, NEW typ, IsParser(p), ~Eof(p), <<Token(p).typ, typ>> \in Brackets,
         AnsweredReads("sequence", Group(p).r.p, a),
         Answered(Group(p).r.p, r), ClosedBy(r, a, typ)
  PROVE  ReadsSymbol("atom", p, Rep(r))
<1>1. ReadsSymbol("item", p, r)
  BY GroupReads DEF AnsweredReads
<1>2. Token(p).typ # "dblDash"
  <2> DEFINE u == Token(p).typ
  <2> HIDE DEF u
  <2>1. \A c, d : <<u, typ>> = <<c, d>> => u = c
    OBVIOUS
  <2>2. <<u, typ>> \in Brackets
    BY DEF u
  <2>3. u # "dblDash"
    BY <2>1, <2>2 DEF Brackets
  <2> QED BY <2>3 DEF u
<1>3. Answered(p, r)
  <2>1. Grows(p, Group(p).r.p)
    BY GroupIs
  <2>2. p.tkpos <= Len(p.tokens)
    BY AtPlace
  <2> QED BY <2>1, <2>2, AnsweredOn
<1> QED BY <1>1, <1>2, <1>3, RepReads

GroupParsed(p, parse) == Is(p, "openPar") \/ Is(p, "openSq") => AnsweredReads("sequence", Group(p).r.p, parse[Group(p)])

LEMMA AtomReads ==
  ASSUME NEW p, NEW parse, IsParser(p), p.tkpos \in Places(p.tokens), GroupParsed(p, parse)
  PROVE  ReadsSymbol("atom", p, Atom(p, parse))
<1> DEFINE t == Token(p)
           v == Atom(p, parse)
<1>0. /\ Eof(p) => v = Failed(p, "Unexpected end of input")
      /\ Is(p, "pos") =>
           v = IF t.val \in p.args THEN Element(p, ArgMatcher(t.val)) ELSE Failed(p, "Undeclared arg")
      /\ ~Eof(p) /\ t.typ \in OptTypes /\ p.reject => v = Failed(p, "No options after --")
      /\ Is(p, "options") /\ ~p.reject => v = Element(p, OptsMatcher(p.options, p.tkpos))
      /\ (Is(p, "shortOpt") \/ Is(p, "longOpt")) /\ ~p.reject =>
           v = IF t.val \in Declared(p) THEN Valued(p) ELSE Failed(p, "Undeclared option")
      /\ Is(p, "optSeq") /\ ~p.reject =>
           v = IF ToSet(t.val) \subseteq Declared(p)
               THEN Element(p, OptsMatcher(t.val, p.tkpos)) ELSE Failed(p, "Undeclared option")
      /\ Is(p, "openPar") => v = Rep(Closed(parse[Group(p)], "closePar"))
      /\ Is(p, "openSq") => v = Rep(Closed(Optional(parse[Group(p)]), "closeSq"))
      /\ Is(p, "dblDash") => v = Single([Next1(p) EXCEPT !.reject = TRUE], OptsEnd)
      /\ ~Eof(p) /\ ~CanAtom(p) => v = Failed(p, "Unexpected input")
  BY AtomIs
<1> SUFFICES ReadsSymbol("atom", p, v)
  OBVIOUS
<1> HIDE DEF v
<1>f. ASSUME AtomRefused(p), NEW msg \in Errors, v = Failed(p, msg) PROVE ReadsSymbol("atom", p, v)
  BY <1>f, FailedReads
<1>e. ASSUME ~Eof(p), t.typ \in {"pos", "options", "optSeq"}, t.typ \in OptTypes => ~p.reject, Known(p.args, p.options, t),
             NEW m, m \in Matchers(p.args, p.options), From(m, p.args, p.options, p.tokens), v = Element(p, m)
      PROVE  ReadsSymbol("atom", p, v)
  BY <1>e, ElementReads
<1>1. CASE Eof(p)
  BY <1>0, <1>1, <1>f DEF AtomRefused, CanAtom, Errors
<1>2. CASE ~Eof(p) /\ ~CanAtom(p)
  BY <1>0, <1>2, <1>f DEF AtomRefused, Errors
<1>3. CASE ~Eof(p) /\ t.typ \in OptTypes /\ p.reject
  BY <1>0, <1>3, <1>f DEF AtomRefused, Errors
<1>4. CASE Is(p, "pos")
  <2>1. ~Eof(p) /\ t.typ = "pos"
    BY <1>4 DEF Is
  <2>2. CASE t.val \in p.args
    <3>1. Known(p.args, p.options, t) /\ t.typ \notin OptTypes
      BY <2>1, <2>2 DEF Known, OptTypes
    <3>2. /\ ArgMatcher(t.val) \in Matchers(p.args, p.options)
          /\ From(ArgMatcher(t.val), p.args, p.options, p.tokens)
      BY <2>1, <2>2, MatchersOfTokens
    <3>3. v = Element(p, ArgMatcher(t.val))
      BY <1>0, <1>4, <2>2
    <3> QED BY <1>e, <2>1, <3>1, <3>2, <3>3
  <2>3. CASE t.val \notin p.args
    <3>1. AtomRefused(p)
      BY <2>1, <2>3 DEF AtomRefused, Known
    <3> QED BY <1>0, <1>4, <1>f, <2>3, <3>1 DEF Errors
  <2> QED BY <2>2, <2>3
<1>5. CASE Is(p, "options") /\ ~p.reject
  <2>1. ~Eof(p) /\ t.typ = "options"
    BY <1>5 DEF Is
  <2>2. Known(p.args, p.options, t)
    BY <2>1 DEF Known
  <2>3. /\ OptsMatcher(p.options, p.tkpos) \in Matchers(p.args, p.options)
        /\ From(OptsMatcher(p.options, p.tkpos), p.args, p.options, p.tokens)
    BY <2>1, MatchersOfTokens
  <2> QED BY <1>0, <1>5, <1>e, <2>1, <2>2, <2>3
<1>6. CASE (Is(p, "shortOpt") \/ Is(p, "longOpt")) /\ ~p.reject
  <2>1. ~Eof(p) /\ t.typ \in {"shortOpt", "longOpt"}
    BY <1>6 DEF Is
  <2>2. CASE t.val \in Declared(p)
    <3>1. v = Valued(p)
      BY <1>0, <1>6, <2>2
    <3> QED BY <1>6, <2>1, <2>2, <3>1, ValuedReads
  <2>3. CASE t.val \notin Declared(p)
    <3>1. AtomRefused(p)
      BY <2>1, <2>3 DEF AtomRefused, Known, Declared
    <3> QED BY <1>0, <1>6, <1>f, <2>3, <3>1 DEF Errors
  <2> QED BY <2>2, <2>3
<1>7. CASE Is(p, "optSeq") /\ ~p.reject
  <2>1. ~Eof(p) /\ t.typ = "optSeq"
    BY <1>7 DEF Is
  <2>2. CASE ToSet(t.val) \subseteq Declared(p)
    <3>1. Known(p.args, p.options, t)
      BY <2>1, <2>2 DEF Known, Declared
    <3>2. /\ OptsMatcher(t.val, p.tkpos) \in Matchers(p.args, p.options)
          /\ From(OptsMatcher(t.val, p.tkpos), p.args, p.options, p.tokens)
      BY <2>1, <2>2, MatchersOfTokens
    <3>3. v = Element(p, OptsMatcher(t.val, p.tkpos))
      BY <1>0, <1>7, <2>2
    <3> QED BY <1>7, <1>e, <2>1, <3>1, <3>2, <3>3
  <2>3. CASE ~(ToSet(t.val) \subseteq Declared(p))
    <3>1. AtomRefused(p)
      BY <2>1, <2>3 DEF AtomRefused, Known, Declared
    <3>2. v = Failed(p, "Undeclared option")
      BY <1>0, <1>7, <2>3
    <3> QED BY <1>f, <3>1, <3>2 DEF Errors
  <2> QED BY <2>2, <2>3
<1> DEFINE q == Group(p).r.p
           a == parse[Group(p)]
<1>8. CASE Is(p, "openPar")
  <2> DEFINE r == Closed(a, "closePar")
  <2>1. ~Eof(p) /\ t.typ = "openPar" /\ v = Rep(r) /\ AnsweredReads("sequence", q, a)
    BY <1>0, <1>8 DEF Is, GroupParsed
  <2>2. IsParser(q) /\ Answered(q, a)
    BY <2>1, GroupIs DEF Grows, AnsweredReads
  <2> HIDE DEF q, a
  <2>3. Answered(q, r) /\ ClosedBy(r, a, "closePar")
    BY <2>2, ClosedAnswers DEF ClosedBy
  <2>4. <<t.typ, "closePar">> \in Brackets
    BY <2>1 DEF Brackets
  <2> HIDE DEF r
  <2> QED BY <2>1, <2>3, <2>4, BracketsRead DEF q
<1>9. CASE Is(p, "openSq")
  <2> DEFINE b == Optional(a)
             r == Closed(b, "closeSq")
  <2>1. ~Eof(p) /\ t.typ = "openSq" /\ v = Rep(r) /\ AnsweredReads("sequence", q, a)
    BY <1>0, <1>9 DEF Is, GroupParsed
  <2>2. IsParser(q) /\ Answered(q, a)
    BY <2>1, GroupIs DEF Grows, AnsweredReads
  <2> HIDE DEF q, a
  <2>3. /\ Answered(q, b) /\ (b.p.err = "" <=> a.p.err = "")
        /\ b.p.err = "" => Grows(a.p, b.p) /\ b.p.tkpos = a.p.tkpos /\ b.p.reject = a.p.reject
    BY <2>2, OptionalAnswers
  <2> HIDE DEF b
  <2>4. /\ Answered(q, r) /\ (r.p.err = "" <=> b.p.err = "" /\ Is(b.p, "closeSq"))
        /\ r.p.err = "" => r.p.tkpos = b.p.tkpos + 1 /\ r.p.reject = b.p.reject
    BY <2>2, <2>3, ClosedAnswers
  <2> HIDE DEF r
  <2>5. b.p.err = "" => (Is(b.p, "closeSq") <=> Is(a.p, "closeSq"))
    BY <2>3 DEF Grows, Same, Is, Eof, Token
  <2>6. ClosedBy(r, a, "closeSq")
    BY <2>3, <2>4, <2>5 DEF ClosedBy
  <2>7. <<t.typ, "closeSq">> \in Brackets
    BY <2>1 DEF Brackets
  <2> QED BY <2>1, <2>4, <2>6, <2>7, BracketsRead DEF q
<1>10. CASE Is(p, "dblDash")
  <2>1. ~Eof(p) /\ t.typ = "dblDash"
    BY <1>10 DEF Is
  <2>2. Consumes(p, v) /\ v.p.tkpos = p.tkpos + 1 /\ v.p.reject
    BY <1>0, <1>10, <2>1, DashesAnswer
  <2> QED BY <2>1, <2>2, DashesRead
<1> QED BY <1>1, <1>2, <1>3, <1>4, <1>5, <1>6, <1>7, <1>8, <1>9, <1>10 DEF Is, CanAtom, AtomTypes, OptTypes

(***************************************************************************)
(* One part of a choice or of a sequence, and the parts behind it.         *)
(***************************************************************************)
Fine(r) == r.p.err = ""

\* What ReadsSymbol says of the answer r for the symbol k at the place i of the tokens s.
ReadsFine(k, as, os, s, b, i, r) ==
  Fine(r) => /\ r.p.tkpos \in Places(s) /\ r.p.tkpos \in Nat /\ Read(s, k, i, r.p.tkpos)
             /\ Legal(as, os, s, b, i, r.p.tkpos)
             /\ r.p.reject <=> b \/ Dashes(s, i, r.p.tkpos)
ReadsLegal(k, as, os, s, b, i, r) ==
  \A j \in Places(s) :
    Read(s, k, i, j) /\ Legal(as, os, s, b, i, j) /\ Stops(s, k, j) => Fine(r) /\ r.p.tkpos = j
ReadsAt(k, as, os, s, b, i, r) == ReadsFine(k, as, os, s, b, i, r) /\ ReadsLegal(k, as, os, s, b, i, r)

LEMMA ReadsIs ==
  ASSUME NEW k, NEW p, NEW r
  PROVE  ReadsSymbol(k, p, r) <=> ReadsAt(k, p.args, p.options, p.tokens, p.reject, p.tkpos, r)
<1>1. ReadsRight(k, p, r) <=> ReadsFine(k, p.args, p.options, p.tokens, p.reject, p.tkpos, r)
  <2>1. \A n \in Places(p.tokens) : n \in Nat
    BY DEF Places
  <2> QED BY <2>1 DEF ReadsRight, ReadsFine, Fine
<1>2. ReadsAll(k, p, r) <=> ReadsLegal(k, p.args, p.options, p.tokens, p.reject, p.tkpos, r)
  BY DEF ReadsAll, ReadsLegal, Fine
<1> QED BY <1>1, <1>2 DEF ReadsSymbol, ReadsAt

\* The answer v goes on behind a with w, or is a.
GoesOnWith(k, as, os, s, a, e, w, v) == v = w /\ ReadsAt(k, as, os, s, a.p.reject, e, w)
EndsWith(a, v)   == Fine(v) /\ v.p.tkpos = a.p.tkpos /\ v.p.reject = a.p.reject
IsChoice(s, e)   == e <= Len(s) /\ s[e].typ = "choice"

Alternates(as, os, s, a, w, v) ==
  /\ ~Fine(a) => ~Fine(v)
  /\ Fine(a) /\ IsChoice(s, a.p.tkpos) => GoesOnWith("choice", as, os, s, a, a.p.tkpos + 1, w, v)
  /\ Fine(a) /\ ~IsChoice(s, a.p.tkpos) => EndsWith(a, v)

LEMMA LegalOn ==
  ASSUME NEW as, NEW os, NEW s, NEW b, NEW c, NEW i \in Nat, NEW m \in Nat, NEW j \in Nat, i <= m, m <= j,
         c <=> b \/ Dashes(s, i, m), Legal(as, os, s, b, i, m), Legal(as, os, s, c, m, j)
  PROVE  Legal(as, os, s, b, i, j) /\ (Dashes(s, i, j) <=> Dashes(s, i, m) \/ Dashes(s, m, j))
<1>1. Dashes(s, i, j) <=> Dashes(s, i, m) \/ Dashes(s, m, j)
  BY DashesJoin
<1>2. Legal(as, os, s, b, i, j) <=> Legal(as, os, s, b, i, m) /\ Legal(as, os, s, c, m, j)
  BY LegalJoins
<1> QED BY <1>1, <1>2

LEMMA ChoiceMark ==
  ASSUME NEW as, NEW os, NEW s, NEW b, NEW e \in Nat, s[e].typ = "choice"
  PROVE  Legal(as, os, s, b, e, e + 1) /\ ~Dashes(s, e, e + 1)
<1>1. Known(as, os, s[e]) /\ s[e].typ \notin OptTypes /\ s[e].typ # "dblDash"
  BY DEF Known, OptTypes
<1> QED BY <1>1, OneToken

LEMMA ChoiceJoins ==
  ASSUME NEW as, NEW os, NEW s, NEW b, NEW i, NEW a, NEW w, NEW v, Len(s) \in Nat, i \in Places(s),
         ReadsAt("atom", as, os, s, b, i, a), Alternates(as, os, s, a, w, v)
  PROVE  ReadsAt("choice", as, os, s, b, i, v)
<1> DEFINE e == a.p.tkpos
           f == w.p.tkpos
<1>1. i \in Nat
  BY DEF Places
<1>2. Fine(a) => /\ e \in Places(s) /\ e \in Nat /\ Derives(s, "atom", i, e) /\ Legal(as, os, s, b, i, e)
                 /\ a.p.reject <=> b \/ Dashes(s, i, e)
  BY DEF ReadsAt, ReadsFine, Read
<1>3. \A j \in Places(s) : Derives(s, "atom", i, j) /\ Legal(as, os, s, b, i, j) /\ Stops(s, "atom", j) => Fine(a) /\ e = j
  BY DEF ReadsAt, ReadsLegal, Read
<1>4. Fine(a) /\ IsChoice(s, e) =>
        /\ v = w
        /\ Fine(w) => /\ f \in Places(s) /\ f \in Nat /\ Derives(s, "choice", e + 1, f)
                      /\ Legal(as, os, s, a.p.reject, e + 1, f)
                      /\ w.p.reject <=> a.p.reject \/ Dashes(s, e + 1, f)
        /\ \A j \in Places(s) :
              Derives(s, "choice", e + 1, j) /\ Legal(as, os, s, a.p.reject, e + 1, j) /\ Stops(s, "choice", j)
              => Fine(w) /\ f = j
  <2> SUFFICES ASSUME Fine(a) /\ IsChoice(s, e)
               PROVE  /\ v = w
                      /\ Fine(w) => /\ f \in Places(s) /\ f \in Nat /\ Derives(s, "choice", e + 1, f)
                                    /\ Legal(as, os, s, a.p.reject, e + 1, f)
                                    /\ w.p.reject <=> a.p.reject \/ Dashes(s, e + 1, f)
                      /\ \A j \in Places(s) :
                            Derives(s, "choice", e + 1, j) /\ Legal(as, os, s, a.p.reject, e + 1, j) /\ Stops(s, "choice", j)
                            => Fine(w) /\ f = j
    OBVIOUS
  <2>1. v = w /\ ReadsAt("choice", as, os, s, a.p.reject, e + 1, w)
    BY DEF Alternates, GoesOnWith
  <2> QED BY <2>1 DEF ReadsAt, ReadsFine, ReadsLegal, Read
<1>5. Fine(a) /\ ~IsChoice(s, e) => Fine(v) /\ v.p.tkpos = e /\ v.p.reject = a.p.reject
  BY DEF Alternates, EndsWith
<1>6. ~Fine(a) => ~Fine(v)
  BY DEF Alternates
<1> HIDE DEF e, f
<1>7. Fine(a) => i < e
  BY <1>2, Starts
<1>8. Fine(a) /\ IsChoice(s, e) =>
        /\ e + 1 \in Places(s) /\ e + 1 \in Nat /\ e <= e + 1 /\ s[e].typ = "choice"
        /\ Legal(as, os, s, b, i, e + 1)
        /\ a.p.reject <=> b \/ Dashes(s, i, e + 1)
  <2> SUFFICES ASSUME Fine(a) /\ IsChoice(s, e)
               PROVE  /\ e + 1 \in Places(s) /\ e + 1 \in Nat /\ e <= e + 1 /\ s[e].typ = "choice"
                      /\ Legal(as, os, s, b, i, e + 1)
                      /\ a.p.reject <=> b \/ Dashes(s, i, e + 1)
    OBVIOUS
  <2>1. s[e].typ = "choice" /\ e <= Len(s)
    BY DEF IsChoice
  <2>2. e + 1 \in Places(s) /\ e + 1 \in Nat /\ e <= e + 1 /\ i <= e
    BY <1>1, <1>2, <1>7, <2>1 DEF Places
  <2>3. Legal(as, os, s, a.p.reject, e, e + 1) /\ ~Dashes(s, e, e + 1)
    BY <1>2, <2>1, ChoiceMark
  <2> DEFINE h == a.p.reject
  <2>4. (h <=> b \/ Dashes(s, i, e)) /\ Legal(as, os, s, h, e, e + 1)
    BY <1>2, <2>3
  <2> HIDE DEF h
  <2>5. Legal(as, os, s, b, i, e + 1) /\ (Dashes(s, i, e + 1) <=> Dashes(s, i, e) \/ Dashes(s, e, e + 1))
    BY <1>1, <1>2, <2>2, <2>4, LegalOn
  <2>6. h <=> b \/ Dashes(s, i, e + 1)
    BY <2>3, <2>4, <2>5
  <2> QED BY <2>1, <2>2, <2>5, <2>6 DEF h
<1>9. ASSUME Fine(v)
      PROVE  /\ v.p.tkpos \in Places(s) /\ v.p.tkpos \in Nat /\ Derives(s, "choice", i, v.p.tkpos)
             /\ Legal(as, os, s, b, i, v.p.tkpos)
             /\ v.p.reject <=> b \/ Dashes(s, i, v.p.tkpos)
  <2>0. Fine(a)
    BY <1>6, <1>9
  <2>1. CASE ~IsChoice(s, e)
    <3>1. Derives(s, "choice", i, e)
      BY <1>2, <2>0, Rules
    <3> QED BY <1>2, <1>5, <2>0, <2>1, <3>1
  <2>2. CASE IsChoice(s, e)
    <3>1. /\ v = w /\ f \in Places(s) /\ f \in Nat /\ Derives(s, "choice", e + 1, f)
          /\ Legal(as, os, s, a.p.reject, e + 1, f)
          /\ w.p.reject <=> a.p.reject \/ Dashes(s, e + 1, f)
      BY <1>4, <1>9, <2>0, <2>2
    <3>2. e + 1 < f
      BY <1>8, <2>0, <2>2, <3>1, Starts
    <3>3. e \in i + 1 .. f - 2
      BY <1>1, <1>2, <1>7, <2>0, <3>1, <3>2
    <3>4. Derives(s, "choice", i, f)
      BY <1>2, <1>8, <2>0, <2>2, <3>1, <3>3, Rules
    <3>5. Legal(as, os, s, b, i, f) /\ (w.p.reject <=> b \/ Dashes(s, i, f))
      <4>1. i <= e + 1 /\ e + 1 <= f /\ e + 1 \in Nat
        BY <1>1, <1>2, <1>7, <2>0, <3>1, <3>2
      <4> DEFINE h == a.p.reject
      <4>2. /\ h <=> b \/ Dashes(s, i, e + 1)
            /\ Legal(as, os, s, b, i, e + 1) /\ Legal(as, os, s, h, e + 1, f)
            /\ w.p.reject <=> h \/ Dashes(s, e + 1, f)
        BY <1>8, <2>0, <2>2, <3>1
      <4> HIDE DEF h
      <4>3. Legal(as, os, s, b, i, f) /\ (Dashes(s, i, f) <=> Dashes(s, i, e + 1) \/ Dashes(s, e + 1, f))
        BY <1>1, <3>1, <4>1, <4>2, LegalOn
      <4> QED BY <4>2, <4>3
    <3> QED BY <3>1, <3>4, <3>5 DEF f
  <2> QED BY <2>1, <2>2
<1>10. ASSUME NEW j \in Places(s), Derives(s, "choice", i, j), Legal(as, os, s, b, i, j), Stops(s, "choice", j)
       PROVE  Fine(v) /\ v.p.tkpos = j
  <2>0. j \in Nat
    BY DEF Places
  <2>1. CASE Derives(s, "atom", i, j)
    <3>1. Stops(s, "atom", j)
      BY <1>10 DEF Stops, GoesOn
    <3>2. Fine(a) /\ e = j
      BY <1>3, <1>10, <2>1, <3>1
    <3>3. ~IsChoice(s, e)
      BY <1>10, <3>2 DEF IsChoice, Stops, GoesOn
    <3> QED BY <1>5, <3>2, <3>3
  <2>2. CASE \E m \in i + 1 .. j - 2 : s[m].typ = "choice" /\ Derives(s, "atom", i, m) /\ Derives(s, "choice", m + 1, j)
    <3>1. PICK m \in i + 1 .. j - 2 : s[m].typ = "choice" /\ Derives(s, "atom", i, m) /\ Derives(s, "choice", m + 1, j)
      BY <2>2
    <3>2. /\ m \in Nat /\ m \in Places(s) /\ m <= Len(s) /\ m <= j /\ m + 1 <= j /\ i <= m + 1 /\ m + 1 \in Nat
      BY <1>1, <2>0 DEF Places
    <3>3. Stops(s, "atom", m)
      BY <3>1 DEF Stops, GoesOn
    <3>4. Legal(as, os, s, b, i, m)
      BY <1>1, <1>10, <2>0, <3>2, LegalBefore
    <3>5. Fine(a) /\ e = m
      BY <1>3, <3>1, <3>2, <3>3, <3>4
    <3>6. IsChoice(s, e)
      BY <3>1, <3>2, <3>5 DEF IsChoice
    <3>7. Legal(as, os, s, a.p.reject, e + 1, j)
      <4> DEFINE h == a.p.reject
      <4>1. h <=> b \/ Dashes(s, i, m + 1)
        BY <1>8, <3>5, <3>6
      <4> HIDE DEF h
      <4>2. Legal(as, os, s, b, i, j) <=> Legal(as, os, s, b, i, m + 1) /\ Legal(as, os, s, h, m + 1, j)
        BY <1>1, <2>0, <3>2, <4>1, LegalJoins
      <4> QED BY <1>10, <3>5, <4>2 DEF h
    <3>8. Fine(w) /\ f = j /\ v = w
      BY <1>4, <1>10, <3>1, <3>5, <3>6, <3>7
    <3> QED BY <3>8 DEF f
  <2> QED BY <1>10, <2>1, <2>2, Rules
<1> QED BY <1>9, <1>10 DEF ReadsAt, ReadsFine, ReadsLegal, Read

Appends(as, os, s, a, w, v) ==
  /\ ~Fine(a) => ~Fine(v)
  /\ Fine(a) => GoesOnWith("components", as, os, s, a, a.p.tkpos, w, v)

LEMMA SequenceJoins ==
  ASSUME NEW as, NEW os, NEW s, NEW b, NEW i, NEW a, NEW w, NEW v, Len(s) \in Nat, i \in Places(s),
         ReadsAt("choice", as, os, s, b, i, a), Appends(as, os, s, a, w, v)
  PROVE  ReadsAt("sequence", as, os, s, b, i, v)
<1> DEFINE e == a.p.tkpos
           f == w.p.tkpos
<1>1. i \in Nat
  BY DEF Places
<1>2. Fine(a) => /\ e \in Places(s) /\ e \in Nat /\ Derives(s, "choice", i, e) /\ Legal(as, os, s, b, i, e)
                 /\ a.p.reject <=> b \/ Dashes(s, i, e)
  BY DEF ReadsAt, ReadsFine, Read
<1>3. \A j \in Places(s) : Derives(s, "choice", i, j) /\ Legal(as, os, s, b, i, j) /\ Stops(s, "choice", j) => Fine(a) /\ e = j
  BY DEF ReadsAt, ReadsLegal, Read
<1>4. Fine(a) =>
        /\ v = w
        /\ Fine(w) => /\ f \in Places(s) /\ f \in Nat /\ (e = f \/ Derives(s, "sequence", e, f))
                      /\ Legal(as, os, s, a.p.reject, e, f)
                      /\ w.p.reject <=> a.p.reject \/ Dashes(s, e, f)
        /\ \A j \in Places(s) :
              (e = j \/ Derives(s, "sequence", e, j)) /\ Legal(as, os, s, a.p.reject, e, j) /\ Stops(s, "components", j)
              => Fine(w) /\ f = j
  <2> SUFFICES ASSUME Fine(a)
               PROVE  /\ v = w
                      /\ Fine(w) => /\ f \in Places(s) /\ f \in Nat /\ (e = f \/ Derives(s, "sequence", e, f))
                                    /\ Legal(as, os, s, a.p.reject, e, f)
                                    /\ w.p.reject <=> a.p.reject \/ Dashes(s, e, f)
                      /\ \A j \in Places(s) :
                            /\ e = j \/ Derives(s, "sequence", e, j)
                            /\ Legal(as, os, s, a.p.reject, e, j) /\ Stops(s, "components", j)
                            => Fine(w) /\ f = j
    OBVIOUS
  <2>1. v = w /\ ReadsAt("components", as, os, s, a.p.reject, e, w)
    BY DEF Appends, GoesOnWith
  <2> QED BY <2>1 DEF ReadsAt, ReadsFine, ReadsLegal, Read
<1>5. ~Fine(a) => ~Fine(v)
  BY DEF Appends
<1> HIDE DEF e, f
<1>6. Fine(a) => i < e
  BY <1>2, Starts
<1>7. ASSUME Fine(v)
      PROVE  /\ v.p.tkpos \in Places(s) /\ v.p.tkpos \in Nat /\ Derives(s, "sequence", i, v.p.tkpos)
             /\ Legal(as, os, s, b, i, v.p.tkpos)
             /\ v.p.reject <=> b \/ Dashes(s, i, v.p.tkpos)
  <2>0. Fine(a)
    BY <1>5, <1>7
  <2>1. /\ v = w /\ f \in Places(s) /\ f \in Nat /\ (e = f \/ Derives(s, "sequence", e, f))
        /\ Legal(as, os, s, a.p.reject, e, f)
        /\ w.p.reject <=> a.p.reject \/ Dashes(s, e, f)
    BY <1>4, <1>7, <2>0
  <2>2. e # f => e < f
    BY <1>2, <2>0, <2>1, Starts
  <2>3. e <= f
    BY <1>2, <2>0, <2>1, <2>2
  <2>4. Derives(s, "sequence", i, f)
    <3>1. CASE e = f
      BY <1>2, <2>0, <2>1, <3>1, Rules
    <3>2. CASE e # f
      <4>1. e \in i + 1 .. f - 1
        BY <1>1, <1>2, <1>6, <2>0, <2>1, <2>2, <3>2
      <4> QED BY <1>2, <2>0, <2>1, <3>2, <4>1, Rules
    <3> QED BY <3>1, <3>2
  <2>5. Legal(as, os, s, b, i, f) /\ (w.p.reject <=> b \/ Dashes(s, i, f))
    <3> DEFINE h == a.p.reject
    <3>1. /\ h <=> b \/ Dashes(s, i, e)
          /\ Legal(as, os, s, b, i, e) /\ Legal(as, os, s, h, e, f)
          /\ w.p.reject <=> h \/ Dashes(s, e, f)
      BY <1>2, <2>0, <2>1
    <3>2. i <= e
      BY <1>1, <1>2, <1>6, <2>0
    <3> HIDE DEF h
    <3>3. Legal(as, os, s, b, i, f) /\ (Dashes(s, i, f) <=> Dashes(s, i, e) \/ Dashes(s, e, f))
      BY <1>1, <1>2, <2>0, <2>1, <2>3, <3>1, <3>2, LegalOn
    <3> QED BY <3>1, <3>3
  <2> QED BY <2>1, <2>4, <2>5 DEF f
<1>8. ASSUME NEW j \in Places(s), Derives(s, "sequence", i, j), Legal(as, os, s, b, i, j), Stops(s, "sequence", j)
      PROVE  Fine(v) /\ v.p.tkpos = j
  <2>0. j \in Nat
    BY DEF Places
  <2>c. Stops(s, "components", j) /\ Stops(s, "choice", j)
    BY <1>8 DEF Stops, GoesOn
  <2>1. CASE Derives(s, "choice", i, j)
    <3>1. Fine(a) /\ e = j
      BY <1>3, <1>8, <2>1, <2>c
    <3>2. Legal(as, os, s, a.p.reject, e, e)
      BY <1>2, <3>1, OneToken
    <3>3. Fine(w) /\ f = j /\ v = w
      BY <1>4, <2>c, <3>1, <3>2
    <3> QED BY <3>3 DEF f
  <2>2. CASE \E m \in i + 1 .. j - 1 : Derives(s, "choice", i, m) /\ Derives(s, "sequence", m, j)
    <3>1. PICK m \in i + 1 .. j - 1 : Derives(s, "choice", i, m) /\ Derives(s, "sequence", m, j)
      BY <2>2
    <3>2. m \in Nat /\ m \in Places(s) /\ m <= Len(s) /\ m <= j /\ i <= m
      BY <1>1, <2>0 DEF Places
    <3>3. s[m].typ \in AtomTypes
      BY <3>1, <3>2, Starts
    <3>4. Stops(s, "choice", m)
      BY <3>3 DEF Stops, GoesOn, AtomTypes
    <3>5. Legal(as, os, s, b, i, m)
      BY <1>1, <1>8, <2>0, <3>2, LegalBefore
    <3>6. Fine(a) /\ e = m
      BY <1>3, <3>1, <3>2, <3>4, <3>5
    <3>7. Legal(as, os, s, a.p.reject, e, j)
      <4> DEFINE h == a.p.reject
      <4>1. h <=> b \/ Dashes(s, i, m)
        BY <1>2, <3>6
      <4> HIDE DEF h
      <4>2. Legal(as, os, s, b, i, j) <=> Legal(as, os, s, b, i, m) /\ Legal(as, os, s, h, m, j)
        BY <1>1, <2>0, <3>2, <4>1, LegalJoins
      <4> QED BY <1>8, <3>6, <4>2 DEF h
    <3>8. Fine(w) /\ f = j /\ v = w
      BY <1>4, <2>c, <3>1, <3>6, <3>7
    <3> QED BY <3>8 DEF f
  <2> QED BY <1>8, <2>1, <2>2, Rules
<1> QED BY <1>7, <1>8 DEF ReadsAt, ReadsFine, ReadsLegal, Read

StartsAtom(s, i) == i <= Len(s) /\ s[i].typ \in AtomTypes

\* Components that need not be there: those of a sequence if an atom may start, or none.
LEMMA SomeComponents ==
  ASSUME NEW as, NEW os, NEW s, NEW b, NEW i, NEW v, StartsAtom(s, i),
         ReadsAt("sequence", as, os, s, b, i, v)
  PROVE  ReadsAt("components", as, os, s, b, i, v)
<1>1. ~Stops(s, "components", i)
  BY DEF StartsAtom, Stops, GoesOn
<1>2. \A j : Stops(s, "components", j) <=> Stops(s, "sequence", j)
  BY DEF Stops, GoesOn
<1>3. ReadsFine("components", as, os, s, b, i, v)
  BY DEF ReadsAt, ReadsFine, Read
<1>4. ReadsLegal("components", as, os, s, b, i, v)
  BY <1>1, <1>2 DEF ReadsAt, ReadsLegal, Read
<1> QED BY <1>3, <1>4 DEF ReadsAt

LEMMA NoComponents ==
  ASSUME NEW as, NEW os, NEW s, NEW b, NEW i, NEW v, Len(s) \in Nat, i \in Places(s), ~StartsAtom(s, i),
         Fine(v), v.p.tkpos = i, v.p.reject = b
  PROVE  ReadsAt("components", as, os, s, b, i, v)
<1>1. i \in Nat
  BY DEF Places
<1>2. Legal(as, os, s, b, i, i) /\ ~Dashes(s, i, i)
  BY <1>1, OneToken
<1>3. \A j \in Places(s) : ~Derives(s, "sequence", i, j)
  <2> SUFFICES ASSUME NEW j \in Places(s), Derives(s, "sequence", i, j) PROVE FALSE
    OBVIOUS
  <2>1. i < j /\ s[i].typ \in AtomTypes
    BY Starts
  <2>2. i <= Len(s)
    BY <1>1, <2>1 DEF Places
  <2> QED BY <2>1, <2>2 DEF StartsAtom
<1> QED BY <1>1, <1>2, <1>3 DEF ReadsAt, ReadsFine, ReadsLegal, Read

(***************************************************************************)
(* Every call reads what the grammar says, if those below it do.           *)
(***************************************************************************)
CallReads(y, parse) == y.r.p.tkpos \in Places(y.r.p.tokens) => ReadsSymbol(y.production, y.r.p, parse[y])
ReadBelow(c, parse, as, os, ts) == \A y : Below(y, c, as, os, ts) => CallReads(y, parse)

LEMMA OnwardReads ==
  ASSUME NEW as, NEW os, NEW ts, NEW parse, AllReturned(parse, as, os, ts),
         NEW c, IsCall(c, as, os, ts), ReadBelow(c, parse, as, os, ts),
         NEW l, NEW s, Onward(c, l, s), s.p.tkpos \in Places(ts)
  PROVE  /\ ReadsAt(l, as, os, ts, s.p.reject, s.p.tkpos, parse[Call(l, s)])
         /\ l # "components" => Answered(s.p, parse[Call(l, s)])
<1> DEFINE y == Call(l, s)
           p == c.r.p
<1>1. IsPiece(s) /\ Grows(p, s.p) /\ l \in Productions
  BY DEF Onward
<1>2. IsParser(p) /\ p.args = as /\ p.options = os /\ p.tokens = ts
  BY DEF IsCall
<1>3. s.p.args = as /\ s.p.options = os /\ s.p.tokens = ts
  BY <1>1, <1>2 DEF Grows, Same
<1>4. y.r = s /\ y.production = l
  BY DEF Call
<1>5. Below(y, c, as, os, ts)
  BY Smaller
<1> HIDE DEF y
<1>6. ReadsSymbol(l, s.p, parse[y])
  BY <1>3, <1>4, <1>5 DEF ReadBelow, CallReads
<1>7. ReadsAt(l, as, os, ts, s.p.reject, s.p.tkpos, parse[y])
  BY <1>3, <1>6, ReadsIs
<1>8. l # "components" => Answered(s.p, parse[y])
  <2> HIDE DEF p
  <2> QED BY <1>1, <1>2, CallReturns DEF y
<1> QED BY <1>7, <1>8 DEF y

LEMMA IsChoiceAt ==
  ASSUME NEW q, NEW s, NEW e, IsParser(q), q.tokens = s, q.tkpos = e
  PROVE  Is(q, "choice") <=> IsChoice(s, e)
<1>1. q.tkpos \in Nat /\ Len(q.tokens) \in Nat
  BY Fields
<1> QED BY <1>1, PlaceIs DEF IsChoice

LEMMA AlternativesRead ==
  ASSUME NEW as, NEW os, NEW ts, NEW parse, AllReturned(parse, as, os, ts),
         NEW c, IsCall(c, as, os, ts), ReadBelow(c, parse, as, os, ts), c.production = "choice",
         c.r.p.tkpos \in Places(ts)
  PROVE  ReadsAt("choice", as, os, ts, c.r.p.reject, c.r.p.tkpos, Alternatives(c.r, parse))
<1> DEFINE r == c.r
           p == r.p
           a == parse[Call("atom", r)]
           m == MoreOf(r, a)
           w == parse[m]
           v == Alternatives(r, parse)
<1>1. IsPiece(r) /\ IsParser(p) /\ p.args = as /\ p.options = os /\ p.tokens = ts /\ Len(ts) \in Nat /\ p.tkpos \in Places(ts)
  BY Fields DEF IsCall
<1>2. Grows(p, p)
  BY <1>1, GrowsSelf
<1>3. ReadsAt("atom", as, os, ts, p.reject, p.tkpos, a) /\ Answered(p, a)
  <2>1. Onward(c, "atom", r)
    BY <1>1, <1>2 DEF Productions, Level, Onward
  <2> HIDE DEF r
  <2> QED BY <1>1, <2>1, OnwardReads
<1>4. FromFirst(r, parse, a, v)
  BY AlternativesIs
<1> HIDE DEF v
<1>5. ~Fine(a) => ~Fine(v)
  BY <1>4 DEF FromFirst, Fine
<1>6. ASSUME Fine(a)
      PROVE  /\ IsChoice(ts, a.p.tkpos) => GoesOnWith("choice", as, os, ts, a, a.p.tkpos + 1, w, v)
             /\ ~IsChoice(ts, a.p.tkpos) => EndsWith(a, v)
  <2> DEFINE b == Add(r, a)
  <2>1. Consumes(p, a)
    BY <1>3, <1>6 DEF Answered, Fine
  <2> HIDE DEF a
  <2>2. /\ b.p.err = "" /\ Grows(a.p, b.p) /\ b.p.tkpos = a.p.tkpos /\ b.p.reject = a.p.reject
        /\ m = Call("choice", m.r) /\ IsPiece(m.r) /\ Grows(p, m.r.p)
        /\ m.r.p.tkpos = a.p.tkpos + 1 /\ p.tkpos < m.r.p.tkpos /\ m.r.p.reject = a.p.reject
    <3> HIDE DEF r
    <3>1. IsPiece(r) /\ Consumes(r.p, a)
      BY <1>1, <2>1
    <3>2. AddedTo(r, a, b, m)
      BY <3>1, MoreIs
    <3> QED BY <3>2 DEF AddedTo
  <2>3. a.p.tokens = ts /\ IsParser(a.p)
    BY <1>1, <2>1, GoneOnIs
  <2>4. Is(b.p, "choice") <=> IsChoice(ts, a.p.tkpos)
    <3>1. IsParser(b.p) /\ b.p.tokens = ts /\ b.p.tkpos = a.p.tkpos
      BY <2>2, <2>3 DEF Grows, Same
    <3> QED BY <3>1, IsChoiceAt
  <2>5. /\ IsChoice(ts, a.p.tkpos) => v = w
        /\ ~IsChoice(ts, a.p.tkpos) => v = b
    BY <1>4, <1>6, <2>4 DEF FromFirst, Fine
  <2>6. ~IsChoice(ts, a.p.tkpos) => EndsWith(a, v)
    BY <2>2, <2>5 DEF EndsWith, Fine
  <2> HIDE DEF b
  <2>7. ASSUME IsChoice(ts, a.p.tkpos) PROVE ReadsAt("choice", as, os, ts, a.p.reject, a.p.tkpos + 1, w)
    <3> HIDE DEF m
    <3>1. Onward(c, "choice", m.r)
      BY <2>1, <2>2 DEF Productions, Consumes, Onward
    <3>2. m.r.p.tkpos \in Places(ts)
      <4>1. a.p.tkpos \in Nat /\ a.p.tkpos <= Len(ts)
        BY <2>3, <2>7, Fields DEF IsChoice
      <4>2. m.r.p.tkpos = a.p.tkpos + 1 /\ Len(ts) \in Nat
        BY <1>1, <2>2
      <4> QED BY <4>1, <4>2 DEF Places
    <3>3. ReadsAt("choice", as, os, ts, m.r.p.reject, m.r.p.tkpos, parse[Call("choice", m.r)])
      BY <3>1, <3>2, OnwardReads
    <3> QED BY <2>2, <3>3
  <2> QED BY <2>5, <2>6, <2>7 DEF GoesOnWith
<1> HIDE DEF a, w
<1>7. Alternates(as, os, ts, a, w, v)
  BY <1>5, <1>6 DEF Alternates
<1>8. ReadsAt("choice", as, os, ts, p.reject, p.tkpos, v)
  <2> HIDE DEF p
  <2> QED BY <1>1, <1>3, <1>7, ChoiceJoins
<1> QED BY <1>8 DEF v

LEMMA CanAtomIs ==
  ASSUME NEW p, IsParser(p)
  PROVE  CanAtom(p) <=> StartsAtom(p.tokens, p.tkpos)
<1>1. p.tkpos \in Nat /\ Len(p.tokens) \in Nat
  BY Fields
<1> QED BY <1>1 DEF CanAtom, StartsAtom, Eof, Token

LEMMA ComponentsRead ==
  ASSUME NEW as, NEW os, NEW ts, NEW parse, AllReturned(parse, as, os, ts),
         NEW c, IsCall(c, as, os, ts), ReadBelow(c, parse, as, os, ts), c.production \in {"sequence", "components"},
         c.r.p.tkpos \in Places(ts), NEW required \in BOOLEAN
  PROVE  ReadsAt(IF required THEN "sequence" ELSE "components", as, os, ts, c.r.p.reject, c.r.p.tkpos,
                 Components(c.r, required, parse))
<1> DEFINE r == c.r
           p == r.p
           b == p.reject
           i == p.tkpos
           x == Choice(p)
           a == parse[x]
           m == RestOf(r, a)
           w == parse[m]
           v == Components(r, required, parse)
<1>1. IsPiece(r) /\ IsParser(p) /\ p.args = as /\ p.options = os /\ p.tokens = ts /\ Len(ts) \in Nat /\ i \in Places(ts)
  BY Fields DEF IsCall
<1>2. IsPiece(x.r) /\ Grows(p, x.r.p) /\ x.r.p.tkpos = i /\ x.r.p.reject = b /\ x = Call("choice", x.r)
  <2> HIDE DEF r
  <2> QED BY <1>1, ChoiceIs
<1>3. /\ ~required /\ ~CanAtom(p) => v = r
      /\ (required \/ CanAtom(p)) /\ a.p.err # "" => v = a
      /\ (required \/ CanAtom(p)) /\ a.p.err = "" => v = w
  BY Zenon DEF Components, RestOf
<1> HIDE DEF x, v
<1>4. ReadsAt("choice", as, os, ts, b, i, a) /\ Answered(x.r.p, a)
  <2> DEFINE s == x.r
  <2>1. Onward(c, "choice", s)
    BY <1>2 DEF Productions, Level, Onward
  <2>2. s.p.tkpos = i /\ s.p.reject = b /\ x = Call("choice", s)
    BY <1>2
  <2> HIDE DEF s
  <2>3. s.p.tkpos \in Places(ts)
    BY <1>1, <2>2
  <2>4. /\ ReadsAt("choice", as, os, ts, s.p.reject, s.p.tkpos, parse[Call("choice", s)])
        /\ Answered(s.p, parse[Call("choice", s)])
    BY <2>1, <2>3, OnwardReads
  <2> QED BY <2>2, <2>4 DEF s
<1>5. ASSUME Fine(a) PROVE ReadsAt("components", as, os, ts, a.p.reject, a.p.tkpos, w)
  <2>1. Consumes(x.r.p, a)
    BY <1>4, <1>5 DEF Answered, Fine
  <2> HIDE DEF a
  <2>2. Consumes(p, a)
    <3> DEFINE q == x.r.p
    <3>1. Grows(p, q) /\ Consumes(q, a) /\ IsParser(p) /\ q.tkpos = p.tkpos /\ q.tkpos <= Len(q.tokens)
      BY <1>1, <1>2, <2>1 DEF Consumes
    <3> HIDE DEF p, q
    <3>2. Follows(p, a) /\ p.tkpos < a.p.tkpos
      BY <3>1, FollowsOn
    <3>3. p.tkpos <= Len(p.tokens)
      BY <3>1 DEF Grows, Same
    <3> QED BY <3>2, <3>3 DEF Consumes
  <2>3. AppendedTo(r, a, m)
    <3> HIDE DEF r
    <3> QED BY <1>1, <2>2, RestIs
  <2> HIDE DEF m
  <2> DEFINE s == m.r
  <2>4. m = Call("components", s) /\ s.p.tkpos = a.p.tkpos /\ s.p.reject = a.p.reject /\ Onward(c, "components", s)
    BY <2>3 DEF AppendedTo, Consumes, Follows, Onward, Productions
  <2>5. s.p.tkpos \in Places(ts)
    BY <1>4, <1>5, <2>4 DEF ReadsAt, ReadsFine
  <2> HIDE DEF s
  <2>6. ReadsAt("components", as, os, ts, s.p.reject, s.p.tkpos, parse[Call("components", s)])
    BY <2>4, <2>5, OnwardReads
  <2> QED BY <2>4, <2>6
<1>6. ASSUME required \/ CanAtom(p) PROVE ReadsAt("sequence", as, os, ts, b, i, v)
  <2>1. (~Fine(a) => ~Fine(v)) /\ (Fine(a) => v = w)
    BY <1>3, <1>6 DEF Fine
  <2>2. Appends(as, os, ts, a, w, v)
    <3> HIDE DEF a, w
    <3> QED BY <1>5, <2>1 DEF Appends, GoesOnWith
  <2> HIDE DEF a, w, i, b
  <2> QED BY <1>1, <1>4, <2>2, SequenceJoins
<1>7. CanAtom(p) <=> StartsAtom(ts, i)
  BY <1>1, CanAtomIs
<1>8. CASE required
  <2>1. ReadsAt("sequence", as, os, ts, b, i, v)
    BY <1>6, <1>8
  <2> QED BY <1>8, <2>1 DEF v
<1>9. CASE ~required
  <2>1. ReadsAt("components", as, os, ts, b, i, v)
    <3>1. CASE CanAtom(p)
      <4>1. ReadsAt("sequence", as, os, ts, b, i, v) /\ StartsAtom(ts, i)
        BY <1>6, <1>7, <3>1
      <4> HIDE DEF b, i
      <4> QED BY <4>1, SomeComponents
    <3>2. CASE ~CanAtom(p)
      <4>1. v = r
        BY <1>3, <1>9, <3>2
      <4>2. Fine(v) /\ v.p.tkpos = i /\ v.p.reject = b
        BY <1>1, <4>1, Fields DEF Fine
      <4>3. ~StartsAtom(ts, i)
        BY <1>7, <3>2
      <4> HIDE DEF b, i
      <4> QED BY <1>1, <4>2, <4>3, NoComponents
    <3> QED BY <3>1, <3>2
  <2> QED BY <1>9, <2>1 DEF v
<1> QED BY <1>8, <1>9

LEMMA AtomRead ==
  ASSUME NEW as, NEW os, NEW ts, NEW parse, AllReturned(parse, as, os, ts),
         NEW c, IsCall(c, as, os, ts), ReadBelow(c, parse, as, os, ts), c.r.p.tkpos \in Places(ts)
  PROVE  ReadsAt("atom", as, os, ts, c.r.p.reject, c.r.p.tkpos, Atom(c.r.p, parse))
<1> DEFINE p == c.r.p
           g == Group(p)
<1>1. IsParser(p) /\ p.args = as /\ p.options = os /\ p.tokens = ts /\ p.tkpos \in Places(p.tokens)
  BY DEF IsCall
<1>2. ASSUME ~Eof(p) PROVE AnsweredReads("sequence", g.r.p, parse[g])
  <2>1. /\ IsPiece(g.r) /\ Grows(p, g.r.p) /\ g = Call("sequence", g.r) /\ g.r.p.tkpos = p.tkpos + 1
    <3> HIDE DEF p
    <3> QED BY <1>1, <1>2, GroupIs
  <2>2. p.tkpos \in Nat /\ Len(p.tokens) \in Nat /\ p.tkpos <= Len(p.tokens) /\ p.tkpos + 1 \in Places(p.tokens)
    <3> HIDE DEF p
    <3> QED BY <1>1, <1>2, AtPlace
  <2>3. p.tkpos < g.r.p.tkpos
    <3> HIDE DEF g
    <3> QED BY <2>1, <2>2
  <2> HIDE DEF g
  <2> DEFINE s == g.r
  <2>4. Onward(c, "sequence", s) /\ g = Call("sequence", s) /\ s.p.tkpos \in Places(ts)
    BY <1>1, <2>1, <2>2, <2>3 DEF Onward, Productions
  <2>5. s.p.args = as /\ s.p.options = os /\ s.p.tokens = ts
    BY <1>1, <2>1 DEF Grows, Same
  <2> HIDE DEF s
  <2>6. /\ ReadsAt("sequence", as, os, ts, s.p.reject, s.p.tkpos, parse[g])
        /\ Answered(s.p, parse[g])
    BY <2>4, OnwardReads
  <2>7. ReadsSymbol("sequence", s.p, parse[g])
    BY <2>5, <2>6, ReadsIs
  <2> QED BY <2>6, <2>7 DEF AnsweredReads, s
<1>3. GroupParsed(p, parse)
  BY <1>2 DEF GroupParsed, Is
<1> HIDE DEF p
<1>4. ReadsSymbol("atom", p, Atom(p, parse))
  BY <1>1, <1>3, AtomReads
<1>5. ReadsAt("atom", as, os, ts, p.reject, p.tkpos, Atom(p, parse))
  BY <1>1, <1>4, ReadsIs
<1> QED BY <1>5 DEF p

LEMMA AnswerReads ==
  ASSUME NEW as, NEW os, NEW ts, NEW parse, AllReturned(parse, as, os, ts),
         NEW c, IsCall(c, as, os, ts), ReadBelow(c, parse, as, os, ts), c.r.p.tkpos \in Places(ts)
  PROVE  ReadsSymbol(c.production, c.r.p, Answer(c, parse))
<1> DEFINE p == c.r.p
           ReadTo(k, v) == ReadsAt(k, as, os, ts, p.reject, p.tkpos, v)
<1>1. p.args = as /\ p.options = os /\ p.tokens = ts /\ c.production \in Productions
  BY DEF IsCall
<1>2. SUFFICES ReadTo(c.production, Answer(c, parse))
  BY <1>1, ReadsIs
<1>3. CASE c.production = "atom"
  <2>1. Answer(c, parse) = Atom(p, parse)
    BY <1>3 DEF Answer
  <2> QED BY <1>3, <2>1, AtomRead
<1>4. CASE c.production = "choice"
  <2>1. Answer(c, parse) = Alternatives(c.r, parse)
    BY <1>4 DEF Answer
  <2> QED BY <1>4, <2>1, AlternativesRead
<1>5. CASE c.production \in {"sequence", "components"}
  <2>1. \A b \in BOOLEAN : ReadTo(IF b THEN "sequence" ELSE "components", Components(c.r, b, parse))
    BY <1>5, ComponentsRead
  <2> HIDE DEF ReadTo
  <2>2. ReadTo("sequence", Components(c.r, TRUE, parse)) /\ ReadTo("components", Components(c.r, FALSE, parse))
    BY <2>1, Zenon
  <2>3. /\ c.production = "sequence" => Answer(c, parse) = Components(c.r, TRUE, parse)
        /\ c.production = "components" => Answer(c, parse) = Components(c.r, FALSE, parse)
    <3>1. c.production = "components" => c.production # "sequence"
      OBVIOUS
    <3> QED BY <3>1, Zenon DEF Answer
  <2>4. CASE c.production = "sequence"
    BY <2>2, <2>3, <2>4, Zenon
  <2>5. CASE c.production = "components"
    BY <2>2, <2>3, <2>5, Zenon
  <2> QED BY <1>5, <2>4, <2>5
<1> QED BY <1>1, <1>3, <1>4, <1>5 DEF Productions

LEMMA CallsRead ==
  ASSUME NEW as, NEW os, NEW ts, Inputs(os, ts)
  PROVE  \A c \in Calls(as, os, ts) : CallReads(c, Parses(as, os, ts))
<1> DEFINE D == Calls(as, os, ts)
           parse == Parses(as, os, ts)
           rank == [c \in D |-> Size(c)]
           S == {c \in D : CallReads(c, parse)}
<1>1. AllReturned(parse, as, os, ts) /\ \A c \in D : parse[c] = Answer(c, parse)
  BY ParsesAnswer DEF IsParse
<1>2. \A c \in D : IsCall(c, as, os, ts) /\ Size(c) \in Nat
  <2> TAKE c \in D
  <2>1. IsCall(c, as, os, ts)
    BY CallIs
  <2> DEFINE p == c.r.p
             n == c.production
  <2>2. IsParser(p) /\ n \in Productions
    BY <2>1 DEF IsCall
  <2>3. Size(c) = 3 * Left(p) + Level(n)
    BY DEF Size
  <2> HIDE DEF p, n
  <2>4. 3 * Left(p) + Level(n) \in Nat
    BY <2>2, GrowsSelf, Sizes
  <2> QED BY <2>1, <2>3, <2>4
<1> HIDE DEF parse
<1>3. rank \in [D -> Nat] /\ \A c \in D : rank[c] = Size(c)
  BY <1>2
<1>4. ASSUME NEW c \in D, \A y \in D : rank[y] < rank[c] => y \in S PROVE c \in S
  <2>1. \A y \in D : Size(y) < Size(c) => CallReads(y, parse)
    BY <1>3, <1>4
  <2>2. ReadBelow(c, parse, as, os, ts)
    BY <2>1 DEF ReadBelow, Below
  <2>3. IsCall(c, as, os, ts) /\ c.r.p.tokens = ts
    BY <1>2 DEF IsCall
  <2>4. c.r.p.tkpos \in Places(ts) => ReadsSymbol(c.production, c.r.p, Answer(c, parse))
    <3> HIDE DEF D
    <3> QED BY <1>1, <2>2, <2>3, AnswerReads
  <2> QED BY <1>1, <2>3, <2>4 DEF CallReads
<1> HIDE DEF D, rank, S
<1>5. D \subseteq S
  BY <1>3, <1>4, RankInduction
<1> QED BY <1>5 DEF S, D, parse

\* All the tokens are legal from the first on.
LEMMA LegalAll ==
  ASSUME NEW as, NEW os, NEW s, NEW b, Len(s) \in Nat, DOMAIN s = 1 .. Len(s), ~b
  PROVE  Legal(as, os, s, b, 1, Len(s) + 1) <=> NamesDeclared(as, os, s) /\ NoOptionsAfterDashes(s)
<1>1. 1 .. (Len(s) + 1) - 1 = DOMAIN s
  OBVIOUS
<1>2. \A n \in DOMAIN s : Dashes(s, 1, n) <=> \E m \in DOMAIN s : m < n /\ s[m].typ = "dblDash"
  <2> TAKE n \in DOMAIN s
  <2>1. \A m : m \in 1 .. n - 1 <=> m \in DOMAIN s /\ m < n
    OBVIOUS
  <2> QED BY <2>1 DEF Dashes
<1>3. NoOptionsAfterDashes(s) <=> \A n \in DOMAIN s : s[n].typ \in OptTypes => ~Dashes(s, 1, n)
  BY <1>2 DEF NoOptionsAfterDashes
<1> QED BY <1>1, <1>3 DEF Legal, NamesDeclared

\* The parser accepts exactly the specs of the grammar that name declared options and arguments
\* only and no option behind `--`: no spec is rejected for how it was read, whatever its length
\* and nesting, and none is accepted of which a token was skipped (uParse, spec_parser.go).
THEOREM AcceptsTheGrammar ==
  ASSUME NEW as, NEW os, NEW ts, Inputs(os, ts)
  PROVE  UParse(as, os, ts).err = "" <=> Valid(as, os, ts)
<1> DEFINE c == First(as, os, ts)
           r == Parses(as, os, ts)[c]
           g == UParse(as, os, ts)
           p == c.r.p
           n == Len(ts)
<1>1. n \in Nat /\ DOMAIN ts = 1 .. n
  BY LenProperties DEF Inputs, IsSpec
<1>2. c \in Calls(as, os, ts) /\ c.production = "components" /\ AtStart(p, as, os, ts)
  BY FirstIs
<1>3. p.args = as /\ p.options = os /\ p.tokens = ts /\ p.tkpos = 1 /\ ~p.reject
  <2> HIDE DEF p
  <2> QED BY <1>2 DEF AtStart
<1>4. 1 \in Places(ts) /\ n + 1 \in Places(ts)
  BY <1>1 DEF Places
<1>5. ReadsSymbol("components", p, r)
  <2> HIDE DEF c
  <2>1. CallReads(c, Parses(as, os, ts))
    BY <1>2, CallsRead
  <2> QED BY <1>2, <1>3, <1>4, <2>1 DEF CallReads
<1>6. ReadsAt("components", as, os, ts, p.reject, 1, r)
  <2> HIDE DEF p, r
  <2> QED BY <1>3, <1>5, ReadsIs
<1>7. Results(g, r, c)
  BY ParsedIs
<1> HIDE DEF c, r, g
<1>8. g.err = "" <=> Fine(r) /\ Eof(r.p)
  BY <1>7 DEF Results, Fine
<1>9. Fine(r) => r.p.tkpos \in Places(ts) /\ (Eof(r.p) <=> r.p.tkpos > n)
  <2> SUFFICES ASSUME Fine(r) PROVE r.p.tkpos \in Places(ts) /\ (Eof(r.p) <=> r.p.tkpos > n)
    OBVIOUS
  <2>1. r \in AnyPieces(as, os, ts)
    <3>1. Returned(c, r)
      BY <1>2, ParsesAnswer DEF IsParse, AllReturned, r
    <3> QED BY <1>3, <3>1 DEF Returned
  <2>2. r.p.tokens = ts
    BY <2>1 DEF AnyPieces, AnyParsers
  <2> QED BY <1>6, <2>2 DEF ReadsAt, ReadsFine, Eof
<1>10. Fine(r) => (r.p.tkpos > n <=> r.p.tkpos = n + 1)
  BY <1>1, <1>9 DEF Places
<1>11. g.err = "" <=> Fine(r) /\ r.p.tkpos = n + 1
  BY <1>8, <1>9, <1>10
<1>12. Derives(ts, "spec", 1, n + 1) <=> 1 = n + 1 \/ Derives(ts, "sequence", 1, n + 1)
  BY <1>1, <1>4, Rules
<1> DEFINE b == p.reject
<1>13. Legal(as, os, ts, b, 1, n + 1) <=> NamesDeclared(as, os, ts) /\ NoOptionsAfterDashes(ts)
  <2>1. ~b
    BY <1>3
  <2> HIDE DEF b
  <2> QED BY <1>1, <2>1, LegalAll
<1> HIDE DEF p, b
<1>14. Valid(as, os, ts) <=> (1 = n + 1 \/ Derives(ts, "sequence", 1, n + 1)) /\ Legal(as, os, ts, b, 1, n + 1)
  BY <1>12, <1>13 DEF Valid
<1>15. Stops(ts, "components", n + 1)
  BY <1>1 DEF Stops
<1>16. Fine(r) /\ r.p.tkpos = n + 1 => Valid(as, os, ts)
  BY <1>6, <1>14 DEF ReadsAt, ReadsFine, Read, b
<1>17. Valid(as, os, ts) => Fine(r) /\ r.p.tkpos = n + 1
  BY <1>4, <1>6, <1>14, <1>15 DEF ReadsAt, ReadsLegal, Read, b
<1>18. g.err = "" <=> Valid(as, os, ts)
  BY <1>11, <1>16, <1>17
<1> QED BY <1>18 DEF g

\* What is written is a sequence of tokens.
OfTokens == written \in Seq(Alphabet)

LEMMA Written == Writing => []OfTokens
<1>1. Unwritten => OfTokens
  BY DEF Unwritten, OfTokens
<1>2. OfTokens /\ [WriteOn]_written => OfTokens'
  BY AppendProperties DEF WriteOn, Write, Done, OfTokens
<1> QED BY <1>1, <1>2, PTL DEF Writing

LEMMA SpecWritten ==
  ASSUME NEW ts \in Seq(Alphabet)
  PROVE  Inputs(Options, ts)
<1>1. ToSet(ts) \subseteq Alphabet /\ ts \in Seq(ToSet(ts))
  BY LenProperties DEF ToSet
<1> QED BY <1>1, TokensAssumption DEF Inputs, IsSpec

\* So do the specs written one token at a time, whatever the tokens and the declared names.
THEOREM GrammarAccepted == Writing => []AcceptsGrammar
<1>1. OfTokens => AcceptsGrammar
  BY SpecWritten, AcceptsTheGrammar DEF AcceptsGrammar, OfTokens
<1> QED BY <1>1, Written, PTL

(***************************************************************************)
(* The brackets that are open behind a token.                              *)
(***************************************************************************)
Closers == {[typ |-> "closePar", val |-> ")"], [typ |-> "closeSq", val |-> "]"]}

LEMMA OpenBehindIs ==
  ASSUME NEW o \in Seq(Closers), NEW t
  PROVE  OpenBehind(o, t) \in Seq(Closers)
<1>1. Closer(t) \in Closers
  BY DEF Closer, Closers
<1> HIDE DEF Closers
<1>2. <<Closer(t)>> \o o \in Seq(Closers)
  BY <1>1
<1>3. o # <<>> => Tail(o) \in Seq(Closers)
  OBVIOUS
<1> QED BY <1>2, <1>3 DEF OpenBehind

LEMMA PendingIs ==
  ASSUME NEW s
  PROVE  /\ Pending(s)[0] = <<>>
         /\ \A n \in Nat : Pending(s)[n] \in Seq(Closers) /\ Pending(s)[n + 1] = OpenBehind(Pending(s)[n], s[n + 1])
<1> DEFINE V == Seq(Closers)
           G == [x \in Nat \X [Nat -> V] |-> IF x[1] = 0 THEN <<>> ELSE OpenBehind(x[2][x[1] - 1], s[x[1]])]
           rank == [n \in Nat |-> n]
<1>0. <<>> \in V /\ \A o \in V : \A t : OpenBehind(o, t) \in V
  BY OpenBehindIs
<1> HIDE DEF V
<1>1. ASSUME NEW n \in Nat, NEW h \in [Nat -> V]
      PROVE  G[<<n, h>>] = IF n = 0 THEN <<>> ELSE OpenBehind(h[n - 1], s[n])
  OBVIOUS
<1>2. G \in [Nat \X [Nat -> V] -> V]
  <2>1. ASSUME NEW n \in Nat, NEW h \in [Nat -> V]
        PROVE  (IF n = 0 THEN <<>> ELSE OpenBehind(h[n - 1], s[n])) \in V
    <3>1. n # 0 => n - 1 \in Nat
      OBVIOUS
    <3> QED BY <1>0, <3>1
  <2>2. \A x \in Nat \X [Nat -> V] : (IF x[1] = 0 THEN <<>> ELSE OpenBehind(x[2][x[1] - 1], s[x[1]])) \in V
    BY <2>1
  <2> QED BY <2>2
<1>3. \A n \in Nat : \A h, k \in [Nat -> V] :
        (\A y \in Nat : rank[y] < rank[n] => h[y] = k[y]) => G[<<n, h>>] = G[<<n, k>>]
  <2> SUFFICES ASSUME NEW n \in Nat, NEW h \in [Nat -> V], NEW k \in [Nat -> V],
                      \A y \in Nat : rank[y] < rank[n] => h[y] = k[y]
               PROVE  G[<<n, h>>] = G[<<n, k>>]
    OBVIOUS
  <2>1. n # 0 => n - 1 \in Nat /\ rank[n - 1] < rank[n]
    OBVIOUS
  <2>2. n # 0 => h[n - 1] = k[n - 1]
    BY <2>1
  <2> QED BY <1>1, <2>2
<1>4. rank \in [Nat -> Nat]
  OBVIOUS
<1>5. Ranked(Nat, V, rank, G)
  <2> HIDE DEF G, rank
  <2> QED BY <1>0, <1>2, <1>3, <1>4 DEF Ranked
<1>6. PICK f \in [Nat -> V] : \A n \in Nat : f[n] = G[<<n, f>>]
  <2> HIDE DEF G, rank
  <2>1. \E g : Computed(g, Nat, V, G)
    BY <1>5, Recursion
  <2> QED BY <2>1 DEF Computed
<1> DEFINE Next(g) == [n \in Nat |-> IF n = 0 THEN <<>> ELSE OpenBehind(g[n - 1], s[n])]
           p == Pending(s)
<1>7. f = Next(f)
  <2> HIDE DEF G
  <2> QED BY <1>1, <1>6
<1>8. p = CHOOSE g : g = Next(g)
  BY DEF Pending
<1>9. p = Next(p)
  <2> HIDE DEF Next, p
  <2> QED BY <1>7, <1>8
<1>10. p[0] = <<>> /\ \A n \in Nat : p[n + 1] = OpenBehind(p[n], s[n + 1])
  <2> HIDE DEF p
  <2>1. p[0] = Next(p)[0] /\ \A n \in Nat : p[n + 1] = Next(p)[n + 1]
    BY <1>9, Zenon
  <2>2. \A n \in Nat : n + 1 \in Nat /\ n + 1 # 0 /\ (n + 1) - 1 = n
    OBVIOUS
  <2> QED BY <2>1, <2>2
<1> HIDE DEF p, Next
<1> DEFINE S == {n \in Nat : p[n] \in V}
<1>11. S \subseteq Nat /\ 0 \in S /\ \A n \in S : n + 1 \in S
  <2>1. 0 \in S
    BY <1>0, <1>10
  <2>2. ASSUME NEW n \in S PROVE n + 1 \in S
    <3>1. n \in Nat /\ n + 1 \in Nat /\ p[n] \in V
      OBVIOUS
    <3>2. p[n + 1] \in V
      BY <1>0, <1>10, <3>1
    <3> QED BY <3>1, <3>2
  <2> QED BY <2>1, <2>2
<1>12. \A n \in Nat : n \in S
  <2> HIDE DEF S
  <2> QED BY <1>11, Induction
<1> QED BY <1>10, <1>12 DEF p, V

\* The specs s and t have the same first n tokens.
Agrees(s, t, n) == /\ n \in Nat /\ Len(s) \in Nat /\ Len(t) \in Nat /\ n <= Len(s) /\ n <= Len(t)
                   /\ \A l \in 1 .. n : s[l] = t[l]

LEMMA PendingSame ==
  ASSUME NEW s, NEW t, NEW n, Agrees(s, t, n)
  PROVE  \A m \in 0 .. n : Pending(s)[m] = Pending(t)[m]
<1> DEFINE S == {m \in Nat : m <= n => Pending(s)[m] = Pending(t)[m]}
<1>0. n \in Nat
  BY DEF Agrees
<1>1. 0 \in S
  BY PendingIs
<1>2. ASSUME NEW m \in S PROVE m + 1 \in S
  <2>1. m \in Nat /\ m + 1 \in Nat
    OBVIOUS
  <2>2. ASSUME m + 1 <= n PROVE Pending(s)[m + 1] = Pending(t)[m + 1]
    <3>1. m <= n /\ m + 1 \in 1 .. n
      BY <1>0, <2>1, <2>2
    <3>2. Pending(s)[m] = Pending(t)[m] /\ s[m + 1] = t[m + 1]
      BY <3>1 DEF Agrees
    <3> QED BY <2>1, <3>2, PendingIs
  <2> QED BY <2>1, <2>2
<1>3. \A m \in Nat : m \in S
  <2> S \subseteq Nat
    OBVIOUS
  <2> HIDE DEF S
  <2> QED BY <1>1, <1>2, Induction
<1> QED BY <1>0, <1>3

(***************************************************************************)
(* What derives from a symbol depends on its tokens only, and closes what  *)
(* brackets it opens.                                                      *)
(***************************************************************************)
LEMMA RuleSame ==
  ASSUME NEW s, NEW t, NEW n, Agrees(s, t, n), NEW k \in Symbols, NEW i \in 1 .. n + 1, NEW j \in 1 .. n + 1,
         NEW d, NEW e, \A y \in Symbols \X (1 .. n + 1) \X (1 .. n + 1) : Depth(y) < Depth(<<k, i, j>>) => d[y] = e[y]
  PROVE  Rule(s, k, i, j, d) = Rule(t, k, i, j, e)
<1> DEFINE o == n + 1
<1>0. n \in Nat /\ o \in Nat /\ i \in 1 .. o /\ j \in 1 .. o /\ \A l \in 1 .. n : s[l] = t[l]
  BY DEF Agrees
<1>1. ASSUME NEW h \in Symbols, Order(h) < Order(k) PROVE d[<<h, i, j>>] = e[<<h, i, j>>]
  BY <1>0, <1>1, Depths
<1>2. ASSUME NEW h \in Symbols, NEW l \in 1 .. o, NEW m \in 1 .. o, i <= l, l <= m, m <= j, i < l \/ m < j
      PROVE  d[<<h, l, m>>] = e[<<h, l, m>>]
  BY <1>0, <1>2, Depths
<1>3. CASE k = "spec"
  <2>1. d[<<"sequence", i, j>>] = e[<<"sequence", i, j>>]
    BY <1>1, <1>3 DEF Order, Symbols
  <2> QED BY <1>3, <2>1 DEF Rule
<1>4. CASE k = "sequence"
  <2>1. d[<<"choice", i, j>>] = e[<<"choice", i, j>>]
    BY <1>1, <1>4 DEF Order, Symbols
  <2>2. \A m \in i + 1 .. j - 1 : /\ d[<<"choice", i, m>>] = e[<<"choice", i, m>>]
                                  /\ d[<<"sequence", m, j>>] = e[<<"sequence", m, j>>]
    BY <1>0, <1>2 DEF Symbols
  <2> QED BY <1>4, <2>1, <2>2 DEF Rule
<1>5. CASE k = "choice"
  <2>1. d[<<"atom", i, j>>] = e[<<"atom", i, j>>]
    BY <1>1, <1>5 DEF Order, Symbols
  <2>2. \A m \in i + 1 .. j - 2 : /\ d[<<"atom", i, m>>] = e[<<"atom", i, m>>]
                                  /\ d[<<"choice", m + 1, j>>] = e[<<"choice", m + 1, j>>]
    BY <1>0, <1>2 DEF Symbols
  <2>3. \A m \in i + 1 .. j - 2 : s[m] = t[m]
    BY <1>0
  <2> QED BY <1>5, <2>1, <2>2, <2>3 DEF Rule
<1>6. CASE k = "atom"
  <2>1. d[<<"item", i, j>>] = e[<<"item", i, j>>]
    BY <1>1, <1>6 DEF Order, Symbols
  <2>2. j > i + 1 => d[<<"item", i, j - 1>>] = e[<<"item", i, j - 1>>] /\ s[j - 1] = t[j - 1]
    BY <1>0, <1>2 DEF Symbols
  <2>3. j = i + 1 => s[i] = t[i]
    BY <1>0
  <2> QED BY <1>6, <2>1, <2>2, <2>3 DEF Rule
<1>7. CASE k = "item"
  <2>1. j > i + 2 => d[<<"sequence", i + 1, j - 1>>] = e[<<"sequence", i + 1, j - 1>>] /\ s[i] = t[i] /\ s[j - 1] = t[j - 1]
    BY <1>0, <1>2 DEF Symbols
  <2>2. (j = i + 1 => s[i] = t[i]) /\ (j = i + 2 => s[i] = t[i] /\ s[i + 1] = t[i + 1])
    BY <1>0
  <2> QED BY <1>7, <2>1, <2>2 DEF Rule
<1> QED BY <1>3, <1>4, <1>5, <1>6, <1>7 DEF Symbols

LEMMA DerivesSame ==
  ASSUME NEW s, NEW t, NEW n, Agrees(s, t, n)
  PROVE  \A k \in Symbols : \A i, j \in 1 .. n + 1 : Derives(s, k, i, j) = Derives(t, k, i, j)
<1> DEFINE D == Symbols \X (1 .. n + 1) \X (1 .. n + 1)
           S == {x \in D : Derivations(s)[x] = Derivations(t)[x]}
           rank == [x \in D |-> Depth(x)]
<1>0. n \in Nat /\ Len(s) \in Nat /\ Len(t) \in Nat /\ n <= Len(s) /\ n <= Len(t)
  BY DEF Agrees
<1>1. ASSUME NEW x \in D
      PROVE  /\ x = <<x[1], x[2], x[3]>> /\ x[1] \in Symbols /\ x[2] \in 1 .. n + 1 /\ x[3] \in 1 .. n + 1
             /\ x \in Spans(s) /\ x \in Spans(t)
  BY <1>0 DEF Spans
<1>2. rank \in [D -> Nat] /\ \A x \in D : rank[x] = Depth(x)
  <2>1. \A x \in D : Depth(x) \in Nat
    <3> TAKE x \in D
    <3>1. n + 1 \in Nat
      BY <1>0
    <3> QED BY <1>1, <3>1, Depths
  <2> QED BY <2>1
<1>3. ASSUME NEW x \in D, \A y \in D : rank[y] < rank[x] => y \in S PROVE x \in S
  <2>1. \A y \in D : Depth(y) < Depth(x) => Derivations(s)[y] = Derivations(t)[y]
    BY <1>2, <1>3
  <2> DEFINE k == x[1]
             i == x[2]
             j == x[3]
  <2>2. x = <<k, i, j>> /\ k \in Symbols /\ i \in 1 .. n + 1 /\ j \in 1 .. n + 1
    BY <1>1
  <2>3. Derivations(s)[x] = Rule(s, k, i, j, Derivations(s)) /\ Derivations(t)[x] = Rule(t, k, i, j, Derivations(t))
    BY <1>0, <1>1, Derived
  <2> HIDE DEF k, i, j
  <2>4. Rule(s, k, i, j, Derivations(s)) = Rule(t, k, i, j, Derivations(t))
    BY <2>1, <2>2, RuleSame
  <2> QED BY <2>3, <2>4
<1> HIDE DEF rank
<1>4. D \subseteq S
  <2> HIDE DEF D, S
  <2> QED BY <1>2, <1>3, RankInduction
<1>5. \A k \in Symbols : \A i, j \in 1 .. n + 1 : <<k, i, j>> \in S
  BY <1>4
<1> QED BY <1>5 DEF Derives

OpenTypes  == {"openPar", "openSq"}
CloseTypes == {"closePar", "closeSq"}

\* What a token does to the brackets that are open.
LEMMA TokenPends ==
  ASSUME NEW s, NEW n \in Nat, n # 0
  PROVE  /\ Pending(s)[n - 1] \in Seq(Closers) /\ Pending(s)[n] \in Seq(Closers)
         /\ s[n].typ \notin OpenTypes \cup CloseTypes => Pending(s)[n] = Pending(s)[n - 1]
         /\ s[n].typ \in OpenTypes => Pending(s)[n] = <<Closer(s[n])>> \o Pending(s)[n - 1]
         /\ s[n].typ \in CloseTypes /\ Pending(s)[n - 1] # <<>> => Pending(s)[n] = Tail(Pending(s)[n - 1])
<1>1. n - 1 \in Nat /\ (n - 1) + 1 = n
  OBVIOUS
<1> DEFINE p == Pending(s)
<1>2. p[n - 1] \in Seq(Closers) /\ p[n] \in Seq(Closers) /\ p[n] = OpenBehind(p[n - 1], s[n])
  BY <1>1, PendingIs
<1> HIDE DEF p
<1>3. s[n].typ \in OpenTypes => s[n].typ \notin CloseTypes
  BY DEF OpenTypes, CloseTypes
<1>4. /\ s[n].typ \notin OpenTypes \cup CloseTypes => p[n] = p[n - 1]
      /\ s[n].typ \in OpenTypes => p[n] = <<Closer(s[n])>> \o p[n - 1]
      /\ s[n].typ \in CloseTypes /\ p[n - 1] # <<>> => p[n] = Tail(p[n - 1])
  BY <1>2, <1>3 DEF OpenBehind, OpenTypes, CloseTypes
<1> QED BY <1>2, <1>4 DEF p

Even(s, i, j) == Pending(s)[j - 1] = Pending(s)[i - 1]

LEMMA EvenJoins ==
  ASSUME NEW s, NEW i, NEW m, NEW j, Even(s, i, m), Even(s, m, j)
  PROVE  Even(s, i, j)
BY DEF Even

\* A token that is no bracket.
LEMMA EvenToken ==
  ASSUME NEW s, NEW n \in Nat, n # 0, s[n].typ \notin OpenTypes \cup CloseTypes
  PROVE  Even(s, n, n + 1)
<1>1. (n + 1) - 1 = n
  OBVIOUS
<1> QED BY <1>1, TokenPends DEF Even

LEMMA EvenGroup ==
  ASSUME NEW s, NEW i \in Nat, NEW j \in Nat, i # 0, j > i + 1, s[i].typ \in OpenTypes, s[j - 1].typ \in CloseTypes,
         Even(s, i + 1, j - 1)
  PROVE  Even(s, i, j)
<1> DEFINE p == Pending(s)
           a == p[i - 1]
           c == <<Closer(s[i])>>
<1>1. a \in Seq(Closers) /\ p[i] = c \o a
  BY TokenPends
<1>2. p[j - 2] = p[i]
  <2>1. (j - 1) - 1 = j - 2 /\ (i + 1) - 1 = i
    OBVIOUS
  <2> QED BY <2>1 DEF Even
<1>3. Tail(c \o a) = a /\ c \o a # <<>>
  BY <1>1
<1>4. p[j - 1] = Tail(p[j - 2])
  <2>1. j - 1 \in Nat /\ j - 1 # 0 /\ (j - 1) - 1 = j - 2
    OBVIOUS
  <2>2. p[j - 2] # <<>>
    BY <1>1, <1>2, <1>3
  <2> HIDE DEF a, c
  <2> QED BY <2>1, <2>2, TokenPends
<1>5. p[j - 1] = a
  BY <1>1, <1>2, <1>3, <1>4
<1> QED BY <1>5 DEF Even

LEMMA EvenRule ==
  ASSUME NEW s, Len(s) \in Nat, NEW k \in Symbols, NEW i \in Places(s), NEW j \in Places(s), Derives(s, k, i, j),
         \A h \in Symbols : \A l, m \in Places(s) :
           Depth(<<h, l, m>>) < Depth(<<k, i, j>>) /\ Derives(s, h, l, m) => Even(s, l, m)
  PROVE  Even(s, i, j)
<1> DEFINE o == Len(s) + 1
<1>0. o \in Nat /\ i \in 1 .. o /\ j \in 1 .. o /\ i \in Nat /\ j \in Nat /\ i # 0 /\ Places(s) = 1 .. o
  BY DEF Places
<1>1. ASSUME NEW h \in Symbols, Order(h) < Order(k), Derives(s, h, i, j) PROVE Even(s, i, j)
  BY <1>0, <1>1, Depths
<1>2. ASSUME NEW h \in Symbols, NEW l \in 1 .. o, NEW m \in 1 .. o, i <= l, l <= m, m <= j, i < l \/ m < j,
             Derives(s, h, l, m)
      PROVE  Even(s, l, m)
  BY <1>0, <1>2, Depths
<1>3. CASE k = "spec"
  <2>1. i = j \/ Derives(s, "sequence", i, j)
    BY <1>3, Rules
  <2>2. i = j => Even(s, i, j)
    BY DEF Even
  <2>3. Order("sequence") < Order(k) /\ "sequence" \in Symbols
    BY <1>3 DEF Order, Symbols
  <2> QED BY <1>1, <2>1, <2>2, <2>3
<1>4. CASE k = "sequence"
  <2>1. Order("choice") < Order(k) /\ "choice" \in Symbols /\ "sequence" \in Symbols
    BY <1>4 DEF Order, Symbols
  <2>2. CASE Derives(s, "choice", i, j)
    BY <1>1, <2>1, <2>2
  <2>3. ASSUME NEW m \in i + 1 .. j - 1, Derives(s, "choice", i, m), Derives(s, "sequence", m, j) PROVE Even(s, i, j)
    <3>1. m \in 1 .. o /\ i <= m /\ m <= j /\ i < m /\ m < j /\ i <= i /\ j <= j
      BY <1>0
    <3>2. Even(s, i, m) /\ Even(s, m, j)
      BY <1>0, <1>2, <2>1, <2>3, <3>1
    <3> QED BY <3>2, EvenJoins
  <2> QED BY <1>4, <2>2, <2>3, Rules
<1>5. CASE k = "choice"
  <2>1. Order("atom") < Order(k) /\ "choice" \in Symbols /\ "atom" \in Symbols
    BY <1>5 DEF Order, Symbols
  <2>2. CASE Derives(s, "atom", i, j)
    BY <1>1, <2>1, <2>2
  <2>3. ASSUME NEW m \in i + 1 .. j - 2, s[m].typ = "choice", Derives(s, "atom", i, m), Derives(s, "choice", m + 1, j)
        PROVE  Even(s, i, j)
    <3>1. m \in 1 .. o /\ m + 1 \in 1 .. o /\ i <= m /\ m <= j /\ i < m + 1 /\ m < j /\ i <= i /\ j <= j /\ m + 1 <= j /\ i <= m + 1
          /\ m \in Nat /\ m # 0
      BY <1>0
    <3>2. Even(s, i, m) /\ Even(s, m + 1, j)
      BY <1>0, <1>2, <2>1, <2>3, <3>1
    <3>3. Even(s, m, m + 1)
      BY <2>3, <3>1, EvenToken DEF OpenTypes, CloseTypes
    <3>4. Even(s, i, m + 1)
      BY <3>2, <3>3, EvenJoins
    <3> QED BY <3>2, <3>4, EvenJoins
  <2> QED BY <1>5, <2>2, <2>3, Rules
<1>6. CASE k = "atom"
  <2>1. Order("item") < Order(k) /\ "item" \in Symbols
    BY <1>6 DEF Order, Symbols
  <2>2. CASE j = i + 1 /\ s[i].typ = "dblDash"
    BY <1>0, <2>2, EvenToken DEF OpenTypes, CloseTypes
  <2>3. CASE Derives(s, "item", i, j)
    BY <1>1, <2>1, <2>3
  <2>4. CASE j > i + 1 /\ s[j - 1].typ = "rep" /\ Derives(s, "item", i, j - 1)
    <3>1. j - 1 \in 1 .. o /\ i <= j - 1 /\ j - 1 <= j /\ j - 1 < j /\ i <= i /\ j - 1 \in Nat /\ j - 1 # 0 /\ (j - 1) + 1 = j
      BY <1>0, <2>4
    <3>2. Even(s, i, j - 1)
      BY <1>0, <1>2, <2>1, <2>4, <3>1
    <3>3. Even(s, j - 1, (j - 1) + 1)
      BY <2>4, <3>1, EvenToken DEF OpenTypes, CloseTypes
    <3> QED BY <3>1, <3>2, <3>3, EvenJoins
  <2> QED BY <1>6, <2>2, <2>3, <2>4, Rules
<1>7. CASE k = "item"
  <2>0. "sequence" \in Symbols
    BY DEF Symbols
  <2>1. CASE j = i + 1 /\ s[i].typ \in {"pos", "options", "shortOpt", "longOpt", "optSeq"}
    BY <1>0, <2>1, EvenToken DEF OpenTypes, CloseTypes
  <2>2. CASE j = i + 2 /\ s[i].typ \in {"shortOpt", "longOpt"} /\ s[i + 1].typ = "optValue"
    <3>1. i + 1 \in Nat /\ i + 1 # 0 /\ (i + 1) + 1 = j
      BY <1>0, <2>2
    <3>2. Even(s, i, i + 1) /\ Even(s, i + 1, (i + 1) + 1)
      BY <1>0, <2>2, <3>1, EvenToken DEF OpenTypes, CloseTypes
    <3> QED BY <3>1, <3>2, EvenJoins
  <2>3. CASE /\ j > i + 2
             /\ <<s[i].typ, s[j - 1].typ>> \in {<<"openPar", "closePar">>, <<"openSq", "closeSq">>}
             /\ Derives(s, "sequence", i + 1, j - 1)
    <3>1. i + 1 \in 1 .. o /\ j - 1 \in 1 .. o /\ i <= i + 1 /\ i + 1 <= j - 1 /\ j - 1 <= j /\ i < i + 1 /\ j > i + 1
      BY <1>0, <2>3
    <3>2. Even(s, i + 1, j - 1)
      BY <1>2, <2>0, <2>3, <3>1
    <3>3. s[i].typ \in OpenTypes /\ s[j - 1].typ \in CloseTypes
      BY <2>3 DEF OpenTypes, CloseTypes
    <3> QED BY <1>0, <3>1, <3>2, <3>3, EvenGroup
  <2> QED BY <1>7, <2>1, <2>2, <2>3, Rules
<1> QED BY <1>3, <1>4, <1>5, <1>6, <1>7 DEF Symbols

LEMMA Balanced ==
  ASSUME NEW s, Len(s) \in Nat
  PROVE  \A k \in Symbols : \A i, j \in Places(s) : Derives(s, k, i, j) => Even(s, i, j)
<1> DEFINE D == Symbols \X Places(s) \X Places(s)
           S == {x \in D : Derives(s, x[1], x[2], x[3]) => Even(s, x[2], x[3])}
           rank == [x \in D |-> Depth(x)]
<1>1. ASSUME NEW x \in D
      PROVE  x = <<x[1], x[2], x[3]>> /\ x[1] \in Symbols /\ x[2] \in Places(s) /\ x[3] \in Places(s)
  OBVIOUS
<1>2. rank \in [D -> Nat] /\ \A x \in D : rank[x] = Depth(x)
  <2>1. \A x \in D : Depth(x) \in Nat
    <3> TAKE x \in D
    <3>1. Len(s) + 1 \in Nat
      OBVIOUS
    <3> QED BY <1>1, <3>1, Depths DEF Places
  <2> QED BY <2>1
<1>3. ASSUME NEW x \in D, \A y \in D : rank[y] < rank[x] => y \in S PROVE x \in S
  <2>1. \A y \in D : Depth(y) < Depth(x) => y \in S
    BY <1>2, <1>3
  <2>2. \A h \in Symbols : \A l, m \in Places(s) : <<h, l, m>> \in D
    OBVIOUS
  <2>3. \A h \in Symbols : \A l, m \in Places(s) :
          Depth(<<h, l, m>>) < Depth(x) /\ Derives(s, h, l, m) => Even(s, l, m)
    BY <2>1, <2>2
  <2> DEFINE k == x[1]
             i == x[2]
             j == x[3]
  <2>4. x = <<k, i, j>> /\ k \in Symbols /\ i \in Places(s) /\ j \in Places(s)
    BY <1>1
  <2> SUFFICES ASSUME Derives(s, k, i, j) PROVE Even(s, i, j)
    OBVIOUS
  <2> HIDE DEF k, i, j
  <2> QED BY <2>3, <2>4, EvenRule
<1> HIDE DEF rank
<1>4. D \subseteq S
  <2> HIDE DEF D, S
  <2> QED BY <1>2, <1>3, RankInduction
<1>5. \A k \in Symbols : \A i, j \in Places(s) : <<k, i, j>> \in S
  BY <1>4
<1> QED BY <1>5

(***************************************************************************)
(* What was read, completed.                                               *)
(***************************************************************************)
\* The first tokens of the spec s, up to the place e, completed.
UpTo(s, e)           == SubSeq(s, 1, e - 1)
CompletedAt(s, e, f) == Completed(UpTo(s, e), f)

\* The place at which what began at i, and its brackets, ends in that.
Ending(s, i, e, f) == (e + Len(f)) + (Len(Pending(s)[e - 1]) - Len(Pending(s)[i - 1]))

\* The brackets a were open before those of b that come first.
Under(a, b) == Len(a) <= Len(b) /\ \A l \in 1 .. Len(a) : b[(Len(b) - Len(a)) + l] = a[l]

CompletedIs(s, e, f, t) ==
  /\ Agrees(s, t, e - 1) /\ Len(t) = (e - 1) + Len(f) + Len(Pending(s)[e - 1])
  /\ \A l \in 1 .. Len(f) : t[(e - 1) + l] = f[l]
  /\ \A l \in 1 .. Len(Pending(s)[e - 1]) : t[(e - 1) + Len(f) + l] = Pending(s)[e - 1][l]

LEMMA FillerIs ==
  ASSUME NEW f \in Fillers
  PROVE  Len(f) \in {0, 1} /\ (Len(f) = 1 => f[1] = [typ |-> "dblDash", val |-> "--"]) /\ f \in Seq({[typ |-> "dblDash", val |-> "--"]})
<1> DEFINE d == [typ |-> "dblDash", val |-> "--"]
<1>1. f = <<>> \/ f = <<d>>
  BY DEF Fillers
<1> HIDE DEF d
<1>2. CASE f = <<>>
  <2>1. Len(f) = 0 /\ f \in Seq({d})
    BY <1>2
  <2> QED BY <2>1 DEF d
<1>3. CASE f = <<d>>
  <2>1. Len(f) = 1 /\ f[1] = d /\ f \in Seq({d})
    BY <1>3
  <2> QED BY <2>1 DEF d
<1> QED BY <1>1, <1>2, <1>3

LEMMA Completing ==
  ASSUME NEW s, IsSpec(s), NEW e \in Places(s), NEW f \in Fillers
  PROVE  CompletedIs(s, e, f, CompletedAt(s, e, f))
<1> DEFINE d == [typ |-> "dblDash", val |-> "--"]
           U == ToSet(s) \cup {d} \cup Closers
           u == UpTo(s, e)
           n == e - 1
           q == Pending(s)[n]
           t == u \o f \o q
<1>1. s \in Seq(U) /\ Len(s) \in Nat
  BY LenProperties DEF IsSpec
<1>2. n \in Nat /\ n <= Len(s) /\ e \in Nat
  BY <1>1 DEF Places
<1>3. f \in Seq(U) /\ Len(f) \in Nat
  BY FillerIs
<1>4. q \in Seq(U) /\ Len(q) \in Nat
  <2>1. q \in Seq(Closers)
    BY <1>2, PendingIs
  <2> HIDE DEF q
  <2> QED BY <2>1
<1> HIDE DEF U, q, n
<1>5. u \in Seq(U) /\ Len(u) = n /\ \A l \in 1 .. n : u[l] = s[l]
  BY <1>1, <1>2 DEF UpTo, n
<1> HIDE DEF u
<1>6. Agrees(u, s, n)
  BY <1>1, <1>2, <1>5 DEF Agrees
<1>7. Pending(u)[Len(u)] = q
  <2>1. n \in 0 .. n
    BY <1>2
  <2> QED BY <1>5, <1>6, <2>1, PendingSame DEF q
<1>8. CompletedAt(s, e, f) = t
  BY <1>7 DEF CompletedAt, Completed, u
<1>9. /\ Len(t) = n + Len(f) + Len(q)
      /\ \A l \in 1 .. n : t[l] = s[l]
      /\ \A l \in 1 .. Len(f) : t[n + l] = f[l]
      /\ \A l \in 1 .. Len(q) : t[n + Len(f) + l] = q[l]
  <2> DEFINE v == u \o f
  <2>1. v \in Seq(U) /\ Len(v) = n + Len(f) /\ (\A l \in 1 .. n : v[l] = s[l]) /\ \A l \in 1 .. Len(f) : v[n + l] = f[l]
    BY <1>2, <1>3, <1>5
  <2> HIDE DEF v
  <2>2. /\ Len(v \o q) = Len(v) + Len(q) /\ (\A l \in 1 .. Len(v) : (v \o q)[l] = v[l])
        /\ \A l \in 1 .. Len(q) : (v \o q)[Len(v) + l] = q[l]
    BY <1>4, <2>1
  <2>3. t = v \o q
    BY DEF v
  <2> HIDE DEF t
  <2>4. (\A l \in 1 .. n : l \in 1 .. Len(v)) /\ \A l \in 1 .. Len(f) : n + l \in 1 .. Len(v)
    BY <1>2, <1>3, <2>1
  <2> QED BY <2>1, <2>2, <2>3, <2>4
<1> HIDE DEF t
<1>10. Agrees(s, t, n)
  BY <1>1, <1>2, <1>3, <1>4, <1>9 DEF Agrees
<1> QED BY <1>8, <1>9, <1>10 DEF CompletedIs, n, q

LEMMA LegalSame ==
  ASSUME NEW as, NEW os, NEW s, NEW t, NEW n, Agrees(s, t, n), NEW b, NEW i \in Nat, i # 0, NEW j \in Nat, j <= n + 1
  PROVE  /\ Legal(as, os, s, b, i, j) <=> Legal(as, os, t, b, i, j)
         /\ Dashes(s, i, j) <=> Dashes(t, i, j)
<1>1. n \in Nat /\ \A l \in i .. j - 1 : s[l] = t[l]
  BY DEF Agrees
<1>2. \A m \in i .. j : Dashes(s, i, m) <=> Dashes(t, i, m)
  <2> TAKE m \in i .. j
  <2>1. \A l \in i .. m - 1 : s[l] = t[l]
    BY <1>1
  <2> QED BY <2>1 DEF Dashes
<1>3. \A l \in i .. j - 1 : l \in i .. j
  OBVIOUS
<1>4. i <= j => j \in i .. j
  OBVIOUS
<1>5. ~(i <= j) => i .. j - 1 = {}
  OBVIOUS
<1> QED BY <1>1, <1>2, <1>3, <1>4, <1>5 DEF Legal, Dashes

\* With what completes the tokens up to e, the symbol k derives from i on.
CompletesAt(k, as, os, s, b, i, e, f) ==
  /\ Under(Pending(s)[i - 1], Pending(s)[e - 1])
  /\ Derives(CompletedAt(s, e, f), k, i, Ending(s, i, e, f))
  /\ Legal(as, os, CompletedAt(s, e, f), b, i, Ending(s, i, e, f))

LEMMA EndingIs ==
  ASSUME NEW s, IsSpec(s), NEW i \in Places(s), NEW e \in Places(s), i <= e, NEW f \in Fillers,
         Under(Pending(s)[i - 1], Pending(s)[e - 1])
  PROVE  /\ Len(CompletedAt(s, e, f)) \in Nat /\ i \in Places(CompletedAt(s, e, f))
         /\ Ending(s, i, e, f) \in Places(CompletedAt(s, e, f)) /\ e <= Ending(s, i, e, f)
         /\ Ending(s, i, e, f) \in Nat
<1> DEFINE t == CompletedAt(s, e, f)
           q == Pending(s)[e - 1]
           a == Pending(s)[i - 1]
           j == Ending(s, i, e, f)
<1>1. CompletedIs(s, e, f, t)
  BY Completing
<1>2. Len(s) \in Nat /\ i \in Nat /\ e \in Nat /\ i # 0 /\ e # 0 /\ i - 1 \in Nat /\ e - 1 \in Nat
  BY LenProperties DEF IsSpec, Places
<1>3. Len(a) \in Nat /\ Len(q) \in Nat
  <2>1. a \in Seq(Closers) /\ q \in Seq(Closers)
    BY <1>2, PendingIs
  <2> HIDE DEF a, q
  <2> QED BY <2>1
<1>4. Len(f) \in Nat
  BY FillerIs
<1>5. Len(t) = (e - 1) + Len(f) + Len(q) /\ j = (e + Len(f)) + (Len(q) - Len(a)) /\ Len(a) <= Len(q)
  BY <1>1 DEF CompletedIs, Ending, Under
<1> HIDE DEF t, q, a, j
<1>6. Len(t) \in Nat /\ i \in 1 .. Len(t) + 1 /\ j \in 1 .. Len(t) + 1 /\ e <= j /\ j \in Nat
  BY <1>2, <1>3, <1>4, <1>5
<1> QED BY <1>6 DEF Places, t, j

LEMMA UnderSame == ASSUME NEW a, Len(a) \in Nat PROVE Under(a, a)
BY DEF Under

\* What was read needs no filler.
LEMMA FineCompletes ==
  ASSUME NEW as, NEW os, NEW s, IsSpec(s), NEW k \in Symbols, NEW b, NEW i \in Places(s), NEW e \in Places(s), i <= e,
         Derives(s, k, i, e), Legal(as, os, s, b, i, e)
  PROVE  CompletesAt(k, as, os, s, b, i, e, <<>>)
<1> DEFINE t == CompletedAt(s, e, <<>>)
           q == Pending(s)[e - 1]
           n == e - 1
<1>1. Len(s) \in Nat /\ i \in Nat /\ e \in Nat /\ i # 0 /\ n \in Nat /\ e = n + 1 /\ i \in 1 .. n + 1 /\ e \in 1 .. n + 1
  BY LenProperties DEF IsSpec, Places
<1>2. <<>> \in Fillers
  BY DEF Fillers
<1>3. Agrees(s, t, n)
  BY <1>2, Completing DEF CompletedIs
<1>4. Pending(s)[i - 1] = q
  BY <1>1, Balanced DEF Even
<1>5. Len(q) \in Nat
  <2>1. q \in Seq(Closers)
    BY <1>1, PendingIs
  <2> HIDE DEF q
  <2> QED BY <2>1
<1>6. Ending(s, i, e, <<>>) = e
  BY <1>1, <1>4, <1>5 DEF Ending
<1> HIDE DEF t, n
<1>7. Derives(t, k, i, e)
  BY <1>1, <1>3, DerivesSame
<1>8. Legal(as, os, t, b, i, e)
  <2>1. e <= n + 1
    BY <1>1
  <2> QED BY <1>1, <1>3, <2>1, LegalSame
<1>9. Under(Pending(s)[i - 1], q)
  BY <1>4, <1>5, UnderSame
<1> QED BY <1>6, <1>7, <1>8, <1>9 DEF CompletesAt, t

\* Where no element is, one will do.
LEMMA FillerCompletes ==
  ASSUME NEW as, NEW os, NEW s, IsSpec(s), NEW b, NEW i \in Places(s)
  PROVE  \E f \in Fillers : CompletesAt("atom", as, os, s, b, i, i, f)
<1> DEFINE d == [typ |-> "dblDash", val |-> "--"]
           f == <<d>>
           t == CompletedAt(s, i, f)
           a == Pending(s)[i - 1]
<1>1. Len(s) \in Nat /\ i \in Nat /\ i # 0 /\ i - 1 \in Nat
  BY LenProperties DEF IsSpec, Places
<1>2. f \in Fillers /\ Len(f) = 1 /\ f[1] = d
  BY DEF Fillers
<1>3. Len(a) \in Nat
  <2>1. a \in Seq(Closers)
    BY <1>1, PendingIs
  <2> HIDE DEF a
  <2> QED BY <2>1
<1>4. CompletedIs(s, i, f, t)
  <2> HIDE DEF f
  <2> QED BY <1>2, Completing
<1>5. Under(a, a)
  BY <1>3, UnderSame
<1> HIDE DEF f
<1>6. Ending(s, i, i, f) = i + 1
  BY <1>1, <1>2, <1>3 DEF Ending
<1>7. Len(t) \in Nat /\ i \in Places(t) /\ i + 1 \in Places(t)
  <2>1. i <= i
    BY <1>1
  <2> QED BY <1>2, <1>5, <1>6, <2>1, EndingIs
<1> HIDE DEF t
<1>8. t[i] = d
  <2>1. 1 \in 1 .. Len(f) /\ (i - 1) + 1 = i
    BY <1>1, <1>2
  <2>2. \A l \in 1 .. Len(f) : t[(i - 1) + l] = f[l]
    BY <1>4 DEF CompletedIs
  <2>3. t[(i - 1) + 1] = f[1]
    BY <2>1, <2>2, Zenon
  <2> QED BY <1>2, <2>1, <2>3
<1>9. Derives(t, "atom", i, i + 1)
  <2>1. t[i].typ = "dblDash"
    BY <1>8
  <2> QED BY <1>7, <2>1, Rules
<1>10. Legal(as, os, t, b, i, i + 1)
  <2>1. Known(as, os, t[i]) /\ t[i].typ \notin OptTypes
    BY <1>8 DEF Known, OptTypes
  <2> QED BY <1>1, <2>1, OneToken
<1> QED BY <1>2, <1>5, <1>6, <1>9, <1>10 DEF CompletesAt, t

\* What completes an atom completes a choice, and a sequence.
LEMMA CompletesAbove ==
  ASSUME NEW as, NEW os, NEW s, IsSpec(s), NEW b, NEW i \in Places(s), NEW e \in Places(s), i <= e, NEW f \in Fillers
  PROVE  /\ CompletesAt("atom", as, os, s, b, i, e, f) => CompletesAt("choice", as, os, s, b, i, e, f)
         /\ CompletesAt("choice", as, os, s, b, i, e, f) => CompletesAt("sequence", as, os, s, b, i, e, f)
<1> DEFINE t == CompletedAt(s, e, f)
           j == Ending(s, i, e, f)
<1>1. ASSUME Under(Pending(s)[i - 1], Pending(s)[e - 1])
      PROVE  /\ Derives(t, "atom", i, j) => Derives(t, "choice", i, j)
             /\ Derives(t, "choice", i, j) => Derives(t, "sequence", i, j)
  <2>1. Len(t) \in Nat /\ i \in Places(t) /\ j \in Places(t)
    BY <1>1, EndingIs
  <2> HIDE DEF t, j
  <2> QED BY <2>1, Rules
<1> QED BY <1>1 DEF CompletesAt

\* What was read from i to m, and then what completes the rest.
CompletesBehind(h, k, as, os, s, b, i, m, c, l, e, f) ==
  /\ Derives(s, h, i, m) /\ Legal(as, os, s, b, i, m) /\ (c <=> b \/ Dashes(s, i, m))
  /\ CompletesAt(k, as, os, s, c, l, e, f)

LEMMA Behinds ==
  ASSUME NEW as, NEW os, NEW s, IsSpec(s), NEW b, NEW c, NEW i \in Places(s), NEW m \in Places(s),
         NEW l \in Places(s), NEW e \in Places(s), i <= m, m <= l, l <= e, NEW f \in Fillers,
         NEW h \in Symbols, NEW k \in Symbols, CompletesBehind(h, k, as, os, s, b, i, m, c, l, e, f), Even(s, m, l),
         Legal(as, os, s, c, m, l), ~Dashes(s, m, l)
  PROVE  LET t == CompletedAt(s, e, f)
             j == Ending(s, i, e, f)
         IN  /\ Len(t) \in Nat /\ i \in Places(t) /\ j \in Places(t) /\ l <= j /\ j \in Nat
             /\ Agrees(s, t, e - 1)
             /\ Derives(t, h, i, m) /\ Derives(t, k, l, j) /\ Legal(as, os, t, b, i, j)
             /\ Under(Pending(s)[i - 1], Pending(s)[e - 1])
<1> DEFINE t == CompletedAt(s, e, f)
           j == Ending(s, i, e, f)
           n == e - 1
<1>1. /\ Len(s) \in Nat /\ i \in Nat /\ m \in Nat /\ l \in Nat /\ e \in Nat /\ n \in Nat /\ n + 1 = e
      /\ i # 0 /\ i \in 1 .. n + 1 /\ m \in 1 .. n + 1 /\ l \in 1 .. n + 1 /\ i <= e /\ m <= n + 1 /\ l <= n + 1 /\ m # 0
  BY LenProperties DEF IsSpec, Places
<1>2. /\ Derives(s, h, i, m) /\ Legal(as, os, s, b, i, m) /\ (c <=> b \/ Dashes(s, i, m))
      /\ Under(Pending(s)[l - 1], Pending(s)[e - 1])
      /\ Derives(t, k, l, Ending(s, l, e, f)) /\ Legal(as, os, t, c, l, Ending(s, l, e, f))
  BY DEF CompletesBehind, CompletesAt
<1>3. Agrees(s, t, n)
  BY Completing DEF CompletedIs
<1>4. Even(s, i, m)
  BY <1>1, <1>2, Balanced
<1>5. Pending(s)[l - 1] = Pending(s)[i - 1]
  BY <1>4 DEF Even
<1>6. Ending(s, l, e, f) = j
  BY <1>5 DEF Ending
<1>7. Under(Pending(s)[i - 1], Pending(s)[e - 1])
  BY <1>2, <1>5
<1>8. Len(t) \in Nat /\ i \in Places(t) /\ j \in Places(t) /\ e <= j /\ j \in Nat
  BY <1>1, <1>7, EndingIs
<1> HIDE DEF t, j, n
<1>9. Derives(t, h, i, m)
  BY <1>1, <1>2, <1>3, DerivesSame
<1>10. Legal(as, os, t, b, i, m) /\ (Dashes(t, i, m) <=> Dashes(s, i, m))
  BY <1>1, <1>2, <1>3, LegalSame
<1>11. Legal(as, os, t, c, m, l) /\ ~Dashes(t, m, l)
  BY <1>1, <1>3, LegalSame
<1>12. l <= j /\ m <= j
  BY <1>1, <1>8
<1>13. Legal(as, os, t, c, m, j)
  <2>1. c <=> c \/ Dashes(t, m, l)
    BY <1>11
  <2> QED BY <1>1, <1>2, <1>6, <1>8, <1>11, <1>12, <2>1, LegalJoins
<1>14. Legal(as, os, t, b, i, j)
  <2>1. c <=> b \/ Dashes(t, i, m)
    BY <1>2, <1>10
  <2> QED BY <1>1, <1>8, <1>10, <1>12, <1>13, <2>1, LegalJoins
<1> QED BY <1>2, <1>3, <1>6, <1>7, <1>8, <1>9, <1>12, <1>14 DEF t, j, n

LEMMA CompletesSequence ==
  ASSUME NEW as, NEW os, NEW s, IsSpec(s), NEW b, NEW c, NEW i \in Places(s), NEW m \in Places(s), NEW e \in Places(s),
         i < m, m <= e, NEW f \in Fillers, CompletesBehind("choice", "sequence", as, os, s, b, i, m, c, m, e, f)
  PROVE  CompletesAt("sequence", as, os, s, b, i, e, f)
<1> DEFINE t == CompletedAt(s, e, f)
           j == Ending(s, i, e, f)
<1>1. i \in Nat /\ m \in Nat /\ i <= m /\ m <= m
  BY DEF Places
<1>2. Even(s, m, m) /\ Legal(as, os, s, c, m, m) /\ ~Dashes(s, m, m)
  BY <1>1, OneToken DEF Even
<1>3. "choice" \in Symbols /\ "sequence" \in Symbols
  BY DEF Symbols
<1>4. /\ Len(t) \in Nat /\ i \in Places(t) /\ j \in Places(t) /\ m <= j /\ j \in Nat
      /\ Derives(t, "choice", i, m) /\ Derives(t, "sequence", m, j) /\ Legal(as, os, t, b, i, j)
      /\ Under(Pending(s)[i - 1], Pending(s)[e - 1])
  BY <1>1, <1>2, <1>3, Behinds
<1> HIDE DEF t, j
<1>5. Derives(t, "sequence", i, j)
  <2>1. m \in Places(t)
    BY <1>1, <1>4 DEF Places
  <2>2. m < j
    BY <1>4, <2>1, Starts
  <2>3. m \in i + 1 .. j - 1
    BY <1>1, <1>4, <2>2
  <2> QED BY <1>4, <2>3, Rules
<1> QED BY <1>4, <1>5 DEF CompletesAt, t, j

LEMMA CompletesChoice ==
  ASSUME NEW as, NEW os, NEW s, IsSpec(s), NEW b, NEW c, NEW i \in Places(s), NEW m \in Places(s), NEW e \in Places(s),
         i < m, m + 1 <= e, s[m].typ = "choice",
         NEW f \in Fillers, CompletesBehind("atom", "choice", as, os, s, b, i, m, c, m + 1, e, f)
  PROVE  CompletesAt("choice", as, os, s, b, i, e, f)
<1> DEFINE t == CompletedAt(s, e, f)
           j == Ending(s, i, e, f)
           l == m + 1
<1>1. i \in Nat /\ m \in Nat /\ e \in Nat /\ m # 0 /\ i <= m /\ m <= l /\ l <= e /\ l \in Places(s)
  BY LenProperties DEF Places, IsSpec
<1>2. Even(s, m, l) /\ Legal(as, os, s, c, m, l) /\ ~Dashes(s, m, l)
  <2>1. Known(as, os, s[m]) /\ s[m].typ \notin OptTypes
    BY DEF Known, OptTypes
  <2> QED BY <1>1, <2>1, OneToken, EvenToken DEF OpenTypes, CloseTypes
<1>3. "choice" \in Symbols /\ "atom" \in Symbols
  BY DEF Symbols
<1>4. /\ Len(t) \in Nat /\ i \in Places(t) /\ j \in Places(t) /\ l <= j /\ j \in Nat
      /\ Derives(t, "atom", i, m) /\ Derives(t, "choice", l, j) /\ Legal(as, os, t, b, i, j)
      /\ Under(Pending(s)[i - 1], Pending(s)[e - 1]) /\ Agrees(s, t, e - 1)
  BY <1>1, <1>2, <1>3, Behinds
<1> HIDE DEF t, j
<1>5. t[m].typ = "choice"
  <2>1. m \in 1 .. e - 1
    BY <1>1
  <2> QED BY <1>4, <2>1 DEF Agrees
<1>6. Derives(t, "choice", i, j)
  <2>1. l \in Places(t)
    BY <1>1, <1>4 DEF Places
  <2>2. l < j
    BY <1>4, <2>1, Starts
  <2>3. m \in i + 1 .. j - 2
    BY <1>1, <1>4, <2>2
  <2> QED BY <1>4, <1>5, <2>3, Rules
<1> QED BY <1>4, <1>6 DEF CompletesAt, t, j

\* A group whose sequence is completed.
LEMMA CompletesGroup ==
  ASSUME NEW as, NEW os, NEW s, IsSpec(s), NEW b, NEW i \in Places(s), NEW e \in Places(s), i + 1 <= e,
         s[i].typ \in OpenTypes, NEW f \in Fillers, CompletesAt("sequence", as, os, s, b, i + 1, e, f)
  PROVE  CompletesAt("atom", as, os, s, b, i, e, f)
<1> DEFINE t == CompletedAt(s, e, f)
           j == Ending(s, i, e, f)
           g == Ending(s, i + 1, e, f)
           q == Pending(s)[e - 1]
           a == Pending(s)[i - 1]
           o == Pending(s)[i]
           x == Closer(s[i])
<1>1. /\ Len(s) \in Nat /\ i \in Nat /\ i # 0 /\ e \in Nat /\ i <= e /\ e - 1 \in Nat /\ i - 1 \in Nat
      /\ i + 1 \in Places(s) /\ (i + 1) - 1 = i /\ i + 1 \in Nat
  BY LenProperties DEF IsSpec, Places
<1>2. /\ Under(o, q) /\ Derives(t, "sequence", i + 1, g) /\ Legal(as, os, t, b, i + 1, g)
  BY <1>1 DEF CompletesAt
<1>3. a \in Seq(Closers) /\ q \in Seq(Closers) /\ o = <<x>> \o a
  BY <1>1, TokenPends, PendingIs
<1> HIDE DEF o
<1>4. /\ Len(a) \in Nat /\ Len(q) \in Nat /\ Len(o) = Len(a) + 1 /\ o[1] = x
      /\ \A l \in 1 .. Len(a) : o[l + 1] = a[l]
  <2> HIDE DEF a, q, x
  <2> QED BY <1>3
<1> HIDE DEF x
<1>5. Len(a) + 1 <= Len(q) /\ q[Len(q) - Len(a)] = x /\ Under(a, q)
  <2> HIDE DEF a, q
  <2>1. Len(a) + 1 <= Len(q) /\ \A l \in 1 .. Len(a) + 1 : q[(Len(q) - (Len(a) + 1)) + l] = o[l]
    BY <1>2, <1>4 DEF Under
  <2>2. q[(Len(q) - (Len(a) + 1)) + 1] = x /\ (Len(q) - (Len(a) + 1)) + 1 = Len(q) - Len(a)
    BY <1>4, <2>1
  <2>3. \A l \in 1 .. Len(a) : q[(Len(q) - Len(a)) + l] = a[l]
    <3> TAKE l \in 1 .. Len(a)
    <3>1. l + 1 \in 1 .. Len(a) + 1 /\ (Len(q) - (Len(a) + 1)) + (l + 1) = (Len(q) - Len(a)) + l
      BY <1>4
    <3>2. q[(Len(q) - (Len(a) + 1)) + (l + 1)] = o[l + 1]
      BY <2>1, <3>1
    <3> QED BY <1>4, <3>1, <3>2
  <2>4. Len(a) <= Len(q)
    BY <1>4, <2>1
  <2> QED BY <2>1, <2>2, <2>3, <2>4 DEF Under
<1>6. /\ Len(t) \in Nat /\ i \in Places(t) /\ j \in Places(t) /\ j \in Nat
  BY <1>1, <1>5, EndingIs
<1>7. /\ i + 1 \in Places(t) /\ g \in Places(t) /\ g \in Nat /\ e <= g
  <2>1. Under(Pending(s)[(i + 1) - 1], q)
    BY <1>1, <1>2 DEF o
  <2> QED BY <1>1, <2>1, EndingIs
<1>8. CompletedIs(s, e, f, t)
  BY Completing
<1>9. Len(f) \in Nat
  BY FillerIs
<1>10. g = (e + Len(f)) + (Len(q) - (Len(a) + 1)) /\ j = (e + Len(f)) + (Len(q) - Len(a))
  BY <1>1, <1>4 DEF Ending, o
<1>11. t[i] = s[i] /\ t[g] = x
  <2>1. i \in 1 .. e - 1
    BY <1>1
  <2>2. t[i] = s[i]
    BY <1>8, <2>1 DEF CompletedIs, Agrees
  <2>3. \A l \in 1 .. Len(q) : t[(e - 1) + Len(f) + l] = q[l]
    BY <1>8 DEF CompletedIs
  <2> HIDE DEF t, g, j, q, a
  <2>4. Len(q) - Len(a) \in 1 .. Len(q) /\ (e - 1) + Len(f) + (Len(q) - Len(a)) = g
    BY <1>1, <1>4, <1>5, <1>9, <1>10
  <2>5. t[(e - 1) + Len(f) + (Len(q) - Len(a))] = x
    BY <1>5, <2>3, <2>4
  <2> QED BY <2>2, <2>4, <2>5
<1>12. j = g + 1
  <2> HIDE DEF t, g, j, q, a
  <2> QED BY <1>1, <1>4, <1>9, <1>10
<1> HIDE DEF t, g, j, q, a
<1>13. Derives(t, "item", i, j)
  <2>1. i + 1 < g
    BY <1>2, <1>6, <1>7, Starts
  <2>2. j > i + 2 /\ j - 1 = g
    BY <1>1, <1>7, <1>12, <2>1
  <2>3. <<t[i].typ, t[j - 1].typ>> \in {<<"openPar", "closePar">>, <<"openSq", "closeSq">>}
    BY <1>11, <2>2 DEF x, Closer, OpenTypes
  <2> QED BY <1>2, <1>6, <2>2, <2>3, Rules
<1>14. Derives(t, "atom", i, j)
  BY <1>6, <1>13, Rules
<1>15. Legal(as, os, t, b, i, j)
  <2>1. Known(as, os, t[i]) /\ t[i].typ \notin OptTypes /\ t[i].typ # "dblDash"
    BY <1>11 DEF Known, OptTypes, OpenTypes
  <2>2. Known(as, os, t[g]) /\ t[g].typ \notin OptTypes
    BY <1>11 DEF Known, OptTypes, x, Closer
  <2>3. Legal(as, os, t, b, i, i + 1) /\ ~Dashes(t, i, i + 1)
    BY <1>1, <2>1, OneToken
  <2> DEFINE c == b \/ Dashes(t, i + 1, g)
  <2>4. Legal(as, os, t, c, g, g + 1)
    BY <1>7, <2>2, OneToken
  <2>5. Legal(as, os, t, b, i + 1, g + 1)
    <3>1. i + 1 <= g /\ g <= g + 1 /\ g + 1 \in Nat
      BY <1>1, <1>7
    <3>2. c <=> b \/ Dashes(t, i + 1, g)
      OBVIOUS
    <3> HIDE DEF c
    <3> QED BY <1>1, <1>2, <1>7, <2>4, <3>1, <3>2, LegalJoins
  <2>6. i <= i + 1 /\ i + 1 <= g + 1 /\ g + 1 \in Nat
    BY <1>1, <1>7
  <2>7. b <=> b \/ Dashes(t, i, i + 1)
    BY <2>3
  <2> QED BY <1>1, <1>12, <2>3, <2>5, <2>6, <2>7, LegalJoins
<1> QED BY <1>5, <1>14, <1>15 DEF CompletesAt, t, j, q, a

(***************************************************************************)
(* One step of a call, by the tokens at its place.                         *)
(***************************************************************************)
Sees(s, e, typ) == e <= Len(s) /\ s[e].typ = typ
Past(s, e, typ) == IF Sees(s, e, typ) THEN e + 1 ELSE e

\* The answer v of a choice, where a is that of its first alternative and u the piece behind a bar.
ChoiceStep(c, parse, s, a, u, v) ==
  /\ ~Fine(a) => v = a
  /\ Fine(a) /\ Sees(s, a.p.tkpos, "choice") =>
       v = parse[Call("choice", u)] /\ Onward(c, "choice", u) /\ u.p.tkpos = a.p.tkpos + 1 /\ u.p.reject = a.p.reject
  /\ Fine(a) /\ ~Sees(s, a.p.tkpos, "choice") => EndsWith(a, v)

LEMMA AlternativesStep ==
  ASSUME NEW as, NEW os, NEW ts, NEW parse, AllReturned(parse, as, os, ts),
         NEW c, IsCall(c, as, os, ts), c.production = "choice"
  PROVE  /\ Onward(c, "atom", c.r)
         /\ \E u : ChoiceStep(c, parse, ts, parse[Call("atom", c.r)], u, Alternatives(c.r, parse))
<1> DEFINE r == c.r
           p == r.p
           a == parse[Call("atom", r)]
           m == MoreOf(r, a)
           v == Alternatives(r, parse)
<1>1. IsPiece(r) /\ IsParser(p) /\ p.args = as /\ p.options = os /\ p.tokens = ts
  BY DEF IsCall
<1>2. Grows(p, p)
  BY <1>1, GrowsSelf
<1>3. Onward(c, "atom", r)
  BY <1>1, <1>2 DEF Productions, Level, Onward
<1>4. Answered(p, a)
  <2>1. "atom" \in Productions /\ "atom" # "components"
    BY DEF Productions
  <2> HIDE DEF r
  <2> QED BY <1>1, <1>2, <2>1, CallReturns
<1>5. FromFirst(r, parse, a, v)
  BY AlternativesIs
<1> HIDE DEF v
<1>6. ~Fine(a) => v = a
  BY <1>5 DEF FromFirst, Fine
<1>7. ASSUME Fine(a)
      PROVE  /\ Sees(ts, a.p.tkpos, "choice") =>
                  v = parse[Call("choice", m.r)] /\ Onward(c, "choice", m.r) /\ m.r.p.tkpos = a.p.tkpos + 1 /\ m.r.p.reject = a.p.reject
             /\ ~Sees(ts, a.p.tkpos, "choice") => EndsWith(a, v)
  <2> DEFINE b == Add(r, a)
  <2>1. Consumes(p, a)
    BY <1>4, <1>7 DEF Answered, Fine
  <2> HIDE DEF a
  <2>2. /\ b.p.err = "" /\ Grows(a.p, b.p) /\ b.p.tkpos = a.p.tkpos /\ b.p.reject = a.p.reject
        /\ m = Call("choice", m.r) /\ IsPiece(m.r) /\ Grows(p, m.r.p)
        /\ m.r.p.tkpos = a.p.tkpos + 1 /\ p.tkpos < m.r.p.tkpos /\ m.r.p.reject = a.p.reject
    <3> HIDE DEF r
    <3>1. IsPiece(r) /\ Consumes(r.p, a)
      BY <1>1, <2>1
    <3>2. AddedTo(r, a, b, m)
      BY <3>1, MoreIs
    <3> QED BY <3>2 DEF AddedTo
  <2>3. a.p.tokens = ts /\ IsParser(a.p)
    BY <1>1, <2>1, GoneOnIs
  <2>4. Is(b.p, "choice") <=> Sees(ts, a.p.tkpos, "choice")
    <3>1. IsParser(b.p) /\ b.p.tokens = ts /\ b.p.tkpos = a.p.tkpos
      BY <2>2, <2>3 DEF Grows, Same
    <3> QED BY <3>1, IsChoiceAt DEF Sees, IsChoice
  <2>5. /\ Sees(ts, a.p.tkpos, "choice") => v = parse[m]
        /\ ~Sees(ts, a.p.tkpos, "choice") => v = b
    BY <1>5, <1>7, <2>4 DEF FromFirst, Fine
  <2>6. ~Sees(ts, a.p.tkpos, "choice") => EndsWith(a, v)
    BY <2>2, <2>5 DEF EndsWith, Fine
  <2> HIDE DEF b, m
  <2>7. Onward(c, "choice", m.r)
    BY <2>1, <2>2 DEF Productions, Consumes, Onward
  <2> QED BY <2>2, <2>5, <2>6, <2>7
<1> HIDE DEF a
<1>8. ChoiceStep(c, parse, ts, a, m.r, v)
  BY <1>6, <1>7 DEF ChoiceStep
<1> QED BY <1>3, <1>8 DEF v, a

\* The answer v of a sequence at the piece r, where a is that of its first component and u the piece
\* behind it.
SequenceStep(c, parse, r, goesOn, a, u, v) ==
  /\ ~goesOn => v = r
  /\ goesOn /\ ~Fine(a) => v = a
  /\ goesOn /\ Fine(a) =>
       v = parse[Call("components", u)] /\ Onward(c, "components", u) /\ u.p.tkpos = a.p.tkpos /\ u.p.reject = a.p.reject

LEMMA ComponentsStep ==
  ASSUME NEW as, NEW os, NEW ts, NEW parse, AllReturned(parse, as, os, ts),
         NEW c, IsCall(c, as, os, ts), c.production \in {"sequence", "components"}, NEW required \in BOOLEAN
  PROVE  \E x, u :
           /\ Onward(c, "choice", x) /\ x.p.tkpos = c.r.p.tkpos /\ x.p.reject = c.r.p.reject
           /\ SequenceStep(c, parse, c.r, required \/ StartsAtom(ts, c.r.p.tkpos), parse[Call("choice", x)], u,
                           Components(c.r, required, parse))
<1> DEFINE r == c.r
           p == r.p
           b == p.reject
           i == p.tkpos
           x == Choice(p)
           a == parse[x]
           m == RestOf(r, a)
           v == Components(r, required, parse)
           on == required \/ StartsAtom(ts, i)
<1>1. IsPiece(r) /\ IsParser(p) /\ p.args = as /\ p.options = os /\ p.tokens = ts
  BY DEF IsCall
<1>2. IsPiece(x.r) /\ Grows(p, x.r.p) /\ x.r.p.tkpos = i /\ x.r.p.reject = b /\ x = Call("choice", x.r)
  <2> HIDE DEF r
  <2> QED BY <1>1, ChoiceIs
<1>3. /\ ~required /\ ~CanAtom(p) => v = r
      /\ (required \/ CanAtom(p)) /\ a.p.err # "" => v = a
      /\ (required \/ CanAtom(p)) /\ a.p.err = "" => v = parse[m]
  BY Zenon DEF Components, RestOf
<1>4. CanAtom(p) <=> StartsAtom(ts, i)
  BY <1>1, CanAtomIs
<1> HIDE DEF x, v
<1>5. Onward(c, "choice", x.r)
  BY <1>2 DEF Productions, Level, Onward
<1>6. Answered(x.r.p, a)
  <2> DEFINE s == x.r
  <2>1. "choice" \in Productions /\ "choice" # "components"
    BY DEF Productions
  <2>2. IsPiece(s) /\ Grows(p, s.p) /\ x = Call("choice", s)
    BY <1>2
  <2> HIDE DEF s, p
  <2>3. Answered(s.p, parse[Call("choice", s)])
    BY <1>1, <2>1, <2>2, CallReturns
  <2> QED BY <2>2, <2>3 DEF s
<1>7. ASSUME Fine(a)
      PROVE  m = Call("components", m.r) /\ Onward(c, "components", m.r) /\ m.r.p.tkpos = a.p.tkpos /\ m.r.p.reject = a.p.reject
  <2>1. Consumes(x.r.p, a)
    BY <1>6, <1>7 DEF Answered, Fine
  <2> HIDE DEF a
  <2>2. Consumes(p, a)
    <3> DEFINE q == x.r.p
    <3>1. Grows(p, q) /\ Consumes(q, a) /\ IsParser(p) /\ q.tkpos = p.tkpos /\ q.tkpos <= Len(q.tokens)
      BY <1>1, <1>2, <2>1 DEF Consumes
    <3> HIDE DEF p, q
    <3>2. Follows(p, a) /\ p.tkpos < a.p.tkpos
      BY <3>1, FollowsOn
    <3>3. p.tkpos <= Len(p.tokens)
      BY <3>1 DEF Grows, Same
    <3> QED BY <3>2, <3>3 DEF Consumes
  <2>3. AppendedTo(r, a, m)
    <3> HIDE DEF r
    <3> QED BY <1>1, <2>2, RestIs
  <2> HIDE DEF m
  <2> QED BY <2>3 DEF AppendedTo, Consumes, Follows, Onward, Productions
<1> HIDE DEF a, m
<1>8. (~on => v = r) /\ (on /\ ~Fine(a) => v = a) /\ (on /\ Fine(a) => v = parse[m])
  BY <1>3, <1>4 DEF Fine
<1>9. SequenceStep(c, parse, r, on, a, m.r, v)
  <2>1. (~on => v = r) /\ (on /\ ~Fine(a) => v = a)
    BY <1>8
  <2> HIDE DEF on
  <2>2. ASSUME on, Fine(a) PROVE v = parse[Call("components", m.r)]
    BY <1>7, <1>8, <2>2
  <2> QED BY <1>7, <2>1, <2>2 DEF SequenceStep
<1>10. a = parse[Call("choice", x.r)]
  BY <1>2 DEF a
<1> HIDE DEF on
<1>11. SequenceStep(c, parse, r, on, parse[Call("choice", x.r)], m.r, v)
  BY <1>9, <1>10
<1> QED BY <1>2, <1>5, <1>11 DEF on, v

\* No atom may stand at the place i of the spec s.
Blocked(as, os, s, b, i) == ~StartsAtom(s, i) \/ ~Known(as, os, s[i]) \/ (s[i].typ \in OptTypes /\ b)

\* What closes a group.
Mate(typ) == IF typ = "openPar" THEN "closePar" ELSE "closeSq"

\* The answer v goes on at e with the flag b.
Reaches(v, e, b) == Fine(v) /\ v.p.tkpos = e /\ v.p.reject = b
FailsIn(v, e)    == ~Fine(v) /\ v.p.tkpos = e

GroupStep(s, a, typ, v) ==
  /\ ~Fine(a) \/ ~Sees(s, a.p.tkpos, typ) => FailsIn(v, a.p.tkpos)
  /\ Fine(a) /\ Sees(s, a.p.tkpos, typ) => Reaches(v, Past(s, a.p.tkpos + 1, "rep"), a.p.reject)

\* The answer v of an atom at the place i, where a is that of the sequence in a group.
AtomStep(as, os, s, b, i, a, v) ==
  /\ Blocked(as, os, s, b, i) => FailsIn(v, i)
  /\ ~Blocked(as, os, s, b, i) =>
       /\ s[i].typ \in {"pos", "options", "optSeq"} => Reaches(v, Past(s, i + 1, "rep"), b)
       /\ s[i].typ \in {"shortOpt", "longOpt"} => Reaches(v, Past(s, Past(s, i + 1, "optValue"), "rep"), b)
       /\ s[i].typ = "dblDash" => Reaches(v, i + 1, TRUE)
       /\ s[i].typ \in OpenTypes => GroupStep(s, a, Mate(s[i].typ), v)

LEMMA FailedStep ==
  ASSUME NEW p, IsParser(p), NEW msg \in Errors
  PROVE  FailsIn(Failed(p, msg), p.tkpos)
<1>1. ~Fine(Failed(p, msg))
  BY FailedAnswers DEF Same, Fine
<1>2. p \in Parsers(p.args, p.options, p.tokens)
  BY DEF IsParser
<1>3. Failed(p, msg).p.tkpos = p.tkpos
  BY <1>2 DEF Failed, Piece, Fail, Parsers
<1> QED BY <1>1, <1>3 DEF FailsIn

LEMMA RepStep ==
  ASSUME NEW r, IsPiece(r)
  PROVE  Reaches(Rep(r), Past(r.p.tokens, r.p.tkpos, "rep"), r.p.reject)
<1> DEFINE q == Rep(r)
<1>1. /\ IsPiece(q) /\ q.p.tkpos = IF Is(r.p, "rep") THEN r.p.tkpos + 1 ELSE r.p.tkpos
      /\ q.p.reject = r.p.reject
  BY RepGrows
<1> HIDE DEF q
<1>2. Is(r.p, "rep") <=> Sees(r.p.tokens, r.p.tkpos, "rep")
  BY Fields, PlaceIs DEF IsPiece, Sees
<1>3. Fine(q)
  BY <1>1, Fields DEF IsPiece, Fine
<1> QED BY <1>1, <1>2, <1>3 DEF Reaches, Past, q

LEMMA ElementStep ==
  ASSUME NEW p, IsParser(p), ~Eof(p), NEW m \in Matchers(p.args, p.options), From(m, p.args, p.options, p.tokens)
  PROVE  Reaches(Element(p, m), Past(p.tokens, p.tkpos + 1, "rep"), p.reject)
<1> DEFINE r == Single(Next1(p), m)
<1>1. Consumes(p, r) /\ r.p.tkpos = p.tkpos + 1 /\ r.p.reject = p.reject
  BY SingleAnswers
<1>2. IsPiece(r) /\ r.p.tokens = p.tokens
  BY <1>1, GoneOnIs
<1>3. Element(p, m) = Rep(r)
  BY DEF Element
<1> HIDE DEF r
<1> QED BY <1>1, <1>2, <1>3, RepStep

LEMMA ValuedStep ==
  ASSUME NEW p, IsParser(p), ~Eof(p), Token(p).typ \in {"shortOpt", "longOpt"}, Token(p).val \in Declared(p)
  PROVE  Reaches(Valued(p), Past(p.tokens, Past(p.tokens, p.tkpos + 1, "optValue"), "rep"), p.reject)
<1> DEFINE m == OptMatcher(Token(p).val, p.tkpos)
           r == Single(Next1(p), m)
           q == WithValue(r)
<1>1. m \in Matchers(p.args, p.options) /\ From(m, p.args, p.options, p.tokens)
  BY MatchersOfTokens
<1>2. Consumes(p, r) /\ r.p.tkpos = p.tkpos + 1 /\ r.p.reject = p.reject
  <2> HIDE DEF m
  <2> QED BY <1>1, SingleAnswers
<1>3. IsPiece(r) /\ r.p.tokens = p.tokens /\ IsParser(r.p)
  BY <1>2, GoneOnIs
<1>4. Valued(p) = Rep(q)
  BY DEF Valued
<1> HIDE DEF r
<1>5. /\ IsPiece(q) /\ Grows(r.p, q.p) /\ q.p.reject = r.p.reject
      /\ q.p.tkpos = IF Is(r.p, "optValue") THEN r.p.tkpos + 1 ELSE r.p.tkpos
  BY <1>3, WithValueGrows
<1>6. Is(r.p, "optValue") <=> Sees(p.tokens, p.tkpos + 1, "optValue")
  <2>1. r.p.tkpos \in Nat /\ Len(r.p.tokens) \in Nat
    BY <1>3, Fields
  <2> QED BY <1>2, <1>3, <2>1, PlaceIs DEF Sees
<1> HIDE DEF q
<1>7. q.p.tokens = p.tokens /\ q.p.tkpos = Past(p.tokens, p.tkpos + 1, "optValue") /\ q.p.reject = p.reject
  BY <1>2, <1>3, <1>5, <1>6 DEF Grows, Same, Past
<1>8. Reaches(Rep(q), Past(q.p.tokens, q.p.tkpos, "rep"), q.p.reject)
  BY <1>5, RepStep
<1> QED BY <1>4, <1>7, <1>8

\* A group, from what its sequence is answered by.
LEMMA ClosedStep ==
  ASSUME NEW p, IsParser(p), NEW r, Answered(p, r), NEW typ
  PROVE  /\ Fine(r) /\ Is(r.p, typ) => Reaches(Closed(r, typ), r.p.tkpos + 1, r.p.reject) /\ IsPiece(Closed(r, typ))
                                       /\ Closed(r, typ).p.tokens = p.tokens
         /\ ~(Fine(r) /\ Is(r.p, typ)) => FailsIn(Closed(r, typ), r.p.tkpos)
<1> DEFINE d == Closed(r, typ)
<1>1. /\ Answered(p, d) /\ (d.p.err = "" <=> r.p.err = "" /\ Is(r.p, typ))
      /\ d.p.err = "" => IsPiece(d) /\ Grows(r.p, d.p) /\ d.p.tkpos = r.p.tkpos + 1 /\ d.p.reject = r.p.reject
  BY ClosedAnswers
<1>2. ASSUME Fine(r), Is(r.p, typ)
      PROVE  Reaches(d, r.p.tkpos + 1, r.p.reject) /\ IsPiece(d) /\ d.p.tokens = p.tokens
  <2> HIDE DEF d
  <2>1. Consumes(p, d)
    BY <1>1, <1>2 DEF Answered, Fine
  <2> QED BY <1>1, <1>2, <2>1, GoneOnIs DEF Reaches, Fine
<1>3. ASSUME ~(Fine(r) /\ Is(r.p, typ)) PROVE FailsIn(d, r.p.tkpos)
  <2>1. ~Fine(d)
    BY <1>1, <1>3 DEF Fine
  <2>2. CASE ~Fine(r)
    <3>1. d = r
      BY <2>2 DEF Closed, Fine
    <3> QED BY <2>2, <3>1 DEF FailsIn
  <2>3. CASE Fine(r) /\ ~Is(r.p, typ)
    <3>1. Consumes(p, r)
      BY <2>3 DEF Answered, Fine
    <3>2. IsPiece(r) /\ IsParser(r.p)
      BY <3>1, GoneOnIs
    <3>3. d = [r EXCEPT !.p = Fail(r.p, "Was expecting")]
      BY <2>3, <3>2 DEF Closed, Expect, IsPiece, Fine
    <3>4. d.p.tkpos = r.p.tkpos
      <4>1. r = [p |-> r.p, start |-> r.start, end |-> r.end]
        BY <3>2 DEF IsPiece
      <4>2. r.p \in Parsers(r.p.args, r.p.options, r.p.tokens)
        BY <3>2 DEF IsParser
      <4>3. Fail(r.p, "Was expecting").tkpos = r.p.tkpos
        BY <4>2 DEF Fail, Parsers
      <4>4. d.p = Fail(r.p, "Was expecting")
        BY <3>3, <4>1
      <4> QED BY <4>3, <4>4
    <3> QED BY <2>1, <3>4 DEF FailsIn
  <2> QED BY <1>3, <2>2, <2>3
<1> QED BY <1>2, <1>3

\* The answer b of a group's sequence, with or without the shortcut over it.
LEMMA BracketsStep ==
  ASSUME NEW p, IsParser(p), NEW a, NEW b, NEW typ, Answered(p, a), Answered(p, b),
         Fine(a) <=> Fine(b), a.p.tkpos = b.p.tkpos, Fine(a) => a.p.reject = b.p.reject
  PROVE  GroupStep(p.tokens, a, typ, Rep(Closed(b, typ)))
<1> DEFINE d == Closed(b, typ)
           s == p.tokens
           e == a.p.tkpos
<1>1. /\ Fine(b) /\ Is(b.p, typ) => Reaches(d, b.p.tkpos + 1, b.p.reject) /\ IsPiece(d) /\ d.p.tokens = s
      /\ ~(Fine(b) /\ Is(b.p, typ)) => FailsIn(d, b.p.tkpos)
  BY ClosedStep
<1> HIDE DEF d
<1>2. Fine(b) => (Is(b.p, typ) <=> Sees(s, e, typ))
  <2> SUFFICES ASSUME Fine(b) PROVE Is(b.p, typ) <=> Sees(s, e, typ)
    OBVIOUS
  <2>1. Consumes(p, b)
    BY DEF Answered, Fine
  <2>2. IsParser(b.p) /\ b.p.tokens = s
    BY <2>1, GoneOnIs
  <2>3. b.p.tkpos \in Nat /\ Len(b.p.tokens) \in Nat
    BY <2>2, Fields
  <2> QED BY <2>2, <2>3, PlaceIs DEF Sees
<1>3. ASSUME ~Fine(a) \/ ~Sees(s, e, typ) PROVE FailsIn(Rep(d), e)
  <2>1. FailsIn(d, e)
    BY <1>1, <1>2, <1>3
  <2>2. Rep(d) = d
    BY <2>1 DEF FailsIn, Fine, Rep
  <2> QED BY <2>1, <2>2
<1>4. ASSUME Fine(a), Sees(s, e, typ) PROVE Reaches(Rep(d), Past(s, e + 1, "rep"), a.p.reject)
  <2>1. Reaches(d, e + 1, a.p.reject) /\ IsPiece(d) /\ d.p.tokens = s
    BY <1>1, <1>2, <1>4
  <2>2. Reaches(Rep(d), Past(d.p.tokens, d.p.tkpos, "rep"), d.p.reject)
    BY <2>1, RepStep
  <2> QED BY <2>1, <2>2 DEF Reaches
<1> QED BY <1>3, <1>4 DEF GroupStep, d

LEMMA RefusedIs ==
  ASSUME NEW p, IsParser(p)
  PROVE  Blocked(p.args, p.options, p.tokens, p.reject, p.tkpos) <=> AtomRefused(p)
BY CanAtomIs DEF Blocked, AtomRefused, Token

LEMMA AtomSteps ==
  ASSUME NEW p, NEW parse, IsParser(p), ~Eof(p) => Answered(Group(p).r.p, parse[Group(p)])
  PROVE  AtomStep(p.args, p.options, p.tokens, p.reject, p.tkpos, parse[Group(p)], Atom(p, parse))
<1> DEFINE t == Token(p)
           v == Atom(p, parse)
           s == p.tokens
           i == p.tkpos
           g == Group(p).r.p
           a == parse[Group(p)]
<1>0. /\ Eof(p) => v = Failed(p, "Unexpected end of input")
      /\ Is(p, "pos") =>
           v = IF t.val \in p.args THEN Element(p, ArgMatcher(t.val)) ELSE Failed(p, "Undeclared arg")
      /\ ~Eof(p) /\ t.typ \in OptTypes /\ p.reject => v = Failed(p, "No options after --")
      /\ Is(p, "options") /\ ~p.reject => v = Element(p, OptsMatcher(p.options, p.tkpos))
      /\ (Is(p, "shortOpt") \/ Is(p, "longOpt")) /\ ~p.reject =>
           v = IF t.val \in Declared(p) THEN Valued(p) ELSE Failed(p, "Undeclared option")
      /\ Is(p, "optSeq") /\ ~p.reject =>
           v = IF ToSet(t.val) \subseteq Declared(p)
               THEN Element(p, OptsMatcher(t.val, p.tkpos)) ELSE Failed(p, "Undeclared option")
      /\ Is(p, "openPar") => v = Rep(Closed(a, "closePar"))
      /\ Is(p, "openSq") => v = Rep(Closed(Optional(a), "closeSq"))
      /\ Is(p, "dblDash") => v = Single([Next1(p) EXCEPT !.reject = TRUE], OptsEnd)
      /\ ~Eof(p) /\ ~CanAtom(p) => v = Failed(p, "Unexpected input")
  BY AtomIs
<1> HIDE DEF v
<1>1. AtomRefused(p) <=> ~CanAtom(p) \/ ~Known(p.args, p.options, t) \/ (t.typ \in OptTypes /\ p.reject)
  BY DEF AtomRefused
<1>2. p.options \in Seq(ToSet(p.options)) /\ t = s[i]
  BY DEF IsParser, Token
<1>3. ASSUME AtomRefused(p) PROVE FailsIn(v, i)
  <2>1. \E msg \in Errors : v = Failed(p, msg)
    <3>1. CASE Eof(p)
      BY <1>0, <3>1 DEF Errors
    <3>2. CASE ~Eof(p) /\ ~CanAtom(p)
      BY <1>0, <3>2 DEF Errors
    <3>3. CASE ~Eof(p) /\ t.typ \in OptTypes /\ p.reject
      BY <1>0, <3>3 DEF Errors
    <3>4. CASE ~Eof(p) /\ ~Known(p.args, p.options, t) /\ ~(t.typ \in OptTypes /\ p.reject)
      <4>1. CASE t.typ = "pos" /\ t.val \notin p.args
        BY <1>0, <3>4, <4>1 DEF Errors, Is
      <4>2. CASE t.typ \in {"shortOpt", "longOpt"} /\ t.val \notin Declared(p)
        <5>1. ~p.reject /\ (Is(p, "shortOpt") \/ Is(p, "longOpt"))
          BY <3>4, <4>2 DEF OptTypes, Is
        <5> QED BY <1>0, <4>2, <5>1 DEF Errors
      <4>3. CASE t.typ = "optSeq" /\ ~(ToSet(t.val) \subseteq Declared(p))
        <5>1. ~p.reject /\ Is(p, "optSeq")
          BY <3>4, <4>3 DEF OptTypes, Is
        <5> QED BY <1>0, <4>3, <5>1 DEF Errors
      <4> QED BY <3>4, <4>1, <4>2, <4>3 DEF Known, Declared
    <3> QED BY <1>1, <1>3, <3>1, <3>2, <3>3, <3>4 DEF CanAtom
  <2> QED BY <2>1, FailedStep
<1>4. ASSUME ~AtomRefused(p)
      PROVE  /\ ~Eof(p) /\ t.typ \in AtomTypes /\ Known(p.args, p.options, t) /\ (t.typ \in OptTypes => ~p.reject)
             /\ \A typ : Is(p, typ) <=> t.typ = typ
  BY <1>1, <1>4 DEF CanAtom, Is
<1>5. ASSUME ~AtomRefused(p), t.typ \in {"pos", "options", "optSeq"} PROVE Reaches(v, Past(s, i + 1, "rep"), p.reject)
  <2>1. ASSUME NEW m, m \in Matchers(p.args, p.options), From(m, p.args, p.options, s), v = Element(p, m)
        PROVE  Reaches(v, Past(s, i + 1, "rep"), p.reject)
    BY <1>4, <1>5, <2>1, ElementStep
  <2>2. CASE t.typ = "pos"
    <3>1. t.val \in p.args
      BY <1>4, <1>5, <2>2 DEF Known
    <3>2. ArgMatcher(t.val) \in Matchers(p.args, p.options) /\ From(ArgMatcher(t.val), p.args, p.options, s)
      BY <1>4, <1>5, <2>2, <3>1, MatchersOfTokens
    <3>3. v = Element(p, ArgMatcher(t.val))
      BY <1>0, <1>4, <1>5, <2>2, <3>1
    <3> QED BY <2>1, <3>2, <3>3
  <2>3. CASE t.typ = "options"
    <3>1. OptsMatcher(p.options, i) \in Matchers(p.args, p.options) /\ From(OptsMatcher(p.options, i), p.args, p.options, s)
      BY <1>4, <1>5, MatchersOfTokens
    <3>2. Is(p, "options") /\ ~p.reject
      BY <1>4, <1>5, <2>3 DEF OptTypes
    <3>3. v = Element(p, OptsMatcher(p.options, i))
      BY <1>0, <3>2
    <3> QED BY <2>1, <3>1, <3>3
  <2>4. CASE t.typ = "optSeq"
    <3>1. ToSet(t.val) \subseteq Declared(p)
      BY <1>4, <1>5, <2>4 DEF Known, Declared
    <3>2. OptsMatcher(t.val, i) \in Matchers(p.args, p.options) /\ From(OptsMatcher(t.val, i), p.args, p.options, s)
      BY <1>4, <1>5, <2>4, <3>1, MatchersOfTokens
    <3>3. Is(p, "optSeq") /\ ~p.reject
      BY <1>4, <1>5, <2>4 DEF OptTypes
    <3>4. v = Element(p, OptsMatcher(t.val, i))
      BY <1>0, <3>1, <3>3
    <3> QED BY <2>1, <3>2, <3>4
  <2> QED BY <1>5, <2>2, <2>3, <2>4
<1>6. ASSUME ~AtomRefused(p), t.typ \in {"shortOpt", "longOpt"}
      PROVE  Reaches(v, Past(s, Past(s, i + 1, "optValue"), "rep"), p.reject)
  <2>1. t.val \in Declared(p)
    BY <1>4, <1>6 DEF Known, Declared
  <2>2. (Is(p, "shortOpt") \/ Is(p, "longOpt")) /\ ~p.reject
    BY <1>4, <1>6 DEF OptTypes
  <2>3. v = Valued(p)
    BY <1>0, <2>1, <2>2
  <2> QED BY <1>4, <1>6, <2>1, <2>3, ValuedStep
<1>7. ASSUME ~AtomRefused(p), t.typ = "dblDash" PROVE Reaches(v, i + 1, TRUE)
  <2>1. Consumes(p, v) /\ v.p.tkpos = i + 1 /\ v.p.reject
    BY <1>0, <1>4, <1>7, DashesAnswer
  <2>2. IsParser(v.p) /\ Fine(v)
    BY <2>1, GoneOnIs DEF Fine
  <2>3. v.p.reject = TRUE
    BY <2>1, <2>2, Fields
  <2> QED BY <2>1, <2>2, <2>3 DEF Reaches
<1>8. ASSUME ~AtomRefused(p), t.typ \in OpenTypes PROVE GroupStep(s, a, Mate(t.typ), v)
  <2>1. Answered(g, a) /\ IsParser(g) /\ g.tokens = s
    BY <1>4, <1>8, GroupIs DEF Grows, Same
  <2> HIDE DEF g, a
  <2>2. CASE t.typ = "openPar"
    <3>1. GroupStep(g.tokens, a, "closePar", Rep(Closed(a, "closePar")))
      BY <2>1, BracketsStep
    <3>2. v = Rep(Closed(a, "closePar")) /\ Mate(t.typ) = "closePar"
      BY <1>0, <1>4, <1>8, <2>2 DEF Mate, a
    <3> QED BY <2>1, <3>1, <3>2
  <2>3. CASE t.typ = "openSq"
    <3> DEFINE b == Optional(a)
    <3>1. /\ Answered(g, b) /\ (b.p.err = "" <=> a.p.err = "")
          /\ b.p.err = "" => b.p.tkpos = a.p.tkpos /\ b.p.reject = a.p.reject
      BY <2>1, OptionalAnswers
    <3>2. a.p.err # "" => b = a
      BY DEF Optional
    <3>3. v = Rep(Closed(b, "closeSq")) /\ Mate(t.typ) = "closeSq"
      BY <1>0, <1>4, <1>8, <2>3 DEF Mate, a
    <3> HIDE DEF b
    <3>4. (Fine(a) <=> Fine(b)) /\ a.p.tkpos = b.p.tkpos /\ (Fine(a) => a.p.reject = b.p.reject)
      BY <3>1, <3>2 DEF Fine
    <3>5. GroupStep(g.tokens, a, "closeSq", Rep(Closed(b, "closeSq")))
      BY <2>1, <3>1, <3>4, BracketsStep
    <3> QED BY <2>1, <3>3, <3>5
  <2> QED BY <1>8, <2>2, <2>3 DEF OpenTypes
<1>9. Blocked(p.args, p.options, s, p.reject, i) <=> AtomRefused(p)
  BY RefusedIs
<1> HIDE DEF a, s, i, t
<1>10. AtomStep(p.args, p.options, s, p.reject, i, a, v)
  BY <1>2, <1>3, <1>5, <1>6, <1>7, <1>8, <1>9 DEF AtomStep
<1> QED BY <1>10 DEF a, s, i, v

(***************************************************************************)
(* Where a call fails, what was read up to there can be completed.         *)
(***************************************************************************)
Symbol(k) == IF k = "components" THEN "sequence" ELSE k

FailsAt(k, as, os, s, b, i, r) ==
  ~Fine(r) => /\ r.p.tkpos \in Places(s) /\ i <= r.p.tkpos
              /\ \E f \in Fillers : CompletesAt(k, as, os, s, b, i, r.p.tkpos, f)

\* What was read fine, as the lemmas on what completes it take it.
ReadOn(k, as, os, s, b, i, r) ==
  /\ r.p.tkpos \in Places(s) /\ r.p.tkpos \in Nat /\ i \in Nat /\ i < r.p.tkpos
  /\ Derives(s, k, i, r.p.tkpos) /\ Legal(as, os, s, b, i, r.p.tkpos)
  /\ r.p.reject <=> b \/ Dashes(s, i, r.p.tkpos)

LEMMA FineRead ==
  ASSUME NEW as, NEW os, NEW s, IsSpec(s), NEW b, NEW i \in Places(s), NEW k \in {"atom", "choice", "sequence"}, NEW r, Fine(r),
         ReadsAt(k, as, os, s, b, i, r)
  PROVE  ReadOn(k, as, os, s, b, i, r)
<1> DEFINE m == r.p.tkpos
<1>1. /\ m \in Places(s) /\ m \in Nat /\ Read(s, k, i, m) /\ Legal(as, os, s, b, i, m)
      /\ r.p.reject <=> b \/ Dashes(s, i, m)
  BY DEF ReadsAt, ReadsFine
<1>2. Derives(s, k, i, m)
  BY <1>1 DEF Read
<1>3. Len(s) \in Nat /\ i \in Nat
  BY LenProperties DEF IsSpec, Places
<1> HIDE DEF m
<1>4. i < m
  BY <1>1, <1>2, <1>3, Starts
<1> QED BY <1>1, <1>2, <1>3, <1>4 DEF m, ReadOn

LEMMA ChoiceFails ==
  ASSUME NEW as, NEW os, NEW s, IsSpec(s), NEW b, NEW i \in Places(s), NEW a, NEW w, NEW v,
         ReadsAt("atom", as, os, s, b, i, a), FailsAt("atom", as, os, s, b, i, a),
         ~Fine(a) => v = a,
         Fine(a) /\ ~Sees(s, a.p.tkpos, "choice") => Fine(v),
         Fine(a) /\ Sees(s, a.p.tkpos, "choice") =>
           v = w /\ FailsAt("choice", as, os, s, a.p.reject, a.p.tkpos + 1, w)
  PROVE  FailsAt("choice", as, os, s, b, i, v)
<1>1. CASE ~Fine(a)
  <2>1. v = a
    BY <1>1
  <2>2. \A e \in Places(s) : \A f \in Fillers : i <= e /\ CompletesAt("atom", as, os, s, b, i, e, f) => CompletesAt("choice", as, os, s, b, i, e, f)
    BY CompletesAbove
  <2> QED BY <1>1, <2>1, <2>2 DEF FailsAt
<1>2. CASE Fine(a) /\ ~Sees(s, a.p.tkpos, "choice")
  BY <1>2 DEF FailsAt
<1>3. CASE Fine(a) /\ Sees(s, a.p.tkpos, "choice")
  <2> SUFFICES ASSUME ~Fine(v)
               PROVE  /\ v.p.tkpos \in Places(s) /\ i <= v.p.tkpos
                      /\ \E f \in Fillers : CompletesAt("choice", as, os, s, b, i, v.p.tkpos, f)
    BY DEF FailsAt
  <2> DEFINE m == a.p.tkpos
             c == a.p.reject
             e == v.p.tkpos
  <2>1. /\ m \in Places(s) /\ m \in Nat /\ i \in Nat /\ i < m
        /\ Derives(s, "atom", i, m) /\ Legal(as, os, s, b, i, m) /\ (c <=> b \/ Dashes(s, i, m))
    <3>1. ReadOn("atom", as, os, s, b, i, a)
      BY <1>3, FineRead
    <3> QED BY <3>1 DEF ReadOn
  <2>2. /\ e \in Places(s) /\ m + 1 <= e /\ \E f \in Fillers : CompletesAt("choice", as, os, s, c, m + 1, e, f)
    BY <1>3 DEF FailsAt
  <2>3. s[m].typ = "choice"
    BY <1>3 DEF Sees
  <2>4. i <= e
    BY <2>1, <2>2 DEF Places
  <2> HIDE DEF m, c, e
  <2>5. PICK f \in Fillers : CompletesAt("choice", as, os, s, c, m + 1, e, f)
    BY <2>2
  <2>6. CompletesBehind("atom", "choice", as, os, s, b, i, m, c, m + 1, e, f)
    BY <2>1, <2>5 DEF CompletesBehind
  <2>7. CompletesAt("choice", as, os, s, b, i, e, f)
    BY <2>1, <2>2, <2>3, <2>6, CompletesChoice
  <2> QED BY <2>2, <2>4, <2>7 DEF e
<1> QED BY <1>1, <1>2, <1>3

LEMMA SequenceFails ==
  ASSUME NEW as, NEW os, NEW s, IsSpec(s), NEW b, NEW i \in Places(s), NEW a, NEW w, NEW v,
         ReadsAt("choice", as, os, s, b, i, a), FailsAt("choice", as, os, s, b, i, a),
         ~Fine(a) => v = a,
         Fine(a) => v = w /\ FailsAt("sequence", as, os, s, a.p.reject, a.p.tkpos, w)
  PROVE  FailsAt("sequence", as, os, s, b, i, v)
<1>1. CASE ~Fine(a)
  <2>1. v = a
    BY <1>1
  <2>2. \A e \in Places(s) : \A f \in Fillers : i <= e /\ CompletesAt("choice", as, os, s, b, i, e, f) => CompletesAt("sequence", as, os, s, b, i, e, f)
    BY CompletesAbove
  <2> QED BY <1>1, <2>1, <2>2 DEF FailsAt
<1>2. CASE Fine(a)
  <2> SUFFICES ASSUME ~Fine(v)
               PROVE  /\ v.p.tkpos \in Places(s) /\ i <= v.p.tkpos
                      /\ \E f \in Fillers : CompletesAt("sequence", as, os, s, b, i, v.p.tkpos, f)
    BY DEF FailsAt
  <2> DEFINE m == a.p.tkpos
             c == a.p.reject
             e == v.p.tkpos
  <2>1. /\ m \in Places(s) /\ m \in Nat /\ i \in Nat /\ i < m
        /\ Derives(s, "choice", i, m) /\ Legal(as, os, s, b, i, m) /\ (c <=> b \/ Dashes(s, i, m))
    <3>1. ReadOn("choice", as, os, s, b, i, a)
      BY <1>2, FineRead
    <3> QED BY <3>1 DEF ReadOn
  <2>2. /\ e \in Places(s) /\ m <= e /\ \E f \in Fillers : CompletesAt("sequence", as, os, s, c, m, e, f)
    BY <1>2 DEF FailsAt
  <2>4. i <= e
    BY <2>1, <2>2 DEF Places
  <2> HIDE DEF m, c, e
  <2>5. PICK f \in Fillers : CompletesAt("sequence", as, os, s, c, m, e, f)
    BY <2>2
  <2>6. CompletesBehind("choice", "sequence", as, os, s, b, i, m, c, m, e, f)
    BY <2>1, <2>5 DEF CompletesBehind
  <2>7. CompletesAt("sequence", as, os, s, b, i, e, f)
    BY <2>1, <2>2, <2>6, CompletesSequence
  <2> QED BY <2>2, <2>4, <2>7 DEF e
<1> QED BY <1>1, <1>2

LEMMA AtomFails ==
  ASSUME NEW as, NEW os, NEW s, IsSpec(s), NEW b, NEW i \in Places(s), NEW a, NEW v,
         AtomStep(as, os, s, b, i, a, v),
         i <= Len(s) => ReadsAt("sequence", as, os, s, b, i + 1, a) /\ FailsAt("sequence", as, os, s, b, i + 1, a)
  PROVE  FailsAt("atom", as, os, s, b, i, v)
<1>1. i \in Nat /\ Len(s) \in Nat /\ i # 0
  BY LenProperties DEF IsSpec, Places
<1>2. CASE Blocked(as, os, s, b, i)
  <2>1. v.p.tkpos = i /\ i <= i
    BY <1>1, <1>2 DEF AtomStep, FailsIn
  <2> QED BY <2>1, FillerCompletes DEF FailsAt
<1>3. CASE ~Blocked(as, os, s, b, i) /\ s[i].typ \notin OpenTypes
  <2>1. s[i].typ \in AtomTypes
    BY <1>3 DEF Blocked, StartsAtom
  <2>2. Fine(v)
    BY <1>3, <2>1 DEF AtomStep, AtomTypes, OpenTypes, Reaches
  <2> QED BY <2>2 DEF FailsAt
<1>4. CASE ~Blocked(as, os, s, b, i) /\ s[i].typ \in OpenTypes
  <2>1. i <= Len(s)
    BY <1>4 DEF Blocked, StartsAtom
  <2>2. i + 1 \in Places(s) /\ i + 1 \in Nat
    BY <1>1, <2>1 DEF Places
  <2>3. GroupStep(s, a, Mate(s[i].typ), v)
    BY <1>4 DEF AtomStep
  <2> DEFINE e == v.p.tkpos
             typ == Mate(s[i].typ)
  <2> SUFFICES ASSUME ~Fine(v)
               PROVE  /\ e \in Places(s) /\ i <= e /\ \E f \in Fillers : CompletesAt("atom", as, os, s, b, i, e, f)
    BY DEF FailsAt
  <2>4. e = a.p.tkpos
    BY <2>3 DEF GroupStep, FailsIn, Reaches
  <2> HIDE DEF e
  <2>5. /\ e \in Places(s) /\ i + 1 <= e /\ \E f \in Fillers : CompletesAt("sequence", as, os, s, b, i + 1, e, f)
    <3>1. CASE ~Fine(a)
      BY <2>1, <2>4, <3>1 DEF FailsAt
    <3>2. CASE Fine(a)
      <4>1. e \in Places(s) /\ e \in Nat /\ i + 1 < e /\ Derives(s, "sequence", i + 1, e) /\ Legal(as, os, s, b, i + 1, e)
        <5>1. ReadOn("sequence", as, os, s, b, i + 1, a)
          BY <2>1, <2>2, <3>2, FineRead
        <5> QED BY <2>4, <5>1 DEF ReadOn
      <4>2. i + 1 <= e
        BY <1>1, <4>1
      <4>3. CompletesAt("sequence", as, os, s, b, i + 1, e, <<>>)
        BY <2>2, <4>1, <4>2, FineCompletes DEF Symbols
      <4>4. <<>> \in Fillers
        BY DEF Fillers
      <4> QED BY <4>1, <4>2, <4>3, <4>4
    <3> QED BY <3>1, <3>2
  <2>6. i <= e
    BY <1>1, <2>5 DEF Places
  <2> QED BY <1>4, <2>5, <2>6, CompletesGroup
<1> QED BY <1>2, <1>3, <1>4

CallFails(y, parse) ==
  y.r.p.tkpos \in Places(y.r.p.tokens) =>
    FailsAt(Symbol(y.production), y.r.p.args, y.r.p.options, y.r.p.tokens, y.r.p.reject, y.r.p.tkpos, parse[y])
FailsBelow(c, parse, as, os, ts) == \A y : Below(y, c, as, os, ts) => CallFails(y, parse)

LEMMA OnwardFails ==
  ASSUME NEW as, NEW os, NEW ts, NEW parse, NEW c, IsCall(c, as, os, ts), FailsBelow(c, parse, as, os, ts),
         NEW l, NEW s, Onward(c, l, s), s.p.tkpos \in Places(ts)
  PROVE  FailsAt(Symbol(l), as, os, ts, s.p.reject, s.p.tkpos, parse[Call(l, s)])
<1> DEFINE y == Call(l, s)
<1>1. s.p.args = as /\ s.p.options = os /\ s.p.tokens = ts
  BY DEF Onward, IsCall, Grows, Same
<1>2. y.r = s /\ y.production = l
  BY DEF Call
<1>3. Below(y, c, as, os, ts)
  BY Smaller
<1> HIDE DEF y
<1>4. CallFails(y, parse)
  BY <1>3 DEF FailsBelow
<1>5. FailsAt(Symbol(l), as, os, ts, s.p.reject, s.p.tkpos, parse[y])
  BY <1>1, <1>2, <1>4 DEF CallFails
<1> QED BY <1>5 DEF y

\* What the calls below c are assumed to do.
Assumed(c, parse, as, os, ts) ==
  AllReturned(parse, as, os, ts) /\ ReadBelow(c, parse, as, os, ts) /\ FailsBelow(c, parse, as, os, ts)

LEMMA OnwardBoth ==
  ASSUME NEW as, NEW os, NEW ts, NEW parse, NEW c, IsCall(c, as, os, ts), Assumed(c, parse, as, os, ts),
         NEW l, NEW s, Onward(c, l, s), s.p.tkpos \in Places(ts)
  PROVE  /\ ReadsAt(l, as, os, ts, s.p.reject, s.p.tkpos, parse[Call(l, s)])
         /\ FailsAt(Symbol(l), as, os, ts, s.p.reject, s.p.tkpos, parse[Call(l, s)])
BY OnwardReads, OnwardFails DEF Assumed

LEMMA AlternativesFail ==
  ASSUME NEW as, NEW os, NEW ts, NEW parse, NEW c, IsCall(c, as, os, ts), Assumed(c, parse, as, os, ts),
         c.production = "choice", c.r.p.tkpos \in Places(ts)
  PROVE  FailsAt("choice", as, os, ts, c.r.p.reject, c.r.p.tkpos, Alternatives(c.r, parse))
<1> DEFINE a == parse[Call("atom", c.r)]
           v == Alternatives(c.r, parse)
           i == c.r.p.tkpos
           b == c.r.p.reject
<1>1. Onward(c, "atom", c.r)
  BY AlternativesStep DEF Assumed
<1>2. PICK u : ChoiceStep(c, parse, ts, a, u, v)
  BY AlternativesStep DEF Assumed
<1>3. IsSpec(ts) /\ Len(ts) \in Nat
  BY Fields DEF IsCall, IsParser
<1>4. Symbol("atom") = "atom" /\ Symbol("choice") = "choice"
  BY DEF Symbol
<1>5. ReadsAt("atom", as, os, ts, b, i, a) /\ FailsAt("atom", as, os, ts, b, i, a)
  <2> DEFINE r == c.r
  <2>1. r.p.tkpos \in Places(ts) /\ Onward(c, "atom", r)
    BY <1>1
  <2> HIDE DEF r
  <2>2. /\ ReadsAt("atom", as, os, ts, r.p.reject, r.p.tkpos, parse[Call("atom", r)])
        /\ FailsAt(Symbol("atom"), as, os, ts, r.p.reject, r.p.tkpos, parse[Call("atom", r)])
    BY <2>1, OnwardBoth
  <2> QED BY <1>4, <2>2 DEF r
<1> DEFINE w == parse[Call("choice", u)]
<1> HIDE DEF a, v
<1>6. ASSUME Fine(a), Sees(ts, a.p.tkpos, "choice")
      PROVE  v = w /\ FailsAt("choice", as, os, ts, a.p.reject, a.p.tkpos + 1, w)
  <2>1. v = w /\ Onward(c, "choice", u) /\ u.p.tkpos = a.p.tkpos + 1 /\ u.p.reject = a.p.reject
    BY <1>2, <1>6 DEF ChoiceStep
  <2>2. u.p.tkpos \in Places(ts)
    <3>1. a.p.tkpos \in Nat /\ a.p.tkpos <= Len(ts)
      BY <1>5, <1>6 DEF ReadsAt, ReadsFine, Sees
    <3> QED BY <1>3, <2>1, <3>1 DEF Places
  <2>3. FailsAt(Symbol("choice"), as, os, ts, u.p.reject, u.p.tkpos, w)
    BY <2>1, <2>2, OnwardBoth
  <2> QED BY <1>4, <2>1, <2>3
<1>7. (~Fine(a) => v = a) /\ (Fine(a) /\ ~Sees(ts, a.p.tkpos, "choice") => Fine(v))
  BY <1>2 DEF ChoiceStep, EndsWith
<1> HIDE DEF w, i, b
<1>8. i \in Places(ts)
  BY DEF i
<1>9. FailsAt("choice", as, os, ts, b, i, v)
  BY <1>3, <1>5, <1>6, <1>7, <1>8, ChoiceFails
<1> QED BY <1>9 DEF i, b, v

LEMMA ComponentsFail ==
  ASSUME NEW as, NEW os, NEW ts, NEW parse, NEW c, IsCall(c, as, os, ts), Assumed(c, parse, as, os, ts),
         c.production \in {"sequence", "components"}, c.r.p.tkpos \in Places(ts), NEW required \in BOOLEAN
  PROVE  FailsAt("sequence", as, os, ts, c.r.p.reject, c.r.p.tkpos, Components(c.r, required, parse))
<1> DEFINE v == Components(c.r, required, parse)
           i == c.r.p.tkpos
           b == c.r.p.reject
           on == required \/ StartsAtom(ts, i)
<1>1. \E y, u : /\ Onward(c, "choice", y) /\ y.p.tkpos = i /\ y.p.reject = b
                /\ SequenceStep(c, parse, c.r, on, parse[Call("choice", y)], u, v)
  BY ComponentsStep DEF Assumed
<1>2. IsSpec(ts) /\ Len(ts) \in Nat /\ Fine(c.r)
  BY Fields DEF IsCall, IsParser, Fine
<1> HIDE DEF v, on
<1>3. PICK x, u : /\ Onward(c, "choice", x) /\ x.p.tkpos = i /\ x.p.reject = b
                  /\ SequenceStep(c, parse, c.r, on, parse[Call("choice", x)], u, v)
  BY <1>1
<1> DEFINE a == parse[Call("choice", x)]
           w == parse[Call("components", u)]
<1>4. Symbol("choice") = "choice" /\ Symbol("components") = "sequence"
  BY DEF Symbol
<1>5. ReadsAt("choice", as, os, ts, b, i, a) /\ FailsAt("choice", as, os, ts, b, i, a)
  <2>1. x.p.tkpos \in Places(ts)
    BY <1>3
  <2>2. /\ ReadsAt("choice", as, os, ts, x.p.reject, x.p.tkpos, a)
        /\ FailsAt(Symbol("choice"), as, os, ts, x.p.reject, x.p.tkpos, a)
    BY <1>3, <2>1, OnwardBoth
  <2> QED BY <1>3, <1>4, <2>2
<1> HIDE DEF a
<1>6. ASSUME on, Fine(a) PROVE v = w /\ FailsAt("sequence", as, os, ts, a.p.reject, a.p.tkpos, w)
  <2>1. v = w /\ Onward(c, "components", u) /\ u.p.tkpos = a.p.tkpos /\ u.p.reject = a.p.reject
    BY <1>3, <1>6 DEF SequenceStep, a
  <2>2. u.p.tkpos \in Places(ts)
    BY <1>5, <1>6, <2>1 DEF ReadsAt, ReadsFine
  <2>3. FailsAt(Symbol("components"), as, os, ts, u.p.reject, u.p.tkpos, w)
    BY <2>1, <2>2, OnwardBoth
  <2> QED BY <1>4, <2>1, <2>3
<1>7. (~on => v = c.r) /\ (on /\ ~Fine(a) => v = a)
  BY <1>3 DEF SequenceStep, a
<1>8. i \in Places(ts)
  OBVIOUS
<1> HIDE DEF w, i, b
<1>9. FailsAt("sequence", as, os, ts, b, i, v)
  <2>1. CASE on
    BY <1>2, <1>5, <1>6, <1>7, <1>8, <2>1, SequenceFails
  <2>2. CASE ~on
    BY <1>2, <1>7, <2>2 DEF FailsAt
  <2> QED BY <2>1, <2>2
<1> QED BY <1>9 DEF i, b, v

\* The sequence of a group.
LEMMA GroupOnward ==
  ASSUME NEW as, NEW os, NEW ts, NEW c, IsCall(c, as, os, ts), ~Eof(c.r.p)
  PROVE  LET s == Group(c.r.p).r
         IN  /\ Onward(c, "sequence", s) /\ Group(c.r.p) = Call("sequence", s)
             /\ s.p.tkpos = c.r.p.tkpos + 1 /\ s.p.reject = c.r.p.reject /\ s.p.tkpos \in Places(ts)
<1> DEFINE p == c.r.p
           g == Group(p)
<1>1. IsParser(p) /\ p.tokens = ts /\ ~Eof(p)
  BY DEF IsCall
<1> HIDE DEF p
<1>2. /\ IsPiece(g.r) /\ Grows(p, g.r.p) /\ g = Call("sequence", g.r) /\ g.r.p.tkpos = p.tkpos + 1
      /\ g.r.p.reject = p.reject
  BY <1>1, GroupIs
<1>3. p.tkpos \in Nat /\ Len(p.tokens) \in Nat /\ p.tkpos <= Len(p.tokens) /\ p.tkpos + 1 \in Places(p.tokens)
  BY <1>1, AtPlace
<1> HIDE DEF g
<1>4. p.tkpos < g.r.p.tkpos
  BY <1>2, <1>3
<1>5. Onward(c, "sequence", g.r)
  BY <1>2, <1>3, <1>4 DEF Onward, Productions, p
<1> QED BY <1>1, <1>2, <1>3, <1>5 DEF p, g

LEMMA AtomStepOf ==
  ASSUME NEW as, NEW os, NEW ts, NEW parse, AllReturned(parse, as, os, ts), NEW c, IsCall(c, as, os, ts)
  PROVE  AtomStep(as, os, ts, c.r.p.reject, c.r.p.tkpos, parse[Group(c.r.p)], Atom(c.r.p, parse))
<1> DEFINE p == c.r.p
<1>1. IsParser(p) /\ p.args = as /\ p.options = os /\ p.tokens = ts
  BY DEF IsCall
<1>2. ASSUME ~Eof(p) PROVE Answered(Group(p).r.p, parse[Group(p)])
  <2> DEFINE s == Group(p).r
  <2>0. ~Eof(p)
    BY <1>2
  <2>1. /\ Onward(c, "sequence", s) /\ Group(p) = Call("sequence", s)
        /\ s.p.tkpos = p.tkpos + 1 /\ s.p.reject = p.reject /\ s.p.tkpos \in Places(ts)
    BY <2>0, GroupOnward
  <2> HIDE DEF s
  <2>2. IsPiece(s) /\ Grows(p, s.p) /\ "sequence" \in Productions /\ "sequence" # "components"
    BY <2>1 DEF Onward, Productions
  <2> HIDE DEF p
  <2>3. Answered(s.p, parse[Call("sequence", s)])
    BY <1>1, <2>2, CallReturns
  <2> QED BY <2>1, <2>3 DEF s
<1> HIDE DEF p
<1>3. AtomStep(p.args, p.options, p.tokens, p.reject, p.tkpos, parse[Group(p)], Atom(p, parse))
  BY <1>1, <1>2, AtomSteps
<1> QED BY <1>1, <1>3 DEF p

LEMMA AtomsFail ==
  ASSUME NEW as, NEW os, NEW ts, NEW parse, NEW c, IsCall(c, as, os, ts), Assumed(c, parse, as, os, ts),
         c.r.p.tkpos \in Places(ts)
  PROVE  FailsAt("atom", as, os, ts, c.r.p.reject, c.r.p.tkpos, Atom(c.r.p, parse))
<1> DEFINE p == c.r.p
           a == parse[Group(p)]
           i == p.tkpos
           b == p.reject
           v == Atom(p, parse)
<1>1. AtomStep(as, os, ts, b, i, a, v)
  BY AtomStepOf DEF Assumed
<1>2. IsSpec(ts) /\ p.tokens = ts
  BY DEF IsCall, IsParser
<1>3. ASSUME i <= Len(ts) PROVE ReadsAt("sequence", as, os, ts, b, i + 1, a) /\ FailsAt("sequence", as, os, ts, b, i + 1, a)
  <2> DEFINE s == Group(p).r
  <2>1. ~Eof(p)
    <3>1. i \in Nat /\ Len(ts) \in Nat
      BY Fields DEF IsCall
    <3> QED BY <1>2, <1>3, <3>1 DEF Eof
  <2>2. /\ Onward(c, "sequence", s) /\ Group(p) = Call("sequence", s)
        /\ s.p.tkpos = i + 1 /\ s.p.reject = b /\ s.p.tkpos \in Places(ts)
    BY <2>1, GroupOnward
  <2> HIDE DEF s
  <2>3. /\ ReadsAt("sequence", as, os, ts, s.p.reject, s.p.tkpos, parse[Call("sequence", s)])
        /\ FailsAt(Symbol("sequence"), as, os, ts, s.p.reject, s.p.tkpos, parse[Call("sequence", s)])
    BY <2>2, OnwardBoth
  <2>4. Symbol("sequence") = "sequence"
    BY DEF Symbol
  <2> QED BY <2>2, <2>3, <2>4
<1>4. i \in Places(ts)
  OBVIOUS
<1> HIDE DEF p, a, i, b, v
<1>5. FailsAt("atom", as, os, ts, b, i, v)
  BY <1>1, <1>2, <1>3, <1>4, AtomFails
<1> QED BY <1>5 DEF p, i, b, v

\* What holds of a call if it holds of those below it holds of all.
LEMMA CallInduction ==
  ASSUME NEW as, NEW os, NEW ts, Inputs(os, ts), NEW S,
         \A c \in Calls(as, os, ts) : (\A y : Below(y, c, as, os, ts) => y \in S) => c \in S
  PROVE  Calls(as, os, ts) \subseteq S
<1> DEFINE D == Calls(as, os, ts)
           rank == [c \in D |-> Size(c)]
<1>1. \A c \in D : Size(c) \in Nat
  <2> TAKE c \in D
  <2>1. IsCall(c, as, os, ts)
    BY CallIs
  <2> DEFINE p == c.r.p
             n == c.production
  <2>2. IsParser(p) /\ n \in Productions
    BY <2>1 DEF IsCall
  <2>3. Size(c) = 3 * Left(p) + Level(n)
    BY DEF Size
  <2> HIDE DEF p, n
  <2>4. 3 * Left(p) + Level(n) \in Nat
    BY <2>2, GrowsSelf, Sizes
  <2> QED BY <2>3, <2>4
<1>2. rank \in [D -> Nat] /\ \A c \in D : rank[c] = Size(c)
  BY <1>1
<1> DEFINE T == S \cap D
<1>3. ASSUME NEW c \in D, \A y \in D : rank[y] < rank[c] => y \in T PROVE c \in T
  <2>1. \A y : Below(y, c, as, os, ts) => y \in S
    BY <1>2, <1>3 DEF Below
  <2> QED BY <2>1
<1> HIDE DEF D, rank, T
<1>4. D \subseteq T
  BY <1>2, <1>3, RankInduction
<1> QED BY <1>4 DEF D, T

LEMMA AnswerFails ==
  ASSUME NEW as, NEW os, NEW ts, NEW parse, NEW c, IsCall(c, as, os, ts), Assumed(c, parse, as, os, ts),
         c.r.p.tkpos \in Places(ts)
  PROVE  FailsAt(Symbol(c.production), as, os, ts, c.r.p.reject, c.r.p.tkpos, Answer(c, parse))
<1> DEFINE p == c.r.p
           Fails(k, v) == FailsAt(k, as, os, ts, p.reject, p.tkpos, v)
<1>1. c.production \in Productions
  BY DEF IsCall
<1>2. SUFFICES Fails(Symbol(c.production), Answer(c, parse))
  OBVIOUS
<1>3. CASE c.production = "atom"
  <2>1. Answer(c, parse) = Atom(p, parse) /\ Symbol(c.production) = "atom"
    BY <1>3 DEF Answer, Symbol
  <2> QED BY <1>3, <2>1, AtomsFail
<1>4. CASE c.production = "choice"
  <2>1. Answer(c, parse) = Alternatives(c.r, parse) /\ Symbol(c.production) = "choice"
    BY <1>4 DEF Answer, Symbol
  <2> QED BY <1>4, <2>1, AlternativesFail
<1>5. CASE c.production \in {"sequence", "components"}
  <2>1. \A b \in BOOLEAN : Fails("sequence", Components(c.r, b, parse))
    BY <1>5, ComponentsFail
  <2> HIDE DEF Fails
  <2>2. Fails("sequence", Components(c.r, TRUE, parse)) /\ Fails("sequence", Components(c.r, FALSE, parse))
    BY <2>1, Zenon
  <2>3. /\ c.production = "sequence" => Answer(c, parse) = Components(c.r, TRUE, parse)
        /\ c.production = "components" => Answer(c, parse) = Components(c.r, FALSE, parse)
    <3>1. c.production = "components" => c.production # "sequence"
      OBVIOUS
    <3> QED BY <3>1, Zenon DEF Answer
  <2>4. Symbol(c.production) = "sequence"
    BY <1>5 DEF Symbol
  <2>5. CASE c.production = "sequence"
    BY <2>2, <2>3, <2>4, <2>5, Zenon
  <2>6. CASE c.production = "components"
    BY <2>2, <2>3, <2>4, <2>6, Zenon
  <2> QED BY <1>5, <2>5, <2>6
<1> QED BY <1>1, <1>3, <1>4, <1>5 DEF Productions

LEMMA CallsFail ==
  ASSUME NEW as, NEW os, NEW ts, Inputs(os, ts)
  PROVE  \A c \in Calls(as, os, ts) : CallFails(c, Parses(as, os, ts))
<1> DEFINE parse == Parses(as, os, ts)
           S == {c \in Calls(as, os, ts) : CallFails(c, parse)}
<1>1. AllReturned(parse, as, os, ts) /\ \A c \in Calls(as, os, ts) : parse[c] = Answer(c, parse) /\ CallReads(c, parse)
  BY ParsesAnswer, CallsRead DEF IsParse
<1> HIDE DEF parse
<1>2. ASSUME NEW c \in Calls(as, os, ts), \A y : Below(y, c, as, os, ts) => y \in S PROVE c \in S
  <2>1. IsCall(c, as, os, ts)
    BY CallIs
  <2>2. Assumed(c, parse, as, os, ts)
    BY <1>1, <1>2 DEF Assumed, ReadBelow, FailsBelow, Below
  <2>3. c.r.p.tkpos \in Places(ts) =>
          FailsAt(Symbol(c.production), as, os, ts, c.r.p.reject, c.r.p.tkpos, Answer(c, parse))
    BY <2>1, <2>2, AnswerFails
  <2>4. c.r.p.args = as /\ c.r.p.options = os /\ c.r.p.tokens = ts
    BY <2>1 DEF IsCall
  <2>5. CallFails(c, parse)
    BY <1>1, <2>3, <2>4 DEF CallFails
  <2> QED BY <2>5
<1> HIDE DEF S
<1>3. Calls(as, os, ts) \subseteq S
  BY <1>2, CallInduction
<1> QED BY <1>3 DEF S, parse

(***************************************************************************)
(* What the parser does up to a token does not depend on those behind it.  *)
(***************************************************************************)
AnswersAlike(r, q) == (Fine(r) <=> Fine(q)) /\ q.p.tkpos = r.p.tkpos /\ (Fine(r) => q.p.reject = r.p.reject)

LEMMA TokenSame ==
  ASSUME NEW s, NEW t, NEW n, Agrees(s, t, n), NEW e \in Nat, e # 0, e <= n
  PROVE  /\ e <= Len(s) /\ e <= Len(t) /\ s[e] = t[e]
         /\ \A typ : Sees(s, e, typ) <=> Sees(t, e, typ)
         /\ StartsAtom(s, e) <=> StartsAtom(t, e)
         /\ \A as, os, b : Blocked(as, os, s, b, e) <=> Blocked(as, os, t, b, e)
<1>1. e <= Len(s) /\ e <= Len(t) /\ s[e] = t[e]
  BY DEF Agrees
<1> QED BY <1>1 DEF Sees, StartsAtom, Blocked

LEMMA PastSame ==
  ASSUME NEW s, NEW t, NEW n, Agrees(s, t, n), NEW e \in Nat, e # 0, NEW typ, Past(s, e, typ) <= n
  PROVE  e <= n /\ Past(t, e, typ) = Past(s, e, typ) /\ Past(s, e, typ) \in Nat /\ e <= Past(s, e, typ)
<1>1. Past(s, e, typ) \in Nat /\ e <= Past(s, e, typ)
  BY DEF Past
<1>2. e <= n
  BY <1>1 DEF Agrees
<1>3. Sees(s, e, typ) <=> Sees(t, e, typ)
  BY <1>2, TokenSame
<1> QED BY <1>1, <1>2, <1>3 DEF Past

LEMMA NotBack ==
  ASSUME NEW as, NEW os, NEW s, IsSpec(s), NEW b, NEW i \in Places(s), NEW k \in Productions, NEW r,
         ReadsAt(k, as, os, s, b, i, r), FailsAt(Symbol(k), as, os, s, b, i, r)
  PROVE  r.p.tkpos \in Places(s) /\ r.p.tkpos \in Nat /\ i \in Nat /\ i <= r.p.tkpos
<1> DEFINE m == r.p.tkpos
<1>1. i \in Nat /\ \A e \in Places(s) : e \in Nat
  BY DEF Places
<1>2. CASE ~Fine(r)
  BY <1>1, <1>2 DEF FailsAt
<1>3. CASE Fine(r)
  <2>1. m \in Places(s) /\ Read(s, k, i, m)
    BY <1>3 DEF ReadsAt, ReadsFine
  <2>2. CASE k = "components" /\ i = m
    BY <1>1, <2>1, <2>2
  <2>3. CASE ~(k = "components" /\ i = m)
    <3>1. Symbol(k) \in {"atom", "choice", "sequence"} /\ Derives(s, Symbol(k), i, m)
      BY <2>1, <2>3 DEF Read, Symbol, Productions
    <3> DEFINE h == Symbol(k)
    <3>2. h \in {"item", "atom", "choice", "sequence"} /\ Derives(s, h, i, m)
      BY <3>1
    <3>3. Len(s) \in Nat
      BY LenProperties DEF IsSpec
    <3> HIDE DEF h, m
    <3>4. i < m
      BY <2>1, <3>2, <3>3, Starts
    <3>5. m \in Nat
      BY <1>1, <2>1
    <3> QED BY <1>1, <2>1, <3>4, <3>5 DEF m
  <2> QED BY <2>2, <2>3
<1> QED BY <1>2, <1>3

\* A choice, on the tokens s and on t.
LEMMA ChoiceAlike ==
  ASSUME NEW s, NEW t, NEW n, Agrees(s, t, n), NEW a, NEW w, NEW v, NEW a2, NEW w2, NEW v2,
         a.p.tkpos \in Nat, a.p.tkpos # 0, a.p.tkpos <= n, AnswersAlike(a, a2),
         ~Fine(a) => v = a, ~Fine(a2) => v2 = a2,
         Fine(a) /\ ~Sees(s, a.p.tkpos, "choice") => EndsWith(a, v),
         Fine(a2) /\ ~Sees(t, a2.p.tkpos, "choice") => EndsWith(a2, v2),
         Fine(a) /\ Sees(s, a.p.tkpos, "choice") => v = w,
         Fine(a2) /\ Sees(t, a2.p.tkpos, "choice") => v2 = w2,
         Fine(a) /\ Sees(s, a.p.tkpos, "choice") => AnswersAlike(w, w2)
  PROVE  AnswersAlike(v, v2)
<1>1. (Fine(a) <=> Fine(a2)) /\ a2.p.tkpos = a.p.tkpos /\ (Fine(a) => a2.p.reject = a.p.reject)
  BY DEF AnswersAlike
<1>2. Sees(s, a.p.tkpos, "choice") <=> Sees(t, a.p.tkpos, "choice")
  BY TokenSame
<1>3. CASE ~Fine(a)
  BY <1>1, <1>3
<1>4. CASE Fine(a) /\ ~Sees(s, a.p.tkpos, "choice")
  <2>1. EndsWith(a, v) /\ EndsWith(a2, v2)
    BY <1>1, <1>2, <1>4
  <2> QED BY <1>1, <1>4, <2>1 DEF EndsWith, AnswersAlike
<1>5. CASE Fine(a) /\ Sees(s, a.p.tkpos, "choice")
  <2>1. v = w /\ v2 = w2
    BY <1>1, <1>2, <1>5
  <2> QED BY <1>5, <2>1
<1> QED BY <1>3, <1>4, <1>5

\* A group.
LEMMA GroupAlike ==
  ASSUME NEW s, NEW t, NEW n, Agrees(s, t, n), NEW a, NEW v, NEW a2, NEW v2, NEW typ,
         a.p.tkpos \in Nat, a.p.tkpos # 0, v.p.tkpos <= n,
         GroupStep(s, a, typ, v), GroupStep(t, a2, typ, v2), a.p.tkpos <= n => AnswersAlike(a, a2)
  PROVE  AnswersAlike(v, v2)
<1> DEFINE e == a.p.tkpos
<1>1. CASE Fine(a) /\ Sees(s, e, typ)
  <2>1. Reaches(v, Past(s, e + 1, "rep"), a.p.reject)
    BY <1>1 DEF GroupStep
  <2> DEFINE f == e + 1
  <2>2. f \in Nat /\ f # 0 /\ Past(s, f, "rep") <= n
    BY <2>1 DEF Reaches
  <2> HIDE DEF f
  <2>3. f <= n /\ Past(t, f, "rep") = Past(s, f, "rep")
    BY <2>2, PastSame
  <2>4. e <= n
    BY <2>2, <2>3 DEF f, Agrees
  <2>5. AnswersAlike(a, a2) /\ (Sees(s, e, typ) <=> Sees(t, e, typ))
    BY <2>4, TokenSame
  <2>6. Fine(a2) /\ a2.p.tkpos = e /\ a2.p.reject = a.p.reject /\ Sees(t, a2.p.tkpos, typ)
    BY <1>1, <2>5 DEF AnswersAlike
  <2>7. Reaches(v2, Past(t, f, "rep"), a.p.reject)
    BY <2>6 DEF GroupStep, f
  <2>8. Reaches(v, Past(s, f, "rep"), a.p.reject)
    BY <2>1 DEF f
  <2> QED BY <2>3, <2>7, <2>8 DEF Reaches, AnswersAlike
<1>2. CASE ~Fine(a) \/ ~Sees(s, e, typ)
  <2>1. FailsIn(v, e)
    BY <1>2 DEF GroupStep
  <2>2. e <= n
    BY <2>1 DEF FailsIn
  <2>3. AnswersAlike(a, a2) /\ (Sees(s, e, typ) <=> Sees(t, e, typ))
    BY <2>2, TokenSame
  <2>4. a2.p.tkpos = e /\ (~Fine(a2) \/ ~Sees(t, e, typ))
    BY <1>2, <2>3 DEF AnswersAlike
  <2>5. FailsIn(v2, e)
    BY <2>4 DEF GroupStep
  <2> QED BY <2>1, <2>5 DEF FailsIn, AnswersAlike
<1> QED BY <1>1, <1>2

LEMMA AtomAlike ==
  ASSUME NEW as, NEW os, NEW s, NEW t, NEW n, Agrees(s, t, n), NEW b, NEW i \in Nat, i # 0, i <= n,
         NEW a, NEW v, NEW a2, NEW v2, v.p.tkpos <= n,
         AtomStep(as, os, s, b, i, a, v), AtomStep(as, os, t, b, i, a2, v2),
         s[i].typ \in OpenTypes => a.p.tkpos \in Nat /\ a.p.tkpos # 0 /\ (a.p.tkpos <= n => AnswersAlike(a, a2))
  PROVE  AnswersAlike(v, v2)
<1>1. s[i] = t[i] /\ (Blocked(as, os, s, b, i) <=> Blocked(as, os, t, b, i))
  BY TokenSame
<1>2. CASE Blocked(as, os, s, b, i)
  <2>1. FailsIn(v, i) /\ FailsIn(v2, i)
    BY <1>1, <1>2 DEF AtomStep
  <2> QED BY <2>1 DEF FailsIn, AnswersAlike
<1>3. CASE ~Blocked(as, os, s, b, i)
  <2>0. ASSUME NEW e, NEW c, Reaches(v, e, c), Reaches(v2, e, c) PROVE AnswersAlike(v, v2)
    BY <2>0 DEF Reaches, AnswersAlike
  <2>1. s[i].typ \in AtomTypes /\ ~Blocked(as, os, t, b, i)
    BY <1>1, <1>3 DEF Blocked, StartsAtom
  <2>2. CASE s[i].typ \in {"pos", "options", "optSeq"}
    <3>1. Reaches(v, Past(s, i + 1, "rep"), b) /\ Reaches(v2, Past(t, i + 1, "rep"), b)
      BY <1>1, <1>3, <2>1, <2>2 DEF AtomStep
    <3>2. Past(s, i + 1, "rep") <= n
      BY <3>1 DEF Reaches
    <3>3. Past(t, i + 1, "rep") = Past(s, i + 1, "rep")
      BY <3>2, PastSame
    <3> QED BY <2>0, <3>1, <3>3
  <2>3. CASE s[i].typ \in {"shortOpt", "longOpt"}
    <3> DEFINE e == Past(s, i + 1, "optValue")
               d == Past(t, i + 1, "optValue")
    <3>1. Reaches(v, Past(s, e, "rep"), b) /\ Reaches(v2, Past(t, d, "rep"), b)
      BY <1>1, <1>3, <2>1, <2>3 DEF AtomStep
    <3>2. Past(s, e, "rep") <= n
      BY <3>1 DEF Reaches
    <3>3. e \in Nat /\ e # 0
      BY DEF Past
    <3> HIDE DEF e, d
    <3>4. e <= n /\ Past(t, e, "rep") = Past(s, e, "rep")
      BY <3>2, <3>3, PastSame
    <3>5. d = e
      BY <3>4, PastSame DEF e, d
    <3> QED BY <2>0, <3>1, <3>4, <3>5
  <2>4. CASE s[i].typ = "dblDash"
    <3>1. Reaches(v, i + 1, TRUE) /\ Reaches(v2, i + 1, TRUE)
      BY <1>1, <1>3, <2>1, <2>4 DEF AtomStep
    <3> QED BY <3>1 DEF Reaches, AnswersAlike
  <2>5. CASE s[i].typ \in OpenTypes
    <3>1. GroupStep(s, a, Mate(s[i].typ), v) /\ GroupStep(t, a2, Mate(s[i].typ), v2)
      BY <1>1, <1>3, <2>1, <2>5 DEF AtomStep
    <3> DEFINE typ == Mate(s[i].typ)
    <3> HIDE DEF typ
    <3>2. GroupStep(s, a, typ, v) /\ GroupStep(t, a2, typ, v2)
      BY <3>1 DEF typ
    <3> QED BY <2>5, <3>2, GroupAlike
  <2> QED BY <2>1, <2>2, <2>3, <2>4, <2>5 DEF AtomTypes, OpenTypes
<1> QED BY <1>2, <1>3

ParsedBy(parse, as, os, ts) ==
  IsParse(parse, as, os, ts) /\ \A c \in Calls(as, os, ts) : CallReads(c, parse) /\ CallFails(c, parse)

\* Two calls of the same production at the same place, on other tokens.
CallsPair(c, d) == d.production = c.production /\ d.r.p.tkpos = c.r.p.tkpos /\ d.r.p.reject = c.r.p.reject

CallAlike(y, parse, h, as, os, t, n) ==
  y.r.p.tkpos \in Places(y.r.p.tokens) /\ parse[y].p.tkpos <= n =>
    \A z \in Calls(as, os, t) : CallsPair(y, z) => AnswersAlike(parse[y], h[z])

\* What is known of the calls c, on ts, and d, on t.
Paired(c, d, parse, h, as, os, ts, t, n) ==
  /\ Agrees(ts, t, n) /\ ParsedBy(parse, as, os, ts) /\ IsParse(h, as, os, t)
  /\ IsCall(c, as, os, ts) /\ IsCall(d, as, os, t) /\ CallsPair(c, d) /\ c.r.p.tkpos \in Places(ts)
  /\ \A y : Below(y, c, as, os, ts) => CallAlike(y, parse, h, as, os, t, n)

\* The answers r and q of calls at the place e.
Alongside(s, e, r, q, n) ==
  r.p.tkpos \in Places(s) /\ r.p.tkpos \in Nat /\ e \in Nat /\ e <= r.p.tkpos /\ (r.p.tkpos <= n => AnswersAlike(r, q))

LEMMA ParsedAssumed ==
  ASSUME NEW as, NEW os, NEW ts, NEW parse, ParsedBy(parse, as, os, ts), NEW c
  PROVE  Assumed(c, parse, as, os, ts)
BY DEF ParsedBy, IsParse, Assumed, ReadBelow, FailsBelow, Below

LEMMA OnwardAlike ==
  ASSUME NEW as, NEW os, NEW ts, NEW t, NEW n, NEW parse, NEW h, NEW c, NEW d, Paired(c, d, parse, h, as, os, ts, t, n),
         NEW l, NEW s, NEW u, Onward(c, l, s), Onward(d, l, u), u.p.tkpos = s.p.tkpos, u.p.reject = s.p.reject,
         s.p.tkpos \in Places(ts)
  PROVE  Alongside(ts, s.p.tkpos, parse[Call(l, s)], h[Call(l, u)], n)
<1> DEFINE y == Call(l, s)
           z == Call(l, u)
<1>1. IsCall(c, as, os, ts) /\ IsCall(d, as, os, t) /\ Assumed(c, parse, as, os, ts)
  BY ParsedAssumed DEF Paired
<1>2. Below(y, c, as, os, ts) /\ z \in Calls(as, os, t)
  BY <1>1, Smaller DEF Below
<1>3. /\ ReadsAt(l, as, os, ts, s.p.reject, s.p.tkpos, parse[y])
      /\ FailsAt(Symbol(l), as, os, ts, s.p.reject, s.p.tkpos, parse[y])
  BY <1>1, OnwardBoth
<1>4. y.r = s /\ CallsPair(y, z) /\ s.p.tokens = ts
  BY <1>1 DEF Call, CallsPair, Onward, IsCall, Grows, Same
<1> HIDE DEF y, z
<1>5. parse[y].p.tkpos \in Places(ts) /\ parse[y].p.tkpos \in Nat /\ s.p.tkpos \in Nat /\ s.p.tkpos <= parse[y].p.tkpos
  <2>1. IsSpec(ts) /\ l \in Productions
    BY <1>1 DEF IsCall, IsParser, Onward
  <2> QED BY <1>3, <2>1, NotBack
<1>6. CallAlike(y, parse, h, as, os, t, n)
  BY <1>2 DEF Paired
<1>7. parse[y].p.tkpos <= n => AnswersAlike(parse[y], h[z])
  BY <1>2, <1>4, <1>6 DEF CallAlike
<1> QED BY <1>5, <1>7 DEF Alongside, y, z

LEMMA AlternativesAlike ==
  ASSUME NEW as, NEW os, NEW ts, NEW t, NEW n, NEW parse, NEW h, NEW c, NEW d, Paired(c, d, parse, h, as, os, ts, t, n),
         c.production = "choice", Alternatives(c.r, parse).p.tkpos <= n
  PROVE  AnswersAlike(Alternatives(c.r, parse), Alternatives(d.r, h))
<1> DEFINE v  == Alternatives(c.r, parse)
           v2 == Alternatives(d.r, h)
           a  == parse[Call("atom", c.r)]
           a2 == h[Call("atom", d.r)]
<1>1. /\ IsCall(c, as, os, ts) /\ AllReturned(parse, as, os, ts) /\ Agrees(ts, t, n) /\ c.r.p.tkpos \in Places(ts)
      /\ Len(ts) \in Nat
  BY DEF Paired, ParsedBy, IsParse, Agrees
<1>2. IsCall(d, as, os, t) /\ AllReturned(h, as, os, t) /\ d.production = "choice"
  BY DEF Paired, IsParse, CallsPair
<1>3. d.r.p.tkpos = c.r.p.tkpos /\ d.r.p.reject = c.r.p.reject
  BY DEF Paired, CallsPair
<1>4. Onward(c, "atom", c.r) /\ \E x : ChoiceStep(c, parse, ts, a, x, v)
  BY <1>1, AlternativesStep
<1>5. Onward(d, "atom", d.r) /\ \E x : ChoiceStep(d, h, t, a2, x, v2)
  BY <1>2, AlternativesStep
<1>6. Alongside(ts, c.r.p.tkpos, a, a2, n)
  <2> DEFINE s == c.r
             z == d.r
  <2>1. Onward(c, "atom", s) /\ Onward(d, "atom", z) /\ z.p.tkpos = s.p.tkpos /\ z.p.reject = s.p.reject /\ s.p.tkpos \in Places(ts)
    BY <1>1, <1>3, <1>4, <1>5
  <2> HIDE DEF s, z
  <2>2. Alongside(ts, s.p.tkpos, parse[Call("atom", s)], h[Call("atom", z)], n)
    BY <2>1, OnwardAlike
  <2> QED BY <2>2 DEF s, z
<1> HIDE DEF v, v2, a, a2
<1>7. PICK u : ChoiceStep(c, parse, ts, a, u, v)
  BY <1>4
<1>8. PICK z : ChoiceStep(d, h, t, a2, z, v2)
  BY <1>5
<1> DEFINE w  == parse[Call("choice", u)]
           w2 == h[Call("choice", z)]
           e == a.p.tkpos
<1>9. e \in Places(ts) /\ e \in Nat /\ e # 0 /\ (e <= n => AnswersAlike(a, a2))
  BY <1>6 DEF Alongside, Places
<1>10. ASSUME Fine(a), Sees(ts, e, "choice")
       PROVE  /\ v = w /\ Onward(c, "choice", u) /\ u.p.tkpos = e + 1 /\ u.p.reject = a.p.reject /\ u.p.tkpos \in Places(ts)
              /\ w.p.tkpos \in Nat /\ e + 1 <= w.p.tkpos
  <2>1. v = w /\ Onward(c, "choice", u) /\ u.p.tkpos = e + 1 /\ u.p.reject = a.p.reject
    BY <1>7, <1>10 DEF ChoiceStep
  <2>2. u.p.tkpos \in Places(ts)
    BY <1>1, <1>9, <1>10, <2>1 DEF Sees, Places
  <2> HIDE DEF w
  <2>3. Assumed(c, parse, as, os, ts) /\ IsSpec(ts) /\ "choice" \in Productions
    BY <1>1, ParsedAssumed DEF Paired, IsCall, IsParser, Productions
  <2>4. /\ ReadsAt("choice", as, os, ts, u.p.reject, u.p.tkpos, w)
        /\ FailsAt(Symbol("choice"), as, os, ts, u.p.reject, u.p.tkpos, w)
    BY <1>1, <2>1, <2>2, <2>3, OnwardBoth DEF w
  <2>5. w.p.tkpos \in Nat /\ u.p.tkpos <= w.p.tkpos
    BY <2>2, <2>3, <2>4, NotBack
  <2> QED BY <2>1, <2>2, <2>5
<1>11. e <= n
  <2>1. n \in Nat /\ v.p.tkpos <= n
    BY <1>1 DEF Agrees, v
  <2>2. CASE Fine(a) /\ Sees(ts, e, "choice")
    <3>1. v.p.tkpos \in Nat /\ e + 1 <= v.p.tkpos
      BY <1>10, <2>2
    <3> QED BY <1>9, <2>1, <3>1
  <2>3. CASE ~(Fine(a) /\ Sees(ts, e, "choice"))
    <3>1. v.p.tkpos = e
      BY <1>7, <2>3 DEF ChoiceStep, EndsWith
    <3> QED BY <2>1, <3>1
  <2> QED BY <2>2, <2>3
<1>12. AnswersAlike(a, a2)
  BY <1>9, <1>11
<1>13. /\ ~Fine(a) => v = a
       /\ Fine(a) /\ ~Sees(ts, a.p.tkpos, "choice") => EndsWith(a, v)
       /\ Fine(a) /\ Sees(ts, a.p.tkpos, "choice") => v = w
  BY <1>7 DEF ChoiceStep
<1>14. /\ ~Fine(a2) => v2 = a2
       /\ Fine(a2) /\ ~Sees(t, a2.p.tkpos, "choice") => EndsWith(a2, v2)
       /\ Fine(a2) /\ Sees(t, a2.p.tkpos, "choice") => v2 = w2
  BY <1>8 DEF ChoiceStep
<1>15. ASSUME Fine(a), Sees(ts, e, "choice") PROVE AnswersAlike(w, w2)
  <2>1. Fine(a2) /\ a2.p.tkpos = e /\ a2.p.reject = a.p.reject /\ Sees(t, a2.p.tkpos, "choice")
    BY <1>1, <1>9, <1>11, <1>12, <1>15, TokenSame DEF AnswersAlike
  <2>2. Onward(d, "choice", z) /\ z.p.tkpos = u.p.tkpos /\ z.p.reject = u.p.reject
    BY <1>8, <1>10, <1>15, <2>1 DEF ChoiceStep
  <2>3. Alongside(ts, u.p.tkpos, w, w2, n)
    BY <1>10, <1>15, <2>2, OnwardAlike
  <2>4. w.p.tkpos <= n
    BY <1>10, <1>15 DEF v
  <2> QED BY <2>3, <2>4 DEF Alongside
<1> HIDE DEF w, w2
<1>16. AnswersAlike(v, v2)
  BY <1>1, <1>9, <1>11, <1>12, <1>13, <1>14, <1>15, ChoiceAlike
<1> QED BY <1>16 DEF v, v2

LEMMA ComponentsAlike ==
  ASSUME NEW as, NEW os, NEW ts, NEW t, NEW n, NEW parse, NEW h, NEW c, NEW d, Paired(c, d, parse, h, as, os, ts, t, n),
         c.production \in {"sequence", "components"}, NEW required \in BOOLEAN,
         Components(c.r, required, parse).p.tkpos <= n, c.r.p.tkpos <= n
  PROVE  AnswersAlike(Components(c.r, required, parse), Components(d.r, required, h))
<1> DEFINE v  == Components(c.r, required, parse)
           v2 == Components(d.r, required, h)
           i  == c.r.p.tkpos
           b  == c.r.p.reject
           on == required \/ StartsAtom(ts, i)
           go == required \/ StartsAtom(t, i)
<1>1. /\ IsCall(c, as, os, ts) /\ AllReturned(parse, as, os, ts) /\ Agrees(ts, t, n) /\ i \in Places(ts)
      /\ Len(ts) \in Nat
  BY DEF Paired, ParsedBy, IsParse, Agrees
<1>2. IsCall(d, as, os, t) /\ AllReturned(h, as, os, t) /\ d.production \in {"sequence", "components"}
  BY DEF Paired, IsParse, CallsPair
<1>3. d.r.p.tkpos = i /\ d.r.p.reject = b
  BY DEF Paired, CallsPair
<1>4. Fine(c.r) /\ Fine(d.r)
  BY <1>1, <1>2, Fields DEF IsCall, IsParser, Fine
<1>5. i \in Nat /\ i # 0 /\ i <= n
  BY <1>1 DEF Places
<1>6. on <=> go
  BY <1>1, <1>5, TokenSame
<1>7. \E x, u : /\ Onward(c, "choice", x) /\ x.p.tkpos = i /\ x.p.reject = b
                /\ SequenceStep(c, parse, c.r, on, parse[Call("choice", x)], u, v)
  BY <1>1, ComponentsStep
<1>8. \E x, u : /\ Onward(d, "choice", x) /\ x.p.tkpos = i /\ x.p.reject = b
                /\ SequenceStep(d, h, d.r, go, h[Call("choice", x)], u, v2)
  <2>1. \E x, u : /\ Onward(d, "choice", x) /\ x.p.tkpos = d.r.p.tkpos /\ x.p.reject = d.r.p.reject
                  /\ SequenceStep(d, h, d.r, required \/ StartsAtom(t, d.r.p.tkpos), h[Call("choice", x)], u, v2)
    BY <1>2, ComponentsStep
  <2> HIDE DEF v2
  <2> QED BY <1>3, <2>1
<1> HIDE DEF v, v2, on, go
<1>9. PICK x, u : /\ Onward(c, "choice", x) /\ x.p.tkpos = i /\ x.p.reject = b
                  /\ SequenceStep(c, parse, c.r, on, parse[Call("choice", x)], u, v)
  BY <1>7
<1>10. PICK y, z : /\ Onward(d, "choice", y) /\ y.p.tkpos = i /\ y.p.reject = b
                   /\ SequenceStep(d, h, d.r, go, h[Call("choice", y)], z, v2)
  BY <1>8
<1> DEFINE a  == parse[Call("choice", x)]
           a2 == h[Call("choice", y)]
           w  == parse[Call("components", u)]
           w2 == h[Call("components", z)]
           e  == a.p.tkpos
<1>11. Alongside(ts, i, a, a2, n)
  <2>1. y.p.tkpos = x.p.tkpos /\ y.p.reject = x.p.reject /\ x.p.tkpos \in Places(ts)
    BY <1>1, <1>9, <1>10
  <2>2. Alongside(ts, x.p.tkpos, a, a2, n)
    BY <1>9, <1>10, <2>1, OnwardAlike
  <2> QED BY <1>9, <2>2
<1>12. (~on => v = c.r) /\ (on /\ ~Fine(a) => v = a) /\ (on /\ Fine(a) => v = w)
  BY <1>9 DEF SequenceStep
<1>13. (~go => v2 = d.r) /\ (go /\ ~Fine(a2) => v2 = a2) /\ (go /\ Fine(a2) => v2 = w2)
  BY <1>10 DEF SequenceStep
<1>14. on /\ Fine(a) => Onward(c, "components", u) /\ u.p.tkpos = e /\ u.p.reject = a.p.reject
  BY <1>9 DEF SequenceStep
<1>15. go /\ Fine(a2) => Onward(d, "components", z) /\ z.p.tkpos = a2.p.tkpos /\ z.p.reject = a2.p.reject
  BY <1>10 DEF SequenceStep
<1> HIDE DEF a, a2
<1>16. e \in Places(ts) /\ e \in Nat /\ (e <= n => AnswersAlike(a, a2))
  BY <1>11 DEF Alongside
<1>17. n \in Nat /\ v.p.tkpos <= n
  BY <1>1 DEF Agrees, v
<1>18. CASE ~on
  <2>1. v = c.r /\ v2 = d.r
    BY <1>6, <1>12, <1>13, <1>18
  <2>2. AnswersAlike(v, v2)
    BY <1>3, <1>4, <2>1 DEF AnswersAlike
  <2> QED BY <2>2 DEF v, v2
<1>19. CASE on /\ ~Fine(a)
  <2>1. v = a
    BY <1>12, <1>19
  <2>2. AnswersAlike(a, a2)
    BY <1>16, <1>17, <2>1
  <2>3. v2 = a2
    BY <1>6, <1>13, <1>19, <2>2 DEF AnswersAlike
  <2> QED BY <2>1, <2>2, <2>3 DEF v, v2
<1>20. CASE on /\ Fine(a)
  <2>1. v = w /\ Onward(c, "components", u) /\ u.p.tkpos = e /\ u.p.reject = a.p.reject /\ u.p.tkpos \in Places(ts)
    BY <1>12, <1>14, <1>16, <1>20
  <2>2. w.p.tkpos \in Nat /\ e <= w.p.tkpos
    <3> HIDE DEF w
    <3>1. Assumed(c, parse, as, os, ts) /\ IsSpec(ts) /\ "components" \in Productions
      BY <1>1, ParsedAssumed DEF Paired, IsCall, IsParser, Productions
    <3>2. /\ ReadsAt("components", as, os, ts, u.p.reject, u.p.tkpos, w)
          /\ FailsAt(Symbol("components"), as, os, ts, u.p.reject, u.p.tkpos, w)
      BY <1>1, <2>1, <3>1, OnwardBoth DEF w
    <3>3. w.p.tkpos \in Nat /\ u.p.tkpos <= w.p.tkpos
      BY <2>1, <3>1, <3>2, NotBack
    <3> QED BY <2>1, <3>3
  <2>3. w.p.tkpos <= n
    BY <1>17, <2>1
  <2>4. e <= n
    <3> HIDE DEF w, e
    <3> QED BY <1>16, <1>17, <2>2, <2>3
  <2>5. AnswersAlike(a, a2)
    BY <1>16, <2>4
  <2>6. Fine(a2) /\ a2.p.tkpos = e /\ a2.p.reject = a.p.reject /\ go
    BY <1>6, <1>20, <2>5 DEF AnswersAlike
  <2>7. v2 = w2 /\ Onward(d, "components", z) /\ z.p.tkpos = u.p.tkpos /\ z.p.reject = u.p.reject
    BY <1>13, <1>15, <2>1, <2>6
  <2>8. Alongside(ts, u.p.tkpos, w, w2, n)
    BY <2>1, <2>7, OnwardAlike
  <2>9. AnswersAlike(w, w2)
    BY <2>3, <2>8 DEF Alongside
  <2> QED BY <2>1, <2>7, <2>9 DEF v, v2
<1> QED BY <1>18, <1>19, <1>20

LEMMA AtomsAlike ==
  ASSUME NEW as, NEW os, NEW ts, NEW t, NEW n, NEW parse, NEW h, NEW c, NEW d, Paired(c, d, parse, h, as, os, ts, t, n),
         Atom(c.r.p, parse).p.tkpos <= n, c.r.p.tkpos <= n
  PROVE  AnswersAlike(Atom(c.r.p, parse), Atom(d.r.p, h))
<1> DEFINE p  == c.r.p
           q  == d.r.p
           v  == Atom(p, parse)
           v2 == Atom(q, h)
           a  == parse[Group(p)]
           a2 == h[Group(q)]
           i  == p.tkpos
           b  == p.reject
<1>1. /\ IsCall(c, as, os, ts) /\ AllReturned(parse, as, os, ts) /\ Agrees(ts, t, n) /\ i \in Places(ts)
      /\ Len(ts) \in Nat /\ Len(t) \in Nat
  BY DEF Paired, ParsedBy, IsParse, Agrees
<1>2. IsCall(d, as, os, t) /\ AllReturned(h, as, os, t)
  BY DEF Paired, IsParse
<1>3. q.tkpos = i /\ q.reject = b
  BY DEF Paired, CallsPair
<1>4. AtomStep(as, os, ts, b, i, a, v)
  BY <1>1, AtomStepOf
<1>5. AtomStep(as, os, t, b, i, a2, v2)
  <2>1. AtomStep(as, os, t, q.reject, q.tkpos, a2, v2)
    BY <1>2, AtomStepOf
  <2> QED BY <1>3, <2>1
<1>6. i \in Nat /\ i # 0 /\ i <= n
  BY <1>1 DEF Places
<1>7. a.p.tkpos \in Nat /\ a.p.tkpos # 0 /\ (a.p.tkpos <= n => AnswersAlike(a, a2))
  <2>1. i <= Len(ts) /\ i <= Len(t)
    BY <1>1, <1>6 DEF Agrees
  <2>2. ~Eof(p) /\ ~Eof(q)
    BY <1>1, <1>2, <1>3, <1>6, <2>1 DEF IsCall, Eof
  <2> DEFINE s == Group(p).r
             u == Group(q).r
  <2>3. /\ Onward(c, "sequence", s) /\ Group(p) = Call("sequence", s)
        /\ s.p.tkpos = i + 1 /\ s.p.reject = b /\ s.p.tkpos \in Places(ts)
    BY <1>1, <2>2, GroupOnward
  <2>4. /\ Onward(d, "sequence", u) /\ Group(q) = Call("sequence", u)
        /\ u.p.tkpos = q.tkpos + 1 /\ u.p.reject = q.reject /\ u.p.tkpos \in Places(t)
    BY <1>2, <2>2, GroupOnward
  <2> HIDE DEF s, u
  <2>5. u.p.tkpos = s.p.tkpos /\ u.p.reject = s.p.reject
    BY <1>3, <2>3, <2>4
  <2>6. Alongside(ts, s.p.tkpos, parse[Call("sequence", s)], h[Call("sequence", u)], n)
    BY <2>3, <2>4, <2>5, OnwardAlike
  <2>7. Alongside(ts, i + 1, a, a2, n)
    BY <2>3, <2>4, <2>6
  <2> HIDE DEF a, a2
  <2> QED BY <2>7 DEF Alongside, Places
<1>8. v.p.tkpos <= n
  OBVIOUS
<1> HIDE DEF p, q, v, v2, a, a2, i, b
<1>9. AnswersAlike(v, v2)
  BY <1>1, <1>4, <1>5, <1>6, <1>7, <1>8, AtomAlike
<1> QED BY <1>9 DEF p, q, v, v2

LEMMA AnswerAlike ==
  ASSUME NEW as, NEW os, NEW ts, NEW t, NEW n, NEW parse, NEW h, NEW c, NEW d, Paired(c, d, parse, h, as, os, ts, t, n),
         Answer(c, parse).p.tkpos <= n, c.r.p.tkpos <= n
  PROVE  AnswersAlike(Answer(c, parse), Answer(d, h))
<1>1. c.production \in Productions /\ d.production = c.production
  BY DEF Paired, IsCall, CallsPair
<1>2. CASE c.production = "atom"
  <2>1. Answer(c, parse) = Atom(c.r.p, parse) /\ Answer(d, h) = Atom(d.r.p, h)
    BY <1>1, <1>2 DEF Answer
  <2> QED BY <2>1, AtomsAlike
<1>3. CASE c.production = "choice"
  <2>1. Answer(c, parse) = Alternatives(c.r, parse) /\ Answer(d, h) = Alternatives(d.r, h)
    BY <1>1, <1>3 DEF Answer
  <2> QED BY <1>3, <2>1, AlternativesAlike
<1>4. CASE c.production \in {"sequence", "components"}
  <2> DEFINE V(b) == Components(c.r, b, parse)
             W(b) == Components(d.r, b, h)
  <2>1. \A b \in BOOLEAN : V(b).p.tkpos <= n => AnswersAlike(V(b), W(b))
    BY <1>4, ComponentsAlike
  <2> HIDE DEF V, W
  <2>2. (V(TRUE).p.tkpos <= n => AnswersAlike(V(TRUE), W(TRUE))) /\ (V(FALSE).p.tkpos <= n => AnswersAlike(V(FALSE), W(FALSE)))
    BY <2>1, Zenon
  <2>3. /\ c.production = "sequence" => Answer(c, parse) = V(TRUE) /\ Answer(d, h) = W(TRUE)
        /\ c.production = "components" => Answer(c, parse) = V(FALSE) /\ Answer(d, h) = W(FALSE)
    <3>1. c.production = "components" => c.production # "sequence"
      OBVIOUS
    <3> QED BY <1>1, <3>1, Zenon DEF Answer, V, W
  <2>4. CASE c.production = "sequence"
    <3>1. Answer(c, parse) = V(TRUE) /\ Answer(d, h) = W(TRUE)
      BY <2>3, <2>4, Zenon
    <3> QED BY <2>2, <3>1, Zenon
  <2>5. CASE c.production = "components"
    <3>1. Answer(c, parse) = V(FALSE) /\ Answer(d, h) = W(FALSE)
      BY <2>3, <2>5, Zenon
    <3> QED BY <2>2, <3>1, Zenon
  <2> QED BY <1>4, <2>4, <2>5
<1> QED BY <1>1, <1>2, <1>3, <1>4 DEF Productions

LEMMA ParsesParsed ==
  ASSUME NEW as, NEW os, NEW ts, Inputs(os, ts)
  PROVE  ParsedBy(Parses(as, os, ts), as, os, ts)
BY ParsesAnswer, CallsRead, CallsFail DEF ParsedBy

LEMMA CallsAlike ==
  ASSUME NEW as, NEW os, NEW ts, NEW t, NEW n, Inputs(os, ts), Inputs(os, t), Agrees(ts, t, n)
  PROVE  \A c \in Calls(as, os, ts) : CallAlike(c, Parses(as, os, ts), Parses(as, os, t), as, os, t, n)
<1> DEFINE parse == Parses(as, os, ts)
           h == Parses(as, os, t)
           S == {c \in Calls(as, os, ts) : CallAlike(c, parse, h, as, os, t, n)}
<1>1. ParsedBy(parse, as, os, ts) /\ ParsedBy(h, as, os, t)
  BY ParsesParsed
<1> HIDE DEF parse, h
<1>2. /\ \A c \in Calls(as, os, ts) : parse[c] = Answer(c, parse) /\ CallReads(c, parse) /\ CallFails(c, parse)
      /\ IsParse(h, as, os, t) /\ \A z \in Calls(as, os, t) : h[z] = Answer(z, h)
  BY <1>1 DEF ParsedBy, IsParse
<1>3. ASSUME NEW c \in Calls(as, os, ts), \A y : Below(y, c, as, os, ts) => y \in S PROVE c \in S
  <2>1. IsCall(c, as, os, ts)
    BY CallIs
  <2>2. c.r.p.args = as /\ c.r.p.options = os /\ c.r.p.tokens = ts /\ IsSpec(ts) /\ c.production \in Productions
    BY <2>1 DEF IsCall, Inputs
  <2>3. ASSUME c.r.p.tkpos \in Places(ts), parse[c].p.tkpos <= n, NEW z \in Calls(as, os, t), CallsPair(c, z)
        PROVE  AnswersAlike(parse[c], h[z])
    <3>1. IsCall(z, as, os, t)
      BY CallIs
    <3> DEFINE b == c.r.p.reject
               i == c.r.p.tkpos
               m == parse[c].p.tkpos
    <3>2. ReadsAt(c.production, as, os, ts, b, i, parse[c]) /\ FailsAt(Symbol(c.production), as, os, ts, b, i, parse[c])
      BY <1>2, <2>2, <2>3, ReadsIs DEF CallReads, CallFails
    <3>3. i \in Places(ts)
      BY <2>3
    <3>4. m \in Nat /\ i \in Nat /\ i <= m
      <4> HIDE DEF b, i
      <4> QED BY <2>2, <3>2, <3>3, NotBack
    <3>5. i <= n
      <4>1. n \in Nat /\ m <= n
        BY <2>3 DEF Agrees
      <4> HIDE DEF i, m
      <4> QED BY <3>4, <4>1
    <3>6. Paired(c, z, parse, h, as, os, ts, t, n)
      BY <1>1, <1>2, <1>3, <2>1, <2>3, <3>1 DEF Paired
    <3>7. parse[c] = Answer(c, parse) /\ h[z] = Answer(z, h)
      BY <1>2
    <3>8. Answer(c, parse).p.tkpos <= n
      BY <2>3, <3>7
    <3> QED BY <3>5, <3>6, <3>7, <3>8, AnswerAlike
  <2>4. CallAlike(c, parse, h, as, os, t, n)
    BY <2>2, <2>3 DEF CallAlike
  <2> QED BY <2>4
<1> HIDE DEF S
<1>4. Calls(as, os, ts) \subseteq S
  BY <1>3, CallInduction
<1> QED BY <1>4 DEF S, parse, h

(***************************************************************************)
(* The error of a parse.                                                   *)
(***************************************************************************)
\* The answer to the first call.
FinalAnswer(as, os, ts) == Parses(as, os, ts)[First(as, os, ts)]

Erred(g) == g.err # ""
ErrsAt(g, r, ts) ==
  /\ r.p.tkpos \in Places(ts) /\ r.p.tkpos \in Nat /\ g.pos = r.p.tkpos
  /\ Erred(g) <=> ~Fine(r) \/ r.p.tkpos <= Len(ts)

LEMMA ParseErrs ==
  ASSUME NEW as, NEW os, NEW ts, Inputs(os, ts)
  PROVE  /\ ErrsAt(UParse(as, os, ts), FinalAnswer(as, os, ts), ts)
         /\ ReadsAt("components", as, os, ts, FALSE, 1, FinalAnswer(as, os, ts))
         /\ FailsAt("sequence", as, os, ts, FALSE, 1, FinalAnswer(as, os, ts))
<1> DEFINE c == First(as, os, ts)
           parse == Parses(as, os, ts)
           r == parse[c]
           g == UParse(as, os, ts)
           p == c.r.p
<1>1. c \in Calls(as, os, ts) /\ c.production = "components" /\ AtStart(p, as, os, ts)
  BY FirstIs
<1>2. p.args = as /\ p.options = os /\ p.tokens = ts /\ p.tkpos = 1 /\ p.reject = FALSE
  <2> HIDE DEF p
  <2> QED BY <1>1, Fields DEF AtStart
<1>3. IsSpec(ts) /\ Len(ts) \in Nat /\ 1 \in Places(ts)
  BY LenProperties DEF Inputs, IsSpec, Places
<1>4. ParsedBy(parse, as, os, ts)
  BY ParsesParsed
<1>5. g = Result(Whole(r))
  BY DEF UParse, First
<1>6. Results(g, r, c)
  BY ParsedIs
<1> HIDE DEF c, parse
<1>7. CallReads(c, parse) /\ CallFails(c, parse) /\ Returned(c, r)
  BY <1>1, <1>4 DEF ParsedBy, IsParse, AllReturned
<1>8. r \in AnyPieces(as, os, ts)
  BY <1>2, <1>7 DEF Returned
<1> HIDE DEF r, g
<1>9. ReadsSymbol("components", p, r) /\ FailsAt(Symbol("components"), as, os, ts, FALSE, 1, r)
  BY <1>1, <1>2, <1>3, <1>7 DEF CallReads, CallFails, r
<1>10. ReadsAt("components", as, os, ts, FALSE, 1, r) /\ FailsAt("sequence", as, os, ts, FALSE, 1, r)
  <2>1. ReadsAt("components", p.args, p.options, p.tokens, p.reject, p.tkpos, r)
    <3> HIDE DEF p
    <3> QED BY <1>9, ReadsIs
  <2>2. Symbol("components") = "sequence"
    BY DEF Symbol
  <2> QED BY <1>2, <1>9, <2>1, <2>2
<1>11. r.p.tkpos \in Places(ts) /\ r.p.tkpos \in Nat
  <2>1. "components" \in Productions /\ Symbol("components") = "sequence"
    BY DEF Productions, Symbol
  <2> QED BY <1>3, <1>10, <2>1, NotBack
<1>12. g.pos = r.p.tkpos
  <2>1. r = [p |-> r.p, start |-> r.start, end |-> r.end] /\ r.p \in AnyParsers(as, os, ts)
    BY <1>8 DEF AnyPieces
  <2>2. Fail(r.p, "Unexpected input").tkpos = r.p.tkpos
    BY <2>1 DEF Fail, AnyParsers
  <2>3. Whole(r).p.tkpos = r.p.tkpos
    BY <2>1, <2>2 DEF Whole
  <2> QED BY <1>5, <2>3 DEF Result
<1>13. r.p.tokens = ts
  BY <1>8 DEF AnyPieces, AnyParsers
<1>14. Erred(g) <=> ~Fine(r) \/ r.p.tkpos <= Len(ts)
  <2>1. ~Erred(g) <=> Fine(r) /\ Eof(r.p)
    BY <1>6 DEF Results, Fine, Erred
  <2>2. Eof(r.p) <=> ~(r.p.tkpos <= Len(ts))
    BY <1>3, <1>11, <1>13 DEF Eof
  <2> QED BY <2>1, <2>2, Zenon
<1> QED BY <1>10, <1>11, <1>12, <1>14 DEF ErrsAt, FinalAnswer, c, parse, r, g

LEMMA ValidIs ==
  ASSUME NEW as, NEW os, NEW t, Len(t) \in Nat, DOMAIN t = 1 .. Len(t)
  PROVE  Valid(as, os, t) <=> /\ 1 = Len(t) + 1 \/ Derives(t, "sequence", 1, Len(t) + 1)
                              /\ Legal(as, os, t, FALSE, 1, Len(t) + 1)
<1>1. 1 \in Places(t) /\ Len(t) + 1 \in Places(t)
  BY DEF Places
<1>2. Derives(t, "spec", 1, Len(t) + 1) <=> 1 = Len(t) + 1 \/ Derives(t, "sequence", 1, Len(t) + 1)
  BY <1>1, Rules
<1> DEFINE b == FALSE
<1>3. ~b
  OBVIOUS
<1> HIDE DEF b
<1>4. Legal(as, os, t, b, 1, Len(t) + 1) <=> NamesDeclared(as, os, t) /\ NoOptionsAfterDashes(t)
  BY <1>3, LegalAll
<1> QED BY <1>2, <1>4 DEF Valid, b

\* What is completed is a spec.
LEMMA CompletedSpec ==
  ASSUME NEW os, NEW s, Inputs(os, s), NEW e \in Places(s), NEW f \in Fillers
  PROVE  Inputs(os, CompletedAt(s, e, f))
<1> DEFINE d == [typ |-> "dblDash", val |-> "--"]
           q == Pending(s)[e - 1]
           u == UpTo(s, e)
           t == CompletedAt(s, e, f)
           U == ToSet(s) \cup {d} \cup Closers
<1>1. IsSpec(s) /\ s \in Seq(U) /\ Len(s) \in Nat /\ os \in Seq(ToSet(os))
  BY LenProperties DEF Inputs, IsSpec
<1>2. e - 1 \in Nat /\ e - 1 <= Len(s)
  BY <1>1 DEF Places
<1>3. f \in Seq(U)
  BY FillerIs
<1>4. q \in Seq(U)
  <2>1. q \in Seq(Closers)
    BY <1>2, PendingIs
  <2> HIDE DEF q
  <2> QED BY <2>1
<1>5. \A x \in U : x.typ = "optSeq" => x.val \in Seq(ToSet(x.val))
  <2>1. \A x \in {d} \cup Closers : x.typ # "optSeq"
    BY DEF Closers
  <2> QED BY <1>1, <2>1 DEF IsSpec
<1> HIDE DEF U, q
<1>6. u \in Seq(U) /\ Len(u) = e - 1
  BY <1>1, <1>2 DEF UpTo
<1>7. t = u \o f \o q
  <2>1. Agrees(u, s, e - 1)
    <3>1. \A l \in 1 .. e - 1 : u[l] = s[l]
      BY <1>1, <1>2 DEF UpTo
    <3> QED BY <1>1, <1>2, <1>6, <3>1 DEF Agrees
  <2>2. Pending(u)[Len(u)] = q
    <3>1. e - 1 \in 0 .. e - 1
      BY <1>2
    <3> QED BY <1>6, <2>1, <3>1, PendingSame DEF q
  <2> QED BY <2>2 DEF CompletedAt, Completed
<1> HIDE DEF u, t
<1>8. t \in Seq(U)
  BY <1>3, <1>4, <1>6, <1>7
<1>9. t \in Seq(ToSet(t)) /\ ToSet(t) \subseteq U
  BY <1>8, LenProperties DEF ToSet
<1>10. IsSpec(t)
  BY <1>5, <1>9 DEF IsSpec
<1> QED BY <1>1, <1>10 DEF Inputs, t

\* All the tokens of what is completed from the first place.
LEMMA WholeCompleted ==
  ASSUME NEW as, NEW os, NEW s, Inputs(os, s), NEW e \in Places(s), NEW f \in Fillers,
         CompletesAt("sequence", as, os, s, FALSE, 1, e, f)
  PROVE  Valid(as, os, CompletedAt(s, e, f))
<1> DEFINE t == CompletedAt(s, e, f)
           q == Pending(s)[e - 1]
<1>1. IsSpec(s) /\ Len(s) \in Nat /\ e \in Nat /\ e - 1 \in Nat
  BY LenProperties DEF Inputs, IsSpec, Places
<1>2. CompletedIs(s, e, f, t)
  BY <1>1, Completing
<1>3. Len(f) \in Nat
  BY FillerIs
<1>4. Len(q) \in Nat /\ Pending(s)[0] = <<>>
  <2>1. q \in Seq(Closers) /\ Pending(s)[0] = <<>>
    BY <1>1, PendingIs
  <2> HIDE DEF q
  <2> QED BY <2>1
<1>5. t \in Seq(ToSet(t))
  BY CompletedSpec DEF Inputs, IsSpec
<1> DEFINE a == Pending(s)[1 - 1]
<1>6. Len(a) = 0
  BY <1>4
<1>7. Ending(s, 1, e, f) = (e + Len(f)) + (Len(q) - Len(a)) /\ Len(t) = (e - 1) + Len(f) + Len(q)
  BY <1>2 DEF Ending, CompletedIs
<1>8. Derives(t, "sequence", 1, Ending(s, 1, e, f)) /\ Legal(as, os, t, FALSE, 1, Ending(s, 1, e, f))
  BY DEF CompletesAt
<1> HIDE DEF t, q, a
<1>9. Len(t) \in Nat /\ DOMAIN t = 1 .. Len(t) /\ Ending(s, 1, e, f) = Len(t) + 1
  BY <1>1, <1>3, <1>4, <1>5, <1>6, <1>7, LenProperties
<1>10. Valid(as, os, t)
  BY <1>8, <1>9, ValidIs
<1> QED BY <1>10 DEF t

\* The error of a parse is at the first token that no spec of the grammar can have there: what comes
\* before it can be completed to a spec, with closing brackets and at most one element, and no spec
\* begins like the tokens up to it. So the user is shown the place of the mistake and neither a token
\* behind it nor one of an outer group (uParse and back, spec_parser.go).
THEOREM ErrorsAtFirstBadToken ==
  ASSUME NEW as, NEW os, NEW ts, Inputs(os, ts), Erred(UParse(as, os, ts))
  PROVE  LET e == UParse(as, os, ts).pos
         IN  /\ e \in Places(ts)
             /\ Viable(as, os, SubSeq(ts, 1, e - 1))
             /\ \A t : Inputs(os, t) /\ e <= Len(ts) /\ Agrees(ts, t, e) => ~Valid(as, os, t)
<1> DEFINE g == UParse(as, os, ts)
           r == FinalAnswer(as, os, ts)
           e == g.pos
<1>1. /\ ErrsAt(g, r, ts)
      /\ ReadsAt("components", as, os, ts, FALSE, 1, r) /\ FailsAt("sequence", as, os, ts, FALSE, 1, r)
  BY ParseErrs
<1>2. Erred(g) /\ IsSpec(ts) /\ Len(ts) \in Nat
  BY LenProperties DEF Inputs, IsSpec
<1> HIDE DEF g, r
<1>3. e \in Places(ts) /\ e \in Nat /\ r.p.tkpos = e /\ (~Fine(r) \/ e <= Len(ts))
  BY <1>1, <1>2 DEF ErrsAt
<1>4. Viable(as, os, UpTo(ts, e))
  <2>1. CASE ~Fine(r)
    <3>1. PICK f \in Fillers : CompletesAt("sequence", as, os, ts, FALSE, 1, e, f)
      BY <1>1, <1>3, <2>1 DEF FailsAt
    <3>2. Valid(as, os, CompletedAt(ts, e, f))
      BY <1>3, <3>1, WholeCompleted
    <3> QED BY <3>2 DEF Viable, CompletedAt
  <2>2. CASE Fine(r)
    <3>1. Read(ts, "components", 1, e) /\ Legal(as, os, ts, FALSE, 1, e)
      BY <1>1, <1>3, <2>2 DEF ReadsAt, ReadsFine
    <3>2. <<>> \in Fillers /\ 1 \in Places(ts) /\ 1 <= e
      BY <1>2, <1>3 DEF Fillers, Places
    <3>3. CASE e = 1
      <4> DEFINE t == CompletedAt(ts, 1, <<>>)
      <4>1. CompletedIs(ts, 1, <<>>, t)
        BY <1>2, <3>2, Completing
      <4>2. Len(t) = 0
        BY <4>1, PendingIs DEF CompletedIs
      <4>3. t \in Seq(ToSet(t))
        BY <3>2, CompletedSpec DEF Inputs, IsSpec
      <4> HIDE DEF t
      <4>4. DOMAIN t = 1 .. Len(t)
        BY <4>3, LenProperties
      <4>5. Legal(as, os, t, FALSE, 1, Len(t) + 1)
        BY <4>2 DEF Legal
      <4>6. Valid(as, os, t)
        <5>1. Len(t) \in Nat /\ 1 = Len(t) + 1
          BY <4>2
        <5> QED BY <4>4, <4>5, <5>1, ValidIs
      <4> QED BY <3>2, <3>3, <4>6 DEF Viable, CompletedAt, t
    <3>4. CASE e # 1
      <4>1. Derives(ts, "sequence", 1, e)
        BY <3>1, <3>4 DEF Read
      <4>2. CompletesAt("sequence", as, os, ts, FALSE, 1, e, <<>>)
        BY <1>2, <1>3, <3>1, <3>2, <4>1, FineCompletes DEF Symbols
      <4>3. Valid(as, os, CompletedAt(ts, e, <<>>))
        BY <1>3, <3>2, <4>2, WholeCompleted
      <4> QED BY <3>2, <4>3 DEF Viable, CompletedAt
    <3> QED BY <3>3, <3>4
  <2> QED BY <2>1, <2>2
<1>5. ASSUME NEW t, Inputs(os, t), e <= Len(ts), Agrees(ts, t, e) PROVE ~Valid(as, os, t)
  <2> DEFINE c == First(as, os, ts)
             z == First(as, os, t)
             q == FinalAnswer(as, os, t)
  <2>1. AnswersAlike(r, q)
    <3>1. /\ c \in Calls(as, os, ts) /\ c.production = "components" /\ AtStart(c.r.p, as, os, ts)
          /\ z \in Calls(as, os, t) /\ z.production = "components" /\ AtStart(z.r.p, as, os, t)
      BY <1>5, FirstIs
    <3> HIDE DEF c, z
    <3>2. c.r.p.tkpos = 1 /\ c.r.p.tokens = ts /\ c.r.p.reject = FALSE /\ z.r.p.tkpos = 1 /\ z.r.p.reject = FALSE
      BY <3>1, Fields DEF AtStart
    <3>3. CallsPair(c, z) /\ c.r.p.tkpos \in Places(c.r.p.tokens)
      <4>1. 1 \in Places(ts)
        BY <1>2 DEF Places
      <4>2. CallsPair(c, z)
        BY <3>1, <3>2, Zenon DEF CallsPair
      <4> QED BY <3>2, <4>1, <4>2, Zenon
    <3> DEFINE parse == Parses(as, os, ts)
               h == Parses(as, os, t)
    <3>4. CallAlike(c, parse, h, as, os, t, e)
      BY <1>5, <3>1, CallsAlike
    <3>5. parse[c].p.tkpos = e /\ parse[c] = r /\ h[z] = q
      BY <1>3 DEF FinalAnswer, c, z, r
    <3> HIDE DEF parse, h, q
    <3>6. parse[c].p.tkpos <= e
      BY <1>3, <3>5
    <3> QED BY <3>1, <3>3, <3>4, <3>5, <3>6 DEF CallAlike
  <2>2. ErrsAt(UParse(as, os, t), q, t)
    BY <1>5, ParseErrs
  <2> HIDE DEF q
  <2>3. ~Fine(q) \/ q.p.tkpos <= Len(t)
    <3>1. e <= Len(t)
      BY <1>5 DEF Agrees
    <3> QED BY <1>3, <2>1, <3>1 DEF AnswersAlike
  <2>4. Erred(UParse(as, os, t))
    BY <2>2, <2>3 DEF ErrsAt
  <2> QED BY <1>5, <2>4, AcceptsTheGrammar DEF Erred
<1>6. UpTo(ts, e) = SubSeq(ts, 1, e - 1)
  BY DEF UpTo
<1> QED BY <1>3, <1>4, <1>5, <1>6 DEF g

LEMMA FirstBadToken ==
  ASSUME NEW as, NEW os, NEW ts, Inputs(os, ts), Erred(UParse(as, os, ts)), UParse(as, os, ts).pos <= Len(ts)
  PROVE  ~Viable(as, os, SubSeq(ts, 1, UParse(as, os, ts).pos))
<1> DEFINE n == UParse(as, os, ts).pos
           e == n + 1
<1>1. n \in Places(ts) /\ \A t : Inputs(os, t) /\ n <= Len(ts) /\ Agrees(ts, t, n) => ~Valid(as, os, t)
  BY ErrorsAtFirstBadToken
<1>2. IsSpec(ts) /\ Len(ts) \in Nat
  BY LenProperties DEF Inputs, IsSpec
<1>3. n <= Len(ts)
  OBVIOUS
<1> HIDE DEF n
<1>4. n \in Nat /\ e \in Places(ts) /\ e - 1 = n
  BY <1>1, <1>2, <1>3 DEF Places
<1>5. ASSUME NEW f \in Fillers PROVE ~Valid(as, os, CompletedAt(ts, e, f))
  <2>1. Inputs(os, CompletedAt(ts, e, f))
    BY <1>4, CompletedSpec
  <2>2. Agrees(ts, CompletedAt(ts, e, f), e - 1)
    <3>1. CompletedIs(ts, e, f, CompletedAt(ts, e, f))
      BY <1>2, <1>4, Completing
    <3> QED BY <3>1 DEF CompletedIs
  <2> QED BY <1>1, <1>3, <1>4, <2>1, <2>2
<1>6. UpTo(ts, e) = SubSeq(ts, 1, n)
  BY <1>4 DEF UpTo
<1>7. ~Viable(as, os, SubSeq(ts, 1, n))
  BY <1>5, <1>6 DEF Viable, CompletedAt
<1> QED BY <1>7 DEF n

\* So it is for the specs written one token at a time.
THEOREM ErrorsPinpointed == Writing => []ErrorAtFirstBadToken
<1>1. OfTokens => ErrorAtFirstBadToken
  <2> SUFFICES ASSUME OfTokens, Erred(UParse(Args, Options, written))
               PROVE  LET e == UParse(Args, Options, written).pos
                      IN  /\ Viable(Args, Options, SubSeq(written, 1, e - 1))
                          /\ e <= Len(written) => ~Viable(Args, Options, SubSeq(written, 1, e))
    BY DEF ErrorAtFirstBadToken, Erred
  <2>1. Inputs(Options, written)
    BY SpecWritten DEF OfTokens
  <2> QED BY <2>1, ErrorsAtFirstBadToken, FirstBadToken
<1> QED BY <1>1, Written, PTL
=============================================================================
