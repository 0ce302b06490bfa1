------------------------------ MODULE Tokenizer ------------------------------
(***************************************************************************)
(* How a spec string is cut into tokens (spec_tk.go, uTokenize): one step  *)
(* per iteration of its loop.  A string is a sequence of characters, a     *)
(* position the number of characters before it, as in Go.                  *)
(***************************************************************************)
EXTENDS Integers, Sequences, SequencesExt

CONSTANTS
  Upper, Lower, Digits,   \* the classes of characters the source asks for
  Space, Tab,             \* the blanks
  OptionsWord             \* the word OPTIONS

VARIABLES
  usage,    \* the spec string
  pos,      \* where the loop stands, or the position of the error
  tokens,   \* the tokens so far, each with its position
  cut       \* idle, cutting, or what uTokenize answers: ok or error

vars == <<usage, pos, tokens, cut>>

Blanks  == {Space, Tab}
Punctuation == [c \in {"[", "]", "(", ")", "|"} |->
  CASE c = "[" -> "openSq" [] c = "]" -> "closeSq" [] c = "(" -> "openPar" [] c = ")" -> "closePar" [] OTHER -> "choice"]

Letters          == Upper \cup Lower
OkPos            == Upper \cup Digits \cup {"_"}
OkLongOpt(first) == Letters \cup Digits \cup {"_"} \cup (IF first THEN {} ELSE {"-"})

Eof(p)      == p >= Len(usage)
Sees(p, C)  == ~Eof(p) /\ usage[p + 1] \in C
Text(p, q)  == SubSeq(usage, p + 1, q)

\* The end of the run of characters of C from p on.
EndOf(p, C) ==
  LET i == SelectInSeq(Text(p, Len(usage)), LAMBDA c : c \notin C)
  IN  IF i = 0 THEN Len(usage) ELSE p + i - 1

Token(typ, p, q) == [typ |-> typ, val |-> Text(p, q), pos |-> p]

Start ==
  /\ pos' = 0 /\ tokens' = <<>> /\ cut' = "cutting"

\* A token, and on at q; or no token; or an error at q.
Take(token, q) == tokens' = Append(tokens, token) /\ pos' = q /\ UNCHANGED <<usage, cut>>
Skip(q)        == pos' = q /\ UNCHANGED <<usage, tokens, cut>>
Stop(q)        == pos' = q /\ tokens' = <<>> /\ cut' = "error" /\ UNCHANGED usage

At(C) == cut = "cutting" /\ Sees(pos, C)

Blank == At(Blanks) /\ Skip(pos + 1)

Bracket == At(DOMAIN Punctuation) /\ Take(Token(Punctuation[usage[pos + 1]], pos, pos + 1), pos + 1)

Dots_AtStart ==
  /\ At({"."})
  /\ IF Sees(pos + 1, {"."}) /\ Sees(pos + 2, {"."}) THEN Take(Token("rep", pos, pos + 3), pos + 3) ELSE Stop(pos)

\* `...`, or an error at the first dot that is missing.
Dots ==
  /\ At({"."})
  /\ IF ~Sees(pos + 1, {"."}) THEN Stop(pos + 1)
     ELSE IF ~Sees(pos + 2, {"."}) THEN Stop(pos + 2)
     ELSE Take(Token("rep", pos, pos + 3), pos + 3)

ShortOpts_OffByOne ==
  /\ At({"-"}) /\ Sees(pos + 1, Letters)
  /\ LET end == EndOf(pos + 1, Letters)
     IN  IF Sees(end, {"-"}) THEN Stop(end)
         ELSE Take(IF end - pos > 3 THEN Token("optSeq", pos + 1, end) ELSE Token("shortOpt", pos, end), end)

\* `-a` or `-abc`; the dash of the latter is not part of its token.  No dash may
\* follow.
ShortOpts ==
  /\ At({"-"}) /\ Sees(pos + 1, Letters)
  /\ LET end == EndOf(pos + 1, Letters)
     IN  IF Sees(end, {"-"}) THEN Stop(end)
         ELSE Take(IF end - pos > 2 THEN Token("optSeq", pos + 1, end) ELSE Token("shortOpt", pos, end), end)

\* A name after two dashes, or `--`.
LongOpt ==
  /\ At({"-"}) /\ Sees(pos + 1, {"-"})
  /\ IF Eof(pos + 2) \/ Sees(pos + 2, {Space}) THEN Take(Token("dblDash", pos, pos + 2), pos + 2)
     ELSE IF usage[pos + 3] \notin OkLongOpt(TRUE) THEN Stop(pos + 2)
     ELSE LET end == EndOf(pos + 2, OkLongOpt(FALSE))
          IN  Take(Token("longOpt", pos, end), end)

\* A dash before the end is an error; before anything else it is dropped, as the
\* switch has no default.
LoneDash_Stays ==
  /\ At({"-"}) /\ ~Sees(pos + 1, Letters \cup {"-"})
  /\ IF Eof(pos + 1) THEN Stop(pos + 1) ELSE Skip(pos)

LoneDash ==
  /\ At({"-"}) /\ ~Sees(pos + 1, Letters \cup {"-"})
  /\ IF Eof(pos + 1) THEN Stop(pos + 1) ELSE Skip(pos + 1)

\* `=<text>`, the text not empty.
OptValue ==
  /\ At({"="})
  /\ IF ~Sees(pos + 1, {"<"}) THEN Stop(pos + 1)
     ELSE LET close == EndOf(pos + 1, ToSet(usage) \ {">"})
          IN  IF Eof(close) \/ close - pos = 2 THEN Stop(close)
              ELSE Take(Token("optValue", pos, close + 1), close + 1)

\* The name of an argument, or the keyword.
Name ==
  /\ At(Upper)
  /\ LET end == EndOf(pos + 1, OkPos)
     IN  Take(Token(IF Text(pos, end) = OptionsWord THEN "options" ELSE "pos", pos, end), end)

Unexpected ==
  /\ cut = "cutting" /\ ~Eof(pos)
  /\ usage[pos + 1] \notin Blanks \cup DOMAIN Punctuation \cup {".", "-", "="} \cup Upper
  /\ Stop(pos)

Return == cut = "cutting" /\ Eof(pos) /\ cut' = "ok" /\ UNCHANGED <<usage, pos, tokens>>

Next ==
  \/ Blank \/ Bracket \/ Dots
  \/ ShortOpts \/ LongOpt \/ LoneDash
  \/ OptValue \/ Name \/ Unexpected
  \/ Return

(***************************************************************************)
(* Properties.                                                             *)
(***************************************************************************)

(***************************************************************************)
(* The reference: the lexemes of the grammar in README "Grammar" (with     *)
(* arguments, option values, and the names of options the tests allow),    *)
(* each as the set of types a piece of text has, and the ways to cut a     *)
(* text into longest lexemes, with nothing but blanks between them.        *)
(*                                                                         *)
(* The tokenizer departs from it in two ways, which the properties name:   *)
(* it leaves out a dash that starts no lexeme (LoneDashes), and is         *)
(* stricter on what may follow a `--` or short options (Stricter).         *)
(***************************************************************************)
\* The types of tokens.
TokenTypes == Range(Punctuation) \cup
  {"rep", "shortOpt", "optSeq", "longOpt", "dblDash", "optValue", "pos", "options"}

AllFrom(s, i, C) == \A k \in i .. Len(s) : s[k] \in C
Dashless == Upper \cup Lower \cup Digits \cup {"_"}

\* Is the text s, which is not empty, of the type typ?
IsOf(typ, s) ==
  LET n == Len(s)
  IN  \/ typ \in Range(Punctuation) /\ n = 1 /\ s[1] \in DOMAIN Punctuation /\ Punctuation[s[1]] = typ
      \/ typ = "rep"      /\ n = 3 /\ AllFrom(s, 1, {"."})
      \/ typ = "shortOpt" /\ n = 2 /\ s[1] = "-" /\ s[2] \in Letters
      \/ typ = "optSeq"   /\ n > 2 /\ s[1] = "-" /\ AllFrom(s, 2, Letters)
      \/ typ = "dblDash"  /\ n = 2 /\ AllFrom(s, 1, {"-"})
      \/ typ = "longOpt"  /\ n > 2 /\ s[1] = "-" /\ s[2] = "-" /\ s[3] \in Dashless /\ AllFrom(s, 3, Dashless \cup {"-"})
      \/ typ = "optValue" /\ n > 3 /\ s[1] = "=" /\ s[2] = "<" /\ {i \in 1 .. n : s[i] = ">"} = {n}
      \/ typ = "options"  /\ s = OptionsWord
      \/ typ = "pos"      /\ s # OptionsWord /\ s[1] \in Upper /\ AllFrom(s, 2, Upper \cup Digits \cup {"_"})

Types(s) == {typ \in TokenTypes : s # <<>> /\ IsOf(typ, s)}

\* The lexemes of the text s that may come next at i: the longest piece that is one.
Spans(s, i) == {j \in i + 1 .. Len(s) : Types(SubSeq(s, i + 1, j)) # {}}
Lexeme(typ, i, j) == [typ |-> typ, from |-> i, to |-> j]
Ahead(s, i) ==
  UNION {{Lexeme(typ, i, j) : typ \in Types(SubSeq(s, i + 1, j))} :
         j \in {k \in Spans(s, i) : \A l \in Spans(s, i) : l <= k}}

\* The ways to cut the text s from each place on, when nothing but blanks and the
\* characters at the places D stands between lexemes: sequences of lexemes with
\* their types and positions.
Cuttings(s, D) ==
  LET from[i \in 0 .. Len(s)] ==
        IF i = Len(s) THEN {<<>>}
        ELSE (IF s[i + 1] \in Blanks \/ i + 1 \in D THEN from[i + 1] ELSE {})
             \cup UNION {{<<x>> \o r : r \in from[x.to]} : x \in Ahead(s, i)}
  IN  from

Cuts(s, D) == Cuttings(s, D)[0]

\* The dashes that start no lexeme, and are not the last character.
LoneDashes(s) == {i \in 1 .. Len(s) - 1 : s[i] = "-" /\ s[i + 1] \notin Letters \cup {"-"}}

\* The ways to cut a text as the tokenizer does, leaving out lone dashes.
LooseCuts(s) == Cuts(s, LoneDashes(s))

\* The text s has at p, behind a `--`, something else than a space, or a dash behind
\* short options.  The grammar asks for no such thing: it has `[--]` and `-a-b`.
Stricter(s, p) ==
  /\ p < Len(s)
  /\ \E i \in 0 .. p - 1 : \E x \in Ahead(s, i) :
       /\ LooseCuts(SubSeq(s, 1, i)) # {} /\ x.to = p
       /\ \/ x.typ = "dblDash" /\ s[p + 1] # Space
          \/ x.typ \in {"shortOpt", "optSeq"} /\ s[p + 1] = "-"

\* A text can go on when one of these ends completes it.
Ends(C) == {<<>>, <<".">>, <<".", ".">>, <<">">>} \cup UNION {{<<c>>, <<c, ">">>, <<"<", c, ">">>} : c \in C}
Viable(s) == \E c \in Lower : \E e \in Ends({c}) : LooseCuts(s \o e) # {}

\* The lexemes of the tokens.
LexemeOf(t) ==
  LET dash == IF t.typ = "optSeq" THEN 1 ELSE 0
  IN  Lexeme(t.typ, t.pos - dash, t.pos + Len(t.val))
Lexemes(ts) == [i \in DOMAIN ts |-> LexemeOf(ts[i])]

\* The lone dashes that are in none of the tokens.
LeftOut == {i \in LoneDashes(usage) : \A k \in DOMAIN tokens : ~(Lexemes(tokens)[k].from < i /\ i <= Lexemes(tokens)[k].to)}

\* The tokens are the lexemes of the grammar, the longest at every point, in the
\* order they have in the text.  A text the grammar has no lexemes for is cut only
\* by leaving out lone dashes (spec_tk.go:115 has no default).
CutsIntoLexemes ==
  cut = "ok" =>
    /\ LooseCuts(usage) = {Lexemes(tokens)}
    /\ Cuts(usage, {}) = IF LeftOut = {} THEN {Lexemes(tokens)} ELSE {}

\* A text is refused at the first character with which it can not go on, or at its
\* end if more was to come; and only if it cannot be cut, but where the tokenizer
\* is stricter than the grammar.
ErrorAtFirstBadCharacter ==
  cut = "error" =>
    /\ Viable(Text(0, pos))
    /\ \/ Stricter(usage, pos)
       \/ LooseCuts(usage) = {} /\ (pos < Len(usage) => ~Viable(Text(0, pos + 1)))
=============================================================================
