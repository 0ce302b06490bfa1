------------------------------- MODULE Writing -------------------------------
(***************************************************************************)
(* A spec that is written one token at a time: what the parser makes of it *)
(* at any moment, against the grammar.                                     *)
(***************************************************************************)
EXTENDS SpecGrammar

CONSTANTS
  Args,        \* the declared arguments
  Options,     \* the declared options, a sequence
  Alphabet,    \* the tokens
  MaxTokens,   \* bound on the tokens of a spec
  MaxMatchers  \* bound on the words compared

\* The declared options are in a slice, and so are those of a token like `-ab`.
ASSUME TokensAssumption ==
  /\ Options \in Seq(ToSet(Options))
  /\ \A t \in Alphabet : t.typ = "optSeq" => t.val \in Seq(ToSet(t.val))

\* A word of no matcher is too short to tell the elements of a spec apart.
ASSUME WordsAssumption == MaxMatchers \in Nat \ {0}

VARIABLE written

\* A spec is not continued once the parser has stopped at one of its tokens.
Open == /\ Len(written) < MaxTokens
        /\ LET g == UParse(Args, Options, written) IN g.err # "" => g.pos > Len(written)

Unwritten == written = <<>>
Write(t) == Open /\ written' = Append(written, t)
Done     == ~Open /\ UNCHANGED written
WriteOn  == Done \/ \E t \in Alphabet : Write(t)
Writing  == Unwritten /\ [][WriteOn]_written

(***************************************************************************)
(* Properties.                                                             *)
(***************************************************************************)

\* The parser accepts exactly the specs of the documented grammar whose names
\* are declared and that have no option after a `--`.
AcceptsGrammar == (UParse(Args, Options, written).err = "") <=> Valid(Args, Options, written)

\* The automaton built for a spec accepts exactly the sequences of elements the
\* spec stands for: sequences, choices, options and repetitions nest as written.
BuildsMeaning ==
  Valid(Args, Options, written) =>
    LET g == UParse(Args, Options, written)
    IN  Words(g, MaxMatchers, g.start) = Means(Options, written, MaxMatchers, "spec", 1, Len(written) + 1)

\* A parse error points at the first token no valid spec can go on with.
ErrorAtFirstBadToken ==
  LET g == UParse(Args, Options, written)
  IN  g.err # "" => /\ Viable(Args, Options, SubSeq(written, 1, g.pos - 1))
                    /\ g.pos <= Len(written) => ~Viable(Args, Options, SubSeq(written, 1, g.pos))
=============================================================================
