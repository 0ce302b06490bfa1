---------------------------- MODULE CommandLine ----------------------------
(***************************************************************************)
(* What a command line says by itself, whatever the spec: the reference    *)
(* reading of README "Options" and "Operators", from left to right, to     *)
(* compare with what the automaton binds.                                  *)
(***************************************************************************)
EXTENDS Matchers, FiniteSets

CONSTANT Positional    \* a key for the values of all the arguments, in order

\* What the option is that a letter or a long name stands for; None if it is none.
None         == ""
Letter(c)    == IF c \in DOMAIN ShortNames THEN ShortNames[c] ELSE None
LongName(n)  == IF n \in DOMAIN LongNames THEN LongNames[n] ELSE None
IsFlag(o)    == o \in Bools

\* The letters of a cluster: flags until a value begins.  A cluster ends with an
\* option that waits for its value in the next argument iff `waits` names it.
Letters(cs) ==
  LET read[j \in Nat] ==
        IF j > Len(cs) THEN [got |-> <<>>, waits |-> None]
        ELSE LET o    == Letter(cs[j])
                 rest == SubSeq(cs, j + 1, Len(cs))
                 tail == read[j + 1]
             IN  IF rest # <<>> /\ rest[1] = "=" THEN [got |-> <<Binding(o, Word(Tail(rest)))>>, waits |-> None]
                 ELSE IF IsFlag(o) THEN [tail EXCEPT !.got = <<Binding(o, True)>> \o @]
                 ELSE IF rest = <<>> THEN [got |-> <<>>, waits |-> o]
                 ELSE [got |-> <<Binding(o, Word(rest))>>, waits |-> None]
  IN  read[1]

\* One argument before the `--`.
Said(a) ==
  CASE a.k \in {"word", "dash"} -> [got |-> <<Binding(Positional, a)>>, waits |-> None]
    [] a.k = "short"            -> Letters(a.v)
    [] a.k = "long"             ->
         LET o == LongName(Name(a.v))
         IN  IF EqualSign(a.v) # 0 THEN [got |-> <<Binding(o, Word(Value(a.v)))>>, waits |-> None]
             ELSE IF IsFlag(o) THEN [got |-> <<Binding(o, True)>>, waits |-> None]
             ELSE [got |-> <<>>, waits |-> o]

\* The bindings of a line, from left to right.  When the argument i says s, what
\* follows it, or what follows the value it waits for, is read next.
Continued(s, args, i, read) ==
  s.got \o (IF s.waits = None THEN read[i + 1]
            ELSE IF i = Len(args) THEN <<>>
            ELSE <<Binding(s.waits, args[i + 1])>> \o read[i + 2])

ReadingOf(args) ==
  LET read[i \in Nat] ==
        IF i > Len(args) THEN <<>>
        ELSE IF args[i] = DashDash
        THEN [j \in 1 .. Len(args) - i |-> Binding(Positional, args[i + j])]
        ELSE Continued(Said(args[i]), args, i, read)
  IN  read[1]

\* A dash after the flags of a cluster, which the documentation does not speak of,
\* begins an argument of its own: `-ab-x` is `-ab --x`.  Not so after a `--`.
Unfolded(a) ==
  LET i == SelectInSeq(a.v, LAMBDA c : ~IsFlag(Letter(c)))
  IN  IF a.k = "short" /\ i > 1 /\ a.v[i] = "-"
      THEN <<Short(SubSeq(a.v, 1, i - 1)), Folded(SubSeq(a.v, i, Len(a.v)))>>
      ELSE <<a>>

Reading(args) ==
  LET end    == SelectInSeq(args, LAMBDA a : DashDash \in ToSet(Unfolded(a)))
      before == IF end = 0 THEN Len(args) ELSE end
  IN  ReadingOf(FlattenSeq([i \in 1 .. before |-> Unfolded(args[i])]) \o SubSeq(args, before + 1, Len(args)))

\* The same bindings with one key for all the arguments.
Flat(bindings, isArg(_)) ==
  [i \in DOMAIN bindings |-> IF isArg(bindings[i].key) THEN [bindings[i] EXCEPT !.key = Positional]
                             ELSE bindings[i]]

\* The letters and words of a line, a long name for one; a dash alone is a word.
SizeOf(a) ==
  CASE a.k = "dash" -> 1
    [] a.k = "long" -> IF EqualSign(a.v) = 0 THEN 1 ELSE 1 + Len(Value(a.v))
    [] OTHER        -> Len(SelectSeq(a.v, LAMBDA c : c # "="))

Size(args) == Total(FlattenSeq([i \in DOMAIN args |->
                      LET as == Unfolded(args[i]) IN [j \in DOMAIN as |-> SizeOf(as[j])]]))

\* A bound on what can be consumed of a line, one thing after the other.
WeightOf(a)  == IF a.k = "short" THEN Len(a.v) ELSE 1
Weight(args) == Total([i \in DOMAIN args |-> WeightOf(args[i])])

Keys(bs)      == {bs[i].key : i \in DOMAIN bs}
ValuesOf(bs, key) == SelectSeq(bs, LAMBDA b : b.key = key)

\* Two sequences of bindings give every key the same values in the same order.
SameValues(bs, cs) == \A key \in Keys(bs) \cup Keys(cs) : ValuesOf(bs, key) = ValuesOf(cs, key)

\* Options that no argument but a dash alone separates may change places, and so
\* may such a dash, nothing else.
Separators(bs) == SelectSeq(ValuesOf(bs, Positional), LAMBDA b : b.val.k # "dash")

Before(bs, key, n) ==    \* the values of key before the n-th argument
  LET at == {i \in DOMAIN bs : Len(Separators(SubSeq(bs, 1, i))) < n}
  IN  ValuesOf(SubSeq(bs, 1, Cardinality(at)), key)

SameOrder(bs, cs) ==
  \A n \in 1 .. Len(bs) + 1 : \A key \in Keys(bs) \cup Keys(cs) : Before(bs, key, n) = Before(cs, key, n)
=============================================================================
