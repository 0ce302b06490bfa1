----------------------------- MODULE FsmProofs -----------------------------
(***************************************************************************)
(* Theorems about the matchers and the search of Fsm, for every set of     *)
(* automata, every set of command lines and every set of options: a line   *)
(* is accepted iff a sequence of options and arguments the spec allows     *)
(* consumes it, and what that sequence binds is bound.                     *)
(***************************************************************************)
EXTENDS Fsm, Facts

SP == INSTANCE SimplifyProofs

(***************************************************************************)
(* What the matchers consume, for every command line and every set of      *)
(* options: a match takes something of the line, and leaves less, or takes *)
(* and binds nothing.  So no matcher and no path through an automaton can  *)
(* bind for ever.                                                          *)
(***************************************************************************)
Args  == Seq(Argument)
Bindings == Seq([key : STRING, val : Argument])

(***************************************************************************)
(* The weight of a line, and of what is left of one.                       *)
(***************************************************************************)
Weights(args) == [i \in DOMAIN args |-> WeightOf(args[i])]

LEMMA WeightOfOne ==
  ASSUME NEW a \in Argument
  PROVE  /\ a.v \in Seq(STRING) /\ Len(a.v) \in Nat
         /\ WeightOf(a) \in Nat /\ WeightOf(a) > 0
<1>1. a.v \in Seq(STRING) /\ (a.k = "short" => a.v # <<>>)
  BY DEF Argument
<1>2. Len(a.v) \in Nat /\ (a.k = "short" => Len(a.v) > 0)
  BY <1>1, LenProperties, EmptySeq
<1> QED BY <1>1, <1>2 DEF WeightOf

LEMMA WeightIs ==
  ASSUME NEW args \in Args
  PROVE  /\ Len(args) \in Nat /\ DOMAIN args = 1 .. Len(args)
         /\ Weights(args) \in Seq(Nat) /\ Len(Weights(args)) = Len(args)
         /\ \A i \in 1 .. Len(args) : /\ args[i] \in Argument /\ args[i].v \in Seq(STRING)
                                      /\ Len(args[i].v) \in Nat /\ Weights(args)[i] = WeightOf(args[i])
         /\ Weight(args) = Total(Weights(args)) /\ Weight(args) \in Nat
<1>1. /\ Len(args) \in Nat /\ DOMAIN args = 1 .. Len(args)
      /\ \A i \in 1 .. Len(args) : args[i] \in Argument
  BY LenProperties, ElementOfSeq DEF Args
<1>2. \A i \in 1 .. Len(args) : args[i].v \in Seq(STRING) /\ Len(args[i].v) \in Nat
  BY <1>1, WeightOfOne
<1>3. Weights(args) \in [1 .. Len(args) -> Nat]
  BY <1>1, WeightOfOne DEF Weights
<1>4. Weights(args) \in Seq(Nat) /\ Len(Weights(args)) = Len(args)
  BY <1>1, <1>3, LenProperties
<1>5. Weight(args) = Total(Weights(args))
  BY DEF Weight, Weights
<1> QED BY <1>1, <1>2, <1>4, <1>5, TotalTyped DEF Weights

\* What is left weighs less.
Lighter(rem, args) == rem \in Args /\ Weight(rem) < Weight(args)

LEMMA OneLess ==
  ASSUME NEW args \in Args, NEW i \in 1 .. Len(args), NEW rem \in Args, Len(rem) = Len(args) - 1,
         \A j \in 1 .. i - 1 : rem[j] = args[j], \A j \in i .. Len(rem) : rem[j] = args[j + 1]
  PROVE  Lighter(rem, args)
<1> DEFINE ns == Weights(args)
           ms == Weights(rem)
<1>1. /\ Len(args) \in Nat /\ Len(rem) \in Nat /\ ns \in Seq(Nat) /\ ms \in Seq(Nat)
      /\ Len(ns) = Len(args) /\ Len(ms) = Len(rem)
      /\ \A j \in 1 .. Len(args) : ns[j] = WeightOf(args[j]) /\ args[j] \in Argument
      /\ \A j \in 1 .. Len(rem) : ms[j] = WeightOf(rem[j])
      /\ Weight(args) = Total(ns) /\ Weight(rem) = Total(ms) /\ Total(ms) \in Nat
  BY WeightIs
<1> HIDE DEF ns, ms
<1>2. \A j \in 1 .. i - 1 : ms[j] = ns[j]
  <2> TAKE j \in 1 .. i - 1
  <2>1. j \in 1 .. Len(args) /\ j \in 1 .. Len(rem)
    BY <1>1
  <2> QED BY <1>1, <2>1
<1>3. \A j \in i .. Len(ms) : ms[j] = ns[j + 1]
  <2> TAKE j \in i .. Len(ms)
  <2>1. j + 1 \in 1 .. Len(args) /\ j \in 1 .. Len(rem)
    BY <1>1
  <2> QED BY <1>1, <2>1
<1>4. Total(ns) = Total(ms) + ns[i]
  <2>1. i \in 1 .. Len(ns) /\ Len(ms) = Len(ns) - 1
    BY <1>1
  <2> QED BY <1>1, <1>2, <1>3, <2>1, TotalWithout
<1>5. ns[i] \in Nat /\ ns[i] > 0
  <2>1. ns[i] = WeightOf(args[i]) /\ args[i] \in Argument
    BY <1>1
  <2> QED BY <2>1, WeightOfOne
<1> QED BY <1>1, <1>4, <1>5 DEF Lighter

LEMMA OneRemoved ==
  ASSUME NEW args \in Args, NEW i \in 1 .. Len(args)
  PROVE  /\ Lighter(Without(args, i), args) /\ Len(Without(args, i)) = Len(args) - 1
         /\ \A j \in 1 .. i - 1 : Without(args, i)[j] = args[j]
         /\ \A j \in i .. Len(args) - 1 : Without(args, i)[j] = args[j + 1]
<1> DEFINE a == SubSeq(args, 1, i - 1)
           b == SubSeq(args, i + 1, Len(args))
           n == Len(args)
<1>1. n \in Nat /\ args \in Seq(Argument) /\ i \in 1 .. n
  BY WeightIs DEF Args
<1>2. /\ a \in Seq(Argument) /\ Len(a) = i - 1
      /\ \A j \in 1 .. i - 1 : a[j] = args[j]
  BY <1>1, SubSeqProperties
<1>3. /\ b \in Seq(Argument) /\ Len(b) = n - i
      /\ \A j \in 1 .. n - i : b[j] = args[i + j]
  BY <1>1, SubSeqProperties
<1> HIDE DEF a, b
<1>4. a \o b \in Seq(Argument) /\ Len(a \o b) = n - 1
  <2>1. a \o b \in Seq(Argument) /\ Len(a \o b) = Len(a) + Len(b)
    BY <1>2, <1>3, ConcatProperties
  <2> QED BY <1>1, <1>2, <1>3, <2>1
<1>5. \A j \in 1 .. n - 1 : (a \o b)[j] = IF j <= i - 1 THEN a[j] ELSE b[j - (i - 1)]
  <2>1. \A j \in 1 .. Len(a) + Len(b) : (a \o b)[j] = IF j <= Len(a) THEN a[j] ELSE b[j - Len(a)]
    BY <1>2, <1>3, ConcatProperties
  <2> QED BY <1>1, <1>2, <1>3, <2>1
<1>6. \A j \in 1 .. i - 1 : (a \o b)[j] = args[j]
  BY <1>1, <1>2, <1>5
<1>7. \A j \in i .. n - 1 : (a \o b)[j] = args[j + 1]
  <2> TAKE j \in i .. n - 1
  <2>1. j \in 1 .. n - 1 /\ ~(j <= i - 1) /\ j - (i - 1) \in 1 .. n - i /\ i + (j - (i - 1)) = j + 1
    BY <1>1
  <2> QED BY <1>3, <1>5, <2>1
<1>8. Without(args, i) = a \o b
  BY DEF Without, RemoveAt, a, b
<1>9. Lighter(Without(args, i), args)
  <2> DEFINE rem == Without(args, i)
  <2>1. rem \in Args /\ Len(rem) = Len(args) - 1
    BY <1>4, <1>8 DEF Args
  <2>2. (\A j \in 1 .. i - 1 : rem[j] = args[j]) /\ (\A j \in i .. Len(rem) : rem[j] = args[j + 1])
    BY <1>6, <1>7, <1>8, <2>1
  <2> HIDE DEF rem
  <2>3. Lighter(rem, args)
    BY <2>1, <2>2, OneLess
  <2> QED BY <2>3 DEF rem
<1> QED BY <1>4, <1>6, <1>7, <1>8, <1>9

LEMMA FirstTaken ==
  ASSUME NEW args \in Args, args # <<>>
  PROVE  Lighter(Tail(args), args) /\ args[1] \in Argument
<1>1. Len(args) \in Nat /\ args \in Seq(Argument) /\ Len(args) > 0
  BY WeightIs, EmptySeq DEF Args
<1>2. /\ Tail(args) \in Args /\ Len(Tail(args)) = Len(args) - 1
      /\ \A j \in 1 .. Len(Tail(args)) : Tail(args)[j] = args[j + 1]
  BY <1>1, HeadTailProperties DEF Args
<1>3. 1 \in 1 .. Len(args) /\ \A j \in 1 .. 1 - 1 : Tail(args)[j] = args[j]
  BY <1>1
<1>4. Lighter(Tail(args), args)
  BY <1>2, <1>3, OneLess
<1> QED BY <1>1, <1>3, <1>4, WeightIs

\* An argument with less in it.
LEMMA OneReplaced ==
  ASSUME NEW args \in Args, NEW i \in 1 .. Len(args), NEW a \in Argument, WeightOf(a) < WeightOf(args[i])
  PROVE  Lighter(Replaced(args, i, a), args) /\ Len(Replaced(args, i, a)) = Len(args)
<1> DEFINE rem == Replaced(args, i, a)
           ns == Weights(args)
           ms == Weights(rem)
<1>1. Len(args) \in Nat /\ args \in Seq(Argument) /\ args \in [1 .. Len(args) -> Argument]
  BY WeightIs DEF Args
<1>2. /\ rem \in [1 .. Len(args) -> Argument] /\ rem[i] = a
      /\ \A j \in 1 .. Len(args) : j # i => rem[j] = args[j]
  BY <1>1 DEF Replaced, ReplaceAt
<1> HIDE DEF rem
<1>3. rem \in Args /\ Len(rem) = Len(args)
  BY <1>1, <1>2, LenProperties DEF Args
<1>4. /\ ns \in Seq(Nat) /\ ms \in Seq(Nat) /\ Len(ns) = Len(args) /\ Len(ms) = Len(args)
      /\ \A j \in 1 .. Len(args) : ns[j] = WeightOf(args[j]) /\ args[j] \in Argument
      /\ \A j \in 1 .. Len(args) : ms[j] = WeightOf(rem[j]) /\ rem[j] \in Argument
      /\ Weight(args) = Total(ns) /\ Weight(rem) = Total(ms) /\ Total(ms) \in Nat /\ Total(ns) \in Nat
  BY <1>3, WeightIs
<1> HIDE DEF ns, ms
<1>5. \A j \in 1 .. Len(ns) : j # i => ms[j] = ns[j]
  BY <1>2, <1>4
<1>6. Total(ns) + ms[i] = Total(ms) + ns[i]
  <2>1. i \in 1 .. Len(ns) /\ Len(ms) = Len(ns)
    BY <1>4
  <2> QED BY <1>4, <1>5, <2>1, TotalChanged
<1>7. ms[i] \in Nat /\ ns[i] \in Nat /\ ms[i] < ns[i]
  <2>1. ns[i] = WeightOf(args[i]) /\ args[i] \in Argument /\ ms[i] = WeightOf(a)
    BY <1>2, <1>4
  <2> QED BY <2>1, WeightOfOne
<1>8. Lighter(rem, args)
  BY <1>3, <1>4, <1>6, <1>7 DEF Lighter
<1> QED BY <1>3, <1>8 DEF rem

LEMMA LighterStill ==
  ASSUME NEW args \in Args, NEW rem, Lighter(rem, args), NEW less, Lighter(less, rem)
  PROVE  Lighter(less, args)
BY WeightIs DEF Lighter

(***************************************************************************)
(* The search for one option.                                              *)
(***************************************************************************)

\* At an argument it gives up, goes on one or two arguments further, or finds a
\* value for the option, and what it leaves is lighter.
GivesValue(r, o, args) == \E rem, val : Lighter(rem, args) /\ val \in Argument /\ r = Found(rem, o, val)

Finds(r, o, args) == r \in {Skips(0), Skips(1), Skips(2)} \/ GivesValue(r, o, args)

LEMMA AWord ==
  ASSUME NEW cs \in Seq(STRING)
  PROVE  Word(cs) \in Argument /\ DashDash \in Argument /\ True \in Argument
BY DEF Word, DashDash, True, Argument

\* With the argument i, and the next one too.
LEMMA WithoutOne ==
  ASSUME NEW args \in Args, NEW i \in 1 .. Len(args), NEW o, NEW val \in Argument
  PROVE  Finds(Found(Without(args, i), o, val), o, args)
BY OneRemoved DEF Finds, GivesValue

LEMMA WithoutNext ==
  ASSUME NEW args \in Args, NEW i \in 1 .. Len(args), i < Len(args), NEW o, NEW val \in Argument
  PROVE  Finds(Found(WithoutTwo(args, i), o, val), o, args)
<1>1. PICK one : one = Without(args, i)
  OBVIOUS
<1>2. one \in Args /\ Lighter(one, args) /\ Len(one) = Len(args) - 1
  BY <1>1, OneRemoved DEF Lighter
<1>3. i \in 1 .. Len(one)
  BY <1>2, WeightIs
<1>4. Lighter(Without(one, i), one)
  BY <1>2, <1>3, OneRemoved
<1>5. Lighter(Without(one, i), args)
  BY <1>2, <1>4, LighterStill
<1>6. WithoutTwo(args, i) = Without(one, i)
  BY <1>1 DEF WithoutTwo, Without
<1> QED BY <1>5, <1>6 DEF Finds, GivesValue

\* Where an argument has its first equal sign.
LEMMA EqualSignAt ==
  ASSUME NEW cs \in Seq(STRING)
  PROVE  EqualSign(cs) \in 0 .. Len(cs)
<1> DEFINE I == {i \in 1 .. Len(cs) : cs[i] = "="}
<1>1. EqualSign(cs) = IF I # {} THEN Min(I) ELSE 0
  BY Zenon DEF EqualSign, SelectInSeq
<1>2. Len(cs) \in Nat /\ I \subseteq 1 .. Len(cs)
  BY LenProperties
<1> HIDE DEF I
<1>3. I # {} => Min(I) \in I
  <2>1. I \subseteq Nat
    BY <1>2
  <2> QED BY <2>1, LeastNumber
<1>4. I # {} => Min(I) \in 1 .. Len(cs)
  BY <1>2, <1>3
<1> QED BY <1>1, <1>2, <1>4

LEMMA LongFinds ==
  ASSUME NEW args \in Args, NEW i \in 1 .. Len(args), args[i].k = "long", NEW o
  PROVE  Finds(LongOpt(o, args, i), o, args)
<1> DEFINE cs    == args[i].v
           known == Name(cs) \in DOMAIN LongNames
           opt   == LongNames[Name(cs)]
           r     == LongOpt(o, args, i)
<1>1. Value(cs) \in Seq(STRING) /\ Len(args) \in Nat
  <2>1. cs \in Seq(STRING) /\ Len(cs) \in Nat /\ Len(args) \in Nat
    BY WeightIs
  <2>2. EqualSign(cs) \in 0 .. Len(cs)
    BY <2>1, EqualSignAt
  <2>3. PICK e, l : e = EqualSign(cs) + 1 /\ l = Len(cs)
    OBVIOUS
  <2>4. e \in Int /\ e >= 1 /\ l \in Nat
    BY <2>1, <2>2, <2>3
  <2>5. SubSeq(cs, e, l) \in Seq(STRING)
    BY <2>1, <2>3, <2>4, SubSeqProperties
  <2> QED BY <2>1, <2>3, <2>5 DEF Value
<1>2. Stops \in {Skips(0), Skips(1), Skips(2)}
  BY DEF Stops
<1>3. CASE ~known
  <2>1. r = Stops
    BY <1>3 DEF LongOpt
  <2> QED BY <1>2, <2>1 DEF Finds
<1>4. CASE known /\ HasValue(cs)
  <2>1. r = IF opt # o THEN Skips(1) ELSE Found(Without(args, i), o, Word(Value(cs)))
    BY <1>4 DEF LongOpt
  <2>2. Finds(Found(Without(args, i), o, Word(Value(cs))), o, args)
    BY <1>1, AWord, WithoutOne
  <2> QED BY <2>1, <2>2 DEF Finds
<1>5. CASE known /\ ~HasValue(cs) /\ opt \in Bools
  <2>1. r = IF opt # o THEN Skips(1) ELSE Found(Without(args, i), o, True)
    BY <1>5 DEF LongOpt
  <2>2. Finds(Found(Without(args, i), o, True), o, args)
    BY <1>1, AWord, WithoutOne
  <2> QED BY <2>1, <2>2 DEF Finds
<1>6. CASE known /\ ~HasValue(cs) /\ opt \notin Bools
  <2>1. r = CASE i = Len(args)                     -> Stops
              [] i < Len(args) /\ opt # o          -> Skips(2)
              [] i < Len(args) /\ opt = o /\ HasDash(args[i + 1]) -> Stops
              [] OTHER -> Found(WithoutTwo(args, i), o, args[i + 1])
    BY <1>6 DEF LongOpt
  <2>2. CASE i = Len(args)
    BY <1>2, <2>1, <2>2 DEF Finds
  <2>3. CASE i < Len(args)
    <3>1. args[i + 1] \in Argument
      <4>1. i + 1 \in 1 .. Len(args)
        BY <1>1, <2>3
      <4> QED BY <4>1, WeightIs
    <3>2. Finds(Found(WithoutTwo(args, i), o, args[i + 1]), o, args)
      BY <2>3, <3>1, WithoutNext
    <3>3. r \in {Stops, Skips(2), Found(WithoutTwo(args, i), o, args[i + 1])}
      BY <2>1, <2>3
    <3> QED BY <1>2, <3>2, <3>3 DEF Finds
  <2> QED BY <1>1, <2>2, <2>3
<1> QED BY <1>3, <1>4, <1>5, <1>6

\* The search in a cluster turns at one of its letters, if it does.
LEMMA Turning ==
  ASSUME NEW cs \in Seq(STRING), NEW o
  PROVE  Turn(o, cs) \in 0 .. Len(cs)
<1> DEFINE Turns(c) == IF c \in DOMAIN ShortNames
                       THEN ShortNames[c] = o \/ ShortNames[c] \notin Bools ELSE TRUE
           I == {i \in 1 .. Len(cs) : Turns(cs[i])}
<1>1. Turn(o, cs) = IF I # {} THEN Min(I) ELSE 0
  BY Zenon DEF Turn, SelectInSeq
<1>2. Len(cs) \in Nat /\ I \subseteq 1 .. Len(cs)
  BY LenProperties
<1> HIDE DEF I
<1>3. I # {} => Min(I) \in I
  <2>1. I \subseteq Nat
    BY <1>2
  <2> QED BY <2>1, LeastNumber
<1>4. CASE I = {}
  BY <1>1, <1>2, <1>4
<1>5. CASE I # {}
  <2>1. Turn(o, cs) \in I
    BY <1>1, <1>3, <1>5
  <2>2. PICK l : l = Len(cs)
    OBVIOUS
  <2>3. Turn(o, cs) \in 1 .. l
    BY <1>2, <2>1, <2>2
  <2>4. 1 .. l \subseteq 0 .. l
    BY <1>2, <2>2
  <2> QED BY <2>2, <2>3, <2>4
<1> QED BY <1>4, <1>5

\* A cluster without a part of it, whatever it then is.
LEMMA FoldedIs ==
  ASSUME NEW cs \in Seq(STRING), cs # <<>>
  PROVE  Folded(cs) \in Argument /\ WeightOf(Folded(cs)) <= Len(cs)
<1>1. Len(cs) \in Nat /\ Len(cs) >= 1
  BY LenProperties, EmptySeq
<1>2. CASE cs[1] # "-"
  <2>1. Folded(cs) = [k |-> "short", v |-> cs]
    BY <1>2 DEF Folded, Short
  <2>2. [k |-> "short", v |-> cs] \in Argument
    BY <1>2 DEF Argument
  <2> QED BY <1>1, <2>1, <2>2 DEF WeightOf
<1>3. CASE cs = <<"-">>
  <2>1. Folded(cs) = DashDash
    BY <1>3 DEF Folded
  <2> QED BY <1>1, <2>1, AWord DEF WeightOf, DashDash
<1>4. CASE cs[1] = "-" /\ cs # <<"-">>
  <2>1. Folded(cs) = [k |-> "long", v |-> Tail(cs)]
    BY <1>4 DEF Folded, Long
  <2>2. Len(cs) # 1
    <3>1. Len(cs) = 1 => cs = <<cs[1]>>
      OBVIOUS
    <3> QED BY <1>4, <3>1
  <2>3. Tail(cs) \in Seq(STRING) /\ Len(Tail(cs)) = Len(cs) - 1
    BY HeadTailProperties
  <2>4. Tail(cs) # <<>>
    <3>1. PICK t : t = Tail(cs)
      OBVIOUS
    <3>2. Len(t) # 0
      BY <1>1, <2>2, <2>3, <3>1
    <3> QED BY <3>1, <3>2
  <2>5. [k |-> "long", v |-> Tail(cs)] \in Argument
    BY <2>3, <2>4 DEF Argument
  <2> QED BY <1>1, <2>1, <2>5 DEF WeightOf
<1> QED BY <1>2, <1>3, <1>4

LEMMA LeftOfCluster ==
  ASSUME NEW args \in Args, NEW i \in 1 .. Len(args), args[i].k \in {"short", "true"},
         NEW cs \in Seq(STRING), Len(cs) < Len(args[i].v)
  PROVE  Lighter(LeftOf(args, i, cs), args)
<1>1. CASE cs = <<>>
  BY <1>1, OneRemoved DEF LeftOf
<1>2. CASE cs # <<>>
  <2>1. args[i] \in Argument /\ Len(args[i].v) \in Nat /\ Len(cs) \in Nat
    BY WeightIs, LenProperties
  <2>2. args[i].v # <<>>
    BY <2>1, EmptySeq
  <2>3. args[i].k = "short"
    BY <2>1, <2>2 DEF Argument
  <2>4. WeightOf(args[i]) = Len(args[i].v)
    BY <2>3 DEF WeightOf
  <2>5. PICK a : a = Folded(cs)
    OBVIOUS
  <2>6. a \in Argument /\ WeightOf(a) <= Len(cs) /\ WeightOf(a) \in Nat
    BY <1>2, <2>5, FoldedIs, WeightOfOne
  <2>7. WeightOf(a) < WeightOf(args[i])
    BY <2>1, <2>4, <2>6
  <2> QED BY <1>2, <2>5, <2>6, <2>7, OneReplaced DEF LeftOf
<1> QED BY <1>1, <1>2

LEMMA ShortFinds ==
  ASSUME NEW args \in Args, NEW i \in 1 .. Len(args), args[i].k \in {"short", "true"}, NEW o
  PROVE  Finds(ShortOpt(o, args, i), o, args)
<1> DEFINE cs == args[i].v
           l  == Len(cs)
           r  == ShortOpt(o, args, i)
<1>1. cs \in Seq(STRING) /\ l \in Nat /\ Len(args) \in Nat
  BY WeightIs
<1>2. Stops \in {Skips(0), Skips(1), Skips(2)}
  BY DEF Stops
<1>3. CASE l >= 2 /\ cs[2] = "="
  <2>1. r = IF cs[1] \in DOMAIN ShortNames /\ ShortNames[cs[1]] = o
            THEN IF l = 2 THEN Stops
                 ELSE Found(Without(args, i), o, Word(SubSeq(cs, 3, l)))
            ELSE Skips(1)
    BY <1>3 DEF ShortOpt
  <2>2. l # 2 => SubSeq(cs, 3, l) \in Seq(STRING)
    BY <1>1, <1>3, SubSeqProperties
  <2>3. l # 2 => Finds(Found(Without(args, i), o, Word(SubSeq(cs, 3, l))), o, args)
    BY <2>2, AWord, WithoutOne
  <2> QED BY <1>2, <2>1, <2>3 DEF Finds
<1>4. CASE ~(l >= 2 /\ cs[2] = "=")
  <2> DEFINE j == Turn(o, cs)
             opt    == ShortNames[cs[j]]
             before == SubSeq(cs, 1, j - 1)
             after  == SubSeq(cs, j + 1, l)
  <2>1. r = Turned(o, args, i, j)
    BY <1>4 DEF ShortOpt
  <2>2. j \in 0 .. l
    BY <1>1, Turning
  <2> HIDE DEF j
  <2>3. CASE j = 0
    <3>1. r = Skips(1)
      BY <2>1, <2>3 DEF Turned
    <3> QED BY <3>1 DEF Finds
  <2>4. CASE j > 0
    <3>1. j \in 1 .. l
      BY <1>1, <2>2, <2>4
    <3>2. before \in Seq(STRING) /\ Len(before) = j - 1 /\ after \in Seq(STRING) /\ Len(after) = l - j
      BY <1>1, <3>1, SubSeqProperties
    <3>3. before \o after \in Seq(STRING) /\ Len(before \o after) < l
      <4>1. before \o after \in Seq(STRING) /\ Len(before \o after) = Len(before) + Len(after)
        BY <3>2, ConcatProperties
      <4>2. (j - 1) + (l - j) = l - 1
        BY <1>1, <3>1
      <4> QED BY <1>1, <3>2, <4>1, <4>2
    <3>4. Len(before) < l
      BY <1>1, <3>1, <3>2
    <3> HIDE DEF before, after
    <3>5. /\ Finds(Found(LeftOf(args, i, before \o after), o, True), o, args)
          /\ Finds(Found(LeftOf(args, i, before), o, Word(after)), o, args)
      BY <3>2, <3>3, <3>4, LeftOfCluster, AWord DEF Finds, GivesValue
    <3>6. CASE cs[j] \notin DOMAIN ShortNames
      <4>1. r = Stops
        BY <2>1, <2>4, <3>6 DEF Turned
      <4> QED BY <1>2, <4>1 DEF Finds
    <3>7. CASE cs[j] \in DOMAIN ShortNames /\ opt \in Bools
      <4>1. r = Found(LeftOf(args, i, before \o after), o, True)
        BY <2>1, <2>4, <3>7 DEF Turned, before, after
      <4> QED BY <3>5, <4>1
    <3>8. CASE cs[j] \in DOMAIN ShortNames /\ opt \notin Bools /\ after # <<>>
      <4>1. r = IF opt # o THEN Skips(1) ELSE Found(LeftOf(args, i, before), o, Word(after))
        BY <2>1, <2>4, <3>8 DEF Turned, before, after
      <4> QED BY <3>5, <4>1 DEF Finds
    <3>9. CASE cs[j] \in DOMAIN ShortNames /\ opt \notin Bools /\ after = <<>>
      <4>1. r = CASE i = Len(args)            -> Stops
                  [] i < Len(args) /\ opt # o -> Skips(2)
                  [] i < Len(args) /\ opt = o /\ HasDash(args[i + 1]) -> Stops
                  [] OTHER -> Found(LeftOf(Without(args, i + 1), i, before), o, args[i + 1])
        BY <2>1, <2>4, <3>9 DEF Turned, before, after
      <4>2. CASE i = Len(args)
        BY <1>2, <4>1, <4>2 DEF Finds
      <4>3. CASE i < Len(args)
        <5>1. i + 1 \in 1 .. Len(args)
          BY <1>1, <4>3
        <5>2. PICK one : one = Without(args, i + 1)
          OBVIOUS
        <5>3. one \in Args /\ Lighter(one, args) /\ i \in 1 .. Len(one) /\ one[i] = args[i]
          <6>1. /\ Lighter(one, args) /\ Len(one) = Len(args) - 1
                /\ \A k \in 1 .. (i + 1) - 1 : one[k] = args[k]
            BY <5>1, <5>2, OneRemoved
          <6>2. i \in 1 .. Len(one) /\ i \in 1 .. (i + 1) - 1
            BY <1>1, <4>3, <6>1
          <6> QED BY <6>1, <6>2 DEF Lighter
        <5>4. Lighter(LeftOf(one, i, before), one)
          BY <3>2, <3>4, <5>3, LeftOfCluster
        <5>5. Lighter(LeftOf(one, i, before), args)
          BY <5>3, <5>4, LighterStill
        <5>6. args[i + 1] \in Argument
          BY <5>1, WeightIs
        <5>7. Finds(Found(LeftOf(one, i, before), o, args[i + 1]), o, args)
          BY <5>5, <5>6 DEF Finds, GivesValue
        <5>8. r \in {Stops, Skips(2), Found(LeftOf(one, i, before), o, args[i + 1])}
          BY <4>1, <4>3, <5>2
        <5> QED BY <1>2, <5>7, <5>8 DEF Finds
      <4> QED BY <1>1, <4>2, <4>3
    <3> QED BY <3>6, <3>7, <3>8, <3>9
  <2> QED BY <1>1, <2>2, <2>3, <2>4
<1> QED BY <1>3, <1>4

LEMMA NamedFinds ==
  ASSUME NEW args \in Args, NEW i \in 1 .. Len(args), args[i].k \notin {"word", "dash", "ddash"}, NEW o
  PROVE  Finds(Named(o, args, i), o, args)
<1>1. args[i].k \in {"long", "short", "true"}
  <2>1. args[i] \in Argument
    BY WeightIs
  <2> QED BY <2>1 DEF Argument
<1> QED BY <1>1, LongFinds, ShortFinds DEF Named

\* Nothing left weighs nothing.
LEMMA AllTaken ==
  ASSUME NEW args \in Args, args # <<>>
  PROVE  Lighter(<<>>, args)
<1>1. <<>> \in Args /\ Weights(<<>>) = <<>>
  BY DEF Args, Weights
<1>2. Weight(<<>>) = 0
  BY <1>1, WeightIs, TotalOfNone
<1>3. Weight(args) > Weight(Tail(args)) /\ Weight(Tail(args)) \in Nat
  BY FirstTaken, WeightIs DEF Lighter
<1> QED BY <1>1, <1>2, <1>3, WeightIs DEF Lighter

\* What the search answers, for a line: it has taken something, or nothing, and
\* then an answer that is good comes from the environment.
AnswersOf(o, args, set) ==
  {r \in [ok : BOOLEAN, rem : Args, got : Bindings] :
     \/ Weight(r.rem) < Weight(args)
     \/ r.rem = args /\ r.got = <<>> /\ (r.ok => o \in set)}

LEMMA AbsentAnswers ==
  ASSUME NEW args \in Args, NEW o, NEW set
  PROVE  /\ Absent(o, args, set) \in AnswersOf(o, args, set)
         /\ args # <<>> => Absent(o, <<>>, set) \in AnswersOf(o, args, set)
<1>1. <<>> \in Bindings /\ <<>> \in Args
  BY DEF Bindings, Args
<1>2. ASSUME NEW rem \in Args, rem = args \/ Weight(rem) < Weight(args)
      PROVE  Absent(o, rem, set) \in AnswersOf(o, args, set)
  <2>1. CASE o \in set
    <3>1. Absent(o, rem, set) = [ok |-> TRUE, rem |-> rem, got |-> <<>>]
      BY <2>1 DEF Absent, Matches
    <3> QED BY <1>1, <1>2, <2>1, <3>1 DEF AnswersOf
  <2>2. CASE o \notin set
    <3>1. Absent(o, rem, set) = [ok |-> FALSE, rem |-> rem, got |-> <<>>]
      BY <2>2 DEF Absent, NoMatch
    <3> QED BY <1>1, <1>2, <3>1 DEF AnswersOf
  <2> QED BY <2>1, <2>2
<1> QED BY <1>1, <1>2, AllTaken DEF Lighter

LEMMA FoundAnswers ==
  ASSUME NEW args \in Args, NEW o \in STRING, NEW set, NEW rem, Lighter(rem, args), NEW val \in Argument
  PROVE  Matches(rem, <<Binding(o, val)>>) \in AnswersOf(o, args, set)
<1>1. <<Binding(o, val)>> \in Bindings
  BY DEF Bindings, Binding
<1> QED BY <1>1 DEF AnswersOf, Matches, Lighter

\* What the search answers at an argument, when h gives its answers further on.
Scanned(o, args, set, i, h) ==
  IF i > Len(args) THEN Absent(o, args, set)
  ELSE IF args[i].k = "dash" THEN h[i + 1]
  ELSE IF args[i].k = "ddash" THEN Absent(o, <<>>, set)
  ELSE IF args[i].k = "word" THEN Absent(o, args, set)
  ELSE GoOn(Named(o, args, i), i, h, Absent(o, args, set))

Places(args) == 1 .. Len(args) + 2

LEMMA ScannedAnswers ==
  ASSUME NEW args \in Args, NEW o \in STRING, NEW set, NEW i \in Places(args),
         NEW h, h[i + 1] \in AnswersOf(o, args, set), h[i + 2] \in AnswersOf(o, args, set)
  PROVE  Scanned(o, args, set, i, h) \in AnswersOf(o, args, set)
<1>1. Len(args) \in Nat /\ i \in 1 .. Len(args) + 2
  BY WeightIs DEF Places
<1>2. CASE i > Len(args)
  BY <1>2, AbsentAnswers DEF Scanned
<1>3. CASE ~(i > Len(args))
  <2>1. i \in 1 .. Len(args) /\ args # <<>>
    BY <1>1, <1>3
  <2>2. Absent(o, args, set) \in AnswersOf(o, args, set) /\ Absent(o, <<>>, set) \in AnswersOf(o, args, set)
    BY <2>1, AbsentAnswers
  <2>3. PICK r : r = Named(o, args, i)
    OBVIOUS
  <2> DEFINE Naming == args[i].k \notin {"word", "dash", "ddash"}
  <2>4. Naming => GoOn(r, i, h, Absent(o, args, set)) \in AnswersOf(o, args, set)
    <3> SUFFICES ASSUME Naming PROVE GoOn(r, i, h, Absent(o, args, set)) \in AnswersOf(o, args, set)
      OBVIOUS
    <3>1. Finds(r, o, args)
      BY <2>1, <2>3, NamedFinds
    <3>2. CASE GivesValue(r, o, args)
      <4>1. PICK rem, val : Lighter(rem, args) /\ val \in Argument /\ r = Found(rem, o, val)
        BY <3>2 DEF GivesValue
      <4>2. GoOn(r, i, h, Absent(o, args, set)) = Matches(rem, <<Binding(o, val)>>)
        BY <4>1 DEF Found, GoOn
      <4> QED BY <4>1, <4>2, FoundAnswers
    <3>3. CASE r = Skips(0)
      <4>1. GoOn(r, i, h, Absent(o, args, set)) = Absent(o, args, set)
        BY <3>3 DEF Skips, GoOn
      <4> QED BY <2>2, <4>1
    <3>4. CASE r = Skips(1)
      <4>1. GoOn(r, i, h, Absent(o, args, set)) = h[i + 1]
        BY <3>4 DEF Skips, GoOn
      <4> QED BY <4>1
    <3>5. CASE r = Skips(2)
      <4>1. GoOn(r, i, h, Absent(o, args, set)) = h[i + 2]
        BY <3>5 DEF Skips, GoOn
      <4> QED BY <4>1
    <3> QED BY <3>1, <3>2, <3>3, <3>4, <3>5 DEF Finds
  <2> QED BY <1>3, <2>2, <2>3, <2>4 DEF Scanned
<1> QED BY <1>2, <1>3

\* It depends on the answers further on alone.
SameFurther(args, i, h, k) == i <= Len(args) => h[i + 1] = k[i + 1] /\ h[i + 2] = k[i + 2]

LEMMA ScannedAgrees ==
  ASSUME NEW args, NEW o, NEW set, NEW i, NEW h, NEW k,
         args \in Args, i \in Places(args), SameFurther(args, i, h, k)
  PROVE  Scanned(o, args, set, i, h) = Scanned(o, args, set, i, k)
<1>1. Len(args) \in Nat /\ i \in 1 .. Len(args) + 2
  BY WeightIs DEF Places
<1>2. CASE i > Len(args)
  BY <1>2 DEF Scanned
<1>3. CASE ~(i > Len(args))
  <2>1. i \in 1 .. Len(args) /\ h[i + 1] = k[i + 1] /\ h[i + 2] = k[i + 2]
    BY <1>1, <1>3 DEF SameFurther
  <2>2. PICK r : r = Named(o, args, i)
    OBVIOUS
  <2> DEFINE Naming == args[i].k \notin {"word", "dash", "ddash"}
  <2>3. Naming => GoOn(r, i, h, Absent(o, args, set)) = GoOn(r, i, k, Absent(o, args, set))
    <3> SUFFICES ASSUME Naming PROVE GoOn(r, i, h, Absent(o, args, set)) = GoOn(r, i, k, Absent(o, args, set))
      OBVIOUS
    <3>1. Finds(r, o, args)
      BY <2>1, <2>2, NamedFinds
    <3>2. r.found = TRUE \/ r.skip \in {0, 1, 2}
      BY <3>1 DEF Finds, GivesValue, Found, Skips
    <3> QED BY <2>1, <3>2 DEF GoOn
  <2> QED BY <1>3, <2>1, <2>2, <2>3 DEF Scanned
<1> QED BY <1>2, <1>3

LEMMA OptAnswers ==
  ASSUME NEW args \in Args, NEW o \in STRING, NEW reject, NEW set
  PROVE  MatchOpt(o, args, reject, set) \in AnswersOf(o, args, set)
<1> DEFINE D == Places(args)
           V == AnswersOf(o, args, set)
           G == [p \in D \X [D -> V] |-> Scanned(o, args, set, p[1], p[2])]
           rank == [i \in D |-> (Len(args) + 2) - i]
<1>1. Len(args) \in Nat /\ D = 1 .. Len(args) + 2
  BY WeightIs DEF Places
<1>2. \A i \in D : i <= Len(args) => i + 1 \in D /\ i + 2 \in D
  BY <1>1
<1>3. rank \in [D -> Nat] /\ \A i \in D : i <= Len(args) => rank[i + 1] < rank[i] /\ rank[i + 2] < rank[i]
  BY <1>1, <1>2
<1>4. Absent(o, args, set) \in V
  BY AbsentAnswers
<1> HIDE DEF rank, V
<1>5. ASSUME NEW i \in D, NEW h \in [D -> V] PROVE Scanned(o, args, set, i, h) \in V
  <2>1. CASE i <= Len(args)
    <3>1. h[i + 1] \in V /\ h[i + 2] \in V
      BY <1>2, <1>5, <2>1
    <3> QED BY <3>1, ScannedAnswers DEF V
  <2>2. CASE ~(i <= Len(args))
    <3>1. Scanned(o, args, set, i, h) = Absent(o, args, set)
      BY <1>1, <2>2 DEF Scanned
    <3> QED BY <1>4, <3>1
  <2> QED BY <2>1, <2>2
<1>6. ASSUME NEW i \in D, NEW h, NEW k, \A j \in D : rank[j] < rank[i] => h[j] = k[j]
      PROVE  Scanned(o, args, set, i, h) = Scanned(o, args, set, i, k)
  <2>1. SameFurther(args, i, h, k)
    BY <1>2, <1>3, <1>6 DEF SameFurther
  <2> QED BY <2>1, ScannedAgrees
<1>7. Ranked(D, V, rank, G)
  <2>1. G \in [D \X [D -> V] -> V]
    <3>1. \A p \in D \X [D -> V] : Scanned(o, args, set, p[1], p[2]) \in V
      BY <1>5
    <3> QED BY <3>1
  <2>2. ASSUME NEW i \in D, NEW h \in [D -> V], NEW k \in [D -> V],
               \A j \in D : rank[j] < rank[i] => h[j] = k[j]
        PROVE  G[<<i, h>>] = G[<<i, k>>]
    <3>1. Scanned(o, args, set, i, h) = Scanned(o, args, set, i, k)
      BY <1>6, <2>2
    <3> QED BY <3>1
  <2> HIDE DEF G
  <2> QED BY <1>3, <1>4, <2>1, <2>2 DEF Ranked
<1>8. PICK f : Computed(f, D, V, G)
  <2> HIDE DEF D, G
  <2> QED BY <1>7, Recursion
<1>9. f \in [D -> V] /\ \A i \in D : f[i] = Scanned(o, args, set, i, f)
  BY <1>8 DEF Computed
<1> HIDE DEF D
<1>10. f = [i \in D |-> Scanned(o, args, set, i, f)]
  BY <1>9
<1> DEFINE fix == CHOOSE s : s = [i \in D |-> Scanned(o, args, set, i, s)]
<1>11. fix = [i \in D |-> Scanned(o, args, set, i, fix)]
  BY <1>10, Zenon
<1>12. MatchOpt(o, args, reject, set) = IF args = <<>> \/ reject THEN Absent(o, args, set) ELSE fix[1]
  BY Zenon DEF MatchOpt, Scanned, D, Places
<1> HIDE DEF fix
<1>13. \A i \in D : fix[i] = Scanned(o, args, set, i, fix)
  BY <1>11
<1>14. D \subseteq {i \in D : fix[i] = f[i]}
  <2> DEFINE Equals == {i \in D : fix[i] = f[i]}
  <2>1. ASSUME NEW i \in D, \A j \in D : rank[j] < rank[i] => j \in Equals PROVE i \in Equals
    <3>1. Scanned(o, args, set, i, fix) = Scanned(o, args, set, i, f)
      <4>1. \A j \in D : rank[j] < rank[i] => fix[j] = f[j]
        BY <2>1
      <4> QED BY <1>6, <4>1
    <3> QED BY <1>9, <1>13, <3>1
  <2> HIDE DEF Equals
  <2>2. D \subseteq Equals
    BY <1>3, <2>1, RankInduction
  <2> QED BY <2>2 DEF Equals
<1>15. fix[1] \in V
  <2>1. 1 \in D
    BY <1>1
  <2> QED BY <1>9, <1>14, <2>1
<1>16. MatchOpt(o, args, reject, set) \in V
  <2>1. CASE args = <<>> \/ reject
    BY <1>4, <1>12, <2>1
  <2>2. CASE ~(args = <<>> \/ reject)
    BY <1>12, <1>15, <2>2
  <2> QED BY <2>1, <2>2
<1> QED BY <1>16 DEF V

(***************************************************************************)
(* The search for any of several options, again and again: every round     *)
(* takes something of the line, or an option that is not tried again.      *)
(***************************************************************************)
AnswersTo(args) ==
  {r \in [ok : BOOLEAN, rem : Args, got : Bindings] :
     Weight(r.rem) < Weight(args) \/ (r.rem = args /\ r.got = <<>>)}

\* After the round that leads from r, and what h says of the rest.
Goal(r, next) == [next EXCEPT !.got = r.got \o @]

Rounded(options, reject, set, r, h) ==
  Again(r, Try(options, r.rem, reject, set, r.excluded), h)

\* A round after r: an option that was not excluded has the answer a.
IsRound(q, r, o, a, set) ==
  /\ o \notin r.excluded /\ a \in AnswersOf(o, r.rem, set) /\ a.ok = TRUE
  /\ q = [ok |-> TRUE, rem |-> a.rem, got |-> r.got \o a.got, excluded |-> r.excluded \cup ({o} \cap set)]

FirstIs(i, options, answers, none, set) ==
  /\ answers[i].ok = TRUE
  /\ FirstOf(options, answers, none, set) =
       [ok |-> TRUE, rem |-> answers[i].rem, got |-> answers[i].got,
        excluded |-> none.excluded \cup ({options[i]} \cap set)]

LEMMA FirstThatMatches ==
  ASSUME NEW options, NEW answers, NEW none, NEW set,
         answers \in Seq([ok : BOOLEAN, rem : Args, got : Bindings])
  PROVE  \/ FirstOf(options, answers, none, set) = none
         \/ \E i \in 1 .. Len(answers) : FirstIs(i, options, answers, none, set)
<1> DEFINE I == {i \in 1 .. Len(answers) : answers[i].ok}
<1>1. FirstOf(options, answers, none, set) =
        LET i == IF I # {} THEN Min(I) ELSE 0
        IN  IF i = 0 THEN none
            ELSE [ok |-> TRUE, rem |-> answers[i].rem, got |-> answers[i].got,
                  excluded |-> none.excluded \cup ({options[i]} \cap set)]
  BY Zenon DEF FirstOf, SelectInSeq
<1>2. \A i \in I : i \in 1 .. Len(answers) /\ answers[i].ok = TRUE
  <2> TAKE i \in I
  <2>1. i \in 1 .. Len(answers) /\ answers[i].ok
    OBVIOUS
  <2>2. answers[i] \in [ok : BOOLEAN, rem : Args, got : Bindings]
    BY <2>1, ElementOfSeq
  <2>3. answers[i].ok \in BOOLEAN
    BY <2>2
  <2> QED BY <2>1, <2>3
<1>3. I \subseteq Nat
  BY LenProperties
<1> HIDE DEF I
<1>4. CASE I = {}
  BY <1>1, <1>4
<1>5. CASE I # {}
  <2>1. PICK i : i = Min(I)
    OBVIOUS
  <2>2. i \in I
    BY <1>3, <1>5, <2>1, LeastNumber
  <2>3. i \in 1 .. Len(answers) /\ answers[i].ok = TRUE
    BY <1>2, <2>2
  <2>4. i # 0
    BY <2>3
  <2> QED BY <1>1, <1>5, <2>1, <2>3, <2>4 DEF FirstIs
<1> QED BY <1>4, <1>5

LEMMA GoalIs ==
  ASSUME NEW r, NEW rem, NEW taken, NEW excluded
  PROVE  Goal(r, [ok |-> TRUE, rem |-> rem, got |-> taken, excluded |-> excluded]) =
           [ok |-> TRUE, rem |-> rem, got |-> r.got \o taken, excluded |-> excluded]
<1> DEFINE q == [ok |-> TRUE, rem |-> rem, got |-> taken, excluded |-> excluded]
<1>1. q.got = taken /\ q = [ok |-> TRUE, rem |-> rem, got |-> taken, excluded |-> excluded]
  OBVIOUS
<1>2. PICK all : all = r.got \o taken
  OBVIOUS
<1>3. Goal(r, q) = [q EXCEPT !.got = all]
  BY <1>2 DEF Goal
<1> QED BY <1>2, <1>3

LEMMA TriesOne ==
  ASSUME NEW options, NEW reject, NEW set, NEW r, options \in Seq(STRING), r \in Rounds
  PROVE  LET next == Try(options, r.rem, reject, set, r.excluded)
         IN  \/ next.ok = FALSE
             \/ /\ next.ok = TRUE
                /\ \E i \in 1 .. Len(options) : \E a : IsRound(Goal(r, next), r, options[i], a, set)
<1> DEFINE args == r.rem
           next == Try(options, r.rem, reject, set, r.excluded)
           answers == [i \in DOMAIN options |-> IF options[i] \in r.excluded THEN NoMatch(args)
                                                ELSE MatchOpt(options[i], args, reject, set)]
           none == NoRound(args, r.excluded)
           All  == [ok : BOOLEAN, rem : Args, got : Bindings]
<1>1. /\ args \in Args /\ r.got \in Bindings /\ Len(options) \in Nat /\ DOMAIN options = 1 .. Len(options)
      /\ \A i \in 1 .. Len(options) : options[i] \in STRING
  BY LenProperties, ElementOfSeq DEF Rounds, Args, Bindings
<1>2. CASE args = <<>> \/ reject
  <2>1. next = none
    BY <1>2 DEF Try
  <2> QED BY <2>1 DEF NoRound
<1>3. CASE ~(args = <<>> \/ reject)
  <2>1. next = FirstOf(options, answers, none, set)
    BY <1>3 DEF Try
  <2>2. \A i \in 1 .. Len(options) :
          answers[i] = IF options[i] \in r.excluded THEN NoMatch(args)
                       ELSE MatchOpt(options[i], args, reject, set)
    BY <1>1
  <2>3. ASSUME NEW i \in 1 .. Len(options)
        PROVE  /\ answers[i] \in All
               /\ options[i] \in r.excluded => answers[i].ok = FALSE
               /\ options[i] \notin r.excluded => answers[i] \in AnswersOf(options[i], args, set)
    <3>1. CASE options[i] \in r.excluded
      <4>1. NoMatch(args) \in All /\ NoMatch(args).ok = FALSE
        <5>1. <<>> \in Bindings
          BY DEF Bindings
        <5> QED BY <1>1, <5>1 DEF NoMatch
      <4> QED BY <2>2, <3>1, <4>1
    <3>2. CASE options[i] \notin r.excluded
      <4>1. options[i] \in STRING
        BY <1>1
      <4>2. MatchOpt(options[i], args, reject, set) \in AnswersOf(options[i], args, set)
        BY <1>1, <4>1, OptAnswers
      <4>3. answers[i] \in AnswersOf(options[i], args, set)
        BY <2>2, <3>2, <4>2
      <4> QED BY <3>2, <4>3 DEF AnswersOf
    <3> QED BY <3>1, <3>2
  <2>4. answers \in Seq(All) /\ Len(answers) = Len(options)
    <3>1. answers \in [1 .. Len(options) -> All]
      <4>1. answers = [i \in 1 .. Len(options) |-> answers[i]]
        BY <1>1
      <4> HIDE DEF answers, All
      <4> QED BY <2>3, <4>1
    <3> HIDE DEF answers, All
    <3> QED BY <1>1, <3>1, LenProperties
  <2> HIDE DEF answers, none
  <2>5. CASE FirstOf(options, answers, none, set) = none
    BY <2>1, <2>5 DEF none, NoRound
  <2>6. CASE FirstOf(options, answers, none, set) # none
    <3>0. answers \in Seq([ok : BOOLEAN, rem : Args, got : Bindings])
      BY <2>4
    <3>1. PICK i \in 1 .. Len(answers) : FirstIs(i, options, answers, none, set)
      BY <2>6, <3>0, FirstThatMatches
    <3>2. PICK a, o : a = answers[i] /\ o = options[i]
      OBVIOUS
    <3>3. i \in 1 .. Len(options) /\ o \notin r.excluded /\ a \in AnswersOf(o, args, set) /\ a.ok = TRUE
      BY <2>3, <2>4, <3>1, <3>2 DEF FirstIs
    <3>4. next = [ok |-> TRUE, rem |-> a.rem, got |-> a.got, excluded |-> r.excluded \cup ({o} \cap set)]
      BY <2>1, <3>1, <3>2 DEF FirstIs, none, NoRound
    <3>5. Goal(r, next) = [ok |-> TRUE, rem |-> a.rem, got |-> r.got \o a.got,
                           excluded |-> r.excluded \cup ({o} \cap set)]
      <4>1. PICK q : q = next
        OBVIOUS
      <4>2. q = [ok |-> TRUE, rem |-> a.rem, got |-> a.got, excluded |-> r.excluded \cup ({o} \cap set)]
        BY <3>4, <4>1
      <4>3. Goal(r, q) = [ok |-> TRUE, rem |-> a.rem, got |-> r.got \o a.got,
                          excluded |-> r.excluded \cup ({o} \cap set)]
        BY <4>2, GoalIs
      <4> QED BY <4>1, <4>3
    <3>6. IsRound(Goal(r, next), r, o, a, set)
      BY <3>3, <3>5 DEF IsRound
    <3>7. next.ok = TRUE
      BY <3>4
    <3> QED BY <3>2, <3>3, <3>6, <3>7
  <2> QED BY <2>5, <2>6
<1> QED BY <1>2, <1>3

\* How many rounds are left at most: what is left of the line, and the options with
\* a value from the environment that can still match without being there.
Pending(options, set, r) == {i \in 1 .. Len(options) : options[i] \in set \ r.excluded}
RoundsLeft(options, set, r) == Weight(r.rem) + Cardinality(Pending(options, set, r))

\* A round takes something of the line, or takes and binds nothing.
Onward(q, r) == Weight(q.rem) < Weight(r.rem) \/ (q.rem = r.rem /\ q.got = r.got)

LEMMA LeftTyped ==
  ASSUME NEW options, NEW set, NEW r, options \in Seq(STRING), r \in Rounds
  PROVE  /\ IsFiniteSet(Pending(options, set, r)) /\ Cardinality(Pending(options, set, r)) \in Nat
         /\ Weight(r.rem) \in Nat /\ RoundsLeft(options, set, r) \in Nat
<1>1. IsFiniteSet(1 .. Len(options))
  BY LenProperties, FS_Interval
<1>2. Pending(options, set, r) \in SUBSET (1 .. Len(options))
  BY DEF Pending
<1>3. IsFiniteSet(Pending(options, set, r)) /\ Cardinality(Pending(options, set, r)) \in Nat
  BY <1>1, <1>2, FS_Subset, FS_CardinalityType
<1>4. Weight(r.rem) \in Nat
  BY WeightIs DEF Rounds, Args
<1> QED BY <1>3, <1>4 DEF RoundsLeft

LEMMA RoundGoesOn ==
  ASSUME NEW options, NEW set, NEW q, NEW r, NEW a, NEW i,
         options \in Seq(STRING), r \in Rounds, i \in 1 .. Len(options),
         IsRound(q, r, options[i], a, set)
  PROVE  q \in Rounds /\ Onward(q, r) /\ RoundsLeft(options, set, q) < RoundsLeft(options, set, r)
<1> DEFINE o == options[i]
<1>1. /\ o \in STRING /\ o \notin r.excluded /\ a \in AnswersOf(o, r.rem, set) /\ a.ok = TRUE
      /\ q = [ok |-> TRUE, rem |-> a.rem, got |-> r.got \o a.got, excluded |-> r.excluded \cup ({o} \cap set)]
  BY ElementOfSeq DEF IsRound
<1> HIDE DEF o
<1>2. /\ r.rem \in Args /\ r.got \in Bindings /\ r.excluded \in SUBSET STRING
      /\ a.rem \in Args /\ a.got \in Bindings
  BY <1>1 DEF Rounds, AnswersOf, Args, Bindings
<1>3. q \in Rounds
  <2>1. r.got \o a.got \in Bindings
    BY <1>2, ConcatProperties DEF Bindings
  <2>2. r.excluded \cup ({o} \cap set) \in SUBSET STRING
    BY <1>1, <1>2
  <2> QED BY <1>1, <1>2, <2>1, <2>2 DEF Rounds, Args, Bindings
<1>4. q.rem = a.rem /\ q.got = r.got \o a.got /\ q.excluded = r.excluded \cup ({o} \cap set)
  BY <1>1
<1>5. Pending(options, set, q) \in SUBSET Pending(options, set, r)
  BY <1>4 DEF Pending
<1>6. PICK m, n, j, k : /\ m = Cardinality(Pending(options, set, q)) /\ n = Cardinality(Pending(options, set, r))
                        /\ j = Weight(q.rem) /\ k = Weight(r.rem)
  OBVIOUS
<1>7. /\ m \in Nat /\ n \in Nat /\ j \in Nat /\ k \in Nat /\ m <= n
      /\ RoundsLeft(options, set, q) = j + m /\ RoundsLeft(options, set, r) = k + n
  BY <1>3, <1>5, <1>6, LeftTyped, FS_Subset DEF RoundsLeft
<1>8. CASE Weight(a.rem) < Weight(r.rem)
  <2>1. j < k /\ Onward(q, r)
    BY <1>4, <1>6, <1>8 DEF Onward
  <2>2. j + m < k + n
    BY <1>7, <2>1
  <2> QED BY <1>3, <1>7, <2>1, <2>2
<1>9. CASE ~(Weight(a.rem) < Weight(r.rem))
  <2>1. a.rem = r.rem /\ a.got = <<>> /\ o \in set
    BY <1>1, <1>9 DEF AnswersOf
  <2>2. q.rem = r.rem /\ q.got = r.got
    <3>1. r.got \o <<>> = r.got
      BY <1>2, ConcatEmptySeq DEF Bindings
    <3> QED BY <1>4, <2>1, <3>1
  <2>3. i \in Pending(options, set, r) /\ i \notin Pending(options, set, q)
    BY <1>1, <1>4, <2>1 DEF Pending, o
  <2>4. Pending(options, set, q) # Pending(options, set, r)
    BY <2>3
  <2>5. m # n
    BY <1>5, <1>6, <2>4, LeftTyped, FS_Subset
  <2>6. m < n /\ j = k
    BY <1>6, <1>7, <2>2, <2>5
  <2> QED BY <1>3, <1>7, <2>2, <2>6 DEF Onward
<1> QED BY <1>8, <1>9

\* A search goes on after a good round, and ends after another.
Goes(options, reject, set, r) ==
  {q \in Rounds : /\ Onward(q, r) /\ RoundsLeft(options, set, q) < RoundsLeft(options, set, r)
                  /\ \A h : Rounded(options, reject, set, r, h) = h[q]}

LEMMA RoundOrEnd ==
  ASSUME NEW options, NEW reject, NEW set, NEW r, options \in Seq(STRING), r \in Rounds
  PROVE  (\A h : Rounded(options, reject, set, r, h) = r) \/ Goes(options, reject, set, r) # {}
<1>1. PICK next : next = Try(options, r.rem, reject, set, r.excluded)
  OBVIOUS
<1>2. \A h : Rounded(options, reject, set, r, h) = IF next.ok THEN h[Goal(r, next)] ELSE r
  BY <1>1 DEF Rounded, Again, Goal
<1>3. \/ next.ok = FALSE
      \/ /\ next.ok = TRUE
         /\ \E i \in 1 .. Len(options) : \E a : IsRound(Goal(r, next), r, options[i], a, set)
  BY <1>1, TriesOne
<1>4. CASE next.ok = FALSE
  BY <1>2, <1>4
<1>5. CASE next.ok = TRUE
  <2>1. PICK q : q = Goal(r, next)
    OBVIOUS
  <2>2. PICK i \in 1 .. Len(options) : \E a : IsRound(q, r, options[i], a, set)
    BY <1>3, <1>5, <2>1
  <2>3. q \in Rounds /\ Onward(q, r) /\ RoundsLeft(options, set, q) < RoundsLeft(options, set, r)
    BY <2>2, RoundGoesOn
  <2>4. \A h : Rounded(options, reject, set, r, h) = h[q]
    BY <1>2, <1>5, <2>1
  <2>5. q \in Goes(options, reject, set, r)
    BY <2>3, <2>4 DEF Goes
  <2> QED BY <2>5
<1> QED BY <1>3, <1>4, <1>5

LEMMA OptsAnswers ==
  ASSUME NEW options \in Seq(STRING), NEW args \in Args, NEW reject, NEW set
  PROVE  MatchOpts(options, args, reject, set) \in AnswersTo(args)
<1> DEFINE D == Rounds
           H(r, h) == Rounded(options, reject, set, r, h)
           G == [p \in D \X [D -> D] |-> H(p[1], p[2])]
           rank == [r \in D |-> RoundsLeft(options, set, r)]
           start == NoRound(args, {})
<1>1. start \in Rounds /\ start.rem = args
  BY DEF NoRound, Rounds, Args
<1>2. rank \in [D -> Nat] /\ \A r \in D : rank[r] = RoundsLeft(options, set, r)
  BY LeftTyped
<1> HIDE DEF start, rank
<1>3. ASSUME NEW r \in D
      PROVE  \/ \A h : H(r, h) = r
             \/ \E q \in D : Onward(q, r) /\ rank[q] < rank[r] /\ \A h : H(r, h) = h[q]
  <2>1. CASE \A h : H(r, h) = r
    BY <2>1
  <2>2. CASE Goes(options, reject, set, r) # {}
    <3>1. PICK q : q \in Goes(options, reject, set, r)
      BY <2>2
    <3>2. /\ q \in D /\ Onward(q, r) /\ RoundsLeft(options, set, q) < RoundsLeft(options, set, r)
          /\ \A h : H(r, h) = h[q]
      BY <3>1 DEF Goes
    <3> QED BY <1>2, <3>2
  <2> QED BY <2>1, <2>2, RoundOrEnd
<1> HIDE DEF H
<1>4. Ranked(D, D, rank, G)
  <2>1. G \in [D \X [D -> D] -> D]
    <3>1. ASSUME NEW r \in D, NEW h \in [D -> D] PROVE H(r, h) \in D
      <4> HIDE DEF D
      <4> QED BY <1>3
    <3>2. \A p \in D \X [D -> D] : H(p[1], p[2]) \in D
      BY <3>1
    <3> QED BY <3>2
  <2>2. ASSUME NEW r \in D, NEW h \in [D -> D], NEW k \in [D -> D],
               \A q \in D : rank[q] < rank[r] => h[q] = k[q]
        PROVE  G[<<r, h>>] = G[<<r, k>>]
    <3>1. H(r, h) = H(r, k)
      <4> HIDE DEF D
      <4> QED BY <1>3, <2>2
    <3> QED BY <3>1
  <2> HIDE DEF G, D
  <2>3. D # {}
    BY <1>1 DEF D
  <2> QED BY <1>2, <2>1, <2>2, <2>3 DEF Ranked
<1>5. PICK f : Computed(f, D, D, G)
  <2> HIDE DEF D, G
  <2> QED BY <1>4, Recursion
<1>6. f \in [D -> D] /\ \A r \in D : f[r] = H(r, f)
  BY <1>5 DEF Computed
<1>7. f = [r \in D |-> H(r, f)]
  <2> HIDE DEF D
  <2> QED BY <1>6
<1> DEFINE fix == CHOOSE s : s = [r \in D |-> H(r, s)]
<1>8. fix = [r \in D |-> H(r, fix)]
  BY <1>7, Zenon
<1>9. MatchOpts(options, args, reject, set) = AnyRound(fix[start], args)
  BY Zenon DEF MatchOpts, H, Rounded, start
<1> HIDE DEF fix
<1>10. \A r \in D : fix[r] = H(r, fix)
  <2> HIDE DEF D
  <2> QED BY <1>8
<1> HIDE DEF D
<1> DEFINE Equals == {r \in D : fix[r] \in D /\ Onward(fix[r], r)}
<1>11. ASSUME NEW r \in D, \A q \in D : rank[q] < rank[r] => q \in Equals
       PROVE  r \in Equals
  <2>1. CASE \A h : H(r, h) = r
    <3>1. fix[r] = r
      BY <1>10, <2>1
    <3> QED BY <3>1 DEF Onward
  <2>2. CASE \E q \in D : Onward(q, r) /\ rank[q] < rank[r] /\ \A h : H(r, h) = h[q]
    <3>1. PICK q \in D : Onward(q, r) /\ rank[q] < rank[r] /\ \A h : H(r, h) = h[q]
      BY <2>2
    <3>2. fix[r] = fix[q] /\ fix[q] \in D /\ Onward(fix[q], q)
      BY <1>10, <1>11, <3>1
    <3>3. PICK m : m = fix[q]
      OBVIOUS
    <3>4. m \in Rounds /\ q \in Rounds /\ r \in Rounds /\ Onward(m, q) /\ Onward(q, r)
      BY <3>1, <3>2, <3>3 DEF D
    <3>5. Weight(m.rem) \in Nat /\ Weight(q.rem) \in Nat /\ Weight(r.rem) \in Nat
      BY <3>4, LeftTyped
    <3>6. Onward(m, r)
      BY <3>4, <3>5 DEF Onward
    <3> QED BY <3>2, <3>3, <3>6
  <2> QED BY <1>3, <2>1, <2>2
<1>12. D \subseteq Equals
  <2> HIDE DEF Equals
  <2> QED BY <1>2, <1>11, RankInduction
<1>13. PICK last : last = fix[start]
  OBVIOUS
<1>14. last \in Rounds /\ Onward(last, start)
  <2>1. start \in Equals
    BY <1>1, <1>12 DEF D
  <2> QED BY <1>13, <2>1 DEF D
<1>15. start.got = <<>>
  BY DEF start, NoRound
<1>16. AnyRound(last, args) \in AnswersTo(args)
  <2>1. <<>> \in Bindings
    BY DEF Bindings
  <2> QED BY <1>1, <1>14, <1>15, <2>1 DEF AnyRound, Matches, NoMatch, AnswersTo, Onward, Rounds, Args, Bindings
<1> QED BY <1>9, <1>13, <1>16

LEMMA ArgAnswers ==
  ASSUME NEW a \in STRING, NEW args \in Args, NEW reject
  PROVE  MatchArg(a, args, reject) \in AnswersTo(args)
<1>1. <<>> \in Bindings
  BY DEF Bindings
<1>2. CASE args = <<>> \/ (~reject /\ HasDash(args[1]) /\ args[1].k # "dash")
  BY <1>1, <1>2 DEF MatchArg, NoMatch, AnswersTo
<1>3. CASE ~(args = <<>> \/ (~reject /\ HasDash(args[1]) /\ args[1].k # "dash"))
  <2>1. Lighter(Tail(args), args) /\ args[1] \in Argument
    BY <1>3, FirstTaken
  <2>2. <<Binding(a, args[1])>> \in Bindings
    BY <2>1 DEF Bindings, Binding
  <2>3. MatchArg(a, args, reject) = Matches(Tail(args), <<Binding(a, args[1])>>)
    BY <1>3 DEF MatchArg
  <2>4. PICK rem, taken : rem = Tail(args) /\ taken = <<Binding(a, args[1])>>
    OBVIOUS
  <2>5. Matches(rem, taken) \in AnswersTo(args)
    BY <2>1, <2>2, <2>4 DEF Matches, AnswersTo, Lighter
  <2> QED BY <2>3, <2>4, <2>5
<1> QED BY <1>2, <1>3

\* No matcher binds without taking something of the line, whatever the line, the
\* matcher, the options before it and the values in the environment.
THEOREM TakesOrLeaves ==
  ASSUME NEW m, IsMatcher(m), NEW args \in Seq(Argument), NEW reject, NEW set
  PROVE  Match(m, args, reject, set) \in AnswersTo(args)
<1>0. args \in Args
  BY DEF Args
<1>1. CASE m.kind = "arg"
  BY <1>0, <1>1, ArgAnswers DEF Match, IsMatcher
<1>2. CASE m.kind = "opt"
  <2>1. MatchOpt(m.opt, args, reject, set) \in AnswersOf(m.opt, args, set)
    BY <1>0, <1>2, OptAnswers DEF IsMatcher
  <2>2. MatchOpt(m.opt, args, reject, set) \in AnswersTo(args)
    BY <2>1 DEF AnswersOf, AnswersTo
  <2> QED BY <1>2, <2>2 DEF Match
<1>3. CASE m.kind = "opts"
  BY <1>0, <1>3, OptsAnswers DEF Match, IsMatcher
<1>4. CASE m.kind \notin {"arg", "opt", "opts"}
  <2>1. Match(m, args, reject, set) = Matches(args, <<>>)
    BY <1>4 DEF Match
  <2>2. <<>> \in Bindings
    BY DEF Bindings
  <2> QED BY <1>0, <2>1, <2>2 DEF Matches, AnswersTo
<1> QED BY <1>1, <1>2, <1>3, <1>4

(***************************************************************************)
(* What it is to read a line.                                              *)
(***************************************************************************)

\* What is left of a line, and whether the options have ended.
At(args, reject) == [args |-> args, reject |-> reject]

\* The answer of a matcher there, with the environment v, and what it leaves.
Answer(m, c, v) == Match(m, Rest(c), Reject(c), v)
After(m, c, v)  == At(Answer(m, c, v).rem, RejectAfter(m, Reject(c)))

\* The matchers of w take one after the other what is left of the line, through
\* the situations c, and leave nothing.
Consumes(w, c, v) ==
  /\ \A i \in 1 .. Len(w) : Answer(w[i], c[i], v).ok /\ c[i + 1] = After(w[i], c[i], v)
  /\ c[Len(w) + 1].args = <<>>

\* Some word of W reads what is left.
Readable(W, args, reject, v) ==
  \E w \in W : \E c : c[1] = At(args, reject) /\ Consumes(w, c, v)

\* The words of the spec: those of the automaton as the parser built it.
Meaning == SP!Language(built.tr, built.terminal)

(***************************************************************************)
(* Lemmas about the operators the model is built from.                     *)
(***************************************************************************)

\* The sort moves the transitions of a state, and no more.
LEMMA SortedSame ==
  ASSUME NEW E, NEW ts \in Seq(E)
  PROVE  Sorted(ts) \in Seq(E) /\ ToSet(Sorted(ts)) = ToSet(ts)
<1> DEFINE I == {i \in DOMAIN ts : IsOption(ts[i])}
           J == DOMAIN ts \ I
           a == Chosen(ts, I)
           b == Chosen(ts, J)
<1>1. Sorted(ts) = Reverse(a) \o b
  BY DEF Sorted
<1>2. I \in SUBSET DOMAIN ts /\ J \in SUBSET DOMAIN ts /\ I \cup J = DOMAIN ts
  OBVIOUS
<1> HIDE DEF I, J
<1>3. a \in Seq(E) /\ ToSet(a) = {ts[i] : i \in I}
  BY <1>2, ChosenElements
<1>4. b \in Seq(E) /\ ToSet(b) = {ts[i] : i \in J}
  BY <1>2, ChosenElements
<1> HIDE DEF a, b
<1>5. Reverse(a) \in Seq(E) /\ ToSet(Reverse(a)) = ToSet(a)
  BY <1>3, ReversedSame
<1>6. /\ Reverse(a) \o b \in Seq(E)
      /\ ToSet(Reverse(a) \o b) = ToSet(Reverse(a)) \cup ToSet(b)
  BY <1>4, <1>5, Concatenated
<1>7. ToSet(ts) = {ts[i] : i \in DOMAIN ts}
  BY Members
<1>8. ToSet(ts) = {ts[i] : i \in I} \cup {ts[i] : i \in J}
  BY <1>2, <1>7
<1> QED BY <1>1, <1>3, <1>4, <1>5, <1>6, <1>8

\* What the transitions T of a state lead to from a call.
LeadsOf(T, f, v) == {Leads(t, Answer(t.m, f, v), f) : t \in T}

\* The matches a call follows are the leads of its transitions that are ok.
LEMMA MatchesOfLeads ==
  ASSUME NEW E, NEW ts \in Seq(E), NEW f, NEW v, NEW T, T = ToSet(ts)
  PROVE  /\ MatchesOf(ts, f, v) \in Seq({x \in LeadsOf(T, f, v) : x.ok})
         /\ ToSet(MatchesOf(ts, f, v)) = {x \in LeadsOf(T, f, v) : x.ok}
<1> DEFINE answers == [i \in DOMAIN ts |-> Leads(ts[i], Answer(ts[i].m, f, v), f)]
           I == {i \in DOMAIN ts : answers[i].ok}
           X == {x \in LeadsOf(T, f, v) : x.ok}
           ms == Chosen(answers, I)
<1>1. MatchesOf(ts, f, v) = ms
  BY DEF MatchesOf, Answer
<1>2. Len(ts) \in Nat /\ DOMAIN ts = 1 .. Len(ts) /\ T = {ts[i] : i \in 1 .. Len(ts)}
  BY Members
<1>3. answers \in Seq(LeadsOf(T, f, v)) /\ DOMAIN answers = DOMAIN ts
  <2>1. \A i \in 1 .. Len(ts) : Leads(ts[i], Answer(ts[i].m, f, v), f) \in LeadsOf(T, f, v)
    BY <1>2 DEF LeadsOf
  <2>2. answers \in [1 .. Len(ts) -> LeadsOf(T, f, v)]
    BY <1>2, <2>1
  <2> QED BY <1>2, <2>2
<1>4. X = {answers[i] : i \in I}
  <2>1. LeadsOf(T, f, v) = {answers[i] : i \in DOMAIN ts}
    BY <1>2 DEF LeadsOf
  <2> HIDE DEF answers
  <2> QED BY <2>1
<1> HIDE DEF answers, X
<1>5. I \in SUBSET DOMAIN answers
  BY <1>3
<1> HIDE DEF I
<1>6. ms \in Seq(LeadsOf(T, f, v)) /\ ToSet(ms) = X
  BY <1>3, <1>4, <1>5, ChosenElements
<1>7. ms \in Seq(X)
  BY <1>6, SeqOfMembers
<1> QED BY <1>1, <1>6, <1>7 DEF X

\* A word with a matcher before it, and one with a matcher in between.
LEMMA Prefixed ==
  ASSUME NEW E, NEW m \in E, NEW u \in Seq(E)
  PROVE  /\ Len(u) \in Nat /\ <<m>> \o u \in Seq(E) /\ Len(<<m>> \o u) = Len(u) + 1
         /\ (<<m>> \o u)[1] = m
         /\ \A i \in 1 .. Len(u) : (<<m>> \o u)[i + 1] = u[i]
         /\ \A w \in Seq(E) : Append(w, m) \o u = w \o (<<m>> \o u)
<1>1. Len(u) \in Nat
  BY LenProperties
<1>2. <<m>> \in Seq(E)
  OBVIOUS
<1>3. Len(<<m>>) = 1 /\ <<m>>[1] = m
  OBVIOUS
<1> DEFINE w == <<m>>
<1> HIDE DEF w
<1>4. /\ w \o u \in Seq(E) /\ Len(w \o u) = Len(w) + Len(u)
      /\ \A i \in 1 .. Len(w) + Len(u) : (w \o u)[i] = IF i <= Len(w) THEN w[i] ELSE u[i - Len(w)]
  BY <1>2, ConcatProperties DEF w
<1>5. Len(w \o u) = Len(u) + 1 /\ (w \o u)[1] = m
  BY <1>1, <1>3, <1>4 DEF w
<1>6. \A i \in 1 .. Len(u) : (w \o u)[i + 1] = u[i]
  <2> SUFFICES ASSUME NEW i \in 1 .. Len(u) PROVE (w \o u)[i + 1] = u[i]
    OBVIOUS
  <2>1. Len(w) = 1
    BY <1>3 DEF w
  <2>2. i + 1 \in 1 .. Len(w) + Len(u) /\ ~(i + 1 <= Len(w)) /\ i + 1 - Len(w) = i
    BY <1>1, <2>1
  <2> QED BY <1>4, <2>2
<1>7. ASSUME NEW x \in Seq(E) PROVE Append(x, m) \o u = x \o (w \o u)
  <2>1. Append(x, m) = x \o w
    BY <1>2, AppendIsConcat DEF w
  <2> QED BY <1>2, <2>1, ConcatAssociative DEF w
<1> QED BY <1>1, <1>4, <1>5, <1>6, <1>7 DEF w

\* A word with a matcher behind it.
LEMMA Suffixed ==
  ASSUME NEW E, NEW m \in E, NEW w \in Seq(E)
  PROVE  /\ Append(w, m) \in Seq(E) /\ Len(Append(w, m)) = Len(w) + 1
         /\ \A i \in 1 .. Len(w) : Append(w, m)[i] = w[i]
         /\ Append(w, m)[Len(w) + 1] = m
BY AppendProperties

\* A situation is all a matcher answers to.
LEMMA SameAnswer ==
  ASSUME NEW c, NEW f, c.args = f.args, c.reject = f.reject, NEW m, NEW v
  PROVE  Answer(m, c, v) = Answer(m, f, v) /\ Reject(c) = Reject(f)
BY DEF Answer, Rest, Reject, Ends

(***************************************************************************)
(* The calls under way, and what is known of them.  A search is on an      *)
(* automaton without shortcuts: its states, their transitions, those that  *)
(* are terminal and the words each accepts; from a state, for a line, with *)
(* an environment.                                                         *)
(***************************************************************************)
IsAutomaton(states, from, terminals, words, matchers, start) ==
  /\ start \in states
  /\ \A s \in states : \A t \in from[s] :
       /\ ~IsShortcut(t) /\ t.next \in states /\ t.m \in matchers
       /\ \A u \in words[t.next] : <<t.m>> \o u \in words[s]
  /\ \A s \in states :
       /\ words[s] \subseteq Seq(matchers)
       /\ s \in terminals => <<>> \in words[s]
       /\ \A w \in words[s] :
            \/ s \in terminals /\ w = <<>>
            \/ \E t \in from[s] : \E u \in words[t.next] : w = <<t.m>> \o u

IsSearch(a) == IsAutomaton(a.states, a.from, a.terminal, a.words, a.matchers, a.start)

\* Some word reads the line from a call, or from what a match leads to.
CallReads(f, a) == Readable(a.words[f.s], f.args, f.reject, a.env)
LeadReads(x, a) == Readable(a.words[x.next], x.rem, x.reject, a.env)

GoodLeads(f, a) == {x \in LeadsOf(a.from[f.s], f, a.env) : x.ok}

\* A call has before it matches of its own, and while it is open, if a word reads
\* the line from there, a match that leads to the rest of one.
CallInv(f, a) ==
  /\ f.s \in a.states /\ f.open \in BOOLEAN /\ f.todo \in Seq(GoodLeads(f, a))
  /\ ~f.open => f.todo = <<>>
  /\ f.open /\ CallReads(f, a) => \E x \in ToSet(f.todo) : LeadReads(x, a)

\* A call waits for the call that follows its first match.
Waits(f, next) ==
  /\ f.open /\ f.todo # <<>>
  /\ next.s = f.todo[1].next /\ next.args = f.todo[1].rem /\ next.reject = f.todo[1].reject

\* The matcher m made the match x of a call.
Made(m, x, f, a) ==
  /\ Answer(m, f, a.env).ok /\ x.rem = Answer(m, f, a.env).rem
  /\ x.got = Answer(m, f, a.env).got /\ x.reject = RejectAfter(m, Reject(f))

\* The matches the calls below the k-th follow spell the start of words of the
\* automaton: what the k-th accepts completes them.
Spelled(st, k, a) ==
  \E w \in Seq(a.matchers) :
    /\ Len(w) = k - 1
    /\ \A i \in 1 .. k - 1 : Made(w[i], st[i].todo[1], st[i], a)
    /\ \A u \in a.words[st[k].s] : w \o u \in a.words[a.start]

StackInv(st, a) ==
  /\ \E X : st \in Seq(X)
  /\ st # <<>> => st[1].s = a.start /\ st[1].args = a.line /\ st[1].reject = FALSE
  /\ \A k \in 1 .. Len(st) : CallInv(st[k], a) /\ Spelled(st, k, a)
  /\ \A k \in 1 .. Len(st) - 1 : Waits(st[k], st[k + 1])

\* If a word reads the line from a call that is not at its end, one of the matches
\* leads to the rest of that word.
LEMMA ReadsOn ==
  ASSUME NEW a, IsSearch(a), NEW f, f.s \in a.states, CallReads(f, a),
         ~(f.s \in a.terminal /\ f.args = <<>>)
  PROVE  \E x \in GoodLeads(f, a) : LeadReads(x, a)
<1>1. PICK w, c : w \in a.words[f.s] /\ c[1] = At(f.args, f.reject) /\ Consumes(w, c, a.env)
  BY DEF CallReads, Readable
<1>2. c[1].args = f.args /\ c[1].reject = f.reject
  BY <1>1 DEF At
<1>3. w # <<>> \/ f.s \notin a.terminal
  <2>1. Len(<<>>) = 0
    OBVIOUS
  <2> QED BY <1>1, <1>2, <2>1 DEF Consumes
<1>4. PICK t \in a.from[f.s] : \E u \in a.words[t.next] : w = <<t.m>> \o u
  BY <1>1, <1>3 DEF IsSearch, IsAutomaton
<1>5. PICK u \in a.words[t.next] : w = <<t.m>> \o u
  BY <1>4
<1>6. t.m \in a.matchers /\ u \in Seq(a.matchers) /\ t.next \in a.states
  BY DEF IsSearch, IsAutomaton
<1>7. /\ Len(u) \in Nat /\ Len(w) = Len(u) + 1 /\ w[1] = t.m
      /\ \A i \in 1 .. Len(u) : w[i + 1] = u[i]
  BY <1>5, <1>6, Prefixed
<1> DEFINE m == t.m
           x == Leads(t, Answer(m, f, a.env), f)
           d == [i \in 1 .. Len(u) + 1 |-> c[i + 1]]
<1>8. /\ \A i \in 1 .. Len(w) : Answer(w[i], c[i], a.env).ok /\ c[i + 1] = After(w[i], c[i], a.env)
      /\ c[Len(w) + 1].args = <<>>
  BY <1>1 DEF Consumes
<1>9. Answer(m, f, a.env).ok /\ c[2] = At(Answer(m, f, a.env).rem, RejectAfter(m, Reject(f)))
  <2>1. Answer(m, c[1], a.env).ok /\ c[1 + 1] = After(m, c[1], a.env)
    BY <1>7, <1>8
  <2>2. Answer(m, c[1], a.env) = Answer(m, f, a.env) /\ Reject(c[1]) = Reject(f)
    BY <1>2, SameAnswer
  <2> QED BY <2>1, <2>2 DEF After
<1>10. /\ x.ok /\ x.next = t.next /\ x.rem = Answer(m, f, a.env).rem
      /\ x.reject = RejectAfter(m, Reject(f)) /\ x \in LeadsOf(a.from[f.s], f, a.env)
  BY <1>9 DEF Leads, LeadsOf
<1>11. d[1] = At(x.rem, x.reject)
  BY <1>7, <1>9, <1>10
<1>12. Consumes(u, d, a.env)
  <2>1. ASSUME NEW i \in 1 .. Len(u)
        PROVE  Answer(u[i], d[i], a.env).ok /\ d[i + 1] = After(u[i], d[i], a.env)
    <3>1. i + 1 \in 1 .. Len(w) /\ w[i + 1] = u[i] /\ d[i] = c[i + 1] /\ d[i + 1] = c[i + 1 + 1]
      BY <1>7
    <3> QED BY <1>8, <3>1
  <2>2. d[Len(u) + 1] = c[Len(w) + 1]
    BY <1>7
  <2> QED BY <1>8, <2>1, <2>2 DEF Consumes
<1>13. LeadReads(x, a)
  <2> HIDE DEF d, x
  <2> QED BY <1>10, <1>11, <1>12 DEF LeadReads, Readable
<1> QED BY <1>10, <1>13 DEF GoodLeads

\* Where the calls are.
LEMMA Stacked ==
  ASSUME NEW a, NEW st, StackInv(st, a), st # <<>>
  PROVE  Len(st) \in Nat /\ Len(st) > 0 /\ DOMAIN st = 1 .. Len(st)
<1>1. PICK X : st \in Seq(X)
  BY DEF StackInv
<1> QED BY <1>1, EmptySeq, LenProperties

\* The call on top may forget matches that lead nowhere, or find its matches.
LEMMA TopChanged ==
  ASSUME NEW a, NEW st, StackInv(st, a), st # <<>>, NEW n, n = Len(st),
         NEW new, \E X : new \in Seq(X), Len(new) = n,
         \A k \in 1 .. n - 1 : new[k] = st[k],
         new[n].s = st[n].s, new[n].args = st[n].args, new[n].reject = st[n].reject,
         CallInv(new[n], a)
  PROVE  StackInv(new, a)
<1>1. n \in Nat /\ n > 0
  BY Stacked
<1>2. ASSUME NEW k \in 1 .. n
      PROVE  new[k].s = st[k].s /\ new[k].args = st[k].args /\ new[k].reject = st[k].reject
  <2>1. CASE k = n
    BY <2>1
  <2>2. CASE k # n
    <3>1. k \in 1 .. n - 1
      BY <1>1, <2>2
    <3> QED BY <3>1
  <2> QED BY <2>1, <2>2
<1>3. ASSUME NEW k \in 1 .. n PROVE CallInv(new[k], a)
  <2>1. CASE k = n
    BY <2>1
  <2>2. CASE k # n
    <3>1. k \in 1 .. n - 1
      BY <1>1, <2>2
    <3> QED BY <3>1 DEF StackInv
  <2> QED BY <2>1, <2>2
<1>4. ASSUME NEW k \in 1 .. n PROVE Spelled(new, k, a)
  <2>1. PICK w \in Seq(a.matchers) :
          /\ Len(w) = k - 1
          /\ \A i \in 1 .. k - 1 : Made(w[i], st[i].todo[1], st[i], a)
          /\ \A u \in a.words[st[k].s] : w \o u \in a.words[a.start]
    BY DEF StackInv, Spelled
  <2>2. \A i \in 1 .. k - 1 : Made(w[i], new[i].todo[1], new[i], a)
    <3> SUFFICES ASSUME NEW i \in 1 .. k - 1 PROVE Made(w[i], new[i].todo[1], new[i], a)
      OBVIOUS
    <3>1. i \in 1 .. n - 1
      BY <1>1
    <3> QED BY <2>1, <3>1
  <2>3. a.words[new[k].s] = a.words[st[k].s]
    BY <1>2
  <2> QED BY <2>1, <2>2, <2>3 DEF Spelled
<1>5. ASSUME NEW k \in 1 .. n - 1 PROVE Waits(new[k], new[k + 1])
  <2>1. k + 1 \in 1 .. n
    BY <1>1
  <2>2. Waits(st[k], st[k + 1])
    BY DEF StackInv
  <2> QED BY <1>2, <2>1, <2>2 DEF Waits
<1>6. new[1].s = a.start /\ new[1].args = a.line /\ new[1].reject = FALSE
  BY <1>1, <1>2 DEF StackInv
<1> QED BY <1>3, <1>4, <1>5, <1>6 DEF StackInv

\* What is known of the calls below the top does not depend on it.
LEMMA Lowered ==
  ASSUME NEW a, NEW st, StackInv(st, a), Len(st) # 1, st # <<>>
  PROVE  /\ StackInv(Popped(st), a) /\ Popped(st) # <<>> /\ Len(Popped(st)) = Len(st) - 1
         /\ \A k \in 1 .. Len(st) - 1 : Popped(st)[k] = st[k]
<1> DEFINE n   == Len(st)
           low == Popped(st)
<1>1. PICK X : st \in Seq(X)
  BY DEF StackInv
<1>2. /\ n \in Nat /\ n > 1 /\ low \in Seq(X) /\ Len(low) = n - 1
      /\ \A k \in 1 .. n - 1 : low[k] = st[k]
  <2>1. /\ n \in Nat /\ n > 0 /\ low \in Seq(X) /\ Len(low) = n - 1
        /\ \A k \in 1 .. n - 1 : low[k] = st[k]
    BY <1>1, PoppedStack
  <2>2. n # 1
    OBVIOUS
  <2> HIDE DEF n, low
  <2> QED BY <2>1, <2>2
<1>3. low # <<>>
  BY <1>2
<1> HIDE DEF low
<1>4. ASSUME NEW k \in 1 .. n - 1 PROVE CallInv(low[k], a) /\ Spelled(low, k, a)
  <2>1. k \in 1 .. n /\ \A i \in 1 .. k - 1 : i \in 1 .. n - 1
    BY <1>2
  <2>2. CallInv(low[k], a) /\ Spelled(st, k, a)
    BY <1>2, <2>1 DEF StackInv
  <2> QED BY <1>2, <2>1, <2>2 DEF Spelled
<1>5. ASSUME NEW k \in 1 .. (n - 1) - 1 PROVE Waits(low[k], low[k + 1])
  <2>1. k \in 1 .. n - 1 /\ k + 1 \in 1 .. n - 1
    BY <1>2
  <2> QED BY <1>2, <2>1 DEF StackInv
<1>6. low[1].s = a.start /\ low[1].args = a.line /\ low[1].reject = FALSE
  <2>1. 1 \in 1 .. n - 1
    BY <1>2
  <2> QED BY <1>2, <2>1 DEF StackInv
<1>7. StackInv(low, a)
  BY <1>2, <1>4, <1>5, <1>6 DEF StackInv
<1> QED BY <1>2, <1>3, <1>7 DEF low

\* A match of a call is the answer of the matcher of one of its transitions.
LEMMA GoodLead ==
  ASSUME NEW a, NEW f, NEW x \in GoodLeads(f, a)
  PROVE  \E t \in a.from[f.s] : x.next = t.next /\ Made(t.m, x, f, a)
<1>1. x \in LeadsOf(a.from[f.s], f, a.env) /\ x.ok
  BY DEF GoodLeads
<1>2. PICK t \in a.from[f.s] : x = Leads(t, Answer(t.m, f, a.env), f)
  BY <1>1 DEF LeadsOf
<1> QED BY <1>1, <1>2 DEF Leads, Made

\* The matches of a call depend on its state and on what is left of the line.
LEMMA SameLeads ==
  ASSUME NEW a, NEW f, NEW g, g.s = f.s, g.args = f.args, g.reject = f.reject
  PROVE  GoodLeads(g, a) = GoodLeads(f, a) /\ CallReads(g, a) = CallReads(f, a)
<1>1. \A t : Leads(t, Answer(t.m, g, a.env), g) = Leads(t, Answer(t.m, f, a.env), f)
  <2> SUFFICES ASSUME NEW t
               PROVE  Leads(t, Answer(t.m, g, a.env), g) = Leads(t, Answer(t.m, f, a.env), f)
    OBVIOUS
  <2>1. Answer(t.m, g, a.env) = Answer(t.m, f, a.env) /\ Reject(g) = Reject(f)
    BY SameAnswer
  <2> QED BY <2>1 DEF Leads
<1>2. LeadsOf(a.from[f.s], g, a.env) = LeadsOf(a.from[f.s], f, a.env)
  BY <1>1 DEF LeadsOf
<1> QED BY <1>2 DEF GoodLeads, CallReads

\* parse calls apply on the start state, with the whole line.
LEMMA Started ==
  ASSUME NEW a, IsSearch(a)
  PROVE  StackInv(<<Frame(a.start, a.line, FALSE)>>, a)
<1> DEFINE f  == Frame(a.start, a.line, FALSE)
           st == <<f>>
<1>1. /\ f.s = a.start /\ f.args = a.line /\ f.reject = FALSE /\ f.open = FALSE /\ f.todo = <<>>
  BY DEF Frame
<1>2. st \in Seq({f}) /\ Len(st) = 1 /\ st[1] = f
  OBVIOUS
<1> HIDE DEF f
<1>3. CallInv(f, a)
  <2>1. <<>> \in Seq(GoodLeads(f, a))
    BY EmptySeq
  <2> QED BY <1>1, <2>1 DEF CallInv, IsSearch, IsAutomaton
<1>4. Spelled(st, 1, a)
  <2>1. <<>> \in Seq(a.matchers) /\ Len(<<>>) = 1 - 1
    BY EmptySeq
  <2>2. ASSUME NEW u \in a.words[a.start] PROVE <<>> \o u = u
    <3>1. u \in Seq(a.matchers)
      BY DEF IsSearch, IsAutomaton
    <3> QED BY <3>1, ConcatEmptySeq
  <2>3. \A i \in 1 .. 1 - 1 : FALSE
    OBVIOUS
  <2> QED BY <1>1, <1>2, <2>1, <2>2, <2>3 DEF Spelled
<1> HIDE DEF st
<1>5. \A k \in 1 .. Len(st) : k = 1
  BY <1>2
<1>6. \A k \in 1 .. Len(st) - 1 : FALSE
  BY <1>2
<1>7. StackInv(st, a)
  BY <1>1, <1>2, <1>3, <1>4, <1>5, <1>6 DEF StackInv
<1> QED BY <1>7 DEF st, f

\* A call that is not at its end finds all its matches.
LEMMA ExpandedCall ==
  ASSUME NEW a, IsSearch(a), NEW f, CallInv(f, a),
         ~(f.s \in a.terminal /\ f.args = <<>>),
         NEW ms \in Seq(GoodLeads(f, a)), ToSet(ms) = GoodLeads(f, a)
  PROVE  CallInv(Opened(f, ms), a)
<1> DEFINE g == Opened(f, ms)
<1>1. g.s = f.s /\ g.args = f.args /\ g.reject = f.reject /\ g.open = TRUE /\ g.todo = ms
  BY DEF Opened
<1> HIDE DEF g
<1>2. GoodLeads(g, a) = GoodLeads(f, a) /\ CallReads(g, a) = CallReads(f, a)
  BY <1>1, SameLeads
<1>3. CallReads(f, a) => \E x \in ToSet(ms) : LeadReads(x, a)
  BY ReadsOn DEF CallInv
<1>4. CallInv(g, a)
  BY <1>1, <1>2, <1>3 DEF CallInv
<1> QED BY <1>4 DEF g

\* A call gives up a match that leads to no word.
LEMMA PoorerCall ==
  ASSUME NEW a, NEW f, CallInv(f, a), f.open, f.todo # <<>>, ~LeadReads(f.todo[1], a)
  PROVE  CallInv(Opened(f, Tail(f.todo)), a)
<1> DEFINE ms == Tail(f.todo)
           g  == Opened(f, ms)
<1>1. g.s = f.s /\ g.args = f.args /\ g.reject = f.reject /\ g.open = TRUE /\ g.todo = ms
  BY DEF Opened
<1>2. f.todo \in Seq(GoodLeads(f, a)) /\ f.s \in a.states
  BY DEF CallInv
<1>3. ms \in Seq(GoodLeads(f, a))
  BY <1>2, HeadTailProperties
<1>4. ASSUME NEW x \in ToSet(f.todo), x # f.todo[1] PROVE x \in ToSet(ms)
  BY <1>2, <1>4, TailHolds
<1> HIDE DEF g, ms
<1>5. GoodLeads(g, a) = GoodLeads(f, a) /\ CallReads(g, a) = CallReads(f, a)
  BY <1>1, SameLeads
<1>6. CallReads(f, a) => \E x \in ToSet(ms) : LeadReads(x, a)
  BY <1>4 DEF CallInv
<1>7. CallInv(g, a)
  BY <1>1, <1>2, <1>3, <1>5, <1>6 DEF CallInv
<1> QED BY <1>7 DEF g, ms

\* The call on top of the stack is replaced by one for the same situation.
LEMMA TopReplaced ==
  ASSUME NEW a, NEW st, StackInv(st, a), st # <<>>, NEW n, n = Len(st),
         NEW ms, CallInv(Opened(st[n], ms), a)
  PROVE  StackInv([st EXCEPT ![n] = Opened(st[n], ms)], a)
<1> DEFINE g   == Opened(st[n], ms)
           new == [st EXCEPT ![n] = g]
<1>1. n \in Nat /\ n > 0 /\ n \in 1 .. n
  BY Stacked
<1>2. g.s = st[n].s /\ g.args = st[n].args /\ g.reject = st[n].reject
  BY DEF Opened
<1>3. CallInv(g, a)
  OBVIOUS
<1> HIDE DEF g
<1>4. PICK X : st \in Seq(X)
  BY DEF StackInv
<1>5. /\ new \in Seq(X \cup {g}) /\ Len(new) = n
      /\ \A k \in 1 .. n : new[k] = IF k = n THEN g ELSE st[k]
  <2>1. st \in Seq(X \cup {g})
    BY <1>4, SeqMonotonic
  <2> QED BY <1>1, <2>1, ExceptSeq
<1> HIDE DEF new
<1>6. new[n] = g /\ \A k \in 1 .. n - 1 : new[k] = st[k]
  BY <1>1, <1>5
<1>7. StackInv(new, a)
  BY <1>2, <1>3, <1>5, <1>6, TopChanged
<1> QED BY <1>7 DEF new, g

\* A match is followed: the new call goes on with the word.
LEMMA Followed ==
  ASSUME NEW a, IsSearch(a), NEW st, StackInv(st, a), st # <<>>, NEW n, n = Len(st),
         st[n].todo # <<>>, NEW x, x = st[n].todo[1]
  PROVE  StackInv(Append(st, Frame(x.next, x.rem, x.reject)), a)
<1> DEFINE f   == st[n]
           g   == Frame(x.next, x.rem, x.reject)
           new == Append(st, g)
<1>1. n \in Nat /\ n > 0 /\ n \in 1 .. n
  BY Stacked
<1>2. CallInv(f, a) /\ Spelled(st, n, a)
  BY <1>1 DEF StackInv
<1>3. f.s \in a.states /\ f.todo \in Seq(GoodLeads(f, a)) /\ f.open /\ f.todo # <<>> /\ x = f.todo[1]
  BY <1>2 DEF CallInv
<1> HIDE DEF f
<1>4. x \in GoodLeads(f, a)
  <2>1. Len(f.todo) \in Nat \ {0}
    BY <1>3, EmptySeq
  <2>2. 1 \in 1 .. Len(f.todo)
    BY <2>1
  <2> QED BY <1>3, <2>2, ElementOfSeq
<1>5. PICK t \in a.from[f.s] : x.next = t.next /\ Made(t.m, x, f, a)
  BY <1>4, GoodLead
<1>6. /\ t.next \in a.states /\ t.m \in a.matchers
      /\ \A u \in a.words[t.next] : u \in Seq(a.matchers) /\ <<t.m>> \o u \in a.words[f.s]
  BY <1>3 DEF IsSearch, IsAutomaton
<1>7. /\ g.s = x.next /\ g.args = x.rem /\ g.reject = x.reject /\ g.open = FALSE /\ g.todo = <<>>
  BY DEF Frame
<1> HIDE DEF g
<1>8. CallInv(g, a)
  <2>1. <<>> \in Seq(GoodLeads(g, a))
    BY EmptySeq
  <2> QED BY <1>5, <1>6, <1>7, <2>1 DEF CallInv
<1>9. PICK X : st \in Seq(X)
  BY DEF StackInv
<1>10. /\ new \in Seq(X \cup {g}) /\ new # <<>> /\ Len(new) = n + 1
       /\ \A k \in 1 .. n : new[k] = st[k]
       /\ new[n + 1] = g
  <2>1. st \in Seq(X \cup {g})
    BY <1>9, SeqMonotonic
  <2> QED BY <2>1, AppendProperties
<1> HIDE DEF new
<1>11. ASSUME NEW k \in 1 .. n + 1 PROVE CallInv(new[k], a) /\ Spelled(new, k, a)
  <2>1. CASE k \in 1 .. n
    <3>1. \A i \in 1 .. k - 1 : i \in 1 .. n
      BY <1>1, <2>1
    <3>2. CallInv(st[k], a) /\ Spelled(st, k, a)
      BY <2>1 DEF StackInv
    <3> QED BY <1>10, <2>1, <3>1, <3>2 DEF Spelled
  <2>2. CASE k = n + 1
    <3>1. PICK w \in Seq(a.matchers) :
            /\ Len(w) = n - 1
            /\ \A i \in 1 .. n - 1 : Made(w[i], st[i].todo[1], st[i], a)
            /\ \A u \in a.words[f.s] : w \o u \in a.words[a.start]
      BY <1>2 DEF Spelled, f
    <3> DEFINE longer == Append(w, t.m)
    <3>2. /\ longer \in Seq(a.matchers) /\ Len(longer) = n
          /\ \A i \in 1 .. n - 1 : longer[i] = w[i]
          /\ longer[n] = t.m
      <4>1. /\ longer \in Seq(a.matchers) /\ Len(longer) = Len(w) + 1
            /\ \A i \in 1 .. Len(w) : longer[i] = w[i]
            /\ longer[Len(w) + 1] = t.m
        BY <1>6, Suffixed
      <4> HIDE DEF longer
      <4>2. Len(w) + 1 = n
        BY <1>1, <3>1
      <4> QED BY <3>1, <4>1, <4>2
    <3>3. \A u \in a.words[t.next] : longer \o u \in a.words[a.start]
      <4> SUFFICES ASSUME NEW u \in a.words[t.next] PROVE longer \o u \in a.words[a.start]
        OBVIOUS
      <4>1. longer \o u = w \o (<<t.m>> \o u)
        BY <1>6, Prefixed
      <4> QED BY <1>6, <3>1, <4>1
    <3> HIDE DEF longer
    <3>4. ASSUME NEW i \in 1 .. n PROVE Made(longer[i], new[i].todo[1], new[i], a)
      <4>1. CASE i = n
        BY <1>3, <1>5, <1>10, <3>2, <4>1 DEF f
      <4>2. CASE i # n
        <5>1. i \in 1 .. n - 1
          BY <1>1, <4>2
        <5> QED BY <1>10, <3>1, <3>2, <5>1
      <4> QED BY <4>1, <4>2
    <3>5. Len(longer) = k - 1 /\ k - 1 = n /\ new[k].s = t.next
      BY <1>1, <1>5, <1>7, <1>10, <2>2, <3>2
    <3>6. Spelled(new, k, a)
      BY <3>2, <3>3, <3>4, <3>5 DEF Spelled
    <3> QED BY <1>8, <1>10, <2>2, <3>6
  <2> QED BY <1>1, <2>1, <2>2
<1>12. ASSUME NEW k \in 1 .. (n + 1) - 1 PROVE Waits(new[k], new[k + 1])
  <2>1. CASE k = n
    BY <1>1, <1>3, <1>7, <1>10, <2>1 DEF Waits, f
  <2>2. CASE k # n
    <3>1. k \in 1 .. n - 1 /\ k \in 1 .. n /\ k + 1 \in 1 .. n
      BY <1>1, <2>2
    <3> QED BY <1>10, <3>1 DEF StackInv
  <2> QED BY <2>1, <2>2
<1>13. new[1].s = a.start /\ new[1].args = a.line /\ new[1].reject = FALSE
  <2>1. 1 \in 1 .. n
    BY <1>1
  <2> QED BY <1>10, <2>1 DEF StackInv
<1>14. StackInv(new, a)
  BY <1>10, <1>11, <1>12, <1>13 DEF StackInv
<1> QED BY <1>14 DEF new, g

\* A call whose matches all failed reads no word.
LEMMA NothingLeft ==
  ASSUME NEW a, NEW st, StackInv(st, a), st # <<>>, NEW n, n = Len(st),
         st[n].open = TRUE, st[n].todo = <<>>
  PROVE  ~CallReads(st[n], a)
<1>1. n \in 1 .. n
  BY Stacked
<1>2. CallInv(st[n], a)
  BY <1>1 DEF StackInv
<1>3. ToSet(<<>>) = {}
  BY DEF ToSet
<1> QED BY <1>2, <1>3 DEF CallInv

\* The call below gives up the match, and goes on with the next one.
LEMMA Backtracked ==
  ASSUME NEW a, NEW st, StackInv(st, a), st # <<>>, NEW n, n = Len(st), n # 1,
         st[n].open = TRUE, st[n].todo = <<>>
  PROVE  StackInv([Front(st) EXCEPT ![n - 1] = Opened(@, Tail(@.todo))], a)
<1> DEFINE low == Popped(st)
           l   == n - 1
           f   == low[l]
<1>1. n \in Nat /\ n > 1 /\ l \in 1 .. l /\ l \in 1 .. n - 1 /\ l + 1 = n
  BY Stacked
<1>2. StackInv(low, a) /\ low # <<>> /\ Len(low) = l /\ f = st[l]
  BY <1>1, Lowered
<1>3. Waits(st[l], st[n])
  BY <1>1 DEF StackInv
<1>4. ~CallReads(st[n], a)
  BY NothingLeft
<1>5. f.open /\ f.todo # <<>> /\ ~LeadReads(f.todo[1], a)
  BY <1>2, <1>3, <1>4 DEF Waits, CallReads, LeadReads
<1>6. CallInv(f, a)
  BY <1>1, <1>2 DEF StackInv
<1>7. CallInv(Opened(low[l], Tail(f.todo)), a)
  BY <1>5, <1>6, PoorerCall
<1>8. StackInv([low EXCEPT ![l] = Opened(low[l], Tail(f.todo))], a)
  <2> HIDE DEF low, l, f
  <2> QED BY <1>2, <1>7, TopReplaced
<1>9. Front(st) = low
  BY DEF Front, Popped
<1> QED BY <1>8, <1>9

(***************************************************************************)
(* What the answers mean.                                                  *)
(***************************************************************************)

\* A word of W reads the line and binds b.
Read(W, args, v, b) ==
  \E w \in W : \E c :
    /\ c[1] = At(args, FALSE) /\ Consumes(w, c, v)
    /\ b = FlattenSeq([i \in 1 .. Len(w) |-> Answer(w[i], c[i], v).got])

\* The calls under way at a terminal state have read the line along a word.
LEMMA Accepted ==
  ASSUME NEW a, IsSearch(a), NEW st, StackInv(st, a), st # <<>>, NEW n, n = Len(st),
         st[n].s \in a.terminal, st[n].args = <<>>
  PROVE  Read(a.words[a.start], a.line, a.env,
              FlattenSeq([i \in 1 .. n - 1 |-> st[i].todo[1].got]))
<1>1. n \in Nat /\ n > 0 /\ n \in 1 .. n
  BY Stacked
<1>2. CallInv(st[n], a) /\ Spelled(st, n, a)
  BY <1>1 DEF StackInv
<1>3. PICK w \in Seq(a.matchers) :
        /\ Len(w) = n - 1
        /\ \A i \in 1 .. n - 1 : Made(w[i], st[i].todo[1], st[i], a)
        /\ \A u \in a.words[st[n].s] : w \o u \in a.words[a.start]
  BY <1>2 DEF Spelled
<1>4. w \in a.words[a.start]
  <2>1. <<>> \in a.words[st[n].s]
    BY <1>2 DEF CallInv, IsSearch, IsAutomaton
  <2>2. w \o <<>> = w
    BY ConcatEmptySeq
  <2> QED BY <1>3, <2>1, <2>2
<1> DEFINE c == [i \in 1 .. n |-> At(st[i].args, st[i].reject)]
<1>5. \A i \in 1 .. n : /\ c[i] = At(st[i].args, st[i].reject)
                       /\ c[i].args = st[i].args /\ c[i].reject = st[i].reject
  BY DEF At
<1> HIDE DEF c
<1>6. ASSUME NEW i \in 1 .. n - 1
      PROVE  /\ Answer(w[i], c[i], a.env).ok /\ c[i + 1] = After(w[i], c[i], a.env)
             /\ st[i].todo[1].got = Answer(w[i], c[i], a.env).got
  <2>1. i \in 1 .. n /\ i + 1 \in 1 .. n
    BY <1>1
  <2>2. c[i].args = st[i].args /\ c[i].reject = st[i].reject
    BY <1>5, <2>1
  <2>3. /\ Answer(w[i], c[i], a.env) = Answer(w[i], st[i], a.env)
        /\ Reject(c[i]) = Reject(st[i])
    BY <2>2, SameAnswer
  <2>4. Made(w[i], st[i].todo[1], st[i], a) /\ Waits(st[i], st[i + 1])
    BY <1>3 DEF StackInv
  <2> QED BY <1>5, <2>1, <2>3, <2>4 DEF Made, Waits, After
<1>7. c[1] = At(a.line, FALSE)
  <2>1. 1 \in 1 .. n
    BY <1>1
  <2> QED BY <1>5, <2>1 DEF StackInv
<1>8. c[n].args = <<>> /\ (n - 1) + 1 = n
  BY <1>1, <1>5
<1>9. Consumes(w, c, a.env)
  BY <1>3, <1>6, <1>8 DEF Consumes
<1>10. [i \in 1 .. n - 1 |-> st[i].todo[1].got] = [i \in 1 .. Len(w) |-> Answer(w[i], c[i], a.env).got]
  BY <1>3, <1>6
<1> QED BY <1>4, <1>7, <1>9, <1>10 DEF Read

\* If the first call has no match left, no word reads the line.
LEMMA GivenUp ==
  ASSUME NEW a, NEW st, StackInv(st, a), st # <<>>, Len(st) = 1,
         st[1].open = TRUE, st[1].todo = <<>>
  PROVE  ~Readable(a.words[a.start], a.line, FALSE, a.env)
<1>1. ~CallReads(st[1], a)
  BY NothingLeft
<1> QED BY <1>1 DEF CallReads, StackInv

(***************************************************************************)
(* Simplify, as Fsm uses it and as it is proved about: the same actions.   *)
(***************************************************************************)
LEMMA Assumed == MaxWord \in Nat /\ \A g \in Built : SP!WellFormed(g)
BY AutomataAssumption, BoundsAssumption
   DEF WellFormed, SP!WellFormed, Edges, SP!Edges, States, SP!States, ToSet, SP!ToSet

LEMMA SameOperators ==
  ASSUME NEW ts, NEW from, NEW i
  PROVE  /\ S!AddMissing(ts, from) = SP!AddMissing(ts, from)
         /\ S!AdditionPanics(ts, from) = SP!AdditionPanics(ts, from)
         /\ S!FirstShortcut(ts) = SP!FirstShortcut(ts) /\ S!Cut(ts, i) = SP!Cut(ts, i)
<1>1. S!AddMissing(ts, from) = SP!AddMissing(ts, from)
  BY DEF S!AddMissing, SP!AddMissing, S!Chosen, SP!Chosen, S!Nth, SP!Nth, S!ToSet, SP!ToSet,
         S!Cardinality, SP!Cardinality
<1>2. S!AdditionPanics(ts, from) = SP!AdditionPanics(ts, from)
  BY DEF S!AdditionPanics, SP!AdditionPanics, S!Panics, SP!Panics, S!ToSet, SP!ToSet
<1>3. S!FirstShortcut(ts) = SP!FirstShortcut(ts)
  BY DEF S!FirstShortcut, SP!FirstShortcut, S!SelectInSeq, SP!SelectInSeq,
         S!IsShortcut, SP!IsShortcut, S!Min, SP!Min
<1>4. S!Cut(ts, i) = SP!Cut(ts, i)
  BY DEF S!Cut, SP!Cut, S!RemoveAt, SP!RemoveAt
<1> QED BY <1>1, <1>2, <1>3, <1>4

LEMMA SameWalk == /\ S!Init => SP!Init
                  /\ S!Step => [SP!Next]_SP!vars /\ walk # <<>>
<1>1. S!Init => SP!Init
  BY DEF S!Init, SP!Init
<1>2. S!Descend => SP!Descend /\ walk # <<>>
  BY DEF S!Descend, SP!Descend, S!Over, SP!Over, S!TopCall, SP!TopCall, S!Pop, SP!Pop, S!Call, SP!Call
<1>3. S!SimplifySelf => SP!SimplifySelf /\ walk # <<>>
  BY SameOperators
     DEF S!SimplifySelf, SP!SimplifySelf, S!Over, SP!Over, S!TopCall, SP!TopCall, S!Pop, SP!Pop,
         S!Inherit, SP!Inherit, S!CallsAgain, SP!CallsAgain
<1> QED BY <1>1, <1>2, <1>3 DEF S!Step, SP!Next, SP!Step

\* The types and the language of the automaton, while it is simplified and after.
AutomatonInv == SP!TypeInv /\ SP!SameLanguage /\ built.start \in visited

\* When the search starts the walk is over, and has left no shortcut in its reach.
Clean ==
  /\ walk = <<>> /\ ~crashed
  /\ \A s \in visited : \A t \in ToSet(tr[s]) : ~IsShortcut(t) /\ t.next \in visited

\* The walk goes on leaving none until the search starts.
PhaseInv == IF stack = <<>> /\ outcome = "none" THEN SP!WalkInv ELSE Clean

\* Steps of the search that leave the automaton alone.
LEMMA AutomatonStays ==
  ASSUME AutomatonInv, PhaseInv, UNCHANGED simplifying
  PROVE  /\ AutomatonInv' /\ (Clean => Clean') /\ (SP!WalkInv => SP!WalkInv')
<1>1. UNCHANGED <<built, tr, terminal, visited, walk, crashed>>
  BY DEF simplifying
<1>2. [SP!Next]_SP!vars
  BY <1>1 DEF SP!vars
<1>3. SP!TypeInv' /\ SP!SameLanguage' /\ (SP!WalkInv => SP!WalkInv')
  BY <1>2, Assumed, SP!TypeCorrectNext, SP!LanguageNext, SP!WalkNext DEF AutomatonInv
<1> QED BY <1>1, <1>3 DEF AutomatonInv, Clean

\* Where the walk is over the automaton is clean.
LEMMA CleanWhenReady ==
  ASSUME AutomatonInv, SP!WalkInv, S!Over, ~crashed
  PROVE  Clean
<1>1. walk = <<>>
  BY DEF S!Over
<1>2. SP!LeftClean
  BY Assumed, SP!CleanBehind
<1>3. SP!Over /\ \A s \in visited, k \in DOMAIN walk : walk[k].s # s
  BY <1>1 DEF SP!Over
<1>4. ASSUME NEW s \in visited, NEW t \in ToSet(tr[s])
      PROVE  ~IsShortcut(t) /\ t.next \in visited
  BY <1>2, <1>3 DEF SP!LeftClean, SP!IsShortcut, IsShortcut, SP!ToSet, ToSet
<1> QED BY <1>1, <1>4 DEF Clean

\* The search for the line on the simplified automaton.
Search ==
  [states |-> visited, from |-> [s \in visited |-> ToSet(tr[s])], terminal |-> terminal,
   words |-> Meaning, matchers |-> SP!Labels, start |-> built.start, line |-> line, env |-> env]

LEMMA SearchFields ==
  /\ Search.states = visited /\ Search.terminal = terminal /\ Search.words = Meaning
  /\ Search.matchers = SP!Labels /\ Search.start = built.start /\ Search.line = line
  /\ Search.env = env /\ \A s \in visited : Search.from[s] = ToSet(tr[s])
BY DEF Search

\* It is one on an automaton without shortcuts, with the words of the spec.
LEMMA IsASearch ==
  ASSUME AutomatonInv, Clean
  PROVE  IsSearch(Search)
<1> DEFINE M == Meaning
<1>1. /\ visited \subseteq SP!States(built) /\ tr \in [SP!States(built) -> Seq(SP!Edges(built))]
      /\ M = SP!Language(tr, terminal) /\ built.start \in visited
  BY DEF AutomatonInv, SP!TypeInv, SP!TypeOK, SP!SameLanguage, Meaning
<1> HIDE DEF M
<1>2. /\ M \in SP!Languages /\ SP!Closed(M, tr, terminal)
      /\ \A s \in SP!States(built) : \A w \in M[s] :
           \/ s \in terminal /\ w = <<>>
           \/ \E t \in SP!ToSet(tr[s]) : w \in SP!Passing(t, M[t.next])
  BY <1>1, Assumed, SP!LanguageOfNow DEF AutomatonInv
<1>3. \A s \in visited : SP!ToSet(tr[s]) = ToSet(tr[s])
  BY DEF SP!ToSet, ToSet
<1>4. \A s \in visited : M[s] \subseteq Seq(SP!Labels)
  BY <1>1, <1>2 DEF SP!Languages
<1>5. ASSUME NEW s \in visited, NEW t \in ToSet(tr[s])
      PROVE  /\ ~IsShortcut(t) /\ t.next \in visited /\ t.m \in SP!Labels
             /\ SP!Passing(t, M[t.next]) = {<<t.m>> \o u : u \in M[t.next]}
  <2>1. ~IsShortcut(t) /\ t.next \in visited
    BY DEF Clean
  <2>2. tr[s] \in Seq(SP!Edges(built))
    BY <1>1
  <2>3. t \in SP!Edges(built)
    BY <2>2, Members
  <2> QED BY <2>1, <2>3 DEF SP!Labels, SP!LabelsOf, SP!Passing, SP!IsShortcut, IsShortcut
<1>6. ASSUME NEW s \in visited, NEW t \in ToSet(tr[s]), NEW u \in M[t.next]
      PROVE  <<t.m>> \o u \in M[s]
  <2>1. s \in SP!States(built) /\ t \in SP!ToSet(tr[s])
    BY <1>1, <1>3
  <2>2. SP!Passing(t, M[t.next]) \subseteq M[s]
    BY <1>2, <2>1 DEF SP!Closed
  <2>3. <<t.m>> \o u \in SP!Passing(t, M[t.next])
    BY <1>5
  <2> QED BY <2>2, <2>3
<1>7. ASSUME NEW s \in visited
      PROVE  /\ s \in terminal => <<>> \in M[s]
             /\ \A w \in M[s] : \/ s \in terminal /\ w = <<>>
                              \/ \E t \in ToSet(tr[s]) : \E u \in M[t.next] : w = <<t.m>> \o u
  <2>1. s \in terminal => <<>> \in M[s]
    BY <1>1, <1>2 DEF SP!Closed
  <2>2. ASSUME NEW w \in M[s]
        PROVE  \/ s \in terminal /\ w = <<>>
               \/ \E t \in ToSet(tr[s]) : \E u \in M[t.next] : w = <<t.m>> \o u
    <3>1. \/ s \in terminal /\ w = <<>>
          \/ \E t \in SP!ToSet(tr[s]) : w \in SP!Passing(t, M[t.next])
      BY <1>1, <1>2
    <3>2. ASSUME NEW t \in SP!ToSet(tr[s]), w \in SP!Passing(t, M[t.next])
          PROVE  t \in ToSet(tr[s]) /\ \E u \in M[t.next] : w = <<t.m>> \o u
      BY <1>3, <1>5, <3>2
    <3> QED BY <3>1, <3>2
  <2> QED BY <2>1, <2>2
<1>8. PICK a : a = Search
  OBVIOUS
<1>9. /\ a.states = visited /\ a.terminal = terminal /\ a.words = M /\ a.matchers = SP!Labels
      /\ a.start = built.start /\ \A s \in visited : a.from[s] = ToSet(tr[s])
  BY <1>8, SearchFields DEF M
<1>10. /\ a.start \in a.states
       /\ \A s \in a.states : \A t \in a.from[s] :
            /\ ~IsShortcut(t) /\ t.next \in a.states /\ t.m \in a.matchers
            /\ \A u \in a.words[t.next] : <<t.m>> \o u \in a.words[s]
  BY <1>1, <1>5, <1>6, <1>9
<1>11. ASSUME NEW s \in a.states
       PROVE  /\ a.words[s] \subseteq Seq(a.matchers)
              /\ s \in a.terminal => <<>> \in a.words[s]
              /\ \A w \in a.words[s] :
                   \/ s \in a.terminal /\ w = <<>>
                   \/ \E t \in a.from[s] : \E u \in a.words[t.next] : w = <<t.m>> \o u
  <2>1. s \in visited
    BY <1>9
  <2>2. a.words = M /\ a.from[s] = ToSet(tr[s]) /\ a.terminal = terminal /\ a.matchers = SP!Labels
    BY <1>9, <2>1
  <2>3. M[s] \subseteq Seq(SP!Labels)
    BY <1>4, <2>1
  <2>4. s \in terminal => <<>> \in M[s]
    BY <1>7, <2>1
  <2>5. \A w \in M[s] : \/ s \in terminal /\ w = <<>>
                        \/ \E t \in ToSet(tr[s]) : \E u \in M[t.next] : w = <<t.m>> \o u
    BY <1>7, <2>1
  <2>6. ASSUME NEW w \in a.words[s]
        PROVE  \/ s \in a.terminal /\ w = <<>>
               \/ \E t \in a.from[s] : \E u \in a.words[t.next] : w = <<t.m>> \o u
    <3>1. w \in M[s]
      BY <2>2
    <3>2. CASE s \in terminal /\ w = <<>>
      BY <2>2, <3>2
    <3>3. ASSUME NEW t \in ToSet(tr[s]), NEW u \in M[t.next], w = <<t.m>> \o u
          PROVE  \E e \in a.from[s] : \E v \in a.words[e.next] : w = <<e.m>> \o v
      <4>1. t \in a.from[s] /\ u \in a.words[t.next]
        BY <2>2
      <4> QED BY <3>3, <4>1
    <3> QED BY <2>5, <3>1, <3>2, <3>3
  <2> QED BY <2>2, <2>3, <2>4, <2>6
<1>12. IsSearch(a)
  BY <1>10, <1>11 DEF IsSearch, IsAutomaton
<1> QED BY <1>8, <1>12

\* The words of the spec are those of the automaton as it was built.
LEMMA MeaningStays ==
  ASSUME built' = built
  PROVE  /\ Meaning' = Meaning /\ SP!Labels' = SP!Labels
         /\ SP!SameLanguage' <=> SP!Language(tr', terminal') = SP!Language(built.tr, built.terminal)
<1>1. Meaning' = Meaning
  BY DEF Meaning, SP!Language, SP!Languages, SP!Closed, SP!Labels
<1>2. SP!Labels' = SP!Labels
  BY DEF SP!Labels
<1>3. SP!SameLanguage' <=> SP!Language(tr', terminal') = SP!Language(built.tr, built.terminal)
  BY DEF SP!SameLanguage, SP!Language, SP!Languages, SP!Closed, SP!Labels
<1> QED BY <1>1, <1>2, <1>3

\* The sort changes neither the automaton nor the search.
LEMMA SortKeeps ==
  ASSUME AutomatonInv, Clean, NEW s \in visited, tr' = [tr EXCEPT ![s] = Sorted(@)],
         UNCHANGED <<built, terminal, visited, walk, crashed>>
  PROVE  AutomatonInv' /\ Clean' /\ (UNCHANGED <<line, env>> => Search' = Search)
<1>1. /\ visited \subseteq SP!States(built) /\ tr \in [SP!States(built) -> Seq(SP!Edges(built))]
      /\ built.start \in visited
  BY DEF AutomatonInv, SP!TypeInv, SP!TypeOK
<1>2. Sorted(tr[s]) \in Seq(SP!Edges(built)) /\ ToSet(Sorted(tr[s])) = ToSet(tr[s])
  <2>1. tr[s] \in Seq(SP!Edges(built))
    BY <1>1
  <2> QED BY <2>1, SortedSame
<1>3. tr' \in [SP!States(built) -> Seq(SP!Edges(built))]
  BY <1>1, <1>2
<1>4. \A u \in SP!States(built) : ToSet(tr'[u]) = ToSet(tr[u])
  BY <1>1, <1>2
<1>5. \A u \in SP!States(built) : SP!ToSet(tr'[u]) = SP!ToSet(tr[u])
  BY <1>4 DEF SP!ToSet, ToSet
<1>6. SP!TypeInv'
  BY <1>3 DEF AutomatonInv, SP!TypeInv, SP!TypeOK
<1>7. SP!Language(tr', terminal') = SP!Language(tr, terminal)
  BY <1>5 DEF SP!Language, SP!Closed
<1>8. SP!SameLanguage'
  <2>1. built' = built /\ SP!SameLanguage
    BY DEF AutomatonInv
  <2>2. SP!SameLanguage' <=> SP!Language(tr', terminal') = SP!Language(built.tr, built.terminal)
    BY <2>1, MeaningStays
  <2> QED BY <1>7, <2>1, <2>2 DEF SP!SameLanguage
<1>9. Clean'
  BY <1>1, <1>4 DEF Clean
<1>10. UNCHANGED <<line, env>> => Search' = Search
  <2>1. [u \in visited |-> ToSet(tr'[u])] = [u \in visited |-> ToSet(tr[u])]
    BY <1>1, <1>4
  <2>2. Meaning' = Meaning /\ SP!Labels' = SP!Labels
    BY MeaningStays
  <2> QED BY <2>1, <2>2 DEF Search
<1> QED BY <1>1, <1>6, <1>8, <1>9, <1>10 DEF AutomatonInv

(***************************************************************************)
(* The inductive invariant.                                                *)
(***************************************************************************)

\* What an accepted line binds, and what a rejected line is.
AcceptedIsRead   == outcome = "accepted" => Read(Meaning[built.start], line, env, got)
RejectedIsUnread == outcome = "rejected" => \A b : ~Read(Meaning[built.start], line, env, b)

SearchInv ==
  /\ outcome \in Outcomes /\ Len(stack) <= MaxFrames
  /\ stack # <<>> => outcome = "none" /\ StackInv(stack, Search)
  /\ AcceptedIsRead /\ RejectedIsUnread

Inv == AutomatonInv /\ PhaseInv /\ SearchInv

LEMMA InvInit == Init => Inv
<1> SUFFICES ASSUME Init PROVE Inv
  OBVIOUS
<1>1. SP!Init /\ stack = <<>> /\ outcome = "none"
  BY SameWalk DEF Init
<1>2. SP!TypeInv /\ SP!WalkInv
  BY <1>1, Assumed, SP!TypeCorrectInit, SP!WalkInit
<1>3. SP!SameLanguage /\ built.start \in visited
  BY <1>1 DEF SP!Init, SP!SameLanguage
<1>4. Len(<<>>) = 0 /\ 0 <= MaxFrames
  BY BoundsAssumption
<1> QED BY <1>1, <1>2, <1>3, <1>4
     DEF Inv, AutomatonInv, PhaseInv, SearchInv, AcceptedIsRead, RejectedIsUnread, Outcomes

\* A step of the walk: nothing is searched yet.
LEMMA SimplifyingKeeps ==
  ASSUME Inv, Simplifying
  PROVE  Inv'
<1>1. S!Step /\ UNCHANGED <<line, env, stack, outcome, got>>
  BY DEF Simplifying, matching
<1>2. [SP!Next]_SP!vars /\ walk # <<>>
  BY <1>1, SameWalk
<1>3. stack = <<>> /\ outcome = "none" /\ SP!WalkInv
  BY <1>2 DEF Inv, PhaseInv, Clean
<1>4. SP!TypeInv' /\ SP!SameLanguage' /\ SP!WalkInv'
  BY <1>2, <1>3, Assumed, SP!TypeCorrectNext, SP!LanguageNext, SP!WalkNext DEF Inv, AutomatonInv
<1>5. built' = built /\ visited \subseteq visited'
  BY <1>1 DEF S!Step, S!Descend, S!SimplifySelf
<1>6. AutomatonInv'
  BY <1>4, <1>5 DEF Inv, AutomatonInv
<1>7. PhaseInv'
  BY <1>1, <1>3, <1>4 DEF PhaseInv
<1>8. SearchInv'
  BY <1>1, <1>3 DEF Inv, SearchInv, AcceptedIsRead, RejectedIsUnread
<1> QED BY <1>6, <1>7, <1>8 DEF Inv

LEMMA ParseKeeps ==
  ASSUME Inv, Parse
  PROVE  Inv'
<1>1. /\ S!Over /\ ~crashed /\ stack = <<>> /\ outcome = "none"
      /\ stack' = <<Frame(built.start, line', FALSE)>> /\ UNCHANGED <<simplifying, env, outcome, got>>
  BY DEF Parse, Ready
<1>2. AutomatonInv /\ SP!WalkInv
  BY <1>1 DEF Inv, PhaseInv
<1>3. Clean
  BY <1>1, <1>2, CleanWhenReady
<1>4. AutomatonInv' /\ Clean'
  BY <1>1, <1>3, AutomatonStays DEF Inv
<1>5. IsSearch(Search')
  <2>1. PICK a, b : a = Search /\ b = Search'
    OBVIOUS
  <2>2. IsSearch(a)
    BY <1>2, <1>3, <2>1, IsASearch
  <2>3. /\ b.states = a.states /\ b.from = a.from /\ b.terminal = a.terminal /\ b.words = a.words
        /\ b.matchers = a.matchers /\ b.start = a.start
    BY <1>1, <2>1, MeaningStays DEF Search, simplifying
  <2>4. IsSearch(b)
    BY <2>2, <2>3 DEF IsSearch
  <2> QED BY <2>1, <2>4
<1>6. StackInv(stack', Search')
  <2>1. PICK a : a = Search'
    OBVIOUS
  <2>2. IsSearch(a)
    BY <1>5, <2>1
  <2>3. a.start = built.start /\ a.line = line'
    BY <1>1, <2>1 DEF Search, simplifying
  <2>4. StackInv(<<Frame(a.start, a.line, FALSE)>>, a)
    BY <2>2, Started
  <2> QED BY <1>1, <2>1, <2>3, <2>4
<1>7. stack' # <<>> /\ Len(stack') <= MaxFrames
  <2>1. Len(stack') = 1 /\ 1 <= MaxFrames
    BY <1>1, BoundsAssumption
  <2> QED BY <1>1, <2>1
<1>8. SearchInv'
  BY <1>1, <1>6, <1>7 DEF SearchInv, Outcomes, AcceptedIsRead, RejectedIsUnread
<1> QED BY <1>4, <1>7, <1>8 DEF Inv, PhaseInv

\* What a step of the search keeps: the automaton, and so the search.
LEMMA SearchStays ==
  ASSUME AutomatonInv, UNCHANGED <<simplifying, line, env>>
  PROVE  Search' = Search
<1>1. built' = built
  BY DEF simplifying
<1> QED BY <1>1, MeaningStays DEF Search, simplifying

\* The search runs on the clean automaton.
LEMMA Calls ==
  ASSUME Inv, Calling
  PROVE  /\ stack # <<>> /\ outcome = "none" /\ Clean /\ AutomatonInv
         /\ StackInv(stack, Search) /\ IsSearch(Search)
         /\ Len(stack) \in Nat /\ Len(stack) > 0
         /\ CallInv(Top, Search) /\ Top = stack[Len(stack)]
<1>1. /\ stack # <<>> /\ outcome = "none" /\ Clean /\ AutomatonInv /\ StackInv(stack, Search)
  BY DEF Calling, Inv, PhaseInv, SearchInv
<1>2. IsSearch(Search)
  BY <1>1, IsASearch
<1>3. Len(stack) \in Nat /\ Len(stack) > 0
  BY <1>1, Stacked
<1>4. CallInv(stack[Len(stack)], Search)
  BY <1>1, <1>3 DEF StackInv
<1> QED BY <1>1, <1>2, <1>3, <1>4 DEF Top

LEMMA AcceptKeeps ==
  ASSUME Inv, Accept
  PROVE  Inv'
<1>1. /\ Calling /\ Top.s \in terminal /\ Top.args = <<>>
      /\ outcome' = "accepted" /\ stack' = <<>>
      /\ got' = FlattenSeq([i \in 1 .. Len(stack) - 1 |-> stack[i].todo[1].got])
      /\ UNCHANGED <<simplifying, line, env>>
  BY DEF Accept
<1>2. /\ stack # <<>> /\ Clean /\ StackInv(stack, Search) /\ IsSearch(Search) /\ AutomatonInv
      /\ Top = stack[Len(stack)]
  BY <1>1, Calls
<1>3. AutomatonInv' /\ Clean'
  BY <1>1, <1>2, AutomatonStays DEF Inv
<1>4. Read(Meaning[built.start], line, env, got')
  <2>1. PICK a : a = Search
    OBVIOUS
  <2>2. PICK n : n = Len(stack)
    OBVIOUS
  <2>3. Read(a.words[a.start], a.line, a.env,
             FlattenSeq([i \in 1 .. n - 1 |-> stack[i].todo[1].got]))
    BY <1>1, <1>2, <2>1, <2>2, SearchFields, Accepted
  <2> QED BY <1>1, <2>1, <2>2, <2>3, SearchFields
<1>5. Meaning' = Meaning /\ built' = built
  BY <1>1, MeaningStays DEF simplifying
<1>6. AcceptedIsRead' /\ RejectedIsUnread'
  BY <1>1, <1>4, <1>5 DEF AcceptedIsRead, RejectedIsUnread
<1>7. SearchInv'
  <2>1. Len(<<>>) = 0 /\ 0 <= MaxFrames
    BY BoundsAssumption
  <2> QED BY <1>1, <1>6, <2>1 DEF SearchInv, Outcomes
<1> QED BY <1>1, <1>3, <1>7 DEF Inv, PhaseInv

LEMMA ExpandKeeps ==
  ASSUME Inv, Expand
  PROVE  Inv'
<1> DEFINE n == Len(stack)
           s == Top.s
<1>1. /\ Calling /\ ~Top.open /\ ~(s \in terminal /\ Top.args = <<>>)
      /\ tr' = [tr EXCEPT ![s] = Sorted(@)]
      /\ stack' = [stack EXCEPT ![n] = Opened(@, MatchesOf(Sorted(tr[s]), Top, env))]
      /\ UNCHANGED <<built, terminal, visited, walk, crashed, line, env, outcome, got>>
  BY DEF Expand
<1>2. /\ stack # <<>> /\ outcome = "none" /\ Clean /\ AutomatonInv
      /\ StackInv(stack, Search) /\ IsSearch(Search) /\ n \in Nat /\ n > 0
      /\ CallInv(Top, Search) /\ Top = stack[n]
  BY <1>1, Calls
<1>3. s \in visited /\ tr[s] \in Seq(SP!Edges(built))
  <2>1. s \in visited
    BY <1>2, SearchFields DEF CallInv
  <2>2. visited \subseteq SP!States(built) /\ tr \in [SP!States(built) -> Seq(SP!Edges(built))]
    BY <1>2 DEF AutomatonInv, SP!TypeInv, SP!TypeOK
  <2> QED BY <2>1, <2>2
<1>4. AutomatonInv' /\ Clean' /\ Search' = Search
  BY <1>1, <1>2, <1>3, SortKeeps
<1>5. StackInv(stack', Search)
  <2>1. PICK a : a = Search
    OBVIOUS
  <2>2. PICK ms : ms = MatchesOf(Sorted(tr[s]), Top, env)
    OBVIOUS
  <2>3. a.from[s] = ToSet(Sorted(tr[s])) /\ a.env = env /\ a.terminal = terminal
    BY <1>3, <2>1, SearchFields, SortedSame
  <2>4. Sorted(tr[s]) \in Seq(SP!Edges(built))
    BY <1>3, SortedSame
  <2>5. ms \in Seq(GoodLeads(Top, a)) /\ ToSet(ms) = GoodLeads(Top, a)
    BY <2>2, <2>3, <2>4, MatchesOfLeads DEF GoodLeads
  <2>6. CallInv(Opened(Top, ms), a)
    BY <1>1, <1>2, <2>1, <2>3, <2>5, ExpandedCall
  <2>7. CallInv(Opened(stack[n], ms), a) /\ StackInv(stack, a)
    BY <1>2, <2>1, <2>6
  <2>8. StackInv([stack EXCEPT ![n] = Opened(stack[n], ms)], a)
    <3>1. PICK st, k : st = stack /\ k = n
      OBVIOUS
    <3>2. StackInv([st EXCEPT ![k] = Opened(st[k], ms)], a)
      BY <1>2, <2>7, <3>1, TopReplaced
    <3> QED BY <3>1, <3>2
  <2>9. stack' = [stack EXCEPT ![n] = Opened(stack[n], ms)]
    BY <1>1, <2>2
  <2> QED BY <2>1, <2>8, <2>9
<1>6. Len(stack') = n /\ stack' # <<>>
  <2>1. PICK X : stack \in Seq(X)
    BY <1>2 DEF StackInv
  <2>2. DOMAIN stack = 1 .. n
    BY <2>1, LenProperties
  <2>3. DOMAIN stack' = 1 .. n
    BY <1>1, <2>2
  <2>4. PICK Y : stack' \in Seq(Y)
    BY <1>5 DEF StackInv
  <2>5. Len(stack') \in Nat /\ DOMAIN stack' = 1 .. Len(stack')
    BY <2>4, LenProperties
  <2> HIDE DEF n
  <2>6. Len(stack') = n
    BY <1>2, <2>3, <2>5
  <2> QED BY <1>2, <2>6
<1>7. SearchInv'
  BY <1>1, <1>2, <1>4, <1>5, <1>6 DEF Inv, SearchInv, AcceptedIsRead, RejectedIsUnread
<1> QED BY <1>4, <1>6, <1>7 DEF Inv, PhaseInv

LEMMA FollowKeeps ==
  ASSUME Inv, Follow
  PROVE  Inv'
<1> DEFINE n == Len(stack)
           x == Top.todo[1]
<1>1. /\ Calling /\ Top.todo # <<>>
      /\ UNCHANGED <<simplifying, line, env, got>>
  BY DEF Follow
<1>2. /\ stack # <<>> /\ outcome = "none" /\ Clean /\ AutomatonInv
      /\ StackInv(stack, Search) /\ IsSearch(Search) /\ n \in Nat /\ n > 0
      /\ Top = stack[n]
  BY <1>1, Calls
<1>3. AutomatonInv' /\ Clean' /\ Search' = Search
  BY <1>1, <1>2, AutomatonStays, SearchStays DEF Inv
<1>4. CASE n = MaxFrames
  <2>1. outcome' = "overflow" /\ stack' = <<>>
    BY <1>4 DEF Follow
  <2>2. Len(<<>>) = 0 /\ 0 <= MaxFrames
    BY BoundsAssumption
  <2>3. SearchInv'
    BY <2>1, <2>2 DEF SearchInv, Outcomes, AcceptedIsRead, RejectedIsUnread
  <2> QED BY <1>3, <2>1, <2>3 DEF Inv, PhaseInv
<1>5. CASE n # MaxFrames
  <2>1. stack' = Append(stack, Frame(x.next, x.rem, x.reject)) /\ outcome' = outcome
    BY <1>5 DEF Follow
  <2>2. StackInv(stack', Search)
    <3>1. PICK a, st, k, y : a = Search /\ st = stack /\ k = n /\ y = st[k].todo[1]
      OBVIOUS
    <3>2. StackInv(Append(st, Frame(y.next, y.rem, y.reject)), a)
      BY <1>1, <1>2, <3>1, Followed
    <3> QED BY <1>2, <2>1, <3>1, <3>2
  <2>3. stack' # <<>> /\ Len(stack') = n + 1
    <3>1. PICK X : stack \in Seq(X)
      BY <1>2 DEF StackInv
    <3>2. PICK e : e = Frame(x.next, x.rem, x.reject)
      OBVIOUS
    <3>3. stack \in Seq(X \cup {e})
      BY <3>1, SeqMonotonic
    <3> QED BY <2>1, <3>2, <3>3, AppendProperties
  <2>4. n + 1 <= MaxFrames
    BY <1>2, <1>5, BoundsAssumption DEF Inv, SearchInv
  <2>5. SearchInv'
    BY <1>1, <1>2, <1>3, <2>1, <2>2, <2>3, <2>4
       DEF SearchInv, Outcomes, AcceptedIsRead, RejectedIsUnread
  <2> QED BY <1>3, <2>3, <2>5 DEF Inv, PhaseInv
<1> QED BY <1>4, <1>5

LEMMA BacktrackKeeps ==
  ASSUME Inv, Backtrack
  PROVE  Inv'
<1> DEFINE n == Len(stack)
<1>1. /\ Calling /\ Top.open = TRUE /\ Top.todo = <<>>
      /\ UNCHANGED <<simplifying, line, env, got>>
  <2>1. Calling /\ Top.open /\ Top.todo = <<>> /\ UNCHANGED <<simplifying, line, env, got>>
    BY DEF Backtrack
  <2>2. Top.open \in BOOLEAN
    BY <2>1, Calls DEF CallInv
  <2> QED BY <2>1, <2>2
<1>2. /\ stack # <<>> /\ outcome = "none" /\ Clean /\ AutomatonInv
      /\ StackInv(stack, Search) /\ n \in Nat /\ n > 0 /\ Top = stack[n]
  BY <1>1, Calls
<1>3. AutomatonInv' /\ Clean' /\ Search' = Search
  BY <1>1, <1>2, AutomatonStays, SearchStays DEF Inv
<1>4. CASE n = 1
  <2>1. outcome' = "rejected" /\ stack' = <<>>
    BY <1>4 DEF Backtrack
  <2>2. Len(<<>>) = 0 /\ 0 <= MaxFrames
    BY BoundsAssumption
  <2>3. ~Readable(Meaning[built.start], line, FALSE, env)
    <3>1. PICK a, st : a = Search /\ st = stack
      OBVIOUS
    <3>2. ~Readable(a.words[a.start], a.line, FALSE, a.env)
      BY <1>1, <1>2, <1>4, <3>1, GivenUp
    <3> QED BY <3>1, <3>2, SearchFields
  <2>4. \A b : ~Read(Meaning[built.start], line, env, b)
    BY <2>3 DEF Readable, Read
  <2>5. Meaning' = Meaning /\ built' = built
    BY <1>1, MeaningStays DEF simplifying
  <2>6. SearchInv'
    BY <1>1, <2>1, <2>2, <2>4, <2>5 DEF SearchInv, Outcomes, AcceptedIsRead, RejectedIsUnread
  <2> QED BY <1>3, <2>1, <2>6 DEF Inv, PhaseInv
<1>5. CASE n # 1
  <2>1. stack' = [Front(stack) EXCEPT ![n - 1] = Opened(@, Tail(@.todo))] /\ outcome' = outcome
    BY <1>5 DEF Backtrack
  <2>2. StackInv(stack', Search)
    <3>1. PICK a, st, k : a = Search /\ st = stack /\ k = n
      OBVIOUS
    <3>2. StackInv([Front(st) EXCEPT ![k - 1] = Opened(@, Tail(@.todo))], a)
      BY <1>1, <1>2, <1>5, <3>1, Backtracked
    <3> QED BY <2>1, <3>1, <3>2
  <2>3. stack' # <<>> /\ Len(stack') = n - 1
    <3>1. PICK X : stack \in Seq(X)
      BY <1>2 DEF StackInv
    <3>2. Front(stack) \in Seq(X) /\ Len(Front(stack)) = n - 1
      BY <1>2, <3>1, PoppedStack DEF Front, Popped
    <3>3. DOMAIN Front(stack) = 1 .. n - 1
      BY <3>2, LenProperties
    <3>4. DOMAIN stack' = 1 .. n - 1
      BY <2>1, <3>3
    <3>5. PICK Y : stack' \in Seq(Y)
      BY <2>2 DEF StackInv
    <3>6. Len(stack') \in Nat /\ DOMAIN stack' = 1 .. Len(stack')
      BY <3>5, LenProperties
    <3> HIDE DEF n
    <3>7. n - 1 \in Nat /\ n - 1 > 0
      BY <1>2, <1>5
    <3> QED BY <3>4, <3>6, <3>7
  <2>4. Len(stack') <= MaxFrames
    BY <1>2, <2>3, BoundsAssumption DEF Inv, SearchInv
  <2>5. SearchInv'
    BY <1>1, <1>2, <1>3, <2>1, <2>2, <2>3, <2>4
       DEF SearchInv, Outcomes, AcceptedIsRead, RejectedIsUnread
  <2> QED BY <1>3, <2>3, <2>5 DEF Inv, PhaseInv
<1> QED BY <1>4, <1>5

LEMMA InvNext == Inv /\ [Next]_vars => Inv'
<1> SUFFICES ASSUME Inv, [Next]_vars PROVE Inv'
  OBVIOUS
<1>1. CASE UNCHANGED vars
  <2>1. UNCHANGED <<simplifying, line, env, stack, outcome, got>>
    BY <1>1 DEF vars, matching
  <2>2. AutomatonInv' /\ PhaseInv'
    BY <2>1, AutomatonStays DEF Inv, PhaseInv
  <2>3. Search' = Search /\ Meaning' = Meaning /\ built' = built
    BY <2>1, SearchStays, MeaningStays DEF Inv, simplifying
  <2>4. SearchInv'
    BY <2>1, <2>3 DEF Inv, SearchInv, AcceptedIsRead, RejectedIsUnread
  <2> QED BY <2>2, <2>4 DEF Inv
<1>2. CASE Simplifying
  BY <1>2, SimplifyingKeeps
<1>3. CASE Parse
  BY <1>3, ParseKeeps
<1>4. CASE Accept
  BY <1>4, AcceptKeeps
<1>5. CASE Expand
  BY <1>5, ExpandKeeps
<1>6. CASE Follow
  BY <1>6, FollowKeeps
<1>7. CASE Backtrack
  BY <1>7, BacktrackKeeps
<1> QED BY <1>1, <1>2, <1>3, <1>4, <1>5, <1>6, <1>7 DEF Next, Step, Terminated

(***************************************************************************)
(* The readings FindsAReading compares with: a computation on the automaton *)
(* without its shortcuts, as far as a bound.                               *)
(***************************************************************************)

\* An automaton without shortcuts, whose words are M, over the matchers E.
IsDirect(g, M, E) ==
  /\ g.states \in Nat /\ g.start \in 1 .. g.states
  /\ \A m \in E : IsMatcher(m)
  /\ \A e \in g.labels :
       /\ e[1] \in 1 .. g.states /\ e[2] \in E /\ e[3] \in 1 .. g.states
       /\ \A u \in M[e[3]] : <<e[2]>> \o u \in M[e[1]]
  /\ \A s \in g.final : <<>> \in M[s]
  /\ \A s \in 1 .. g.states :
       /\ M[s] \subseteq Seq(E)
       /\ \A w \in M[s] :
            \/ w = <<>> /\ s \in g.final
            \/ \E e \in g.labels : e[1] = s /\ \E u \in M[e[3]] : w = <<e[2]>> \o u

\* Where a path has come, what is left of the line there and what is bound.
Configs(g) == [s : 1 .. g.states, args : Args, reject : BOOLEAN, got : Bindings]

\* Where the label e leads to from x.
Moved(x, e, v) ==
  Reached(e[3], Answer(e[2], x, v).rem, RejectAfter(e[2], Reject(x)), x.got \o Answer(e[2], x, v).got)

Moves(y, x, g, v) == \E e \in g.labels : e[1] = x.s /\ Answer(e[2], x, v).ok /\ y = Moved(x, e, v)

\* All that one step leads to from C.
Steps(C, g, v) == Onwards(C, g, v, TRUE)

LEMMA StepsAre ==
  ASSUME NEW C, NEW g, NEW v
  PROVE  \A y : y \in Steps(C, g, v) <=> \E x \in C : Moves(y, x, g, v)
<1> DEFINE From(x) == {d \in g.labels : d[1] = x.s}
           T(x, e) == Takes(x, e, Answer(e[2], x, v), TRUE)
           Of(x) == UNION {T(x, e) : e \in From(x)}
<1>1. Steps(C, g, v) = UNION {Of(x) : x \in C}
  BY DEF Steps, Onwards, Answer
<1>2. ASSUME NEW x, NEW e, NEW y
      PROVE  y \in T(x, e) <=> Answer(e[2], x, v).ok /\ y = Moved(x, e, v)
  BY DEF Takes, Moved
<1> HIDE DEF T
<1>3. ASSUME NEW x, NEW y PROVE y \in Of(x) <=> Moves(y, x, g, v)
  <2>1. y \in Of(x) <=> \E e \in From(x) : y \in T(x, e)
    BY Zenon
  <2> QED BY <1>2, <2>1 DEF Moves
<1> HIDE DEF Of
<1> QED BY <1>1, <1>3

\* What is left to take, counting the end of the options.
Left(x) == Weight(x.args) + (IF x.reject THEN 0 ELSE 1)

SameButState(y, x) == y.args = x.args /\ y.reject = x.reject /\ y.got = x.got

\* A move takes something, or changes nothing but the state.
LEMMA MoveIs ==
  ASSUME NEW g, NEW M, NEW E, NEW v, NEW x, NEW y, IsDirect(g, M, E), x \in Configs(g), Moves(y, x, g, v)
  PROVE  /\ y \in Configs(g) /\ Left(x) \in Nat /\ Left(y) \in Nat
         /\ Left(y) < Left(x) \/ SameButState(y, x)
<1>1. PICK e \in g.labels : e[1] = x.s /\ Answer(e[2], x, v).ok /\ y = Moved(x, e, v)
  BY DEF Moves
<1>2. e[3] \in 1 .. g.states /\ IsMatcher(e[2])
  BY <1>1 DEF IsDirect
<1>3. x.args \in Args /\ x.reject \in BOOLEAN /\ x.got \in Bindings
  BY DEF Configs
<1>4. PICK a, rest, m, q : a = Answer(e[2], x, v) /\ rest = Rest(x) /\ m = e[2] /\ q = e[3]
  OBVIOUS
<1>5. /\ rest \in Args
      /\ Ends(x) => Weight(rest) < Weight(x.args) /\ x.reject = FALSE
      /\ ~Ends(x) => rest = x.args
  <2>1. CASE Ends(x)
    <3>1. x.args # <<>> /\ rest = Tail(x.args)
      BY <1>4, <2>1 DEF Ends, Rest
    <3>2. Lighter(rest, x.args)
      BY <1>3, <3>1, FirstTaken
    <3> QED BY <1>3, <2>1, <3>2 DEF Lighter, Ends
  <2>2. CASE ~Ends(x)
    BY <1>3, <1>4, <2>2 DEF Rest
  <2> QED BY <2>1, <2>2
<1>6. a \in AnswersTo(rest)
  <2>1. a = Match(m, rest, Reject(x), v)
    BY <1>4 DEF Answer
  <2>2. rest \in Seq(Argument)
    BY <1>5 DEF Args
  <2> QED BY <1>2, <1>4, <2>1, <2>2, TakesOrLeaves
<1>7. a.rem \in Args /\ a.got \in Bindings /\ (Weight(a.rem) < Weight(rest) \/ (a.rem = rest /\ a.got = <<>>))
  BY <1>6 DEF AnswersTo
<1>8. PICK r : r = RejectAfter(m, Reject(x))
  OBVIOUS
<1>9. r \in BOOLEAN /\ (Ends(x) => r = TRUE) /\ (x.reject = TRUE => r = TRUE)
  BY <1>3, <1>8 DEF RejectAfter, Reject
<1>10. y.s = q /\ y.args = a.rem /\ y.reject = r /\ y.got = x.got \o a.got /\ y = Reached(q, a.rem, r, x.got \o a.got)
  <2>1. y = Reached(q, a.rem, r, x.got \o a.got)
    BY <1>1, <1>4, <1>8 DEF Moved
  <2> QED BY <2>1 DEF Reached
<1>11. y \in Configs(g)
  <2>1. x.got \o a.got \in Bindings
    BY <1>3, <1>7, ConcatProperties DEF Bindings
  <2> QED BY <1>2, <1>4, <1>7, <1>9, <1>10, <2>1 DEF Configs, Reached
<1>12. PICK i, j, k : i = Weight(x.args) /\ j = Weight(rest) /\ k = Weight(a.rem)
  OBVIOUS
<1>13. i \in Nat /\ j \in Nat /\ k \in Nat
  BY <1>3, <1>5, <1>7, <1>12, WeightIs
<1>14. Left(x) = i + (IF x.reject = TRUE THEN 0 ELSE 1) /\ Left(y) = k + (IF r = TRUE THEN 0 ELSE 1)
  BY <1>3, <1>9, <1>10, <1>12 DEF Left
<1>15. CASE Ends(x)
  BY <1>5, <1>7, <1>9, <1>11, <1>12, <1>13, <1>14, <1>15
<1>16. CASE ~Ends(x)
  <2>1. x.got \o <<>> = x.got
    BY <1>3, ConcatEmptySeq DEF Bindings
  <2>2. CASE k < i
    BY <1>9, <1>11, <1>13, <1>14, <2>2
  <2>3. CASE ~(k < i)
    <3>1. a.rem = x.args /\ a.got = <<>> /\ k = i
      BY <1>5, <1>7, <1>12, <1>13, <1>16, <2>3
    <3>2. y.args = x.args /\ y.got = x.got
      BY <1>10, <2>1, <3>1
    <3>3. CASE r = x.reject
      BY <1>10, <1>11, <1>13, <1>14, <3>1, <3>2, <3>3 DEF SameButState
    <3>4. CASE r # x.reject
      <4>1. r = TRUE /\ x.reject = FALSE
        BY <1>3, <1>9, <3>4
      <4> QED BY <1>11, <1>13, <1>14, <3>1, <4>1
    <3> QED BY <3>3, <3>4
  <2> QED BY <2>2, <2>3
<1> QED BY <1>15, <1>16

\* What is reached in n steps or less.
AreReached(U, g, l, v) ==
  /\ U[0] = {Reached(g.start, l, FALSE, <<>>)}
  /\ \A n \in Nat : U[n] \in SUBSET Configs(g) /\ U[n + 1] = U[n] \cup Steps(U[n], g, v)

Grown(R, g, v) == Further(R, g, v, TRUE)

\* Of what is newer alone a step has still to be made.
StepsMade(R, g, v) == Steps(R.older, g, v) \subseteq R.older \cup R.newer

Sides(g) == [older : SUBSET Configs(g), newer : SUBSET Configs(g)]

LEMMA FurtherIs ==
  ASSUME NEW g, NEW M, NEW E, NEW v, NEW R, NEW Q, IsDirect(g, M, E), R \in Sides(g),
         Q = Grown(R, g, v)
  PROVE  /\ Q \in Sides(g)
         /\ StepsMade(R, g, v) =>
              /\ StepsMade(Q, g, v)
              /\ Q.older \cup Q.newer = (R.older \cup R.newer) \cup Steps(R.older \cup R.newer, g, v)
<1> DEFINE On(C) == Steps(C, g, v)
           all   == R.older \cup R.newer
<1>1. \A C, D : On(C \cup D) = On(C) \cup On(D)
  <2> SUFFICES ASSUME NEW C, NEW D PROVE On(C \cup D) = On(C) \cup On(D)
    OBVIOUS
  <2>1. /\ \A y : y \in On(C) <=> \E x \in C : Moves(y, x, g, v)
        /\ \A y : y \in On(D) <=> \E x \in D : Moves(y, x, g, v)
        /\ \A y : y \in On(C \cup D) <=> \E x \in C \cup D : Moves(y, x, g, v)
    BY StepsAre
  <2> HIDE DEF On
  <2> QED BY <2>1
<1>2. \A C \in SUBSET Configs(g) : On(C) \in SUBSET Configs(g)
  <2> SUFFICES ASSUME NEW C \in SUBSET Configs(g), NEW y \in On(C) PROVE y \in Configs(g)
    OBVIOUS
  <2>1. PICK x \in C : Moves(y, x, g, v)
    BY StepsAre
  <2>2. x \in Configs(g)
    BY <2>1
  <2> QED BY <2>1, <2>2, MoveIs
<1>3. R.older \in SUBSET Configs(g) /\ R.newer \in SUBSET Configs(g)
  BY DEF Sides
<1>4. CASE R.newer = {}
  <2>1. Q = R
    BY <1>4 DEF Grown, Further, Steps
  <2>2. R.older \cup R.newer = R.older
    BY <1>4
  <2> HIDE DEF On
  <2> QED BY <2>1, <2>2 DEF StepsMade, On
<1>5. CASE R.newer # {}
  <2>1. Q = [older |-> all, newer |-> On(R.newer) \ all]
    BY <1>5 DEF Grown, Further, Steps
  <2>2. Q.older = all /\ Q.newer = On(R.newer) \ all
    <3> HIDE DEF On, all
    <3> QED BY <2>1
  <2>3. On(all) = On(R.older) \cup On(R.newer)
    BY <1>1
  <2>4. StepsMade(R, g, v) => On(R.older) \subseteq all
    BY DEF StepsMade
  <2>5. On(R.newer) \in SUBSET Configs(g)
    BY <1>2, <1>3
  <2> HIDE DEF On
  <2>6. StepsMade(R, g, v) => all \cup (On(R.newer) \ all) = all \cup On(all)
    BY <2>3, <2>4
  <2>7. Q \in Sides(g)
    <3>1. all \in SUBSET Configs(g) /\ On(R.newer) \ all \in SUBSET Configs(g)
      BY <1>3, <2>5
    <3> HIDE DEF all
    <3> QED BY <2>1, <3>1 DEF Sides
  <2>8. StepsMade(Q, g, v) <=> On(all) \subseteq all \cup (On(R.newer) \ all)
    BY <2>2 DEF StepsMade, On
  <2>9. StepsMade(R, g, v) => Q.older \cup Q.newer = all \cup On(all)
    BY <2>2, <2>6
  <2> QED BY <2>6, <2>7, <2>8, <2>9 DEF On
<1> QED BY <1>4, <1>5

ReachReadings(U, g, l, v) ==
  /\ AreReached(U, g, l, v)
  /\ \A b : b \in Readings(g, l, v) <=> \E x \in U[MostSteps(g, l)] : x.args = <<>> /\ x.s \in g.final /\ x.got = b

LEMMA ReadingsReached ==
  ASSUME NEW g, NEW M, NEW E, NEW l, NEW v, IsDirect(g, M, E), l \in Args
  PROVE  \E U : ReachReadings(U, g, l, v)
<1> DEFINE More(R) == Grown(R, g, v)
           a == [older |-> {}, newer |-> {Reached(g.start, l, FALSE, <<>>)}]
           N == MostSteps(g, l)
           V == {R \in Sides(g) : StepsMade(R, g, v)}
           F == [R \in V |-> More(R)]
<1>1. N \in Nat
  BY WeightIs DEF MostSteps, IsDirect
<1>2. a \in V
  <2>1. Reached(g.start, l, FALSE, <<>>) \in Configs(g)
    <3>1. <<>> \in Bindings
      BY DEF Bindings
    <3> QED BY <3>1 DEF Reached, Configs, IsDirect
  <2>2. StepsMade(a, g, v)
    <3>1. a.older = {}
      OBVIOUS
    <3>2. \A y : y \notin Steps({}, g, v)
      <4>1. PICK none : none = {}
        OBVIOUS
      <4>2. \A y : y \notin Steps(none, g, v)
        BY <4>1, StepsAre
      <4> QED BY <4>1, <4>2
    <3> HIDE DEF a
    <3> QED BY <3>1, <3>2 DEF StepsMade
  <2>3. a \in Sides(g)
    BY <2>1 DEF Sides
  <2> HIDE DEF a
  <2> QED BY <2>2, <2>3
<1>3. \A R \in V : /\ More(R) \in V
                   /\ More(R).older \cup More(R).newer =
                        (R.older \cup R.newer) \cup Steps(R.older \cup R.newer, g, v)
  <2> TAKE R \in V
  <2>1. PICK Q : Q = Grown(R, g, v)
    OBVIOUS
  <2>2. R \in Sides(g) /\ StepsMade(R, g, v)
    OBVIOUS
  <2>3. /\ Q \in Sides(g) /\ StepsMade(Q, g, v)
        /\ Q.older \cup Q.newer = (R.older \cup R.newer) \cup Steps(R.older \cup R.newer, g, v)
    BY <2>1, <2>2, FurtherIs
  <2> QED BY <2>1, <2>3
<1>a. a.older \cup a.newer = {Reached(g.start, l, FALSE, <<>>)}
  OBVIOUS
<1>b. \A R \in V : R.older \cup R.newer \in SUBSET Configs(g)
  BY DEF Sides
<1> HIDE DEF More, V, a
<1>4. F \in [V -> V] /\ \A R \in V : F[R] = More(R)
  BY <1>3
<1> HIDE DEF F, N
<1>5. PICK f \in [Nat -> V] : f[0] = a /\ \A n \in Nat : f[n + 1] = F[f[n]]
  <2>1. \E f \in [Nat -> V] : f[0] = a /\ \A n \in Nat : f[n + 1] = F[f[n]]
    <3>1. a \in V /\ F \in [V -> V]
      BY <1>2, <1>4
    <3> QED BY <3>1, Iteration
  <2> QED BY <2>1
<1>6. f = [n \in Nat |-> IF n = 0 THEN a ELSE More(f[n - 1])]
  <2>1. ASSUME NEW n \in Nat PROVE f[n] = IF n = 0 THEN a ELSE More(f[n - 1])
    <3>1. CASE n = 0
      BY <1>5, <3>1
    <3>2. CASE n # 0
      <4>1. n - 1 \in Nat /\ (n - 1) + 1 = n
        BY <3>2
      <4> QED BY <1>4, <1>5, <3>2, <4>1
    <3> QED BY <3>1, <3>2
  <2> QED BY <2>1
<1> DEFINE fix == CHOOSE h : h = [n \in Nat |-> IF n = 0 THEN a ELSE More(h[n - 1])]
<1>7. fix = [n \in Nat |-> IF n = 0 THEN a ELSE More(fix[n - 1])]
  BY <1>6, Zenon
<1>8. Readings(g, l, v) =
        {c.got : c \in {d \in fix[N].older \cup fix[N].newer : d.args = <<>> /\ d.s \in g.final}}
  BY Zenon DEF Readings, ReadingsOf, More, Grown, N, a
<1> HIDE DEF fix
<1>9. fix[0] = a /\ \A n \in Nat : fix[n + 1] = More(fix[n])
  <2>1. \A n \in Nat : n + 1 \in Nat /\ n + 1 # 0 /\ (n + 1) - 1 = n
    OBVIOUS
  <2> QED BY <1>7, <2>1
<1>10. \A n \in Nat : fix[n] \in V
  <2>1. \A n \in Nat : fix[n] \in V => fix[n + 1] = F[fix[n]]
    BY <1>4, <1>9
  <2> QED BY <1>2, <1>4, <1>9, <2>1, Iterated
<1> DEFINE U == [n \in Nat |-> fix[n].older \cup fix[n].newer]
<1>11. \A n \in Nat : U[n] = fix[n].older \cup fix[n].newer
  OBVIOUS
<1> HIDE DEF U
<1>12. AreReached(U, g, l, v)
  <2>1. U[0] = {Reached(g.start, l, FALSE, <<>>)}
    BY <1>9, <1>11, <1>a
  <2>2. ASSUME NEW n \in Nat
        PROVE  U[n] \in SUBSET Configs(g) /\ U[n + 1] = U[n] \cup Steps(U[n], g, v)
    <3>1. U[n] = fix[n].older \cup fix[n].newer /\ U[n + 1] = fix[n + 1].older \cup fix[n + 1].newer
      BY <1>11
    <3>2. fix[n] \in V /\ fix[n + 1] = More(fix[n])
      BY <1>9, <1>10
    <3> QED BY <1>3, <1>b, <3>1, <3>2
  <2> QED BY <2>1, <2>2 DEF AreReached
<1>13. \A b : b \in Readings(g, l, v) <=> \E x \in U[N] : x.args = <<>> /\ x.s \in g.final /\ x.got = b
  <2>1. U[N] = fix[N].older \cup fix[N].newer
    BY <1>1, <1>11
  <2> QED BY <1>8, <2>1
<1> QED BY <1>12, <1>13 DEF N, ReachReadings

\* What a matcher answers is a line, and bindings.
LEMMA AnswerIs ==
  ASSUME NEW m, IsMatcher(m), NEW x, x.args \in Args, x.reject \in BOOLEAN, NEW v
  PROVE  Answer(m, x, v).rem \in Args /\ Answer(m, x, v).got \in Bindings
<1>1. Rest(x) \in Seq(Argument)
  <2>1. CASE Ends(x)
    <3>1. x.args # <<>> /\ Rest(x) = Tail(x.args)
      BY <2>1 DEF Ends, Rest
    <3> QED BY <3>1, HeadTailProperties DEF Args
  <2>2. CASE ~Ends(x)
    BY <2>2 DEF Rest, Args
  <2> QED BY <2>1, <2>2
<1>2. Match(m, Rest(x), Reject(x), v) \in AnswersTo(Rest(x))
  BY <1>1, TakesOrLeaves
<1> QED BY <1>2 DEF Answer, AnswersTo

(***************************************************************************)
(* The matchers of w lead from x to y: through the situations c, binding t. *)
(***************************************************************************)
Through(c, t, w, v) ==
  \A i \in 1 .. Len(w) :
    /\ Answer(w[i], c[i], v).ok /\ c[i + 1] = After(w[i], c[i], v)
    /\ Answer(w[i], c[i], v).got \in Bindings
    /\ t[i - 1] \in Bindings /\ t[i] \in Bindings /\ t[i] = t[i - 1] \o Answer(w[i], c[i], v).got

Leading(c, t, x, w, y, v) ==
  /\ c[1] = At(x.args, x.reject) /\ t[0] = x.got
  /\ Through(c, t, w, v)
  /\ c[Len(w) + 1] = At(y.args, y.reject) /\ t[Len(w)] = y.got

Led(x, w, y, v) == \E c, t : Leading(c, t, x, w, y, v)

\* To no matcher more, and to one.
LEMMA LedNowhere ==
  ASSUME NEW x, NEW v
  PROVE  Led(x, <<>>, x, v)
<1> DEFINE c == [i \in {1} |-> At(x.args, x.reject)]
           t == [i \in {0} |-> x.got]
<1>1. c[1] = At(x.args, x.reject) /\ t[0] = x.got
  OBVIOUS
<1>2. Len(<<>>) = 0 /\ 0 + 1 = 1 /\ \A i \in 1 .. 0 : FALSE
  OBVIOUS
<1> HIDE DEF c, t
<1>3. Leading(c, t, x, <<>>, x, v)
  BY <1>1, <1>2 DEF Leading, Through
<1> QED BY <1>3 DEF Led

LEMMA LedOn ==
  ASSUME NEW E, NEW x, NEW w, NEW y, NEW v, NEW e, NEW z, w \in Seq(E), e[2] \in E, IsMatcher(e[2]), Led(x, w, y, v),
         y.args \in Args, y.reject \in BOOLEAN, y.got \in Bindings,
         Answer(e[2], y, v).ok, z = Moved(y, e, v)
  PROVE  Led(x, Append(w, e[2]), z, v)
<1>1. PICK c, t : Leading(c, t, x, w, y, v)
  BY DEF Led
<1>2. PICK m, n, a : m = e[2] /\ n = Len(w) /\ a = Answer(m, y, v)
  OBVIOUS
<1>3. /\ n \in Nat /\ Append(w, m) \in Seq(E) /\ Len(Append(w, m)) = n + 1
      /\ \A i \in 1 .. n : Append(w, m)[i] = w[i]
      /\ Append(w, m)[n + 1] = m
  BY <1>2, Suffixed, LenProperties
<1>4. a.ok /\ a.rem \in Args /\ a.got \in Bindings
  BY <1>2, AnswerIs
<1>5. /\ z.args = a.rem /\ z.reject = RejectAfter(m, Reject(y)) /\ z.got = y.got \o a.got
  BY <1>2 DEF Moved, Reached
<1>6. y.got \o a.got \in Bindings
  BY <1>4, ConcatProperties DEF Bindings
<1> DEFINE d == [i \in 1 .. n + 2 |-> IF i = n + 2 THEN At(z.args, z.reject) ELSE c[i]]
           s == [i \in 0 .. n + 1 |-> IF i = n + 1 THEN z.got ELSE t[i]]
<1>7. /\ \A i \in 1 .. n + 1 : d[i] = c[i]
      /\ d[n + 2] = At(z.args, z.reject)
      /\ \A i \in 0 .. n : s[i] = t[i]
      /\ s[n + 1] = z.got
  BY <1>3
<1>8. PICK u : u = Append(w, m)
  OBVIOUS
<1> HIDE DEF d, s
<1>9. c[1] = At(x.args, x.reject) /\ t[0] = x.got /\ c[n + 1] = At(y.args, y.reject) /\ t[n] = y.got
  BY <1>1, <1>2 DEF Leading
<1>10. Through(d, s, u, v)
  <2> SUFFICES ASSUME NEW i \in 1 .. n + 1
               PROVE  /\ Answer(u[i], d[i], v).ok /\ d[i + 1] = After(u[i], d[i], v)
                      /\ Answer(u[i], d[i], v).got \in Bindings
                      /\ s[i - 1] \in Bindings /\ s[i] \in Bindings /\ s[i] = s[i - 1] \o Answer(u[i], d[i], v).got
    BY <1>3, <1>8 DEF Through
  <2>1. CASE i = n + 1
    <3>1. d[i] = At(y.args, y.reject) /\ d[i + 1] = At(z.args, z.reject) /\ u[i] = m /\ s[i - 1] = y.got /\ s[i] = z.got
      <4>1. n + 1 \in 1 .. n + 1 /\ (n + 1) + 1 = n + 2 /\ (n + 1) - 1 = n /\ n \in 0 .. n
        BY <1>3
      <4> QED BY <1>3, <1>7, <1>8, <1>9, <2>1, <4>1
    <3>2. d[i].args = y.args /\ d[i].reject = y.reject
      BY <3>1 DEF At
    <3>3. Answer(m, d[i], v) = a /\ Reject(d[i]) = Reject(y)
      BY <1>2, <3>2, SameAnswer
    <3>4. After(m, d[i], v) = At(z.args, z.reject)
      BY <1>5, <3>3 DEF After
    <3> QED BY <1>4, <1>5, <1>6, <3>1, <3>3, <3>4
  <2>2. CASE i # n + 1
    <3>1. i \in 1 .. n /\ i \in 1 .. n + 1 /\ i + 1 \in 1 .. n + 1 /\ i \in 0 .. n /\ i - 1 \in 0 .. n
      BY <1>3, <2>2
    <3>2. d[i] = c[i] /\ d[i + 1] = c[i + 1] /\ u[i] = w[i] /\ s[i - 1] = t[i - 1] /\ s[i] = t[i]
      BY <1>3, <1>7, <1>8, <3>1
    <3> QED BY <1>1, <1>2, <3>1, <3>2 DEF Leading, Through
  <2> QED BY <2>1, <2>2
<1>11. Leading(d, s, x, u, z, v)
  <2>1. 1 \in 1 .. n + 1 /\ 0 \in 0 .. n /\ (n + 1) + 1 = n + 2
    BY <1>3
  <2>2. Len(u) = n + 1
    BY <1>3, <1>8
  <2> QED BY <1>7, <1>9, <1>10, <2>1, <2>2 DEF Leading
<1> QED BY <1>2, <1>8, <1>11 DEF Led

\* What is reached is led to by matchers that any word of its state completes.
Spelling(x, w, M, E, g, l, v) ==
  /\ w \in Seq(E) /\ Led(Reached(g.start, l, FALSE, <<>>), w, x, v)
  /\ \A u \in M[x.s] : w \o u \in M[g.start]

LEMMA ReachedSpells ==
  ASSUME NEW g, NEW M, NEW E, NEW l, NEW v, NEW U, IsDirect(g, M, E), AreReached(U, g, l, v)
  PROVE  \A n \in Nat : \A x \in U[n] : \E w : Spelling(x, w, M, E, g, l, v)
<1> DEFINE Ok == {n \in Nat : \A x \in U[n] : \E w : Spelling(x, w, M, E, g, l, v)}
           x0 == Reached(g.start, l, FALSE, <<>>)
<1>1. 0 \in Ok
  <2>1. U[0] = {x0} /\ x0.s = g.start
    BY DEF AreReached, Reached
  <2>2. Led(x0, <<>>, x0, v)
    BY LedNowhere
  <2>3. <<>> \in Seq(E) /\ \A u \in M[g.start] : <<>> \o u = u
    <3>1. M[g.start] \subseteq Seq(E)
      BY DEF IsDirect
    <3> QED BY <3>1, ConcatEmptySeq
  <2> HIDE DEF x0
  <2>4. Spelling(x0, <<>>, M, E, g, l, v)
    BY <2>1, <2>2, <2>3 DEF Spelling, x0
  <2> QED BY <2>1, <2>4
<1>2. ASSUME NEW n \in Ok PROVE n + 1 \in Ok
  <2> SUFFICES ASSUME NEW y \in U[n + 1] PROVE \E w : Spelling(y, w, M, E, g, l, v)
    OBVIOUS
  <2>1. U[n] \in SUBSET Configs(g) /\ U[n + 1] = U[n] \cup Steps(U[n], g, v)
    BY DEF AreReached
  <2>2. CASE y \in U[n]
    BY <2>2
  <2>3. CASE y \in Steps(U[n], g, v)
    <3>1. PICK x \in U[n] : Moves(y, x, g, v)
      BY <2>3, StepsAre
    <3>2. PICK w : Spelling(x, w, M, E, g, l, v)
      OBVIOUS
    <3>3. PICK e \in g.labels : e[1] = x.s /\ Answer(e[2], x, v).ok /\ y = Moved(x, e, v)
      BY <3>1 DEF Moves
    <3>4. e[2] \in E /\ IsMatcher(e[2]) /\ e[3] \in 1 .. g.states /\ \A u \in M[e[3]] : <<e[2]>> \o u \in M[x.s]
      BY <3>3 DEF IsDirect
    <3>5. x.args \in Args /\ x.reject \in BOOLEAN /\ x.got \in Bindings
      BY <2>1 DEF Configs
    <3>6. Led(x0, Append(w, e[2]), y, v)
      <4> HIDE DEF x0
      <4>1. w \in Seq(E) /\ Led(x0, w, x, v)
        BY <3>2 DEF Spelling, x0
      <4> QED BY <3>3, <3>4, <3>5, <4>1, LedOn
    <3>7. y.s = e[3]
      BY <3>3 DEF Moved, Reached
    <3>8. \A u \in M[y.s] : Append(w, e[2]) \o u \in M[g.start]
      <4> SUFFICES ASSUME NEW u \in M[y.s] PROVE Append(w, e[2]) \o u \in M[g.start]
        OBVIOUS
      <4>1. u \in Seq(E) /\ <<e[2]>> \o u \in M[x.s]
        BY <3>4, <3>7 DEF IsDirect
      <4>2. w \in Seq(E) /\ w \o (<<e[2]>> \o u) \in M[g.start]
        BY <3>2, <4>1 DEF Spelling
      <4>3. PICK m : m = e[2]
        OBVIOUS
      <4>4. m \in E
        BY <3>4, <4>3
      <4>5. Append(w, m) \o u = w \o (<<m>> \o u)
        BY <4>1, <4>2, <4>4, Prefixed
      <4> QED BY <4>2, <4>3, <4>5
    <3>9. Append(w, e[2]) \in Seq(E)
      BY <3>2, <3>4, Suffixed DEF Spelling
    <3> QED BY <3>6, <3>8, <3>9 DEF Spelling, x0
  <2> QED BY <2>1, <2>2, <2>3
<1>3. Ok \subseteq Nat
  OBVIOUS
<1> HIDE DEF Ok
<1>4. \A n \in Nat : n \in Ok
  BY <1>1, <1>2, <1>3, Induction
<1> QED BY <1>4 DEF Ok

\* A word that leads to the end of the line reads it.
LEMMA LedReads ==
  ASSUME NEW E, NEW W, NEW w, NEW x, NEW y, NEW v, w \in Seq(E), w \in W, Led(x, w, y, v),
         x.reject = FALSE, x.got = <<>>, y.args = <<>>
  PROVE  Read(W, x.args, v, y.got)
<1>1. PICK c, t : Leading(c, t, x, w, y, v)
  BY DEF Led
<1>2. PICK n : n = Len(w)
  OBVIOUS
<1> DEFINE gots == [i \in 1 .. n |-> Answer(w[i], c[i], v).got]
<1>3. n \in Nat
  BY <1>2, LenProperties
<1>4. gots \in Seq(Bindings) /\ Len(gots) = n /\ \A i \in 1 .. n : gots[i] = Answer(w[i], c[i], v).got
  <2>1. gots \in [1 .. n -> Bindings]
    BY <1>1, <1>2 DEF Leading, Through
  <2> QED BY <1>3, <2>1, LenProperties
<1>5. gots = [i \in 1 .. Len(w) |-> Answer(w[i], c[i], v).got]
  BY <1>2
<1> HIDE DEF gots
<1>6. JoinsOf(t, gots)
  BY <1>1, <1>2, <1>4 DEF JoinsOf, Leading, Through
<1>7. FlattenSeq(gots) = y.got
  <2>1. FlattenSeq(gots) = t[Len(gots)]
    BY <1>4, <1>6, Flattened DEF Bindings
  <2> QED BY <1>1, <1>2, <1>4, <2>1 DEF Leading
<1>8. c[1] = At(x.args, FALSE) /\ Consumes(w, c, v)
  <2>1. c[Len(w) + 1].args = <<>>
    BY <1>1 DEF Leading, At
  <2> QED BY <1>1, <2>1 DEF Leading, Through, Consumes
<1> QED BY <1>5, <1>7, <1>8 DEF Read

\* The first matcher of a word, and the others.
LEMMA LedFirst ==
  ASSUME NEW E, NEW x, NEW u, NEW y, NEW v, NEW e, NEW z, u \in Seq(E), e[2] \in E,
         Led(x, <<e[2]>> \o u, y, v), z = Moved(x, e, v)
  PROVE  Answer(e[2], x, v).ok /\ Led(z, u, y, v)
<1>1. PICK m, n, w : m = e[2] /\ n = Len(u) /\ w = <<m>> \o u
  OBVIOUS
<1>2. PICK c, t : Leading(c, t, x, w, y, v)
  BY <1>1 DEF Led
<1>3. n \in Nat /\ Len(w) = n + 1 /\ w[1] = m /\ \A i \in 1 .. n : w[i + 1] = u[i]
  BY <1>1, Prefixed
<1>4. 1 \in 1 .. n + 1 /\ 1 - 1 = 0 /\ 1 + 1 = 2
  BY <1>3
<1>5. /\ Answer(m, c[1], v).ok /\ c[2] = After(m, c[1], v)
      /\ t[1] = t[0] \o Answer(m, c[1], v).got
  <2>1. /\ Answer(w[1], c[1], v).ok /\ c[1 + 1] = After(w[1], c[1], v)
        /\ t[1] = t[1 - 1] \o Answer(w[1], c[1], v).got
    BY <1>2, <1>3, <1>4 DEF Leading, Through
  <2> QED BY <1>3, <1>4, <2>1
<1>6. /\ c[1].args = x.args /\ c[1].reject = x.reject /\ t[0] = x.got
      /\ c[n + 2] = At(y.args, y.reject) /\ t[n + 1] = y.got
  <2>1. (n + 1) + 1 = n + 2
    BY <1>3
  <2> QED BY <1>2, <1>3, <2>1 DEF Leading, At
<1>7. Answer(m, c[1], v) = Answer(m, x, v) /\ Reject(c[1]) = Reject(x)
  BY <1>6, SameAnswer
<1>8. c[2] = At(z.args, z.reject) /\ t[1] = z.got
  BY <1>1, <1>5, <1>6, <1>7 DEF Moved, Reached, After
<1> DEFINE d == [i \in 1 .. n + 1 |-> c[i + 1]]
           s == [i \in 0 .. n |-> t[i + 1]]
<1>9. (\A i \in 1 .. n + 1 : d[i] = c[i + 1]) /\ (\A i \in 0 .. n : s[i] = t[i + 1])
  OBVIOUS
<1> HIDE DEF d, s
<1>10. Through(d, s, u, v)
  <2> SUFFICES ASSUME NEW i \in 1 .. n
               PROVE  /\ Answer(u[i], d[i], v).ok /\ d[i + 1] = After(u[i], d[i], v)
                      /\ Answer(u[i], d[i], v).got \in Bindings
                      /\ s[i - 1] \in Bindings /\ s[i] \in Bindings /\ s[i] = s[i - 1] \o Answer(u[i], d[i], v).got
    BY <1>1 DEF Through
  <2>1. /\ i \in 1 .. n + 1 /\ i + 1 \in 1 .. n + 1 /\ i \in 0 .. n /\ i - 1 \in 0 .. n
        /\ (i - 1) + 1 = i /\ (i + 1) - 1 = i
    BY <1>3
  <2>2. d[i] = c[i + 1] /\ d[i + 1] = c[(i + 1) + 1] /\ u[i] = w[i + 1] /\ s[i] = t[i + 1] /\ s[i - 1] = t[i]
    BY <1>3, <1>9, <2>1
  <2>3. /\ Answer(w[i + 1], c[i + 1], v).ok /\ c[(i + 1) + 1] = After(w[i + 1], c[i + 1], v)
        /\ Answer(w[i + 1], c[i + 1], v).got \in Bindings
        /\ t[(i + 1) - 1] \in Bindings /\ t[i + 1] \in Bindings
        /\ t[i + 1] = t[(i + 1) - 1] \o Answer(w[i + 1], c[i + 1], v).got
    BY <1>2, <1>3, <2>1 DEF Leading, Through
  <2> QED BY <2>1, <2>2, <2>3
<1>11. Leading(d, s, z, u, y, v)
  <2>1. 1 \in 1 .. n + 1 /\ n + 1 \in 1 .. n + 1 /\ 0 \in 0 .. n /\ n \in 0 .. n /\ (n + 1) + 1 = n + 2 /\ 0 + 1 = 1
    BY <1>3
  <2>2. d[1] = c[2] /\ d[n + 1] = c[n + 2] /\ s[0] = t[1] /\ s[n] = t[n + 1]
    BY <1>4, <1>9, <2>1
  <2> QED BY <1>1, <1>6, <1>8, <1>10, <2>2 DEF Leading
<1> QED BY <1>1, <1>5, <1>7, <1>11 DEF Led

\* No matcher leads anywhere else.
LEMMA LedByNone ==
  ASSUME NEW x, NEW y, NEW v, Led(x, <<>>, y, v)
  PROVE  x.args = y.args /\ x.got = y.got
<1>1. PICK c, t : Leading(c, t, x, <<>>, y, v)
  BY DEF Led
<1>2. Len(<<>>) = 0 /\ 0 + 1 = 1
  OBVIOUS
<1> QED BY <1>1, <1>2 DEF Leading, At

\* They lead to the end of the line, and have bound b.
Finishes(x, u, v, b) == \E y : Led(x, u, y, v) /\ y.args = <<>> /\ y.got = b

AreMatchers(E) == \A m \in E : IsMatcher(m)

\* A word that reads a line leads to its end.
LEMMA ReadsLed ==
  ASSUME NEW E, NEW W, NEW l, NEW v, NEW b, NEW x, AreMatchers(E), W \subseteq Seq(E), l \in Args,
         Read(W, l, v, b), x.args = l, x.reject = FALSE, x.got = <<>>
  PROVE  \E w \in W : Finishes(x, w, v, b)
<1>1. PICK w \in W : \E c :
        /\ c[1] = At(l, FALSE) /\ Consumes(w, c, v)
        /\ b = FlattenSeq([i \in 1 .. Len(w) |-> Answer(w[i], c[i], v).got])
  BY DEF Read
<1>2. PICK c :
        /\ c[1] = At(l, FALSE) /\ Consumes(w, c, v)
        /\ b = FlattenSeq([i \in 1 .. Len(w) |-> Answer(w[i], c[i], v).got])
  BY <1>1
<1>3. PICK n : n = Len(w)
  OBVIOUS
<1> DEFINE gots == [i \in 1 .. n |-> Answer(w[i], c[i], v).got]
<1>4. n \in Nat /\ \A i \in 1 .. n : IsMatcher(w[i])
  BY <1>3, LenProperties, ElementOfSeq DEF AreMatchers
<1>5. /\ \A i \in 1 .. n : Answer(w[i], c[i], v).ok /\ c[i + 1] = After(w[i], c[i], v)
      /\ c[n + 1].args = <<>>
  BY <1>2, <1>3 DEF Consumes
<1>6. \A i \in 1 .. n + 1 : c[i] = At(c[i].args, c[i].reject) /\ c[i].args \in Args /\ c[i].reject \in BOOLEAN
  <2> DEFINE Held(k) == c[k + 1] = At(c[k + 1].args, c[k + 1].reject) /\ c[k + 1].args \in Args /\ c[k + 1].reject \in BOOLEAN
             Ok == {k \in Nat : k <= n => Held(k)}
  <2>1. Held(0)
    <3>1. 0 + 1 = 1 /\ At(l, FALSE).args = l /\ At(l, FALSE).reject = FALSE
      BY DEF At
    <3> QED BY <1>2, <3>1
  <2>2. ASSUME NEW k \in Nat, k <= n => Held(k), k + 1 <= n PROVE Held(k + 1)
    <3>1. k + 1 \in 1 .. n /\ k <= n
      BY <1>4, <2>2
    <3>2. Answer(w[k + 1], c[k + 1], v).ok /\ c[(k + 1) + 1] = After(w[k + 1], c[k + 1], v) /\ IsMatcher(w[k + 1])
      BY <1>4, <1>5, <3>1
    <3>3. PICK m, f, g : m = w[k + 1] /\ f = c[k + 1] /\ g = c[(k + 1) + 1]
      OBVIOUS
    <3>4. f.args \in Args /\ f.reject \in BOOLEAN
      BY <2>2, <3>1, <3>3
    <3>5. Answer(m, f, v).rem \in Args
      BY <3>2, <3>3, <3>4, AnswerIs
    <3>6. RejectAfter(m, Reject(f)) \in BOOLEAN
      BY <3>4 DEF RejectAfter, Reject
    <3>7. g = At(g.args, g.reject) /\ g.args \in Args /\ g.reject \in BOOLEAN
      <4>1. g = At(Answer(m, f, v).rem, RejectAfter(m, Reject(f)))
        BY <3>2, <3>3 DEF After
      <4> QED BY <3>5, <3>6, <4>1 DEF At
    <3> QED BY <3>3, <3>7
  <2> HIDE DEF Held
  <2>3. 0 \in Ok /\ Ok \subseteq Nat
    BY <2>1
  <2>4. ASSUME NEW k \in Ok PROVE k + 1 \in Ok
    BY <2>2, <2>4
  <2> HIDE DEF Ok
  <2>5. \A k \in Nat : k \in Ok
    BY <2>3, <2>4, Induction
  <2>6. \A k \in Nat : k <= n => Held(k)
    BY <2>5 DEF Ok
  <2> SUFFICES ASSUME NEW i \in 1 .. n + 1
               PROVE  c[i] = At(c[i].args, c[i].reject) /\ c[i].args \in Args /\ c[i].reject \in BOOLEAN
    OBVIOUS
  <2>7. i - 1 \in Nat /\ i - 1 <= n /\ (i - 1) + 1 = i
    BY <1>4
  <2>8. Held(i - 1)
    BY <2>6, <2>7
  <2> QED BY <2>7, <2>8 DEF Held
<1>7. \A i \in 1 .. n : Answer(w[i], c[i], v).got \in Bindings
  <2> TAKE i \in 1 .. n
  <2>1. PICK m, f : m = w[i] /\ f = c[i]
    OBVIOUS
  <2>2. i \in 1 .. n + 1
    BY <1>4
  <2>3. IsMatcher(m) /\ f.args \in Args /\ f.reject \in BOOLEAN
    BY <1>4, <1>6, <2>1, <2>2
  <2> QED BY <2>1, <2>3, AnswerIs
<1>8. gots \in Seq(Bindings) /\ Len(gots) = n /\ \A i \in 1 .. n : gots[i] = Answer(w[i], c[i], v).got
  <2>1. gots \in [1 .. n -> Bindings]
    BY <1>7
  <2> QED BY <1>4, <2>1, LenProperties
<1>9. b = FlattenSeq(gots)
  BY <1>2, <1>3
<1> HIDE DEF gots
<1>10. PICK t \in [0 .. Len(gots) -> Bindings] : JoinsOf(t, gots)
  <2>1. \E t \in [0 .. Len(gots) -> Bindings] : JoinsOf(t, gots)
    BY <1>8, Joins DEF Bindings
  <2> QED BY <2>1
<1>11. b = t[n]
  <2>1. FlattenSeq(gots) = t[Len(gots)]
    BY <1>8, <1>10, Flattened DEF Bindings
  <2> QED BY <1>8, <1>9, <2>1
<1> DEFINE y == [args |-> c[n + 1].args, reject |-> c[n + 1].reject, got |-> b]
<1>12. Through(c, t, w, v)
  <2> SUFFICES ASSUME NEW i \in 1 .. n
               PROVE  /\ Answer(w[i], c[i], v).ok /\ c[i + 1] = After(w[i], c[i], v)
                      /\ Answer(w[i], c[i], v).got \in Bindings
                      /\ t[i - 1] \in Bindings /\ t[i] \in Bindings /\ t[i] = t[i - 1] \o Answer(w[i], c[i], v).got
    BY <1>3 DEF Through
  <2>1. i - 1 \in 0 .. n /\ i \in 0 .. n
    BY <1>4
  <2> QED BY <1>5, <1>7, <1>8, <1>10, <2>1 DEF JoinsOf
<1>13. Leading(c, t, x, w, y, v)
  <2>1. c[n + 1] = At(y.args, y.reject) /\ t[n] = y.got
    <3>1. n + 1 \in 1 .. n + 1
      BY <1>4
    <3> QED BY <1>6, <1>11, <3>1
  <2>2. c[1] = At(x.args, x.reject) /\ t[0] = x.got
    BY <1>2, <1>10 DEF JoinsOf
  <2> HIDE DEF y
  <2> QED BY <1>3, <1>12, <2>1, <2>2 DEF Leading
<1>14. y.args = <<>> /\ y.got = b
  BY <1>5
<1> HIDE DEF y
<1> QED BY <1>13, <1>14 DEF Led, Finishes

(***************************************************************************)
(* Whatever reads the rest of the line from a place that is reached, the   *)
(* end is reached, before the bound.                                       *)
(***************************************************************************)
Ended(U, n, g, b) == \E x \in U[n] : x.args = <<>> /\ x.s \in g.final /\ x.got = b

\* What is reached stays so.
LEMMA ReachedStays ==
  ASSUME NEW U, NEW g, NEW l, NEW v, AreReached(U, g, l, v), NEW n \in Nat
  PROVE  \A k \in Nat : U[n] \subseteq U[n + k]
<1> DEFINE Ok == {k \in Nat : U[n] \subseteq U[n + k]}
<1>1. 0 \in Ok
  OBVIOUS
<1>2. ASSUME NEW k \in Ok PROVE k + 1 \in Ok
  <2>1. U[(n + k) + 1] = U[n + k] \cup Steps(U[n + k], g, v) /\ (n + k) + 1 = n + (k + 1)
    BY DEF AreReached
  <2> QED BY <2>1
<1>3. Ok \subseteq Nat
  OBVIOUS
<1> HIDE DEF Ok
<1>4. \A k \in Nat : k \in Ok
  BY <1>1, <1>2, <1>3, Induction
<1> QED BY <1>4 DEF Ok

LEMMA EndedStays ==
  ASSUME NEW U, NEW g, NEW l, NEW v, NEW b, NEW n \in Nat, NEW k \in Nat, AreReached(U, g, l, v), Ended(U, n, g, b), n <= k
  PROVE  Ended(U, k, g, b)
<1>1. k - n \in Nat /\ n + (k - n) = k
  OBVIOUS
<1>2. U[n] \subseteq U[k]
  BY <1>1, ReachedStays
<1> QED BY <1>2 DEF Ended

\* The same place in another state.
Other(x, s) == Reached(s, x.args, x.reject, x.got)

LEMMA OtherIs ==
  ASSUME NEW g, NEW x, x \in Configs(g)
  PROVE  /\ x = Other(x, x.s) /\ x.s \in 1 .. g.states
         /\ \A s \in 1 .. g.states : Other(x, s) \in Configs(g) /\ Other(x, s).s = s /\ SameButState(Other(x, s), x)
         /\ \A y \in Configs(g) : SameButState(y, x) => y = Other(x, y.s)
         /\ \A y, s : SameButState(y, Other(x, s)) <=> SameButState(y, x)
         /\ \A s : Left(Other(x, s)) = Left(x)
BY DEF Configs, Other, Reached, SameButState, Left

\* All the states that moves which change nothing else lead to are reached in as many
\* steps as there are states.
Level(Z, x, g, v) ==
  /\ Z \in SUBSET (1 .. g.states) /\ x.s \in Z
  /\ \A s \in Z : \A y : Moves(y, Other(x, s), g, v) /\ SameButState(y, x) => y.s \in Z

LEMMA LevelReached ==
  ASSUME NEW U, NEW g, NEW l, NEW v, NEW M, NEW E, NEW n \in Nat, NEW x, AreReached(U, g, l, v), IsDirect(g, M, E), x \in U[n]
  PROVE  \E Z : Level(Z, x, g, v) /\ \A s \in Z : Other(x, s) \in U[n + g.states]
<1> DEFINE K == g.states
           T == 1 .. K
           Onto(X) == {q \in T : \E s \in X : \E y : Moves(y, Other(x, s), g, v) /\ SameButState(y, x) /\ y.s = q}
           F == [X \in SUBSET T |-> X \cup Onto(X)]
           a == {x.s}
<1>1. K \in Nat /\ U[n] \in SUBSET Configs(g) /\ x \in Configs(g)
  BY DEF AreReached, IsDirect
<1>2. x.s \in T /\ x = Other(x, x.s)
  BY <1>1, OtherIs
<1>3. IsFiniteSet(T) /\ Cardinality(T) = K
  <2>1. 1 \in Int /\ K \in Int
    BY <1>1
  <2>2. IsFiniteSet(1 .. K) /\ Cardinality(1 .. K) = IF 1 > K THEN 0 ELSE K - 1 + 1
    <3> HIDE DEF K
    <3> QED BY <2>1, FS_Interval
  <2> HIDE DEF K
  <2> QED BY <1>1, <2>2
<1>4. F \in [SUBSET T -> SUBSET T] /\ a \in SUBSET T /\ \A X \in SUBSET T : F[X] = X \cup Onto(X)
  BY <1>2
<1>a. \A X : \A q : q \in Onto(X) <=> q \in T /\ \E s \in X : \E y : Moves(y, Other(x, s), g, v) /\ SameButState(y, x) /\ y.s = q
  OBVIOUS
<1> HIDE DEF F, Onto
<1>5. PICK f \in [Nat -> SUBSET T] : f[0] = a /\ \A j \in Nat : f[j + 1] = F[f[j]]
  <2>1. \E f \in [Nat -> SUBSET T] : f[0] = a /\ \A j \in Nat : f[j + 1] = F[f[j]]
    <3>1. a \in SUBSET T /\ F \in [SUBSET T -> SUBSET T]
      BY <1>4
    <3>2. PICK W : W = SUBSET T
      OBVIOUS
    <3>3. a \in W /\ F \in [W -> W]
      BY <3>1, <3>2
    <3>4. \E f \in [Nat -> W] : f[0] = a /\ \A j \in Nat : f[j + 1] = F[f[j]]
      <4> HIDE DEF T, a
      <4> QED BY <3>3, Iteration
    <3> QED BY <3>2, <3>4
  <2> QED BY <2>1
<1> DEFINE Z == f[K]
<1>6. F[Z] = Z /\ Z \in SUBSET T
  <2>1. \A X \in SUBSET T : X \subseteq F[X]
    BY <1>4
  <2>2. f \in [Nat -> SUBSET T] /\ \A j \in Nat : f[j + 1] = F[f[j]]
    BY <1>5
  <2>3. F[f[Cardinality(T)]] = f[Cardinality(T)]
    <3>1. f[0] # {} /\ IsFiniteSet(T) /\ F \in [SUBSET T -> SUBSET T]
      BY <1>3, <1>4, <1>5
    <3> HIDE DEF T
    <3> QED BY <2>1, <2>2, <3>1, Saturation
  <2> QED BY <1>1, <1>3, <1>5, <2>3
<1> DEFINE Ok == {j \in Nat : \A s \in f[j] : Other(x, s) \in U[n + j]}
<1>7. 0 \in Ok
  BY <1>2, <1>5
<1>8. ASSUME NEW j \in Ok PROVE j + 1 \in Ok
  <2> SUFFICES ASSUME NEW q \in f[j + 1] PROVE Other(x, q) \in U[n + (j + 1)]
    OBVIOUS
  <2>1. U[(n + j) + 1] = U[n + j] \cup Steps(U[n + j], g, v) /\ (n + j) + 1 = n + (j + 1)
    BY DEF AreReached
  <2>2. f[j] \in SUBSET T /\ f[j + 1] = f[j] \cup Onto(f[j])
    BY <1>4, <1>5
  <2>3. CASE q \in f[j]
    BY <2>1, <2>3
  <2>4. CASE q \in Onto(f[j])
    <3>1. PICK s \in f[j] : \E y : Moves(y, Other(x, s), g, v) /\ SameButState(y, x) /\ y.s = q
      BY <1>a, <2>4
    <3>2. PICK y : Moves(y, Other(x, s), g, v) /\ SameButState(y, x) /\ y.s = q
      BY <3>1
    <3>3. Other(x, s) \in U[n + j] /\ Other(x, s) \in Configs(g)
      BY <1>1, <2>2, OtherIs
    <3>4. y \in Configs(g)
      BY <3>2, <3>3, MoveIs
    <3>5. y = Other(x, q)
      BY <1>1, <3>2, <3>4, OtherIs
    <3>6. y \in Steps(U[n + j], g, v)
      BY <3>2, <3>3, StepsAre
    <3> QED BY <2>1, <3>5, <3>6
  <2> QED BY <2>2, <2>3, <2>4
<1>9. Ok \subseteq Nat
  OBVIOUS
<1> HIDE DEF Ok
<1>10. \A j \in Nat : j \in Ok
  BY <1>7, <1>8, <1>9, Induction
<1>11. \A s \in Z : Other(x, s) \in U[n + K]
  BY <1>1, <1>10 DEF Ok
<1>12. x.s \in Z
  <2> DEFINE R == {j \in Nat : x.s \in f[j]}
  <2>1. 0 \in R /\ R \subseteq Nat
    BY <1>5
  <2>2. ASSUME NEW j \in R PROVE j + 1 \in R
    BY <1>4, <1>5
  <2> HIDE DEF R
  <2>3. \A j \in Nat : j \in R
    BY <2>1, <2>2, Induction
  <2> QED BY <1>1, <2>3 DEF R
<1>13. ASSUME NEW s \in Z, NEW y, Moves(y, Other(x, s), g, v), SameButState(y, x) PROVE y.s \in Z
  <2>1. Other(x, s) \in Configs(g)
    BY <1>1, <1>6, OtherIs
  <2>2. y \in Configs(g)
    BY <1>13, <2>1, MoveIs
  <2>3. y.s \in T
    BY <2>2 DEF Configs
  <2>4. y.s \in Onto(Z)
    BY <1>13, <1>a, <2>3
  <2> QED BY <1>4, <1>6, <2>4
<1> HIDE DEF Z
<1>14. Level(Z, x, g, v)
  BY <1>6, <1>12, <1>13 DEF Level
<1> QED BY <1>11, <1>14

\* From a place with less than L left, a word that finishes the line ends in L times
\* one more than the number of states.
EndsWithin(L, U, M, g, v, b) ==
  \A n \in Nat : \A x \in U[n] : \A u \in M[x.s] :
    Left(x) < L /\ Finishes(x, u, v, b) => Ended(U, n + L * (g.states + 1), g, b)

LEMMA LevelEnds ==
  ASSUME NEW U, NEW g, NEW l, NEW v, NEW M, NEW E, NEW b, NEW L \in Nat, NEW n \in Nat, NEW x, NEW Z, NEW k,
         AreReached(U, g, l, v), IsDirect(g, M, E), EndsWithin(L, U, M, g, v, b),
         x \in U[n], Left(x) < L + 1, Level(Z, x, g, v), \A s \in Z : Other(x, s) \in U[n + g.states],
         k = n + (L + 1) * (g.states + 1)
  PROVE  \A s \in Z : \A u \in M[s] : Finishes(Other(x, s), u, v, b) => Ended(U, k, g, b)
<1> DEFINE K == g.states
           Fine(i) == \A s \in Z : \A u \in M[s] : Len(u) < i /\ Finishes(Other(x, s), u, v, b) => Ended(U, k, g, b)
           Ok == {i \in Nat : Fine(i)}
<1>1. K \in Nat /\ x \in Configs(g)
  BY DEF AreReached, IsDirect
<1>2. k \in Nat /\ n + K \in Nat /\ n + K <= k /\ (n + K) + 1 \in Nat /\ ((n + K) + 1) + L * (K + 1) = k
  <2>1. (L + 1) * (K + 1) = L * (K + 1) + (K + 1) /\ L * (K + 1) \in Nat
    BY <1>1
  <2>2. PICK p : p = L * (K + 1)
    OBVIOUS
  <2>3. k = n + (p + (K + 1)) /\ p \in Nat
    BY <2>1, <2>2
  <2> HIDE DEF K
  <2> QED BY <1>1, <2>2, <2>3
<1>3. ASSUME NEW s \in Z
      PROVE  /\ s \in 1 .. K /\ Other(x, s) \in Configs(g) /\ Other(x, s) \in U[n + K] /\ Other(x, s).s = s
             /\ Left(Other(x, s)) = Left(x)
             /\ \A w \in M[s] : \/ w = <<>> /\ s \in g.final
                                \/ \E e \in g.labels : e[1] = s /\ \E u \in M[e[3]] : w = <<e[2]>> \o u
  <2>1. s \in 1 .. K
    BY DEF Level
  <2>2. /\ Other(x, s) \in Configs(g) /\ Other(x, s).s = s /\ Left(Other(x, s)) = Left(x)
    BY <1>1, <2>1, OtherIs
  <2>3. \A w \in M[s] : \/ w = <<>> /\ s \in g.final
                        \/ \E e \in g.labels : e[1] = s /\ \E u \in M[e[3]] : w = <<e[2]>> \o u
    BY <2>1 DEF IsDirect
  <2> QED BY <2>1, <2>2, <2>3
<1>4. ASSUME NEW s \in Z, s \in g.final, Finishes(Other(x, s), <<>>, v, b) PROVE Ended(U, k, g, b)
  <2>1. PICK y : Led(Other(x, s), <<>>, y, v) /\ y.args = <<>> /\ y.got = b
    BY <1>4 DEF Finishes
  <2>2. PICK o : o = Other(x, s)
    OBVIOUS
  <2>3. o.args = <<>> /\ o.got = b
    BY <2>1, <2>2, LedByNone
  <2>4. Ended(U, n + K, g, b)
    BY <1>3, <1>4, <2>2, <2>3 DEF Ended
  <2> QED BY <1>2, <2>4, EndedStays
<1>5. ASSUME NEW i \in Ok, NEW s \in Z, NEW e \in g.labels, e[1] = s, NEW u \in M[e[3]], Len(<<e[2]>> \o u) < i + 1,
             Finishes(Other(x, s), <<e[2]>> \o u, v, b)
      PROVE  Ended(U, k, g, b)
  <2>1. PICK o : o = Other(x, s)
    OBVIOUS
  <2>2. o \in Configs(g) /\ o \in U[n + K] /\ o.s = s /\ Left(o) = Left(x)
    BY <1>3, <2>1
  <2>3. e[2] \in E /\ e[3] \in 1 .. K /\ u \in Seq(E)
    BY DEF IsDirect
  <2>4. PICK y : y = Moved(o, e, v)
    OBVIOUS
  <2>5. Answer(e[2], o, v).ok /\ Finishes(y, u, v, b)
    <3>1. PICK z : Led(o, <<e[2]>> \o u, z, v) /\ z.args = <<>> /\ z.got = b
      BY <1>5, <2>1 DEF Finishes
    <3>2. Answer(e[2], o, v).ok /\ Led(y, u, z, v)
      BY <2>3, <2>4, <3>1, LedFirst
    <3> QED BY <3>1, <3>2 DEF Finishes
  <2>6. Moves(y, o, g, v) /\ y.s = e[3]
    BY <1>5, <2>2, <2>4, <2>5 DEF Moves, Moved, Reached
  <2>7. y \in Configs(g) /\ Left(o) \in Nat /\ Left(y) \in Nat /\ (Left(y) < Left(o) \/ SameButState(y, o))
    BY <2>2, <2>6, MoveIs
  <2>8. CASE Left(y) < Left(o)
    <3>1. Left(y) < L
      BY <2>2, <2>7, <2>8
    <3>2. y \in U[(n + K) + 1]
      <4>1. y \in Steps(U[n + K], g, v)
        BY <2>2, <2>6, StepsAre
      <4> QED BY <1>2, <4>1 DEF AreReached
    <3> QED BY <1>2, <2>5, <2>6, <3>1, <3>2 DEF EndsWithin
  <2>9. CASE SameButState(y, o)
    <3>1. SameButState(y, x)
      BY <1>1, <2>1, <2>9, OtherIs
    <3>2. y.s \in Z
      BY <2>1, <2>6, <3>1 DEF Level
    <3>3. y = Other(x, y.s)
      BY <1>1, <2>7, <3>1, OtherIs
    <3>4. Len(u) \in Nat /\ Len(u) + 1 < i + 1
      BY <1>5, <2>3, Prefixed
    <3>5. u \in M[y.s] /\ Finishes(Other(x, y.s), u, v, b)
      BY <2>5, <2>6, <3>3
    <3>6. Len(u) < i
      BY <3>4
    <3> QED BY <3>2, <3>5, <3>6
  <2> QED BY <2>7, <2>8, <2>9
<1>6. 0 \in Ok
  <2> SUFFICES ASSUME NEW s \in Z, NEW u \in M[s], Len(u) < 0 PROVE FALSE
    OBVIOUS
  <2>1. u \in Seq(E)
    BY <1>3 DEF IsDirect
  <2> QED BY <2>1, LenProperties
<1>7. ASSUME NEW i \in Ok PROVE i + 1 \in Ok
  <2> SUFFICES ASSUME NEW s \in Z, NEW w \in M[s], Len(w) < i + 1, Finishes(Other(x, s), w, v, b)
               PROVE  Ended(U, k, g, b)
    OBVIOUS
  <2>1. CASE w = <<>> /\ s \in g.final
    BY <1>4, <2>1
  <2>2. CASE \E e \in g.labels : e[1] = s /\ \E u \in M[e[3]] : w = <<e[2]>> \o u
    <3>1. PICK e \in g.labels : e[1] = s /\ \E u \in M[e[3]] : w = <<e[2]>> \o u
      BY <2>2
    <3>2. PICK u \in M[e[3]] : w = <<e[2]>> \o u
      BY <3>1
    <3> HIDE DEF Ok
    <3> QED BY <1>5, <3>1, <3>2
  <2>3. \/ w = <<>> /\ s \in g.final
        \/ \E e \in g.labels : e[1] = s /\ \E u \in M[e[3]] : w = <<e[2]>> \o u
    BY <1>3
  <2> QED BY <2>1, <2>2, <2>3
<1>8. Ok \subseteq Nat
  OBVIOUS
<1> HIDE DEF Ok
<1>9. \A i \in Nat : i \in Ok
  BY <1>6, <1>7, <1>8, Induction
<1> SUFFICES ASSUME NEW s \in Z, NEW u \in M[s], Finishes(Other(x, s), u, v, b) PROVE Ended(U, k, g, b)
  OBVIOUS
<1>10. Len(u) \in Nat
  <2>1. u \in Seq(E)
    BY <1>3 DEF IsDirect
  <2> QED BY <2>1, LenProperties
<1>11. Len(u) + 1 \in Ok /\ Len(u) < Len(u) + 1
  BY <1>9, <1>10
<1> QED BY <1>11 DEF Ok

LEMMA EndsInTime ==
  ASSUME NEW U, NEW g, NEW l, NEW v, NEW M, NEW E, NEW b, AreReached(U, g, l, v), IsDirect(g, M, E)
  PROVE  \A L \in Nat : EndsWithin(L, U, M, g, v, b)
<1> DEFINE Ok == {L \in Nat : EndsWithin(L, U, M, g, v, b)}
<1>1. ASSUME NEW n \in Nat, NEW x \in U[n] PROVE x \in Configs(g) /\ Left(x) \in Nat
  <2>1. x \in Configs(g)
    BY DEF AreReached
  <2>2. x.args \in Args
    BY <2>1 DEF Configs
  <2>3. Weight(x.args) \in Nat
    BY <2>2, WeightIs
  <2> QED BY <2>1, <2>3 DEF Left
<1>2. 0 \in Ok
  <2>1. \A n \in Nat : \A x \in U[n] : ~(Left(x) < 0)
    BY <1>1
  <2> QED BY <2>1 DEF EndsWithin
<1>3. ASSUME NEW L \in Ok PROVE L + 1 \in Ok
  <2>1. ASSUME NEW n \in Nat, NEW x \in U[n], NEW u \in M[x.s], Left(x) < L + 1, Finishes(x, u, v, b)
        PROVE  Ended(U, n + (L + 1) * (g.states + 1), g, b)
    <3>1. PICK Z : Level(Z, x, g, v) /\ \A s \in Z : Other(x, s) \in U[n + g.states]
      BY LevelReached
    <3>2. PICK k : k = n + (L + 1) * (g.states + 1)
      OBVIOUS
    <3>3. L \in Nat /\ EndsWithin(L, U, M, g, v, b)
      OBVIOUS
    <3>4. \A s \in Z : \A w \in M[s] : Finishes(Other(x, s), w, v, b) => Ended(U, k, g, b)
      BY <2>1, <3>1, <3>2, <3>3, LevelEnds
    <3>5. x.s \in Z /\ x = Other(x, x.s)
      BY <1>1, <3>1, OtherIs DEF Level
    <3>6. Finishes(Other(x, x.s), u, v, b)
      BY <2>1, <3>5
    <3> QED BY <3>2, <3>4, <3>5, <3>6
  <2> QED BY <2>1 DEF EndsWithin
<1>4. Ok \subseteq Nat
  OBVIOUS
<1> HIDE DEF Ok
<1>5. \A L \in Nat : L \in Ok
  BY <1>2, <1>3, <1>4, Induction
<1> QED BY <1>5 DEF Ok

\* The readings of a line are what the words of the automaton that read it bind.
LEMMA ReadingsAreRead ==
  ASSUME NEW g, NEW M, NEW E, NEW l, NEW v, IsDirect(g, M, E), l \in Args
  PROVE  \A b : b \in Readings(g, l, v) <=> Read(M[g.start], l, v, b)
<1>0. PICK U : ReachReadings(U, g, l, v)
  BY ReadingsReached
<1>1. /\ AreReached(U, g, l, v)
      /\ \A b : b \in Readings(g, l, v) <=>
           \E x \in U[MostSteps(g, l)] : x.args = <<>> /\ x.s \in g.final /\ x.got = b
  BY <1>0 DEF ReachReadings
<1>2. PICK N, x0 : N = MostSteps(g, l) /\ x0 = Reached(g.start, l, FALSE, <<>>)
  OBVIOUS
<1>3. PICK W : W = Weight(l)
  OBVIOUS
<1>4. W \in Nat /\ g.states \in Nat /\ N = (W + 2) * (g.states + 1) /\ N \in Nat
  <2>1. W \in Nat
    BY <1>3, WeightIs
  <2> QED BY <1>2, <1>3, <2>1 DEF MostSteps, IsDirect
<1>5. /\ x0 \in U[0] /\ x0.s = g.start /\ x0.args = l /\ x0.reject = FALSE /\ x0.got = <<>>
      /\ Left(x0) = W + 1
  <2>1. /\ x0.s = g.start /\ x0.args = l /\ x0.reject = FALSE /\ x0.got = <<>>
    BY <1>2 DEF Reached
  <2>2. Left(x0) = W + 1
    BY <1>3, <2>1 DEF Left
  <2> QED BY <1>1, <1>2, <2>1, <2>2 DEF AreReached
<1>6. M[g.start] \subseteq Seq(E) /\ AreMatchers(E)
  BY DEF IsDirect, AreMatchers
<1>7. ASSUME NEW b, b \in Readings(g, l, v) PROVE Read(M[g.start], l, v, b)
  <2>1. PICK x \in U[N] : x.args = <<>> /\ x.s \in g.final /\ x.got = b
    BY <1>1, <1>2, <1>7
  <2>2. PICK w : Spelling(x, w, M, E, g, l, v)
    BY <1>1, <1>4, ReachedSpells
  <2>3. w \in Seq(E) /\ Led(x0, w, x, v) /\ w \o <<>> \in M[g.start]
    BY <1>2, <2>1, <2>2 DEF Spelling, IsDirect
  <2>4. w \in M[g.start]
    BY <2>3, ConcatEmptySeq
  <2> QED BY <1>5, <2>1, <2>3, <2>4, LedReads
<1>8. ASSUME NEW b, Read(M[g.start], l, v, b) PROVE b \in Readings(g, l, v)
  <2>0. PICK all : all = M[g.start]
    OBVIOUS
  <2>1. \E w \in all : Finishes(x0, w, v, b)
    BY <1>5, <1>6, <1>8, <2>0, ReadsLed
  <2>2. PICK w \in M[g.start] : Finishes(x0, w, v, b)
    BY <2>0, <2>1
  <2>3. EndsWithin(W + 2, U, M, g, v, b)
    <3>1. W + 2 \in Nat
      BY <1>4
    <3> QED BY <1>1, <3>1, EndsInTime
  <2>4. Ended(U, 0 + (W + 2) * (g.states + 1), g, b)
    <3>1. Left(x0) < W + 2 /\ 0 \in Nat
      BY <1>4, <1>5
    <3> QED BY <1>5, <2>2, <2>3, <3>1 DEF EndsWithin
  <2>5. 0 + (W + 2) * (g.states + 1) = N
    BY <1>4
  <2> QED BY <1>1, <1>2, <2>4, <2>5 DEF Ended
<1> QED BY <1>7, <1>8

(***************************************************************************)
(* The automaton as it was built, without its shortcuts, and the line.     *)
(***************************************************************************)
LEMMA SameJumps ==
  ASSUME NEW g
  PROVE  ByShortcuts(g) = SP!ByShortcuts(g) /\ Jumps(g, ByShortcuts(g)) = SP!Jumps(g, SP!ByShortcuts(g))
         /\ Finals(g, ByShortcuts(g)) = SP!Finals(g, SP!ByShortcuts(g))
<1>1. Shortcuts(g) = SP!Shortcuts(g) /\ States(g) = SP!States(g)
  BY DEF Shortcuts, SP!Shortcuts, States, SP!States, IsShortcut, SP!IsShortcut, ToSet, SP!ToSet
<1>2. ByShortcuts(g) = SP!ByShortcuts(g)
  BY Zenon DEF ByShortcuts, SP!ByShortcuts, Shortcuts, SP!Shortcuts, States, SP!States, IsShortcut, SP!IsShortcut,
               ToSet, SP!ToSet
<1>3. PICK near : near = ByShortcuts(g)
  OBVIOUS
<1>4. Jumps(g, near) = SP!Jumps(g, near) /\ Finals(g, near) = SP!Finals(g, near)
  BY DEF Jumps, SP!Jumps, Finals, SP!Finals, IsShortcut, SP!IsShortcut, ToSet, SP!ToSet
<1> QED BY <1>2, <1>3, <1>4

LEMMA MeansIsDirect ==
  ASSUME AutomatonInv
  PROVE  IsDirect(built.means, Meaning, SP!Labels) /\ built.means.start = built.start
<1>1. built \in Built
  BY DEF AutomatonInv, SP!TypeInv
<1>2. PICK g, near, M, E : g = built /\ near = SP!ByShortcuts(g) /\ M = Meaning /\ E = SP!Labels
  OBVIOUS
<1>3. built.means = Direct(g) /\ built.start \in States(g) /\ Len(g.tr) \in Nat
  BY <1>1, <1>2, AutomataAssumption, LenProperties DEF WellFormed
<1>4. /\ Direct(g).start = g.start /\ Direct(g).states = Len(g.tr)
      /\ Direct(g).labels = SP!Jumps(g, near) /\ Direct(g).final = SP!Finals(g, near)
  BY <1>2, SameJumps DEF Direct
<1>5. SP!States(built) = 1 .. Len(g.tr)
  BY <1>2 DEF SP!States
<1>6. g.tr \in [SP!States(built) -> Seq(SP!Edges(built))] /\ g.terminal \in SUBSET SP!States(built)
  BY <1>1, <1>2, Assumed, SP!BuiltIsTyped
<1>7. M \in SP!Languages /\ SP!Closed(M, g.tr, g.terminal) /\ M = SP!Language(g.tr, g.terminal)
  <2>1. M = SP!Language(g.tr, g.terminal)
    BY <1>2 DEF Meaning
  <2> QED BY <1>1, <1>6, <2>1, Assumed, SP!LanguageIsFixed
<1>8. PICK F : F = SP!Edges(built)
  OBVIOUS
<1>a. SP!States(g) = SP!States(built) /\ SP!IsGraph(g, F) /\ SP!IsLeast(M, g, F) /\ E = SP!LabelsOf(F)
  <2>1. /\ SP!States(g) = SP!States(built) /\ SP!IsGraph(g, SP!Edges(built))
        /\ SP!IsLeast(SP!Language(g.tr, g.terminal), g, SP!Edges(built))
    BY <1>1, <1>6, Assumed, SP!LanguageIsLeast
  <2> QED BY <1>2, <1>7, <1>8, <2>1 DEF SP!Labels
<1>b. SP!AreJumps(SP!Jumps(g, near), SP!States(g), SP!LabelsOf(F))
  BY <1>2, <1>a, Assumed, SP!Jumping
<1>c. M \in SP!Assignments(g, F) /\ SP!ClosedIn(M, g)
  BY <1>a DEF SP!IsLeast
<1>9. /\ \A p, m, q : <<p, m, q>> \in SP!Jumps(g, near) => \A u \in M[q] : <<m>> \o u \in M[p]
      /\ \A q \in SP!Finals(g, near) : <<>> \in M[q]
  BY <1>2, <1>a, <1>c, Assumed, SP!ClosedUnderJumps
<1>10. \A s \in SP!States(built) : \A w \in M[s] : SP!JumpsFirst(w, s, M, SP!Jumps(g, near), SP!Finals(g, near))
  BY <1>2, <1>a, Assumed, SP!LanguageOfJumps
<1> DEFINE d == Direct(g)
<1>11. \A m \in E : IsMatcher(m)
  BY <1>1, <1>2, AutomataAssumption DEF SP!Labels, SP!LabelsOf, SP!Edges, Edges, SP!States, States, SP!ToSet, ToSet
<1>12. d.states \in Nat /\ d.start \in 1 .. d.states
  BY <1>2, <1>3, <1>4 DEF States
<1>13. PICK jumps, final, Ok : jumps = SP!Jumps(g, near) /\ final = SP!Finals(g, near) /\ Ok = SP!States(built)
  OBVIOUS
<1>14. d.labels = jumps /\ d.final = final /\ Ok = 1 .. d.states
  BY <1>4, <1>5, <1>13
<1>15. ASSUME NEW e \in jumps
       PROVE  e[1] \in Ok /\ e[2] \in E /\ e[3] \in Ok /\ \A u \in M[e[3]] : <<e[2]>> \o u \in M[e[1]]
  <2>1. e \in Ok \X E \X Ok
    BY <1>a, <1>b, <1>13 DEF SP!AreJumps
  <2>2. e = <<e[1], e[2], e[3]>> /\ e[1] \in Ok /\ e[2] \in E /\ e[3] \in Ok
    BY <2>1
  <2> QED BY <1>9, <1>13, <2>2
<1>16. ASSUME NEW s \in Ok
       PROVE  /\ M[s] \subseteq Seq(E)
              /\ \A w \in M[s] : \/ w = <<>> /\ s \in final
                                 \/ \E e \in jumps : e[1] = s /\ \E u \in M[e[3]] : w = <<e[2]>> \o u
  <2>1. M[s] \subseteq Seq(E)
    BY <1>2, <1>7, <1>13 DEF SP!Languages
  <2>2. ASSUME NEW w \in M[s], ~(w = <<>> /\ s \in final)
        PROVE  \E e \in jumps : e[1] = s /\ \E u \in M[e[3]] : w = <<e[2]>> \o u
    <3>1. SP!JumpsFirst(w, s, M, jumps, final)
      BY <1>10, <1>13
    <3>2. PICK m, q : <<s, m, q>> \in jumps /\ \E u \in M[q] : w = <<m>> \o u
      BY <2>2, <3>1 DEF SP!JumpsFirst
    <3>3. PICK e : e = <<s, m, q>>
      OBVIOUS
    <3>4. e \in jumps /\ e[1] = s /\ e[2] = m /\ e[3] = q
      BY <3>2, <3>3
    <3> QED BY <3>2, <3>4
  <2> QED BY <2>1, <2>2
<1>17. \A s \in final : <<>> \in M[s]
  BY <1>9, <1>13
<1> HIDE DEF d
<1>18. IsDirect(d, M, E)
  BY <1>11, <1>12, <1>14, <1>15, <1>16, <1>17 DEF IsDirect
<1> QED BY <1>2, <1>3, <1>4, <1>18 DEF d

\* The arguments of the line are arguments.
LineInv == line \in Args

LEMMA LineInvInit == Init => LineInv
BY DEF Init, LineInv, Args

LEMMA LineInvNext == Inv /\ LineInv /\ [Next]_vars => LineInv'
<1> SUFFICES ASSUME Inv, LineInv, [Next]_vars PROVE LineInv'
  OBVIOUS
<1>1. built \in Built
  BY DEF Inv, AutomatonInv, SP!TypeInv
<1>2. CASE Parse
  BY <1>1, <1>2, LinesAssumption DEF Parse, LineInv, Args
<1>3. CASE line' = line
  BY <1>3 DEF LineInv
<1>4. Parse \/ line' = line
  BY DEF Next, Step, Simplifying, Accept, Expand, Follow, Backtrack, Terminated, vars, matching
<1> QED BY <1>2, <1>3, <1>4

(***************************************************************************)
(* The theorems.                                                           *)
(***************************************************************************)

\* The strengthened invariant is kept for ever.
THEOREM Invariance == Spec => []Inv
BY InvInit, InvNext, PTL DEF Spec

\* The calls under way have states of the automaton and matches that lead to some.
LEMMA CallsTyped ==
  ASSUME NEW a, IsSearch(a), NEW st, StackInv(st, a), NEW k \in 1 .. Len(st)
  PROVE  /\ st[k].s \in a.states
         /\ k < Len(st) => st[k].open /\ st[k].todo # <<>>
         /\ ~st[k].open => st[k].todo = <<>>
         /\ \A i \in DOMAIN st[k].todo : st[k].todo[i].next \in a.states
<1>1. CallInv(st[k], a)
  BY DEF StackInv
<1>2. ASSUME k < Len(st)
      PROVE  st[k].open /\ st[k].todo # <<>>
  <2>1. k \in 1 .. Len(st) - 1
    <3>1. Len(st) \in Nat
      BY Stacked
    <3> QED BY <1>2, <3>1
  <2> QED BY <2>1 DEF StackInv, Waits
<1>3. ASSUME NEW i \in DOMAIN st[k].todo
      PROVE  st[k].todo[i].next \in a.states
  <2>1. st[k].todo \in Seq(GoodLeads(st[k], a)) /\ st[k].s \in a.states
    BY <1>1 DEF CallInv
  <2>2. st[k].todo[i] \in GoodLeads(st[k], a)
    BY <2>1
  <2>3. PICK t \in a.from[st[k].s] : st[k].todo[i] = Leads(t, Answer(t.m, st[k], a.env), st[k])
    BY <2>2 DEF GoodLeads, LeadsOf
  <2>4. t.next \in a.states
    BY <2>1 DEF IsSearch, IsAutomaton
  <2> QED BY <2>3, <2>4 DEF Leads
<1> QED BY <1>1, <1>2, <1>3 DEF CallInv

\* Every variable keeps its type, and every call under way but the last waits for
\* a match of its own.
THEOREM TypeCorrect == Spec => []TypeOK
<1>1. ASSUME Inv PROVE TypeOK
  <2>1. /\ SP!TypeOK /\ outcome \in Outcomes /\ Len(stack) <= MaxFrames
        /\ visited \subseteq DOMAIN tr
    BY <1>1 DEF Inv, AutomatonInv, SearchInv, SP!TypeInv, SP!TypeOK
  <2>2. S!TypeOK
    BY <2>1 DEF S!TypeOK, SP!TypeOK, S!States, SP!States, S!Edges, SP!Edges, S!ToSet, SP!ToSet
  <2>3. ASSUME NEW k \in DOMAIN stack, stack # <<>>
        PROVE  /\ stack[k].s \in DOMAIN tr
               /\ k < Len(stack) => stack[k].open /\ stack[k].todo # <<>>
               /\ ~stack[k].open => stack[k].todo = <<>>
               /\ \A i \in DOMAIN stack[k].todo : stack[k].todo[i].next \in DOMAIN tr
    <3>1. StackInv(stack, Search) /\ IsSearch(Search)
      BY <1>1, <2>3, IsASearch DEF Inv, SearchInv, PhaseInv
    <3>2. k \in 1 .. Len(stack)
      BY <3>1 DEF StackInv
    <3>3. PICK a : a = Search
      OBVIOUS
    <3>4. a.states \subseteq DOMAIN tr
      BY <2>1, <3>3, SearchFields
    <3> QED BY <3>1, <3>2, <3>3, <3>4, CallsTyped
  <2>4. ASSUME stack = <<>> PROVE DOMAIN stack = {}
    BY <2>4
  <2> QED BY <2>1, <2>2, <2>3, <2>4 DEF TypeOK
<1> QED BY <1>1, Invariance, PTL

\* The search is sound: of an accepted line it has found a sequence of options and
\* arguments the spec allows that consumes the line, and it binds what these bind.
THEOREM SearchIsSound == Spec => []AcceptedIsRead
<1>1. Inv => AcceptedIsRead
  BY DEF Inv, SearchInv
<1> QED BY <1>1, Invariance, PTL

\* The search is complete: no sequence of options and arguments the spec allows
\* consumes a line that was rejected.
THEOREM SearchIsComplete == Spec => []RejectedIsUnread
<1>1. Inv => RejectedIsUnread
  BY DEF Inv, SearchInv
<1> QED BY <1>1, Invariance, PTL

\* Whatever the sorts do to the transitions and however much the simplification moved
\* them, the search accepts a line iff there is a reading of it on the automaton as it
\* was built, and binds what that reading binds; it rejects it iff there is none.
THEOREM FindsReadings == Spec => []FindsAReading
<1>1. ASSUME Inv, LineInv PROVE FindsAReading
  <2>1. AutomatonInv /\ AcceptedIsRead /\ RejectedIsUnread
    BY <1>1 DEF Inv, SearchInv
  <2>2. PICK g, M, E, l, v : g = built.means /\ M = Meaning /\ E = SP!Labels /\ l = line /\ v = env
    OBVIOUS
  <2>3. IsDirect(g, M, E) /\ l \in Args /\ g.start = built.start
    BY <1>1, <2>1, <2>2, MeansIsDirect DEF LineInv
  <2>4. \A b : b \in Readings(g, l, v) <=> Read(M[built.start], l, v, b)
    BY <2>3, ReadingsAreRead
  <2>5. outcome = "accepted" => got \in Readings(g, l, v)
    BY <2>1, <2>2, <2>4 DEF AcceptedIsRead
  <2>6. outcome = "rejected" => Readings(g, l, v) = {}
    BY <2>1, <2>2, <2>4 DEF RejectedIsUnread
  <2> QED BY <2>2, <2>5, <2>6 DEF FindsAReading
<1> QED BY <1>1, LineInvInit, LineInvNext, Invariance, InvInit, InvNext, PTL DEF Spec
=============================================================================
