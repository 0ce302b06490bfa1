--------------------------- MODULE DispatchProofs ---------------------------
(***************************************************************************)
(* Theorems about Dispatch, for every tree of commands, every spec, every  *)
(* line and every ErrorHandling.                                           *)
(***************************************************************************)
EXTENDS Dispatch, Facts, SequenceTheorems, TLAPS

(***************************************************************************)
(* Lemmas about the operators the model is built from.                     *)
(***************************************************************************)

\* CalledBy finds a sub command that the word calls, if there is one.
LEMMA CalledSub ==
  ASSUME NEW c \in Commands, NEW word
  PROVE  /\ CalledBy(c, word) \in Nat
         /\ CalledBy(c, word) # 0 => /\ CalledBy(c, word) \in 1 .. Len(Subs[c])
                                     /\ word \in Aliases[Subs[c][CalledBy(c, word)]]
         /\ CallsSub(c, word) => CalledBy(c, word) # 0
<1> DEFINE At == {i \in 1 .. Len(Subs[c]) : word \in Aliases[Subs[c][i]]}
<1>1. CalledBy(c, word) = IF At # {} THEN Min(At) ELSE 0
  BY DEF CalledBy, SelectInSeq
<1>2. Subs[c] \in Seq(Commands)
  BY TreeAssumption
<1>3. At # {} => Min(At) \in At
  <2>1. At \subseteq Nat
    BY <1>2, LenProperties
  <2> HIDE DEF At
  <2> QED BY <2>1, LeastNumber
<1>4. CallsSub(c, word) => At # {}
  BY <1>2 DEF CallsSub
<1> QED BY <1>1, <1>2, <1>3, <1>4

\* The arguments of c end before the first that calls a sub command.
LEMMA OwnArguments ==
  ASSUME NEW c \in Commands, NEW ws \in Seq(Texts)
  PROVE  LET g == GetOptsAndArgs(c, ws)
         IN  /\ g \in 0 .. Len(ws)
             /\ \A i \in 1 .. g : ~CallsSub(c, ws[i])
             /\ g < Len(ws) => CallsSub(c, ws[g + 1])
<1> DEFINE At == {i \in 1 .. Len(ws) : CallsSub(c, ws[i])}
           m == Min(At)
<1>1. GetOptsAndArgs(c, ws) = LET f == IF At # {} THEN m ELSE 0
                              IN  IF f = 0 THEN Len(ws) ELSE f - 1
  BY DEF GetOptsAndArgs, SelectInSeq
<1>2. Len(ws) \in Nat
  BY LenProperties
<1>3. At \subseteq 1 .. Len(ws)
  BY DEF CallsSub
<1>4. At # {} => m \in At /\ \A y \in At : m <= y
  <2> HIDE DEF At
  <2>1. At \subseteq Nat
    BY <1>2, <1>3
  <2> QED BY <2>1, LeastNumber
<1>5. CASE At = {}
  BY <1>1, <1>2, <1>5 DEF CallsSub
<1>6. CASE At # {}
  <2>1. m \in 1 .. Len(ws) /\ CallsSub(c, ws[m])
    BY <1>4, <1>6 DEF CallsSub
  <2>2. GetOptsAndArgs(c, ws) = m - 1
    <3> HIDE DEF m, At
    <3> QED BY <1>1, <1>2, <1>6, <2>1
  <2>3. ASSUME NEW i \in 1 .. m - 1 PROVE ~CallsSub(c, ws[i])
    <3>1. i \in 1 .. Len(ws) /\ ~(m <= i)
      <4> HIDE DEF m
      <4> QED BY <1>2, <2>1
    <3>2. i \notin At
      <4> HIDE DEF m, At
      <4> QED BY <3>1, <1>4, <1>6
    <3> QED BY <3>1, <3>2 DEF CallsSub
  <2> HIDE DEF m
  <2> QED BY <1>2, <2>1, <2>2, <2>3
<1> QED BY <1>5, <1>6

\* What is left of a line, and the parts it is cut into.
LEMMA Suffix ==
  ASSUME NEW l \in Seq(Texts), NEW k \in 1 .. Len(l) + 1,
         NEW ws, ws = SubSeq(l, k, Len(l))
  PROVE  /\ ws \in Seq(Texts) /\ Len(ws) = Len(l) + 1 - k
         /\ \A i \in 1 .. Len(ws) : ws[i] = l[k + i - 1]
<1>1. \A i \in k .. Len(l) : l[i] \in Texts
  BY ElementOfSeq, LenProperties
<1> QED BY <1>1, SubSeqProperties, LenProperties

LEMMA CutSuffix ==
  ASSUME NEW l \in Seq(Texts), NEW k \in 1 .. Len(l) + 1,
         NEW ws, ws = SubSeq(l, k, Len(l)), NEW g \in 0 .. Len(ws)
  PROVE  /\ SubSeq(ws, 1, g) = SubSeq(l, k, k + g - 1)
         /\ SubSeq(ws, g + 1, Len(ws)) = SubSeq(l, k + g, Len(l))
<1>1. /\ ws \in Seq(Texts) /\ Len(ws) = Len(l) + 1 - k
      /\ \A i \in 1 .. Len(ws) : ws[i] = l[k + i - 1]
  BY Suffix
<1>2. \A i \in 1 .. Len(ws) : ws[i] \in Texts
  BY <1>1, ElementOfSeq
<1>3. \A i \in 1 .. Len(l) : l[i] \in Texts
  BY ElementOfSeq
<1>4. Len(l) \in Nat
  BY LenProperties
<1>5. SubSeq(ws, 1, g) = SubSeq(l, k, k + g - 1)
  <2>1. /\ SubSeq(ws, 1, g) \in Seq(Texts) /\ Len(SubSeq(ws, 1, g)) = g
        /\ \A i \in 1 .. g : SubSeq(ws, 1, g)[i] = ws[i]
    BY <1>1, <1>2, <1>4, SubSeqProperties
  <2>2. /\ SubSeq(l, k, k + g - 1) \in Seq(Texts) /\ Len(SubSeq(l, k, k + g - 1)) = g
        /\ \A i \in 1 .. g : SubSeq(l, k, k + g - 1)[i] = l[k + i - 1]
    BY <1>1, <1>3, <1>4, SubSeqProperties
  <2> QED BY <2>1, <2>2, <1>1, SeqEqual
<1>6. SubSeq(ws, g + 1, Len(ws)) = SubSeq(l, k + g, Len(l))
  <2>1. /\ SubSeq(ws, g + 1, Len(ws)) \in Seq(Texts) /\ Len(SubSeq(ws, g + 1, Len(ws))) = Len(ws) - g
        /\ \A i \in 1 .. Len(ws) - g : SubSeq(ws, g + 1, Len(ws))[i] = ws[g + i]
    BY <1>1, <1>2, <1>4, SubSeqProperties
  <2>2. /\ SubSeq(l, k + g, Len(l)) \in Seq(Texts) /\ Len(SubSeq(l, k + g, Len(l))) = Len(ws) - g
        /\ \A i \in 1 .. Len(ws) - g : SubSeq(l, k + g, Len(l))[i] = l[k + g + i - 1]
    BY <1>1, <1>3, <1>4, SubSeqProperties
  <2>3. \A i \in 1 .. Len(ws) - g : ws[g + i] = l[k + g + i - 1]
    <3>1. ASSUME NEW i \in 1 .. Len(ws) - g PROVE g + i \in 1 .. Len(ws) /\ k + (g + i) - 1 = k + g + i - 1
      BY <1>1, <1>4
    <3> QED BY <3>1, <1>1
  <2>4. \A i \in 1 .. Len(ws) - g : SubSeq(ws, g + 1, Len(ws))[i] = SubSeq(l, k + g, Len(l))[i]
    BY <2>1, <2>2, <2>3
  <2>5. SubSeq(ws, g + 1, Len(ws)) \in Seq(Texts) /\ SubSeq(l, k + g, Len(l)) \in Seq(Texts)
    BY <2>1, <2>2
  <2>6. Len(SubSeq(ws, g + 1, Len(ws))) = Len(ws) - g /\ Len(SubSeq(l, k + g, Len(l))) = Len(ws) - g
    BY <2>1, <2>2
  <2> QED BY <2>4, <2>5, <2>6, SeqEqual
<1> QED BY <1>5, <1>6

LEMMA NextSuffix ==
  ASSUME NEW l \in Seq(Texts), NEW k \in 1 .. Len(l) + 1,
         NEW ws, ws = SubSeq(l, k, Len(l)), ws # <<>>
  PROVE  k \in 1 .. Len(l) /\ ws[1] = l[k] /\ Tail(ws) = SubSeq(l, k + 1, Len(l))
<1>1. /\ ws \in Seq(Texts) /\ Len(ws) = Len(l) + 1 - k
      /\ \A i \in 1 .. Len(ws) : ws[i] = l[k + i - 1]
  BY Suffix
<1>2. Len(ws) \in Nat /\ Len(ws) # 0
  BY <1>1, EmptySeq, LenProperties
<1>3. Tail(ws) = SubSeq(ws, 2, Len(ws))
  BY <1>1, TailIsSubSeq
<1> QED BY <1>1, <1>2, <1>3, CutSuffix, LenProperties

\* What is left of a line is a suffix of it.
LEMMA SuffixIsSuffix ==
  ASSUME NEW l \in Seq(Texts), NEW k \in 1 .. Len(l) + 1,
         NEW ws, ws = SubSeq(l, k, Len(l))
  PROVE  IsSuffix(ws, l)
<1> DEFINE n == Len(l)
           m == Len(ws)
           r == Reverse(ws)
           q == Reverse(l)
<1>1. n \in Nat /\ k \in 1 .. n + 1 /\ ws \in Seq(Texts) /\ m = n + 1 - k /\ \A i \in 1 .. m : ws[i] = l[k + i - 1]
  BY Suffix, LenProperties
<1>2. /\ r = [i \in 1 .. m |-> ws[(m - i) + 1]] /\ q = [i \in 1 .. n |-> l[(n - i) + 1]]
  BY DEF Reverse
<1>3. r \in Seq(Texts) /\ Len(r) = m /\ q \in Seq(Texts) /\ Len(q) = n
  <2>1. \A w \in Seq(Texts) : \A i \in 1 .. Len(w) : (Len(w) - i) + 1 \in 1 .. Len(w)
    BY LenProperties
  <2>2. r \in [1 .. m -> Texts] /\ q \in [1 .. n -> Texts]
    BY <1>1, <1>2, <2>1, ElementOfSeq
  <2>3. m \in Nat
    <3> HIDE DEF m, n
    <3> QED BY <1>1
  <2>4. \A e, s : e \in Nat /\ s \in [1 .. e -> Texts] => s \in Seq(Texts) /\ Len(s) = e
    BY LenProperties
  <2> HIDE DEF m, n, r, q
  <2> QED BY <1>1, <2>2, <2>3, <2>4
<1>4. \A i \in 1 .. m : i \in 1 .. n /\ (m - i) + 1 \in 1 .. m /\ k + ((m - i) + 1) - 1 = (n - i) + 1
  <2> HIDE DEF n, m
  <2> QED BY <1>1
<1>5. \A i \in 1 .. m : r[i] = q[i]
  <2> HIDE DEF n, m
  <2>1. TAKE i \in 1 .. m
  <2>2. r[i] = ws[(m - i) + 1] /\ q[i] = l[(n - i) + 1]
    BY <1>2, <1>4
  <2>3. ws[(m - i) + 1] = l[k + ((m - i) + 1) - 1]
    BY <1>1, <1>4
  <2> QED BY <1>4, <2>2, <2>3
<1>6. m <= n /\ m \in Nat
  <2> HIDE DEF n, m
  <2> QED BY <1>1
<1>7. SubSeq(r, 1, m) = SubSeq(q, 1, m)
  <2> HIDE DEF n, m, r, q
  <2>1. (\A i \in 1 .. m : r[i] \in Texts) /\ (\A i \in 1 .. m : q[i] \in Texts)
    BY <1>3, <1>5, ElementOfSeq
  <2>2. /\ SubSeq(r, 1, m) \in Seq(Texts) /\ Len(SubSeq(r, 1, m)) = m
        /\ SubSeq(q, 1, m) \in Seq(Texts) /\ Len(SubSeq(q, 1, m)) = m
        /\ \A i \in 1 .. m : SubSeq(r, 1, m)[i] = r[i] /\ SubSeq(q, 1, m)[i] = q[i]
    BY <1>6, <2>1, SubSeqProperties
  <2> QED BY <2>2, <1>5, SeqEqual
<1> QED BY <1>3, <1>6, <1>7 DEF IsSuffix, IsPrefix

\* How a Run ends.
LEMMA Endings ==
  ASSUME NEW e, NEW how
  PROVE  /\ <<how, e>> \in {<<"returned", Nil>>, <<"exited", 0>>} =>
              (how = "returned" /\ e = Nil) \/ (how = "exited" /\ e = 0)
         /\ <<"none", Nil>> \notin {<<"returned", Nil>>, <<"exited", 0>>}
OBVIOUS

LEMMA Failure == <<"exited", 2>> \notin {<<"returned", Nil>>, <<"exited", 0>>}
<1>1. 2 # 0
  OBVIOUS
<1>2. \A code : code # 0 => <<"exited", code>> \notin {<<"returned", Nil>>, <<"exited", 0>>}
  BY Endings
<1> QED BY <1>1, <1>2, Zenon

\* There is a first policy.
LEMMA FirstPolicy ==
  ASSUME NEW h \in Seq(Policies), h # <<>>
  PROVE  h[1] \in Policies /\ Len(h) \in Nat /\ 1 \in 1 .. Len(h)
BY ElementOfSeq, EmptySeq, LenProperties

\* What an initializer leaves behind are copies, none of them lost.
LEMMA InitializedCopies ==
  ASSUME NEW h \in [Commands -> Seq(Policies)], NEW c \in Commands, h[c] # <<>>,
         NEW p \in [before : Policies \cup {Unset}, after : Policies \cup {Unset}]
  PROVE  /\ Initialized(h, c, p) \in [Commands -> Seq(Policies)]
         /\ \A d \in Commands : h[d] # <<>> => Initialized(h, c, p)[d] # <<>>
         /\ \A d \in ToSet(Subs[c]) : d \in Commands /\ Initialized(h, c, p)[d] # <<>>
<1>1. \A x \in Policies \cup {Unset}, y \in Policies : Or(x, y) \in Policies
  BY DEF Or, Policies, Unset
<1>2. h[c][1] \in Policies /\ Len(h[c]) \in Nat /\ 1 \in 1 .. Len(h[c])
  BY FirstPolicy
<1> DEFINE hc == [h[c] EXCEPT ![1] = Or(p.after, Or(p.before, @))]
           ha(d) == Append(h[d], Or(p.before, h[c][1]))
<1>3. hc \in Seq(Policies) /\ hc # <<>>
  <2>1. Or(p.after, Or(p.before, h[c][1])) \in Policies
    BY <1>1, <1>2
  <2>2. hc \in Seq(Policies) /\ Len(hc) = Len(h[c])
    BY <1>2, <2>1, ExceptSeq
  <2> QED BY <2>2, <1>2, EmptySeq
<1>4. \A d \in Commands : ha(d) \in Seq(Policies) /\ ha(d) # <<>>
  <2>1. Or(p.before, h[c][1]) \in Policies
    BY <1>1, <1>2
  <2> QED BY <2>1, AppendProperties
<1>5. \A d \in Commands : Initialized(h, c, p)[d] =
         IF d = c THEN hc ELSE IF d \in ToSet(Subs[c]) THEN ha(d) ELSE h[d]
  BY DEF Initialized
<1>6. ToSet(Subs[c]) \subseteq Commands
  BY TreeAssumption DEF ToSet
<1>7. DOMAIN Initialized(h, c, p) = Commands /\ Initialized(h, c, p) = [d \in Commands |-> Initialized(h, c, p)[d]]
  BY DEF Initialized
<1> HIDE DEF hc, ha
<1> QED BY <1>3, <1>4, <1>5, <1>6, <1>7

\* What an initializer leaves of the first copy of each command.
LEMMA InitializedFirst ==
  ASSUME NEW h \in [Commands -> Seq(Policies)], NEW c \in Commands, h[c] # <<>>,
         NEW p \in [before : Policies \cup {Unset}, after : Policies \cup {Unset}]
  PROVE  LET g == Initialized(h, c, p)
         IN  /\ g[c][1] = Or(p.after, Or(p.before, h[c][1]))
             /\ \A d \in Commands : d # c /\ h[d] # <<>> => g[d][1] = h[d][1]
             /\ \A d \in Commands : d # c /\ g[d] # <<>> /\ h[d] = <<>> =>
                                    d \in ToSet(Subs[c]) /\ g[d][1] = Or(p.before, h[c][1])
<1> DEFINE hc == [h[c] EXCEPT ![1] = Or(p.after, Or(p.before, @))]
           ha(d) == Append(h[d], Or(p.before, h[c][1]))
<1>1. h[c][1] \in Policies /\ Len(h[c]) \in Nat /\ 1 \in 1 .. Len(h[c])
  BY FirstPolicy
<1>2. Or(p.before, h[c][1]) \in Policies /\ Or(p.after, Or(p.before, h[c][1])) \in Policies
  BY <1>1 DEF Or, Policies, Unset
<1>3. hc[1] = Or(p.after, Or(p.before, h[c][1]))
  BY <1>1, <1>2, ExceptSeq
<1>4. ASSUME NEW d \in Commands
      PROVE  /\ h[d] # <<>> => ha(d)[1] = h[d][1]
             /\ h[d] = <<>> => ha(d)[1] = Or(p.before, h[c][1])
  <2>1. h[d] \in Seq(Policies) /\ Len(h[d]) \in Nat
    BY LenProperties
  <2>2. /\ \A i \in 1 .. Len(h[d]) : ha(d)[i] = h[d][i]
        /\ ha(d)[Len(h[d]) + 1] = Or(p.before, h[c][1])
    BY <1>2, <2>1, AppendProperties
  <2>3. h[d] # <<>> => 1 \in 1 .. Len(h[d])
    BY FirstPolicy
  <2>4. h[d] = <<>> => Len(h[d]) + 1 = 1
    BY <2>1, EmptySeq
  <2> HIDE DEF ha
  <2> QED BY <2>2, <2>3, <2>4
<1>5. \A d \in Commands : Initialized(h, c, p)[d] =
         IF d = c THEN hc ELSE IF d \in ToSet(Subs[c]) THEN ha(d) ELSE h[d]
  BY DEF Initialized
<1> HIDE DEF hc, ha
<1> QED BY <1>3, <1>4, <1>5

\* The greatest of some numbers.
LEMMA GreatestNumber ==
  ASSUME NEW n \in Nat, NEW K, K \subseteq 1 .. n, K # {}
  PROVE  Max(K) \in K /\ \A y \in K : y <= Max(K)
<1> DEFINE Over == {k \in 0 .. n : \A y \in K : y <= k}
           m == Min(Over)
<1>1. n \in Over
  OBVIOUS
<1>2. m \in Over /\ \A k \in Over : m <= k
  <2>1. Over \subseteq Nat /\ Over # {}
    BY <1>1
  <2> HIDE DEF Over
  <2> QED BY <2>1, LeastNumber
<1>3. m \in 0 .. n /\ \A y \in K : y <= m
  BY <1>2
<1>4. m \in K
  <2>1. SUFFICES ASSUME m \notin K PROVE FALSE
    OBVIOUS
  <2> HIDE DEF m
  <2>2. m - 1 \in 0 .. n /\ \A y \in K : y <= m - 1
    <3>1. \A y \in K : y \in Nat \ {0} /\ y # m
      BY <2>1
    <3>2. \E y : y \in K
      OBVIOUS
    <3> QED BY <1>3, <3>1, <3>2
  <2>3. m - 1 \in Over /\ ~(m <= m - 1)
    BY <1>3, <2>2
  <2> QED BY <1>2, <2>3
<1>5. \A x \in K : (\A y \in K : x >= y) => x = m
  <2> HIDE DEF m
  <2> QED BY <1>3, <1>4
<1>6. m \in K /\ \A y \in K : m >= y
  <2> HIDE DEF m
  <2> QED BY <1>3, <1>4
<1>7. Max(K) \in K /\ \A y \in K : Max(K) >= y
  <2> HIDE DEF m, Over
  <2> QED BY <1>6 DEF Max
<1> QED BY <1>3, <1>5, <1>7

\* The ErrorHandling that a command hands to its sub commands, and the one that its
\* parent has handed to it.
SetBefore(p) ==
  LET i == SelectLastInSeq(p, LAMBDA c : sets[c].before # Unset)
  IN  IF i = 0 THEN "exit" ELSE sets[p[i]].before

Inherited(p) == IF Len(p) = 1 THEN "exit" ELSE SetBefore(SubSeq(p, 1, Len(p) - 1))

LEMMA LastSets ==
  ASSUME NEW p \in Seq(Commands), p # <<>>
  PROVE  SetBefore(p) = Or(sets[Last(p)].before, Inherited(p))
<1> DEFINE n == Len(p)
           q == SubSeq(p, 1, n - 1)
           K == {i \in 1 .. n : sets[p[i]].before # Unset}
           J == {i \in 1 .. Len(q) : sets[q[i]].before # Unset}
<1>1. n \in Nat \ {0} /\ Last(p) = p[n] /\ \A i \in 1 .. n : p[i] \in Commands
  BY EmptySeq, LenProperties, ElementOfSeq DEF Last
<1>2. Len(q) = n - 1 /\ \A i \in 1 .. n - 1 : q[i] = p[i]
  <2>1. n - 1 \in 0 .. n /\ \A i \in 1 .. n - 1 : p[i] \in Commands
    BY <1>1
  <2>2. /\ Len(SubSeq(p, 1, n - 1)) = IF 1 <= n - 1 THEN (n - 1) - 1 + 1 ELSE 0
        /\ \A i \in 1 .. (n - 1) - 1 + 1 : SubSeq(p, 1, n - 1)[i] = p[1 + i - 1]
    <3>1. 1 \in Int /\ n - 1 \in Int
      BY <1>1
    <3> HIDE DEF n
    <3> QED BY <2>1, <3>1, SubSeqProperties
  <2> HIDE DEF n
  <2>3. (IF 1 <= n - 1 THEN (n - 1) - 1 + 1 ELSE 0) = n - 1 /\ (n - 1) - 1 + 1 = n - 1
    BY <1>1
  <2>4. \A i \in 1 .. n - 1 : 1 + i - 1 = i
    BY <1>1
  <2> QED BY <2>2, <2>3, <2>4 DEF q
<1>3. SetBefore(p) = IF K = {} THEN "exit" ELSE sets[p[Max(K)]].before
  <2>1. SetBefore(p) = LET i == IF K # {} THEN Max(K) ELSE 0
                       IN  IF i = 0 THEN "exit" ELSE sets[p[i]].before
    BY DEF SetBefore, SelectLastInSeq
  <2>2. K # {} => Max(K) \in 1 .. n
    <3>1. K \subseteq 1 .. n
      OBVIOUS
    <3> HIDE DEF K
    <3> QED BY <1>1, <3>1, GreatestNumber
  <2> HIDE DEF K
  <2> QED BY <1>1, <2>1, <2>2
<1>4. /\ SetBefore(q) = IF J = {} THEN "exit" ELSE sets[q[Max(J)]].before
      /\ J # {} => Max(J) \in 1 .. n - 1
  <2>1. SetBefore(q) = LET i == IF J # {} THEN Max(J) ELSE 0
                       IN  IF i = 0 THEN "exit" ELSE sets[q[i]].before
    BY DEF SetBefore, SelectLastInSeq
  <2>2. J # {} => Max(J) \in 1 .. n - 1
    <3>1. J \subseteq 1 .. n - 1 /\ n - 1 \in Nat
      BY <1>1, <1>2
    <3> HIDE DEF J
    <3> QED BY <3>1, GreatestNumber
  <2> HIDE DEF J, q
  <2> QED BY <1>1, <2>1, <2>2
<1>5. CASE sets[p[n]].before # Unset
  <2>1. n \in K /\ K \subseteq 1 .. n
    BY <1>1, <1>5
  <2>2. Max(K) = n
    <3> HIDE DEF K
    <3>1. Max(K) \in K /\ \A y \in K : y <= Max(K)
      BY <1>1, <2>1, GreatestNumber
    <3>2. Max(K) \in 1 .. n /\ n <= Max(K)
      BY <2>1, <3>1
    <3> HIDE DEF n
    <3> QED BY <1>1, <3>2
  <2> HIDE DEF K
  <2> QED BY <1>1, <1>3, <1>5, <2>1, <2>2 DEF Or
<1>6. CASE sets[p[n]].before = Unset
  <2>1. K = J
    <3>1. \A i : i \in K <=> i \in J
      BY <1>1, <1>2, <1>6
    <3> HIDE DEF K, J
    <3> QED BY <3>1
  <2>2. n = 1 => J = {}
    BY <1>2
  <2>3. SetBefore(p) = Inherited(p)
    <3> HIDE DEF K, J
    <3> QED BY <1>1, <1>2, <1>3, <1>4, <2>1, <2>2 DEF Inherited
  <2> QED BY <1>1, <1>6, <2>3 DEF Or
<1> QED BY <1>5, <1>6

LEMMA ForceOf ==
  ASSUME NEW p \in Seq(Commands), p # <<>>
  PROVE  InForce(p) = Or(sets[Last(p)].after, Or(sets[Last(p)].before, Inherited(p)))
<1>1. InForce(p) = Or(sets[Last(p)].after, SetBefore(p))
  BY DEF InForce, SetBefore
<1> QED BY <1>1, LastSets

\* The first copy of a command has the ErrorHandling that its parent has handed to
\* it, until it was initialized and has its own; and then its commands are declared.
Handed(h) ==
  \A p \in Seq(Commands) : IsPath(p) /\ h[Last(p)] # <<>> =>
    /\ h[Last(p)][1] \in {Inherited(p), InForce(p)}
    /\ (\E d \in ToSet(Subs[Last(p)]) : h[d] = <<>>) => h[Last(p)][1] = Inherited(p)

\* The way to a command, without the command.
LEMMA Parent ==
  ASSUME NEW p \in Seq(Commands), IsPath(p), Len(p) # 1
  PROVE  LET q == SubSeq(p, 1, Len(p) - 1)
         IN  q \in Seq(Commands) /\ q # <<>> /\ IsPath(q) /\ Last(p) \in ToSet(Subs[Last(q)])
<1> DEFINE n == Len(p)
           q == SubSeq(p, 1, n - 1)
<1>1. n \in Nat \ {0} /\ n - 1 \in 1 .. n /\ Last(p) = p[n] /\ \A i \in 1 .. n : p[i] \in Commands
  <2>1. n \in Nat /\ p # <<>>
    BY LenProperties DEF IsPath
  <2>2. n # 0 /\ n # 1
    BY <2>1, EmptySeq
  <2>3. Last(p) = p[n] /\ \A i \in 1 .. n : p[i] \in Commands
    BY ElementOfSeq DEF Last
  <2> HIDE DEF n
  <2> QED BY <2>1, <2>2, <2>3
<1>2. q \in Seq(Commands) /\ Len(q) = n - 1 /\ \A i \in 1 .. n - 1 : q[i] = p[i]
  BY <1>1, SubSeqProperties
<1> HIDE DEF q
<1>3. q # <<>> /\ Last(q) = q[n - 1]
  BY <1>1, <1>2, EmptySeq DEF Last
<1>4. p[n] \in ToSet(Subs[p[n - 1]])
  <2>1. n - 1 \in 1 .. n - 1 /\ (n - 1) + 1 = n
    BY <1>1
  <2> QED BY <2>1 DEF IsPath
<1>5. IsPath(q)
  <2>1. \A i \in 1 .. (n - 1) - 1 : i \in 1 .. n - 1 /\ i + 1 \in 1 .. n - 1
    BY <1>1
  <2>2. q[1] = App
    BY <1>1, <1>2 DEF IsPath
  <2> QED BY <1>2, <1>3, <2>1, <2>2 DEF IsPath
<1> QED BY <1>1, <1>2, <1>3, <1>4, <1>5 DEF q

LEMMA InitializedHands ==
  ASSUME NEW h \in [Commands -> Seq(Policies)], NEW c \in Commands, h[c] # <<>>,
         sets \in Settings, Handed(h)
  PROVE  LET g == Initialized(h, c, sets[c])
         IN  /\ Handed(g)
             /\ \A p \in Seq(Commands) : IsPath(p) /\ Last(p) = c => g[c][1] = InForce(p)
             /\ \A d \in Commands : d # c /\ h[d] # <<>> => g[d][1] = h[d][1]
<1> DEFINE g == Initialized(h, c, sets[c])
<1>0. sets[c] \in [before : Policies \cup {Unset}, after : Policies \cup {Unset}]
  BY SettingsAssumption
<1>1. /\ g[c][1] = Or(sets[c].after, Or(sets[c].before, h[c][1]))
      /\ \A d \in Commands : d # c /\ h[d] # <<>> => g[d][1] = h[d][1]
      /\ \A d \in Commands : d # c /\ g[d] # <<>> /\ h[d] = <<>> =>
                             d \in ToSet(Subs[c]) /\ g[d][1] = Or(sets[c].before, h[c][1])
  BY <1>0, InitializedFirst
<1>2. /\ \A d \in Commands : h[d] # <<>> => g[d] # <<>>
      /\ \A d \in ToSet(Subs[c]) : d \in Commands /\ g[d] # <<>>
  BY <1>0, InitializedCopies
<1> HIDE DEF g
<1>3. ASSUME NEW p \in Seq(Commands), IsPath(p), Last(p) = c PROVE g[c][1] = InForce(p)
  <2>1. p # <<>>
    BY <1>3 DEF IsPath
  <2>2. InForce(p) = Or(sets[c].after, Or(sets[c].before, Inherited(p)))
    BY <1>3, <2>1, ForceOf
  <2>3. h[c][1] \in {Inherited(p), InForce(p)}
    BY <1>3 DEF Handed
  <2> QED BY <1>1, <2>2, <2>3 DEF Or
<1>4. ASSUME NEW p \in Seq(Commands), IsPath(p), g[Last(p)] # <<>>
      PROVE  /\ g[Last(p)][1] \in {Inherited(p), InForce(p)}
             /\ (\E d \in ToSet(Subs[Last(p)]) : g[d] = <<>>) => g[Last(p)][1] = Inherited(p)
  <2> DEFINE d == Last(p)
  <2>1. p # <<>> /\ d \in Commands
    <3>1. p # <<>> /\ Len(p) \in 1 .. Len(p)
      BY <1>4, EmptySeq, LenProperties DEF IsPath
    <3> QED BY <3>1, ElementOfSeq DEF Last
  <2>2. ToSet(Subs[d]) \subseteq Commands
    BY <2>1, TreeAssumption DEF ToSet
  <2> HIDE DEF d
  <2>3. CASE d = c
    BY <1>2, <1>3, <1>4, <2>3 DEF d
  <2>4. CASE d # c /\ h[d] # <<>>
    <3>1. g[d][1] = h[d][1]
      BY <1>1, <2>1, <2>4
    <3>2. /\ h[d][1] \in {Inherited(p), InForce(p)}
          /\ (\E e \in ToSet(Subs[d]) : h[e] = <<>>) => h[d][1] = Inherited(p)
      BY <1>4, <2>4 DEF Handed, d
    <3> QED BY <1>2, <2>2, <3>1, <3>2 DEF d
  <2>5. CASE d # c /\ h[d] = <<>>
    <3> DEFINE q == SubSeq(p, 1, Len(p) - 1)
    <3>1. d \in ToSet(Subs[c]) /\ g[d][1] = Or(sets[c].before, h[c][1])
      BY <1>1, <1>4, <2>1, <2>5 DEF d
    <3>2. Len(p) # 1
      <4>1. d # App
        BY <3>1, TreeAssumption
      <4> QED BY <1>4, <4>1 DEF d, Last, IsPath
    <3>3. q \in Seq(Commands) /\ q # <<>> /\ IsPath(q) /\ d \in ToSet(Subs[Last(q)])
      BY <1>4, <3>2, Parent DEF d
    <3> HIDE DEF q
    <3>4. Last(q) = c
      <4>1. Last(q) \in Commands
        <5>1. Len(q) \in 1 .. Len(q)
          BY <3>3, EmptySeq, LenProperties
        <5> QED BY <3>3, <5>1, ElementOfSeq DEF Last
      <4> QED BY <3>1, <3>3, <4>1, TreeAssumption
    <3>5. h[c][1] = Inherited(q)
      BY <2>5, <3>1, <3>3, <3>4 DEF Handed
    <3>6. Inherited(p) = Or(sets[c].before, Inherited(q))
      BY <3>2, <3>3, <3>4, LastSets DEF Inherited, q
    <3> QED BY <3>1, <3>5, <3>6 DEF d
  <2> QED BY <2>3, <2>4, <2>5
<1> QED BY <1>1, <1>3, <1>4 DEF Handed, g

(***************************************************************************)
(* The invariant.                                                          *)
(***************************************************************************)

\* The types the other parts need, that nothing was said before Run is over, and that
\* no hook ran before the line was read.
ShapeInv ==
  /\ sets \in Settings /\ line \in Seq(Texts)
  /\ path \in Seq(Commands) /\ IsPath(path) /\ Len(path) <= MaxDepth
  /\ at \in Places
  /\ err \in Exits \cup Panics \cup {Nil}
  /\ at # "over" => message = "" /\ ending = <<"none", Nil>>
  /\ at \notin {"flow", "over"} => ~HooksRan

\* Every command that can be asked for its ErrorHandling has been declared, and the
\* last one called has its own.
HandlingsInv ==
  /\ handlings \in [Commands -> Seq(Policies)]
  /\ \A c \in {App, Cmd} : handlings[c] # <<>> /\ \A d \in ToSet(Subs[c]) : handlings[d] # <<>>
  /\ Handed(handlings)
  /\ handlings[App][1] = InForce(<<App>>) /\ handlings[Cmd][1] = InForce(path)

\* A command is asked with the values from the environment that this Run found, or
\* that its initializer has given it, and the others have what this Run found.
OffPath(c) == \A i \in 1 .. Len(path) : path[i] # c

FoundInv ==
  /\ DOMAIN fromEnv = Commands /\ DOMAIN found = Commands
  /\ at \in {"app", "command"} => fromEnv[Cmd] = Finds(Cmd)
  /\ at \in {"app", "command", "next"} => \A c \in Commands : OffPath(c) => fromEnv[c] = found[c]

\* The line is read up to the arguments at hand: as a reading demands, but for what
\* the last command has not been asked yet.
IsWay(p, from) ==
  /\ from[1] = 1
  /\ \A i \in 1 .. Len(p) - 1 : /\ from[i] < from[i + 1] /\ line[from[i + 1] - 1] \in Aliases[p[i + 1]]
                                /\ Accepts(p[i], Finds(p[i]), SubSeq(line, from[i], from[i + 1] - 2))

WayInv ==
  /\ at \in {"app", "command"} =>
       \E from \in Cuts(path) : IsWay(path, from) /\ args = SubSeq(line, from[Len(path)], Len(line))
  /\ at = "next" =>
       \E from \in Cuts(path), j \in 0 .. Len(line) :
         /\ IsWay(path, from) /\ from[Len(path)] <= j + 1
         /\ Accepts(Cmd, Finds(Cmd), SubSeq(line, from[Len(path)], j))
         /\ args = SubSeq(line, j + 1, Len(line))
         /\ args # <<>> => CallsSub(Cmd, args[1])
  /\ HooksNeedAWholeLine

\* The commands called so far are the first of every plain reading.
Reads(p, from) == IsPath(p) /\ IsReading(p, from) /\ IsPlain(p, from)

Follows(p, from) ==
  /\ Len(path) <= Len(p) /\ \A i \in 1 .. Len(path) : path[i] = p[i]
  /\ args = SubSeq(line, IF at # "next" THEN from[Len(path)]
                         ELSE IF Len(path) = Len(p) THEN Len(line) + 1 ELSE from[Len(path) + 1] - 1, Len(line))

PlainInv ==
  /\ at \in {"app", "command", "next"} => \A p \in Seq(Commands) : \A from \in Cuts(p) : Reads(p, from) => Follows(p, from)
  /\ message = "wrong" => \A p \in Seq(Commands) : \A from \in Cuts(p) : ~Reads(p, from)
  /\ message # "illegal"

DispatchInv == ShapeInv /\ HandlingsInv /\ FoundInv /\ WayInv /\ PlainInv /\ FailuresEndAsSet

LEMMA Depth == MaxDepth \in Nat /\ 1 <= MaxDepth
BY DepthAssumption

\* A path is no longer than the tree is deep if all but its last command is not, and
\* comes to no command twice.
LEMMA DeepEnough ==
  ASSUME NEW p \in Seq(Commands), IsPath(p), Len(p) <= MaxDepth + 1
  PROVE  Len(p) <= MaxDepth /\ IsInjective(p)
<1>1. Len(p) \in 0 .. MaxDepth + 1 /\ p \in [1 .. Len(p) -> Commands]
  BY Depth, LenProperties
<1>2. p \in SeqOf(Commands, MaxDepth + 1)
  BY <1>1 DEF SeqOf
<1> QED BY <1>2, DepthAssumption

\* The path is not empty.
LEMMA PathLen ==
  ASSUME ShapeInv
  PROVE  Len(path) \in Nat \ {0} /\ Cmd \in Commands /\ Cmd = path[Len(path)]
<1>1. Len(path) \in Nat \ {0}
  BY LenProperties, EmptySeq DEF ShapeInv, IsPath
<1>2. path[Len(path)] \in Commands
  <2>1. path \in Seq(Commands)
    BY DEF ShapeInv
  <2>2. Len(path) \in 1 .. Len(path)
    BY <1>1
  <2> QED BY <2>1, <2>2, ElementOfSeq
<1>3. Cmd = path[Len(path)]
  BY Zenon DEF Cmd, Last
<1> QED BY <1>1, <1>2, <1>3

LEMMA InitInv == Init => DispatchInv
<1> SUFFICES ASSUME Init PROVE DispatchInv
  OBVIOUS
<1>1. line \in Seq(Texts) /\ Len(line) \in Nat
  BY LinesAssumption, LenProperties DEF Init
<1>2. path = <<App>> /\ Len(path) = 1 /\ Cmd = App /\ path[1] = App /\ App \in Commands
  BY TreeAssumption DEF Init, Cmd, Last
<1>3. ShapeInv
  <2>1. path \in Seq(Commands) /\ path # <<>>
    BY <1>2
  <2>2. IsPath(path)
    BY <1>2, <2>1 DEF IsPath
  <2>3. Len(path) <= MaxDepth
    BY <1>2, Depth
  <2> QED BY <1>1, <2>1, <2>2, <2>3 DEF Init, ShapeInv, Places, HooksRan
<1>4. HandlingsInv
  <2> DEFINE h == [c \in Commands |-> IF c = App THEN <<"exit">> ELSE <<>>]
  <2>1. h \in [Commands -> Seq(Policies)] /\ h[App] # <<>>
    <3>1. <<"exit">> \in Seq(Policies) /\ <<>> \in Seq(Policies) /\ <<"exit">> # <<>>
      BY DEF Policies
    <3> QED BY <3>1, <1>2
  <2>2. sets[App] \in [before : Policies \cup {Unset}, after : Policies \cup {Unset}]
    BY <1>2, SettingsAssumption DEF Init
  <2>3. handlings = Initialized(h, App, sets[App])
    BY DEF Init
  <2>4. Handed(h)
    <3> SUFFICES ASSUME NEW p \in Seq(Commands), IsPath(p), h[Last(p)] # <<>>
                 PROVE  h[Last(p)][1] = Inherited(p)
      BY DEF Handed
    <3>1. Last(p) = App
      <4>1. Len(p) \in 1 .. Len(p)
        BY EmptySeq, LenProperties DEF IsPath
      <4> QED BY <4>1, ElementOfSeq DEF Last
    <3>2. Len(p) = 1
      <4>1. SUFFICES ASSUME Len(p) # 1 PROVE FALSE
        OBVIOUS
      <4> DEFINE q == SubSeq(p, 1, Len(p) - 1)
      <4>2. q \in Seq(Commands) /\ q # <<>> /\ App \in ToSet(Subs[Last(q)])
        BY <3>1, <4>1, Parent
      <4> HIDE DEF q
      <4>3. Last(q) \in Commands
        <5>1. Len(q) \in 1 .. Len(q)
          BY <4>2, EmptySeq, LenProperties
        <5> QED BY <4>2, <5>1, ElementOfSeq DEF Last
      <4> QED BY <4>2, <4>3, TreeAssumption
    <3> QED BY <1>2, <3>1, <3>2 DEF Inherited
  <2> HIDE DEF h
  <2>5. sets \in Settings
    BY DEF Init
  <2>6. IsPath(<<App>>) /\ Last(<<App>>) = App /\ <<App>> \in Seq(Commands)
    BY <1>2, <1>3 DEF ShapeInv, Cmd
  <2>7. Handed(handlings) /\ handlings[App][1] = InForce(<<App>>)
    BY <1>2, <2>1, <2>3, <2>4, <2>5, <2>6, InitializedHands
  <2>8. /\ handlings \in [Commands -> Seq(Policies)]
        /\ handlings[App] # <<>> /\ \A d \in ToSet(Subs[App]) : handlings[d] # <<>>
    BY <1>2, <2>1, <2>2, <2>3, InitializedCopies
  <2> QED BY <1>2, <2>7, <2>8 DEF HandlingsInv
<1>9. FoundInv
  <2>1. DOMAIN fromEnv = Commands /\ found = fromEnv
    BY DEF Init
  <2> QED BY <1>2, <2>1 DEF FoundInv, Finds
<1>5. args = SubSeq(line, 1, Len(line))
  BY <1>1, SubSeqFull DEF Init
<1>6. WayInv
  <2> DEFINE from == [i \in 1 .. 1 |-> 1]
  <2>1. from \in Cuts(path) /\ IsWay(path, from)
    BY <1>1, <1>2 DEF Cuts, IsWay
  <2>2. args = SubSeq(line, from[Len(path)], Len(line))
    BY <1>2, <1>5
  <2> HIDE DEF from
  <2> QED BY <2>1, <2>2 DEF WayInv, HooksNeedAWholeLine, Init
<1>7. PlainInv
  <2>1. ASSUME NEW p \in Seq(Commands), NEW from \in Cuts(p), Reads(p, from) PROVE Follows(p, from)
    <3>1. Len(p) \in Nat \ {0} /\ p[1] = App /\ from[1] = 1
      BY <2>1, EmptySeq, LenProperties DEF Reads, IsPath, IsReading
    <3>2. \A i \in 1 .. 1 : path[i] = p[i]
      BY <3>1, <1>2
    <3>3. at # "next" /\ args = SubSeq(line, from[Len(path)], Len(line))
      BY <3>1, <1>2, <1>5 DEF Init
    <3>4. Len(path) <= Len(p)
      BY <3>1, <1>2
    <3> QED BY <3>2, <3>3, <3>4, <1>2 DEF Follows
  <2> QED BY <2>1 DEF PlainInv, Init
<1>8. FailuresEndAsSet
  BY Endings DEF Init, FailuresEndAsSet
<1> QED BY <1>3, <1>4, <1>6, <1>7, <1>8, <1>9 DEF DispatchInv

(***************************************************************************)
(* Every action keeps the invariant.                                       *)
(***************************************************************************)

\* What speaks of the line alone stays as it is, and so does what was read of it.
LEMMA SameLine ==
  ASSUME UNCHANGED <<line, found, environment>>
  PROVE  \A p, from : /\ Cuts(p)' = Cuts(p)
                      /\ Reads(p, from)' <=> Reads(p, from)
                      /\ IsReading(p, from)' <=> IsReading(p, from)
                      /\ IsWay(p, from)' <=> IsWay(p, from)
<1>1. \A c : Finds(c)' = Finds(c)
  BY DEF Finds, Declared
<1>2. \A p, from, i : Part(p, from, i)' = Part(p, from, i)
  BY DEF Part
<1>3. \A p : Cuts(p)' = Cuts(p) /\ (IsPath(p)' <=> IsPath(p))
  BY DEF Cuts, IsPath
<1>4. \A p, from : IsReading(p, from)' <=> IsReading(p, from)
  BY <1>1, <1>2 DEF IsReading
<1>5. \A p, from : IsPlain(p, from)' <=> IsPlain(p, from)
  BY <1>2 DEF IsPlain
<1>6. \A p, from : IsWay(p, from)' <=> IsWay(p, from)
  BY <1>1 DEF IsWay
<1> QED BY <1>3, <1>4, <1>5, <1>6 DEF Reads

\* What is in force depends on what the initializers set alone.
LEMMA SameForce ==
  ASSUME UNCHANGED sets
  PROVE  /\ \A p : Inherited(p)' = Inherited(p) /\ InForce(p)' = InForce(p)
         /\ \A h : Handed(h)' <=> Handed(h)
<1>1. \A p : SetBefore(p)' = SetBefore(p)
  BY DEF SetBefore, SelectLastInSeq
<1>2. \A p : Inherited(p)' = Inherited(p)
  BY <1>1 DEF Inherited
<1>3. \A p : InForce(p)' = InForce(p)
  BY <1>1 DEF InForce, SetBefore
<1> QED BY <1>2, <1>3 DEF Handed, IsPath

LEMMA SamePlace ==
  ASSUME UNCHANGED <<sets, line, path, handlings>>
  PROVE  /\ Cmd' = Cmd /\ (IsPath(path)' <=> IsPath(path))
         /\ HandlingsInv => HandlingsInv'
<1>1. Cmd' = Cmd
  BY DEF Cmd
<1>2. InForce(path)' = InForce(path)
  <2>1. PICK p : p = path /\ p = path'
    OBVIOUS
  <2>2. InForce(p)' = InForce(p)
    BY SameForce
  <2> QED BY <2>1, <2>2 DEF InForce
<1>3. InForce(<<App>>)' = InForce(<<App>>)
  BY SameForce
<1>4. HandlingsInv => Handed(handlings)'
  <2>1. PICK h : h = handlings /\ h = handlings'
    OBVIOUS
  <2>2. Handed(h)' <=> Handed(h)
    BY SameForce
  <2> QED BY <2>1, <2>2 DEF HandlingsInv, Handed
<1> QED BY <1>1, <1>2, <1>3, <1>4 DEF HandlingsInv, IsPath

\* What a command is asked with stays as it is until it is asked.
LEMMA SameFound ==
  ASSUME FoundInv, UNCHANGED <<found, environment, path>>, DOMAIN fromEnv' = Commands,
         \/ at' \in {"flow", "over"}
         \/ fromEnv' = fromEnv /\ (at' = at \/ (at = "app" /\ at' = "command"))
  PROVE  FoundInv'
<1>1. Cmd' = Cmd /\ \A c : (Finds(c)' = Finds(c) /\ OffPath(c)' = OffPath(c))
  BY DEF Cmd, Finds, Declared, OffPath
<1>2. Finds(Cmd)' = Finds(Cmd)
  <2>1. PICK c : c = Cmd /\ c = Cmd'
    BY <1>1
  <2> QED BY <1>1, <2>1 DEF Finds, Declared
<1> QED BY <1>1, <1>2 DEF FoundInv

\* A message ends the Run in the way onError says.
LEMMA OnErrorTells ==
  ASSUME NEW c, Handling(c) \in Policies, NEW msg \in Messages \ {"", "illegal"},
         OnError(c, msg) \in {<<"returned", Nil>>, <<"exited", 0>>}
  PROVE  msg \in Requests \/ (msg = "noaction" /\ Handling(c) = "continue")
<1> SUFFICES ASSUME msg \notin Requests PROVE msg = "noaction" /\ Handling(c) = "continue"
  OBVIOUS
<1> DEFINE e == IF msg = "noaction" THEN Nil ELSE msg
<1> HIDE DEF e
<1>1. CASE Handling(c) = "exit"
  <2>1. OnError(c, msg) = <<"exited", 2>>
    BY <1>1 DEF OnError
  <2>2. <<"exited", 2>> \notin {<<"returned", Nil>>, <<"exited", 0>>}
    BY Failure
  <2> QED BY <2>1, <2>2
<1>2. CASE Handling(c) = "panic"
  <2>1. OnError(c, msg) = <<"panicked", e>>
    BY <1>2 DEF OnError, e
  <2>2. <<"panicked", e>> \notin {<<"returned", Nil>>, <<"exited", 0>>}
    BY Endings
  <2> QED BY <2>1, <2>2
<1>3. CASE Handling(c) = "continue"
  <2>1. OnError(c, msg) = <<"returned", e>>
    BY <1>3 DEF OnError, e
  <2>2. e = Nil
    BY <2>1, Endings
  <2>3. msg = "noaction"
    BY <2>2, ErrorsAssumption DEF Messages, Requests, e
  <2> QED BY <1>3, <2>3
<1> QED BY <1>1, <1>2, <1>3 DEF Policies

LEMMA OnErrorEnds ==
  ASSUME NEW c, Handling(c) \in Policies, NEW msg, msg \in {"wrong", "noaction"}
  PROVE  OnError(c, msg)[1] = [exit |-> "exited", panic |-> "panicked", continue |-> "returned"][Handling(c)]
<1>1. msg \notin Requests
  BY DEF Requests
<1>2. CASE Handling(c) = "exit"
  BY <1>1, <1>2 DEF OnError
<1>3. CASE Handling(c) = "panic"
  BY <1>1, <1>3 DEF OnError
<1>4. CASE Handling(c) = "continue"
  BY <1>1, <1>4 DEF OnError
<1> QED BY <1>2, <1>3, <1>4 DEF Policies

LEMMA RefuseKeeps ==
  ASSUME DispatchInv, at # "over", DOMAIN fromEnv' = Commands, NEW msg \in Messages \ {"", "illegal"}, Refuse(msg),
         msg = "wrong" => \A p \in Seq(Commands) : \A from \in Cuts(p) : ~Reads(p, from)
  PROVE  DispatchInv'
<1>1. /\ UNCHANGED <<sets, environment, line, found, handlings, path, args, err>>
      /\ message' = msg /\ at' = "over" /\ ending' = OnError(Cmd, msg)
  BY DEF Refuse, given, flow
<1>2. Cmd' = Cmd /\ IsPath(path)' /\ HandlingsInv'
  BY <1>1, SamePlace DEF DispatchInv, ShapeInv
<1>3. ShapeInv'
  BY <1>1, <1>2 DEF DispatchInv, ShapeInv, Places
<1>4. WayInv'
  BY <1>1 DEF WayInv, HooksNeedAWholeLine
<1>5. PlainInv'
  BY <1>1, SameLine DEF PlainInv
<1>6. FailuresEndAsSet'
  <2>1. Handling(Cmd) \in Policies
    <3>1. handlings[Cmd] \in Seq(Policies) /\ handlings[Cmd] # <<>>
      BY PathLen DEF DispatchInv, HandlingsInv
    <3>2. handlings[Cmd][1] \in Policies
      BY <3>1, FirstPolicy
    <3> QED BY <3>2 DEF Handling
  <2>2. Handling(Cmd) = InForce(path) /\ InForce(path)' = Handling(Cmd)
    <3>1. Handling(Cmd) = InForce(path) /\ InForce(path)' = handlings'[Cmd'][1]
      BY <1>2 DEF Handling, DispatchInv, HandlingsInv
    <3> QED BY <1>1, <1>2, <3>1 DEF Handling
  <2>3. msg \in {"wrong", "noaction"} =>
          OnError(Cmd, msg)[1] = [exit |-> "exited", panic |-> "panicked", continue |-> "returned"][Handling(Cmd)]
    BY <2>1, OnErrorEnds
  <2>4. OnError(Cmd, msg) \in {<<"returned", Nil>>, <<"exited", 0>>} =>
          msg \in Requests \/ (msg = "noaction" /\ Handling(Cmd) = "continue")
    BY <2>1, OnErrorTells
  <2> QED BY <1>1, <2>2, <2>3, <2>4 DEF FailuresEndAsSet
<1>7. FoundInv'
  BY <1>1, SameFound DEF DispatchInv
<1> QED BY <1>2, <1>3, <1>4, <1>5, <1>6, <1>7 DEF DispatchInv

LEMMA AskVersionKeeps == ASSUME DispatchInv, AskVersion PROVE DispatchInv'
BY RefuseKeeps DEF AskVersion, Messages, DispatchInv, FoundInv

LEMMA AskHelpKeeps == ASSUME DispatchInv, AskHelp PROVE DispatchInv'
BY RefuseKeeps DEF AskHelp, Messages, DispatchInv, FoundInv

LEMMA NoActionKeeps == ASSUME DispatchInv, NoAction PROVE DispatchInv'
BY RefuseKeeps DEF NoAction, Messages, DispatchInv, FoundInv

LEMMA ParseAppKeeps == ASSUME DispatchInv, ParseApp PROVE DispatchInv'
<1>1. /\ UNCHANGED <<sets, environment, line, found, handlings, path, args, message, ending, err, fromEnv, open, phase>>
      /\ at = "app" /\ at' = "command"
  BY DEF ParseApp, parsing, given, flow
<1>2. Cmd' = Cmd /\ IsPath(path)' /\ HandlingsInv'
  BY <1>1, SamePlace DEF DispatchInv, ShapeInv
<1>3. ShapeInv'
  BY <1>1, <1>2 DEF DispatchInv, ShapeInv, Places, HooksRan
<1>7. FoundInv'
  BY <1>1, SameFound DEF DispatchInv, FoundInv
<1>4. WayInv'
  BY <1>1, SameLine DEF DispatchInv, WayInv, HooksNeedAWholeLine
<1>5. PlainInv'
  BY <1>1, SameLine DEF DispatchInv, PlainInv, Follows
<1>6. FailuresEndAsSet'
  BY <1>1, Endings DEF DispatchInv, ShapeInv, FailuresEndAsSet
<1> QED BY <1>2, <1>3, <1>4, <1>5, <1>6, <1>7 DEF DispatchInv

LEMMA RunFlowKeeps == ASSUME DispatchInv, RunFlow PROVE DispatchInv'
<1>1. /\ UNCHANGED <<sets, environment, line, found, handlings, path, args, message, ending, err, fromEnv>>
      /\ at = "next" /\ at' = "flow" /\ args = <<>>
  BY DEF RunFlow, parsing, given, flow
<1>2. Cmd' = Cmd /\ IsPath(path)' /\ HandlingsInv'
  BY <1>1, SamePlace DEF DispatchInv, ShapeInv
<1>3. ShapeInv'
  BY <1>1, <1>2 DEF DispatchInv, ShapeInv, Places
<1>7. FoundInv'
  BY <1>1, SameFound DEF DispatchInv, FoundInv
<1>4. WayInv'
  <2>1. PICK from \in Cuts(path), j \in 0 .. Len(line) :
          /\ IsWay(path, from) /\ from[Len(path)] <= j + 1
          /\ Accepts(Cmd, Finds(Cmd), SubSeq(line, from[Len(path)], j))
          /\ args = SubSeq(line, j + 1, Len(line))
    BY <1>1 DEF DispatchInv, WayInv
  <2>2. j = Len(line)
    <3>1. line \in Seq(Texts) /\ Len(line) \in Nat
      BY LenProperties DEF DispatchInv, ShapeInv
    <3>2. Len(args) = Len(line) - j
      BY <2>1, <3>1, Suffix
    <3> QED BY <3>1, <3>2, <1>1
  <2>3. Cmd = path[Len(path)]
    BY PathLen DEF DispatchInv
  <2>4. IsReading(path, from)
    BY <2>1, <2>2, <2>3 DEF IsWay, IsReading, Part
  <2>5. HooksNeedAWholeLine'
    BY <1>1, <1>2, <2>4, SameLine DEF HooksNeedAWholeLine
  <2> QED BY <1>1, <2>5 DEF WayInv
<1>5. PlainInv'
  BY <1>1 DEF DispatchInv, ShapeInv, PlainInv
<1>6. FailuresEndAsSet'
  BY <1>1, Endings DEF DispatchInv, ShapeInv, FailuresEndAsSet
<1> QED BY <1>2, <1>3, <1>4, <1>5, <1>6, <1>7 DEF DispatchInv

LEMMA HooksKeeps == ASSUME DispatchInv, Hooks PROVE DispatchInv'
<1>1. UNCHANGED <<sets, environment, line, found, handlings, path, args, message, at, ending, fromEnv>> /\ at = "flow"
  BY DEF Hooks, parsing, given
<1>2. err' \in Exits \cup Panics \cup {Nil}
  BY DEF Hooks, I!Next, I!Open, I!TurnBack, I!Act, I!Close, I!Finish, DispatchInv, ShapeInv
<1>3. Cmd' = Cmd /\ IsPath(path)' /\ HandlingsInv'
  BY <1>1, SamePlace DEF DispatchInv, ShapeInv
<1>4. ShapeInv'
  BY <1>1, <1>2, <1>3 DEF DispatchInv, ShapeInv
<1>8. FoundInv'
  BY <1>1, SameFound DEF DispatchInv, FoundInv
<1>5. WayInv'
  BY <1>1, <1>3, SameLine DEF DispatchInv, WayInv, HooksNeedAWholeLine
<1>6. PlainInv'
  BY <1>1 DEF DispatchInv, ShapeInv, PlainInv
<1>7. FailuresEndAsSet'
  BY <1>1, Endings DEF DispatchInv, ShapeInv, FailuresEndAsSet
<1> QED BY <1>3, <1>4, <1>5, <1>6, <1>7, <1>8 DEF DispatchInv

LEMMA ReturnKeeps == ASSUME DispatchInv, Return PROVE DispatchInv'
<1>1. /\ UNCHANGED <<sets, environment, line, found, handlings, path, args, message, phase, err, fromEnv>>
      /\ at = "flow" /\ phase = "done" /\ at' = "over"
      /\ ending' = IF err \in Exits THEN <<"exited", err>>
                   ELSE IF err \in Panics THEN <<"panicked", err>> ELSE <<"returned", Nil>>
  BY DEF Return, parsing, given, flow
<1>2. Cmd' = Cmd /\ IsPath(path)' /\ HandlingsInv'
  BY <1>1, SamePlace DEF DispatchInv, ShapeInv
<1>3. ShapeInv'
  BY <1>1, <1>2 DEF DispatchInv, ShapeInv, Places
<1>7. FoundInv'
  BY <1>1, SameFound DEF DispatchInv, FoundInv
<1>4. WayInv'
  BY <1>1 DEF WayInv, HooksNeedAWholeLine
<1>5. PlainInv'
  BY <1>1 DEF DispatchInv, ShapeInv, PlainInv
<1>6. FailuresEndAsSet'
  <2>1. err \in Exits \cup Panics \cup {Nil}
    BY DEF DispatchInv, ShapeInv
  <2>5. message' \notin {"wrong", "noaction"}
    BY <1>1 DEF DispatchInv, ShapeInv
  <2>2. CASE err \in Exits
    <3>1. <<"exited", err>> \notin {<<"returned", Nil>>, <<"exited", 0>>}
      BY <2>2, ErrorsAssumption, Endings
    <3> QED BY <1>1, <2>2, <2>5, <3>1 DEF FailuresEndAsSet
  <2>3. CASE err \in Panics \ Exits
    <3>1. <<"panicked", err>> \notin {<<"returned", Nil>>, <<"exited", 0>>}
      BY Endings
    <3> QED BY <1>1, <2>3, <2>5, <3>1 DEF FailuresEndAsSet
  <2>4. CASE err = Nil
    BY <1>1, <2>4, <2>5 DEF FailuresEndAsSet
  <2> QED BY <2>1, <2>2, <2>3, <2>4
<1> QED BY <1>2, <1>3, <1>4, <1>5, <1>6, <1>7 DEF DispatchInv

\* The own arguments of the last command are as many as getOptsAndArgs says.
LEMMA OwnLength ==
  ASSUME ShapeInv, args \in Seq(Texts)
  PROVE  LET g == GetOptsAndArgs(Cmd, args) IN Len(Own) = g /\ g \in 0 .. Len(args)
<1> DEFINE g == GetOptsAndArgs(Cmd, args)
<1>1. g \in 0 .. Len(args) /\ Len(args) \in Nat
  BY PathLen, OwnArguments, LenProperties
<1>2. \A i \in 1 .. g : args[i] \in Texts
  BY <1>1, ElementOfSeq
<1>3. Own = SubSeq(args, 1, g)
  BY DEF Own
<1> HIDE DEF g
<1>4. Len(SubSeq(args, 1, g)) = g
  BY <1>1, <1>2, SubSeqProperties
<1> QED BY <1>1, <1>3, <1>4 DEF g

\* A plain reading cuts the arguments where getOptsAndArgs does.
LEMMA PlainCut ==
  ASSUME ShapeInv, at = "command", NEW p \in Seq(Commands), NEW from \in Cuts(p),
         Reads(p, from), Follows(p, from)
  PROVE  LET n == Len(path)
             g == GetOptsAndArgs(Cmd, args)
         IN  /\ SubSeq(args, 1, g) = Part(p, from, n)
             /\ SubSeq(args, g + 1, Len(args)) = SubSeq(line, IF n = Len(p) THEN Len(line) + 1 ELSE from[n + 1] - 1, Len(line))
<1> DEFINE n == Len(path)
           g == GetOptsAndArgs(Cmd, args)
           k == from[n]
           next == IF n = Len(p) THEN Len(line) + 1 ELSE from[n + 1] - 1
<1> SUFFICES SubSeq(args, 1, g) = Part(p, from, n) /\ SubSeq(args, g + 1, Len(args)) = SubSeq(line, next, Len(line))
  OBVIOUS
<1>1. line \in Seq(Texts) /\ Len(line) \in Nat /\ Len(p) \in Nat
  BY LenProperties DEF ShapeInv
<1>2. n \in 1 .. Len(p) /\ Cmd = p[n] /\ Cmd \in Commands
  BY <1>1, PathLen DEF Follows
<1>3. k \in 1 .. Len(line) + 1 /\ args = SubSeq(line, k, Len(line))
  BY <1>2 DEF Cuts, Follows
<1>4. /\ args \in Seq(Texts) /\ Len(args) = Len(line) + 1 - k
      /\ \A i \in 1 .. Len(args) : args[i] = line[k + i - 1]
  BY <1>1, <1>3, Suffix
<1>5. /\ g \in 0 .. Len(args)
      /\ \A i \in 1 .. g : ~CallsSub(Cmd, args[i])
      /\ g < Len(args) => CallsSub(Cmd, args[g + 1])
  BY <1>2, <1>4, OwnArguments
<1> HIDE DEF g, k
<1>6. /\ SubSeq(args, 1, g) = SubSeq(line, k, k + g - 1)
      /\ SubSeq(args, g + 1, Len(args)) = SubSeq(line, k + g, Len(line))
  BY <1>1, <1>3, <1>5, CutSuffix
<1>7. \A i \in DOMAIN Part(p, from, n) : ~CallsSub(Cmd, Part(p, from, n)[i])
  BY <1>2 DEF Reads, IsPlain
<1>8. CASE n = Len(p)
  <2>1. Part(p, from, n) = args
    BY <1>3, <1>8 DEF Part, k
  <2>2. g = Len(args)
    <3>1. SUFFICES ASSUME g < Len(args) PROVE FALSE
      BY <1>4, <1>5, <1>1, <1>3
    <3>2. g + 1 \in DOMAIN args
      BY <3>1, <1>4, <1>5, LenProperties
    <3> QED BY <3>1, <3>2, <2>1, <1>7, <1>5
  <2> QED BY <1>1, <1>3, <1>4, <1>6, <1>8, <2>1, <2>2
<1>9. CASE n # Len(p)
  <2> DEFINE e == from[n + 1] - 1 - k
  <2>1. n \in 1 .. Len(p) - 1 /\ n + 1 \in 1 .. Len(p)
    BY <1>1, <1>2, <1>9
  <2>2. from[n + 1] \in 1 .. Len(line) + 1 /\ k < from[n + 1] /\ line[from[n + 1] - 1] \in Aliases[p[n + 1]]
    BY <2>1 DEF Cuts, Reads, IsReading, k
  <2>3. e \in Nat /\ e < Len(args) /\ k + e = from[n + 1] - 1 /\ k + e - 1 = from[n + 1] - 2
    <3> DEFINE c == from[n + 1]
               l == Len(line)
    <3>1. c \in 1 .. l + 1 /\ k < c
      BY <2>2
    <3>2. l \in Nat /\ k \in 1 .. l + 1 /\ Len(args) = l + 1 - k
      BY <1>1, <1>3, <1>4
    <3> HIDE DEF c, l
    <3>3. c - 1 - k \in Nat /\ c - 1 - k < l + 1 - k
      BY <3>1, <3>2
    <3>4. k + (c - 1 - k) = c - 1 /\ k + (c - 1 - k) - 1 = c - 2
      BY <3>1, <3>2
    <3> QED BY <3>2, <3>3, <3>4 DEF c
  <2> HIDE DEF e
  <2>4. args[e + 1] = line[from[n + 1] - 1]
    <3>1. e + 1 \in 1 .. Len(args) /\ k + (e + 1) - 1 = from[n + 1] - 1
      BY <1>1, <1>3, <1>4, <2>2, <2>3
    <3> QED BY <3>1, <1>4
  <2>5. CallsSub(Cmd, args[e + 1])
    <3>1. p[n + 1] \in ToSet(Subs[Cmd])
      BY <2>1, <1>2 DEF Reads, IsPath
    <3> QED BY <3>1, <2>2, <2>4 DEF CallsSub, ToSet
  <2>6. Part(p, from, n) = SubSeq(line, k, k + e - 1)
    BY <1>9, <2>3 DEF Part, k
  <2>7. Part(p, from, n) = SubSeq(args, 1, e)
    BY <1>1, <1>3, <2>3, <2>6, CutSuffix
  <2>8. \A i \in 1 .. e : ~CallsSub(Cmd, args[i])
    <3>1. \A i \in 1 .. e : args[i] \in Texts
      BY <1>4, <2>3, ElementOfSeq
    <3>2. Len(SubSeq(args, 1, e)) = e /\ SubSeq(args, 1, e) \in Seq(Texts) /\ \A i \in 1 .. e : SubSeq(args, 1, e)[i] = args[i]
      BY <2>3, <3>1, SubSeqProperties
    <3>3. DOMAIN SubSeq(args, 1, e) = 1 .. e
      BY <3>2, LenProperties
    <3> QED BY <3>2, <3>3, <2>7, <1>7
  <2>9. g = e
    <3>1. ~(g < e)
      <4>1. SUFFICES ASSUME g < e PROVE FALSE
        OBVIOUS
      <4>2. g + 1 \in 1 .. e /\ g < Len(args)
        BY <4>1, <1>4, <1>5, <2>3, <1>1, <1>3
      <4> QED BY <4>2, <2>8, <1>5
    <3>2. ~(e < g)
      <4>1. SUFFICES ASSUME e < g PROVE FALSE
        OBVIOUS
      <4>2. e + 1 \in 1 .. g
        BY <4>1, <1>5, <2>3
      <4> QED BY <4>2, <2>5, <1>5
    <3> QED BY <3>1, <3>2, <1>5, <2>3
  <2> QED BY <1>6, <1>9, <2>3, <2>6, <2>9
<1> QED BY <1>8, <1>9

LEMMA WrongKeeps == ASSUME DispatchInv, Wrong PROVE DispatchInv'
<1>1. at = "command" /\ Refuse("wrong") /\ ~Accepts(Cmd, Finds(Cmd), Own) /\ DOMAIN fromEnv' = Commands
  <2>1. fromEnv[Cmd] = Finds(Cmd) /\ DOMAIN fromEnv = Commands
    BY DEF Wrong, DispatchInv, FoundInv
  <2> QED BY <2>1 DEF Wrong, Accepted, Cleared
<1>2. ASSUME NEW p \in Seq(Commands), NEW from \in Cuts(p), Reads(p, from) PROVE FALSE
  <2>1. Follows(p, from)
    BY <1>1, <1>2 DEF DispatchInv, PlainInv
  <2>2. Own = Part(p, from, Len(path))
    BY <1>1, <1>2, <2>1, PlainCut DEF DispatchInv, Own
  <2>3. Len(path) \in 1 .. Len(p) /\ Cmd = p[Len(path)]
    <3>1. Len(p) \in Nat
      BY LenProperties
    <3> QED BY <2>1, <3>1, PathLen DEF DispatchInv, Follows
  <2>4. Accepts(Cmd, Finds(Cmd), Part(p, from, Len(path)))
    BY <1>2, <2>3 DEF Reads, IsReading
  <2> QED BY <1>1, <2>2, <2>4
<1> QED BY <1>1, <1>2, RefuseKeeps DEF Messages

LEMMA RightKeeps == ASSUME DispatchInv, Right PROVE DispatchInv'
<1> DEFINE n == Len(path)
           g == GetOptsAndArgs(Cmd, args)
<1>1. /\ UNCHANGED <<sets, environment, line, found, handlings, path, message, ending, err, open, phase>>
      /\ at = "command" /\ at' = "next"
      /\ Accepts(Cmd, Finds(Cmd), Own) /\ args' = SubSeq(args, Len(Own) + 1, Len(args))
  BY DEF Right, Accepted, given, flow, DispatchInv, FoundInv
<1>2. Cmd' = Cmd /\ IsPath(path)' /\ HandlingsInv'
  BY <1>1, SamePlace DEF DispatchInv, ShapeInv
<1>3. ShapeInv'
  BY <1>1, <1>2 DEF DispatchInv, ShapeInv, Places, HooksRan
<1>4. PICK from \in Cuts(path) : IsWay(path, from) /\ args = SubSeq(line, from[n], Len(line))
  BY <1>1 DEF DispatchInv, WayInv
<1>5. line \in Seq(Texts) /\ Len(line) \in Nat /\ n \in Nat \ {0} /\ Cmd \in Commands
  BY LenProperties, PathLen DEF DispatchInv, ShapeInv
<1>6. from[n] \in 1 .. Len(line) + 1
  BY <1>4, <1>5 DEF Cuts
<1>7. args \in Seq(Texts) /\ Len(args) = Len(line) + 1 - from[n]
  BY <1>4, <1>5, <1>6, Suffix
<1>8. /\ g \in 0 .. Len(args)
      /\ g < Len(args) => CallsSub(Cmd, args[g + 1])
  BY <1>5, <1>7, OwnArguments
<1>9. Own = SubSeq(args, 1, g) /\ Len(Own) = g
  BY <1>7, OwnLength DEF DispatchInv, Own
<1> HIDE DEF n, g
<1>10. args' = SubSeq(args, g + 1, Len(args)) /\ Accepts(Cmd, Finds(Cmd), SubSeq(args, 1, g))
  BY <1>1, <1>9
<1>11. WayInv'
  <2> DEFINE j == from[n] + g - 1
  <2>1. j \in 0 .. Len(line) /\ from[n] <= j + 1
    BY <1>5, <1>6, <1>7, <1>8
  <2>2. SubSeq(args, 1, g) = SubSeq(line, from[n], j) /\ args' = SubSeq(line, from[n] + g, Len(line))
    <3>1. g \in 0 .. Len(args)
      BY <1>8
    <3> DEFINE k == from[n]
    <3>2. k \in 1 .. Len(line) + 1 /\ args = SubSeq(line, k, Len(line))
      BY <1>4, <1>6
    <3> HIDE DEF k
    <3>3. /\ SubSeq(args, 1, g) = SubSeq(line, k, k + g - 1)
          /\ SubSeq(args, g + 1, Len(args)) = SubSeq(line, k + g, Len(line))
      BY <1>5, <3>1, <3>2, CutSuffix
    <3> QED BY <1>10, <3>3 DEF k
  <2>3. from[n] + g = j + 1
    <3>1. g \in Int /\ from[n] \in Int
      BY <1>5, <1>6, <1>8
    <3> HIDE DEF n
    <3> QED BY <3>1
  <2>4. args' # <<>> => CallsSub(Cmd, args'[1])
    <3>1. SUFFICES ASSUME args' # <<>> PROVE CallsSub(Cmd, args'[1])
      OBVIOUS
    <3>2. Len(args) \in Nat /\ g + 1 \in 1 .. Len(args) + 1
      BY <1>5, <1>6, <1>7, <1>8
    <3>3. g + 1 \in 1 .. Len(args) /\ args'[1] = args[g + 1]
      BY <1>7, <1>10, <3>1, <3>2, NextSuffix
    <3> QED BY <1>8, <3>2, <3>3
  <2> HIDE DEF j
  <2>5. /\ IsWay(path, from)' /\ from[Len(path')] <= j + 1
        /\ Accepts(Cmd', Finds(Cmd)', SubSeq(line', from[Len(path')], j))
        /\ args' = SubSeq(line', j + 1, Len(line'))
        /\ args' # <<>> => CallsSub(Cmd', args'[1])
    <3>1. Finds(Cmd)' = Finds(Cmd)
      BY <1>1, <1>2 DEF Finds, Declared
    <3>2. IsWay(path, from)'
      <4>1. PICK p : p = path /\ p = path'
        BY <1>1
      <4>2. IsWay(p, from)'
        BY <1>1, <1>4, <4>1, SameLine
      <4> QED BY <4>1, <4>2 DEF IsWay
    <3> QED BY <1>1, <1>2, <1>10, <2>1, <2>2, <2>3, <2>4, <3>1, <3>2 DEF n
  <2>6. from \in Cuts(path)' /\ j \in 0 .. Len(line')
    BY <1>1, <2>1 DEF Cuts
  <2> QED BY <1>1, <2>5, <2>6 DEF WayInv, HooksNeedAWholeLine
<1>12. PlainInv'
  <2>1. ASSUME NEW p \in Seq(Commands), NEW f \in Cuts(p), Reads(p, f) PROVE Follows(p, f)'
    <3>1. Follows(p, f)
      BY <1>1, <2>1 DEF DispatchInv, PlainInv
    <3>2. args' = SubSeq(line, IF n = Len(p) THEN Len(line) + 1 ELSE f[n + 1] - 1, Len(line))
      BY <1>1, <1>10, <2>1, <3>1, PlainCut DEF DispatchInv, n, g
    <3> QED BY <1>1, <3>1, <3>2 DEF Follows, n
  <2> QED BY <1>1, <2>1, SameLine DEF DispatchInv, ShapeInv, PlainInv
<1>13. FailuresEndAsSet'
  BY <1>1, Endings DEF DispatchInv, ShapeInv, FailuresEndAsSet
<1>14. FoundInv'
  <2>1. DOMAIN fromEnv' = Commands /\ \A c \in Commands : c # Cmd => fromEnv'[c] = fromEnv[c]
    BY DEF Right, Cleared, DispatchInv, FoundInv
  <2>2. \A c : OffPath(c)' => OffPath(c) /\ c # Cmd
    BY <1>1, <1>5, PathLen DEF DispatchInv, OffPath
  <2> QED BY <1>1, <2>1, <2>2 DEF DispatchInv, FoundInv
<1> QED BY <1>2, <1>3, <1>11, <1>12, <1>13, <1>14 DEF DispatchInv

\* Calling a sub command declares its own, over what is there.
LEMMA Calling ==
  ASSUME DispatchInv, NEW c \in ToSet(Subs[Cmd]),
         handlings' = Initialized(handlings, c, sets[c])
  PROVE  /\ c \in Commands
         /\ handlings' \in [Commands -> Seq(Policies)]
         /\ \A d \in {App, Cmd, c} : handlings'[d] # <<>> /\ \A e \in ToSet(Subs[d]) : handlings'[e] # <<>>
         /\ Handed(handlings')
         /\ \A p \in Seq(Commands) : IsPath(p) /\ Last(p) = c => handlings'[c][1] = InForce(p)
         /\ \A d \in {App, Cmd} : handlings'[d][1] = handlings[d][1]
<1>1. Cmd \in Commands /\ App \in Commands
  BY PathLen, TreeAssumption DEF DispatchInv
<1>2. \A d \in Commands : ToSet(Subs[d]) \subseteq Commands
  BY TreeAssumption DEF ToSet
<1>3. c \in Commands /\ handlings[c] # <<>>
  BY <1>1, <1>2 DEF DispatchInv, HandlingsInv
<1>4. sets[c] \in [before : Policies \cup {Unset}, after : Policies \cup {Unset}]
  BY <1>3, SettingsAssumption DEF DispatchInv, ShapeInv
<1>5. handlings \in [Commands -> Seq(Policies)]
  BY DEF DispatchInv, HandlingsInv
<1>6. /\ handlings' \in [Commands -> Seq(Policies)]
      /\ \A d \in Commands : handlings[d] # <<>> => handlings'[d] # <<>>
      /\ \A d \in ToSet(Subs[c]) : handlings'[d] # <<>>
  BY <1>3, <1>4, <1>5, InitializedCopies
<1>7. \A d \in {App, Cmd} : handlings[d] # <<>> /\ \A e \in ToSet(Subs[d]) : handlings[e] # <<>>
  BY DEF DispatchInv, HandlingsInv
<1>8. /\ Handed(handlings')
      /\ \A p \in Seq(Commands) : IsPath(p) /\ Last(p) = c => handlings'[c][1] = InForce(p)
      /\ \A d \in Commands : d # c /\ handlings[d] # <<>> => handlings'[d][1] = handlings[d][1]
  <2>1. sets \in Settings /\ Handed(handlings)
    BY DEF DispatchInv, ShapeInv, HandlingsInv
  <2> QED BY <1>3, <1>5, <2>1, InitializedHands
<1>9. c # App /\ c # Cmd
  BY <1>1, TreeAssumption
<1> QED BY <1>1, <1>2, <1>3, <1>6, <1>7, <1>8, <1>9

\* At the end of a part there is a call, or nothing.
LEMMA CallIsNext ==
  ASSUME DispatchInv, at = "next", args # <<>>
  PROVE  /\ Called \in 1 .. Len(Subs[Cmd]) /\ Subs[Cmd][Called] \in ToSet(Subs[Cmd])
         /\ args[1] \in Aliases[Subs[Cmd][Called]]
<1>1. CallsSub(Cmd, args[1])
  BY DEF DispatchInv, WayInv
<1>2. Cmd \in Commands /\ Subs[Cmd] \in Seq(Commands)
  BY PathLen, TreeAssumption DEF DispatchInv
<1>3. Called \in 1 .. Len(Subs[Cmd]) /\ args[1] \in Aliases[Subs[Cmd][Called]]
  BY <1>1, <1>2, CalledSub DEF Called
<1>4. Subs[Cmd][Called] \in ToSet(Subs[Cmd])
  BY <1>2, <1>3 DEF ToSet
<1> QED BY <1>3, <1>4

LEMMA DescendKeeps == ASSUME DispatchInv, Descend PROVE DispatchInv'
<1> DEFINE n == Len(path)
           c == Subs[Cmd][Called]
<1>1. at = "next" /\ args # <<>> /\ Called # 0 /\ c \in ToSet(Subs[Cmd]) /\ args[1] \in Aliases[c]
  BY CallIsNext DEF Descend
<1>2. /\ UNCHANGED <<sets, environment, line, found, message, ending, err, open, phase>> /\ at' = "command"
      /\ path' = Append(path, c) /\ args' = Tail(args)
      /\ handlings' = Initialized(handlings, c, sets[c])
      /\ fromEnv' = Declared(fromEnv, c)
  BY <1>1 DEF Descend, given, flow
<1>3. n \in Nat \ {0} /\ Cmd = path[n] /\ path \in Seq(Commands) /\ IsPath(path) /\ Cmd \in Commands
  BY PathLen DEF DispatchInv, ShapeInv
<1>4. line \in Seq(Texts) /\ Len(line) \in Nat
  BY LenProperties DEF DispatchInv, ShapeInv
<1>5. c \in Commands
  BY <1>1, <1>3, TreeAssumption DEF ToSet
<1> HIDE DEF c
<1>6. /\ path' \in Seq(Commands) /\ Len(path') = n + 1 /\ path'[n + 1] = c
      /\ \A i \in 1 .. n : path'[i] = path[i]
  BY <1>2, <1>3, <1>5, AppendProperties
<1>7. Cmd' = c
  <2>1. Cmd' = path'[Len(path')]
    BY DEF Cmd, Last
  <2> QED BY <2>1, <1>6
<1>8. IsPath(path)'
  <2>1. path' # <<>> /\ path'[1] = App
    BY <1>3, <1>6 DEF IsPath
  <2>2. ASSUME NEW i \in 1 .. n PROVE path'[i + 1] \in ToSet(Subs[path'[i]])
    <3>1. CASE i = n
      BY <3>1, <1>1, <1>3, <1>6
    <3>2. CASE i # n
      <4>1. i \in 1 .. n - 1 /\ i + 1 \in 1 .. n
        BY <3>2, <1>3
      <4> QED BY <4>1, <1>3, <1>6 DEF IsPath
    <3> QED BY <3>1, <3>2
  <2>3. Len(path') - 1 = n
    BY <1>3, <1>6
  <2> QED BY <2>1, <2>2, <2>3 DEF IsPath
<1>14. Len(path') <= MaxDepth /\ IsInjective(path')
  <2>1. IsPath(path')
    BY <1>8 DEF IsPath
  <2>2. Len(path') <= MaxDepth + 1
    <3>1. n <= MaxDepth /\ n \in Nat /\ MaxDepth \in Nat
      BY <1>3, Depth DEF DispatchInv, ShapeInv
    <3> HIDE DEF n
    <3> QED BY <1>6, <3>1
  <2> QED BY <1>6, <2>1, <2>2, DeepEnough
<1>9. ShapeInv'
  BY <1>1, <1>2, <1>6, <1>8, <1>14 DEF DispatchInv, ShapeInv, Places, HooksRan
<1>10. HandlingsInv'
  <2>1. \A d \in {App, c} : handlings'[d] # <<>> /\ \A e \in ToSet(Subs[d]) : handlings'[e] # <<>>
    BY <1>1, <1>2, Calling
  <2>2. handlings' \in [Commands -> Seq(Policies)] /\ Handed(handlings')
    BY <1>1, <1>2, Calling
  <2>3. handlings'[c][1] = InForce(path') /\ handlings'[App][1] = InForce(<<App>>)
    <3>1. IsPath(path') /\ Last(path') = c
      BY <1>7, <1>8 DEF IsPath, Cmd
    <3>2. handlings[App][1] = InForce(<<App>>)
      BY DEF DispatchInv, HandlingsInv
    <3> QED BY <1>1, <1>2, <1>6, <3>1, <3>2, Calling
  <2>4. Handed(handlings)' /\ handlings'[c][1] = InForce(path)' /\ InForce(<<App>>)' = InForce(<<App>>)
    <3>1. PICK h, p : h = handlings' /\ p = path'
      OBVIOUS
    <3>2. (Handed(h)' <=> Handed(h)) /\ InForce(p)' = InForce(p) /\ InForce(<<App>>)' = InForce(<<App>>)
      BY <1>2, SameForce
    <3> QED BY <2>2, <2>3, <3>1, <3>2 DEF Handed, InForce
  <2> QED BY <2>1, <2>2, <2>3, <2>4, <1>7 DEF HandlingsInv
<1>15. FoundInv'
  <2>1. DOMAIN fromEnv = Commands /\ DOMAIN found = Commands /\ \A d \in Commands : OffPath(d) => fromEnv[d] = found[d]
    BY <1>1 DEF DispatchInv, FoundInv
  <2>2. /\ DOMAIN fromEnv' = Commands /\ \A d \in Commands : d # c => fromEnv'[d] = fromEnv[d]
        /\ fromEnv'[c] = [last |-> environment[c], before |-> fromEnv[c].last \cup fromEnv[c].before]
    BY <1>2, <1>5, <2>1 DEF Declared
  <2>3. OffPath(c)
    <3>1. ASSUME NEW i \in 1 .. n PROVE path'[i] # path'[n + 1]
      <4>1. DOMAIN path' = 1 .. n + 1 /\ i \in 1 .. n + 1 /\ n + 1 \in 1 .. n + 1 /\ i # n + 1
        <5>1. DOMAIN path' = 1 .. n + 1
          BY <1>6, LenProperties
        <5> HIDE DEF n
        <5> QED BY <1>3, <5>1
      <4> QED BY <1>14, <4>1 DEF IsInjective
    <3> QED BY <1>6, <3>1 DEF OffPath
  <2>4. \A d : OffPath(d)' => OffPath(d) /\ d # c
    <3>1. \A i \in 1 .. n : i \in 1 .. Len(path')
      BY <1>3, <1>6
    <3>2. n + 1 \in 1 .. Len(path')
      BY <1>3, <1>6
    <3> QED BY <1>6, <3>1, <3>2 DEF OffPath
  <2>5. Finds(Cmd)' = fromEnv'[c]
    <3>1. c # App
      BY <1>1, <1>3, TreeAssumption
    <3>2. Finds(Cmd)' = [found EXCEPT ![c] = [last |-> environment[c], before |-> @.last \cup @.before]][c]
      BY <1>2, <1>7, <3>1 DEF Finds, Declared
    <3> QED BY <1>5, <2>1, <2>2, <2>3, <3>2
  <2> QED BY <1>2, <1>7, <2>1, <2>2, <2>4, <2>5 DEF FoundInv
<1>11. WayInv'
  <2>1. PICK from \in Cuts(path), j \in 0 .. Len(line) :
          /\ IsWay(path, from) /\ from[n] <= j + 1
          /\ Accepts(Cmd, Finds(Cmd), SubSeq(line, from[n], j))
          /\ args = SubSeq(line, j + 1, Len(line))
    BY <1>1 DEF DispatchInv, WayInv
  <2>2. j + 1 \in 1 .. Len(line) /\ args[1] = line[j + 1] /\ Tail(args) = SubSeq(line, j + 2, Len(line))
    <3> DEFINE k == j + 1
    <3>1. k \in 1 .. Len(line) + 1 /\ args = SubSeq(line, k, Len(line)) /\ k + 1 = j + 2
      BY <1>4, <2>1
    <3> HIDE DEF k
    <3>2. k \in 1 .. Len(line) /\ args[1] = line[k] /\ Tail(args) = SubSeq(line, k + 1, Len(line))
      BY <1>1, <1>4, <3>1, NextSuffix
    <3> QED BY <3>1, <3>2 DEF k
  <2>10. PICK ext : ext = [i \in 1 .. n + 1 |-> IF i = n + 1 THEN j + 2 ELSE from[i]]
    OBVIOUS
  <2>3. /\ \A i \in 1 .. n : ext[i] = from[i] /\ from[i] \in 1 .. Len(line) + 1
        /\ ext[n + 1] = j + 2
    <3>1. from \in [1 .. n -> 1 .. Len(line) + 1]
      BY <2>1 DEF Cuts
    <3>2. n \in Nat /\ n + 1 \in 1 .. n + 1 /\ \A i \in 1 .. n : i \in 1 .. n + 1 /\ i # n + 1
      BY <1>3
    <3> HIDE DEF n
    <3> QED BY <2>10, <3>1, <3>2
  <2>4. ext \in Cuts(path)'
    <3>1. j + 2 \in 1 .. Len(line) + 1
      BY <1>4, <2>2
    <3> QED BY <1>2, <1>3, <1>6, <2>3, <2>10, <3>1 DEF Cuts
  <2>5. IsWay(path, ext)'
    <3>1. ext[1] = 1
      BY <1>3, <2>1, <2>3 DEF IsWay
    <3>2. ASSUME NEW i \in 1 .. n
          PROVE  /\ ext[i] < ext[i + 1] /\ line[ext[i + 1] - 1] \in Aliases[path'[i + 1]]
                 /\ Accepts(path'[i], Finds(path'[i]), SubSeq(line, ext[i], ext[i + 1] - 2))
      <4>1. CASE i = n
        <5>1. ext[i] = from[n] /\ ext[i + 1] = j + 2 /\ path'[i] = Cmd /\ path'[i + 1] = c
          BY <4>1, <1>3, <1>6, <2>3
        <5>2. (j + 2) - 1 = j + 1 /\ (j + 2) - 2 = j /\ from[n] < j + 2
          BY <2>1, <2>3, <1>3
        <5> QED BY <5>1, <5>2, <1>1, <2>1, <2>2
      <4>2. CASE i # n
        <5>1. i \in 1 .. n - 1 /\ i + 1 \in 1 .. n
          BY <4>2, <1>3
        <5>2. ext[i] = from[i] /\ ext[i + 1] = from[i + 1] /\ path'[i] = path[i] /\ path'[i + 1] = path[i + 1]
          BY <5>1, <1>6, <2>3
        <5> QED BY <5>1, <5>2, <2>1 DEF IsWay
      <4> QED BY <4>1, <4>2
    <3>3. Len(path') - 1 = n
      BY <1>3, <1>6
    <3>4. IsWay(path', ext)
      BY <3>1, <3>2, <3>3 DEF IsWay
    <3>5. PICK q : q = path'
      OBVIOUS
    <3>6. IsWay(q, ext)'
      BY <1>2, <3>4, <3>5, SameLine
    <3> QED BY <3>5, <3>6 DEF IsWay
  <2>6. args' = SubSeq(line', ext[Len(path')], Len(line'))
    BY <1>2, <1>6, <2>2, <2>3
  <2> QED BY <1>2, <2>4, <2>5, <2>6 DEF WayInv, HooksNeedAWholeLine
<1>12. PlainInv'
  <2>1. ASSUME NEW p \in Seq(Commands), NEW f \in Cuts(p), Reads(p, f) PROVE Follows(p, f)'
    <3> DEFINE k == IF n = Len(p) THEN Len(line) + 1 ELSE f[n + 1] - 1
    <3>1. n <= Len(p) /\ (\A i \in 1 .. n : path[i] = p[i]) /\ args = SubSeq(line, k, Len(line)) /\ Len(p) \in Nat
      BY <1>1, <2>1, LenProperties DEF DispatchInv, PlainInv, Follows
    <3>2. k \in 1 .. Len(line) + 1
      <4>1. CASE n = Len(p)
        BY <4>1, <1>4
      <4>2. CASE n # Len(p)
        <5>1. n \in 1 .. Len(p) - 1 /\ n \in 1 .. Len(p) /\ n + 1 \in 1 .. Len(p)
          BY <4>2, <3>1, <1>3
        <5>2. f[n] \in 1 .. Len(line) + 1 /\ f[n + 1] \in 1 .. Len(line) + 1 /\ f[n] < f[n + 1]
          BY <5>1, <2>1 DEF Cuts, Reads, IsReading
        <5> QED BY <5>2, <4>2, <1>4
      <4> QED BY <4>1, <4>2
    <3> HIDE DEF k
    <3>3. k \in 1 .. Len(line) /\ args[1] = line[k] /\ Tail(args) = SubSeq(line, k + 1, Len(line))
      BY <1>1, <1>4, <3>1, <3>2, NextSuffix
    <3>4. n # Len(p) /\ k = f[n + 1] - 1
      BY <3>3, <1>4 DEF k
    <3>5. n \in 1 .. Len(p) - 1 /\ n + 1 <= Len(p) /\ n + 1 \in 1 .. Len(p)
      BY <3>1, <3>4, <1>3
    <3>6. f[n + 1] \in Nat
      BY <3>5, <1>4 DEF Cuts
    <3>7. p[n + 1] = c
      <4>1. p[n + 1] = Subs[p[n]][CalledBy(p[n], line[f[n + 1] - 1])]
        BY <3>5, <2>1 DEF Reads, IsPlain
      <4>2. p[n] = Cmd /\ line[f[n + 1] - 1] = args[1]
        BY <3>1, <3>3, <3>4, <1>3
      <4> QED BY <4>1, <4>2 DEF c, Called
    <3>8. \A i \in 1 .. n + 1 : path'[i] = p[i]
      BY <1>3, <1>6, <3>1, <3>7
    <3>9. args' = SubSeq(line, f[n + 1], Len(line))
      <4>1. k + 1 = f[n + 1]
        BY <3>4, <3>6
      <4> QED BY <4>1, <3>3, <1>2
    <3> QED BY <1>2, <1>6, <3>5, <3>8, <3>9 DEF Follows
  <2> QED BY <1>1, <1>2, <2>1, SameLine DEF DispatchInv, ShapeInv, PlainInv
<1>13. FailuresEndAsSet'
  BY <1>1, <1>2, Endings DEF DispatchInv, ShapeInv, FailuresEndAsSet
<1> QED BY <1>9, <1>10, <1>11, <1>12, <1>13, <1>15 DEF DispatchInv

LEMMA SpecPanicsKeeps == ASSUME DispatchInv, SpecPanics PROVE DispatchInv'
<1> DEFINE c == Subs[Cmd][Called]
<1>1. at = "next" /\ args # <<>> /\ c \in ToSet(Subs[Cmd])
  BY CallIsNext DEF SpecPanics
<1>2. /\ UNCHANGED <<sets, environment, line, found, path, args, message, err>> /\ at' = "over" /\ ending' = <<"panicked", "spec">>
      /\ handlings' = Initialized(handlings, c, sets[c])
      /\ fromEnv' = Declared(fromEnv, c)
  BY DEF SpecPanics, given, flow
<1> HIDE DEF c
<1>3. Cmd' = Cmd /\ IsPath(path)'
  BY <1>2 DEF Cmd, IsPath, DispatchInv, ShapeInv
<1>4. ShapeInv'
  BY <1>2, <1>3 DEF DispatchInv, ShapeInv, Places
<1>5. HandlingsInv'
  <2>1. /\ handlings' \in [Commands -> Seq(Policies)]
        /\ \A d \in {App, Cmd} : handlings'[d] # <<>> /\ \A e \in ToSet(Subs[d]) : handlings'[e] # <<>>
    BY <1>1, <1>2, Calling
  <2>2. Handed(handlings') /\ \A d \in {App, Cmd} : handlings'[d][1] = handlings[d][1]
    BY <1>1, <1>2, Calling
  <2>3. Handed(handlings)' /\ InForce(path)' = InForce(path) /\ InForce(<<App>>)' = InForce(<<App>>)
    <3>1. PICK h, p : h = handlings' /\ p = path /\ p = path'
      BY <1>2
    <3>2. (Handed(h)' <=> Handed(h)) /\ InForce(p)' = InForce(p) /\ InForce(<<App>>)' = InForce(<<App>>)
      BY <1>2, SameForce
    <3> QED BY <2>2, <3>1, <3>2 DEF Handed, InForce
  <2>4. handlings[App][1] = InForce(<<App>>) /\ handlings[Cmd][1] = InForce(path)
    BY DEF DispatchInv, HandlingsInv
  <2> QED BY <2>1, <2>2, <2>3, <2>4, <1>3 DEF HandlingsInv
<1>9. FoundInv'
  <2>1. DOMAIN fromEnv' = Commands
    BY <1>2 DEF Declared, DispatchInv, FoundInv
  <2> QED BY <1>2, <2>1, SameFound DEF DispatchInv
<1>6. WayInv'
  BY <1>2 DEF WayInv, HooksNeedAWholeLine
<1>7. PlainInv'
  BY <1>1, <1>2 DEF DispatchInv, ShapeInv, PlainInv
<1>8. FailuresEndAsSet'
  <2>1. <<"panicked", "spec">> \notin {<<"returned", Nil>>, <<"exited", 0>>}
    BY Endings
  <2>2. message' \notin {"wrong", "noaction"}
    BY <1>1, <1>2 DEF DispatchInv, ShapeInv
  <2> QED BY <2>1, <2>2, <1>2 DEF FailuresEndAsSet
<1> QED BY <1>4, <1>5, <1>6, <1>7, <1>8, <1>9 DEF DispatchInv

LEMMA RunAgainKeeps == ASSUME DispatchInv, RunAgain PROVE DispatchInv'
<1>1. /\ UNCHANGED <<sets, environment, handlings, fromEnv, line>> /\ found' = fromEnv
      /\ at' = "app" /\ path' = <<App>> /\ args' = line
      /\ message' = "" /\ ending' = <<"none", Nil>> /\ err' = Nil /\ open' = 0 /\ phase' = "down"
  BY DEF RunAgain
<1>2. Len(path') = 1 /\ path'[1] = App /\ path' \in Seq(Commands) /\ path' # <<>>
  <2>1. Len(<<App>>) = 1 /\ <<App>>[1] = App /\ <<App>> \in Seq(Commands) /\ <<App>> # <<>>
    BY TreeAssumption
  <2> QED BY <1>1, <2>1
<1>3. Cmd' = App
  <2>1. Cmd' = path'[Len(path')]
    BY DEF Cmd, Last
  <2> QED BY <2>1, <1>2
<1>4. line \in Seq(Texts) /\ Len(line) \in Nat
  BY LenProperties DEF DispatchInv, ShapeInv
<1>5. ShapeInv'
  <2>1. IsPath(path)'
    BY <1>2 DEF IsPath
  <2>2. Len(path') <= MaxDepth
    BY <1>2, Depth
  <2> QED BY <2>1, <2>2, <1>1, <1>2 DEF DispatchInv, ShapeInv, Places, HooksRan
<1>6. HandlingsInv'
  <2>1. PICK h, p : h = handlings /\ h = handlings' /\ p = path' /\ p = <<App>>
    BY <1>1
  <2>2. (Handed(h)' <=> Handed(h)) /\ InForce(p)' = InForce(p)
    BY <1>1, SameForce
  <2>3. Handed(handlings)' /\ InForce(path)' = InForce(<<App>>) /\ InForce(<<App>>)' = InForce(<<App>>)
    BY <2>1, <2>2 DEF DispatchInv, HandlingsInv, Handed, InForce
  <2> QED BY <1>1, <1>3, <2>3 DEF DispatchInv, HandlingsInv
<1>11. FoundInv'
  BY <1>1, <1>3 DEF DispatchInv, FoundInv, Finds
<1>7. args' = SubSeq(line, 1, Len(line))
  BY <1>1, <1>4, SubSeqFull
<1>8. WayInv'
  <2>0. PICK from : from = [i \in 1 .. 1 |-> 1]
    OBVIOUS
  <2>1. from \in Cuts(path)' /\ IsWay(path, from)' /\ from[1] = 1
    <3>1. from \in [1 .. 1 -> 1 .. Len(line) + 1] /\ from[1] = 1
      BY <1>4, <2>0
    <3>2. line' = line /\ Len(path') = 1
      BY <1>1, <1>2
    <3>3. from \in Cuts(path)'
      BY <3>1, <3>2 DEF Cuts
    <3>4. IsWay(path, from)'
      BY <3>1, <3>2 DEF IsWay
    <3> QED BY <3>1, <3>3, <3>4
  <2>2. args' = SubSeq(line', from[Len(path')], Len(line'))
    BY <1>1, <1>2, <1>7, <2>1
  <2> QED BY <1>1, <2>1, <2>2 DEF WayInv, HooksNeedAWholeLine
<1>9. PlainInv'
  <2>1. ASSUME NEW p \in Seq(Commands), NEW from \in Cuts(p)', Reads(p, from)' PROVE Follows(p, from)'
    <3>1. Len(p) \in Nat \ {0} /\ p[1] = App /\ from[1] = 1
      BY <2>1, EmptySeq, LenProperties DEF Reads, IsPath, IsReading
    <3>2. \A i \in 1 .. 1 : path'[i] = p[i]
      BY <3>1, <1>2
    <3>3. at' # "next" /\ args' = SubSeq(line', from[Len(path')], Len(line'))
      <4>1. from[Len(path')] = 1 /\ line' = line /\ at' = "app"
        BY <1>1, <1>2, <3>1
      <4> QED BY <4>1, <1>7
    <3>4. Len(path') <= Len(p) /\ \A i \in 1 .. Len(path') : path'[i] = p[i]
      BY <1>2, <3>1, <3>2
    <3> QED BY <3>3, <3>4 DEF Follows
  <2> QED BY <1>1, <2>1 DEF PlainInv
<1>10. FailuresEndAsSet'
  BY <1>1, Endings DEF FailuresEndAsSet
<1> QED BY <1>5, <1>6, <1>8, <1>9, <1>10, <1>11 DEF DispatchInv

LEMMA StutterKeeps == ASSUME DispatchInv, UNCHANGED vars PROVE DispatchInv'
<1>1. UNCHANGED <<sets, environment, line, found, handlings, fromEnv, at, path, args, message, ending, open, phase, err>>
  BY DEF vars, parsing, given, flow
<1>2. Cmd' = Cmd /\ IsPath(path)' /\ HandlingsInv'
  BY <1>1, SamePlace DEF DispatchInv, ShapeInv
<1>3. ShapeInv'
  BY <1>1, <1>2 DEF DispatchInv, ShapeInv, HooksRan
<1>7. FoundInv'
  <2>1. FoundInv /\ DOMAIN fromEnv' = Commands
    BY <1>1 DEF DispatchInv, FoundInv
  <2>2. UNCHANGED <<found, environment, path>> /\ fromEnv' = fromEnv /\ at' = at
    BY <1>1
  <2> QED BY <2>1, <2>2, SameFound
<1>4. WayInv'
  <2>1. PICK p, c : p = path /\ p = path' /\ c = Cmd /\ c = Cmd'
    BY <1>1, <1>2
  <2>2. /\ Cuts(p)' = Cuts(p) /\ IsPath(p)' = IsPath(p) /\ Finds(c)' = Finds(c)
        /\ \A from : (IsReading(p, from)' <=> IsReading(p, from)) /\ (IsWay(p, from)' <=> IsWay(p, from))
    BY <1>1, SameLine DEF IsPath, Finds, Declared
  <2>3. /\ Cuts(path)' = Cuts(path) /\ Finds(Cmd)' = Finds(Cmd)
        /\ \A from : (IsReading(path, from)' <=> IsReading(path, from)) /\ (IsWay(path, from)' <=> IsWay(path, from))
    BY <2>1, <2>2 DEF Cuts, IsReading, IsWay, Finds
  <2> QED BY <1>1, <1>2, <2>3 DEF DispatchInv, WayInv, HooksNeedAWholeLine
<1>5. PlainInv'
  BY <1>1, SameLine DEF DispatchInv, PlainInv, Follows
<1>6. FailuresEndAsSet'
  <2>1. PICK p : p = path /\ p = path'
    BY <1>1
  <2>2. InForce(p)' = InForce(p)
    BY <1>1, SameForce
  <2>3. InForce(path)' = InForce(path)
    BY <2>1, <2>2 DEF InForce
  <2> QED BY <1>1, <2>3 DEF DispatchInv, FailuresEndAsSet
<1> QED BY <1>2, <1>3, <1>4, <1>5, <1>6, <1>7 DEF DispatchInv

\* The invariant is inductive.
THEOREM Invariance == Spec => []DispatchInv
<1>1. DispatchInv /\ [Next]_vars => DispatchInv'
  <2> SUFFICES ASSUME DispatchInv, [Next]_vars PROVE DispatchInv'
    OBVIOUS
  <2>1. CASE AskVersion BY <2>1, AskVersionKeeps
  <2>2. CASE ParseApp   BY <2>2, ParseAppKeeps
  <2>3. CASE AskHelp    BY <2>3, AskHelpKeeps
  <2>4. CASE Wrong      BY <2>4, WrongKeeps
  <2>5. CASE Right      BY <2>5, RightKeeps
  <2>6. CASE NoAction   BY <2>6, NoActionKeeps
  <2>7. CASE RunFlow    BY <2>7, RunFlowKeeps
  <2>8. CASE Descend    BY <2>8, DescendKeeps
  <2>9. CASE SpecPanics BY <2>9, SpecPanicsKeeps
  <2>10. CASE Hooks     BY <2>10, HooksKeeps
  <2>11. CASE Return    BY <2>11, ReturnKeeps
  <2>12. CASE RunAgain  BY <2>12, RunAgainKeeps
  <2>13. CASE UNCHANGED vars BY <2>13, StutterKeeps
  <2> QED BY <2>1, <2>2, <2>3, <2>4, <2>5, <2>6, <2>7, <2>8, <2>9, <2>10, <2>11, <2>12, <2>13
             DEF Next, Step, Terminated
<1> QED BY <1>1, InitInv, PTL DEF Spec

(***************************************************************************)
(* The properties.                                                         *)
(***************************************************************************)

\* Hooks run only for a line that was read to its end, each command on the path
\* accepting its part (Cmd.parse).
THEOREM WholeLine == Spec => []HooksNeedAWholeLine
<1>1. DispatchInv => HooksNeedAWholeLine
  BY DEF DispatchInv, WayInv
<1> QED BY Invariance, <1>1, PTL

\* A line that has a plain reading is not refused, and "illegal option" and "illegal
\* input" are never printed (getOptsAndArgs, Cmd.parse).
THEOREM PlainLines == Spec => []PlainLinesAreRead
<1>1. DispatchInv => PlainLinesAreRead
  <2>1. Paths \subseteq {p \in Seq(Commands) : IsPath(p)}
    BY DEF Paths, SeqOf
  <2> QED BY <2>1 DEF DispatchInv, PlainInv, PlainLinesAreRead, Reads
<1> QED BY Invariance, <1>1, PTL

\* A failure ends as the ErrorHandling in force says, in every Run, and a Run that
\* ends like a success is one (Cmd.Command, doInit, onError, RootOut).
THEOREM FailuresAsSet == Spec => []FailuresEndAsSet
<1>1. DispatchInv => FailuresEndAsSet
  BY DEF DispatchInv
<1> QED BY Invariance, <1>1, PTL

\* After a message no hook runs and no other message comes, and after the hooks nothing
\* is printed and no other command is asked (Cmd.parse returns).
THEOREM Answered == Spec => OneAnswer
<1> DEFINE Final == /\ message # "" => UNCHANGED <<message, ending, flow>>
                    /\ HooksRan => UNCHANGED <<message, path, args>>
<1>1. DispatchInv /\ [Next]_vars => [~RunAgain => Final]_vars
  <2> SUFFICES ASSUME DispatchInv, Next, ~RunAgain PROVE Final
    OBVIOUS
  <2>1. CASE at = "over"
    <3>1. UNCHANGED vars
      BY <2>1 DEF Next, Step, Terminated, AskVersion, ParseApp, AskHelp, Wrong, Right, NoAction, RunFlow, Descend,
                  SpecPanics, Hooks, Return
    <3> QED BY <3>1 DEF vars, parsing
  <2>2. CASE at = "flow"
    <3>1. message = ""
      BY <2>2 DEF DispatchInv, ShapeInv
    <3>2. Hooks \/ Return
      BY <2>2 DEF Next, Step, Terminated, AskVersion, ParseApp, AskHelp, Wrong, Right, NoAction, RunFlow, Descend,
                  SpecPanics
    <3> QED BY <3>1, <3>2 DEF Hooks, Return, parsing
  <2>3. CASE at \notin {"flow", "over"}
    BY <2>3 DEF DispatchInv, ShapeInv
  <2> QED BY <2>1, <2>2, <2>3
<1> QED BY Invariance, <1>1, PTL DEF Spec, OneAnswer

(***************************************************************************)
(* The types.                                                              *)
(***************************************************************************)

\* What ShapeInv leaves open: the arguments at hand are the end of the line, and the
\* levels open are of the path.
TypeInv ==
  /\ message \in Messages
  /\ \E k \in 1 .. Len(line) + 1 : args = SubSeq(line, k, Len(line))
  /\ open \in 0 .. Len(path) /\ phase \in {"down", "up", "done"}

LEMMA InitTypes == ASSUME Init PROVE TypeInv
<1>1. path = <<App>> /\ Len(path) = 1 /\ args = line /\ line \in Seq(Texts) /\ Len(line) \in Nat
  BY LinesAssumption, LenProperties DEF Init
<1>2. args = SubSeq(line, 1, Len(line)) /\ 1 \in 1 .. Len(line) + 1
  BY <1>1, SubSeqFull
<1>3. 0 \in 0 .. 1
  OBVIOUS
<1>4. message = "" /\ open = 0 /\ phase = "down"
  BY DEF Init
<1> QED BY <1>1, <1>2, <1>3, <1>4 DEF TypeInv, Messages

LEMMA StepTypes == ASSUME DispatchInv, TypeInv, [Next]_vars PROVE TypeInv'
<1>1. line \in Seq(Texts) /\ Len(line) \in Nat /\ Len(path) \in Nat \ {0} /\ path \in Seq(Commands) /\ IsPath(path)
  BY PathLen, LenProperties DEF DispatchInv, ShapeInv
<1>2. ASSUME UNCHANGED <<line, path, args, open, phase>>, message' \in Messages PROVE TypeInv'
  BY <1>2 DEF TypeInv
<1>3. ASSUME NEW msg \in Messages, Refuse(msg) PROVE TypeInv'
  BY <1>2, <1>3 DEF Refuse, given, flow
<1>4. CASE AskVersion \/ AskHelp \/ Wrong \/ NoAction
  <2>1. PICK msg \in {"version", "help", "wrong", "noaction"} : Refuse(msg)
    BY <1>4 DEF AskVersion, AskHelp, Wrong, NoAction
  <2> QED BY <2>1, <1>3 DEF Messages
<1>5. CASE ParseApp \/ RunFlow \/ SpecPanics \/ Return \/ UNCHANGED vars
  <2>1. UNCHANGED <<line, path, args, open, phase, message>>
    BY <1>5 DEF ParseApp, RunFlow, SpecPanics, Return, vars, parsing, given, flow
  <2> QED BY <2>1, <1>2 DEF TypeInv
<1>6. CASE Right
  <2> DEFINE g == Len(Own)
  <2>1. UNCHANGED <<line, path, message, open, phase>> /\ args' = SubSeq(args, g + 1, Len(args))
    BY <1>6 DEF Right, given, flow
  <2>2. PICK k \in 1 .. Len(line) + 1 : args = SubSeq(line, k, Len(line))
    BY DEF TypeInv
  <2>3. args \in Seq(Texts) /\ Len(args) = Len(line) + 1 - k /\ Len(args) \in Nat
    BY <1>1, <2>2, Suffix
  <2>4. g \in 0 .. Len(args)
    BY <2>3, OwnLength DEF DispatchInv
  <2> HIDE DEF g
  <2>5. args' = SubSeq(line, k + g, Len(line)) /\ k + g \in 1 .. Len(line) + 1
    BY <1>1, <2>1, <2>2, <2>3, <2>4, CutSuffix
  <2> QED BY <2>1, <2>5 DEF TypeInv
<1>7. CASE Descend
  <2> DEFINE c == Subs[Cmd][Called]
  <2>1. at = "next" /\ args # <<>>
    BY <1>7 DEF Descend
  <2>2. /\ UNCHANGED <<line, message, open, phase>> /\ args' = Tail(args) /\ path' = Append(path, c)
        /\ c \in ToSet(Subs[Cmd])
    BY <1>7, <2>1, CallIsNext DEF Descend, given, flow
  <2>3. c \in Commands
    BY <2>2, PathLen, TreeAssumption DEF DispatchInv, ToSet
  <2> HIDE DEF c
  <2>4. path' \in Seq(Commands) /\ Len(path') = Len(path) + 1
    BY <1>1, <2>2, <2>3, AppendProperties
  <2>7. PICK k \in 1 .. Len(line) + 1 : args = SubSeq(line, k, Len(line))
    BY DEF TypeInv
  <2>8. k + 1 \in 1 .. Len(line) + 1 /\ args' = SubSeq(line, k + 1, Len(line))
    BY <1>1, <2>1, <2>2, <2>7, NextSuffix
  <2>9. open' \in 0 .. Len(path')
    BY <1>1, <2>2, <2>4 DEF TypeInv
  <2> QED BY <2>2, <2>8, <2>9 DEF TypeInv
<1>8. CASE Hooks
  <2>1. UNCHANGED <<line, path, args, message>> /\ I!Next
    BY <1>8 DEF Hooks, parsing, given
  <2>2. open' \in 0 .. Len(path) /\ phase' \in {"down", "up", "done"}
    BY <1>1, <2>1 DEF TypeInv, I!Next, I!Open, I!TurnBack, I!Act, I!Close, I!Finish
  <2> QED BY <2>1, <2>2 DEF TypeInv
<1>9. CASE RunAgain
  <2>1. /\ line' = line /\ path' = <<App>> /\ args' = line /\ message' = "" /\ open' = 0 /\ phase' = "down"
        /\ Len(<<App>>) = 1
    BY <1>9 DEF RunAgain
  <2>2. args' = SubSeq(line, 1, Len(line)) /\ 1 \in 1 .. Len(line) + 1
    <3>1. SubSeq(line, 1, Len(line)) = line
      BY <1>1, SubSeqFull
    <3>2. 1 \in 1 .. Len(line) + 1
      BY <1>1
    <3> QED BY <2>1, <3>1, <3>2, Zenon
  <2>3. Len(path') = 1
    BY <2>1, Zenon
  <2>4. 0 \in 0 .. 1
    OBVIOUS
  <2> QED BY <2>1, <2>2, <2>3, <2>4 DEF TypeInv, Messages
<1> QED BY <1>4, <1>5, <1>6, <1>7, <1>8, <1>9 DEF Next, Step, Terminated

\* The variables hold what they stand for, the path a way down the tree and the
\* arguments the end of the line (Cmd.parse).
THEOREM TypeCorrect == Spec => []TypeOK
<1>1. DispatchInv /\ TypeInv => TypeOK
  <2> SUFFICES ASSUME DispatchInv, TypeInv PROVE TypeOK
    OBVIOUS
  <2>1. path \in SeqOf(Commands, MaxDepth)
    <3>1. Len(path) \in 0 .. MaxDepth /\ path \in [1 .. Len(path) -> Commands]
      <4>1. Len(path) \in Nat /\ path \in [1 .. Len(path) -> Commands]
        BY PathLen, LenProperties DEF DispatchInv, ShapeInv
      <4>2. Len(path) <= MaxDepth
        BY DEF DispatchInv, ShapeInv
      <4> QED BY <4>1, <4>2, Depth
    <3> QED BY <3>1 DEF SeqOf
  <2>2. IsSuffix(args, line)
    <3>1. PICK k \in 1 .. Len(line) + 1 : args = SubSeq(line, k, Len(line))
      BY DEF TypeInv
    <3>2. line \in Seq(Texts) /\ Len(line) \in Nat
      BY LenProperties DEF DispatchInv, ShapeInv
    <3> QED BY <3>1, <3>2, SuffixIsSuffix
  <2> QED BY <2>1, <2>2 DEF TypeOK, DispatchInv, ShapeInv, TypeInv, IsPath
<1>2. Init => DispatchInv /\ TypeInv
  BY InitInv, InitTypes
<1>3. DispatchInv /\ TypeInv /\ [Next]_vars => TypeInv'
  BY StepTypes
<1> QED BY Invariance, <1>1, <1>2, <1>3, PTL DEF Spec

(***************************************************************************)
(* Two Runs of a line.  What a command answers that has no options from    *)
(* the environment depends on the line and on nothing that changes from    *)
(* Run to Run: level by level, the command and its arguments tell the      *)
(* message or the next command; and an ErrorHandling stays as its first    *)
(* initialization has left it.                                             *)
(***************************************************************************)

Rest(k)        == SubSeq(line, k, Len(line))
Mine(c, k)     == GetOptsAndArgs(c, Rest(k))
IsWhole(c, k)  == Mine(c, k) = Len(Rest(k))
NextCall(c, k) == Subs[c][CalledBy(c, Rest(k)[Mine(c, k) + 1])]

\* Commands without options from the environment are asked the same in every Run.
Free(c) == environment[c] = {}
None == [last |-> {}, before |-> {}]
FreeInv == \A c \in Commands : Free(c) => fromEnv[c] = None

\* What such a command at a level says to its arguments, those from k on; "" if nothing.
Answer(c, k, level) ==
  IF level = 1 /\ Rest(k) # <<>> /\ Rest(k)[1] \in Version THEN "version"
  ELSE IF Rest(k) # <<>> /\ Rest(k)[1] \in Help THEN "help"
  ELSE IF ~Accepts(c, None, SubSeq(Rest(k), 1, Mine(c, k))) THEN "wrong"
  ELSE IF IsWhole(c, k) /\ c \notin Actions THEN "noaction"
  ELSE ""

\* One command calls the next: d, whose arguments start at m.
Goes(c, k, level, d, m) ==
  /\ Free(c) => Answer(c, k, level) = ""
  /\ ~IsWhole(c, k)
  /\ d = NextCall(c, k) /\ d \notin Broken /\ m = k + Mine(c, k) + 1

Leads(p, from) ==
  /\ p[1] = App /\ from[1] = 1
  /\ \A i \in 1 .. Len(p) - 1 : Goes(p[i], from[i], i, p[i + 1], from[i + 1])

\* Where the last of the commands ends the Run, and how.
Concludes(p, from, msg, end) ==
  LET c == p[Len(p)]
      k == from[Len(p)]
  IN  Free(c) =>
        /\ msg = Answer(c, k, Len(p))
        /\ msg # "" => end = OnError(c, msg)
        /\ msg = "" /\ ~IsWhole(c, k) => NextCall(c, k) \in Broken /\ end = <<"panicked", "spec">>

\* The ErrorHandling of a command was set: to set it again changes nothing.
Settled(c) == handlings[c] # <<>> /\ Or(sets[c].after, Or(sets[c].before, handlings[c][1])) = handlings[c][1]

CourseInv ==
  \E from \in Cuts(path) :
    LET n == Len(path)
        k == from[n]
    IN  /\ Leads(path, from)
        /\ at \in {"app", "command"} => args = Rest(k)
        /\ at = "app" => n = 1
        /\ at = "command" /\ n = 1 => ~(Rest(k) # <<>> /\ Rest(k)[1] \in Version)
        /\ at = "next" => /\ Free(Cmd) => Answer(Cmd, k, n) \in {"", "noaction"}
                          /\ args = SubSeq(Rest(k), Mine(Cmd, k) + 1, Len(Rest(k)))
        /\ at = "flow" => (Free(Cmd) => Answer(Cmd, k, n) = "") /\ IsWhole(Cmd, k)
        /\ at = "over" => /\ Concludes(path, from, message, ending)
                          /\ message = "" /\ IsWhole(Cmd, k) => phase = "done"

EarlierInv ==
  /\ \E R : earlier \in Seq(R)
  /\ \A i \in 1 .. Len(earlier) :
       /\ earlier[i].path \in Seq(Commands) /\ earlier[i].path # <<>>
       /\ Settled(earlier[i].path[Len(earlier[i].path)])
       /\ \E from \in Cuts(earlier[i].path) :
            Leads(earlier[i].path, from) /\ Concludes(earlier[i].path, from, earlier[i].message, earlier[i].ending)

AnswerInv == CourseInv /\ EarlierInv /\ Settled(App) /\ Settled(Cmd)

\* Two ways through a line are one, if each is at an end.
LEMMA OneWay ==
  ASSUME NEW p \in Seq(Commands), p # <<>>, NEW from \in Cuts(p), Leads(p, from),
         NEW q \in Seq(Commands), q # <<>>, NEW to \in Cuts(q), Leads(q, to)
  PROVE  \A i \in 1 .. Len(p) : i <= Len(q) => p[i] = q[i] /\ from[i] = to[i]
<1> DEFINE Apart == {i \in 1 .. Len(p) : i <= Len(q) /\ ~(p[i] = q[i] /\ from[i] = to[i])}
           m == Min(Apart)
<1>1. Len(p) \in Nat \ {0} /\ Len(q) \in Nat \ {0}
  BY EmptySeq, LenProperties
<1>2. SUFFICES ASSUME Apart # {} PROVE FALSE
  OBVIOUS
<1>3. m \in Apart /\ \A y \in Apart : m <= y
  <2>1. Apart \subseteq Nat
    BY <1>1
  <2> HIDE DEF Apart
  <2> QED BY <1>2, <2>1, LeastNumber
<1>4. m \in 1 .. Len(p) /\ m <= Len(q) /\ ~(p[m] = q[m] /\ from[m] = to[m])
  BY <1>3
<1> HIDE DEF m
<1>5. m # 1
  BY <1>4 DEF Leads
<1>6. m - 1 \in 1 .. Len(p) - 1 /\ m - 1 \in 1 .. Len(q) - 1 /\ m - 1 \in 1 .. Len(p) /\ (m - 1) + 1 = m /\ ~(m <= m - 1)
  BY <1>1, <1>4, <1>5
<1>7. m - 1 <= Len(q) /\ m - 1 \notin Apart
  <2> HIDE DEF Apart
  <2> QED BY <1>1, <1>3, <1>4, <1>6
<1>8. p[m - 1] = q[m - 1] /\ from[m - 1] = to[m - 1]
  BY <1>6, <1>7
<1>9. /\ Goes(p[m - 1], from[m - 1], m - 1, p[m], from[m])
      /\ Goes(p[m - 1], from[m - 1], m - 1, q[m], to[m])
  BY <1>6, <1>8 DEF Leads
<1>10. p[m] = q[m] /\ from[m] = to[m]
  BY <1>9 DEF Goes
<1> QED BY <1>4, <1>10

\* A command that concludes calls no other.
LEMMA EndOfWay ==
  ASSUME NEW p \in Seq(Commands), p # <<>>, NEW from \in Cuts(p), Leads(p, from),
         NEW q \in Seq(Commands), q # <<>>, NEW to \in Cuts(q), Leads(q, to),
         NEW msg, NEW end, Concludes(p, from, msg, end), Free(p[Len(p)])
  PROVE  Len(q) <= Len(p)
<1>1. SUFFICES ASSUME Len(p) < Len(q) PROVE FALSE
  BY LenProperties
<1> DEFINE n == Len(p)
<1>2. n \in 1 .. Len(p) /\ n \in 1 .. Len(q) - 1 /\ n <= Len(q)
  BY <1>1, EmptySeq, LenProperties
<1> HIDE DEF n
<1>3. p[n] = q[n] /\ from[n] = to[n]
  BY <1>2, OneWay
<1>4. Goes(p[n], from[n], n, q[n + 1], to[n + 1]) /\ Free(p[n])
  BY <1>2, <1>3 DEF Leads, n
<1> QED BY <1>4 DEF Concludes, Goes, n

\* Two Runs that conclude have gone the same way.
LEMMA SameWay ==
  ASSUME NEW p \in Seq(Commands), p # <<>>, NEW from \in Cuts(p), Leads(p, from),
         NEW q \in Seq(Commands), q # <<>>, NEW to \in Cuts(q), Leads(q, to),
         NEW pmsg, NEW pend, Concludes(p, from, pmsg, pend),
         NEW qmsg, NEW qend, Concludes(q, to, qmsg, qend),
         \A i \in 1 .. Len(p) : Free(p[i])
  PROVE  p = q /\ from[Len(p)] = to[Len(p)] /\ pmsg = qmsg
<1>1. Len(p) \in Nat \ {0} /\ Len(q) \in Nat \ {0}
  BY EmptySeq, LenProperties
<1>2. Len(q) <= Len(p)
  <2>1. Free(p[Len(p)])
    BY <1>1
  <2> QED BY <2>1, EndOfWay
<1>3. Len(p) <= Len(q)
  <2>1. Len(q) \in 1 .. Len(p) /\ Len(q) <= Len(q)
    BY <1>1, <1>2
  <2>2. p[Len(q)] = q[Len(q)]
    BY <2>1, OneWay
  <2> QED BY <2>1, <2>2, EndOfWay
<1>4. Len(p) = Len(q) /\ Len(p) \in 1 .. Len(p)
  BY <1>1, <1>2, <1>3
<1>5. \A i \in 1 .. Len(p) : p[i] = q[i] /\ from[i] = to[i]
  BY <1>4, OneWay
<1>6. p = q
  BY <1>4, <1>5, SeqEqual
<1>7. from[Len(p)] = to[Len(p)]
  BY <1>4, <1>5
<1>8. Free(p[Len(p)])
  BY <1>4
<1> QED BY <1>6, <1>7, <1>8 DEF Concludes

\* An initializer leaves the ErrorHandling of its command settled and touches no
\* other, settled or not.
LEMMA InitializedAgain ==
  ASSUME handlings \in [Commands -> Seq(Policies)], NEW c \in Commands, handlings[c] # <<>>,
         sets[c] \in [before : Policies \cup {Unset}, after : Policies \cup {Unset}],
         handlings' = Initialized(handlings, c, sets[c]), sets' = sets
  PROVE  /\ Settled(c)'
         /\ \A d \in Commands : Settled(d) => Settled(d)' /\ Handling(d)' = Handling(d)
<1> DEFINE a == sets[c].after
           b == sets[c].before
           new == Or(a, Or(b, handlings[c][1]))
<1>1. handlings[c] \in Seq(Policies) /\ Len(handlings[c]) \in Nat /\ 1 \in 1 .. Len(handlings[c]) /\ handlings[c][1] \in Policies
  BY FirstPolicy
<1>2. Or(a, Or(b, new)) = new
  BY DEF Or
<1>3. new \in Policies
  BY <1>1 DEF Or
<1> HIDE DEF new
<1>4. \A d \in Commands : handlings'[d] =
         IF d = c THEN [handlings[c] EXCEPT ![1] = new]
         ELSE IF d \in ToSet(Subs[c]) THEN Append(handlings[d], Or(b, handlings[c][1]))
         ELSE handlings[d]
  BY DEF Initialized, new
<1>5. handlings'[c] # <<>> /\ handlings'[c][1] = new
  <2>1. /\ [handlings[c] EXCEPT ![1] = new] \in Seq(Policies)
        /\ Len([handlings[c] EXCEPT ![1] = new]) = Len(handlings[c])
        /\ [handlings[c] EXCEPT ![1] = new][1] = new
    BY <1>1, <1>3, ExceptSeq
  <2> QED BY <1>1, <1>4, <2>1, EmptySeq
<1>6. Settled(c)'
  BY <1>2, <1>5 DEF Settled
<1>7. ASSUME NEW d \in Commands \ {c}, Settled(d) PROVE handlings'[d] # <<>> /\ handlings'[d][1] = handlings[d][1]
  <2>1. handlings[d] \in Seq(Policies) /\ handlings[d] # <<>>
    BY <1>7 DEF Settled
  <2>2. 1 \in 1 .. Len(handlings[d]) /\ Len(handlings[d]) \in Nat
    BY <2>1, FirstPolicy
  <2>3. Or(b, handlings[c][1]) \in Policies
    BY <1>1 DEF Or
  <2>4. /\ Append(handlings[d], Or(b, handlings[c][1])) # <<>>
        /\ Append(handlings[d], Or(b, handlings[c][1]))[1] = handlings[d][1]
    BY <2>1, <2>2, <2>3, AppendProperties
  <2> QED BY <1>4, <2>1, <2>4
<1>8. ASSUME NEW d \in Commands, Settled(d) PROVE Settled(d)' /\ Handling(d)' = Handling(d)
  <2>1. CASE d = c
    <3>1. new = handlings[c][1]
      BY <1>8, <2>1 DEF Settled, new
    <3> QED BY <1>5, <1>6, <2>1, <3>1 DEF Handling
  <2>2. CASE d # c
    <3>1. handlings'[d] # <<>> /\ handlings'[d][1] = handlings[d][1]
      BY <1>7, <1>8, <2>2
    <3> QED BY <1>8, <3>1 DEF Settled, Handling
  <2> QED BY <2>1, <2>2
<1> QED BY <1>6, <1>8

\* What is behind the own arguments of a command: nothing, or the next call.
LEMMA BehindOwn ==
  ASSUME ShapeInv, NEW k \in 1 .. Len(line) + 1, NEW ws, ws = SubSeq(Rest(k), Mine(Cmd, k) + 1, Len(Rest(k)))
  PROVE  /\ ws = <<>> <=> IsWhole(Cmd, k)
         /\ ws # <<>> => /\ ws[1] = Rest(k)[Mine(Cmd, k) + 1]
                         /\ k + Mine(Cmd, k) + 1 \in 1 .. Len(line) + 1
                         /\ Tail(ws) = Rest(k + Mine(Cmd, k) + 1)
<1> DEFINE r == Rest(k)
           g == Mine(Cmd, k)
<1>1. line \in Seq(Texts) /\ Len(line) \in Nat
  BY LenProperties DEF ShapeInv
<1>2. r = SubSeq(line, k, Len(line))
  BY DEF Rest
<1>3. r \in Seq(Texts) /\ Len(r) = Len(line) + 1 - k
  BY <1>1, <1>2, Suffix
<1>4. g \in 0 .. Len(r)
  BY <1>3, PathLen, OwnArguments DEF Mine
<1>5. IsWhole(Cmd, k) <=> g = Len(r)
  BY DEF IsWhole
<1>6. ws = SubSeq(r, g + 1, Len(r))
  OBVIOUS
<1>7. \A m : Rest(m) = SubSeq(line, m, Len(line))
  BY DEF Rest
<1> HIDE DEF r, g
<1>8. k + g \in 1 .. Len(line) + 1 /\ ws = SubSeq(line, k + g, Len(line)) /\ g + 1 \in 1 .. Len(r) + 1
  <2>1. SubSeq(r, g + 1, Len(r)) = SubSeq(line, k + g, Len(line))
    BY <1>1, <1>2, <1>4, CutSuffix
  <2>2. k + g \in 1 .. Len(line) + 1 /\ g + 1 \in 1 .. Len(r) + 1
    BY <1>1, <1>3, <1>4
  <2> QED BY <1>6, <2>1, <2>2, Zenon
<1>9. ws \in Seq(Texts) /\ Len(ws) = Len(r) - g
  <2>1. ws \in Seq(Texts) /\ Len(ws) = Len(line) + 1 - (k + g)
    BY <1>1, <1>8, Suffix
  <2> QED BY <1>1, <1>3, <1>4, <2>1
<1>10. ws = <<>> <=> g = Len(r)
  <2>1. ws = <<>> <=> Len(ws) = 0
    BY <1>9, EmptySeq
  <2>2. Len(ws) = 0 <=> g = Len(r)
    BY <1>1, <1>3, <1>4, <1>9
  <2> QED BY <2>1, <2>2
<1>11. ASSUME ws # <<>>
       PROVE  ws[1] = r[g + 1] /\ k + g + 1 \in 1 .. Len(line) + 1 /\ Tail(ws) = SubSeq(line, k + g + 1, Len(line))
  <2>1. ws[1] = r[g + 1]
    BY <1>3, <1>6, <1>8, <1>11, NextSuffix
  <2>2. k + g \in 1 .. Len(line) /\ Tail(ws) = SubSeq(line, (k + g) + 1, Len(line))
    BY <1>1, <1>8, <1>11, NextSuffix
  <2>3. (k + g) + 1 \in 1 .. Len(line) + 1
    BY <1>1, <2>2
  <2> QED BY <2>1, <2>2, <2>3
<1> QED BY <1>5, <1>7, <1>10, <1>11 DEF r, g

\* What is said of the line does not change.
LEMMA SameCourse ==
  ASSUME UNCHANGED <<line, environment>>
  PROVE  \A p, from : Cuts(p)' = Cuts(p) /\ (Leads(p, from)' <=> Leads(p, from))
BY DEF Cuts, Leads, Goes, Answer, Free, IsWhole, NextCall, Mine, Rest

LEMMA SameAnswers ==
  ASSUME UNCHANGED <<line, environment>>
  PROVE  \A c, k, level : /\ Answer(c, k, level)' = Answer(c, k, level) /\ (IsWhole(c, k)' <=> IsWhole(c, k))
                          /\ Rest(k)' = Rest(k) /\ Mine(c, k)' = Mine(c, k) /\ (Free(c)' <=> Free(c))
BY DEF Answer, IsWhole, Mine, Rest, Free

LEMMA SameEnd ==
  ASSUME UNCHANGED <<line, environment>>, NEW p, Handling(p[Len(p)])' = Handling(p[Len(p)]), NEW from, NEW msg, NEW end
  PROVE  Concludes(p, from, msg, end)' <=> Concludes(p, from, msg, end)
<1>1. OnError(p[Len(p)], msg)' = OnError(p[Len(p)], msg)
  BY DEF OnError
<1> QED BY <1>1 DEF Concludes, Free, Answer, IsWhole, NextCall, Mine, Rest

\* What the Runs before have answered holds as long as nothing unsettles it.
LEMMA EarlierKept ==
  ASSUME EarlierInv, UNCHANGED <<line, environment, earlier>>,
         \A d \in Commands : Settled(d) => Settled(d)' /\ Handling(d)' = Handling(d)
  PROVE  EarlierInv'
<1>1. ASSUME NEW i \in 1 .. Len(earlier'), NEW e, e = earlier'[i]
      PROVE  /\ e.path \in Seq(Commands) /\ e.path # <<>>
             /\ Settled(e.path[Len(e.path)])'
             /\ \E from \in Cuts(e.path)' : Leads(e.path, from)' /\ Concludes(e.path, from, e.message, e.ending)'
  <2>1. i \in 1 .. Len(earlier) /\ e = earlier[i]
    BY <1>1
  <2>2. PICK from \in Cuts(e.path) : Leads(e.path, from) /\ Concludes(e.path, from, e.message, e.ending)
    BY <2>1 DEF EarlierInv
  <2>3. e.path \in Seq(Commands) /\ e.path # <<>> /\ Settled(e.path[Len(e.path)])
    BY <2>1 DEF EarlierInv
  <2>4. e.path[Len(e.path)] \in Commands
    BY <2>3, EmptySeq, LenProperties, ElementOfSeq
  <2>5. Settled(e.path[Len(e.path)])' /\ Handling(e.path[Len(e.path)])' = Handling(e.path[Len(e.path)])
    BY <2>3, <2>4
  <2>6. from \in Cuts(e.path)' /\ Leads(e.path, from)'
    BY <2>2, SameCourse
  <2>7. Concludes(e.path, from, e.message, e.ending)'
    BY <2>2, <2>5, SameEnd
  <2> QED BY <2>3, <2>5, <2>6, <2>7
<1>2. \E R : earlier' \in Seq(R)
  BY DEF EarlierInv
<1> QED BY <1>1, <1>2 DEF EarlierInv

\* The last command of the path, where its arguments start, and what is known there.
LEMMA Course ==
  ASSUME DispatchInv, AnswerInv, NEW from \in Cuts(path)
  PROVE  /\ line \in Seq(Texts) /\ Len(line) \in Nat /\ Len(path) \in Nat \ {0} /\ Cmd = path[Len(path)]
         /\ from[Len(path)] \in 1 .. Len(line) + 1
         /\ ShapeInv /\ Cmd \in Commands
<1>1. line \in Seq(Texts) /\ Len(line) \in Nat /\ Len(path) \in Nat \ {0} /\ Cmd = path[Len(path)] /\ ShapeInv /\ Cmd \in Commands
  BY PathLen, LenProperties DEF DispatchInv, ShapeInv
<1>2. from \in [1 .. Len(path) -> 1 .. Len(line) + 1] /\ Len(path) \in 1 .. Len(path)
  BY <1>1 DEF Cuts
<1> QED BY <1>1, <1>2

LEMMA RefuseAnswers ==
  ASSUME DispatchInv, AnswerInv, NEW msg, msg # "", Refuse(msg),
         NEW from \in Cuts(path), Leads(path, from), Free(Cmd) => msg = Answer(Cmd, from[Len(path)], Len(path))
  PROVE  AnswerInv'
<1>1. /\ UNCHANGED <<sets, environment, line, found, handlings, path, earlier>>
      /\ message' = msg /\ at' = "over" /\ ending' = OnError(Cmd, msg)
  BY DEF Refuse, given
<1>2. Cmd' = Cmd /\ Cmd = path[Len(path)] /\ \A d : (Settled(d)' <=> Settled(d)) /\ Handling(d)' = Handling(d)
  BY <1>1, Course DEF Cmd, Settled, Handling
<1>3. EarlierInv' /\ Settled(App)' /\ Settled(Cmd)'
  BY <1>1, <1>2, EarlierKept DEF AnswerInv
<1>4. Concludes(path, from, msg, OnError(Cmd, msg))
  BY <1>2 DEF Concludes
<1>5. Concludes(path, from, message, ending)'
  <2>1. PICK p, end : p = path /\ end = OnError(Cmd, msg) /\ p = path' /\ end = ending' /\ msg = message'
    BY <1>1
  <2>2. Concludes(p, from, msg, end)'
    BY <1>1, <1>2, <1>4, <2>1, SameEnd
  <2> QED BY <2>1, <2>2 DEF Concludes, Free, Answer, IsWhole, NextCall, Mine, Rest, OnError, Handling
<1>6. from \in Cuts(path)' /\ Leads(path, from)'
  <2>1. PICK p : p = path /\ p = path'
    BY <1>1
  <2>2. from \in Cuts(p)' /\ Leads(p, from)'
    BY <1>1, <2>1, SameCourse
  <2> QED BY <2>1, <2>2 DEF Cuts, Leads, Goes, Answer, Free, IsWhole, NextCall, Mine, Rest
<1>7. CourseInv'
  BY <1>1, <1>5, <1>6 DEF CourseInv
<1> QED BY <1>3, <1>7 DEF AnswerInv

LEMMA AskVersionAnswers == ASSUME DispatchInv, AnswerInv, AskVersion PROVE AnswerInv'
<1>1. PICK from \in Cuts(path) : Leads(path, from) /\ Len(path) = 1 /\ args = Rest(from[Len(path)])
  BY DEF AskVersion, AnswerInv, CourseInv
<1>2. Answer(Cmd, from[Len(path)], Len(path)) = "version"
  BY <1>1 DEF Answer, AskVersion, Asks
<1> QED BY <1>1, <1>2, RefuseAnswers DEF AskVersion

LEMMA AskHelpAnswers == ASSUME DispatchInv, AnswerInv, AskHelp PROVE AnswerInv'
<1>1. PICK from \in Cuts(path) :
        LET r == Rest(from[Len(path)])
        IN  Leads(path, from) /\ args = r /\ (Len(path) = 1 => ~(r # <<>> /\ r[1] \in Version))
  BY DEF AskHelp, AnswerInv, CourseInv
<1>2. Answer(Cmd, from[Len(path)], Len(path)) = "help"
  BY <1>1 DEF Answer, AskHelp, Asks
<1> QED BY <1>1, <1>2, RefuseAnswers DEF AskHelp

LEMMA WrongAnswers == ASSUME DispatchInv, FreeInv, AnswerInv, Wrong PROVE AnswerInv'
<1>1. PICK from \in Cuts(path) :
        LET r == Rest(from[Len(path)])
        IN  Leads(path, from) /\ args = r /\ (Len(path) = 1 => ~(r # <<>> /\ r[1] \in Version))
  BY DEF Wrong, AnswerInv, CourseInv
<1>2. Free(Cmd) => Answer(Cmd, from[Len(path)], Len(path)) = "wrong"
  <2>1. Free(Cmd) => fromEnv[Cmd] = None
    BY <1>1, Course DEF FreeInv
  <2> QED BY <1>1, <2>1 DEF Answer, Wrong, Accepted, Asks, Own, Mine
<1> QED BY <1>1, <1>2, RefuseAnswers DEF Wrong

LEMMA NoActionAnswers == ASSUME DispatchInv, AnswerInv, NoAction PROVE AnswerInv'
<1>1. PICK from \in Cuts(path) :
        /\ Leads(path, from)
        /\ Free(Cmd) => Answer(Cmd, from[Len(path)], Len(path)) \in {"", "noaction"}
        /\ args = SubSeq(Rest(from[Len(path)]), Mine(Cmd, from[Len(path)]) + 1, Len(Rest(from[Len(path)])))
  BY DEF NoAction, AnswerInv, CourseInv
<1>2. IsWhole(Cmd, from[Len(path)])
  BY <1>1, Course, BehindOwn DEF NoAction
<1>3. Free(Cmd) => Answer(Cmd, from[Len(path)], Len(path)) = "noaction"
  BY <1>1, <1>2 DEF Answer, NoAction
<1> QED BY <1>1, <1>3, RefuseAnswers DEF NoAction

\* A step that stays with its command, before anything was printed.
LEMMA StayAnswers ==
  ASSUME DispatchInv, AnswerInv, UNCHANGED <<sets, environment, line, found, handlings, path, earlier>>,
         NEW from \in Cuts(path), Leads(path, from)
  PROVE  /\ from \in Cuts(path)' /\ Leads(path, from)'
         /\ Cmd' = Cmd /\ EarlierInv' /\ Settled(App)' /\ Settled(Cmd)'
         /\ \A c, k, level : /\ Answer(c, k, level)' = Answer(c, k, level) /\ (IsWhole(c, k)' <=> IsWhole(c, k))
                             /\ Rest(k)' = Rest(k) /\ Mine(c, k)' = Mine(c, k) /\ (Free(c)' <=> Free(c))
<1>1. Cmd' = Cmd /\ \A d : (Settled(d)' <=> Settled(d)) /\ Handling(d)' = Handling(d)
  BY DEF Cmd, Settled, Handling
<1>2. EarlierInv' /\ Settled(App)' /\ Settled(Cmd)'
  BY <1>1, EarlierKept DEF AnswerInv
<1>3. from \in Cuts(path)' /\ Leads(path, from)'
  <2>1. PICK p : p = path /\ p = path'
    OBVIOUS
  <2>2. from \in Cuts(p)' /\ Leads(p, from)'
    BY <2>1, SameCourse
  <2> QED BY <2>1, <2>2 DEF Cuts, Leads, Goes, Answer, Free, IsWhole, NextCall, Mine, Rest
<1> QED BY <1>1, <1>2, <1>3, SameAnswers

LEMMA ParseAppAnswers == ASSUME DispatchInv, AnswerInv, ParseApp PROVE AnswerInv'
<1>1. UNCHANGED <<sets, environment, line, found, handlings, path, args, earlier>> /\ at = "app" /\ at' = "command" /\ ~Asks(Version)
  BY DEF ParseApp, parsing, given
<1>2. PICK from \in Cuts(path) : Leads(path, from) /\ Len(path) = 1 /\ args = Rest(from[Len(path)])
  BY <1>1 DEF AnswerInv, CourseInv
<1>3. CourseInv'
  BY <1>1, <1>2, StayAnswers DEF CourseInv, Asks
<1> QED BY <1>1, <1>2, <1>3, StayAnswers DEF AnswerInv

LEMMA RightAnswers == ASSUME DispatchInv, TypeInv, FreeInv, AnswerInv, Right PROVE AnswerInv'
<1>1. /\ UNCHANGED <<sets, environment, line, found, handlings, path, earlier>> /\ at = "command" /\ at' = "next"
      /\ ~Asks(Help) /\ Accepts(Cmd, fromEnv[Cmd], Own) /\ args' = SubSeq(args, Len(Own) + 1, Len(args))
  BY DEF Right, Accepted, given
<1>2. PICK from \in Cuts(path) :
        LET r == Rest(from[Len(path)])
        IN  Leads(path, from) /\ args = r /\ (Len(path) = 1 => ~(r # <<>> /\ r[1] \in Version))
  BY <1>1 DEF AnswerInv, CourseInv
<1> DEFINE k == from[Len(path)]
<1>3. Len(Own) = Mine(Cmd, k)
  <2>1. args \in Seq(Texts)
    BY <1>2, Course, Suffix DEF Rest
  <2> QED BY <1>2, <2>1, Course, OwnLength DEF Mine
<1>4. args' = SubSeq(Rest(k), Mine(Cmd, k) + 1, Len(Rest(k)))
  BY <1>1, <1>2, <1>3
<1>5. Free(Cmd) => Answer(Cmd, k, Len(path)) \in {"", "noaction"}
  <2>1. Free(Cmd) => fromEnv[Cmd] = None
    BY <1>2, Course DEF FreeInv
  <2> QED BY <1>1, <1>2, <2>1 DEF Answer, Asks, Own, Mine
<1>6. CourseInv'
  BY <1>1, <1>2, <1>4, <1>5, StayAnswers DEF CourseInv
<1> QED BY <1>1, <1>2, <1>6, StayAnswers DEF AnswerInv

LEMMA RunFlowAnswers == ASSUME DispatchInv, AnswerInv, RunFlow PROVE AnswerInv'
<1>1. UNCHANGED <<sets, environment, line, found, handlings, path, args, earlier>> /\ at = "next" /\ at' = "flow" /\ args = <<>> /\ Cmd \in Actions
  BY DEF RunFlow, parsing, given
<1>2. PICK from \in Cuts(path) :
        /\ Leads(path, from)
        /\ Free(Cmd) => Answer(Cmd, from[Len(path)], Len(path)) \in {"", "noaction"}
        /\ args = SubSeq(Rest(from[Len(path)]), Mine(Cmd, from[Len(path)]) + 1, Len(Rest(from[Len(path)])))
  BY <1>1 DEF AnswerInv, CourseInv
<1>3. IsWhole(Cmd, from[Len(path)])
  BY <1>1, <1>2, Course, BehindOwn
<1>4. Free(Cmd) => Answer(Cmd, from[Len(path)], Len(path)) = ""
  BY <1>1, <1>2 DEF Answer
<1>5. CourseInv'
  BY <1>1, <1>2, <1>3, <1>4, StayAnswers DEF CourseInv
<1> QED BY <1>1, <1>2, <1>5, StayAnswers DEF AnswerInv

LEMMA HooksAnswers == ASSUME DispatchInv, AnswerInv, Hooks PROVE AnswerInv'
<1>1. UNCHANGED <<sets, environment, line, found, handlings, path, earlier, at>> /\ at = "flow"
  BY DEF Hooks, parsing, given
<1>2. PICK from \in Cuts(path) :
        Leads(path, from) /\ (Free(Cmd) => Answer(Cmd, from[Len(path)], Len(path)) = "") /\ IsWhole(Cmd, from[Len(path)])
  BY <1>1 DEF AnswerInv, CourseInv
<1>3. CourseInv'
  BY <1>1, <1>2, StayAnswers DEF CourseInv
<1> QED BY <1>1, <1>2, <1>3, StayAnswers DEF AnswerInv

LEMMA ReturnAnswers == ASSUME DispatchInv, AnswerInv, Return PROVE AnswerInv'
<1>1. UNCHANGED <<sets, environment, line, found, handlings, path, earlier, message, phase>> /\ at = "flow" /\ at' = "over" /\ phase = "done" /\ message = ""
  BY DEF Return, parsing, given, flow, DispatchInv, ShapeInv
<1>2. PICK from \in Cuts(path) :
        Leads(path, from) /\ (Free(Cmd) => Answer(Cmd, from[Len(path)], Len(path)) = "") /\ IsWhole(Cmd, from[Len(path)])
  BY <1>1 DEF AnswerInv, CourseInv
<1>3. Concludes(path, from, message, ending)'
  BY <1>1, <1>2, Course, StayAnswers DEF Concludes
<1>4. CourseInv'
  BY <1>1, <1>2, <1>3, StayAnswers DEF CourseInv
<1> QED BY <1>1, <1>2, <1>4, StayAnswers DEF AnswerInv

\* What it takes to call the next command, whether its spec parses or not.
LEMMA CallAnswers ==
  ASSUME DispatchInv, AnswerInv, at = "next", args # <<>>, NEW c, c = Subs[Cmd][Called],
         handlings' = Initialized(handlings, c, sets[c]), UNCHANGED <<sets, environment, line, found, earlier>>
  PROVE  /\ c \in Commands
         /\ EarlierInv' /\ Settled(App)' /\ Settled(c)' /\ Settled(Cmd)
         /\ \A d \in Commands : Settled(d) => Settled(d)' /\ Handling(d)' = Handling(d)
         /\ \E from \in Cuts(path) :
              LET k == from[Len(path)]
              IN  /\ Leads(path, from) /\ (Free(Cmd) => Answer(Cmd, k, Len(path)) = "") /\ ~IsWhole(Cmd, k)
                  /\ c = NextCall(Cmd, k)
                  /\ k + Mine(Cmd, k) + 1 \in 1 .. Len(line) + 1
                  /\ Tail(args) = Rest(k + Mine(Cmd, k) + 1)
<1>1. PICK from \in Cuts(path) :
        /\ Leads(path, from)
        /\ Free(Cmd) => Answer(Cmd, from[Len(path)], Len(path)) \in {"", "noaction"}
        /\ args = SubSeq(Rest(from[Len(path)]), Mine(Cmd, from[Len(path)]) + 1, Len(Rest(from[Len(path)])))
  BY DEF AnswerInv, CourseInv
<1>2. PICK k : k = from[Len(path)]
  OBVIOUS
<1>3. /\ ~IsWhole(Cmd, k) /\ args[1] = Rest(k)[Mine(Cmd, k) + 1]
      /\ k + Mine(Cmd, k) + 1 \in 1 .. Len(line) + 1 /\ Tail(args) = Rest(k + Mine(Cmd, k) + 1)
  BY <1>1, <1>2, Course, BehindOwn
<1>4. Free(Cmd) => Answer(Cmd, k, Len(path)) = ""
  BY <1>1, <1>2, <1>3 DEF Answer
<1>5. c = NextCall(Cmd, k)
  BY <1>3 DEF NextCall, Called
<1>6. c \in ToSet(Subs[Cmd])
  BY CallIsNext
<1>7. c \in Commands /\ App \in Commands
  BY <1>6, Calling, TreeAssumption
<1>8. /\ handlings \in [Commands -> Seq(Policies)] /\ handlings[c] # <<>>
      /\ sets[c] \in [before : Policies \cup {Unset}, after : Policies \cup {Unset}]
  BY <1>6, <1>7, SettingsAssumption DEF DispatchInv, ShapeInv, HandlingsInv
<1>9. Settled(c)' /\ \A d \in Commands : Settled(d) => Settled(d)' /\ Handling(d)' = Handling(d)
  BY <1>7, <1>8, InitializedAgain
<1>10. EarlierInv' /\ Settled(App)' /\ Settled(Cmd)
  BY <1>7, <1>9, EarlierKept DEF AnswerInv
<1> QED BY <1>1, <1>2, <1>3, <1>4, <1>5, <1>7, <1>9, <1>10

LEMMA DescendAnswers == ASSUME DispatchInv, AnswerInv, Descend PROVE AnswerInv'
<1> DEFINE n == Len(path)
<1>1. at = "next" /\ args # <<>> /\ Called # 0
  BY CallIsNext DEF Descend
<1>2. PICK c : c = Subs[Cmd][Called]
  OBVIOUS
<1>3. /\ UNCHANGED <<sets, environment, line, found, earlier>> /\ at' = "command" /\ c \notin Broken
      /\ path' = Append(path, c) /\ args' = Tail(args)
      /\ handlings' = Initialized(handlings, c, sets[c])
  BY <1>1, <1>2 DEF Descend, given
<1>4. c \in Commands /\ EarlierInv' /\ Settled(App)' /\ Settled(c)'
  BY <1>1, <1>2, <1>3, CallAnswers
<1>5. PICK from \in Cuts(path) :
        LET k == from[n]
        IN  /\ Leads(path, from) /\ (Free(Cmd) => Answer(Cmd, k, n) = "") /\ ~IsWhole(Cmd, k)
            /\ c = NextCall(Cmd, k)
            /\ k + Mine(Cmd, k) + 1 \in 1 .. Len(line) + 1
            /\ Tail(args) = Rest(k + Mine(Cmd, k) + 1)
  BY <1>1, <1>2, <1>3, CallAnswers
<1>6. n \in Nat \ {0} /\ Cmd = path[n] /\ path \in Seq(Commands)
  BY PathLen DEF DispatchInv, ShapeInv
<1>7. /\ path' \in Seq(Commands) /\ Len(path') = n + 1 /\ path'[n + 1] = c
      /\ \A i \in 1 .. n : path'[i] = path[i]
  BY <1>3, <1>4, <1>6, AppendProperties
<1>8. Cmd' = c
  <2>1. Cmd' = path'[Len(path')]
    BY DEF Cmd, Last
  <2> QED BY <2>1, <1>7
<1>9. PICK m : m = from[n] + Mine(Cmd, from[n]) + 1
  OBVIOUS
<1>10. PICK ext : ext = [i \in 1 .. n + 1 |-> IF i = n + 1 THEN m ELSE from[i]]
  OBVIOUS
<1>11. /\ \A i \in 1 .. n : ext[i] = from[i] /\ from[i] \in 1 .. Len(line) + 1
       /\ ext[n + 1] = m
  <2>1. from \in [1 .. n -> 1 .. Len(line) + 1]
    BY <1>5 DEF Cuts
  <2>2. n \in Nat /\ n + 1 \in 1 .. n + 1 /\ \A i \in 1 .. n : i \in 1 .. n + 1 /\ i # n + 1
    BY <1>6
  <2> HIDE DEF n
  <2> QED BY <1>10, <2>1, <2>2
<1>12. PICK p : p = path'
  OBVIOUS
<1>13. ext \in Cuts(p) /\ ext \in Cuts(path)'
  <2>1. m \in 1 .. Len(line) + 1
    BY <1>5, <1>9
  <2>2. ext \in [1 .. n + 1 -> 1 .. Len(line) + 1]
    <3>1. \A i \in 1 .. n + 1 : i = n + 1 \/ i \in 1 .. n
      BY <1>6
    <3> HIDE DEF n
    <3> QED BY <1>10, <1>11, <2>1, <3>1
  <2>3. Len(p) = n + 1 /\ Len(path') = n + 1 /\ line' = line
    BY <1>3, <1>7, <1>12
  <2> HIDE DEF n
  <2> QED BY <2>2, <2>3 DEF Cuts
<1>14. Leads(p, ext)
  <2>1. p[1] = App /\ ext[1] = 1
    <3>1. path[1] = App /\ from[1] = 1
      BY <1>5 DEF Leads
    <3>2. 1 \in 1 .. n
      BY <1>6
    <3> QED BY <3>1, <3>2, <1>7, <1>11, <1>12
  <2>2. ASSUME NEW i \in 1 .. n PROVE Goes(p[i], ext[i], i, p[i + 1], ext[i + 1])
    <3>1. CASE i = n
      <4>1. Goes(Cmd, from[n], n, c, m)
        BY <1>3, <1>5, <1>9 DEF Goes
      <4> QED BY <3>1, <4>1, <1>6, <1>7, <1>11, <1>12
    <3>2. CASE i # n
      <4>1. i \in 1 .. n - 1 /\ i + 1 \in 1 .. n
        BY <3>2, <1>6
      <4>2. ext[i] = from[i] /\ ext[i + 1] = from[i + 1] /\ p[i] = path[i] /\ p[i + 1] = path[i + 1]
        BY <4>1, <1>7, <1>11, <1>12
      <4>3. Goes(path[i], from[i], i, path[i + 1], from[i + 1])
        BY <4>1, <1>5 DEF Leads
      <4> QED BY <4>2, <4>3
    <3> QED BY <3>1, <3>2
  <2>3. Len(p) - 1 = n
    BY <1>6, <1>7, <1>12
  <2> QED BY <2>1, <2>2, <2>3 DEF Leads
<1>15. Leads(path, ext)'
  <2>1. Leads(p, ext)'
    BY <1>3, <1>14, SameCourse
  <2> QED BY <2>1, <1>12 DEF Leads, Goes, Answer, Free, IsWhole, NextCall, Mine, Rest
<1>16. args' = Rest(ext[Len(path)])'
  <2>1. args' = Rest(m)
    BY <1>3, <1>5, <1>9
  <2>2. Rest(m)' = Rest(m)
    BY <1>3 DEF Rest
  <2>3. ext[Len(path')] = m /\ line' = line
    BY <1>3, <1>7, <1>11
  <2> QED BY <2>1, <2>3 DEF Rest
<1>17. CourseInv'
  <2>1. Len(path') # 1 /\ at' = "command"
    BY <1>3, <1>6, <1>7
  <2> HIDE DEF n
  <2> QED BY <1>13, <1>15, <1>16, <2>1 DEF CourseInv
<1>18. Settled(Cmd)'
  BY <1>4, <1>8 DEF Settled
<1> QED BY <1>4, <1>17, <1>18 DEF AnswerInv

LEMMA SpecPanicsAnswers == ASSUME DispatchInv, AnswerInv, SpecPanics PROVE AnswerInv'
<1>1. at = "next" /\ args # <<>> /\ message = ""
  BY DEF SpecPanics, DispatchInv, ShapeInv
<1>2. PICK c : c = Subs[Cmd][Called]
  OBVIOUS
<1>3. /\ UNCHANGED <<sets, environment, line, found, path, earlier, message>> /\ at' = "over" /\ ending' = <<"panicked", "spec">>
      /\ c \in Broken /\ handlings' = Initialized(handlings, c, sets[c])
  BY <1>2 DEF SpecPanics, given
<1>4. /\ EarlierInv' /\ Settled(App)' /\ Settled(Cmd)
      /\ \A d \in Commands : Settled(d) => Settled(d)' /\ Handling(d)' = Handling(d)
  BY <1>1, <1>2, <1>3, CallAnswers
<1>5. PICK from \in Cuts(path) :
        LET k == from[Len(path)]
        IN  /\ Leads(path, from) /\ (Free(Cmd) => Answer(Cmd, k, Len(path)) = "") /\ ~IsWhole(Cmd, k)
            /\ c = NextCall(Cmd, k)
  BY <1>1, <1>2, <1>3, CallAnswers
<1>6. Cmd' = Cmd /\ Cmd \in Commands /\ Cmd = path[Len(path)]
  BY <1>3, PathLen DEF Cmd, DispatchInv
<1>7. Settled(Cmd)'
  <2>1. PICK d \in Commands : d = Cmd /\ d = Cmd'
    BY <1>6
  <2>2. Settled(d)'
    BY <1>4, <2>1
  <2> QED BY <2>1, <2>2 DEF Settled
<1>8. PICK p : p = path /\ p = path'
  BY <1>3
<1>9. from \in Cuts(p)' /\ Leads(p, from)'
  BY <1>3, <1>5, <1>8, SameCourse
<1>10. from \in Cuts(path)' /\ Leads(path, from)'
  BY <1>8, <1>9 DEF Cuts, Leads, Goes, Answer, Free, IsWhole, NextCall, Mine, Rest
<1>11. Concludes(p, from, "", <<"panicked", "spec">>)
  BY <1>3, <1>5, <1>6, <1>8 DEF Concludes
<1>12. Concludes(p, from, "", <<"panicked", "spec">>)'
  <2>1. Handling(p[Len(p)])' = Handling(p[Len(p)])
    BY <1>4, <1>6, <1>8
  <2> QED BY <1>3, <1>11, <2>1, SameEnd
<1>13. Concludes(path, from, message, ending)'
  BY <1>1, <1>3, <1>8, <1>12 DEF Concludes, Free, Answer, IsWhole, NextCall, Mine, Rest
<1>14. ~IsWhole(Cmd, from[Len(path)])'
  BY <1>3, <1>5, <1>6, SameAnswers
<1>15. CourseInv'
  BY <1>3, <1>10, <1>13, <1>14 DEF CourseInv
<1> QED BY <1>4, <1>7, <1>15 DEF AnswerInv

\* The way of a Run begins with App and the whole line.
LEMMA FirstOfCourse ==
  ASSUME line \in Seq(Texts)
  PROVE  /\ \E from \in Cuts(<<App>>) : Leads(<<App>>, from) /\ from[1] = 1
         /\ Rest(1) = line /\ Len(<<App>>) = 1
<1>1. Len(<<App>>) = 1 /\ <<App>>[1] = App /\ Len(line) \in Nat
  BY LenProperties
<1>2. PICK from : from = [i \in 1 .. 1 |-> 1]
  OBVIOUS
<1>3. from[1] = 1 /\ from \in [1 .. 1 -> 1 .. Len(line) + 1]
  BY <1>1, <1>2
<1>4. from \in Cuts(<<App>>)
  BY <1>1, <1>3 DEF Cuts
<1>5. Leads(<<App>>, from)
  BY <1>1, <1>3 DEF Leads
<1>6. Rest(1) = line
  BY SubSeqFull DEF Rest
<1> QED BY <1>1, <1>3, <1>4, <1>5, <1>6

LEMMA RunAgainAnswers == ASSUME DispatchInv, AnswerInv, RunAgain PROVE AnswerInv'
<1>1. /\ UNCHANGED <<sets, environment, handlings, line>> /\ at = "over" /\ at' = "app" /\ path' = <<App>> /\ args' = line
  BY DEF RunAgain
<1>2. PICK e : e = [path |-> path, message |-> message, ending |-> ending]
  OBVIOUS
<1>3. earlier' = Append(earlier, e)
  BY <1>2 DEF RunAgain
<1>4. PICK R : earlier \in Seq(R)
  BY DEF AnswerInv, EarlierInv
<1>5. earlier \in Seq(R \cup {e}) /\ e \in R \cup {e}
  BY <1>4, SeqMonotonic
<1>6. /\ earlier' \in Seq(R \cup {e}) /\ Len(earlier') = Len(earlier) + 1 /\ Len(earlier) \in Nat
      /\ \A i \in 1 .. Len(earlier) : earlier'[i] = earlier[i]
      /\ earlier'[Len(earlier) + 1] = e
  BY <1>3, <1>5, AppendProperties, LenProperties
<1>7. \A d : (Settled(d)' <=> Settled(d)) /\ Handling(d)' = Handling(d)
  BY <1>1 DEF Settled, Handling
<1>8. Cmd' = App
  <2>1. Cmd' = path'[Len(path')]
    BY DEF Cmd, Last
  <2>2. Len(<<App>>) = 1 /\ <<App>>[1] = App
    OBVIOUS
  <2> QED BY <1>1, <2>1, <2>2
<1>9. EarlierInv'
  <2>1. ASSUME NEW i \in 1 .. Len(earlier'), NEW x, x = earlier'[i]
        PROVE  /\ x.path \in Seq(Commands) /\ x.path # <<>>
               /\ Settled(x.path[Len(x.path)])'
               /\ \E from \in Cuts(x.path)' : Leads(x.path, from)' /\ Concludes(x.path, from, x.message, x.ending)'
    <3>1. /\ x.path \in Seq(Commands) /\ x.path # <<>> /\ Settled(x.path[Len(x.path)])
          /\ \E from \in Cuts(x.path) : Leads(x.path, from) /\ Concludes(x.path, from, x.message, x.ending)
      <4>1. CASE i \in 1 .. Len(earlier)
        <5>1. x = earlier[i]
          BY <1>6, <2>1, <4>1
        <5> QED BY <4>1, <5>1 DEF AnswerInv, EarlierInv
      <4>2. CASE i \notin 1 .. Len(earlier)
        <5>1. x = e
          BY <1>6, <2>1, <4>2
        <5>2. x.path = path /\ x.message = message /\ x.ending = ending
          BY <1>2, <5>1
        <5>3. path \in Seq(Commands) /\ path # <<>> /\ Cmd = path[Len(path)] /\ Settled(Cmd)
          BY PathLen DEF DispatchInv, ShapeInv, IsPath, AnswerInv
        <5>4. \E from \in Cuts(path) : Leads(path, from) /\ Concludes(path, from, message, ending)
          BY <1>1 DEF AnswerInv, CourseInv
        <5> QED BY <5>2, <5>3, <5>4
      <4> QED BY <4>1, <4>2
    <3>2. PICK from \in Cuts(x.path) : Leads(x.path, from) /\ Concludes(x.path, from, x.message, x.ending)
      BY <3>1
    <3>3. from \in Cuts(x.path)' /\ Leads(x.path, from)'
      BY <1>1, <3>2, SameCourse
    <3>4. Concludes(x.path, from, x.message, x.ending)'
      BY <1>1, <1>7, <3>2, SameEnd
    <3> QED BY <1>7, <3>1, <3>3, <3>4
  <2> QED BY <1>6, <2>1 DEF EarlierInv
<1>10. CourseInv'
  <2>1. line \in Seq(Texts)
    BY DEF DispatchInv, ShapeInv
  <2>2. PICK from \in Cuts(<<App>>) : Leads(<<App>>, from) /\ from[1] = 1
    BY <2>1, FirstOfCourse
  <2>3. Rest(1) = line /\ Len(<<App>>) = 1
    BY <2>1, FirstOfCourse
  <2>4. PICK p : p = <<App>> /\ p = path'
    BY <1>1
  <2>5. from \in Cuts(p)' /\ Leads(p, from)'
    BY <1>1, <2>2, <2>4, SameCourse
  <2>6. from \in Cuts(path)' /\ Leads(path, from)'
    BY <2>4, <2>5 DEF Cuts, Leads, Goes, Answer, Free, IsWhole, NextCall, Mine, Rest
  <2>7. Len(path') = 1 /\ args' = Rest(from[Len(path)])'
    <3>1. Len(path') = 1
      BY <2>3, <2>4
    <3>2. Rest(1)' = Rest(1)
      BY <1>1 DEF Rest
    <3> QED BY <1>1, <2>2, <2>3, <3>1, <3>2 DEF Rest
  <2> QED BY <1>1, <2>6, <2>7 DEF CourseInv
<1> QED BY <1>7, <1>8, <1>9, <1>10 DEF AnswerInv, Settled

LEMMA InitAnswers == ASSUME Init PROVE AnswerInv
<1>1. /\ line \in Seq(Texts) /\ path = <<App>> /\ args = line /\ at = "app" /\ earlier = <<>>
      /\ sets \in Settings /\ App \in Commands
  BY LinesAssumption, TreeAssumption DEF Init
<1> DEFINE h == [c \in Commands |-> IF c = App THEN <<"exit">> ELSE <<>>]
           p == sets[App]
<1>2. Cmd = App
  BY <1>1 DEF Cmd, Last
<1>3. PICK new : new = Or(p.after, Or(p.before, "exit"))
  OBVIOUS
<1>4. Or(p.after, Or(p.before, new)) = new
  BY <1>3 DEF Or
<1>5. handlings[App] = <<new>>
  <2>1. handlings = Initialized(h, App, p)
    BY DEF Init
  <2>2. h[App] = <<"exit">>
    BY <1>1
  <2>3. [<<"exit">> EXCEPT ![1] = Or(p.after, Or(p.before, @))] = <<new>>
    BY <1>3
  <2> HIDE DEF h, p
  <2> QED BY <1>1, <2>1, <2>2, <2>3 DEF Initialized, p
<1>6. Settled(App)
  <2>1. <<new>> # <<>> /\ <<new>>[1] = new
    OBVIOUS
  <2> QED BY <1>4, <1>5, <2>1 DEF Settled
<1>7. EarlierInv
  <2>1. earlier \in Seq({}) /\ Len(earlier) = 0
    BY <1>1
  <2> QED BY <2>1 DEF EarlierInv
<1>8. CourseInv
  <2>1. PICK from \in Cuts(<<App>>) : Leads(<<App>>, from) /\ from[1] = 1
    BY <1>1, FirstOfCourse
  <2>2. Rest(1) = line /\ Len(<<App>>) = 1
    BY <1>1, FirstOfCourse
  <2> QED BY <1>1, <2>1, <2>2 DEF CourseInv
<1> QED BY <1>2, <1>6, <1>7, <1>8 DEF AnswerInv

LEMMA StutterAnswers == ASSUME DispatchInv, AnswerInv, UNCHANGED vars PROVE AnswerInv'
<1>1. UNCHANGED <<sets, environment, found, handlings, line, at, path, args, message, ending, phase, earlier>>
  BY DEF vars, parsing, given, flow
<1>2. PICK from \in Cuts(path) :
        LET n == Len(path)
            k == from[n]
        IN  /\ Leads(path, from)
            /\ at \in {"app", "command"} => args = Rest(k)
            /\ at = "app" => n = 1
            /\ at = "command" /\ n = 1 => ~(Rest(k) # <<>> /\ Rest(k)[1] \in Version)
            /\ at = "next" => /\ Free(Cmd) => Answer(Cmd, k, n) \in {"", "noaction"}
                              /\ args = SubSeq(Rest(k), Mine(Cmd, k) + 1, Len(Rest(k)))
            /\ at = "flow" => (Free(Cmd) => Answer(Cmd, k, n) = "") /\ IsWhole(Cmd, k)
            /\ at = "over" => /\ Concludes(path, from, message, ending)
                              /\ message = "" /\ IsWhole(Cmd, k) => phase = "done"
  BY DEF AnswerInv, CourseInv
<1>3. PICK p, msg, end : p = path /\ msg = message /\ end = ending /\ p = path' /\ msg = message' /\ end = ending'
  BY <1>1
<1>4. at = "over" => Concludes(path, from, message, ending)'
  <2>1. Handling(p[Len(p)])' = Handling(p[Len(p)])
    BY <1>1 DEF Handling
  <2>2. at = "over" => Concludes(p, from, msg, end)'
    BY <1>1, <1>2, <1>3, <2>1, SameEnd
  <2> QED BY <1>3, <2>2 DEF Concludes, Free, Answer, IsWhole, NextCall, Mine, Rest, OnError, Handling
<1>5. CourseInv'
  BY <1>1, <1>2, <1>4, StayAnswers DEF CourseInv
<1> QED BY <1>1, <1>2, <1>5, StayAnswers DEF AnswerInv

\* The flags of options without values from the environment are down, whatever was
\* declared again or cleared.
LEMMA FreeKept == ASSUME DispatchInv, FreeInv, [Next]_vars PROVE FreeInv'
<1> SUFFICES ASSUME NEW c \in Commands, environment'[c] = {} PROVE fromEnv'[c] = None
  BY DEF FreeInv, Free
<1>1. UNCHANGED environment
  BY DEF Next, Step, Terminated, AskVersion, ParseApp, AskHelp, Wrong, Right, NoAction, RunFlow, Descend, SpecPanics,
         Hooks, Return, RunAgain, Refuse, vars, parsing, given
<1>2. fromEnv[c] = None /\ DOMAIN fromEnv = Commands
  BY <1>1 DEF FreeInv, Free, DispatchInv, FoundInv
<1>3. CASE UNCHANGED fromEnv
  BY <1>2, <1>3
<1>4. CASE Cleared
  <2>1. PICK os : fromEnv' = [fromEnv EXCEPT ![Cmd].last = @ \ os]
    BY <1>4 DEF Cleared
  <2>2. fromEnv'[c] = fromEnv[c] \/ fromEnv'[c] = [None EXCEPT !.last = None.last \ os]
    <3>1. CASE c = Cmd
      <4>1. fromEnv' = [fromEnv EXCEPT ![c].last = @ \ os]
        BY <2>1, <3>1
      <4> QED BY <1>2, <4>1
    <3>2. CASE c # Cmd
      BY <1>2, <2>1, <3>2
    <3> QED BY <3>1, <3>2
  <2>3. [None EXCEPT !.last = None.last \ os] = None
    BY DEF None
  <2> QED BY <1>2, <2>2, <2>3
<1>5. ASSUME NEW d, fromEnv' = Declared(fromEnv, d) PROVE fromEnv'[c] = None
  <2>1. fromEnv'[c] = fromEnv[c] \/ fromEnv'[c] = [last |-> environment[c], before |-> None.last \cup None.before]
    BY <1>2, <1>5 DEF Declared
  <2>2. [last |-> environment[c], before |-> None.last \cup None.before] = None
    BY <1>1 DEF None
  <2> QED BY <1>2, <2>1, <2>2
<1> QED BY <1>3, <1>4, <1>5
        DEF Next, Step, Terminated, AskVersion, ParseApp, AskHelp, Wrong, Right, NoAction, RunFlow, Descend, SpecPanics,
            Hooks, Return, RunAgain, vars

\* A second Run of a line prints the same, and ends in the same way but for what the
\* hooks decide, though initializers have run again (Cli.Run, Cmd.doInit), if no
\* command on the way has options from the environment.
THEOREM SameAnswer == Spec => []SameAnswerAgain
<1>1. DispatchInv /\ AnswerInv => SameAnswerAgain
  <2> SUFFICES ASSUME DispatchInv, AnswerInv, at = "over", \A k \in DOMAIN path : environment[path[k]] = {},
                      NEW i \in DOMAIN earlier
               PROVE  /\ earlier[i].path = path /\ earlier[i].message = message
                      /\ phase # "done" => earlier[i].ending = ending
    BY DEF SameAnswerAgain
  <2>1. i \in 1 .. Len(earlier)
    BY LenProperties DEF AnswerInv, EarlierInv
  <2>2. PICK e : e = earlier[i]
    OBVIOUS
  <2>3. PICK to \in Cuts(e.path) : Leads(e.path, to) /\ Concludes(e.path, to, e.message, e.ending)
    BY <2>1, <2>2 DEF AnswerInv, EarlierInv
  <2>4. PICK from \in Cuts(path) :
          /\ Leads(path, from) /\ Concludes(path, from, message, ending)
          /\ message = "" /\ IsWhole(Cmd, from[Len(path)]) => phase = "done"
    BY DEF AnswerInv, CourseInv
  <2>5. path \in Seq(Commands) /\ path # <<>> /\ Cmd = path[Len(path)]
    BY PathLen DEF DispatchInv, ShapeInv, IsPath
  <2>6. e.path \in Seq(Commands) /\ e.path # <<>>
    BY <2>1, <2>2 DEF AnswerInv, EarlierInv
  <2>7. /\ path = e.path /\ message = e.message
        /\ message # "" \/ ~IsWhole(path[Len(path)], from[Len(path)]) => ending = e.ending
    <3>1. PICK p, q, pmsg, pend, qmsg, qend :
            p = path /\ q = e.path /\ pmsg = message /\ pend = ending /\ qmsg = e.message /\ qend = e.ending
      OBVIOUS
    <3>2. /\ p \in Seq(Commands) /\ p # <<>> /\ from \in Cuts(p) /\ Leads(p, from) /\ Concludes(p, from, pmsg, pend)
          /\ q \in Seq(Commands) /\ q # <<>> /\ to \in Cuts(q) /\ Leads(q, to) /\ Concludes(q, to, qmsg, qend)
      BY <2>3, <2>4, <2>5, <2>6, <3>1
    <3>3. (\A k \in 1 .. Len(p) : Free(p[k])) /\ Len(p) \in 1 .. Len(p)
      BY <3>1, <3>2, EmptySeq, LenProperties DEF Free
    <3>4. p = q /\ from[Len(p)] = to[Len(p)] /\ pmsg = qmsg
      BY <3>2, <3>3, SameWay
    <3>5. pmsg # "" \/ ~IsWhole(p[Len(p)], from[Len(p)]) => pend = qend
      BY <3>2, <3>3, <3>4 DEF Concludes
    <3> QED BY <3>1, <3>4, <3>5
  <2> QED BY <2>2, <2>4, <2>5, <2>7
<1>2. Init => DispatchInv /\ TypeInv /\ FreeInv /\ AnswerInv
  <2>1. Init => FreeInv
    BY DEF Init, FreeInv, Free, None
  <2> QED BY <2>1, InitInv, InitTypes, InitAnswers
<1>3. DispatchInv /\ TypeInv /\ FreeInv /\ AnswerInv /\ [Next]_vars => AnswerInv'
  <2> SUFFICES ASSUME DispatchInv, TypeInv, FreeInv, AnswerInv, [Next]_vars PROVE AnswerInv'
    OBVIOUS
  <2>1. CASE AskVersion BY <2>1, AskVersionAnswers
  <2>2. CASE ParseApp   BY <2>2, ParseAppAnswers
  <2>3. CASE AskHelp    BY <2>3, AskHelpAnswers
  <2>4. CASE Wrong      BY <2>4, WrongAnswers
  <2>5. CASE Right      BY <2>5, RightAnswers
  <2>6. CASE NoAction   BY <2>6, NoActionAnswers
  <2>7. CASE RunFlow    BY <2>7, RunFlowAnswers
  <2>8. CASE Descend    BY <2>8, DescendAnswers
  <2>9. CASE SpecPanics BY <2>9, SpecPanicsAnswers
  <2>10. CASE Hooks     BY <2>10, HooksAnswers
  <2>11. CASE Return    BY <2>11, ReturnAnswers
  <2>12. CASE RunAgain  BY <2>12, RunAgainAnswers
  <2>13. CASE UNCHANGED vars BY <2>13, StutterAnswers
  <2> QED BY <2>1, <2>2, <2>3, <2>4, <2>5, <2>6, <2>7, <2>8, <2>9, <2>10, <2>11, <2>12, <2>13
             DEF Next, Step, Terminated
<1>4. DispatchInv /\ TypeInv /\ [Next]_vars => TypeInv'
  BY StepTypes
<1>5. DispatchInv /\ FreeInv /\ [Next]_vars => FreeInv'
  BY FreeKept
<1> QED BY Invariance, <1>1, <1>2, <1>3, <1>4, <1>5, PTL DEF Spec
=============================================================================
