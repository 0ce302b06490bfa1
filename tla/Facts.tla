------------------------------- MODULE Facts -------------------------------
(***************************************************************************)
(* Facts about numbers, sequences, recursive functions, and the languages  *)
(* of automata that the proofs of several modules use.                     *)
(***************************************************************************)
EXTENDS Automata, FiniteSetsExt, FiniteSetTheorems, SequenceTheorems, WellFoundedInduction, TLAPS

\* A set of natural numbers has a least element, which Min is.
LEMMA LeastNumber ==
  ASSUME NEW N, N \subseteq Nat, N # {}
  PROVE  Min(N) \in N /\ \A y \in N : Min(N) <= y
<1>1. PICK x \in N : \A y \in N : ~(<<y, x>> \in OpToRel(<, Nat))
  BY NatLessThanWellFounded, WFMin
<1>2. ASSUME NEW y \in N, y < x PROVE FALSE
  <2>1. <<y, x>> \in {p \in Nat \X Nat : p[1] < p[2]}
    BY <1>2
  <2>2. OpToRel(<, Nat) = {p \in Nat \X Nat : p[1] < p[2]}
    BY Zenon DEF OpToRel
  <2> QED BY <2>1, <2>2, <1>1
<1>3. \A y \in N : x <= y
  BY <1>2
<1> QED BY <1>3 DEF Min

\* Induction, of the numbers for which a formula holds.
LEMMA Induction ==
  ASSUME NEW S, S \subseteq Nat, 0 \in S, \A n \in S : n + 1 \in S
  PROVE  \A n \in Nat : n \in S
<1> DEFINE Bad == {n \in Nat : n \notin S}
<1> SUFFICES ASSUME Bad # {} PROVE FALSE
  OBVIOUS
<1>1. Bad \subseteq Nat
  OBVIOUS
<1>2. PICK m \in Bad : \A k \in Bad : m <= k
  <2> HIDE DEF Bad
  <2> QED BY <1>1, LeastNumber
<1>3. m \in Nat /\ m \notin S /\ m # 0
  BY <1>2
<1>4. m - 1 \in Nat /\ ~(m <= m - 1) /\ (m - 1) + 1 = m
  BY <1>3
<1>5. m - 1 \in S
  BY <1>2, <1>4
<1> QED BY <1>3, <1>4, <1>5

\* Nth numbers the members of a finite set of numbers.
LEMMA NthNumbers ==
  ASSUME NEW l \in Nat, NEW S \in SUBSET (1 .. l)
  PROVE  /\ Cardinality(S) \in Nat
         /\ \A k \in 1 .. Cardinality(S) : Nth(S, k) \in S
         /\ \A n \in S : \E k \in 1 .. Cardinality(S) : Nth(S, k) = n
<1> DEFINE Under(n) == {m \in S : m < n}
           C(n)     == Cardinality(Under(n))
           c        == Cardinality(S)
<1>1. IsFiniteSet(S) /\ c \in Nat /\ S \subseteq Nat /\ \A m \in S : 0 < m /\ m < l + 1
  <2>1. IsFiniteSet(1 .. l)
    BY FS_Interval
  <2>2. IsFiniteSet(S)
    BY <2>1, FS_Subset
  <2>3. Cardinality(S) \in Nat
    BY <2>2, FS_CardinalityType
  <2> QED BY <2>2, <2>3
<1>2. \A n \in Nat : IsFiniteSet(Under(n)) /\ C(n) \in Nat
  <2> TAKE n \in Nat
  <2>1. Under(n) \in SUBSET S
    OBVIOUS
  <2> QED BY <1>1, <2>1, FS_Subset, FS_CardinalityType
<1>3. \A n \in Nat : /\ n \in S => C(n + 1) = C(n) + 1
                     /\ n \notin S => C(n + 1) = C(n)
  <2> TAKE n \in Nat
  <2>0. \A m \in S : m < n + 1 <=> m < n \/ m = n
    <3> TAKE m \in S
    <3>1. m \in Int
      BY <1>1
    <3> QED BY <3>1
  <2>1. n \in S => Under(n + 1) = Under(n) \cup {n}
    BY <2>0
  <2>2. n \notin S => Under(n + 1) = Under(n)
    BY <2>0
  <2>3. n \notin Under(n)
    OBVIOUS
  <2> HIDE DEF Under
  <2>4. Cardinality(Under(n) \cup {n}) = Cardinality(Under(n)) + 1
    BY <1>2, <2>3, FS_AddElement
  <2> QED BY <2>1, <2>2, <2>4
<1>4. \A a, b \in Nat : a <= b => C(a) <= C(b)
  <2> TAKE a, b \in Nat
  <2>1. a <= b => Under(a) \in SUBSET Under(b)
    <3>1. \A m \in S : a <= b /\ m < a => m < b
      <4> TAKE m \in S
      <4>1. m \in Int
        BY <1>1
      <4> QED BY <4>1
    <3> QED BY <3>1
  <2>2. a <= b => Cardinality(Under(a)) <= Cardinality(Under(b))
    <3> HIDE DEF Under
    <3> QED BY <1>2, <2>1, FS_Subset
  <2> QED BY <2>2
<1>5. C(0) = 0 /\ C(l + 1) = c
  <2>1. Under(0) = {} /\ Under(l + 1) = S
    <3>1. \A m \in S : ~(m < 0) /\ m < l + 1
      BY <1>1
    <3> QED BY <3>1
  <2> HIDE DEF Under
  <2> QED BY <2>1, FS_EmptySet
<1>6. \A k : Nth(S, k) = CHOOSE n \in S : C(n) = k - 1
  BY DEF Nth
<1> HIDE DEF C, Under
<1>7. \A a, b \in S : C(a) = C(b) => a = b
  <2> SUFFICES ASSUME NEW a \in S, NEW b \in S, C(a) = C(b), a < b PROVE FALSE
    BY <1>1
  <2>1. a \in Nat /\ b \in Nat /\ a + 1 \in Nat /\ a + 1 <= b
    BY <1>1
  <2>2. C(a + 1) <= C(b) /\ C(a + 1) = C(a) + 1
    BY <1>3, <1>4, <2>1
  <2> QED BY <1>2, <2>1, <2>2
<1>8. ASSUME NEW k \in 1 .. c PROVE Nth(S, k) \in S
  <2> DEFINE A == {n \in Nat : C(n) >= k}
             x == Min(A)
  <2>1. l + 1 \in A
    BY <1>1, <1>5
  <2>2. A \subseteq Nat /\ A # {}
    BY <2>1
  <2> HIDE DEF A
  <2>3. x \in A /\ \A y \in A : x <= y
    BY <2>2, LeastNumber
  <2> HIDE DEF x
  <2>4. x \in Nat /\ C(x) >= k
    BY <2>3 DEF A
  <2>5. x # 0
    BY <1>1, <1>5, <2>4
  <2>6. x - 1 \in Nat /\ x - 1 \notin A /\ (x - 1) + 1 = x
    BY <2>3, <2>4, <2>5
  <2>7. ~(C(x - 1) >= k)
    BY <2>6 DEF A
  <2>8. x - 1 \in S /\ C(x - 1) = k - 1
    <3> DEFINE y == x - 1
    <3>1. y \in Nat /\ C(y) \in Nat /\ C(y + 1) \in Nat /\ C(y + 1) >= k /\ ~(C(y) >= k)
      BY <1>2, <2>4, <2>6, <2>7
    <3> HIDE DEF y
    <3>2. y \in S
      BY <1>3, <3>1
    <3>3. C(y + 1) = C(y) + 1
      BY <1>3, <3>1, <3>2
    <3>4. k \in Int
      BY <1>1
    <3> QED BY <3>1, <3>2, <3>3, <3>4 DEF y
  <2> QED BY <1>6, <2>8
<1>9. ASSUME NEW n \in S PROVE \E k \in 1 .. c : Nth(S, k) = n
  <2>1. n \in Nat /\ n + 1 \in Nat /\ n + 1 <= l + 1
    BY <1>1
  <2>2. C(n) \in Nat /\ C(n + 1) = C(n) + 1 /\ C(n + 1) <= c
    BY <1>2, <1>3, <1>4, <1>5, <2>1
  <2>3. C(n) + 1 \in 1 .. c /\ C(n) = (C(n) + 1) - 1
    BY <1>1, <2>2
  <2>4. Nth(S, C(n) + 1) = n
    BY <1>6, <1>7, <2>3
  <2> QED BY <2>3, <2>4
<1> HIDE DEF c
<1>10. Cardinality(S) = c
  BY DEF c
<1> QED BY <1>1, <1>8, <1>9, <1>10

\* What a slice holds.
LEMMA Members ==
  ASSUME NEW E, NEW ts \in Seq(E)
  PROVE  /\ Len(ts) \in Nat /\ DOMAIN ts = 1 .. Len(ts)
         /\ ToSet(ts) = {ts[n] : n \in 1 .. Len(ts)} /\ ToSet(ts) \subseteq E
BY LenProperties, ElementOfSeq DEF ToSet

\* A slice is one of the elements it holds.
LEMMA SeqOfMembers ==
  ASSUME NEW E, NEW ts \in Seq(E)
  PROVE  ts \in Seq(ToSet(ts))
<1>1. Len(ts) \in Nat /\ ToSet(ts) = {ts[n] : n \in 1 .. Len(ts)}
  BY Members
<1>2. ts \in [1 .. Len(ts) -> ToSet(ts)]
  BY <1>1, LenProperties
<1> QED BY <1>1, <1>2

\* Behind its first element a slice holds all the others.
LEMMA TailHolds ==
  ASSUME NEW E, NEW ts \in Seq(E), ts # <<>>, NEW x \in ToSet(ts), x # ts[1]
  PROVE  x \in ToSet(Tail(ts))
<1>1. /\ Len(ts) \in Nat /\ Tail(ts) \in Seq(E) /\ Len(Tail(ts)) = Len(ts) - 1
      /\ \A i \in 1 .. Len(Tail(ts)) : Tail(ts)[i] = ts[i + 1]
  BY HeadTailProperties, LenProperties
<1>2. PICK i \in 1 .. Len(ts) : ts[i] = x
  BY Members
<1>3. i - 1 \in 1 .. Len(Tail(ts)) /\ (i - 1) + 1 = i
  BY <1>1, <1>2
<1>4. Tail(ts)[i - 1] = x
  BY <1>1, <1>2, <1>3
<1>5. ToSet(Tail(ts)) = {Tail(ts)[k] : k \in 1 .. Len(Tail(ts))}
  BY <1>1, Members
<1> QED BY <1>3, <1>4, <1>5

\* Two slices joined hold what each of them holds.
LEMMA Concatenated ==
  ASSUME NEW E, NEW ts \in Seq(E), NEW more \in Seq(E)
  PROVE  ts \o more \in Seq(E) /\ ToSet(ts \o more) = ToSet(ts) \cup ToSet(more)
<1> DEFINE a == Len(ts)
           c == Len(more)
           s == ts \o more
<1>1. /\ a \in Nat /\ c \in Nat /\ s \in Seq(E) /\ Len(s) = a + c
      /\ \A i \in 1 .. a + c : s[i] = IF i <= a THEN ts[i] ELSE more[i - a]
  BY ConcatProperties, LenProperties
<1>2. /\ ToSet(ts) = {ts[n] : n \in 1 .. a} /\ ToSet(more) = {more[n] : n \in 1 .. c}
      /\ ToSet(s) = {s[n] : n \in 1 .. a + c}
  BY <1>1, Members
<1> HIDE DEF a, c, s
<1>3. ToSet(s) \subseteq ToSet(ts) \cup ToSet(more)
  <2> SUFFICES ASSUME NEW i \in 1 .. a + c PROVE s[i] \in ToSet(ts) \cup ToSet(more)
    BY <1>2
  <2>1. CASE i <= a
    BY <1>1, <1>2, <2>1
  <2>2. CASE ~(i <= a)
    BY <1>1, <1>2, <2>2
  <2> QED BY <2>1, <2>2
<1>4. ToSet(ts) \subseteq ToSet(s)
  <2> SUFFICES ASSUME NEW i \in 1 .. a PROVE ts[i] \in ToSet(s)
    BY <1>2
  <2>1. i \in 1 .. a + c /\ i <= a
    BY <1>1
  <2> QED BY <1>1, <1>2, <2>1
<1>5. ToSet(more) \subseteq ToSet(s)
  <2> SUFFICES ASSUME NEW i \in 1 .. c PROVE more[i] \in ToSet(s)
    BY <1>2
  <2>1. i + a \in 1 .. a + c /\ ~(i + a <= a) /\ i + a - a = i
    BY <1>1
  <2>2. s[i + a] = more[i]
    BY <1>1, <2>1
  <2> QED BY <1>2, <2>1, <2>2
<1> QED BY <1>1, <1>3, <1>4, <1>5 DEF s

\* A slice turned round holds the same.
LEMMA ReversedSame ==
  ASSUME NEW E, NEW ts \in Seq(E)
  PROVE  Reverse(ts) \in Seq(E) /\ ToSet(Reverse(ts)) = ToSet(ts)
<1> DEFINE n == Len(ts)
           r == Reverse(ts)
<1>1. n \in Nat /\ ToSet(ts) = {ts[i] : i \in 1 .. n} /\ \A i \in 1 .. n : ts[i] \in E
  BY Members, ElementOfSeq
<1>2. r = [i \in 1 .. n |-> ts[(n - i) + 1]]
  BY DEF Reverse
<1> HIDE DEF n, r
<1>3. \A i \in 1 .. n : (n - i) + 1 \in 1 .. n /\ (n - ((n - i) + 1)) + 1 = i
  BY <1>1
<1>4. r \in [1 .. n -> E]
  BY <1>1, <1>2, <1>3
<1>5. r \in Seq(E) /\ ToSet(r) = {r[i] : i \in 1 .. n}
  <2>1. r \in Seq(E) /\ Len(r) = n
    BY <1>1, <1>4, LenProperties
  <2> QED BY <2>1, Members
<1>6. \A i \in 1 .. n : r[i] = ts[(n - i) + 1] /\ ts[i] = r[(n - i) + 1]
  BY <1>2, <1>3
<1>7. {r[i] : i \in 1 .. n} = {ts[i] : i \in 1 .. n}
  BY <1>3, <1>6
<1> QED BY <1>1, <1>5, <1>7 DEF r

\* The chosen elements are those at the chosen places, each of them.
LEMMA ChosenElements ==
  ASSUME NEW E, NEW s \in Seq(E), NEW I \in SUBSET DOMAIN s
  PROVE  /\ Chosen(s, I) \in Seq(E) /\ Len(Chosen(s, I)) = Cardinality(I)
         /\ ToSet(Chosen(s, I)) = {s[i] : i \in I}
<1> DEFINE c == Cardinality(I)
           r == Chosen(s, I)
<1>1. Len(s) \in Nat /\ DOMAIN s = 1 .. Len(s) /\ \A i \in DOMAIN s : s[i] \in E
  BY LenProperties, ElementOfSeq
<1>2. /\ c \in Nat
      /\ \A k \in 1 .. c : Nth(I, k) \in I
      /\ \A n \in I : \E k \in 1 .. c : Nth(I, k) = n
  BY <1>1, NthNumbers
<1>3. r = [k \in 1 .. c |-> s[Nth(I, k)]]
  BY DEF Chosen
<1> HIDE DEF c, r
<1>4. r \in [1 .. c -> E]
  BY <1>1, <1>2, <1>3
<1>5. r \in Seq(E) /\ Len(r) = c /\ DOMAIN r = 1 .. c
  BY <1>2, <1>4, LenProperties
<1>6. ToSet(r) = {r[k] : k \in 1 .. c}
  BY <1>5, Members
<1>7. {r[k] : k \in 1 .. c} = {s[i] : i \in I}
  BY <1>1, <1>2, <1>3
<1> QED BY <1>5, <1>6, <1>7 DEF c, r

(***************************************************************************)
(* Stacks: popping the top frame and replacing it.                         *)
(***************************************************************************)
Popped(s)      == SubSeq(s, 1, Len(s) - 1)
WithTop(s, e) == Append(Popped(s), e)

\* Popping a frame leaves the frames below it where they are.
LEMMA PoppedStack ==
  ASSUME NEW S, NEW s \in Seq(S), s # <<>>
  PROVE  /\ Len(s) \in Nat /\ Len(s) > 0
         /\ s[Len(s)] \in S
         /\ Popped(s) \in Seq(S)
         /\ Len(Popped(s)) = Len(s) - 1
         /\ \A k \in 1 .. Len(s) - 1 : Popped(s)[k] = s[k]
<1>1. Len(s) \in Nat /\ Len(s) > 0 /\ \A k \in 1 .. Len(s) : s[k] \in S
  BY EmptySeq, LenProperties, ElementOfSeq
<1> DEFINE n == Len(s) - 1
           b == SubSeq(s, 1, n)
<1>2. n \in Nat /\ \A k \in 1 .. n : s[k] \in S
  BY <1>1
<1>3. b \in Seq(S) /\ Len(b) = n /\ \A k \in 1 .. n : b[k] = s[k]
  <2> HIDE DEF n
  <2>1. /\ b \in Seq(S)
        /\ Len(b) = IF 1 <= n THEN n - 1 + 1 ELSE 0
        /\ \A k \in 1 .. n - 1 + 1 : b[k] = s[1 + k - 1]
    BY <1>2, SubSeqProperties
  <2>2. ASSUME NEW k \in 1 .. n PROVE b[k] = s[k]
    <3>1. k \in 1 .. n - 1 + 1 /\ 1 + k - 1 = k
      BY <1>2
    <3> QED BY <2>1, <3>1
  <2>3. Len(b) = n
    BY <1>2, <2>1
  <2> QED BY <2>1, <2>2, <2>3
<1>4. Popped(s) = b
  BY DEF Popped
<1> HIDE DEF n, b
<1>5. n = Len(s) - 1 /\ s[Len(s)] \in S
  BY <1>1 DEF n
<1> QED BY <1>1, <1>3, <1>4, <1>5

\* Moving the top frame to another place changes that frame only.
LEMMA WithTopStack ==
  ASSUME NEW S, NEW s \in Seq(S), s # <<>>, NEW e \in S
  PROVE  /\ WithTop(s, e) \in Seq(S)
         /\ WithTop(s, e) # <<>>
         /\ Len(WithTop(s, e)) = Len(s)
         /\ WithTop(s, e)[Len(s)] = e
         /\ \A k \in 1 .. Len(s) - 1 : WithTop(s, e)[k] = s[k]
BY PoppedStack, AppendProperties DEF WithTop

\* A recursive definition over a set D of arguments ranked by numbers: the value at x,
\* G[<<x, h>>] when h gives the others, depends on those at lower ranks alone.
Ranked(D, V, rank, G) ==
  /\ V # {} /\ rank \in [D -> Nat] /\ G \in [D \X [D -> V] -> V]
  /\ \A x \in D : \A h, k \in [D -> V] :
       (\A y \in D : rank[y] < rank[x] => h[y] = k[y]) => G[<<x, h>>] = G[<<x, k>>]

\* A function that satisfies it.  There is one.
Computed(f, D, V, G) == f \in [D -> V] /\ \A x \in D : f[x] = G[<<x, f>>]

LEMMA Recursion ==
  ASSUME NEW D, NEW V, NEW rank, NEW G, Ranked(D, V, rank, G)
  PROVE  \E f : Computed(f, D, V, G)
<1>a. PICK v \in V : TRUE
  BY DEF Ranked
<1>0. /\ rank \in [D -> Nat] /\ G \in [D \X [D -> V] -> V]
      /\ \A x \in D : \A h, k \in [D -> V] :
           (\A y \in D : rank[y] < rank[x] => h[y] = k[y]) => G[<<x, h>>] = G[<<x, k>>]
  BY DEF Ranked
<1> DEFINE Near(n, h) == /\ h \in [D -> V]
                         /\ \A x \in D : rank[x] < n => h[x] = G[<<x, h>>]
           H(n) == CHOOSE h : Near(n, h)
<1> USE <1>0
<1>1. \A n \in Nat : \E h : Near(n, h)
  <2> DEFINE Missing == {n \in Nat : ~\E h : Near(n, h)}
  <2> SUFFICES ASSUME Missing # {} PROVE FALSE
    OBVIOUS
  <2>1. PICK n \in Missing : \A m \in Missing : n <= m
    <3> HIDE DEF Missing
    <3>1. Missing \subseteq Nat
      BY DEF Missing
    <3> QED BY <3>1, LeastNumber
  <2>2. n # 0
    <3>1. Near(0, [x \in D |-> v])
      OBVIOUS
    <3> QED BY <2>1, <3>1
  <2>3. PICK h : Near(n - 1, h)
    <3>1. n - 1 \in Nat /\ ~(n <= n - 1)
      BY <2>1, <2>2
    <3>2. n - 1 \notin Missing
      BY <2>1, <3>1
    <3> QED BY <3>1, <3>2
  <2> DEFINE k == [x \in D |-> G[<<x, h>>]]
  <2>4. k \in [D -> V]
    BY <2>3
  <2>5. \A x \in D : rank[x] < n - 1 => k[x] = h[x]
    BY <2>3
  <2>6. ASSUME NEW x \in D, rank[x] < n PROVE k[x] = G[<<x, k>>]
    <3>1. \A y \in D : rank[y] < rank[x] => rank[y] < n - 1
      BY <2>1, <2>6
    <3>2. \A y \in D : rank[y] < rank[x] => h[y] = k[y]
      BY <2>5, <3>1
    <3>3. G[<<x, h>>] = G[<<x, k>>]
      <4> HIDE DEF k
      <4> QED BY <2>3, <2>4, <3>2
    <3> QED BY <3>3
  <2>7. Near(n, k)
    <3> HIDE DEF k
    <3> QED BY <2>4, <2>6
  <2> QED BY <2>1, <2>7
<1>2. \A n \in Nat : Near(n, H(n))
  BY <1>1
<1> HIDE DEF H
<1>3. ASSUME NEW m \in Nat, NEW n \in Nat, NEW h, NEW k, Near(m, h), Near(n, k)
      PROVE  \A x \in D : rank[x] < m /\ rank[x] < n => h[x] = k[x]
  <2> DEFINE Ranks == {rank[x] : x \in {y \in D : rank[y] < m /\ rank[y] < n /\ h[y] # k[y]}}
  <2> SUFFICES ASSUME NEW z \in D, rank[z] < m, rank[z] < n, h[z] # k[z] PROVE FALSE
    OBVIOUS
  <2>1. Ranks \subseteq Nat /\ Ranks # {}
    OBVIOUS
  <2>2. PICK r \in Ranks : \A q \in Ranks : r <= q
    <3> HIDE DEF Ranks
    <3> QED BY <2>1, LeastNumber
  <2>3. PICK x \in D : rank[x] = r /\ rank[x] < m /\ rank[x] < n /\ h[x] # k[x]
    BY <2>2
  <2>4. ASSUME NEW y \in D, rank[y] < rank[x] PROVE h[y] = k[y]
    <3>1. rank[y] \notin Ranks
      <4> HIDE DEF Ranks
      <4>1. rank[y] \in Nat /\ rank[x] \in Nat
        OBVIOUS
      <4> QED BY <2>2, <2>3, <2>4, <4>1
    <3>2. rank[y] < m /\ rank[y] < n
      <4>1. rank[y] \in Nat /\ rank[x] \in Nat
        OBVIOUS
      <4> QED BY <2>3, <2>4, <4>1
    <3> QED BY <3>1, <3>2
  <2>5. G[<<x, h>>] = G[<<x, k>>]
    BY <1>0, <1>3, <2>4
  <2> QED BY <1>3, <2>3, <2>5
<1> DEFINE f == [x \in D |-> H(rank[x] + 1)[x]]
<1>4. f \in [D -> V]
  <2>1. \A x \in D : H(rank[x] + 1) \in [D -> V]
    BY <1>2
  <2> QED BY <2>1
<1>5. ASSUME NEW x \in D PROVE f[x] = G[<<x, f>>]
  <2>1. rank[x] + 1 \in Nat /\ rank[x] < rank[x] + 1
    OBVIOUS
  <2>2. f[x] = G[<<x, H(rank[x] + 1)>>] /\ H(rank[x] + 1) \in [D -> V]
    BY <1>2, <2>1
  <2>3. ASSUME NEW y \in D, rank[y] < rank[x] PROVE f[y] = H(rank[x] + 1)[y]
    <3>1. /\ rank[y] + 1 \in Nat /\ rank[y] < rank[y] + 1
          /\ rank[y] < rank[x] + 1
      BY <2>3
    <3>2. Near(rank[y] + 1, H(rank[y] + 1)) /\ Near(rank[x] + 1, H(rank[x] + 1))
      BY <1>2, <2>1, <3>1
    <3>3. H(rank[y] + 1)[y] = H(rank[x] + 1)[y]
      <4> HIDE DEF Near
      <4> QED BY <1>3, <2>1, <3>1, <3>2
    <3> QED BY <3>3
  <2> HIDE DEF f
  <2>4. G[<<x, f>>] = G[<<x, H(rank[x] + 1)>>]
    BY <1>4, <2>2, <2>3
  <2> QED BY <2>2, <2>4
<1> QED BY <1>4, <1>5 DEF Computed

\* The values a function leads to from one on, step by step.
LEMMA Iteration ==
  ASSUME NEW V, NEW a \in V, NEW F \in [V -> V]
  PROVE  \E f \in [Nat -> V] : f[0] = a /\ \A n \in Nat : f[n + 1] = F[f[n]]
<1> DEFINE G == [p \in Nat \X [Nat -> V] |-> IF p[1] = 0 THEN a ELSE F[p[2][p[1] - 1]]]
           rank == [n \in Nat |-> n]
<1>1. ASSUME NEW n \in Nat, NEW h \in [Nat -> V]
      PROVE  G[<<n, h>>] = IF n = 0 THEN a ELSE F[h[n - 1]]
  OBVIOUS
<1>2. G \in [Nat \X [Nat -> V] -> V]
  <2>1. ASSUME NEW n \in Nat, NEW h \in [Nat -> V]
        PROVE  (IF n = 0 THEN a ELSE F[h[n - 1]]) \in V
    <3>1. n # 0 => n - 1 \in Nat
      OBVIOUS
    <3> QED BY <3>1
  <2>2. \A p \in Nat \X [Nat -> V] : (IF p[1] = 0 THEN a ELSE F[p[2][p[1] - 1]]) \in V
    BY <2>1
  <2> QED BY <2>2
<1>3. \A n \in Nat : \A h, k \in [Nat -> V] :
        (\A y \in Nat : rank[y] < rank[n] => h[y] = k[y]) => G[<<n, h>>] = G[<<n, k>>]
  <2> SUFFICES ASSUME NEW n \in Nat, NEW h \in [Nat -> V], NEW k \in [Nat -> V],
                      \A y \in Nat : rank[y] < rank[n] => h[y] = k[y]
               PROVE  G[<<n, h>>] = G[<<n, k>>]
    OBVIOUS
  <2>1. n # 0 => n - 1 \in Nat /\ rank[n - 1] < rank[n]
    OBVIOUS
  <2>2. n # 0 => h[n - 1] = k[n - 1]
    BY <2>1
  <2> QED BY <1>1, <2>2
<1>4. rank \in [Nat -> Nat]
  OBVIOUS
<1>5. Ranked(Nat, V, rank, G)
  <2> HIDE DEF G, rank
  <2> QED BY <1>2, <1>3, <1>4 DEF Ranked
<1> HIDE DEF G, rank
<1>6. PICK f \in [Nat -> V] : \A n \in Nat : f[n] = G[<<n, f>>]
  <2>1. \E g : Computed(g, Nat, V, G)
    BY <1>5, Recursion
  <2> QED BY <2>1 DEF Computed
<1>7. f[0] = a
  BY <1>1, <1>6
<1>8. ASSUME NEW n \in Nat PROVE f[n + 1] = F[f[n]]
  <2>1. n + 1 \in Nat /\ n + 1 # 0 /\ (n + 1) - 1 = n
    OBVIOUS
  <2> QED BY <1>1, <1>6, <2>1
<1> QED BY <1>7, <1>8

\* Whatever is computed that way stays in the set.
LEMMA Iterated ==
  ASSUME NEW V, NEW a \in V, NEW F \in [V -> V], NEW h, h[0] = a,
         \A n \in Nat : h[n] \in V => h[n + 1] = F[h[n]]
  PROVE  \A n \in Nat : h[n] \in V /\ h[n + 1] = F[h[n]]
<1> DEFINE S == {n \in Nat : h[n] \in V}
<1>1. S \subseteq Nat /\ 0 \in S /\ \A n \in S : n + 1 \in S
  OBVIOUS
<1>2. \A n \in Nat : n \in S
  <2> HIDE DEF S
  <2> QED BY <1>1, Induction
<1> QED BY <1>2

\* A set that grows within a finite one, each time by what it holds, has stopped
\* growing after as many times as there are members to add.
LEMMA Saturation ==
  ASSUME NEW T, IsFiniteSet(T), NEW F \in [SUBSET T -> SUBSET T],
         \A X \in SUBSET T : X \subseteq F[X],
         NEW f \in [Nat -> SUBSET T], f[0] # {}, \A n \in Nat : f[n + 1] = F[f[n]]
  PROVE  Cardinality(T) \in Nat /\ F[f[Cardinality(T)]] = f[Cardinality(T)]
<1> DEFINE Grown(n) == F[f[n]] = f[n] \/ Cardinality(f[n]) > n
<1>1. Cardinality(T) \in Nat /\ \A X \in SUBSET T : IsFiniteSet(X) /\ Cardinality(X) \in Nat /\ Cardinality(X) <= Cardinality(T)
  BY FS_Subset, FS_CardinalityType
<1>2. ASSUME NEW n \in Nat, ~Grown(n) PROVE FALSE
  <2> DEFINE Bad == {m \in Nat : ~Grown(m)}
  <2>1. Bad \subseteq Nat /\ Bad # {}
    BY <1>2
  <2>2. PICK m \in Bad : \A k \in Bad : m <= k
    <3> HIDE DEF Bad
    <3> QED BY <2>1, LeastNumber
  <2>3. m \in Nat /\ ~Grown(m)
    BY <2>2
  <2>4. m # 0
    <3>1. Cardinality(f[0]) # 0
      BY <1>1, FS_EmptySet
    <3>2. f[0] \in SUBSET T
      OBVIOUS
    <3>3. Cardinality(f[0]) > 0
      BY <1>1, <3>1, <3>2
    <3> QED BY <2>3, <3>3
  <2>5. m - 1 \in Nat /\ ~(m <= m - 1) /\ (m - 1) + 1 = m
    BY <2>3, <2>4
  <2>6. Grown(m - 1)
    BY <2>2, <2>5
  <2>7. f[m] = F[f[m - 1]] /\ f[m - 1] \in SUBSET T /\ f[m] \in SUBSET T
    BY <2>3, <2>5
  <2>8. CASE F[f[m - 1]] = f[m - 1]
    BY <2>3, <2>7, <2>8
  <2>9. CASE F[f[m - 1]] # f[m - 1] /\ Cardinality(f[m - 1]) > m - 1
    <3>1. f[m - 1] \subseteq f[m] /\ f[m] # f[m - 1]
      BY <2>7, <2>9
    <3>2. Cardinality(f[m - 1]) < Cardinality(f[m])
      <4>1. PICK a, b : a = f[m - 1] /\ b = f[m]
        OBVIOUS
      <4>2. IsFiniteSet(b) /\ a \in SUBSET b /\ a # b
        BY <1>1, <2>7, <3>1, <4>1
      <4>3. Cardinality(a) <= Cardinality(b) /\ Cardinality(a) # Cardinality(b)
        BY <4>2, FS_Subset
      <4>4. Cardinality(a) \in Nat /\ Cardinality(b) \in Nat
        BY <1>1, <2>7, <4>1
      <4> QED BY <4>1, <4>3, <4>4
    <3>3. Cardinality(f[m]) \in Nat /\ Cardinality(f[m - 1]) \in Nat
      BY <1>1, <2>7
    <3>4. Cardinality(f[m]) > m
      BY <2>3, <2>9, <3>2, <3>3
    <3> QED BY <2>3, <3>4
  <2> QED BY <2>6, <2>8, <2>9
<1>3. Grown(Cardinality(T)) /\ f[Cardinality(T)] \in SUBSET T
  BY <1>1, <1>2
<1>4. Cardinality(f[Cardinality(T)]) \in Nat /\ Cardinality(f[Cardinality(T)]) <= Cardinality(T)
  BY <1>1, <1>3
<1> QED BY <1>1, <1>3, <1>4

\* The partial sums of a sequence of numbers.
SumsOf(t, ns) ==
  /\ t \in [0 .. Len(ns) -> Nat] /\ t[0] = 0
  /\ \A n \in 1 .. Len(ns) : t[n] = t[n - 1] + ns[n]

LEMMA Sums ==
  ASSUME NEW ns \in Seq(Nat)
  PROVE  \E t : SumsOf(t, ns) /\ Total(ns) = t[Len(ns)]
<1> DEFINE D == 0 .. Len(ns)
           G == [p \in D \X [D -> Nat] |-> IF p[1] = 0 THEN 0 ELSE p[2][p[1] - 1] + ns[p[1]]]
           rank == [n \in D |-> n]
<1>1. Len(ns) \in Nat /\ \A n \in 1 .. Len(ns) : ns[n] \in Nat
  BY LenProperties, ElementOfSeq
<1>2. \A n \in D : n # 0 => n - 1 \in D /\ n - 1 < n /\ n \in 1 .. Len(ns)
  BY <1>1
<1>3. ASSUME NEW n \in D, NEW h \in [D -> Nat]
      PROVE  G[<<n, h>>] = IF n = 0 THEN 0 ELSE h[n - 1] + ns[n]
  OBVIOUS
<1>4. G \in [D \X [D -> Nat] -> Nat]
  <2>1. ASSUME NEW n \in D, NEW h \in [D -> Nat]
        PROVE  (IF n = 0 THEN 0 ELSE h[n - 1] + ns[n]) \in Nat
    <3>1. CASE n # 0
      <4>1. n - 1 \in D /\ n \in 1 .. Len(ns)
        BY <1>2, <3>1
      <4>2. h[n - 1] \in Nat /\ ns[n] \in Nat
        BY <1>1, <4>1
      <4> QED BY <3>1, <4>2
    <3> QED BY <3>1
  <2>2. \A p \in D \X [D -> Nat] : (IF p[1] = 0 THEN 0 ELSE p[2][p[1] - 1] + ns[p[1]]) \in Nat
    BY <2>1
  <2> QED BY <2>2
<1>5. rank \in [D -> Nat] /\ \A n \in D : rank[n] = n
  BY <1>1
<1> HIDE DEF G, rank, D
<1>6. Ranked(D, Nat, rank, G)
  <2>1. ASSUME NEW n \in D, NEW h \in [D -> Nat], NEW k \in [D -> Nat],
               \A m \in D : rank[m] < rank[n] => h[m] = k[m]
        PROVE  G[<<n, h>>] = G[<<n, k>>]
    <3>1. G[<<n, h>>] = (IF n = 0 THEN 0 ELSE h[n - 1] + ns[n]) /\ G[<<n, k>>] = (IF n = 0 THEN 0 ELSE k[n - 1] + ns[n])
      BY <1>3
    <3>2. n # 0 => h[n - 1] = k[n - 1]
      BY <1>2, <1>5, <2>1
    <3> QED BY <3>1, <3>2
  <2> QED BY <1>4, <1>5, <2>1 DEF Ranked
<1>7. PICK t \in [D -> Nat] : \A n \in D : t[n] = G[<<n, t>>]
  <2>1. \E f : Computed(f, D, Nat, G)
    BY <1>6, Recursion
  <2> QED BY <2>1 DEF Computed
<1>8. t = [n \in D |-> IF n = 0 THEN 0 ELSE t[n - 1] + ns[n]]
  BY <1>3, <1>7
<1> DEFINE fix == CHOOSE s : s = [n \in D |-> IF n = 0 THEN 0 ELSE s[n - 1] + ns[n]]
<1>9. fix = [n \in D |-> IF n = 0 THEN 0 ELSE fix[n - 1] + ns[n]]
  BY <1>8, Zenon
<1>10. Total(ns) = fix[Len(ns)]
  BY Zenon DEF Total, D
<1> HIDE DEF fix
<1>11. /\ fix[0] = 0 /\ fix = [n \in D |-> fix[n]]
       /\ \A n \in 1 .. Len(ns) : fix[n] = fix[n - 1] + ns[n]
  BY <1>1, <1>9 DEF D
<1>12. \A n \in Nat : n \in D => fix[n] \in Nat
  <2> DEFINE S == {n \in Nat : n \in D => fix[n] \in Nat}
  <2>1. 0 \in S
    BY <1>11
  <2>2. ASSUME NEW n \in S PROVE n + 1 \in S
    <3>1. ASSUME n + 1 \in D PROVE fix[n + 1] \in Nat
      <4>1. n + 1 \in 1 .. Len(ns) /\ n \in D /\ (n + 1) - 1 = n
        BY <1>1, <3>1 DEF D
      <4>2. fix[n + 1] = fix[n] + ns[n + 1] /\ ns[n + 1] \in Nat
        BY <1>1, <1>11, <4>1
      <4>3. fix[n] \in Nat
        BY <4>1
      <4> QED BY <4>2, <4>3
    <3> QED BY <3>1
  <2>3. S \subseteq Nat /\ \A n \in S : n + 1 \in S
    BY <2>2
  <2> HIDE DEF S
  <2>4. \A n \in Nat : n \in S
    BY <2>1, <2>3, Induction
  <2> QED BY <2>4 DEF S
<1>13. SumsOf(fix, ns)
  <2>1. \A n \in D : fix[n] \in Nat
    BY <1>1, <1>12 DEF D
  <2>2. fix \in [D -> Nat]
    BY <1>11, <2>1
  <2> QED BY <1>11, <2>2 DEF SumsOf, D
<1> QED BY <1>10, <1>13

LEMMA TotalTyped ==
  ASSUME NEW ns \in Seq(Nat)
  PROVE  Total(ns) \in Nat
<1>1. PICK t : SumsOf(t, ns) /\ Total(ns) = t[Len(ns)]
  BY Sums
<1> QED BY <1>1, LenProperties DEF SumsOf

LEMMA TotalOfNone == Total(<<>>) = 0
<1>1. <<>> \in Seq(Nat) /\ Len(<<>>) = 0
  OBVIOUS
<1>2. PICK t : SumsOf(t, <<>>) /\ Total(<<>>) = t[Len(<<>>)]
  BY <1>1, Sums
<1> QED BY <1>1, <1>2 DEF SumsOf

\* Sums of three.
LEMMA Exchanged ==
  ASSUME NEW a \in Nat, NEW b \in Nat, NEW c \in Nat
  PROVE  (a + b) + c = (a + c) + b
OBVIOUS

\* One number less.
LEMMA TotalWithout ==
  ASSUME NEW ns \in Seq(Nat), NEW ms \in Seq(Nat), NEW i \in 1 .. Len(ns), Len(ms) = Len(ns) - 1,
         \A j \in 1 .. i - 1 : ms[j] = ns[j], \A j \in i .. Len(ms) : ms[j] = ns[j + 1]
  PROVE  Total(ns) = Total(ms) + ns[i]
<1>1. Len(ns) \in Nat /\ Len(ms) \in Nat /\ (\A j \in 1 .. Len(ns) : ns[j] \in Nat) /\ (\A j \in 1 .. Len(ms) : ms[j] \in Nat)
  BY LenProperties, ElementOfSeq
<1>2. PICK t : SumsOf(t, ns) /\ Total(ns) = t[Len(ns)]
  BY Sums
<1>3. PICK u : SumsOf(u, ms) /\ Total(ms) = u[Len(ms)]
  BY Sums
<1> DEFINE Holds(n) == n <= Len(ms) => IF n < i THEN t[n] = u[n] ELSE t[n + 1] = u[n] + ns[i]
           S == {n \in Nat : Holds(n)}
<1>4. Holds(0)
  BY <1>1, <1>2, <1>3 DEF SumsOf
<1>5. ASSUME NEW n \in Nat, Holds(n) PROVE Holds(n + 1)
  <2> SUFFICES ASSUME n + 1 <= Len(ms)
               PROVE  IF n + 1 < i THEN t[n + 1] = u[n + 1] ELSE t[(n + 1) + 1] = u[n + 1] + ns[i]
    OBVIOUS
  <2>1. /\ n \in 0 .. Len(ms) /\ n + 1 \in 1 .. Len(ms) /\ n \in 0 .. Len(ns) /\ n + 1 \in 1 .. Len(ns)
        /\ (n + 1) + 1 \in 1 .. Len(ns) /\ (n + 1) - 1 = n /\ ((n + 1) + 1) - 1 = n + 1
    BY <1>1
  <2>2. /\ u[n + 1] = u[n] + ms[n + 1] /\ t[n + 1] = t[n] + ns[n + 1]
        /\ t[(n + 1) + 1] = t[n + 1] + ns[(n + 1) + 1] /\ t[n] \in Nat /\ u[n] \in Nat
    BY <1>2, <1>3, <2>1 DEF SumsOf
  <2>3. CASE n + 1 < i
    <3>1. ms[n + 1] = ns[n + 1]
      BY <1>1, <2>1, <2>3
    <3> QED BY <1>5, <2>1, <2>2, <2>3, <3>1
  <2>4. CASE n + 1 = i
    <3>1. ms[n + 1] = ns[(n + 1) + 1] /\ t[n] = u[n]
      BY <1>1, <1>5, <2>1, <2>4
    <3>2. ~(n + 1 < i) /\ ns[n + 1] = ns[i] /\ ns[(n + 1) + 1] \in Nat /\ ns[i] \in Nat
      <4>1. ns[(n + 1) + 1] \in Nat /\ ns[n + 1] \in Nat
        BY <1>1, <2>1
      <4>2. ~(n + 1 < i)
        BY <2>4
      <4>3. ns[n + 1] = ns[i]
        BY <2>4
      <4> QED BY <4>1, <4>2, <4>3
    <3>3. t[n + 1] = t[n] + ns[i] /\ t[(n + 1) + 1] = t[n + 1] + ns[(n + 1) + 1] /\ u[n + 1] = u[n] + ns[(n + 1) + 1]
      BY <2>2, <3>1, <3>2
    <3>4. (u[n] + ns[i]) + ns[(n + 1) + 1] = (u[n] + ns[(n + 1) + 1]) + ns[i]
      BY <2>2, <3>2, Exchanged
    <3>5. t[(n + 1) + 1] = u[n + 1] + ns[i]
      BY <3>1, <3>3, <3>4
    <3> QED BY <3>2, <3>5
  <2>5. CASE n + 1 > i
    <3>1. ms[n + 1] = ns[(n + 1) + 1] /\ t[n + 1] = u[n] + ns[i]
      BY <1>1, <1>5, <2>1, <2>5
    <3>2. ~(n + 1 < i) /\ ns[(n + 1) + 1] \in Nat /\ ns[i] \in Nat
      BY <1>1, <2>1, <2>5
    <3>3. /\ u[n + 1] = u[n] + ns[(n + 1) + 1]
          /\ t[(n + 1) + 1] = (u[n] + ns[i]) + ns[(n + 1) + 1]
      BY <2>2, <3>1
    <3>4. t[(n + 1) + 1] = u[n + 1] + ns[i]
      <4>1. (u[n] + ns[i]) + ns[(n + 1) + 1] = (u[n] + ns[(n + 1) + 1]) + ns[i]
        BY <2>2, <3>2, Exchanged
      <4> QED BY <3>3, <4>1
    <3> QED BY <3>2, <3>4
  <2> QED BY <2>3, <2>4, <2>5
<1>6. \A n \in Nat : Holds(n)
  <2> HIDE DEF Holds
  <2>1. S \subseteq Nat /\ 0 \in S /\ \A n \in S : n + 1 \in S
    BY <1>4, <1>5
  <2> HIDE DEF S
  <2>2. \A n \in Nat : n \in S
    BY <2>1, Induction
  <2> QED BY <2>2 DEF S
<1>7. CASE Len(ms) >= i
  <2>1. t[Len(ms) + 1] = u[Len(ms)] + ns[i]
    BY <1>1, <1>6, <1>7
  <2> QED BY <1>1, <1>2, <1>3, <2>1
<1>8. CASE Len(ms) < i
  <2>1. i = Len(ns) /\ t[Len(ms)] = u[Len(ms)]
    BY <1>1, <1>6, <1>8
  <2>2. t[Len(ns)] = t[Len(ns) - 1] + ns[Len(ns)]
    BY <1>1, <1>2, <2>1 DEF SumsOf
  <2> QED BY <1>1, <1>2, <1>3, <2>1, <2>2
<1> QED BY <1>1, <1>7, <1>8

\* One number changed.
LEMMA TotalChanged ==
  ASSUME NEW ns \in Seq(Nat), NEW ms \in Seq(Nat), NEW i \in 1 .. Len(ns), Len(ms) = Len(ns),
         \A j \in 1 .. Len(ns) : j # i => ms[j] = ns[j]
  PROVE  Total(ns) + ms[i] = Total(ms) + ns[i]
<1>1. Len(ns) \in Nat /\ \A j \in 1 .. Len(ns) : ns[j] \in Nat /\ ms[j] \in Nat
  BY LenProperties, ElementOfSeq
<1>2. PICK t : SumsOf(t, ns) /\ Total(ns) = t[Len(ns)]
  BY Sums
<1>3. PICK u : SumsOf(u, ms) /\ Total(ms) = u[Len(ms)]
  BY Sums
<1> DEFINE Holds(n) == n <= Len(ns) => IF n < i THEN t[n] = u[n] ELSE t[n] + ms[i] = u[n] + ns[i]
           S == {n \in Nat : Holds(n)}
<1>4. Holds(0)
  BY <1>1, <1>2, <1>3 DEF SumsOf
<1>5. ASSUME NEW n \in Nat, Holds(n) PROVE Holds(n + 1)
  <2> SUFFICES ASSUME n + 1 <= Len(ns)
               PROVE  IF n + 1 < i THEN t[n + 1] = u[n + 1] ELSE t[n + 1] + ms[i] = u[n + 1] + ns[i]
    OBVIOUS
  <2>1. n \in 0 .. Len(ns) /\ n + 1 \in 1 .. Len(ns) /\ (n + 1) - 1 = n
    BY <1>1
  <2>2. u[n + 1] = u[n] + ms[n + 1] /\ t[n + 1] = t[n] + ns[n + 1] /\ t[n] \in Nat /\ u[n] \in Nat
    BY <1>2, <1>3, <2>1 DEF SumsOf
  <2>3. ns[n + 1] \in Nat /\ ms[n + 1] \in Nat /\ ns[i] \in Nat /\ ms[i] \in Nat
    BY <1>1, <2>1
  <2>4. CASE n + 1 < i
    <3>1. ms[n + 1] = ns[n + 1] /\ t[n] = u[n]
      BY <1>5, <2>1, <2>4
    <3> QED BY <2>2, <2>4, <3>1
  <2>5. CASE n + 1 = i
    <3>1. t[n] = u[n]
      BY <1>5, <2>1, <2>5
    <3>2. ~(n + 1 < i) /\ u[n + 1] = u[n] + ms[i] /\ t[n + 1] = u[n] + ns[i]
      BY <2>2, <2>5, <3>1
    <3>3. (u[n] + ns[i]) + ms[i] = (u[n] + ms[i]) + ns[i]
      BY <2>2, <2>3, Exchanged
    <3> QED BY <3>2, <3>3
  <2>6. CASE n + 1 > i
    <3>1. ms[n + 1] = ns[n + 1] /\ t[n] + ms[i] = u[n] + ns[i]
      BY <1>5, <2>1, <2>6
    <3>2. t[n + 1] + ms[i] = u[n + 1] + ns[i]
      <4>1. t[n + 1] = t[n] + ns[n + 1] /\ u[n + 1] = u[n] + ns[n + 1]
        BY <2>2, <3>1
      <4>2. (t[n] + ns[n + 1]) + ms[i] = (t[n] + ms[i]) + ns[n + 1]
        BY <2>2, <2>3, Exchanged
      <4>3. (u[n] + ns[i]) + ns[n + 1] = (u[n] + ns[n + 1]) + ns[i]
        BY <2>2, <2>3, Exchanged
      <4> QED BY <3>1, <4>1, <4>2, <4>3
    <3> QED BY <2>6, <3>2
  <2> QED BY <2>4, <2>5, <2>6
<1>6. \A n \in Nat : Holds(n)
  <2> HIDE DEF Holds
  <2>1. S \subseteq Nat /\ 0 \in S /\ \A n \in S : n + 1 \in S
    BY <1>4, <1>5
  <2> HIDE DEF S
  <2>2. \A n \in Nat : n \in S
    BY <2>1, Induction
  <2> QED BY <2>2 DEF S
<1>7. Holds(Len(ns))
  BY <1>1, <1>6
<1> QED BY <1>1, <1>2, <1>3, <1>7

\* Induction along the ranks.
LEMMA RankInduction ==
  ASSUME NEW D, NEW rank \in [D -> Nat], NEW S,
         \A x \in D : (\A y \in D : rank[y] < rank[x] => y \in S) => x \in S
  PROVE  D \subseteq S
<1> DEFINE Ranks == {rank[x] : x \in {y \in D : y \notin S}}
<1> SUFFICES ASSUME NEW z \in D, z \notin S PROVE FALSE
  OBVIOUS
<1>1. Ranks \subseteq Nat /\ Ranks # {}
  OBVIOUS
<1>2. PICK r \in Ranks : \A q \in Ranks : r <= q
  <2> HIDE DEF Ranks
  <2> QED BY <1>1, LeastNumber
<1>3. PICK x \in D : rank[x] = r /\ x \notin S
  BY <1>2
<1>4. ASSUME NEW y \in D, rank[y] < rank[x] PROVE y \in S
  <2>1. rank[y] \in Nat /\ rank[x] \in Nat
    OBVIOUS
  <2>2. rank[y] \notin Ranks
    <3> HIDE DEF Ranks
    <3> QED BY <1>2, <1>3, <1>4, <2>1
  <2> QED BY <2>2
<1> QED BY <1>3, <1>4

\* The slices of a slice, joined one after the other.
JoinsOf(t, ss) == t[0] = <<>> /\ \A n \in 1 .. Len(ss) : t[n] = t[n - 1] \o ss[n]

\* FlattenSeq joins them all.
LEMMA Flattened ==
  ASSUME NEW E, NEW ss \in Seq(Seq(E)), NEW t, JoinsOf(t, ss)
  PROVE  FlattenSeq(ss) = t[Len(ss)]
<1> DEFINE D == 1 .. Len(ss)
<1>1. Len(ss) \in Nat /\ (\A n \in D : ss[n] \in Seq(E)) /\ t[0] = <<>> /\ \A n \in D : t[n] = t[n - 1] \o ss[n]
  BY LenProperties, ElementOfSeq DEF JoinsOf
<1>2. CASE Len(ss) = 0
  <2>1. ss = <<>>
    BY <1>2, EmptySeq
  <2> QED BY <1>1, <1>2, <2>1 DEF FlattenSeq
<1>3. CASE Len(ss) # 0
  <2>1. \A n \in D : t[n] = IF n = 1 THEN ss[n] ELSE t[n - 1] \o ss[n]
    <3>1. 1 \in D => t[1] = ss[1]
      <4>0. 1 - 1 = 0
        OBVIOUS
      <4>1. 1 \in D => t[1] = <<>> \o ss[1] /\ ss[1] \in Seq(E)
        <5> SUFFICES ASSUME 1 \in D PROVE t[1] = <<>> \o ss[1] /\ ss[1] \in Seq(E)
          OBVIOUS
        <5>1. t[1] = t[1 - 1] \o ss[1] /\ ss[1] \in Seq(E)
          BY <1>1
        <5> QED BY <1>1, <4>0, <5>1, Zenon
      <4> QED BY <4>1, ConcatEmptySeq
    <3> QED BY <1>1, <3>1
  <2> DEFINE f == [n \in D |-> t[n]]
  <2>2. f = [n \in D |-> IF n = 1 THEN ss[n] ELSE f[n - 1] \o ss[n]]
    <3>1. \A n \in D : n # 1 => n - 1 \in D
      BY <1>1
    <3> QED BY <2>1, <3>1
  <2> HIDE DEF f
  <2> DEFINE fix == CHOOSE h : h = [n \in D |-> IF n = 1 THEN ss[n] ELSE h[n - 1] \o ss[n]]
  <2>3. fix = [n \in D |-> IF n = 1 THEN ss[n] ELSE fix[n - 1] \o ss[n]]
    BY <2>2, Zenon
  <2>4. FlattenSeq(ss) = fix[Len(ss)]
    BY <1>3, Zenon DEF FlattenSeq, D
  <2> HIDE DEF fix
  <2>5. \A n \in Nat : n \in D => fix[n] = t[n]
    <3> DEFINE S == {n \in Nat : n \in D => fix[n] = t[n]}
    <3>1. 0 \in S
      BY <1>1
    <3>2. ASSUME NEW n \in S PROVE n + 1 \in S
      <4>1. ASSUME n + 1 \in D PROVE fix[n + 1] = t[n + 1]
        <5>1. (n + 1) - 1 = n /\ n \in Nat /\ (n + 1 # 1 => n \in D)
          BY <1>1, <4>1
        <5>2. n + 1 # 1 => fix[n] = t[n]
          BY <5>1
        <5>3. fix[n + 1] = IF n + 1 = 1 THEN ss[n + 1] ELSE fix[(n + 1) - 1] \o ss[n + 1]
          BY <2>3, <4>1
        <5>4. t[n + 1] = IF n + 1 = 1 THEN ss[n + 1] ELSE t[(n + 1) - 1] \o ss[n + 1]
          BY <2>1, <4>1
        <5>5. PICK m : m = n + 1
          OBVIOUS
        <5> QED BY <5>1, <5>2, <5>3, <5>4, <5>5
      <4> QED BY <4>1
    <3>3. S \subseteq Nat /\ \A n \in S : n + 1 \in S
      BY <3>2
    <3> HIDE DEF S
    <3>4. \A n \in Nat : n \in S
      BY <3>1, <3>3, Induction
    <3> QED BY <3>4 DEF S
  <2>6. Len(ss) \in D
    BY <1>1, <1>3
  <2> QED BY <1>1, <2>4, <2>5, <2>6
<1> QED BY <1>2, <1>3

LEMMA Joins ==
  ASSUME NEW E, NEW ss \in Seq(Seq(E))
  PROVE  \E t \in [0 .. Len(ss) -> Seq(E)] : JoinsOf(t, ss)
<1> DEFINE D == 0 .. Len(ss)
           V == Seq(E)
           G == [p \in D \X [D -> V] |-> IF p[1] = 0 THEN <<>> ELSE p[2][p[1] - 1] \o ss[p[1]]]
           rank == [n \in D |-> n]
<1>1. Len(ss) \in Nat /\ \A n \in 1 .. Len(ss) : ss[n] \in V
  BY LenProperties, ElementOfSeq
<1>2. \A n \in D : n # 0 => n - 1 \in D /\ n - 1 < n /\ n \in 1 .. Len(ss)
  BY <1>1
<1>3. ASSUME NEW n \in D, NEW h \in [D -> V]
      PROVE  G[<<n, h>>] = IF n = 0 THEN <<>> ELSE h[n - 1] \o ss[n]
  OBVIOUS
<1>4. G \in [D \X [D -> V] -> V]
  <2>1. ASSUME NEW n \in D, NEW h \in [D -> V]
        PROVE  (IF n = 0 THEN <<>> ELSE h[n - 1] \o ss[n]) \in V
    <3>1. CASE n # 0
      <4>1. n - 1 \in D /\ n \in 1 .. Len(ss)
        BY <1>2, <3>1
      <4>2. h[n - 1] \in V /\ ss[n] \in V
        BY <1>1, <4>1
      <4> QED BY <3>1, <4>2, ConcatProperties
    <3>2. CASE n = 0
      BY <3>2, EmptySeq
    <3> QED BY <3>1, <3>2
  <2> HIDE DEF V
  <2>2. \A p \in D \X [D -> V] : (IF p[1] = 0 THEN <<>> ELSE p[2][p[1] - 1] \o ss[p[1]]) \in V
    BY <2>1
  <2> QED BY <2>2
<1>5. rank \in [D -> Nat] /\ \A n \in D : rank[n] = n
  BY <1>1
<1>6. V # {}
  BY EmptySeq
<1> HIDE DEF G, rank, D, V
<1>7. Ranked(D, V, rank, G)
  <2>1. ASSUME NEW n \in D, NEW h \in [D -> V], NEW k \in [D -> V],
               \A m \in D : rank[m] < rank[n] => h[m] = k[m]
        PROVE  G[<<n, h>>] = G[<<n, k>>]
    BY <1>2, <1>3, <1>5, <2>1
  <2> QED BY <1>4, <1>5, <1>6, <2>1 DEF Ranked
<1>8. PICK t \in [D -> V] : \A n \in D : t[n] = G[<<n, t>>]
  <2>1. \E f : Computed(f, D, V, G)
    BY <1>7, Recursion
  <2> QED BY <2>1 DEF Computed
<1>9. \A n \in D : t[n] = IF n = 0 THEN <<>> ELSE t[n - 1] \o ss[n]
  BY <1>3, <1>8
<1>10. JoinsOf(t, ss)
  <2>1. 0 \in D /\ \A n \in 1 .. Len(ss) : n \in D /\ n # 0
    BY <1>1 DEF D
  <2>2. t[0] = <<>> /\ \A n \in 1 .. Len(ss) : t[n] = t[n - 1] \o ss[n]
    BY <1>9, <2>1
  <2> QED BY <2>2 DEF JoinsOf
<1> QED BY <1>10 DEF D, V

(***************************************************************************)
(* Recursion where an answer is only known to be good, that is in T, if    *)
(* the answers it is made of are.                                          *)
(***************************************************************************)
Within(D, U, T) == {h \in [D -> U] : \A x \in D : h[x] \in T[x]}

RankedWithin(D, U, T, rank, G) ==
  /\ rank \in [D -> Nat] /\ T \in [D -> (SUBSET U) \ {{}}]
  /\ \A x \in D : \A h \in Within(D, U, T) : G[<<x, h>>] \in T[x]
  /\ \A x \in D : \A h, k \in Within(D, U, T) :
       (\A y \in D : rank[y] < rank[x] => h[y] = k[y]) => G[<<x, h>>] = G[<<x, k>>]

LEMMA RecursionWithin ==
  ASSUME NEW D, NEW U, NEW T, NEW rank, NEW G, RankedWithin(D, U, T, rank, G), U # {}
  PROVE  \E f \in Within(D, U, T) : \A x \in D : f[x] = G[<<x, f>>]
<1> DEFINE W == Within(D, U, T)
           Good(h) == [x \in D |-> IF h[x] \in T[x] THEN h[x] ELSE CHOOSE u : u \in T[x]]
           K == [p \in D \X [D -> U] |-> G[<<p[1], Good(p[2])>>]]
<1>0. /\ rank \in [D -> Nat] /\ \A x \in D : T[x] \subseteq U /\ T[x] # {}
      /\ \A x \in D : \A h \in W : G[<<x, h>>] \in T[x]
      /\ \A x \in D : \A h, k \in W :
           (\A y \in D : rank[y] < rank[x] => h[y] = k[y]) => G[<<x, h>>] = G[<<x, k>>]
  BY DEF RankedWithin
<1>1. ASSUME NEW h \in [D -> U]
      PROVE  Good(h) \in W /\ \A x \in D : (h[x] \in T[x] => Good(h)[x] = h[x])
  <2>1. \A x \in D : Good(h)[x] \in T[x]
    BY <1>0
  <2> QED BY <1>0, <2>1 DEF Within
<1>2. \A x \in D : \A h \in [D -> U] : K[<<x, h>>] = G[<<x, Good(h)>>]
  <2> HIDE DEF Good
  <2> QED OBVIOUS
<1>3. ASSUME NEW h \in [D -> U], NEW k \in [D -> U], NEW y \in D, h[y] = k[y]
      PROVE  Good(h)[y] = Good(k)[y]
  <2>1. Good(h)[y] = IF h[y] \in T[y] THEN h[y] ELSE CHOOSE u : u \in T[y]
    OBVIOUS
  <2>2. Good(k)[y] = IF k[y] \in T[y] THEN k[y] ELSE CHOOSE u : u \in T[y]
    OBVIOUS
  <2> HIDE DEF Good
  <2> QED BY <1>3, <2>1, <2>2, Zenon
<1>4. K \in [D \X [D -> U] -> U]
  <2>1. ASSUME NEW x \in D, NEW h \in [D -> U] PROVE G[<<x, Good(h)>>] \in U
    <3> HIDE DEF Good, W
    <3>1. Good(h) \in W
      BY <1>1
    <3> QED BY <1>0, <3>1
  <2> HIDE DEF Good
  <2> QED BY <2>1
<1> HIDE DEF Good, W, K
<1>5. Ranked(D, U, rank, K)
  <2>1. ASSUME NEW x \in D, NEW h \in [D -> U], NEW k \in [D -> U],
               \A y \in D : rank[y] < rank[x] => h[y] = k[y]
        PROVE  K[<<x, h>>] = K[<<x, k>>]
    <3>1. \A y \in D : rank[y] < rank[x] => Good(h)[y] = Good(k)[y]
      BY <1>3, <2>1
    <3>2. Good(h) \in W /\ Good(k) \in W
      BY <1>1
    <3>3. K[<<x, h>>] = G[<<x, Good(h)>>] /\ K[<<x, k>>] = G[<<x, Good(k)>>]
      BY <1>2
    <3>4. G[<<x, Good(h)>>] = G[<<x, Good(k)>>]
      BY <1>0, <3>1, <3>2
    <3> QED BY <3>3, <3>4
  <2> QED BY <1>0, <1>4, <2>1 DEF Ranked
<1>6. PICK f \in [D -> U] : \A x \in D : f[x] = K[<<x, f>>]
  <2>1. \E f : Computed(f, D, U, K)
    BY <1>5, Recursion
  <2> QED BY <2>1 DEF Computed
<1>7. Good(f) \in W
  BY <1>1
<1>8. \A x \in D : f[x] \in T[x]
  BY <1>0, <1>2, <1>6, <1>7
<1>9. \A x \in D : Good(f)[x] = f[x]
  BY <1>1, <1>8
<1>10. f \in W
  BY <1>8 DEF W, Within
<1>11. Good(f) = f
  <2>1. Good(f) = [x \in D |-> Good(f)[x]]
    BY <1>7 DEF W, Within
  <2>2. f = [x \in D |-> f[x]]
    OBVIOUS
  <2> QED BY <1>9, <2>1, <2>2
<1> QED BY <1>2, <1>6, <1>10, <1>11 DEF W

(***************************************************************************)
(* The language of an automaton g, some of whose transitions are in E.  An *)
(* assignment gives every state some words, shortcuts left out; it is      *)
(* closed if it has those the transitions and terminal marks call for, and *)
(* the language is the least one that is.                                  *)
(***************************************************************************)
IsGraph(g, E) == g.tr \in Seq(Seq(E)) /\ (\A t \in E : t.next \in States(g)) /\ g.terminal \in SUBSET States(g)
LabelsOf(E)   == {t.m : t \in E}

Assignments(g, E) == [States(g) -> SUBSET Seq(LabelsOf(E))]

\* The words of a state one of whose transitions is t, with the words W behind it.
Passing(t, W) == IF IsShortcut(t) THEN W ELSE {<<t.m>> \o w : w \in W}

ClosedIn(A, g) ==
  \A s \in States(g) :
    /\ s \in g.terminal => <<>> \in A[s]
    /\ \A t \in ToSet(g.tr[s]) : Passing(t, A[t.next]) \subseteq A[s]

IsLeast(M, g, E) ==
  /\ M \in Assignments(g, E) /\ ClosedIn(M, g)
  /\ \A A \in Assignments(g, E) : ClosedIn(A, g) => \A s \in States(g) : M[s] \subseteq A[s]

LEMMA GraphIs ==
  ASSUME NEW g, NEW E, IsGraph(g, E)
  PROVE  /\ Len(g.tr) \in Nat /\ g.tr \in [States(g) -> Seq(E)]
         /\ (\A t \in E : t.next \in States(g)) /\ g.terminal \in SUBSET States(g)
<1>1. Len(g.tr) \in Nat /\ g.tr \in [1 .. Len(g.tr) -> Seq(E)]
  BY LenProperties DEF IsGraph
<1> QED BY <1>1 DEF IsGraph, States

LEMMA PassingWords ==
  ASSUME NEW E, NEW t \in E, NEW W \in SUBSET Seq(LabelsOf(E))
  PROVE  Passing(t, W) \in SUBSET Seq(LabelsOf(E))
<1>1. <<t.m>> \in Seq(LabelsOf(E))
  BY DEF LabelsOf
<1>2. \A w \in W : <<t.m>> \o w \in Seq(LabelsOf(E))
  BY <1>1, ConcatProperties
<1> QED BY <1>2 DEF Passing

LEMMA LeastLanguage ==
  ASSUME NEW g, NEW E, IsGraph(g, E)
  PROVE  \E M : IsLeast(M, g, E)
<1> DEFINE L == LabelsOf(E)
           M == [s \in States(g) |-> {w \in Seq(L) : \A A \in Assignments(g, E) : ClosedIn(A, g) => w \in A[s]}]
<1>1. M \in Assignments(g, E)
  BY DEF Assignments
<1>2. ASSUME NEW A \in Assignments(g, E), ClosedIn(A, g), NEW s \in States(g) PROVE M[s] \subseteq A[s]
  BY <1>2
<1>3. ASSUME NEW s \in States(g), NEW t \in ToSet(g.tr[s]) PROVE t \in E /\ t.next \in States(g)
  BY Members, GraphIs
<1>4. ASSUME NEW s \in States(g), s \in g.terminal PROVE <<>> \in M[s]
  BY <1>4, EmptySeq DEF ClosedIn
<1>5. ASSUME NEW s \in States(g), NEW t \in ToSet(g.tr[s]), NEW w \in Passing(t, M[t.next]) PROVE w \in M[s]
  <2>1. t \in E /\ t.next \in States(g)
    BY <1>3
  <2>2. M[t.next] \in SUBSET Seq(L)
    BY <2>1
  <2>3. w \in Seq(L)
    <3> HIDE DEF M
    <3> QED BY <2>1, <2>2, PassingWords
  <2>4. ASSUME NEW A \in Assignments(g, E), ClosedIn(A, g) PROVE w \in A[s]
    <3>1. M[t.next] \subseteq A[t.next]
      BY <1>2, <2>1, <2>4
    <3> HIDE DEF M
    <3>2. Passing(t, M[t.next]) \subseteq Passing(t, A[t.next])
      BY <3>1 DEF Passing
    <3> QED BY <2>4, <3>2 DEF ClosedIn
  <2> QED BY <2>3, <2>4
<1> HIDE DEF M
<1> QED BY <1>1, <1>2, <1>4, <1>5 DEF IsLeast, ClosedIn

\* A set of pairs of states: what ByShortcuts answers.
IsNear(near, g) ==
  /\ near \in SUBSET (States(g) \X States(g))
  /\ \A s \in States(g) : <<s, s>> \in near
  /\ \A r \in near : \A t \in ToSet(g.tr[r[2]]) : IsShortcut(t) => <<r[1], t.next>> \in near
  /\ \A s \in States(g) : \A X \in SUBSET States(g) :
       (s \in X /\ \A q \in X : \A t \in ToSet(g.tr[q]) : IsShortcut(t) => t.next \in X)
         => \A q \in States(g) : <<s, q>> \in near => q \in X

\* ByShortcuts finds all the states shortcuts lead to, and no other: as many rounds
\* as there are states are enough.
LEMMA NearStates ==
  ASSUME NEW g, Len(g.tr) \in Nat,
         \A s \in States(g) : \A t \in ToSet(g.tr[s]) : t.next \in States(g)
  PROVE  IsNear(ByShortcuts(g), g)
<1> DEFINE S     == States(g)
           N     == Len(g.tr)
           edges == Shortcuts(g)
           More(R) == R \cup UNION {{<<r[1], e[2]>> : e \in {d \in edges : d[1] = r[2]}} : r \in R}
           a     == {<<s, s>> : s \in S}
           All   == SUBSET (S \X S)
           F     == [R \in All |-> More(R)]
<1>1. N \in Nat /\ S = 1 .. N /\ IsFiniteSet(S) /\ Cardinality(S) = N
  BY FS_Interval DEF States
<1>2. \A e : e \in edges <=> \E s \in S : \E t \in ToSet(g.tr[s]) : IsShortcut(t) /\ e = <<s, t.next>>
  BY DEF Shortcuts
<1>3. edges \in SUBSET (S \X S)
  BY <1>2
<1> HIDE DEF S, N, edges
<1>4. \A R : \A x : x \in More(R) <=>
        x \in R \/ \E r \in R : \E e \in edges : e[1] = r[2] /\ x = <<r[1], e[2]>>
  OBVIOUS
<1> HIDE DEF More
<1>5. \A R \in All : R \subseteq More(R) /\ More(R) \in All
  <2> SUFFICES ASSUME NEW R \in All, NEW x \in More(R) PROVE x \in S \X S
    BY <1>4
  <2> QED BY <1>3, <1>4
<1>6. F \in [All -> All] /\ \A R \in All : F[R] = More(R)
  <2> HIDE DEF All
  <2> QED BY <1>5
<1>7. a \in All
  OBVIOUS
<1> HIDE DEF F, All, a
<1>8. PICK f \in [Nat -> All] : f[0] = a /\ \A n \in Nat : f[n + 1] = F[f[n]]
  <2>1. \E f \in [Nat -> All] : f[0] = a /\ \A n \in Nat : f[n + 1] = F[f[n]]
    BY <1>6, <1>7, Iteration, SMTT(30)
  <2> QED BY <2>1
<1>9. f = [n \in Nat |-> IF n = 0 THEN a ELSE More(f[n - 1])]
  <2>1. ASSUME NEW n \in Nat PROVE f[n] = IF n = 0 THEN a ELSE More(f[n - 1])
    <3>1. CASE n = 0
      BY <1>8, <3>1
    <3>2. CASE n # 0
      <4>1. n - 1 \in Nat /\ (n - 1) + 1 = n
        BY <3>2
      <4> QED BY <1>6, <1>8, <3>2, <4>1
    <3> QED BY <3>1, <3>2
  <2> QED BY <2>1
<1> DEFINE fix == CHOOSE h : h = [n \in Nat |-> IF n = 0 THEN a ELSE More(h[n - 1])]
<1>10. fix = [n \in Nat |-> IF n = 0 THEN a ELSE More(fix[n - 1])]
  BY <1>9, Zenon
<1>11. ByShortcuts(g) = fix[N]
  BY Zenon DEF ByShortcuts, More, S, N, edges, a
<1> HIDE DEF fix
<1>12. fix[0] = a /\ \A n \in Nat : fix[n + 1] = More(fix[n])
  <2>1. \A n \in Nat : n + 1 \in Nat /\ n + 1 # 0 /\ (n + 1) - 1 = n
    OBVIOUS
  <2> QED BY <1>10, <2>1
\* What holds of the first round, and is kept by a round, holds of all.
<1>13. ASSUME NEW V, a \in V, \A R \in V : More(R) \in V
       PROVE  \A n \in Nat : fix[n] \in V
  <2> DEFINE G == [R \in V |-> More(R)]
  <2>1. G \in [V -> V] /\ \A R \in V : G[R] = More(R)
    BY <1>13
  <2>2. \A n \in Nat : fix[n] \in V => fix[n + 1] = G[fix[n]]
    BY <1>12, <2>1
  <2> HIDE DEF G
  <2> QED BY <1>12, <1>13, <2>1, <2>2, Iterated
<1>14. \A n \in Nat : fix[n] \in All
  BY <1>5, <1>7, <1>13
<1> DEFINE near == fix[N]
\* A state at a time: what it leads to by shortcuts has stopped growing.
<1>15. ASSUME NEW s \in S PROVE \A x \in S : <<s, x>> \in More(near) => <<s, x>> \in near
  <2> DEFINE Row(R) == {x \in S : <<s, x>> \in R}
             Next1(X) == X \cup {x \in S : \E y \in X : <<y, x>> \in edges}
             F1 == [X \in SUBSET S |-> Next1(X)]
             f1 == [n \in Nat |-> Row(fix[n])]
             Rows == SUBSET S
  <2>1. F1 \in [SUBSET S -> SUBSET S] /\ \A X \in SUBSET S : X \subseteq F1[X]
    OBVIOUS
  <2>2. ASSUME NEW R \in All PROVE Row(More(R)) = Next1(Row(R))
    <3>1. ASSUME NEW x \in S PROVE <<s, x>> \in More(R) <=> x \in Next1(Row(R))
      <4>1. <<s, x>> \in More(R) <=>
              <<s, x>> \in R \/ \E r \in R : \E e \in edges : e[1] = r[2] /\ <<s, x>> = <<r[1], e[2]>>
        BY <1>4
      <4>2. (\E r \in R : \E e \in edges : e[1] = r[2] /\ <<s, x>> = <<r[1], e[2]>>)
              => \E y \in Row(R) : <<y, x>> \in edges
        <5> SUFFICES ASSUME NEW r \in R, NEW e \in edges, e[1] = r[2], <<s, x>> = <<r[1], e[2]>>
                     PROVE  \E y \in Row(R) : <<y, x>> \in edges
          OBVIOUS
        <5>1. r \in S \X S /\ e \in S \X S
          BY <1>3 DEF All
        <5>2. r = <<s, r[2]>> /\ e = <<r[2], x>> /\ r[2] \in S
          BY <5>1
        <5> QED BY <5>2
      <4>3. (\E y \in Row(R) : <<y, x>> \in edges)
              => \E r \in R : \E e \in edges : e[1] = r[2] /\ <<s, x>> = <<r[1], e[2]>>
        <5> SUFFICES ASSUME NEW y \in S, <<s, y>> \in R, <<y, x>> \in edges
                     PROVE  \E r \in R : \E e \in edges : e[1] = r[2] /\ <<s, x>> = <<r[1], e[2]>>
          OBVIOUS
        <5> DEFINE r == <<s, y>>
                   e == <<y, x>>
        <5>1. r \in R /\ e \in edges /\ e[1] = r[2] /\ <<s, x>> = <<r[1], e[2]>>
          OBVIOUS
        <5> HIDE DEF r, e
        <5> QED BY <5>1
      <4> QED BY <4>1, <4>2, <4>3
    <3> QED BY <3>1
  <2>3. f1 \in [Nat -> SUBSET S] /\ f1[0] # {}
    <3>1. s \in Row(fix[0])
      BY <1>12 DEF a
    <3> QED BY <3>1
  <2>4. \A n \in Nat : f1[n + 1] = F1[f1[n]]
    <3> TAKE n \in Nat
    <3>1. n + 1 \in Nat /\ Row(fix[n]) \in SUBSET S /\ fix[n] \in All
      BY <1>14
    <3> HIDE DEF Row, Next1
    <3>2. Row(fix[n + 1]) = Next1(Row(fix[n]))
      BY <1>12, <2>2, <3>1
    <3> QED BY <3>1, <3>2
  <2> HIDE DEF F1, f1
  <2>5. F1[f1[N]] = f1[N]
    <3>1. F1[f1[Cardinality(S)]] = f1[Cardinality(S)]
      BY <1>1, <2>1, <2>3, <2>4, Saturation
    <3> QED BY <1>1, <3>1
  <2>6. Row(More(near)) = Row(near)
    <3>1. Row(near) \in SUBSET S /\ near \in All
      BY <1>1, <1>14
    <3>2. Row(More(near)) = Next1(Row(near))
      BY <2>2, <3>1
    <3> HIDE DEF Row, Next1
    <3> QED BY <1>1, <2>5, <3>1, <3>2 DEF f1, F1
  <2> QED BY <2>6
<1>16. near \in SUBSET (S \X S)
  BY <1>1, <1>14 DEF All
<1>17. \A s \in S : <<s, s>> \in near
  <2> DEFINE V == {R \in All : a \subseteq R}
  <2>1. a \in V /\ \A R \in V : More(R) \in V
    BY <1>5, <1>7
  <2>2. near \in V
    <3> HIDE DEF V
    <3> QED BY <1>1, <1>13, <2>1
  <2> QED BY <2>2 DEF a
<1>18. \A r \in near : \A t \in ToSet(g.tr[r[2]]) : IsShortcut(t) => <<r[1], t.next>> \in near
  <2> SUFFICES ASSUME NEW r \in near, NEW t \in ToSet(g.tr[r[2]]), IsShortcut(t)
               PROVE  <<r[1], t.next>> \in near
    OBVIOUS
  <2>1. r[1] \in S /\ r[2] \in S
    BY <1>16
  <2>2. <<r[2], t.next>> \in edges /\ t.next \in S
    BY <1>2, <1>3, <2>1
  <2>3. <<r[1], t.next>> \in More(near)
    <3> DEFINE e == <<r[2], t.next>>
    <3>1. e \in edges /\ e[1] = r[2] /\ e[2] = t.next
      BY <2>2
    <3> HIDE DEF e
    <3>2. <<r[1], e[2]>> \in More(near)
      BY <1>4, <3>1
    <3> QED BY <3>1, <3>2
  <2> QED BY <1>15, <2>1, <2>2, <2>3
<1>19. ASSUME NEW s \in S, NEW X \in SUBSET S, s \in X,
              \A q \in X : \A t \in ToSet(g.tr[q]) : IsShortcut(t) => t.next \in X
       PROVE  \A q \in S : <<s, q>> \in near => q \in X
  <2> DEFINE V == {R \in All : \A q \in S : <<s, q>> \in R => q \in X}
  <2>1. a \in V
    BY <1>7, <1>19 DEF a
  <2>2. ASSUME NEW R \in V PROVE More(R) \in V
    <3>1. More(R) \in All /\ R \in SUBSET (S \X S)
      BY <1>5 DEF All
    <3>2. ASSUME NEW q \in S, <<s, q>> \in More(R), <<s, q>> \notin R PROVE q \in X
      <4>1. PICK r \in R : \E e \in edges : e[1] = r[2] /\ <<s, q>> = <<r[1], e[2]>>
        BY <1>4, <3>2
      <4>2. PICK e \in edges : e[1] = r[2] /\ <<s, q>> = <<r[1], e[2]>>
        BY <4>1
      <4>3. r = <<s, r[2]>> /\ r[2] \in S
        BY <3>1, <4>2
      <4>4. r[2] \in X
        BY <4>3
      <4>5. PICK y \in S : \E t \in ToSet(g.tr[y]) : IsShortcut(t) /\ e = <<y, t.next>>
        BY <1>2
      <4> QED BY <1>19, <4>2, <4>4, <4>5
    <3> QED BY <3>1, <3>2
  <2>3. near \in V
    <3> HIDE DEF V
    <3> QED BY <1>1, <1>13, <2>1, <2>2
  <2> QED BY <2>3
<1> HIDE DEF near
<1>20. ByShortcuts(g) = near
  BY <1>11 DEF near
<1> QED BY <1>16, <1>17, <1>18, <1>19, <1>20 DEF IsNear, S

AreJumps(jumps, St, L) == jumps \in SUBSET (St \X L \X St)

\* The words of R, each with the state it leads to, continued by a jump.
Prolonged(R, jumps) ==
  UNION {{<<Append(x[1], l[2]), l[3]>> : l \in {k \in jumps : k[1] = x[2]}} : x \in R}

Spellings(St, L) == Seq(L) \X St

Continues(x, R, jumps, St, L) ==
  \E w, p, m, q :
    /\ <<w, p>> \in R /\ <<p, m, q>> \in jumps /\ x = <<Append(w, m), q>>
    /\ w \in Seq(L) /\ m \in L /\ p \in St /\ q \in St

LEMMA OnwardIs ==
  ASSUME NEW St, NEW L, NEW R \in SUBSET Spellings(St, L), NEW jumps, AreJumps(jumps, St, L)
  PROVE  /\ \A w, p, m, q : <<w, p>> \in R /\ <<p, m, q>> \in jumps => <<Append(w, m), q>> \in Prolonged(R, jumps)
         /\ \A x \in Prolonged(R, jumps) : Continues(x, R, jumps, St, L)
         /\ Prolonged(R, jumps) \in SUBSET Spellings(St, L)
<1>1. \A x : x \in Prolonged(R, jumps) <=>
        \E y \in R : \E l \in jumps : l[1] = y[2] /\ x = <<Append(y[1], l[2]), l[3]>>
  BY DEF Prolonged
<1>2. ASSUME NEW w, NEW p, NEW m, NEW q, <<w, p>> \in R, <<p, m, q>> \in jumps
      PROVE  <<Append(w, m), q>> \in Prolonged(R, jumps)
  <2> DEFINE y == <<w, p>>
             l == <<p, m, q>>
  <2>1. y \in R /\ l \in jumps /\ l[1] = y[2] /\ y[1] = w /\ l[2] = m /\ l[3] = q
    BY <1>2
  <2> HIDE DEF y, l
  <2>2. <<Append(y[1], l[2]), l[3]>> \in Prolonged(R, jumps)
    BY <1>1, <2>1
  <2> QED BY <2>1, <2>2
<1>3. ASSUME NEW x \in Prolonged(R, jumps) PROVE Continues(x, R, jumps, St, L)
  <2>1. PICK y \in R, l \in jumps : l[1] = y[2] /\ x = <<Append(y[1], l[2]), l[3]>>
    BY <1>1
  <2>2. y = <<y[1], y[2]>> /\ y[1] \in Seq(L) /\ y[2] \in St
    BY DEF Spellings
  <2>3. l = <<l[1], l[2], l[3]>> /\ l[2] \in L /\ l[3] \in St
    BY DEF AreJumps
  <2> QED BY <2>1, <2>2, <2>3 DEF Continues
<1>4. ASSUME NEW x \in Prolonged(R, jumps) PROVE x \in Spellings(St, L)
  <2>1. PICK w, p, m, q : /\ x = <<Append(w, m), q>>
                          /\ w \in Seq(L) /\ m \in L /\ q \in St
    BY <1>3 DEF Continues
  <2>2. Append(w, m) \in Seq(L)
    BY <2>1, AppendProperties
  <2> QED BY <2>1, <2>2 DEF Spellings
<1> QED BY <1>2, <1>3, <1>4

\* A function that gives the words of every length that jumps spell from a state,
\* each with the state it leads to: what Words computes.
ArePaths(f, jumps, s, St, L) ==
  /\ f[0] = {<<<<>>, s>>}
  /\ \A n \in Nat : f[n] \in SUBSET Spellings(St, L) /\ f[n + 1] = Prolonged(f[n], jumps)

LEMMA PathsFrom ==
  ASSUME NEW g, NEW St, NEW L, NEW s \in St, AreJumps(Jumps(g, ByShortcuts(g)), St, L)
  PROVE  \E f : /\ ArePaths(f, Jumps(g, ByShortcuts(g)), s, St, L)
                /\ \A W \in Nat : \A w : w \in Words(g, W, s) <=>
                     \E n \in 0 .. W : \E q \in Finals(g, ByShortcuts(g)) : <<w, q>> \in f[n]
<1> DEFINE jumps == Jumps(g, ByShortcuts(g))
           final == Finals(g, ByShortcuts(g))
           More(R) == Prolonged(R, jumps)
           a   == {<<<<>>, s>>}
           All == SUBSET Spellings(St, L)
           F   == [R \in All |-> More(R)]
<1>1. AreJumps(jumps, St, L)
  OBVIOUS
<1> HIDE DEF jumps, final
<1>2. \A R \in All : More(R) \in All
  BY <1>1, OnwardIs
<1>3. a \in All
  <2>1. <<<<>>, s>> \in Spellings(St, L)
    BY EmptySeq DEF Spellings
  <2> QED BY <2>1
<1> HIDE DEF More, All
<1>4. F \in [All -> All] /\ \A R \in All : F[R] = More(R)
  BY <1>2
<1> HIDE DEF a, F
<1>5. PICK f \in [Nat -> All] : f[0] = a /\ \A n \in Nat : f[n + 1] = F[f[n]]
  <2>1. a \in All /\ F \in [All -> All]
    BY <1>3, <1>4
  <2>2. \E f \in [Nat -> All] : f[0] = a /\ \A n \in Nat : f[n + 1] = F[f[n]]
    BY <2>1, Iteration
  <2> QED BY <2>2
<1>6. f = [n \in Nat |-> IF n = 0 THEN a ELSE More(f[n - 1])]
  <2>1. ASSUME NEW n \in Nat PROVE f[n] = IF n = 0 THEN a ELSE More(f[n - 1])
    <3>1. CASE n = 0
      BY <1>5, <3>1
    <3>2. CASE n # 0
      <4>1. n - 1 \in Nat /\ (n - 1) + 1 = n
        BY <3>2
      <4> QED BY <1>4, <1>5, <3>2, <4>1
    <3> QED BY <3>1, <3>2
  <2> QED BY <2>1
<1> DEFINE fix == CHOOSE h : h = [n \in Nat |-> IF n = 0 THEN a ELSE More(h[n - 1])]
<1>7. fix = [n \in Nat |-> IF n = 0 THEN a ELSE More(fix[n - 1])]
  BY <1>6, Zenon
<1>8. \A W : Words(g, W, s) = UNION {{x[1] : x \in {y \in fix[n] : y[2] \in final}} : n \in 0 .. W}
  BY Zenon DEF Words, More, Prolonged, a, jumps, final
<1> HIDE DEF fix
<1>9. fix[0] = a /\ \A n \in Nat : fix[n + 1] = More(fix[n])
  <2>1. \A n \in Nat : n + 1 \in Nat /\ n + 1 # 0 /\ (n + 1) - 1 = n
    OBVIOUS
  <2> QED BY <1>7, <2>1
<1>10. \A n \in Nat : fix[n] \in All
  <2>1. \A n \in Nat : fix[n] \in All => fix[n + 1] = F[fix[n]]
    BY <1>4, <1>9
  <2> QED BY <1>3, <1>4, <1>9, <2>1, Iterated
<1>11. ArePaths(fix, jumps, s, St, L)
  BY <1>9, <1>10 DEF ArePaths, a, All, More
<1>12. ASSUME NEW W \in Nat, NEW w
       PROVE  w \in Words(g, W, s) <=> \E n \in 0 .. W : \E q \in final : <<w, q>> \in fix[n]
  <2>1. w \in Words(g, W, s) <=> \E n \in 0 .. W : \E y \in fix[n] : y[2] \in final /\ w = y[1]
    BY <1>8
  <2>2. \A n \in 0 .. W : \A y \in fix[n] : y = <<y[1], y[2]>>
    BY <1>10 DEF All, Spellings
  <2> QED BY <2>1, <2>2
<1> QED BY <1>11, <1>12 DEF jumps, final

\* Words have the number of jumps for length.
LEMMA LengthOfPaths ==
  ASSUME NEW St, NEW L, NEW f, NEW jumps, NEW s, ArePaths(f, jumps, s, St, L), AreJumps(jumps, St, L)
  PROVE  \A n \in Nat : \A w, q : <<w, q>> \in f[n] => w \in Seq(L) /\ Len(w) = n
<1> DEFINE Holds(n) == \A w, q : <<w, q>> \in f[n] => w \in Seq(L) /\ Len(w) = n
           S == {n \in Nat : Holds(n)}
<1>1. Holds(0)
  BY EmptySeq DEF ArePaths
<1>2. ASSUME NEW n \in Nat, Holds(n) PROVE Holds(n + 1)
  <2> SUFFICES ASSUME NEW w, NEW q, <<w, q>> \in f[n + 1] PROVE w \in Seq(L) /\ Len(w) = n + 1
    OBVIOUS
  <2>1. f[n] \in SUBSET Spellings(St, L) /\ <<w, q>> \in Prolonged(f[n], jumps)
    BY DEF ArePaths
  <2>a. Continues(<<w, q>>, f[n], jumps, St, L)
    BY <2>1, OnwardIs
  <2>2. PICK u, p, m, r : /\ <<u, p>> \in f[n] /\ <<w, q>> = <<Append(u, m), r>>
                          /\ u \in Seq(L) /\ m \in L
    BY <2>a DEF Continues
  <2>3. w = Append(u, m) /\ Len(u) = n
    BY <1>2, <2>2
  <2> QED BY <2>2, <2>3, AppendProperties
<1>3. \A n \in Nat : Holds(n)
  <2> HIDE DEF Holds
  <2>1. S \subseteq Nat /\ 0 \in S /\ \A n \in S : n + 1 \in S
    BY <1>1, <1>2
  <2> HIDE DEF S
  <2>2. \A n \in Nat : n \in S
    BY <2>1, Induction
  <2> QED BY <2>2 DEF S
<1> QED BY <1>3

\* A jump more in front.
LEMMA JumpBefore ==
  ASSUME NEW St, NEW L, NEW f, NEW h, NEW jumps, NEW s, NEW q, NEW m, ArePaths(f, jumps, s, St, L), ArePaths(h, jumps, q, St, L),
         AreJumps(jumps, St, L), <<s, m, q>> \in jumps
  PROVE  \A n \in Nat : \A w, r : <<w, r>> \in h[n] => <<<<m>> \o w, r>> \in f[n + 1]
<1> DEFINE Holds(n) == \A w, r : <<w, r>> \in h[n] => <<<<m>> \o w, r>> \in f[n + 1]
           S == {n \in Nat : Holds(n)}
<1>1. m \in L /\ <<m>> \in Seq(L)
  BY DEF AreJumps
<1>2. Holds(0)
  <2>1. f[0] = {<<<<>>, s>>} /\ h[0] = {<<<<>>, q>>} /\ f[0] \in SUBSET Spellings(St, L) /\ f[0 + 1] = Prolonged(f[0], jumps)
    <3>1. 0 \in Nat
      OBVIOUS
    <3>2. f[0] = {<<<<>>, s>>} /\ h[0] = {<<<<>>, q>>}
      BY DEF ArePaths
    <3>3. f[0] \in SUBSET Spellings(St, L) /\ f[0 + 1] = Prolonged(f[0], jumps)
      BY <3>1 DEF ArePaths
    <3> QED BY <3>2, <3>3
  <2>2. <<Append(<<>>, m), q>> \in Prolonged(f[0], jumps)
    BY <2>1, OnwardIs
  <2>3. <<m>> \o <<>> = Append(<<>>, m)
    OBVIOUS
  <2> QED BY <2>1, <2>2, <2>3
<1>3. ASSUME NEW n \in Nat, Holds(n) PROVE Holds(n + 1)
  <2> SUFFICES ASSUME NEW w, NEW r, <<w, r>> \in h[n + 1] PROVE <<<<m>> \o w, r>> \in f[(n + 1) + 1]
    OBVIOUS
  <2>1. /\ h[n] \in SUBSET Spellings(St, L) /\ <<w, r>> \in Prolonged(h[n], jumps)
        /\ f[n + 1] \in SUBSET Spellings(St, L) /\ f[(n + 1) + 1] = Prolonged(f[n + 1], jumps)
    BY DEF ArePaths
  <2>a. Continues(<<w, r>>, h[n], jumps, St, L)
    BY <2>1, OnwardIs
  <2>2. PICK u, p, l, z : /\ <<u, p>> \in h[n] /\ <<p, l, z>> \in jumps /\ <<w, r>> = <<Append(u, l), z>>
                          /\ u \in Seq(L) /\ l \in L
    BY <2>a DEF Continues
  <2>3. <<<<m>> \o u, p>> \in f[n + 1]
    BY <1>3, <2>2
  <2>4. <<Append(<<m>> \o u, l), z>> \in Prolonged(f[n + 1], jumps)
    BY <2>1, <2>2, <2>3, OnwardIs
  <2>5. <<m>> \o Append(u, l) = Append(<<m>> \o u, l)
    BY <1>1, <2>2
  <2> QED BY <2>1, <2>2, <2>4, <2>5
<1>4. \A n \in Nat : Holds(n)
  <2> HIDE DEF Holds
  <2>1. S \subseteq Nat /\ 0 \in S /\ \A n \in S : n + 1 \in S
    BY <1>2, <1>3
  <2> HIDE DEF S
  <2>2. \A n \in Nat : n \in S
    BY <2>1, Induction
  <2> QED BY <2>2 DEF S
<1> QED BY <1>4

\* From a state that has the jumps of another one.
LEMMA JumpsShared ==
  ASSUME NEW St, NEW L, NEW f, NEW h, NEW jumps, NEW s, NEW q, ArePaths(f, jumps, s, St, L), ArePaths(h, jumps, q, St, L),
         AreJumps(jumps, St, L), \A m, r : <<q, m, r>> \in jumps => <<s, m, r>> \in jumps
  PROVE  \A n \in Nat : h[n + 1] \subseteq f[n + 1]
<1> DEFINE Holds(n) == h[n + 1] \subseteq f[n + 1]
           S == {n \in Nat : Holds(n)}
<1>1. Holds(0)
  <2>1. /\ f[0] = {<<<<>>, s>>} /\ f[0] \in SUBSET Spellings(St, L) /\ f[0 + 1] = Prolonged(f[0], jumps)
        /\ h[0] = {<<<<>>, q>>} /\ h[0] \in SUBSET Spellings(St, L) /\ h[0 + 1] = Prolonged(h[0], jumps)
    BY DEF ArePaths
  <2> SUFFICES ASSUME NEW x \in Prolonged(h[0], jumps) PROVE x \in Prolonged(f[0], jumps)
    BY <2>1
  <2>a. Continues(x, h[0], jumps, St, L)
    BY <2>1, OnwardIs
  <2>2. PICK u, p, l, z : <<u, p>> \in h[0] /\ <<p, l, z>> \in jumps /\ x = <<Append(u, l), z>>
    BY <2>a DEF Continues
  <2>3. u = <<>> /\ p = q
    BY <2>1, <2>2
  <2>4. <<s, l, z>> \in jumps /\ <<u, s>> \in f[0]
    BY <2>1, <2>2, <2>3
  <2> QED BY <2>1, <2>2, <2>4, OnwardIs
<1>2. ASSUME NEW n \in Nat, Holds(n) PROVE Holds(n + 1)
  <2>1. /\ f[n + 1] \in SUBSET Spellings(St, L) /\ f[(n + 1) + 1] = Prolonged(f[n + 1], jumps)
        /\ h[n + 1] \in SUBSET Spellings(St, L) /\ h[(n + 1) + 1] = Prolonged(h[n + 1], jumps)
    BY DEF ArePaths
  <2> SUFFICES ASSUME NEW x \in Prolonged(h[n + 1], jumps) PROVE x \in Prolonged(f[n + 1], jumps)
    BY <2>1
  <2>a. Continues(x, h[n + 1], jumps, St, L)
    BY <2>1, OnwardIs
  <2>2. PICK u, p, l, z : <<u, p>> \in h[n + 1] /\ <<p, l, z>> \in jumps /\ x = <<Append(u, l), z>>
    BY <2>a DEF Continues
  <2>3. <<u, p>> \in f[n + 1]
    BY <1>2, <2>2
  <2> QED BY <2>1, <2>2, <2>3, OnwardIs
<1>3. \A n \in Nat : Holds(n)
  <2> HIDE DEF Holds
  <2>1. S \subseteq Nat /\ 0 \in S /\ \A n \in S : n + 1 \in S
    BY <1>1, <1>2
  <2> HIDE DEF S
  <2>2. \A n \in Nat : n \in S
    BY <2>1, Induction
  <2> QED BY <2>2 DEF S
<1> QED BY <1>3

\* The jumps behind shortcuts and the states near a terminal one, of an automaton
\* with the transitions ts: a language closed under the transitions is closed under
\* the jumps, and the least one is.
JumpsTo(s, m, q, g, near) ==
  \E r \in near : \E t \in ToSet(g.tr[r[2]]) :
    r[1] = s /\ ~IsShortcut(t) /\ t.m = m /\ t.next = q

LEMMA Jumping ==
  ASSUME NEW g, NEW E, IsGraph(g, E), NEW near, near = ByShortcuts(g)
  PROVE  /\ IsNear(near, g)
         /\ AreJumps(Jumps(g, near), States(g), LabelsOf(E)) /\ Finals(g, near) \in SUBSET States(g)
         /\ \A s, m, q : <<s, m, q>> \in Jumps(g, near) <=> JumpsTo(s, m, q, g, near)
         /\ \A s : s \in Finals(g, near) <=> \E q \in g.terminal : <<s, q>> \in near
<1>1. Len(g.tr) \in Nat
  BY GraphIs
<1>2. ASSUME NEW s \in States(g), NEW t \in ToSet(g.tr[s])
      PROVE  t \in E /\ t.next \in States(g)
  <2>1. g.tr[s] \in Seq(E)
    BY GraphIs
  <2> QED BY <2>1, Members, GraphIs
<1>3. IsNear(near, g)
  BY <1>1, <1>2, NearStates
<1>4. near \in SUBSET (States(g) \X States(g))
  BY <1>1, <1>3 DEF IsNear
<1>5. ASSUME NEW s, NEW m, NEW q
      PROVE  <<s, m, q>> \in Jumps(g, near) <=> JumpsTo(s, m, q, g, near)
  BY DEF Jumps, JumpsTo
<1>6. \A s : s \in Finals(g, near) <=> \E q \in g.terminal : <<s, q>> \in near
  <2>1. \A s : s \in Finals(g, near) <=> \E r \in near : r[2] \in g.terminal /\ s = r[1]
    BY DEF Finals
  <2>2. \A r \in near : r = <<r[1], r[2]>>
    BY <1>4
  <2> SUFFICES ASSUME NEW s PROVE s \in Finals(g, near) <=> \E q \in g.terminal : <<s, q>> \in near
    OBVIOUS
  <2>3. ASSUME NEW q \in g.terminal, <<s, q>> \in near PROVE s \in Finals(g, near)
    <3> DEFINE r == <<s, q>>
    <3>1. r \in near /\ r[1] = s /\ r[2] = q
      BY <2>3
    <3> HIDE DEF r
    <3> QED BY <2>1, <3>1
  <2>4. ASSUME s \in Finals(g, near) PROVE \E q \in g.terminal : <<s, q>> \in near
    <3>1. PICK r \in near : r[2] \in g.terminal /\ s = r[1]
      BY <2>1, <2>4
    <3> QED BY <2>2, <3>1
  <2> QED BY <2>3, <2>4
<1>7. AreJumps(Jumps(g, near), States(g), LabelsOf(E))
  <2> SUFFICES ASSUME NEW x \in Jumps(g, near)
               PROVE  x \in States(g) \X LabelsOf(E) \X States(g)
    BY DEF AreJumps
  <2>0. PICK r \in near : \E t \in ToSet(g.tr[r[2]]) : x = <<r[1], t.m, t.next>>
    BY DEF Jumps
  <2>1. PICK t \in ToSet(g.tr[r[2]]) : x = <<r[1], t.m, t.next>>
    BY <2>0
  <2>2. r[1] \in States(g) /\ r[2] \in States(g)
    BY <1>4
  <2>3. t \in E /\ t.next \in States(g)
    BY <1>2, <2>2
  <2> QED BY <2>1, <2>2, <2>3 DEF LabelsOf
<1>8. Finals(g, near) \in SUBSET States(g)
  <2> SUFFICES ASSUME NEW s \in Finals(g, near) PROVE s \in States(g)
    OBVIOUS
  <2>1. PICK q \in g.terminal : <<s, q>> \in near
    BY <1>6
  <2> QED BY <1>4, <2>1
<1> QED BY <1>1, <1>3, <1>5, <1>6, <1>7, <1>8

\* Before a shortcut there are the jumps, and the ends, that there are behind it.
LEMMA NearBehind ==
  ASSUME NEW g, NEW E, IsGraph(g, E), NEW near, near = ByShortcuts(g),
         NEW q \in States(g), NEW t \in ToSet(g.tr[q]), IsShortcut(t)
  PROVE  /\ \A x : <<t.next, x>> \in near => <<q, x>> \in near
         /\ \A m, y : <<t.next, m, y>> \in Jumps(g, near) => <<q, m, y>> \in Jumps(g, near)
         /\ t.next \in Finals(g, near) => q \in Finals(g, near)
<1> DEFINE jumps == Jumps(g, near)
           final == Finals(g, near)
           S     == States(g)
<1>1. /\ IsNear(near, g) /\ States(g) = S
      /\ \A p, m, r : <<p, m, r>> \in jumps <=> JumpsTo(p, m, r, g, near)
      /\ \A p : p \in final <=> \E r \in g.terminal : <<p, r>> \in near
  BY Jumping
<1>2. \A p \in S : \A u \in ToSet(g.tr[p]) : u \in E /\ u.next \in S
  BY Members, GraphIs
<1> HIDE DEF jumps, final, S
<1>3. t.next \in S /\ q \in S
  BY <1>2 DEF S
<1>4. near \in SUBSET (S \X S)
  BY <1>1, Zenon DEF IsNear
<1>5. ASSUME NEW x, <<t.next, x>> \in near PROVE <<q, x>> \in near
  <2> DEFINE X == {y \in S : <<q, y>> \in near}
  <2>0. x \in S
    BY <1>4, <1>5
  <2>1. <<q, t.next>> \in near
    <3> DEFINE qq == <<q, q>>
    <3>1. qq \in near /\ qq[1] = q /\ qq[2] = q
      BY <1>1, <1>3 DEF IsNear
    <3> HIDE DEF qq
    <3> QED BY <1>1, <3>1 DEF IsNear
  <2>2. ASSUME NEW y \in X, NEW u \in ToSet(g.tr[y]), IsShortcut(u) PROVE u.next \in X
    <3> DEFINE qy == <<q, y>>
    <3>1. qy \in near /\ qy[1] = q /\ qy[2] = y
      OBVIOUS
    <3> HIDE DEF qy
    <3>2. <<qy[1], u.next>> \in near
      BY <1>1, <2>2, <3>1 DEF IsNear
    <3> QED BY <1>2, <3>1, <3>2
  <2>3. X \in SUBSET S /\ t.next \in X
    BY <1>3, <2>1
  <2> HIDE DEF X
  <2>4. x \in X
    BY <1>1, <1>3, <1>5, <2>0, <2>2, <2>3 DEF IsNear
  <2> QED BY <2>4 DEF X
<1>6. ASSUME NEW m, NEW y, <<t.next, m, y>> \in jumps PROVE <<q, m, y>> \in jumps
  <2>1. JumpsTo(t.next, m, y, g, near)
    BY <1>1, <1>6
  <2>2. PICK z \in near : \E u \in ToSet(g.tr[z[2]]) :
          z[1] = t.next /\ ~IsShortcut(u) /\ u.m = m /\ u.next = y
    BY <2>1, Zenon DEF JumpsTo
  <2>3. PICK u \in ToSet(g.tr[z[2]]) : z[1] = t.next /\ ~IsShortcut(u) /\ u.m = m /\ u.next = y
    BY <2>2
  <2>4. z = <<t.next, z[2]>>
    BY <1>4, <2>3
  <2> DEFINE k == <<q, z[2]>>
  <2>5. k \in near /\ k[1] = q /\ k[2] = z[2]
    BY <1>5, <2>4
  <2> HIDE DEF k
  <2> QED BY <1>1, <2>3, <2>5 DEF JumpsTo
<1>7. ASSUME t.next \in final PROVE q \in final
  <2>1. PICK x \in g.terminal : <<t.next, x>> \in near
    BY <1>1, <1>7
  <2> QED BY <1>1, <1>5, <2>1
<1> QED BY <1>5, <1>6, <1>7 DEF jumps, final

\* A language closed under the transitions is closed under the jumps.
LEMMA ClosedUnderJumps ==
  ASSUME NEW g, NEW E, IsGraph(g, E), NEW near, near = ByShortcuts(g),
         NEW M \in Assignments(g, E), ClosedIn(M, g)
  PROVE  /\ \A p, m, q : <<p, m, q>> \in Jumps(g, near) => \A v \in M[q] : <<m>> \o v \in M[p]
         /\ \A q \in Finals(g, near) : <<>> \in M[q]
<1> DEFINE jumps == Jumps(g, near)
           S     == States(g)
<1>1. /\ IsNear(near, g) /\ States(g) = S /\ AreJumps(jumps, States(g), LabelsOf(E))
      /\ \A p, m, q : <<p, m, q>> \in jumps <=> JumpsTo(p, m, q, g, near)
      /\ \A p : p \in Finals(g, near) <=> \E q \in g.terminal : <<p, q>> \in near
  BY Jumping
<1>2. \A p \in S : \A t \in ToSet(g.tr[p]) : t \in E /\ t.next \in S
  BY Members, GraphIs
<1>3. ASSUME NEW p \in S, NEW q \in S, <<p, q>> \in near PROVE M[q] \subseteq M[p]
  <2> DEFINE X == {x \in S : M[x] \subseteq M[p]}
  <2>1. p \in X
    OBVIOUS
  <2>2. ASSUME NEW x \in X, NEW t \in ToSet(g.tr[x]), IsShortcut(t) PROVE t.next \in X
    <3>1. M[t.next] \subseteq M[x]
      BY <2>2 DEF ClosedIn, Passing
    <3> QED BY <1>2, <3>1
  <2>3. q \in X
    <3>1. X \in SUBSET S
      OBVIOUS
    <3> HIDE DEF X
    <3> QED BY <1>1, <1>3, <2>1, <2>2, <3>1 DEF IsNear
  <2> QED BY <2>3
<1>4. ASSUME NEW p, NEW m, NEW q, <<p, m, q>> \in jumps, NEW v \in M[q]
      PROVE  <<m>> \o v \in M[p]
  <2>0. PICK r \in near : \E t \in ToSet(g.tr[r[2]]) : r[1] = p /\ ~IsShortcut(t) /\ t.m = m /\ t.next = q
    BY <1>1, <1>4 DEF JumpsTo
  <2>1. PICK t \in ToSet(g.tr[r[2]]) : r[1] = p /\ ~IsShortcut(t) /\ t.m = m /\ t.next = q
    BY <2>0
  <2>2. p \in S /\ r[2] \in S /\ <<p, r[2]>> \in near
    <3>1. near \in SUBSET (S \X S)
      BY <1>1, Zenon DEF IsNear
    <3>2. r = <<r[1], r[2]>> /\ r[1] \in S /\ r[2] \in S
      BY <3>1
    <3> QED BY <2>1, <3>2
  <2>3. <<m>> \o v \in M[r[2]]
    <3>1. Passing(t, M[q]) \subseteq M[r[2]]
      BY <2>1, <2>2 DEF ClosedIn
    <3> QED BY <1>4, <2>1, <3>1 DEF Passing
  <2> QED BY <1>3, <2>2, <2>3
<1>5. ASSUME NEW q, q \in Finals(g, near) PROVE <<>> \in M[q]
  <2>1. PICK t \in g.terminal : <<q, t>> \in near
    BY <1>1, <1>5
  <2>2. q \in S /\ t \in S /\ <<>> \in M[t]
    BY <1>1, <2>1 DEF IsNear, ClosedIn
  <2> QED BY <1>3, <2>1, <2>2
<1> QED BY <1>4, <1>5

\* The language is that of the jumps: a word is empty, at a state near a terminal
\* one, or begins with a jump.
JumpsFirst(w, s, M, jumps, final) ==
  (w = <<>> /\ s \in final) \/ \E m, q : <<s, m, q>> \in jumps /\ \E u \in M[q] : w = <<m>> \o u

LEMMA LanguageOfJumps ==
  ASSUME NEW g, NEW E, IsGraph(g, E), NEW near, near = ByShortcuts(g),
         NEW M, IsLeast(M, g, E)
  PROVE  \A s \in States(g) : \A w \in M[s] : JumpsFirst(w, s, M, Jumps(g, near), Finals(g, near))
<1> DEFINE jumps == Jumps(g, near)
           final == Finals(g, near)
           S     == States(g)
           J     == [s \in S |-> {w \in M[s] : JumpsFirst(w, s, M, jumps, final)}]
<1>1. /\ IsNear(near, g) /\ States(g) = S
      /\ \A p, m, q : <<p, m, q>> \in jumps <=> JumpsTo(p, m, q, g, near)
      /\ \A p : p \in final <=> \E q \in g.terminal : <<p, q>> \in near
  BY Jumping
<1>2. /\ M \in Assignments(g, E) /\ ClosedIn(M, g)
      /\ \A A \in Assignments(g, E) : ClosedIn(A, g) => \A q \in S : M[q] \subseteq A[q]
  BY DEF IsLeast
<1>3. \A p \in S : \A t \in ToSet(g.tr[p]) : t \in E /\ t.next \in S
  BY Members, GraphIs
<1> HIDE DEF jumps, final
<1>4. \A s \in S : \A w : w \in J[s] <=> w \in M[s] /\ JumpsFirst(w, s, M, jumps, final)
  OBVIOUS
<1>5. J \in Assignments(g, E)
  BY <1>2 DEF Assignments
<1> HIDE DEF J, S
<1>6. ClosedIn(J, g)
  <2> SUFFICES ASSUME NEW s \in S
               PROVE  /\ s \in g.terminal => <<>> \in J[s]
                      /\ \A t \in ToSet(g.tr[s]) : Passing(t, J[t.next]) \subseteq J[s]
    BY DEF ClosedIn, S
  <2>1. ASSUME s \in g.terminal PROVE <<>> \in J[s]
    <3>1. <<>> \in M[s] /\ s \in final
      BY <1>1, <1>2, <2>1 DEF ClosedIn, IsNear, S
    <3> QED BY <1>4, <3>1 DEF JumpsFirst
  <2>2. ASSUME NEW t \in ToSet(g.tr[s]), NEW w \in Passing(t, J[t.next]) PROVE w \in J[s]
    <3>1. t.next \in S
      BY <1>3
    <3>2. Passing(t, M[t.next]) \subseteq M[s]
      BY <1>2 DEF ClosedIn, S
    <3>3. CASE IsShortcut(t)
      <4>1. w \in M[t.next] /\ JumpsFirst(w, t.next, M, jumps, final) /\ w \in M[s]
        BY <1>4, <2>2, <3>1, <3>2, <3>3 DEF Passing
      <4>2. /\ \A m, y : <<t.next, m, y>> \in jumps => <<s, m, y>> \in jumps
            /\ t.next \in final => s \in final
        BY <3>3, NearBehind DEF jumps, final, S
      <4>3. JumpsFirst(w, s, M, jumps, final)
        BY <4>1, <4>2 DEF JumpsFirst
      <4> QED BY <1>4, <4>1, <4>3
    <3>4. CASE ~IsShortcut(t)
      <4>1. PICK u \in J[t.next] : w = <<t.m>> \o u
        BY <2>2, <3>4 DEF Passing
      <4>2. u \in M[t.next]
        BY <1>4, <3>1, <4>1
      <4>3. w \in M[s]
        BY <3>2, <3>4, <4>1, <4>2 DEF Passing
      <4>4. <<s, t.m, t.next>> \in jumps
        <5> DEFINE ss == <<s, s>>
        <5>1. ss \in near /\ ss[1] = s /\ ss[2] = s
          BY <1>1 DEF IsNear
        <5> HIDE DEF ss
        <5> QED BY <1>1, <2>2, <3>4, <5>1 DEF JumpsTo
      <4>5. JumpsFirst(w, s, M, jumps, final)
        BY <4>1, <4>2, <4>4 DEF JumpsFirst
      <4> QED BY <1>4, <4>3, <4>5
    <3> QED BY <3>3, <3>4
  <2> QED BY <2>1, <2>2
<1>7. ASSUME NEW s \in S, NEW w \in M[s] PROVE JumpsFirst(w, s, M, jumps, final)
  BY <1>2, <1>4, <1>5, <1>6
<1> QED BY <1>7 DEF jumps, final, S

\* The words the jumps of an automaton spell are words of its language.
LEMMA WordsSound ==
  ASSUME NEW g, NEW E, IsGraph(g, E), NEW near, near = ByShortcuts(g),
         NEW M \in Assignments(g, E), ClosedIn(M, g),
         NEW s \in States(g), NEW f, ArePaths(f, Jumps(g, near), s, States(g), LabelsOf(E))
  PROVE  \A n \in Nat : \A w, q : <<w, q>> \in f[n] /\ q \in Finals(g, near) => w \in M[s]
<1> DEFINE jumps == Jumps(g, near)
           S     == States(g)
<1>1. AreJumps(jumps, States(g), LabelsOf(E))
  BY Jumping
<1>4. \A p, m, q : <<p, m, q>> \in jumps => \A v \in M[q] : <<m>> \o v \in M[p]
  BY ClosedUnderJumps
<1>5. \A q \in Finals(g, near) : <<>> \in M[q]
  BY ClosedUnderJumps
<1> HIDE DEF jumps, S
<1> DEFINE Holds(n) == \A w, q : <<w, q>> \in f[n] => \A v \in M[q] : w \o v \in M[s]
           N == {n \in Nat : Holds(n)}
<1>6. \A q \in S : \A v \in M[q] : v \in Seq(LabelsOf(E))
  BY DEF Assignments, S
<1>7. Holds(0)
  <2>1. f[0] = {<<<<>>, s>>} /\ s \in S
    BY DEF ArePaths, S
  <2> SUFFICES ASSUME NEW v \in M[s] PROVE <<>> \o v \in M[s]
    BY <2>1
  <2> QED BY <1>6, <2>1
<1>8. ASSUME NEW n \in Nat, Holds(n) PROVE Holds(n + 1)
  <2> SUFFICES ASSUME NEW w, NEW q, <<w, q>> \in f[n + 1], NEW v \in M[q] PROVE w \o v \in M[s]
    OBVIOUS
  <2>1. f[n] \in SUBSET Spellings(States(g), LabelsOf(E)) /\ <<w, q>> \in Prolonged(f[n], jumps)
    BY DEF ArePaths, jumps
  <2>2. Continues(<<w, q>>, f[n], jumps, States(g), LabelsOf(E))
    BY <1>1, <2>1, OnwardIs
  <2>3. PICK u, p, m, r : /\ <<u, p>> \in f[n] /\ <<p, m, r>> \in jumps /\ <<w, q>> = <<Append(u, m), r>>
                          /\ u \in Seq(LabelsOf(E)) /\ m \in LabelsOf(E) /\ r \in S
    BY <2>2 DEF Continues, S
  <2>4. w = Append(u, m) /\ r = q
    BY <2>3
  <2>5. v \in Seq(LabelsOf(E))
    BY <1>6, <2>3, <2>4
  <2>6. <<m>> \o v \in M[p]
    BY <1>4, <2>3, <2>4
  <2>7. u \o (<<m>> \o v) \in M[s]
    BY <1>8, <2>3, <2>6
  <2>8. u \o (<<m>> \o v) = Append(u, m) \o v
    <3>1. u \in Seq(LabelsOf(E)) /\ <<m>> \in Seq(LabelsOf(E)) /\ Append(u, m) = u \o <<m>>
      BY <2>3
    <3> QED BY <2>5, <3>1, ConcatAssociative
  <2> QED BY <2>4, <2>7, <2>8
<1>9. \A n \in Nat : Holds(n)
  <2> HIDE DEF Holds
  <2>1. N \subseteq Nat /\ 0 \in N /\ \A n \in N : n + 1 \in N
    BY <1>7, <1>8
  <2> HIDE DEF N
  <2>2. \A n \in Nat : n \in N
    BY <2>1, Induction
  <2> QED BY <2>2 DEF N
<1>10. \A n \in Nat : \A w, q : <<w, q>> \in f[n] => w \o <<>> = w
  <2>1. \A n \in Nat : \A w, q : <<w, q>> \in f[n] => w \in Seq(LabelsOf(E))
    BY <1>1, LengthOfPaths DEF jumps
  <2> QED BY <2>1
<1>11. ASSUME NEW n \in Nat, NEW w, NEW q, <<w, q>> \in f[n], q \in Finals(g, near)
       PROVE  w \in M[s]
  <2>1. <<>> \in M[q] /\ w \o <<>> = w
    BY <1>5, <1>10, <1>11
  <2> QED BY <1>9, <1>11, <2>1
<1> QED BY <1>11

\* Words up to a length are the words of the language up to that length.
LEMMA WordsAreTheLanguage ==
  ASSUME NEW g, NEW E, IsGraph(g, E),
         NEW M, IsLeast(M, g, E), NEW W \in Nat, NEW s \in States(g)
  PROVE  Words(g, W, s) = {w \in M[s] : Len(w) <= W}
<1> DEFINE near  == ByShortcuts(g)
           jumps == Jumps(g, near)
           final == Finals(g, near)
           S     == States(g)
<1>1. /\ IsNear(near, g) /\ States(g) = S /\ AreJumps(jumps, States(g), LabelsOf(E))
      /\ \A p, m, q : <<p, m, q>> \in jumps <=> JumpsTo(p, m, q, g, near)
      /\ \A p : p \in final <=> \E q \in g.terminal : <<p, q>> \in near
  BY Jumping
<1>2. /\ M \in Assignments(g, E) /\ ClosedIn(M, g)
      /\ \A A \in Assignments(g, E) : ClosedIn(A, g) => \A q \in S : M[q] \subseteq A[q]
  BY DEF IsLeast
<1>3. \A p \in S : \A t \in ToSet(g.tr[p]) : t \in E /\ t.next \in S
  BY Members, GraphIs
<1> DEFINE IsOf(f, q) == /\ ArePaths(f, jumps, q, States(g), LabelsOf(E))
                         /\ \A V \in Nat : \A w : w \in Words(g, V, q) <=>
                              \E n \in 0 .. V : \E r \in final : <<w, r>> \in f[n]
<1>4. \A q \in S : \E f : IsOf(f, q)
  BY <1>1, PathsFrom
<1>5. Words(g, W, s) \subseteq {w \in M[s] : Len(w) <= W}
  <2>1. PICK f : IsOf(f, s)
    BY <1>4
  <2> SUFFICES ASSUME NEW w \in Words(g, W, s) PROVE w \in M[s] /\ Len(w) <= W
    OBVIOUS
  <2>2. PICK n \in 0 .. W : \E r \in final : <<w, r>> \in f[n]
    BY <2>1
  <2>3. n \in Nat /\ n <= W
    OBVIOUS
  <2>4. w \in M[s]
    <3> HIDE DEF S, jumps, final
    <3> QED BY <1>2, <2>1, <2>2, <2>3, WordsSound DEF S, jumps, final
  <2>5. Len(w) = n
    BY <1>1, <2>1, <2>2, <2>3, LengthOfPaths
  <2> QED BY <2>3, <2>4, <2>5
\* What the jumps spell is a language itself, closed under the transitions.
<1> DEFINE J == [q \in S |-> {w \in Seq(LabelsOf(E)) : w \in Words(g, Len(w), q)}]
<1>6. ASSUME NEW q \in S, NEW f, IsOf(f, q), NEW w \in Seq(LabelsOf(E))
      PROVE  w \in J[q] <=> \E r \in final : <<w, r>> \in f[Len(w)]
  <2>1. Len(w) \in Nat
    BY LenProperties
  <2>2. w \in J[q] <=> \E n \in 0 .. Len(w) : \E r \in final : <<w, r>> \in f[n]
    BY <1>6, <2>1
  <2>3. \A n \in 0 .. Len(w) : \A r : <<w, r>> \in f[n] => n = Len(w)
    BY <1>1, <1>6, <2>1, LengthOfPaths
  <2>4. ASSUME NEW r \in final, <<w, r>> \in f[Len(w)]
        PROVE  \E n \in 0 .. Len(w) : \E q1 \in final : <<w, q1>> \in f[n]
    <3>1. Len(w) \in 0 .. Len(w)
      BY <2>1
    <3> QED BY <2>4, <3>1
  <2>5. ASSUME NEW n \in 0 .. Len(w), NEW r \in final, <<w, r>> \in f[n]
        PROVE  <<w, r>> \in f[Len(w)]
    BY <2>3, <2>5
  <2> HIDE DEF J
  <2> QED BY <2>2, <2>4, <2>5
<1>7. J \in Assignments(g, E)
  BY DEF Assignments
<1>8. ClosedIn(J, g)
  <2> SUFFICES ASSUME NEW q \in S
               PROVE  /\ q \in g.terminal => <<>> \in J[q]
                      /\ \A t \in ToSet(g.tr[q]) : Passing(t, J[t.next]) \subseteq J[q]
    BY DEF ClosedIn
  <2>1. PICK f : IsOf(f, q)
    BY <1>4
  <2>2. <<>> \in Seq(LabelsOf(E)) /\ Len(<<>>) = 0 /\ f[0] = {<<<<>>, q>>}
    BY <2>1, EmptySeq DEF ArePaths
  <2>3. ASSUME q \in g.terminal PROVE <<>> \in J[q]
    <3>1. q \in final
      BY <1>1, <2>3 DEF IsNear
    <3> HIDE DEF J, IsOf
    <3> QED BY <1>6, <2>1, <2>2, <3>1
  <2>4. ASSUME NEW t \in ToSet(g.tr[q]), NEW w \in Passing(t, J[t.next]) PROVE w \in J[q]
    <3>1. t \in E /\ t.next \in S
      BY <1>3
    <3>2. PICK h : IsOf(h, t.next)
      BY <1>4, <3>1
    <3>3. CASE IsShortcut(t)
      <4>1. w \in J[t.next] /\ w \in Seq(LabelsOf(E))
        BY <2>4, <3>1, <3>3 DEF Passing
      <4>2. PICK r \in final : <<w, r>> \in h[Len(w)]
        <5> HIDE DEF J, IsOf
        <5> QED BY <1>6, <3>1, <3>2, <4>1
      <4>4. /\ \A m, y : <<t.next, m, y>> \in jumps => <<q, m, y>> \in jumps
            /\ t.next \in final => q \in final
        <5> HIDE DEF J, IsOf
        <5> QED BY <3>3, NearBehind
      <4>5. CASE w = <<>>
        <5>1. r = t.next
          <6>1. h[0] = {<<<<>>, t.next>>}
            BY <3>2 DEF ArePaths
          <6> QED BY <2>2, <4>2, <4>5, <6>1
        <5>4. q \in final
          BY <4>2, <4>4, <5>1
        <5> HIDE DEF J, IsOf
        <5> QED BY <1>6, <2>1, <2>2, <4>5, <5>4
      <4>6. CASE w # <<>>
        <5>1. Len(w) \in Nat /\ Len(w) # 0
          BY <4>1, <4>6, EmptySeq, LenProperties
        <5>2. Len(w) - 1 \in Nat /\ (Len(w) - 1) + 1 = Len(w)
          BY <5>1
        <5>3. \A n \in Nat : h[n + 1] \subseteq f[n + 1]
          BY <1>1, <2>1, <3>2, <4>4, JumpsShared
        <5>4. h[Len(w)] \subseteq f[Len(w)]
          BY <5>2, <5>3
        <5> HIDE DEF J, IsOf
        <5> QED BY <1>6, <2>1, <4>1, <4>2, <5>4
      <4> QED BY <4>5, <4>6
    <3>4. CASE ~IsShortcut(t)
      <4>1. PICK v \in J[t.next] : w = <<t.m>> \o v
        BY <2>4, <3>4 DEF Passing
      <4>2. v \in Seq(LabelsOf(E)) /\ t.m \in LabelsOf(E)
        BY <3>1, <4>1 DEF LabelsOf
      <4>3. PICK r \in final : <<v, r>> \in h[Len(v)]
        <5> HIDE DEF J, IsOf
        <5> QED BY <1>6, <3>1, <3>2, <4>1, <4>2
      <4>4. <<q, t.m, t.next>> \in jumps
        <5> DEFINE qq == <<q, q>>
        <5>1. qq \in near /\ qq[1] = q /\ qq[2] = q
          BY <1>1 DEF IsNear
        <5> HIDE DEF qq
        <5> QED BY <1>1, <2>4, <3>4, <5>1 DEF JumpsTo
      <4>5. Len(v) \in Nat /\ w \in Seq(LabelsOf(E)) /\ Len(w) = Len(v) + 1
        BY <4>1, <4>2, LenProperties, ConcatProperties
      <4>6. <<w, r>> \in f[Len(w)]
        <5>1. \A n \in Nat : \A x, y : <<x, y>> \in h[n] => <<<<t.m>> \o x, y>> \in f[n + 1]
          BY <1>1, <2>1, <3>2, <4>4, JumpBefore
        <5> QED BY <4>1, <4>3, <4>5, <5>1
      <4> HIDE DEF J, IsOf
      <4> QED BY <1>6, <2>1, <4>3, <4>5, <4>6
    <3> QED BY <3>3, <3>4
  <2> QED BY <2>3, <2>4
<1>9. ASSUME NEW w \in M[s], Len(w) <= W PROVE w \in Words(g, W, s)
  <2>1. w \in J[s] /\ w \in Seq(LabelsOf(E))
    <3> HIDE DEF J
    <3> QED BY <1>2, <1>7, <1>8 DEF Assignments
  <2>2. PICK f : IsOf(f, s)
    BY <1>4
  <2>3. PICK r \in final : <<w, r>> \in f[Len(w)]
    <3> HIDE DEF J, IsOf
    <3> QED BY <1>6, <2>1, <2>2
  <2>4. Len(w) \in 0 .. W
    BY <1>9, <2>1, LenProperties
  <2> QED BY <2>2, <2>3, <2>4
<1> QED BY <1>5, <1>9

(***************************************************************************)
(* Parts of an automaton by their arcs: from a state to another, with the  *)
(* word passed on the way.  An assignment of words to states fits arcs if  *)
(* what is assigned behind an arc, after its word, is assigned before it.  *)
(***************************************************************************)
ArcSet(L)   == Nat \X Seq(L) \X Nat
WordSettings(L) == [Nat -> SUBSET Seq(L)]
WordsJoined(U, V) == {a \o b : a \in U, b \in V}

FitsArcs(A, D) == \A d \in D : \A v \in A[d[3]] : d[2] \o v \in A[d[1]]

\* Between s and e the arcs stand for the words of U: at least for those, and for no other.
Admits(D, s, e, U, L) ==
  \A A \in WordSettings(L) : FitsArcs(A, D) => \A u \in U : \A v \in A[e] : u \o v \in A[s]
Confines(D, s, e, U, L) ==
  \A V \in SUBSET Seq(L) : \E B \in WordSettings(L) : FitsArcs(B, D) /\ V \subseteq B[e] /\ B[s] \subseteq WordsJoined(U, V)
StandFor(D, s, e, U, L) ==
  /\ D \in SUBSET ArcSet(L) /\ U \in SUBSET Seq(L) /\ s \in Nat /\ e \in Nat
  /\ Admits(D, s, e, U, L) /\ Confines(D, s, e, U, L)

NoneInto(D, s) == \A d \in D : d[3] # s
NoneFrom(D, s) == \A d \in D : d[1] # s
Among(D, Q)     == \A d \in D : d[1] \in Q /\ d[3] \in Q

LEMMA InJoined ==
  ASSUME NEW U, NEW V, NEW x
  PROVE  x \in WordsJoined(U, V) <=> \E u \in U, v \in V : x = u \o v
BY DEF WordsJoined

LEMMA JoinedWords ==
  ASSUME NEW L, NEW U \in SUBSET Seq(L), NEW V \in SUBSET Seq(L)
  PROVE  WordsJoined(U, V) \in SUBSET Seq(L)
<1> SUFFICES ASSUME NEW x \in WordsJoined(U, V) PROVE x \in Seq(L)
  OBVIOUS
<1>1. PICK u \in U, v \in V : x = u \o v
  BY InJoined
<1> QED BY <1>1

LEMMA Rebracketed ==
  ASSUME NEW L, NEW u \in Seq(L), NEW v \in Seq(L), NEW w \in Seq(L)
  PROVE  (u \o v) \o w = u \o (v \o w) /\ u \o v \in Seq(L) /\ <<>> \o w = w
BY ConcatAssociative, ConcatEmptySeq, ConcatProperties

LEMMA JoinedRebracketed ==
  ASSUME NEW L, NEW T \in SUBSET Seq(L), NEW U \in SUBSET Seq(L), NEW V \in SUBSET Seq(L)
  PROVE  WordsJoined(T, WordsJoined(U, V)) = WordsJoined(WordsJoined(T, U), V)
<1> DEFINE TU == WordsJoined(T, U)
           UV == WordsJoined(U, V)
<1>1. \A t \in T, u \in U, v \in V : (t \o u) \o v = t \o (u \o v) /\ t \o u \in TU /\ u \o v \in UV
  <2> TAKE t \in T, u \in U, v \in V
  <2>1. (t \o u) \o v = t \o (u \o v)
    BY Rebracketed
  <2> QED BY <2>1, InJoined
<1>2. /\ \A y \in TU : \E t \in T, u \in U : y = t \o u
      /\ \A y \in UV : \E u \in U, v \in V : y = u \o v
  BY InJoined
<1> HIDE DEF TU, UV
<1>3. \A x \in WordsJoined(T, UV) : x \in WordsJoined(TU, V)
  <2> TAKE x \in WordsJoined(T, UV)
  <2>1. PICK t \in T, y \in UV : x = t \o y
    BY InJoined
  <2>2. PICK u \in U, v \in V : y = u \o v
    BY <1>2
  <2>3. x = (t \o u) \o v /\ t \o u \in TU
    BY <1>1, <2>1, <2>2
  <2> QED BY <2>3, InJoined
<1>4. \A x \in WordsJoined(TU, V) : x \in WordsJoined(T, UV)
  <2> TAKE x \in WordsJoined(TU, V)
  <2>1. PICK y \in TU, v \in V : x = y \o v
    BY InJoined
  <2>2. PICK t \in T, u \in U : y = t \o u
    BY <1>2
  <2>3. x = t \o (u \o v) /\ u \o v \in UV
    BY <1>1, <2>1, <2>2
  <2> QED BY <2>3, InJoined
<1>5. WordsJoined(T, UV) = WordsJoined(TU, V)
  BY <1>3, <1>4
<1> QED BY <1>5 DEF TU, UV

LEMMA ArcIs ==
  ASSUME NEW L, NEW D \in SUBSET ArcSet(L), NEW d \in D
  PROVE  d[1] \in Nat /\ d[2] \in Seq(L) /\ d[3] \in Nat /\ d = <<d[1], d[2], d[3]>>
BY DEF ArcSet

\* The arc of a shortcut.
LEMMA ShortArc ==
  ASSUME NEW L, NEW s \in Nat, NEW e \in Nat
  PROVE  LET d == <<s, <<>>, e>> IN d \in ArcSet(L) /\ d[1] = s /\ d[2] = <<>> /\ d[3] = e
BY EmptySeq DEF ArcSet

LEMMA ShortArcFits ==
  ASSUME NEW L, NEW A \in WordSettings(L), NEW D, NEW s \in Nat, NEW e \in Nat
  PROVE  /\ FitsArcs(A, D \cup {<<s, <<>>, e>>}) => FitsArcs(A, D) /\ A[e] \subseteq A[s]
         /\ FitsArcs(A, D) /\ A[e] \subseteq A[s] => FitsArcs(A, D \cup {<<s, <<>>, e>>})
<1> DEFINE d == <<s, <<>>, e>>
<1>1. d[1] = s /\ d[2] = <<>> /\ d[3] = e
  OBVIOUS
<1>2. A[e] \subseteq Seq(L)
  BY DEF WordSettings
<1>3. \A y \in A[e] : <<>> \o y = y
  BY <1>2, Rebracketed
<1> HIDE DEF d
<1>4. FitsArcs(A, D \cup {d}) <=> FitsArcs(A, D) /\ \A y \in A[e] : <<>> \o y \in A[s]
  BY <1>1 DEF FitsArcs
<1>5. FitsArcs(A, D \cup {d}) <=> FitsArcs(A, D) /\ A[e] \subseteq A[s]
  BY <1>3, <1>4
<1> QED BY <1>5 DEF d

\* A single arc.
LEMMA OneArc ==
  ASSUME NEW L, NEW w \in Seq(L), NEW s \in Nat, NEW e \in Nat, s # e
  PROVE  StandFor({<<s, w, e>>}, s, e, {w}, L)
<1> DEFINE D == {<<s, w, e>>}
<1>1. D \in SUBSET ArcSet(L) /\ {w} \in SUBSET Seq(L)
  BY DEF ArcSet
<1>2. Admits(D, s, e, {w}, L)
  BY DEF Admits, FitsArcs
<1>3. ASSUME NEW V \in SUBSET Seq(L)
      PROVE  \E B \in WordSettings(L) : FitsArcs(B, D) /\ V \subseteq B[e] /\ B[s] \subseteq WordsJoined({w}, V)
  <2> DEFINE B == [q \in Nat |-> IF q = e THEN V ELSE IF q = s THEN WordsJoined({w}, V) ELSE {}]
  <2>1. B \in WordSettings(L)
    BY <1>1, JoinedWords DEF WordSettings
  <2>2. B[e] = V /\ B[s] = WordsJoined({w}, V)
    OBVIOUS
  <2> HIDE DEF B
  <2>3. FitsArcs(B, D)
    <3>1. \A v \in V : w \o v \in WordsJoined({w}, V)
      BY InJoined
    <3>2. \A d \in D : d[1] = s /\ d[2] = w /\ d[3] = e
      OBVIOUS
    <3> HIDE DEF D
    <3> QED BY <2>2, <3>1, <3>2 DEF FitsArcs
  <2> QED BY <2>1, <2>2, <2>3
<1> QED BY <1>1, <1>2, <1>3 DEF StandFor, Confines

\* One part behind the other.
LEMMA InSeries ==
  ASSUME NEW L, NEW D1, NEW D2, NEW U1, NEW U2, NEW s, NEW m, NEW e, NEW Q1, NEW Q2,
         StandFor(D1, s, m, U1, L), StandFor(D2, m, e, U2, L), Among(D1, Q1), Among(D2, Q2),
         Q1 \cap Q2 = {m}, s \in Q1, s # m, e \in Q2, e # m, NoneFrom(D1, m), NoneInto(D2, m)
  PROVE  StandFor(D1 \cup D2, s, e, WordsJoined(U1, U2), L)
<1> DEFINE D == D1 \cup D2
           U == WordsJoined(U1, U2)
<1>1. /\ D1 \in SUBSET ArcSet(L) /\ D2 \in SUBSET ArcSet(L) /\ U1 \in SUBSET Seq(L) /\ U2 \in SUBSET Seq(L)
      /\ s \in Nat /\ m \in Nat /\ e \in Nat
  BY DEF StandFor
<1>2. D \in SUBSET ArcSet(L) /\ U \in SUBSET Seq(L)
  BY <1>1, JoinedWords
<1>3. ASSUME NEW A \in WordSettings(L), FitsArcs(A, D), NEW u \in U, NEW v \in A[e] PROVE u \o v \in A[s]
  <2>1. FitsArcs(A, D1) /\ FitsArcs(A, D2)
    BY <1>3 DEF FitsArcs
  <2>2. PICK u1 \in U1, u2 \in U2 : u = u1 \o u2
    BY InJoined
  <2>3. u2 \o v \in A[m]
    BY <2>1 DEF StandFor, Admits
  <2>4. u1 \o (u2 \o v) \in A[s]
    BY <2>1, <2>3 DEF StandFor, Admits
  <2>5. v \in Seq(L) /\ u1 \in Seq(L) /\ u2 \in Seq(L)
    BY <1>1 DEF WordSettings
  <2>6. (u1 \o u2) \o v = u1 \o (u2 \o v)
    BY <2>5, Rebracketed
  <2> QED BY <2>2, <2>4, <2>6
<1>4. ASSUME NEW V \in SUBSET Seq(L)
      PROVE  \E B \in WordSettings(L) : FitsArcs(B, D) /\ V \subseteq B[e] /\ B[s] \subseteq WordsJoined(U, V)
  <2> DEFINE V1 == WordsJoined(U2, V)
  <2>1. V1 \in SUBSET Seq(L)
    BY <1>1, JoinedWords
  <2>2. PICK B2 \in WordSettings(L) : FitsArcs(B2, D2) /\ V \subseteq B2[e] /\ B2[m] \subseteq V1
    BY DEF StandFor, Confines
  <2> HIDE DEF V1
  <2>3. PICK B1 \in WordSettings(L) : FitsArcs(B1, D1) /\ V1 \subseteq B1[m] /\ B1[s] \subseteq WordsJoined(U1, V1)
    BY <2>1 DEF StandFor, Confines
  <2> DEFINE B == [q \in Nat |-> IF q = m THEN V1 ELSE IF q \in Q2 THEN B2[q] ELSE B1[q]]
  <2>4. B \in WordSettings(L)
    BY <2>1 DEF WordSettings
  <2>5. /\ B[m] = V1
        /\ \A q \in Nat : q \in Q2 /\ q # m => B[q] = B2[q]
        /\ \A q \in Nat : q \in Q1 /\ q # m => B[q] = B1[q]
    BY <1>1
  <2> HIDE DEF B
  <2>6. ASSUME NEW d \in D1, NEW v \in B[d[3]] PROVE d[2] \o v \in B[d[1]]
    <3>1. d[1] \in Q1 /\ d[3] \in Q1 /\ d[1] # m /\ d[1] \in Nat /\ d[3] \in Nat
      BY <1>1, ArcIs DEF Among, NoneFrom
    <3>2. v \in B1[d[3]]
      BY <2>3, <2>5, <2>6, <3>1
    <3>3. d[2] \o v \in B1[d[1]]
      BY <2>3, <3>2 DEF FitsArcs
    <3> QED BY <2>5, <3>1, <3>3
  <2>7. ASSUME NEW d \in D2, NEW v \in B[d[3]] PROVE d[2] \o v \in B[d[1]]
    <3>1. d[1] \in Q2 /\ d[3] \in Q2 /\ d[3] # m /\ d[1] \in Nat /\ d[3] \in Nat
      BY <1>1, ArcIs DEF Among, NoneInto
    <3>2. v \in B2[d[3]]
      BY <2>5, <2>7, <3>1
    <3>3. d[2] \o v \in B2[d[1]]
      BY <2>2, <3>2 DEF FitsArcs
    <3> QED BY <2>2, <2>5, <3>1, <3>3
  <2>8. FitsArcs(B, D)
    BY <2>6, <2>7 DEF FitsArcs
  <2>9. V \subseteq B[e]
    BY <1>1, <2>2, <2>5
  <2>10. B[s] \subseteq WordsJoined(U, V)
    BY <1>1, <2>3, <2>5, JoinedRebracketed DEF V1
  <2> QED BY <2>4, <2>8, <2>9, <2>10
<1> QED BY <1>1, <1>2, <1>3, <1>4 DEF StandFor, Admits, Confines

\* One part beside the other.
LEMMA InParallel ==
  ASSUME NEW L, NEW D1, NEW D2, NEW U1, NEW U2, NEW s, NEW e, NEW Q1, NEW Q2,
         StandFor(D1, s, e, U1, L), StandFor(D2, s, e, U2, L), Among(D1, Q1), Among(D2, Q2),
         Q1 \cap Q2 \subseteq {s, e}, s # e,
         NoneInto(D1, s), NoneInto(D2, s), NoneFrom(D1, e), NoneFrom(D2, e)
  PROVE  StandFor(D1 \cup D2, s, e, U1 \cup U2, L)
<1> DEFINE D == D1 \cup D2
           U == U1 \cup U2
<1>1. /\ D1 \in SUBSET ArcSet(L) /\ D2 \in SUBSET ArcSet(L) /\ U1 \in SUBSET Seq(L) /\ U2 \in SUBSET Seq(L)
      /\ s \in Nat /\ e \in Nat
  BY DEF StandFor
<1>2. D \in SUBSET ArcSet(L) /\ U \in SUBSET Seq(L)
  BY <1>1
<1>3. ASSUME NEW A \in WordSettings(L), FitsArcs(A, D), NEW u \in U, NEW v \in A[e] PROVE u \o v \in A[s]
  <2>1. FitsArcs(A, D1) /\ FitsArcs(A, D2)
    BY <1>3 DEF FitsArcs
  <2> QED BY <2>1 DEF StandFor, Admits
<1>4. ASSUME NEW V \in SUBSET Seq(L)
      PROVE  \E B \in WordSettings(L) : FitsArcs(B, D) /\ V \subseteq B[e] /\ B[s] \subseteq WordsJoined(U, V)
  <2>1. PICK B1 \in WordSettings(L) : FitsArcs(B1, D1) /\ V \subseteq B1[e] /\ B1[s] \subseteq WordsJoined(U1, V)
    BY DEF StandFor, Confines
  <2>2. PICK B2 \in WordSettings(L) : FitsArcs(B2, D2) /\ V \subseteq B2[e] /\ B2[s] \subseteq WordsJoined(U2, V)
    BY DEF StandFor, Confines
  <2> DEFINE B == [q \in Nat |-> IF q = e THEN V ELSE IF q = s THEN B1[s] \cup B2[s]
                                 ELSE IF q \in Q1 THEN B1[q] ELSE B2[q]]
  <2>3. B \in WordSettings(L)
    BY <1>1 DEF WordSettings
  <2>4. /\ B[e] = V /\ B[s] = B1[s] \cup B2[s]
        /\ \A q \in Nat : q \notin {s, e} /\ q \in Q1 => B[q] = B1[q]
        /\ \A q \in Nat : q \notin {s, e} /\ q \in Q2 => B[q] = B2[q]
    BY <1>1
  <2> HIDE DEF B
  <2>5. ASSUME NEW d \in D1, NEW v \in B[d[3]] PROVE d[2] \o v \in B[d[1]]
    <3>1. d[1] \in Q1 /\ d[3] \in Q1 /\ d[1] # e /\ d[3] # s /\ d[1] \in Nat /\ d[3] \in Nat
      BY <1>1, ArcIs DEF Among, NoneFrom, NoneInto
    <3>2. v \in B1[d[3]]
      BY <2>1, <2>4, <2>5, <3>1
    <3>3. d[2] \o v \in B1[d[1]]
      BY <2>1, <3>2 DEF FitsArcs
    <3> QED BY <2>4, <3>1, <3>3
  <2>6. ASSUME NEW d \in D2, NEW v \in B[d[3]] PROVE d[2] \o v \in B[d[1]]
    <3>1. d[1] \in Q2 /\ d[3] \in Q2 /\ d[1] # e /\ d[3] # s /\ d[1] \in Nat /\ d[3] \in Nat
      BY <1>1, ArcIs DEF Among, NoneFrom, NoneInto
    <3>2. v \in B2[d[3]]
      BY <2>2, <2>4, <2>6, <3>1
    <3>3. d[2] \o v \in B2[d[1]]
      BY <2>2, <3>2 DEF FitsArcs
    <3> QED BY <2>4, <3>1, <3>3
  <2>7. FitsArcs(B, D)
    BY <2>5, <2>6 DEF FitsArcs
  <2>8. B[s] \subseteq WordsJoined(U, V)
    BY <2>1, <2>2, <2>4, InJoined
  <2> QED BY <2>3, <2>4, <2>7, <2>8
<1> QED BY <1>1, <1>2, <1>3, <1>4 DEF StandFor, Admits, Confines

\* A part that may be passed again and again.
MoreThanOnce(X, U) == U \subseteq X /\ \A x \in X : \A u \in U : x \o u \in X
OnceOrMore(U, L) == {w \in Seq(L) : \A X \in SUBSET Seq(L) : MoreThanOnce(X, U) => w \in X}

LEMMA RoundsAre ==
  ASSUME NEW L, NEW U \in SUBSET Seq(L)
  PROVE  /\ OnceOrMore(U, L) \in SUBSET Seq(L) /\ MoreThanOnce(OnceOrMore(U, L), U)
         /\ \A X \in SUBSET Seq(L) : MoreThanOnce(X, U) => OnceOrMore(U, L) \subseteq X
<1> DEFINE R == OnceOrMore(U, L)
<1>1. R \in SUBSET Seq(L) /\ U \subseteq R
  BY DEF OnceOrMore, MoreThanOnce
<1>2. ASSUME NEW x \in R, NEW u \in U PROVE x \o u \in R
  <2>1. x \o u \in Seq(L)
    BY <1>1
  <2>2. ASSUME NEW X \in SUBSET Seq(L), MoreThanOnce(X, U) PROVE x \o u \in X
    <3>1. x \in X
      BY <2>2 DEF OnceOrMore
    <3> QED BY <2>2, <3>1 DEF MoreThanOnce
  <2> QED BY <2>1, <2>2 DEF OnceOrMore
<1>3. \A X \in SUBSET Seq(L) : MoreThanOnce(X, U) => R \subseteq X
  BY DEF OnceOrMore
<1> QED BY <1>1, <1>2, <1>3 DEF MoreThanOnce

\* A round before the rounds.
LEMMA RoundsJoin ==
  ASSUME NEW L, NEW U \in SUBSET Seq(L)
  PROVE  \A u \in U, r \in OnceOrMore(U, L) : u \o r \in OnceOrMore(U, L)
<1> DEFINE R == OnceOrMore(U, L)
           X == {x \in Seq(L) : \A u \in U : u \o x \in R}
<1>1. /\ R \in SUBSET Seq(L) /\ MoreThanOnce(R, U)
      /\ \A Y \in SUBSET Seq(L) : MoreThanOnce(Y, U) => R \subseteq Y
  BY RoundsAre
<1> HIDE DEF R
<1>2. U \subseteq X
  BY <1>1 DEF MoreThanOnce
<1>3. ASSUME NEW x \in X, NEW w \in U PROVE x \o w \in X
  <2>1. x \o w \in Seq(L)
    OBVIOUS
  <2>2. ASSUME NEW u \in U PROVE u \o (x \o w) \in R
    <3>1. u \o x \in R
      OBVIOUS
    <3>2. (u \o x) \o w \in R
      BY <1>1, <3>1 DEF MoreThanOnce
    <3>3. (u \o x) \o w = u \o (x \o w)
      BY Rebracketed
    <3> QED BY <3>2, <3>3
  <2> QED BY <2>1, <2>2
<1>4. R \subseteq X
  <2>1. X \in SUBSET Seq(L)
    OBVIOUS
  <2> HIDE DEF X
  <2> QED BY <1>1, <1>2, <1>3, <2>1 DEF MoreThanOnce
<1> QED BY <1>4 DEF R

LEMMA RoundsStand ==
  ASSUME NEW L, NEW D, NEW U, NEW s, NEW e, StandFor(D, s, e, U, L)
  PROVE  StandFor(D \cup {<<e, <<>>, s>>}, s, e, OnceOrMore(U, L), L)
<1> DEFINE R == OnceOrMore(U, L)
           back == <<e, <<>>, s>>
           C == D \cup {back}
<1>1. D \in SUBSET ArcSet(L) /\ U \in SUBSET Seq(L) /\ s \in Nat /\ e \in Nat
  BY DEF StandFor
<1>2. back \in ArcSet(L) /\ back[1] = e /\ back[2] = <<>> /\ back[3] = s
  BY <1>1, ShortArc
<1>3. /\ R \in SUBSET Seq(L) /\ MoreThanOnce(R, U)
      /\ \A X \in SUBSET Seq(L) : MoreThanOnce(X, U) => R \subseteq X
  BY <1>1, RoundsAre
<1> HIDE DEF back, R
<1>4. ASSUME NEW A \in WordSettings(L), FitsArcs(A, C), NEW v \in A[e] PROVE \A u \in R : u \o v \in A[s]
  <2> DEFINE X == {x \in Seq(L) : \A y \in A[e] : x \o y \in A[s]}
  <2>1. FitsArcs(A, D) /\ A[s] \subseteq A[e]
    BY <1>1, <1>4, ShortArcFits DEF back
  <2>2. A[e] \subseteq Seq(L)
    BY <1>1 DEF WordSettings
  <2>4. \A u \in U, y \in A[e] : u \o y \in A[s]
    BY <2>1 DEF StandFor, Admits
  <2>5. ASSUME NEW x \in X, NEW u \in U PROVE x \o u \in X
    <3>1. x \o u \in Seq(L)
      BY <1>1
    <3>2. ASSUME NEW y \in A[e] PROVE (x \o u) \o y \in A[s]
      <4>1. u \o y \in A[e]
        BY <2>1, <2>4
      <4>2. x \o (u \o y) \in A[s]
        BY <4>1
      <4>3. (x \o u) \o y = x \o (u \o y)
        BY <1>1, <2>2, Rebracketed
      <4> QED BY <4>2, <4>3
    <3> QED BY <3>1, <3>2
  <2>6. X \in SUBSET Seq(L) /\ U \subseteq X
    BY <1>1, <2>4
  <2>7. R \subseteq X
    <3> HIDE DEF X
    <3> QED BY <1>3, <2>5, <2>6 DEF MoreThanOnce
  <2> QED BY <2>7
<1>5. ASSUME NEW V \in SUBSET Seq(L)
      PROVE  \E B \in WordSettings(L) : FitsArcs(B, C) /\ V \subseteq B[e] /\ B[s] \subseteq WordsJoined(R, V)
  <2> DEFINE RV == WordsJoined(R, V)
             V1 == V \cup RV
  <2>1. RV \in SUBSET Seq(L) /\ V1 \in SUBSET Seq(L)
    BY <1>3, JoinedWords
  <2>2. PICK B \in WordSettings(L) : FitsArcs(B, D) /\ V1 \subseteq B[e] /\ B[s] \subseteq WordsJoined(U, V1)
    BY <2>1 DEF StandFor, Confines
  <2>3. WordsJoined(U, V1) \subseteq RV
    <3> SUFFICES ASSUME NEW x \in WordsJoined(U, V1) PROVE x \in RV
      OBVIOUS
    <3> HIDE DEF V1
    <3>1. PICK u \in U, y \in V1 : x = u \o y
      BY InJoined
    <3>2. u \in R
      BY <1>3 DEF MoreThanOnce
    <3>3. CASE y \in V
      BY <3>1, <3>2, <3>3, InJoined
    <3>4. CASE y \in RV
      <4>1. PICK r \in R, v \in V : y = r \o v
        BY <3>4, InJoined
      <4>2. u \o r \in R
        BY <1>1, <1>3, RoundsJoin DEF R
      <4>3. x = (u \o r) \o v
        BY <1>1, <1>3, <3>1, <4>1, Rebracketed
      <4> QED BY <4>2, <4>3, InJoined
    <3> QED BY <3>3, <3>4 DEF V1
  <2>4. FitsArcs(B, C)
    <3>1. B[s] \subseteq B[e]
      BY <2>2, <2>3
    <3> QED BY <1>1, <2>2, <3>1, ShortArcFits DEF back
  <2> QED BY <2>2, <2>3, <2>4
<1>6. C \in SUBSET ArcSet(L)
  BY <1>1, <1>2
<1>7. StandFor(C, s, e, R, L)
  BY <1>1, <1>3, <1>4, <1>5, <1>6 DEF StandFor, Admits, Confines
<1> QED BY <1>7 DEF C, R, back

\* A part that may be left out.
LEMMA LeftOut ==
  ASSUME NEW L, NEW D, NEW U, NEW s, NEW e, StandFor(D, s, e, U, L), s # e, NoneInto(D, s), NoneFrom(D, e)
  PROVE  StandFor(D \cup {<<s, <<>>, e>>}, s, e, {<<>>} \cup U, L)
<1> DEFINE skip == <<s, <<>>, e>>
           C == D \cup {skip}
           T == {<<>>} \cup U
<1>1. D \in SUBSET ArcSet(L) /\ U \in SUBSET Seq(L) /\ s \in Nat /\ e \in Nat
  BY DEF StandFor
<1>2. C \in SUBSET ArcSet(L) /\ T \in SUBSET Seq(L)
  <2>1. skip \in ArcSet(L)
    BY <1>1, ShortArc
  <2> QED BY <1>1, <2>1, EmptySeq
<1> HIDE DEF skip
<1>3. ASSUME NEW A \in WordSettings(L), FitsArcs(A, C), NEW u \in T, NEW v \in A[e] PROVE u \o v \in A[s]
  <2>1. FitsArcs(A, D) /\ A[e] \subseteq A[s]
    BY <1>1, <1>3, ShortArcFits DEF skip
  <2>2. CASE u \in U
    BY <2>1, <2>2 DEF StandFor, Admits
  <2>3. CASE u = <<>>
    <3>1. v \in Seq(L)
      BY <1>1 DEF WordSettings
    <3>2. u \o v = v
      BY <2>3, <3>1, Rebracketed
    <3> QED BY <2>1, <3>2
  <2> QED BY <2>2, <2>3
<1>4. ASSUME NEW V \in SUBSET Seq(L)
      PROVE  \E B \in WordSettings(L) : FitsArcs(B, C) /\ V \subseteq B[e] /\ B[s] \subseteq WordsJoined(T, V)
  <2>1. PICK B0 \in WordSettings(L) : FitsArcs(B0, D) /\ V \subseteq B0[e] /\ B0[s] \subseteq WordsJoined(U, V)
    BY DEF StandFor, Confines
  <2> DEFINE B == [q \in Nat |-> IF q = e THEN V ELSE IF q = s THEN B0[s] \cup V ELSE B0[q]]
  <2>2. B \in WordSettings(L)
    BY <1>1 DEF WordSettings
  <2>3. B[e] = V /\ B[s] = B0[s] \cup V /\ \A q \in Nat : q \notin {s, e} => B[q] = B0[q]
    BY <1>1
  <2> HIDE DEF B
  <2>4. ASSUME NEW d \in D, NEW v \in B[d[3]] PROVE d[2] \o v \in B[d[1]]
    <3>1. d[1] # e /\ d[3] # s /\ d[1] \in Nat /\ d[3] \in Nat
      BY <1>1, ArcIs DEF NoneFrom, NoneInto
    <3>2. v \in B0[d[3]]
      BY <2>1, <2>3, <2>4, <3>1
    <3>3. d[2] \o v \in B0[d[1]]
      BY <2>1, <3>2 DEF FitsArcs
    <3> QED BY <2>3, <3>1, <3>3
  <2>5. FitsArcs(B, D)
    BY <2>4 DEF FitsArcs
  <2>6. FitsArcs(B, C)
    BY <1>1, <2>2, <2>3, <2>5, ShortArcFits DEF skip
  <2>7. V \subseteq WordsJoined(T, V)
    <3> SUFFICES ASSUME NEW v \in V PROVE v \in WordsJoined(T, V)
      OBVIOUS
    <3>1. v = <<>> \o v
      BY Rebracketed
    <3> QED BY <3>1, InJoined
  <2>8. WordsJoined(U, V) \subseteq WordsJoined(T, V)
    <3> SUFFICES ASSUME NEW x \in WordsJoined(U, V) PROVE x \in WordsJoined(T, V)
      OBVIOUS
    <3>1. PICK u \in U, v \in V : x = u \o v
      BY InJoined
    <3> QED BY <3>1, InJoined
  <2> QED BY <2>1, <2>2, <2>3, <2>6, <2>7, <2>8
<1>5. StandFor(C, s, e, T, L)
  BY <1>1, <1>2, <1>3, <1>4 DEF StandFor, Admits, Confines
<1> QED BY <1>5 DEF C, skip

\* The arcs out of a state, out of another one.
Copies(D, s, r) == {<<r, d[2], d[3]>> : d \in {c \in D : c[1] = s}}

LEMMA Copied ==
  ASSUME NEW L, NEW D, NEW U, NEW s, NEW e, StandFor(D, s, e, U, L), NEW Q, Among(D, Q), NoneInto(D, s),
         s # e, NEW r \in Nat, r \notin Q, r # s, r # e
  PROVE  StandFor(D \cup Copies(D, s, r), r, e, U, L)
<1> DEFINE K == Copies(D, s, r)
           C == D \cup K
<1>1. D \in SUBSET ArcSet(L) /\ U \in SUBSET Seq(L) /\ s \in Nat /\ e \in Nat
  BY DEF StandFor
<1>2. \A k \in K : \E d \in D : d[1] = s /\ k = <<r, d[2], d[3]>> /\ k[1] = r /\ k[2] = d[2] /\ k[3] = d[3]
  BY DEF Copies
<1>3. \A d \in D : d[1] = s => \E k \in K : k[1] = r /\ k[2] = d[2] /\ k[3] = d[3]
  <2> TAKE d \in D
  <2> HAVE d[1] = s
  <2>1. <<r, d[2], d[3]>> \in K
    BY DEF Copies
  <2> QED BY <2>1
<1>4. K \in SUBSET ArcSet(L)
  <2> SUFFICES ASSUME NEW k \in K PROVE k \in ArcSet(L)
    OBVIOUS
  <2>1. PICK d \in D : k = <<r, d[2], d[3]>>
    BY <1>2
  <2>2. d[2] \in Seq(L) /\ d[3] \in Nat
    BY <1>1, ArcIs
  <2> QED BY <2>1, <2>2 DEF ArcSet
<1> HIDE DEF K
<1>5. ASSUME NEW A \in WordSettings(L), FitsArcs(A, C), NEW u \in U, NEW v \in A[e] PROVE u \o v \in A[r]
  <2> DEFINE B == [q \in Nat |-> IF q = s THEN A[r] ELSE A[q]]
  <2>1. B \in WordSettings(L)
    BY <1>1 DEF WordSettings
  <2>2. B[s] = A[r] /\ B[e] = A[e] /\ \A q \in Nat : q # s => B[q] = A[q]
    BY <1>1
  <2> HIDE DEF B
  <2>3. ASSUME NEW d \in D, NEW y \in B[d[3]] PROVE d[2] \o y \in B[d[1]]
    <3>1. d[3] # s /\ d[1] \in Nat /\ d[3] \in Nat
      BY <1>1, ArcIs DEF NoneInto
    <3>2. y \in A[d[3]]
      BY <2>2, <2>3, <3>1
    <3>3. CASE d[1] = s
      <4>1. PICK k \in K : k[1] = r /\ k[2] = d[2] /\ k[3] = d[3]
        BY <1>3, <3>3
      <4>2. k[2] \o y \in A[k[1]]
        BY <1>5, <3>2, <4>1 DEF FitsArcs
      <4> QED BY <2>2, <3>3, <4>1, <4>2
    <3>4. CASE d[1] # s
      <4>1. d[2] \o y \in A[d[1]]
        BY <1>5, <3>2 DEF FitsArcs
      <4> QED BY <2>2, <3>1, <3>4, <4>1
    <3> QED BY <3>3, <3>4
  <2>4. FitsArcs(B, D)
    BY <2>3 DEF FitsArcs
  <2>5. u \o v \in B[s]
    BY <2>1, <2>2, <2>4 DEF StandFor, Admits
  <2> QED BY <2>2, <2>5
<1>6. ASSUME NEW V \in SUBSET Seq(L)
      PROVE  \E B \in WordSettings(L) : FitsArcs(B, C) /\ V \subseteq B[e] /\ B[r] \subseteq WordsJoined(U, V)
  <2>1. PICK B0 \in WordSettings(L) : FitsArcs(B0, D) /\ V \subseteq B0[e] /\ B0[s] \subseteq WordsJoined(U, V)
    BY DEF StandFor, Confines
  <2> DEFINE B == [q \in Nat |-> IF q = r THEN B0[s] ELSE B0[q]]
  <2>2. B \in WordSettings(L)
    BY <1>1 DEF WordSettings
  <2>3. B[r] = B0[s] /\ B[e] = B0[e] /\ \A q \in Nat : q # r => B[q] = B0[q]
    BY <1>1
  <2> HIDE DEF B
  <2>4. \A d \in D : d[1] \in Nat /\ d[3] \in Nat /\ d[1] # r /\ d[3] # r
    BY <1>1, ArcIs DEF Among
  <2>5. \A d \in D : \A v \in B0[d[3]] : d[2] \o v \in B0[d[1]]
    BY <2>1 DEF FitsArcs
  <2>6. \A d \in D : \A v \in B[d[3]] : d[2] \o v \in B[d[1]]
    BY <2>3, <2>4, <2>5
  <2>7. ASSUME NEW k \in K, NEW v \in B[k[3]] PROVE k[2] \o v \in B[k[1]]
    <3>1. PICK d \in D : d[1] = s /\ k[1] = r /\ k[2] = d[2] /\ k[3] = d[3]
      BY <1>2
    <3>2. d[2] \o v \in B0[s]
      BY <2>3, <2>4, <2>5, <2>7, <3>1
    <3> QED BY <2>3, <3>1, <3>2
  <2>8. FitsArcs(B, C)
    BY <2>6, <2>7 DEF FitsArcs
  <2> QED BY <2>1, <2>2, <2>3, <2>8
<1>7. StandFor(C, r, e, U, L)
  BY <1>1, <1>4, <1>5, <1>6 DEF StandFor, Admits, Confines
<1> QED BY <1>7 DEF C, K

\* Shortcuts into a part and out of it.
LEMMA Enclosed ==
  ASSUME NEW L, NEW D, NEW U, NEW a, NEW b, StandFor(D, a, b, U, L), NEW Q, Among(D, Q), a \in Q, b \in Q,
         NEW s \in Nat, NEW e \in Nat, s # e, s \notin Q, e \notin Q
  PROVE  StandFor(D \cup {<<s, <<>>, a>>} \cup {<<b, <<>>, e>>}, s, e, U, L)
<1> DEFINE C == D \cup {<<s, <<>>, a>>}
           F == C \cup {<<b, <<>>, e>>}
<1>1. D \in SUBSET ArcSet(L) /\ U \in SUBSET Seq(L) /\ a \in Nat /\ b \in Nat
  BY DEF StandFor
<1>2. C \in SUBSET ArcSet(L) /\ F \in SUBSET ArcSet(L)
  <2>1. <<s, <<>>, a>> \in ArcSet(L) /\ <<b, <<>>, e>> \in ArcSet(L)
    BY <1>1, ShortArc
  <2> QED BY <1>1, <2>1
<1>3. \A A \in WordSettings(L) : FitsArcs(A, F) <=> FitsArcs(A, D) /\ A[a] \subseteq A[s] /\ A[e] \subseteq A[b]
  BY <1>1, ShortArcFits
<1> HIDE DEF C, F
<1>4. ASSUME NEW A \in WordSettings(L), FitsArcs(A, F), NEW u \in U, NEW v \in A[e] PROVE u \o v \in A[s]
  <2>1. FitsArcs(A, D) /\ A[a] \subseteq A[s] /\ A[e] \subseteq A[b]
    BY <1>3, <1>4
  <2> QED BY <2>1 DEF StandFor, Admits
<1>5. ASSUME NEW V \in SUBSET Seq(L)
      PROVE  \E B \in WordSettings(L) : FitsArcs(B, F) /\ V \subseteq B[e] /\ B[s] \subseteq WordsJoined(U, V)
  <2>1. PICK B0 \in WordSettings(L) : FitsArcs(B0, D) /\ V \subseteq B0[b] /\ B0[a] \subseteq WordsJoined(U, V)
    BY DEF StandFor, Confines
  <2> DEFINE B == [q \in Nat |-> IF q = e THEN V ELSE IF q = s THEN B0[a] ELSE B0[q]]
  <2>2. B \in WordSettings(L)
    BY <1>1 DEF WordSettings
  <2>3. B[e] = V /\ B[s] = B0[a] /\ \A q \in Nat : q # s /\ q # e => B[q] = B0[q]
    OBVIOUS
  <2> HIDE DEF B
  <2>4. B[a] = B0[a] /\ B[b] = B0[b]
    BY <1>1, <2>3
  <2>5. \A d \in D : B[d[1]] = B0[d[1]] /\ B[d[3]] = B0[d[3]]
    <3> TAKE d \in D
    <3>1. d[1] \in Nat /\ d[3] \in Nat /\ d[1] \in Q /\ d[3] \in Q
      BY <1>1, ArcIs DEF Among
    <3> QED BY <2>3, <3>1
  <2>6. FitsArcs(B, D)
    BY <2>1, <2>5 DEF FitsArcs
  <2>7. FitsArcs(B, F)
    BY <1>3, <2>1, <2>2, <2>3, <2>4, <2>6
  <2> QED BY <2>1, <2>2, <2>3, <2>7
<1>6. StandFor(F, s, e, U, L)
  BY <1>1, <1>2, <1>4, <1>5 DEF StandFor, Admits, Confines
<1> QED BY <1>6 DEF C, F

\* The arcs of an automaton.
ArcWord(t) == IF IsShortcut(t) THEN <<>> ELSE <<t.m>>
ArcsFrom(tr, q) == {<<q, ArcWord(t), t.next>> : t \in ToSet(tr[q])}
Arcs(tr) == UNION {ArcsFrom(tr, q) : q \in 1 .. Len(tr)}

LEMMA InArcs ==
  ASSUME NEW tr, NEW x
  PROVE  x \in Arcs(tr) <=> \E q \in 1 .. Len(tr) : \E t \in ToSet(tr[q]) : x = <<q, ArcWord(t), t.next>>
BY DEF Arcs, ArcsFrom

PassesOn(w, t, W) == \E v \in W : w = ArcWord(t) \o v

LEMMA PassingPassed ==
  ASSUME NEW L, NEW t, NEW W \in SUBSET Seq(L), NEW w
  PROVE  w \in Passing(t, W) <=> PassesOn(w, t, W)
<1>1. CASE IsShortcut(t)
  <2>1. Passing(t, W) = W /\ ArcWord(t) = <<>> /\ \A v \in W : <<>> \o v = v
    BY <1>1, Rebracketed DEF ArcWord, Passing
  <2> QED BY <2>1 DEF PassesOn
<1>2. CASE ~IsShortcut(t)
  BY <1>2 DEF ArcWord, Passing, PassesOn
<1> QED BY <1>1, <1>2

\* What an automaton accepts is what its arcs stand for, from its start to its terminal state.
LEMMA LanguageOfArcs ==
  ASSUME NEW g, NEW E, IsGraph(g, E), NEW s \in States(g), NEW e \in States(g), g.terminal = {e},
         NEW U, StandFor(Arcs(g.tr), s, e, U, LabelsOf(E)), NEW W \in Nat
  PROVE  Words(g, W, s) = {w \in U : Len(w) <= W}
<1> DEFINE L == LabelsOf(E)
           D == Arcs(g.tr)
<1>1. PICK M : IsLeast(M, g, E)
  BY LeastLanguage
<1>2. Words(g, W, s) = {w \in M[s] : Len(w) <= W}
  BY <1>1, WordsAreTheLanguage
<1>3. /\ M \in [States(g) -> SUBSET Seq(L)] /\ ClosedIn(M, g)
      /\ \A A \in [States(g) -> SUBSET Seq(L)] : ClosedIn(A, g) => M[s] \subseteq A[s]
  BY <1>1 DEF IsLeast, Assignments
<1>4. U \in SUBSET Seq(L) /\ States(g) \subseteq Nat /\ States(g) = 1 .. Len(g.tr)
  BY DEF StandFor, States
<1>5. \A q \in States(g) : \A t \in ToSet(g.tr[q]) : t.next \in States(g)
  <2> SUFFICES ASSUME NEW q \in States(g), NEW t \in ToSet(g.tr[q]) PROVE t.next \in States(g)
    OBVIOUS
  <2>1. g.tr[q] \in Seq(E) /\ \A x \in E : x.next \in States(g)
    BY GraphIs
  <2>2. t \in E
    BY <2>1, Members
  <2> QED BY <2>1, <2>2
<1>6. U \subseteq M[s]
  <2> DEFINE A == [q \in Nat |-> IF q \in States(g) THEN M[q] ELSE {}]
  <2>1. A \in WordSettings(L)
    BY <1>3 DEF WordSettings
  <2>2. \A q \in States(g) : A[q] = M[q]
    BY <1>4
  <2> HIDE DEF A
  <2>3. ASSUME NEW d \in D, NEW v \in A[d[3]] PROVE d[2] \o v \in A[d[1]]
    <3>0. PICK q \in States(g) : \E t \in ToSet(g.tr[q]) : d = <<q, ArcWord(t), t.next>>
      BY <1>4, InArcs
    <3>1. PICK t \in ToSet(g.tr[q]) : d = <<q, ArcWord(t), t.next>>
      BY <3>0
    <3>2. t.next \in States(g) /\ d[1] = q /\ d[2] = ArcWord(t) /\ d[3] = t.next
      BY <1>5, <3>1
    <3>3. v \in M[t.next] /\ M[t.next] \in SUBSET Seq(L)
      BY <1>3, <2>2, <2>3, <3>2
    <3>4. ArcWord(t) \o v \in Passing(t, M[t.next])
      <4>1. PassesOn(ArcWord(t) \o v, t, M[t.next])
        BY <3>3 DEF PassesOn
      <4> QED BY <3>3, <4>1, PassingPassed
    <3>5. Passing(t, M[t.next]) \subseteq M[q]
      BY <1>3 DEF ClosedIn
    <3> QED BY <2>2, <3>2, <3>4, <3>5
  <2>4. FitsArcs(A, D)
    BY <2>3 DEF FitsArcs
  <2>5. <<>> \in A[e]
    BY <1>3, <2>2 DEF ClosedIn
  <2>6. \A u \in U : u \o <<>> \in A[s]
    BY <2>1, <2>4, <2>5 DEF StandFor, Admits
  <2>7. \A u \in U : u \o <<>> = u
    BY <1>4, ConcatEmptySeq
  <2> QED BY <2>2, <2>6, <2>7
<1>7. M[s] \subseteq U
  <2>1. {<<>>} \in SUBSET Seq(L)
    BY EmptySeq
  <2>2. PICK B \in WordSettings(L) : FitsArcs(B, D) /\ {<<>>} \subseteq B[e] /\ B[s] \subseteq WordsJoined(U, {<<>>})
    BY <2>1 DEF StandFor, Confines
  <2> DEFINE A == [q \in States(g) |-> B[q]]
  <2>3. A \in [States(g) -> SUBSET Seq(L)] /\ \A q \in States(g) : A[q] = B[q]
    BY <1>4 DEF WordSettings
  <2> HIDE DEF A
  <2>4. ASSUME NEW q \in States(g), NEW t \in ToSet(g.tr[q]), NEW w \in Passing(t, A[t.next]) PROVE w \in A[q]
    <3>1. t.next \in States(g) /\ A[t.next] \in SUBSET Seq(L)
      BY <1>5, <2>3
    <3> DEFINE V == A[t.next]
    <3> HIDE DEF V, L
    <3>2. PICK v \in V : w = ArcWord(t) \o v
      <4>1. V \in SUBSET Seq(L) /\ w \in Passing(t, V)
        BY <2>4, <3>1 DEF V
      <4>2. PassesOn(w, t, V)
        BY <4>1, PassingPassed
      <4> QED BY <4>2 DEF PassesOn
    <3> USE DEF V
    <3> DEFINE d == <<q, ArcWord(t), t.next>>
    <3>3. d \in D /\ d[1] = q /\ d[2] = ArcWord(t) /\ d[3] = t.next
      BY <1>4, InArcs
    <3> HIDE DEF d
    <3>4. d[2] \o v \in B[q]
      BY <2>2, <2>3, <3>1, <3>2, <3>3 DEF FitsArcs
    <3> QED BY <2>3, <3>2, <3>3, <3>4
  <2>5. ClosedIn(A, g)
    BY <2>2, <2>3, <2>4 DEF ClosedIn
  <2>6. WordsJoined(U, {<<>>}) \subseteq U
    <3> DEFINE V == {<<>>}
    <3>1. \A v \in V : v = <<>>
      OBVIOUS
    <3> HIDE DEF V
    <3>2. ASSUME NEW x \in WordsJoined(U, V) PROVE x \in U
      <4>1. PICK u \in U, v \in V : x = u \o v
        BY InJoined
      <4>2. u \o <<>> = u
        BY <1>4, ConcatEmptySeq
      <4> QED BY <3>1, <4>1, <4>2
    <3> QED BY <3>2 DEF V
  <2> QED BY <1>3, <2>2, <2>3, <2>5, <2>6
<1> QED BY <1>2, <1>6, <1>7
=============================================================================
