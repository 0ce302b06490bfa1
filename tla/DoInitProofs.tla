---------------------------- MODULE DoInitProofs ----------------------------
(***************************************************************************)
(* Theorems about the tokenizer, about what doInit makes of the            *)
(* declarations, about what the automaton of a spec means, and about the   *)
(* spec that is made up: for all programs, all classes of characters and   *)
(* words of any length.                                                    *)
(***************************************************************************)
EXTENDS DoInit, ParserProofs

(***************************************************************************)
(* The ways to cut a text.                                                 *)
(***************************************************************************)
Lexemes == [typ : Tok!TokenTypes, from : Nat, to : Nat]

\* The ways to cut the text t from the place p on, when the characters at the places
\* out may be left out and h gives the ways from the places behind.
Cutting(t, out, p, h) ==
  IF p = Len(t) THEN {<<>>}
  ELSE (IF t[p + 1] \in Tok!Blanks \/ p + 1 \in out THEN h[p + 1] ELSE {})
       \cup UNION {{<<x>> \o r : r \in h[x.to]} : x \in Tok!Ahead(t, p)}

LEMMA AheadIs ==
  ASSUME NEW t \in Strings, NEW p \in 0 .. Len(t), NEW x \in Tok!Ahead(t, p)
  PROVE  x \in Lexemes /\ x.from = p /\ x.to \in p + 1 .. Len(t)
<1>0. Len(t) \in Nat
  BY DEF Strings
<1>1. PICK j \in Tok!Spans(t, p) : \E typ \in Tok!Types(SubSeq(t, p + 1, j)) : x = Tok!Lexeme(typ, p, j)
  BY DEF Tok!Ahead
<1>2. PICK typ \in Tok!Types(SubSeq(t, p + 1, j)) : x = Tok!Lexeme(typ, p, j)
  BY <1>1
<1>3. typ \in Tok!TokenTypes
  BY <1>2 DEF Tok!Types
<1>4. j \in p + 1 .. Len(t)
  BY <1>1 DEF Tok!Spans
<1> HIDE DEF Tok!TokenTypes
<1> QED BY <1>0, <1>2, <1>3, <1>4 DEF Tok!Lexeme, Lexemes

\* Cuttings satisfies its recursive definition, and gives sequences of lexemes.
LEMMA CuttingsAre ==
  ASSUME NEW t \in Strings, NEW out
  PROVE  \A p \in 0 .. Len(t) : /\ Tok!Cuttings(t, out)[p] \subseteq Seq(Lexemes)
                                /\ Tok!Cuttings(t, out)[p] = Cutting(t, out, p, Tok!Cuttings(t, out))
<1> DEFINE P == 0 .. Len(t)
           V == SUBSET Seq(Lexemes)
           G == [q \in P \X [P -> V] |-> Cutting(t, out, q[1], q[2])]
           rank == [p \in P |-> Len(t) - p]
<1>0. Len(t) \in Nat
  BY DEF Strings
<1>1. rank \in [P -> Nat] /\ \A p \in P : rank[p] = Len(t) - p
  BY <1>0
<1>2. ASSUME NEW p \in P, p # Len(t)
      PROVE  /\ p + 1 \in P /\ rank[p + 1] < rank[p]
             /\ \A x \in Tok!Ahead(t, p) : x.to \in P /\ rank[x.to] < rank[p] /\ x \in Lexemes
  BY <1>0, <1>2, AheadIs
<1> HIDE DEF rank
<1>3. ASSUME NEW p \in P, NEW h \in [P -> V] PROVE Cutting(t, out, p, h) \in V
  <2>1. CASE p = Len(t)
    <3>1. <<>> \in Seq(Lexemes)
      OBVIOUS
    <3> QED BY <2>1, <3>1 DEF Cutting
  <2>2. CASE p # Len(t)
    <3> HIDE DEF P
    <3>1. h[p + 1] \subseteq Seq(Lexemes)
      BY <1>2, <1>3, <2>2
    <3>2. ASSUME NEW x \in Tok!Ahead(t, p), NEW r \in h[x.to] PROVE <<x>> \o r \in Seq(Lexemes)
      <4>1. x \in Lexemes /\ r \in Seq(Lexemes)
        BY <1>2, <1>3, <2>2, <3>2
      <4> HIDE DEF Lexemes
      <4> QED BY <4>1
    <3>3. UNION {{<<x>> \o r : r \in h[x.to]} : x \in Tok!Ahead(t, p)} \subseteq Seq(Lexemes)
      <4> SUFFICES ASSUME NEW x \in Tok!Ahead(t, p) PROVE {<<x>> \o r : r \in h[x.to]} \subseteq Seq(Lexemes)
        BY Zenon
      <4> QED BY <3>2, Zenon
    <3>4. Cutting(t, out, p, h) \subseteq Seq(Lexemes)
      BY <2>2, <3>1, <3>3, Zenon DEF Cutting
    <3> QED BY <3>4
  <2> QED BY <2>1, <2>2
<1>4. ASSUME NEW p \in P, NEW h, NEW k, \A q \in P : rank[q] < rank[p] => h[q] = k[q]
      PROVE  Cutting(t, out, p, h) = Cutting(t, out, p, k)
  <2>1. CASE p = Len(t)
    BY <2>1 DEF Cutting
  <2>2. CASE p # Len(t)
    <3> HIDE DEF P
    <3>1. h[p + 1] = k[p + 1] /\ \A x \in Tok!Ahead(t, p) : h[x.to] = k[x.to]
      BY <1>2, <1>4, <2>2
    <3> DEFINE A == Tok!Ahead(t, p)
               W(x, g) == {<<x>> \o r : r \in g[x.to]}
    <3>2. \A x \in A : W(x, h) = W(x, k)
      BY <3>1
    <3> HIDE DEF W, A
    <3>3. {W(x, h) : x \in A} = {W(x, k) : x \in A}
      BY <3>2
    <3> USE DEF W, A
    <3> QED BY <3>1, <3>3, Zenon DEF Cutting
  <2> QED BY <2>1, <2>2
<1>5. Ranked(P, V, rank, G)
  <2>1. G \in [P \X [P -> V] -> V]
    <3>1. \A q \in P \X [P -> V] : Cutting(t, out, q[1], q[2]) \in V
      BY <1>3
    <3> QED BY <3>1
  <2>2. ASSUME NEW p \in P, NEW h \in [P -> V], NEW k \in [P -> V], \A q \in P : rank[q] < rank[p] => h[q] = k[q]
        PROVE  G[<<p, h>>] = G[<<p, k>>]
    <3>1. Cutting(t, out, p, h) = Cutting(t, out, p, k)
      BY <1>4, <2>2
    <3> QED BY <3>1
  <2>3. V # {}
    OBVIOUS
  <2> HIDE DEF G, V, P
  <2> QED BY <1>1, <2>1, <2>2, <2>3 DEF Ranked
<1>6. PICK f : Computed(f, P, V, G)
  <2> HIDE DEF P, V, G
  <2> QED BY <1>5, Recursion
<1>7. f \in [P -> V] /\ \A p \in P : f[p] = Cutting(t, out, p, f)
  BY <1>6 DEF Computed
<1> HIDE DEF P, V
<1>8. f = [p \in P |-> Cutting(t, out, p, f)]
  BY <1>7
<1>9. Tok!Cuttings(t, out) = CHOOSE h : h = [p \in P |-> Cutting(t, out, p, h)]
  BY Zenon DEF Tok!Cuttings, Cutting, P
<1>10. Tok!Cuttings(t, out) = [p \in P |-> Cutting(t, out, p, Tok!Cuttings(t, out))]
  BY <1>8, <1>9, Zenon
<1> DEFINE fix == Tok!Cuttings(t, out)
<1> HIDE DEF fix
<1>11. \A p \in P : fix[p] = Cutting(t, out, p, fix)
  BY <1>10 DEF fix
<1> DEFINE S == {p \in P : fix[p] = f[p]}
<1>12. ASSUME NEW p \in P, \A q \in P : rank[q] < rank[p] => q \in S PROVE p \in S
  <2>1. \A q \in P : rank[q] < rank[p] => fix[q] = f[q]
    BY <1>12
  <2>2. Cutting(t, out, p, fix) = Cutting(t, out, p, f)
    BY <1>4, <2>1
  <2> QED BY <1>7, <1>11, <2>2
<1>13. P \subseteq S
  <2> HIDE DEF S
  <2> QED BY <1>1, <1>12, RankInduction
<1>14. \A p \in P : fix[p] \in V
  BY <1>7, <1>13
<1> QED BY <1>11, <1>14 DEF fix, P, V

\* The cuttings that leave out lone dashes.
LCut(t) == Tok!Cuttings(t, Tok!LoneDashes(t))
LCutting(t, p, h) == Cutting(t, Tok!LoneDashes(t), p, h)

LEMMA LCutIs ==
  ASSUME NEW t \in Strings
  PROVE  \A p \in 0 .. Len(t) : /\ LCut(t)[p] \subseteq Seq(Lexemes)
                                /\ LCut(t)[p] = LCutting(t, p, LCut(t))
BY CuttingsAre DEF LCut, LCutting

LEMMA LooseCutsAre == \A t : Tok!LooseCuts(t) = LCut(t)[0]
BY DEF Tok!LooseCuts, Tok!Cuts, LCut

(***************************************************************************)
(* The lexemes that start at a place of a text, from its characters.       *)
(***************************************************************************)

\* The pieces of a text.
LEMMA PieceIs ==
  ASSUME NEW t \in Strings, NEW p \in Nat, NEW j \in p .. Len(t)
  PROVE  /\ SubSeq(t, p + 1, j) \in Strings /\ Len(SubSeq(t, p + 1, j)) = j - p
         /\ \A k \in 1 .. j - p : SubSeq(t, p + 1, j)[k] = t[p + k]
         /\ \A k \in p + 1 .. j : SubSeq(t, p + 1, j)[k - p] = t[k]
         /\ SubSeq(t, p + 1, j) = <<>> <=> j = p
<1>1. Len(t) \in Nat
  BY DEF Strings
<1>2. \A i \in p + 1 .. j : t[i] \in Characters
  BY <1>1, ElementOfSeq DEF Strings
<1>3. /\ SubSeq(t, p + 1, j) \in Seq(Characters) /\ Len(SubSeq(t, p + 1, j)) = j - p
      /\ \A k \in 1 .. j - p : SubSeq(t, p + 1, j)[k] = t[p + k]
  <2>1. SubSeq(t, p + 1, j) = [k \in 1 .. j - p |-> t[p + k]]
    BY <1>1
  <2>2. \A k \in 1 .. j - p : t[p + k] \in Characters
    BY <1>1, <1>2
  <2>3. j - p \in Nat
    BY <1>1
  <2> DEFINE u == [k \in 1 .. j - p |-> t[p + k]]
  <2>4. u \in Seq(Characters) /\ Len(u) = j - p
    BY <2>2, <2>3
  <2> QED BY <2>1, <2>4
<1>4. \A k \in p + 1 .. j : k - p \in 1 .. j - p /\ p + (k - p) = k
  BY <1>1
<1> HIDE DEF Strings
<1>5. SubSeq(t, p + 1, j) = <<>> <=> j = p
  BY <1>1, <1>3
<1> QED BY <1>3, <1>4, <1>5 DEF Strings

Keyword(t, p, j) == SubSeq(t, p + 1, j) = OptionsWord

\* Is the piece between the places p and j of the text t of the type typ?
IsAt(typ, t, p, j) ==
  \/ typ \in Tok!Range(Tok!Punctuation) /\ j = p + 1 /\ t[p + 1] \in DOMAIN Tok!Punctuation /\ Tok!Punctuation[t[p + 1]] = typ
  \/ typ = "rep"      /\ j = p + 3 /\ t[p + 1] = "." /\ t[p + 2] = "." /\ t[p + 3] = "."
  \/ typ = "shortOpt" /\ j = p + 2 /\ t[p + 1] = "-" /\ t[p + 2] \in Tok!Letters
  \/ typ = "optSeq"   /\ j > p + 2 /\ t[p + 1] = "-" /\ \A k \in p + 2 .. j : t[k] \in Tok!Letters
  \/ typ = "dblDash"  /\ j = p + 2 /\ t[p + 1] = "-" /\ t[p + 2] = "-"
  \/ /\ typ = "longOpt" /\ j > p + 2 /\ t[p + 1] = "-" /\ t[p + 2] = "-" /\ t[p + 3] \in Tok!Dashless
     /\ \A k \in p + 3 .. j : t[k] \in Tok!Dashless \cup {"-"}
  \/ /\ typ = "optValue" /\ j > p + 3 /\ t[p + 1] = "=" /\ t[p + 2] = "<" /\ t[j] = ">"
     /\ \A k \in p + 1 .. j - 1 : t[k] # ">"
  \/ typ = "options"  /\ Keyword(t, p, j)
  \/ typ = "pos"      /\ ~Keyword(t, p, j) /\ t[p + 1] \in Upper /\ \A k \in p + 2 .. j : t[k] \in Tok!OkPos

LEMMA TypeAt ==
  ASSUME NEW t \in Strings, NEW p \in Nat, NEW j \in p + 1 .. Len(t), NEW typ \in Tok!TokenTypes
  PROVE  typ \in Tok!Types(SubSeq(t, p + 1, j)) <=> IsAt(typ, t, p, j)
<1> DEFINE u == SubSeq(t, p + 1, j)
<1>0. Len(t) \in Nat /\ j \in p .. Len(t) /\ j \in Nat /\ j - p >= 1
  BY DEF Strings
<1>1. /\ u \in Strings /\ Len(u) = j - p /\ u # <<>>
      /\ \A k \in 1 .. j - p : u[k] = t[p + k]
      /\ \A k \in p + 1 .. j : u[k - p] = t[k]
  BY <1>0, PieceIs
<1>2. ASSUME NEW a \in Nat, NEW C, a >= 1 PROVE Tok!AllFrom(u, a, C) <=> \A k \in p + a .. j : t[k] \in C
  <2>1. ASSUME Tok!AllFrom(u, a, C), NEW k \in p + a .. j PROVE t[k] \in C
    <3>1. k - p \in a .. j - p /\ k \in p + 1 .. j
      BY <1>0, <1>2
    <3> QED BY <1>1, <2>1, <3>1 DEF Tok!AllFrom
  <2>2. ASSUME \A k \in p + a .. j : t[k] \in C, NEW k \in a .. j - p PROVE u[k] \in C
    <3>1. p + k \in p + a .. j /\ k \in 1 .. j - p
      BY <1>0, <1>2
    <3> QED BY <1>1, <2>2, <3>1
  <2> QED BY <1>1, <2>1, <2>2 DEF Tok!AllFrom
<1>3. /\ u[1] = t[p + 1] /\ u[j - p] = t[j]
      /\ j > p + 1 => u[2] = t[p + 2]
      /\ j > p + 2 => u[3] = t[p + 3]
  <2>1. j - p \in 1 .. j - p /\ 1 \in 1 .. j - p /\ (j > p + 1 => 2 \in 1 .. j - p) /\ (j > p + 2 => 3 \in 1 .. j - p)
    BY <1>0
  <2>2. p + (j - p) = j
    BY <1>0
  <2> QED BY <1>1, <2>1, <2>2
<1>4. {i \in 1 .. j - p : u[i] = ">"} = {j - p} <=> t[j] = ">" /\ \A k \in p + 1 .. j - 1 : t[k] # ">"
  <2>1. ASSUME {i \in 1 .. j - p : u[i] = ">"} = {j - p} PROVE t[j] = ">" /\ \A k \in p + 1 .. j - 1 : t[k] # ">"
    <3>1. u[j - p] = ">"
      BY <2>1
    <3>2. ASSUME NEW k \in p + 1 .. j - 1, t[k] = ">" PROVE FALSE
      <4>1. k - p \in 1 .. j - p /\ k \in p + 1 .. j /\ k - p # j - p
        BY <1>0
      <4>2. u[k - p] = ">"
        BY <1>1, <3>2, <4>1
      <4> QED BY <2>1, <4>1, <4>2
    <3> QED BY <1>3, <3>1, <3>2
  <2>2. ASSUME t[j] = ">" /\ \A k \in p + 1 .. j - 1 : t[k] # ">" PROVE {i \in 1 .. j - p : u[i] = ">"} = {j - p}
    <3>1. ASSUME NEW i \in 1 .. j - p, u[i] = ">" PROVE i = j - p
      <4>1. i # j - p => p + i \in p + 1 .. j - 1
        BY <1>0
      <4> QED BY <1>1, <2>2, <3>1, <4>1
    <3>2. j - p \in 1 .. j - p
      BY <1>0
    <3> QED BY <1>3, <2>2, <3>1, <3>2
  <2> QED BY <2>1, <2>2
<1> HIDE DEF u
<1>5. typ \in Tok!Types(u) <=> Tok!IsOf(typ, u)
  BY <1>1 DEF Tok!Types
<1>6. /\ Len(u) = 1 <=> j = p + 1
      /\ Len(u) = 2 <=> j = p + 2
      /\ Len(u) = 3 <=> j = p + 3
      /\ Len(u) > 2 <=> j > p + 2
      /\ Len(u) > 3 <=> j > p + 3
      /\ 1 \in Nat /\ 2 \in Nat /\ 3 \in Nat
  BY <1>0, <1>1
<1>7. /\ j = p + 3 => (Tok!AllFrom(u, 1, {"."}) <=> t[p + 1] = "." /\ t[p + 2] = "." /\ t[p + 3] = ".")
      /\ j = p + 2 => (Tok!AllFrom(u, 1, {"-"}) <=> t[p + 1] = "-" /\ t[p + 2] = "-")
  <2>1. ASSUME j = p + 3 PROVE \A k : k \in p + 1 .. j <=> k = p + 1 \/ k = p + 2 \/ k = p + 3
    BY <2>1
  <2>2. ASSUME j = p + 2 PROVE \A k : k \in p + 1 .. j <=> k = p + 1 \/ k = p + 2
    BY <2>2
  <2> QED BY <1>2, <2>1, <2>2
<1>8. /\ Tok!AllFrom(u, 2, Tok!Letters) <=> \A k \in p + 2 .. j : t[k] \in Tok!Letters
      /\ Tok!AllFrom(u, 3, Tok!Dashless \cup {"-"}) <=> \A k \in p + 3 .. j : t[k] \in Tok!Dashless \cup {"-"}
      /\ Tok!AllFrom(u, 2, Upper \cup Digits \cup {"_"}) <=> \A k \in p + 2 .. j : t[k] \in Tok!OkPos
  <2>1. 2 \in Nat /\ 3 \in Nat /\ 2 >= 1 /\ 3 >= 1
    OBVIOUS
  <2> HIDE DEF Tok!Letters, Tok!Dashless
  <2> QED BY <1>2, <2>1, Zenon DEF Tok!OkPos
<1>9. /\ {i \in 1 .. Len(u) : u[i] = ">"} = {Len(u)} <=> t[j] = ">" /\ \A k \in p + 1 .. j - 1 : t[k] # ">"
      /\ u = OptionsWord <=> Keyword(t, p, j)
  BY <1>1, <1>4 DEF Keyword, u
<1>10. j > p + 2 => j > p + 1
  BY <1>0
<1>11. Tok!IsOf(typ, u) <=> IsAt(typ, t, p, j)
  <2> HIDE DEF Keyword, Tok!AllFrom, Tok!Letters, Tok!Dashless, Tok!OkPos, Tok!Punctuation
  <2> DEFINE A1 == typ \in Tok!Range(Tok!Punctuation) /\ Len(u) = 1 /\ u[1] \in DOMAIN Tok!Punctuation /\ Tok!Punctuation[u[1]] = typ
             A2 == Len(u) = 3 /\ Tok!AllFrom(u, 1, {"."})
             A3 == Len(u) = 2 /\ u[1] = "-" /\ u[2] \in Tok!Letters
             A4 == Len(u) > 2 /\ u[1] = "-" /\ Tok!AllFrom(u, 2, Tok!Letters)
             A5 == Len(u) = 2 /\ Tok!AllFrom(u, 1, {"-"})
             A6 == Len(u) > 2 /\ u[1] = "-" /\ u[2] = "-" /\ u[3] \in Tok!Dashless /\ Tok!AllFrom(u, 3, Tok!Dashless \cup {"-"})
             A7 == Len(u) > 3 /\ u[1] = "=" /\ u[2] = "<" /\ {i \in 1 .. Len(u) : u[i] = ">"} = {Len(u)}
             A8 == u = OptionsWord
             A9 == u # OptionsWord /\ u[1] \in Upper /\ Tok!AllFrom(u, 2, Upper \cup Digits \cup {"_"})
             B1 == typ \in Tok!Range(Tok!Punctuation) /\ j = p + 1 /\ t[p + 1] \in DOMAIN Tok!Punctuation /\ Tok!Punctuation[t[p + 1]] = typ
             B2 == j = p + 3 /\ t[p + 1] = "." /\ t[p + 2] = "." /\ t[p + 3] = "."
             B3 == j = p + 2 /\ t[p + 1] = "-" /\ t[p + 2] \in Tok!Letters
             B4 == j > p + 2 /\ t[p + 1] = "-" /\ \A k \in p + 2 .. j : t[k] \in Tok!Letters
             B5 == j = p + 2 /\ t[p + 1] = "-" /\ t[p + 2] = "-"
             B6 == /\ j > p + 2 /\ t[p + 1] = "-" /\ t[p + 2] = "-" /\ t[p + 3] \in Tok!Dashless
                /\ \A k \in p + 3 .. j : t[k] \in Tok!Dashless \cup {"-"}
             B7 == /\ j > p + 3 /\ t[p + 1] = "=" /\ t[p + 2] = "<" /\ t[j] = ">"
                /\ \A k \in p + 1 .. j - 1 : t[k] # ">"
             B8 == Keyword(t, p, j)
             B9 == ~Keyword(t, p, j) /\ t[p + 1] \in Upper /\ \A k \in p + 2 .. j : t[k] \in Tok!OkPos
  <2>1. A1 <=> B1
    BY <1>3, <1>6, Zenon
  <2>2. A2 <=> B2
    BY <1>6, <1>7, Zenon
  <2>3. A3 <=> B3
    <3>1. j = p + 2 => j > p + 1
      OBVIOUS
    <3> QED BY <1>3, <1>6, <3>1, Zenon
  <2>4. A4 <=> B4
    BY <1>3, <1>6, <1>8, Zenon
  <2>5. A5 <=> B5
    BY <1>6, <1>7, Zenon
  <2>6. A6 <=> B6
    BY <1>3, <1>6, <1>8, <1>10, Zenon
  <2>7. A7 <=> B7
    <3>1. j > p + 3 => j > p + 1
      BY <1>0
    <3> QED BY <1>3, <1>6, <1>9, <3>1, Zenon
  <2>8. A8 <=> B8
    BY <1>9
  <2>9. A9 <=> B9
    BY <1>3, <1>8, <1>9, Zenon
  <2>10. Tok!IsOf(typ, u) <=>
           \/ A1
           \/ typ = "rep" /\ A2
           \/ typ = "shortOpt" /\ A3
           \/ typ = "optSeq" /\ A4
           \/ typ = "dblDash" /\ A5
           \/ typ = "longOpt" /\ A6
           \/ typ = "optValue" /\ A7
           \/ typ = "options" /\ A8
           \/ typ = "pos" /\ A9
    BY ZenonT(40) DEF Tok!IsOf
  <2>11. IsAt(typ, t, p, j) <=>
           \/ B1
           \/ typ = "rep" /\ B2
           \/ typ = "shortOpt" /\ B3
           \/ typ = "optSeq" /\ B4
           \/ typ = "dblDash" /\ B5
           \/ typ = "longOpt" /\ B6
           \/ typ = "optValue" /\ B7
           \/ typ = "options" /\ B8
           \/ typ = "pos" /\ B9
    BY DEF IsAt
  <2> HIDE DEF A1, A2, A3, A4, A5, A6, A7, A8, A9, B1, B2, B3, B4, B5, B6, B7, B8, B9
  <2> QED BY <2>1, <2>2, <2>3, <2>4, <2>5, <2>6, <2>7, <2>8, <2>9, <2>10, <2>11, Zenon
<1> QED BY <1>5, <1>11 DEF u

\* No class of characters has a separator in it, and Punctuation, the blanks and
\* the other separators do not overlap.
LEMMA ClassesApart ==
  /\ DOMAIN Tok!Punctuation = {"[", "]", "(", ")", "|"}
  /\ \A c \in Upper \cup Lower \cup Digits \cup {Space, Tab} : c \notin Separators
  /\ {Space, Tab} \cap (Upper \cup Lower \cup Digits) = {}
  /\ Tok!Blanks = {Space, Tab} /\ Tok!Letters = Upper \cup Lower
  /\ Tok!OkPos = Upper \cup Digits \cup {"_"} /\ Tok!Dashless = Upper \cup Lower \cup Digits \cup {"_"}
BY ClassesAssumption DEF Tok!Punctuation, Tok!Blanks, Tok!Letters, Tok!OkPos, Tok!Dashless

LEMMA KeywordUpper ==
  ASSUME NEW t \in Strings, NEW p \in Nat, NEW j \in p + 1 .. Len(t), Keyword(t, p, j)
  PROVE  \A k \in p + 1 .. j : t[k] \in Upper
<1>0. Len(t) \in Nat /\ j \in p .. Len(t)
  BY DEF Strings
<1>1. OptionsWord \in Seq(Upper) /\ Len(OptionsWord) = j - p
  BY <1>0, ClassesAssumption, PieceIs DEF Keyword
<1> SUFFICES ASSUME NEW k \in p + 1 .. j PROVE t[k] \in Upper
  OBVIOUS
<1>2. t[k] = OptionsWord[k - p]
  BY <1>0, PieceIs DEF Keyword
<1>3. k - p \in 1 .. Len(OptionsWord)
  BY <1>0, <1>1
<1> QED BY <1>1, <1>2, <1>3, ElementOfSeq

\* What the first character of a lexeme says of its type.
LEMMA FirstSays ==
  ASSUME NEW t \in Strings, NEW p \in Nat, NEW j \in p + 1 .. Len(t), NEW typ \in Tok!TokenTypes, IsAt(typ, t, p, j)
  PROVE  \/ t[p + 1] \in DOMAIN Tok!Punctuation /\ typ = Tok!Punctuation[t[p + 1]] /\ j = p + 1
         \/ t[p + 1] = "." /\ typ = "rep"
         \/ t[p + 1] = "-" /\ typ \in {"shortOpt", "optSeq", "dblDash", "longOpt"}
         \/ t[p + 1] = "=" /\ typ = "optValue"
         \/ /\ t[p + 1] \in Upper /\ typ = IF Keyword(t, p, j) THEN "options" ELSE "pos"
            /\ \A k \in p + 1 .. j : t[k] \in Tok!OkPos
<1>0. Len(t) \in Nat /\ p + 1 \in p + 1 .. j
  BY DEF Strings
<1>1. Tok!OkPos = Upper \cup Digits \cup {"_"}
  BY ClassesApart
<1>2. CASE typ = "options" /\ Keyword(t, p, j)
  <2>1. \A k \in p + 1 .. j : t[k] \in Upper
    BY <1>2, KeywordUpper
  <2> QED BY <1>0, <1>1, <1>2, <2>1
<1>3. CASE typ = "pos" /\ ~Keyword(t, p, j) /\ t[p + 1] \in Upper /\ \A k \in p + 2 .. j : t[k] \in Tok!OkPos
  <2>1. \A k \in p + 1 .. j : k = p + 1 \/ k \in p + 2 .. j
    BY <1>0
  <2> QED BY <1>1, <1>3, <2>1
<1>4. CASE typ \in Tok!Range(Tok!Punctuation) /\ j = p + 1 /\ t[p + 1] \in DOMAIN Tok!Punctuation /\ Tok!Punctuation[t[p + 1]] = typ
  BY <1>4
<1>5. CASE ~(typ = "options" /\ Keyword(t, p, j))
           /\ ~(typ = "pos" /\ ~Keyword(t, p, j) /\ t[p + 1] \in Upper /\ \A k \in p + 2 .. j : t[k] \in Tok!OkPos)
           /\ ~(typ \in Tok!Range(Tok!Punctuation) /\ j = p + 1 /\ t[p + 1] \in DOMAIN Tok!Punctuation /\ Tok!Punctuation[t[p + 1]] = typ)
  <2>1. \/ typ = "rep" /\ t[p + 1] = "."
        \/ typ \in {"shortOpt", "optSeq", "dblDash", "longOpt"} /\ t[p + 1] = "-"
        \/ typ = "optValue" /\ t[p + 1] = "="
    <3> HIDE DEF Keyword, Tok!Punctuation, Tok!OkPos, Tok!Letters, Tok!Dashless
    <3> QED BY <1>5 DEF IsAt
  <2> QED BY <2>1
<1> QED BY <1>2, <1>3, <1>4, <1>5

\* The longest piece is the only one that counts.
LEMMA OneAhead ==
  ASSUME NEW t \in Strings, NEW p \in Nat, NEW j \in p + 1 .. Len(t), NEW typ \in Tok!TokenTypes, IsAt(typ, t, p, j),
         \A y \in Tok!TokenTypes : IsAt(y, t, p, j) => y = typ,
         \A y \in Tok!TokenTypes : \A k \in j + 1 .. Len(t) : ~IsAt(y, t, p, k)
  PROVE  Tok!Ahead(t, p) = {Tok!Lexeme(typ, p, j)}
<1> HIDE DEF Tok!TokenTypes, IsAt
<1>0. Len(t) \in Nat /\ j \in Nat
  BY DEF Strings
<1>1. \A k \in p + 1 .. Len(t) : Tok!Types(SubSeq(t, p + 1, k)) = {y \in Tok!TokenTypes : IsAt(y, t, p, k)}
  <2> SUFFICES ASSUME NEW k \in p + 1 .. Len(t) PROVE Tok!Types(SubSeq(t, p + 1, k)) = {y \in Tok!TokenTypes : IsAt(y, t, p, k)}
    OBVIOUS
  <2>1. Tok!Types(SubSeq(t, p + 1, k)) \subseteq Tok!TokenTypes
    BY DEF Tok!Types
  <2> QED BY <2>1, TypeAt
<1>2. Tok!Types(SubSeq(t, p + 1, j)) = {typ}
  BY <1>1
<1>3. j \in Tok!Spans(t, p)
  BY <1>2 DEF Tok!Spans
<1>4. \A k \in Tok!Spans(t, p) : k <= j
  <2>1. ASSUME NEW k \in Tok!Spans(t, p), ~(k <= j) PROVE FALSE
    <3>1. k \in p + 1 .. Len(t) /\ Tok!Types(SubSeq(t, p + 1, k)) # {}
      BY DEF Tok!Spans
    <3>2. k \in j + 1 .. Len(t)
      BY <1>0, <2>1, <3>1
    <3> QED BY <1>1, <3>1, <3>2
  <2> QED BY <2>1
<1>5. Tok!Spans(t, p) \subseteq Nat
  BY <1>0 DEF Tok!Spans
<1> DEFINE L == {k \in Tok!Spans(t, p) : \A l \in Tok!Spans(t, p) : l <= k}
           W(k) == {Tok!Lexeme(y, p, k) : y \in Tok!Types(SubSeq(t, p + 1, k))}
<1>6. L = {j}
  <2> HIDE DEF Tok!Spans
  <2> QED BY <1>0, <1>3, <1>4, <1>5
<1>7. Tok!Ahead(t, p) = UNION {W(k) : k \in L}
  BY Zenon DEF Tok!Ahead
<1> HIDE DEF L
<1>8. UNION {W(k) : k \in L} = W(j)
  <2> HIDE DEF W
  <2> QED BY <1>6
<1>9. W(j) = {Tok!Lexeme(typ, p, j)}
  BY <1>2
<1> QED BY <1>7, <1>8, <1>9

LEMMA NoneAhead ==
  ASSUME NEW t \in Strings, NEW p \in Nat,
         \A y \in Tok!TokenTypes : \A k \in p + 1 .. Len(t) : ~IsAt(y, t, p, k)
  PROVE  Tok!Ahead(t, p) = {}
<1> HIDE DEF Tok!TokenTypes, IsAt
<1>1. ASSUME NEW k \in p + 1 .. Len(t) PROVE Tok!Types(SubSeq(t, p + 1, k)) = {}
  <2>1. Tok!Types(SubSeq(t, p + 1, k)) \subseteq Tok!TokenTypes
    BY DEF Tok!Types
  <2> QED BY <2>1, TypeAt
<1>2. Tok!Spans(t, p) = {}
  BY <1>1 DEF Tok!Spans
<1> QED BY <1>2 DEF Tok!Ahead

(***************************************************************************)
(* How a text goes on at a place: with one lexeme, with none, or not.      *)
(***************************************************************************)
Leads(t, p, x) == LCut(t)[p] = {<<x>> \o r : r \in LCut(t)[x.to]}
Passes(t, p)   == LCut(t)[p] = LCut(t)[p + 1]
Stuck(t, p)    == LCut(t)[p] = {}

\* A dash that starts nothing is passed over.
IsLoneDash(t, p) == p + 1 < Len(t) /\ t[p + 1] = "-" /\ t[p + 2] \notin Tok!Letters \cup {"-"}

\* A run of characters of C between p and q, as long as possible.
IsRun(t, p, q, C) ==
  /\ q \in p .. Len(t) /\ \A k \in p + 1 .. q : t[k] \in C
  /\ q < Len(t) => t[q + 1] \notin C

LEMMA LoneDashIs ==
  ASSUME NEW t \in Strings, NEW p \in Nat
  PROVE  p + 1 \in Tok!LoneDashes(t) <=> IsLoneDash(t, p)
<1>1. Len(t) \in Nat /\ p + 1 + 1 = p + 2
  BY DEF Strings
<1>2. p + 1 \in 1 .. Len(t) - 1 <=> p + 1 < Len(t)
  BY <1>1
<1> HIDE DEF Tok!Letters
<1> QED BY <1>1, <1>2 DEF Tok!LoneDashes, IsLoneDash

LEMMA ItGoesOn ==
  ASSUME NEW t \in Strings, NEW p \in Nat, p < Len(t), NEW x, Tok!Ahead(t, p) = {x},
         t[p + 1] \notin Tok!Blanks, ~IsLoneDash(t, p)
  PROVE  Leads(t, p, x)
<1>0. p \in 0 .. Len(t) /\ p # Len(t)
  BY DEF Strings
<1>1. LCut(t)[p] = LCutting(t, p, LCut(t))
  BY <1>0, LCutIs
<1>2. ~(t[p + 1] \in Tok!Blanks \/ p + 1 \in Tok!LoneDashes(t))
  BY LoneDashIs
<1> DEFINE h == LCut(t)
<1> HIDE DEF h
<1>3. LCutting(t, p, h) = {<<x>> \o r : r \in h[x.to]}
  <2> DEFINE W(y) == {<<y>> \o r : r \in h[y.to]}
  <2>1. LCutting(t, p, h) = UNION {W(y) : y \in {x}}
    BY <1>0, <1>2 DEF LCutting, Cutting
  <2>2. UNION {W(y) : y \in {x}} = W(x)
    <3> HIDE DEF W
    <3> QED OBVIOUS
  <2> QED BY <2>1, <2>2
<1> QED BY <1>1, <1>3 DEF Leads, h

LEMMA ItPasses ==
  ASSUME NEW t \in Strings, NEW p \in Nat, p < Len(t), Tok!Ahead(t, p) = {}
  PROVE  IF t[p + 1] \in Tok!Blanks \/ IsLoneDash(t, p) THEN Passes(t, p) ELSE Stuck(t, p)
<1>0. p \in 0 .. Len(t) /\ p # Len(t)
  BY DEF Strings
<1>1. LCut(t)[p] = LCutting(t, p, LCut(t))
  BY <1>0, LCutIs
<1>2. p + 1 \in Tok!LoneDashes(t) <=> IsLoneDash(t, p)
  BY LoneDashIs
<1> DEFINE h == LCut(t)
<1> HIDE DEF h
<1>3. LCutting(t, p, h) = IF t[p + 1] \in Tok!Blanks \/ IsLoneDash(t, p) THEN h[p + 1] ELSE {}
  BY <1>0, <1>2 DEF LCutting, Cutting
<1> QED BY <1>1, <1>3 DEF Passes, Stuck, h

\* From a blank, a bracket and dots (uTokenize, the first cases of the switch).
LEMMA AtBlank ==
  ASSUME NEW t \in Strings, NEW p \in Nat, p < Len(t), t[p + 1] \in Tok!Blanks
  PROVE  Passes(t, p)
<1>1. t[p + 1] \notin DOMAIN Tok!Punctuation \cup {".", "-", "="} \cup Upper
  BY ClassesApart DEF Separators
<1>2. \A y \in Tok!TokenTypes : \A k \in p + 1 .. Len(t) : ~IsAt(y, t, p, k)
  BY <1>1, FirstSays
<1> QED BY <1>2, NoneAhead, ItPasses

LEMMA AtNothing ==
  ASSUME NEW t \in Strings, NEW p \in Nat, p < Len(t),
         t[p + 1] \notin Tok!Blanks \cup DOMAIN Tok!Punctuation \cup {".", "-", "="} \cup Upper
  PROVE  Stuck(t, p)
<1>1. \A y \in Tok!TokenTypes : \A k \in p + 1 .. Len(t) : ~IsAt(y, t, p, k)
  BY FirstSays
<1>2. ~IsLoneDash(t, p)
  BY DEF IsLoneDash
<1> QED BY <1>1, <1>2, NoneAhead, ItPasses

LEMMA AtBracket ==
  ASSUME NEW t \in Strings, NEW p \in Nat, p < Len(t), t[p + 1] \in DOMAIN Tok!Punctuation
  PROVE  Leads(t, p, Tok!Lexeme(Tok!Punctuation[t[p + 1]], p, p + 1))
<1> DEFINE typ == Tok!Punctuation[t[p + 1]]
<1>0. Len(t) \in Nat /\ p + 1 \in p + 1 .. Len(t) /\ p + 1 \in 0 .. Len(t)
  BY DEF Strings
<1>1. /\ t[p + 1] \notin {".", "-", "="} \cup Upper \cup Tok!Blanks
      /\ typ \in Tok!Range(Tok!Punctuation) /\ typ \in Tok!TokenTypes
      /\ typ \notin {"dblDash", "shortOpt", "optSeq"}
  <2>1. t[p + 1] \in {"[", "]", "(", ")", "|"}
    BY ClassesApart
  <2>2. t[p + 1] \notin {".", "-", "="} \cup Upper \cup Tok!Blanks
    BY <2>1, ClassesApart DEF Separators
  <2>3. typ \in Tok!Range(Tok!Punctuation)
    BY DEF Tok!Range
  <2>4. typ \in {"openSq", "closeSq", "openPar", "closePar", "choice"}
    BY <2>1 DEF Tok!Punctuation
  <2> HIDE DEF typ
  <2> QED BY <2>2, <2>3, <2>4 DEF Tok!TokenTypes
<1>2. IsAt(typ, t, p, p + 1)
  BY <1>1 DEF IsAt
<1>3. /\ \A y \in Tok!TokenTypes : IsAt(y, t, p, p + 1) => y = typ
      /\ \A y \in Tok!TokenTypes : \A k \in p + 1 + 1 .. Len(t) : ~IsAt(y, t, p, k)
  <2>1. \A y \in Tok!TokenTypes : \A k \in p + 1 .. Len(t) : IsAt(y, t, p, k) => y = typ /\ k = p + 1
    BY <1>1, FirstSays
  <2> QED BY <1>0, <2>1
<1>5. ~IsLoneDash(t, p)
  BY <1>1 DEF IsLoneDash
<1> HIDE DEF typ, IsAt
<1>6. Tok!Ahead(t, p) = {Tok!Lexeme(typ, p, p + 1)}
  BY <1>0, <1>1, <1>2, <1>3, OneAhead
<1>7. Leads(t, p, Tok!Lexeme(typ, p, p + 1))
  BY <1>1, <1>5, <1>6, ItGoesOn
<1> QED BY <1>7 DEF typ

LEMMA AtDots ==
  ASSUME NEW t \in Strings, NEW p \in Nat, p < Len(t), t[p + 1] = "."
  PROVE  IF p + 3 <= Len(t) /\ t[p + 2] = "." /\ t[p + 3] = "."
         THEN Leads(t, p, Tok!Lexeme("rep", p, p + 3)) ELSE Stuck(t, p)
<1>0. Len(t) \in Nat
  BY DEF Strings
<1>1. t[p + 1] \notin DOMAIN Tok!Punctuation \cup {"-", "="} \cup Upper \cup Tok!Blanks /\ ~IsLoneDash(t, p)
  BY ClassesApart DEF Separators, IsLoneDash
<1>2. \A y \in Tok!TokenTypes : \A k \in p + 1 .. Len(t) : IsAt(y, t, p, k) => y = "rep"
  BY <1>1, FirstSays
<1>3. \A k : IsAt("rep", t, p, k) <=> k = p + 3 /\ t[p + 2] = "." /\ t[p + 3] = "."
  BY <1>1 DEF IsAt, Tok!Range, Tok!Punctuation
<1>4. "rep" \in Tok!TokenTypes
  BY DEF Tok!TokenTypes
<1> HIDE DEF IsAt, Tok!TokenTypes
<1>5. CASE p + 3 <= Len(t) /\ t[p + 2] = "." /\ t[p + 3] = "."
  <2>1. p + 3 \in p + 1 .. Len(t) /\ p + 3 \in 0 .. Len(t)
    BY <1>0, <1>5
  <2>2. /\ \A y \in Tok!TokenTypes : IsAt(y, t, p, p + 3) => y = "rep"
        /\ \A y \in Tok!TokenTypes : \A k \in p + 3 + 1 .. Len(t) : ~IsAt(y, t, p, k)
    BY <1>0, <1>2, <1>3, <2>1
  <2>4. Tok!Ahead(t, p) = {Tok!Lexeme("rep", p, p + 3)}
    BY <1>3, <1>4, <1>5, <2>1, <2>2, OneAhead
  <2> QED BY <1>1, <1>5, <2>4, ItGoesOn
<1>6. CASE ~(p + 3 <= Len(t) /\ t[p + 2] = "." /\ t[p + 3] = ".")
  <2>1. \A y \in Tok!TokenTypes : \A k \in p + 1 .. Len(t) : ~IsAt(y, t, p, k)
    BY <1>0, <1>2, <1>3, <1>6
  <2> QED BY <1>1, <1>6, <2>1, NoneAhead, ItPasses
<1> QED BY <1>5, <1>6

\* From a dash: short options, a long option or `--`, and a dash alone.
LEMMA DashTypes ==
  ASSUME NEW t \in Strings, NEW p \in Nat, p < Len(t), t[p + 1] = "-"
  PROVE  /\ \A y \in Tok!TokenTypes : \A k \in p + 1 .. Len(t) :
              IsAt(y, t, p, k) => y \in {"shortOpt", "optSeq", "dblDash", "longOpt"}
         /\ \A k : IsAt("shortOpt", t, p, k) <=> k = p + 2 /\ t[p + 2] \in Tok!Letters
         /\ \A k : IsAt("optSeq", t, p, k) <=> k > p + 2 /\ \A l \in p + 2 .. k : t[l] \in Tok!Letters
         /\ \A k : IsAt("dblDash", t, p, k) <=> k = p + 2 /\ t[p + 2] = "-"
         /\ \A k : IsAt("longOpt", t, p, k) <=> /\ k > p + 2 /\ t[p + 2] = "-" /\ t[p + 3] \in Tok!Dashless
                                                /\ \A l \in p + 3 .. k : t[l] \in Tok!Dashless \cup {"-"}
         /\ {"shortOpt", "optSeq", "dblDash", "longOpt"} \subseteq Tok!TokenTypes
         /\ t[p + 1] \notin Tok!Blanks /\ "-" \notin Tok!Letters
<1>1. t[p + 1] \notin DOMAIN Tok!Punctuation \cup {".", "="} \cup Upper \cup Tok!Blanks /\ "-" \notin Tok!Letters
  BY ClassesApart DEF Separators
<1>2. \A y \in Tok!TokenTypes : \A k \in p + 1 .. Len(t) :
        IsAt(y, t, p, k) => y \in {"shortOpt", "optSeq", "dblDash", "longOpt"}
  BY <1>1, FirstSays
<1>3. \A typ \in Tok!Range(Tok!Punctuation) : typ \notin {"shortOpt", "optSeq", "dblDash", "longOpt"}
  BY DEF Tok!Range, Tok!Punctuation
<1>4. {"shortOpt", "optSeq", "dblDash", "longOpt"} \subseteq Tok!TokenTypes
  BY DEF Tok!TokenTypes
<1> HIDE DEF Tok!TokenTypes, Tok!Punctuation, Tok!Letters, Tok!Dashless, Tok!OkPos, Keyword
<1>5. /\ \A k : IsAt("shortOpt", t, p, k) <=> k = p + 2 /\ t[p + 2] \in Tok!Letters
      /\ \A k : IsAt("dblDash", t, p, k) <=> k = p + 2 /\ t[p + 2] = "-"
  BY <1>3 DEF IsAt
<1>6. \A k : IsAt("optSeq", t, p, k) <=> k > p + 2 /\ \A l \in p + 2 .. k : t[l] \in Tok!Letters
  BY <1>3 DEF IsAt
<1>7. \A k : IsAt("longOpt", t, p, k) <=> /\ k > p + 2 /\ t[p + 2] = "-" /\ t[p + 3] \in Tok!Dashless
                                          /\ \A l \in p + 3 .. k : t[l] \in Tok!Dashless \cup {"-"}
  BY <1>3 DEF IsAt
<1> QED BY <1>1, <1>2, <1>4, <1>5, <1>6, <1>7

LEMMA AtShort ==
  ASSUME NEW t \in Strings, NEW p \in Nat, p < Len(t), t[p + 1] = "-",
         NEW q, IsRun(t, p + 1, q, Tok!Letters), q >= p + 2
  PROVE  /\ Leads(t, p, Tok!Lexeme(IF q > p + 2 THEN "optSeq" ELSE "shortOpt", p, q))
         /\ Tok!Ahead(t, p) = {Tok!Lexeme(IF q > p + 2 THEN "optSeq" ELSE "shortOpt", p, q)}
<1> DEFINE typ == IF q > p + 2 THEN "optSeq" ELSE "shortOpt"
<1>0. Len(t) \in Nat /\ q \in p + 1 .. Len(t) /\ q \in 0 .. Len(t) /\ p + 2 \in p + 2 .. q
  BY DEF Strings, IsRun
<1>1. (\A k \in p + 2 .. q : t[k] \in Tok!Letters) /\ (q < Len(t) => t[q + 1] \notin Tok!Letters)
  BY <1>0 DEF IsRun
<1>2. t[p + 2] \in Tok!Letters /\ t[p + 2] # "-"
  BY <1>0, <1>1, DashTypes
<1> HIDE DEF IsAt, Tok!TokenTypes, Tok!Letters, Tok!Dashless, Tok!Blanks
<1>3. IsAt(typ, t, p, q) /\ typ \in Tok!TokenTypes
  <2>1. CASE q > p + 2
    BY <1>1, <2>1, DashTypes
  <2>2. CASE ~(q > p + 2)
    <3>1. q = p + 2
      BY <1>0, <2>2
    <3> QED BY <1>2, <2>2, <3>1, DashTypes
  <2> QED BY <2>1, <2>2
<1>4. \A y \in Tok!TokenTypes : IsAt(y, t, p, q) => y = typ
  <2> SUFFICES ASSUME NEW y \in Tok!TokenTypes, IsAt(y, t, p, q) PROVE y = typ
    OBVIOUS
  <2>1. y \in {"shortOpt", "optSeq"}
    BY <1>0, <1>2, DashTypes
  <2>2. y = "shortOpt" => q = p + 2
    BY DashTypes
  <2>3. y = "optSeq" => q > p + 2
    BY DashTypes
  <2> QED BY <1>0, <2>1, <2>2, <2>3
<1>5. \A y \in Tok!TokenTypes : \A k \in q + 1 .. Len(t) : ~IsAt(y, t, p, k)
  <2> SUFFICES ASSUME NEW y \in Tok!TokenTypes, NEW k \in q + 1 .. Len(t), IsAt(y, t, p, k) PROVE FALSE
    OBVIOUS
  <2>1. k \in p + 1 .. Len(t) /\ k > p + 2 /\ q + 1 \in p + 2 .. k /\ q < Len(t)
    BY <1>0
  <2>2. y \in {"shortOpt", "optSeq"}
    BY <1>2, <2>1, DashTypes
  <2>3. y = "optSeq"
    BY <2>1, <2>2, DashTypes
  <2>4. t[q + 1] \in Tok!Letters
    BY <2>1, <2>3, DashTypes
  <2> QED BY <1>1, <2>1, <2>4
<1>6. Tok!Ahead(t, p) = {Tok!Lexeme(typ, p, q)}
  <2> HIDE DEF typ
  <2> QED BY <1>0, <1>3, <1>4, <1>5, OneAhead
<1>7. t[p + 1] \notin Tok!Blanks /\ ~IsLoneDash(t, p)
  BY <1>2, DashTypes DEF IsLoneDash
<1> HIDE DEF typ
<1>8. Leads(t, p, Tok!Lexeme(typ, p, q))
  BY <1>6, <1>7, ItGoesOn
<1> QED BY <1>6, <1>8 DEF typ

LEMMA AtLone ==
  ASSUME NEW t \in Strings, NEW p \in Nat, p < Len(t), t[p + 1] = "-",
         p + 1 < Len(t) => t[p + 2] \notin Tok!Letters \cup {"-"}
  PROVE  /\ IF p + 1 < Len(t) THEN Passes(t, p) ELSE Stuck(t, p)
         /\ Tok!Ahead(t, p) = {}
<1>0. Len(t) \in Nat
  BY DEF Strings
<1> HIDE DEF IsAt, Tok!TokenTypes, Tok!Letters, Tok!Dashless, Tok!Blanks
<1>1. \A y \in Tok!TokenTypes : \A k \in p + 1 .. Len(t) : ~IsAt(y, t, p, k)
  <2> SUFFICES ASSUME NEW y \in Tok!TokenTypes, NEW k \in p + 1 .. Len(t), IsAt(y, t, p, k) PROVE FALSE
    OBVIOUS
  <2>1. y \in {"shortOpt", "optSeq", "dblDash", "longOpt"}
    BY DashTypes
  <2>2. y = "shortOpt" => k = p + 2 /\ t[p + 2] \in Tok!Letters
    BY DashTypes
  <2>3. y = "dblDash" => k = p + 2 /\ t[p + 2] = "-"
    BY DashTypes
  <2>4. y = "optSeq" => k > p + 2 /\ p + 2 \in p + 2 .. k /\ t[p + 2] \in Tok!Letters
    <3>1. y = "optSeq" => k > p + 2 /\ \A l \in p + 2 .. k : t[l] \in Tok!Letters
      BY DashTypes
    <3>2. k > p + 2 => p + 2 \in p + 2 .. k
      BY <1>0
    <3> QED BY <3>1, <3>2
  <2>5. y = "longOpt" => k > p + 2 /\ t[p + 2] = "-"
    BY DashTypes
  <2>6. p + 1 < Len(t)
    BY <1>0, <2>1, <2>2, <2>3, <2>4, <2>5
  <2> QED BY <2>1, <2>2, <2>3, <2>4, <2>5, <2>6
<1>2. IsLoneDash(t, p) <=> p + 1 < Len(t)
  BY DEF IsLoneDash
<1>3. t[p + 1] \notin Tok!Blanks
  BY DashTypes
<1> QED BY <1>1, <1>2, <1>3, NoneAhead, ItPasses

LEMMA AtDblDash ==
  ASSUME NEW t \in Strings, NEW p \in Nat, p + 1 < Len(t), t[p + 1] = "-", t[p + 2] = "-",
         p + 2 < Len(t) => t[p + 3] \notin Tok!Dashless
  PROVE  Leads(t, p, Tok!Lexeme("dblDash", p, p + 2)) /\ Tok!Ahead(t, p) = {Tok!Lexeme("dblDash", p, p + 2)}
<1>0. Len(t) \in Nat /\ p < Len(t) /\ p + 2 \in p + 1 .. Len(t) /\ p + 2 \in 0 .. Len(t)
  BY DEF Strings
<1> HIDE DEF IsAt, Tok!TokenTypes, Tok!Letters, Tok!Dashless, Tok!Blanks
<1>1. t[p + 2] \notin Tok!Letters /\ t[p + 1] \notin Tok!Blanks /\ ~IsLoneDash(t, p)
  BY <1>0, DashTypes DEF IsLoneDash
<1>2. ASSUME NEW y \in Tok!TokenTypes, NEW k \in p + 1 .. Len(t), IsAt(y, t, p, k) PROVE y = "dblDash" /\ k = p + 2
  <2>1. y \in {"shortOpt", "optSeq", "dblDash", "longOpt"}
    BY <1>0, <1>2, DashTypes
  <2>2. y = "shortOpt" => k = p + 2 /\ t[p + 2] \in Tok!Letters
    BY <1>0, <1>2, DashTypes
  <2>3. y = "dblDash" => k = p + 2
    BY <1>0, <1>2, DashTypes
  <2>4. y = "optSeq" => t[p + 2] \in Tok!Letters
    <3>1. y = "optSeq" => k > p + 2 /\ \A l \in p + 2 .. k : t[l] \in Tok!Letters
      BY <1>0, <1>2, DashTypes
    <3>2. k > p + 2 => p + 2 \in p + 2 .. k
      BY <1>0
    <3> QED BY <3>1, <3>2
  <2>5. y = "longOpt" => k > p + 2 /\ t[p + 3] \in Tok!Dashless
    BY <1>0, <1>2, DashTypes
  <2>6. k > p + 2 => p + 2 < Len(t)
    BY <1>0
  <2> QED BY <1>1, <2>1, <2>2, <2>3, <2>4, <2>5, <2>6
<1>3. IsAt("dblDash", t, p, p + 2) /\ "dblDash" \in Tok!TokenTypes
  BY <1>0, DashTypes
<1>4. \A y \in Tok!TokenTypes : \A k \in p + 2 + 1 .. Len(t) : ~IsAt(y, t, p, k)
  BY <1>0, <1>2
<1>5. Tok!Ahead(t, p) = {Tok!Lexeme("dblDash", p, p + 2)}
  <2>1. \A y \in Tok!TokenTypes : IsAt(y, t, p, p + 2) => y = "dblDash"
    BY <1>0, <1>2
  <2> QED BY <1>0, <1>3, <1>4, <2>1, OneAhead
<1> QED BY <1>0, <1>1, <1>5, ItGoesOn

LEMMA AtLong ==
  ASSUME NEW t \in Strings, NEW p \in Nat, p + 2 < Len(t), t[p + 1] = "-", t[p + 2] = "-", t[p + 3] \in Tok!Dashless,
         NEW q, IsRun(t, p + 2, q, Tok!Dashless \cup {"-"}), q >= p + 3
  PROVE  Leads(t, p, Tok!Lexeme("longOpt", p, q))
<1>0. Len(t) \in Nat /\ p < Len(t) /\ q \in p + 1 .. Len(t) /\ q \in 0 .. Len(t) /\ q > p + 2
  BY DEF Strings, IsRun
<1>1. (\A k \in p + 3 .. q : t[k] \in Tok!Dashless \cup {"-"}) /\ (q < Len(t) => t[q + 1] \notin Tok!Dashless \cup {"-"})
  <2>1. p + 2 + 1 = p + 3
    OBVIOUS
  <2> HIDE DEF Tok!Dashless
  <2> QED BY <2>1 DEF IsRun
<1> HIDE DEF IsAt, Tok!TokenTypes, Tok!Letters, Tok!Dashless, Tok!Blanks
<1>2. t[p + 2] \notin Tok!Letters /\ t[p + 1] \notin Tok!Blanks /\ ~IsLoneDash(t, p)
  BY <1>0, DashTypes DEF IsLoneDash
<1>3. IsAt("longOpt", t, p, q) /\ "longOpt" \in Tok!TokenTypes
  BY <1>0, <1>1, DashTypes
<1>4. ASSUME NEW y \in Tok!TokenTypes, NEW k \in p + 1 .. Len(t), IsAt(y, t, p, k), k > p + 2
      PROVE  y = "longOpt" /\ \A l \in p + 3 .. k : t[l] \in Tok!Dashless \cup {"-"}
  <2>1. y \in {"shortOpt", "optSeq", "dblDash", "longOpt"}
    BY <1>0, <1>4, DashTypes
  <2>2. y \notin {"shortOpt", "dblDash"}
    <3>1. y \in {"shortOpt", "dblDash"} => k = p + 2
      BY <1>0, <1>4, DashTypes
    <3> QED BY <1>0, <1>4, <3>1
  <2>3. y # "optSeq"
    <3>1. y = "optSeq" => \A l \in p + 2 .. k : t[l] \in Tok!Letters
      BY <1>0, <1>4, DashTypes
    <3>2. p + 2 \in p + 2 .. k
      BY <1>0, <1>4
    <3> QED BY <1>2, <3>1, <3>2
  <2>4. y = "longOpt"
    BY <2>1, <2>2, <2>3
  <2> QED BY <1>0, <1>4, <2>4, DashTypes
<1>5. \A y \in Tok!TokenTypes : IsAt(y, t, p, q) => y = "longOpt"
  BY <1>0, <1>4
<1>6. \A y \in Tok!TokenTypes : \A k \in q + 1 .. Len(t) : ~IsAt(y, t, p, k)
  <2> SUFFICES ASSUME NEW y \in Tok!TokenTypes, NEW k \in q + 1 .. Len(t), IsAt(y, t, p, k) PROVE FALSE
    OBVIOUS
  <2>1. k \in p + 1 .. Len(t) /\ k > p + 2 /\ q + 1 \in p + 3 .. k /\ q < Len(t)
    BY <1>0
  <2>2. t[q + 1] \in Tok!Dashless \cup {"-"}
    BY <1>4, <2>1
  <2> QED BY <1>1, <2>1, <2>2
<1>8. Tok!Ahead(t, p) = {Tok!Lexeme("longOpt", p, q)}
  BY <1>0, <1>3, <1>5, <1>6, OneAhead
<1> QED BY <1>0, <1>2, <1>8, ItGoesOn

\* From an equal sign: a value up to the first closing bracket.
LEMMA AtEquals ==
  ASSUME NEW t \in Strings, NEW p \in Nat, p < Len(t), t[p + 1] = "=", NEW q \in p + 1 .. Len(t),
         \A k \in p + 2 .. q : t[k] # ">", q < Len(t) => t[q + 1] = ">" \/ t[p + 2] # "<"
  PROVE  IF t[p + 2] = "<" /\ q < Len(t) /\ q > p + 2
         THEN Leads(t, p, Tok!Lexeme("optValue", p, q + 1)) ELSE Stuck(t, p)
<1>0. Len(t) \in Nat
  BY DEF Strings
<1>1. t[p + 1] \notin DOMAIN Tok!Punctuation \cup {".", "-"} \cup Upper \cup Tok!Blanks /\ ~IsLoneDash(t, p)
  BY ClassesApart DEF Separators, IsLoneDash
<1>2. \A y \in Tok!TokenTypes : \A k \in p + 1 .. Len(t) : IsAt(y, t, p, k) => y = "optValue"
  BY <1>1, FirstSays
<1>3. \A k : IsAt("optValue", t, p, k) <=> /\ k > p + 3 /\ t[p + 2] = "<" /\ t[k] = ">"
                                           /\ \A l \in p + 1 .. k - 1 : t[l] # ">"
  <2>1. "optValue" \notin Tok!Range(Tok!Punctuation)
    BY DEF Tok!Range, Tok!Punctuation
  <2> HIDE DEF Tok!Punctuation, Keyword
  <2> QED BY <2>1 DEF IsAt
<1>4. "optValue" \in Tok!TokenTypes
  BY DEF Tok!TokenTypes
<1> HIDE DEF IsAt, Tok!TokenTypes
<1>5. CASE t[p + 2] = "<" /\ q < Len(t) /\ q > p + 2
  <2>1. q + 1 \in p + 1 .. Len(t) /\ q + 1 \in 0 .. Len(t) /\ q + 1 > p + 3
    BY <1>0, <1>5
  <2>2. \A l \in p + 1 .. q + 1 - 1 : t[l] # ">"
    <3>1. \A l \in p + 1 .. q + 1 - 1 : l = p + 1 \/ l \in p + 2 .. q
      BY <1>0
    <3> QED BY <3>1
  <2>3. t[q + 1] = ">"
    BY <1>5
  <2>4. IsAt("optValue", t, p, q + 1)
    BY <1>3, <1>5, <2>1, <2>2, <2>3
  <2>5. \A y \in Tok!TokenTypes : \A k \in q + 1 + 1 .. Len(t) : ~IsAt(y, t, p, k)
    <3> SUFFICES ASSUME NEW y \in Tok!TokenTypes, NEW k \in q + 1 + 1 .. Len(t), IsAt(y, t, p, k) PROVE FALSE
      OBVIOUS
    <3>1. k \in p + 1 .. Len(t) /\ q + 1 \in p + 1 .. k - 1
      BY <1>0
    <3>2. \A l \in p + 1 .. k - 1 : t[l] # ">"
      BY <1>2, <1>3, <3>1
    <3> QED BY <2>3, <3>1, <3>2
  <2>7. \A y \in Tok!TokenTypes : IsAt(y, t, p, q + 1) => y = "optValue"
    BY <1>2, <2>1
  <2>8. Tok!Ahead(t, p) = {Tok!Lexeme("optValue", p, q + 1)}
    BY <1>4, <2>1, <2>4, <2>5, <2>7, OneAhead
  <2> QED BY <1>1, <1>5, <2>8, ItGoesOn
<1>6. CASE ~(t[p + 2] = "<" /\ q < Len(t) /\ q > p + 2)
  <2>1. ASSUME NEW y \in Tok!TokenTypes, NEW k \in p + 1 .. Len(t), IsAt(y, t, p, k) PROVE FALSE
    <3>1. /\ k > p + 3 /\ t[p + 2] = "<" /\ t[k] = ">"
          /\ \A l \in p + 1 .. k - 1 : t[l] # ">"
      BY <1>2, <1>3, <2>1
    <3>2. k \in p + 2 .. Len(t)
      BY <1>0, <3>1
    <3>3. k > q
      BY <1>0, <3>1, <3>2
    <3>4. q < Len(t) /\ t[q + 1] = ">" /\ q \in Nat
      BY <1>0, <3>1, <3>3
    <3>5. q + 1 = k
      <4>1. q + 1 \in p + 1 .. k - 1 \/ q + 1 = k
        BY <1>0, <3>3, <3>4
      <4> QED BY <3>1, <3>4, <4>1
    <3> QED BY <1>0, <1>6, <3>1, <3>4, <3>5
  <2> QED BY <1>1, <1>6, <2>1, NoneAhead, ItPasses
<1> QED BY <1>5, <1>6

\* From a capital letter: a name, or the keyword.
LEMMA AtName ==
  ASSUME NEW t \in Strings, NEW p \in Nat, p < Len(t), t[p + 1] \in Upper, NEW q, IsRun(t, p, q, Tok!OkPos)
  PROVE  Leads(t, p, Tok!Lexeme(IF Keyword(t, p, q) THEN "options" ELSE "pos", p, q))
<1> DEFINE typ == IF Keyword(t, p, q) THEN "options" ELSE "pos"
<1>1. t[p + 1] \notin DOMAIN Tok!Punctuation \cup {".", "-", "="} \cup Tok!Blanks /\ ~IsLoneDash(t, p) /\ t[p + 1] \in Tok!OkPos
  BY ClassesApart DEF Separators, IsLoneDash
<1>0. Len(t) \in Nat /\ q \in p + 1 .. Len(t) /\ q \in 0 .. Len(t)
  <2>1. Len(t) \in Nat /\ q \in p .. Len(t) /\ q # p
    BY <1>1 DEF Strings, IsRun
  <2> QED BY <2>1
<1>2. (\A k \in p + 1 .. q : t[k] \in Tok!OkPos) /\ (q < Len(t) => t[q + 1] \notin Tok!OkPos)
  BY DEF IsRun
<1>3. \A y \in Tok!TokenTypes : \A k \in p + 1 .. Len(t) : IsAt(y, t, p, k) =>
         y = (IF Keyword(t, p, k) THEN "options" ELSE "pos") /\ \A l \in p + 1 .. k : t[l] \in Tok!OkPos
  BY <1>1, FirstSays
<1>4. IsAt(typ, t, p, q)
  <2>1. p + 2 .. q \subseteq p + 1 .. q
    BY <1>0
  <2> HIDE DEF Keyword
  <2>2. CASE Keyword(t, p, q)
    BY <2>2 DEF IsAt
  <2>3. CASE ~Keyword(t, p, q)
    BY <1>2, <2>1, <2>3 DEF IsAt
  <2> QED BY <2>2, <2>3
<1>5. typ \in Tok!TokenTypes
  BY DEF Tok!TokenTypes
<1> HIDE DEF IsAt, Tok!TokenTypes, Tok!OkPos, Keyword
<1>6. \A y \in Tok!TokenTypes : IsAt(y, t, p, q) => y = typ
  BY <1>0, <1>3
<1>7. \A y \in Tok!TokenTypes : \A k \in q + 1 .. Len(t) : ~IsAt(y, t, p, k)
  <2> SUFFICES ASSUME NEW y \in Tok!TokenTypes, NEW k \in q + 1 .. Len(t), IsAt(y, t, p, k) PROVE FALSE
    OBVIOUS
  <2>1. k \in p + 1 .. Len(t) /\ q + 1 \in p + 1 .. k /\ q < Len(t)
    BY <1>0
  <2> QED BY <1>2, <1>3, <2>1
<1> HIDE DEF typ
<1>9. Tok!Ahead(t, p) = {Tok!Lexeme(typ, p, q)}
  BY <1>0, <1>4, <1>5, <1>6, <1>7, OneAhead
<1>10. Leads(t, p, Tok!Lexeme(typ, p, q))
  BY <1>1, <1>9, ItGoesOn
<1> QED BY <1>10 DEF typ

(***************************************************************************)
(* The tokens so far are the lexemes of every text that goes on like the   *)
(* spec up to the next character, and the spec up to here can be completed.*)
(***************************************************************************)
Tokens == [typ : Tok!TokenTypes, val : Strings, pos : Nat]

Joined(ls, R) == {ls \o r : r \in R}

\* t is like s up to n and has its next character, if t has one.
Begins(t, s, n) ==
  /\ n <= Len(t) /\ \A k \in 1 .. n : t[k] = s[k]
  /\ n < Len(t) => n < Len(s) /\ t[n + 1] = s[n + 1]

\* The same, and neither ends before the other one there.
Alike(t, s, n) == Begins(t, s, n) /\ (n < Len(s) => n < Len(t))

KnowsCuts(s, p, ts) ==
  \A t \in Strings : Alike(t, s, p) => Tok!LooseCuts(t) = Joined(Tok!Lexemes(ts), LCut(t)[p])

\* The text s up to p can be cut, unless a lone dash was before p.
Cuttable(s, p) ==
  \/ Tok!LooseCuts(SubSeq(s, 1, p)) # {}
  \/ p < Len(s) /\ s[p + 1] \notin Tok!Letters \cup {"-"}

Reads(s, p, ts) ==
  /\ p \in 0 .. Len(s) /\ ts \in Seq(Tokens)
  /\ KnowsCuts(s, p, ts) /\ Tok!Viable(SubSeq(s, 1, p)) /\ Cuttable(s, p)

BadAt(s, q) ==
  /\ q \in 0 .. Len(s) /\ Tok!Viable(SubSeq(s, 1, q))
  /\ \/ Tok!Stricter(s, q)
     \/ Tok!LooseCuts(s) = {} /\ (q < Len(s) => ~Tok!Viable(SubSeq(s, 1, q + 1)))

LEMMA LexemesAre ==
  ASSUME NEW ts \in Seq(Tokens)
  PROVE  /\ Len(Tok!Lexemes(ts)) = Len(ts)
         /\ \A tok \in Tokens : Tok!Lexemes(Append(ts, tok)) = Tok!Lexemes(ts) \o <<Tok!LexemeOf(tok)>>
<1>0. Len(ts) \in Nat /\ DOMAIN ts = 1 .. Len(ts)
  BY LenProperties
<1>1. Tok!Lexemes(ts) = [i \in 1 .. Len(ts) |-> Tok!LexemeOf(ts[i])] /\ Len(Tok!Lexemes(ts)) = Len(ts)
  BY <1>0 DEF Tok!Lexemes
<1>2. ASSUME NEW tok \in Tokens PROVE Tok!Lexemes(Append(ts, tok)) = Tok!Lexemes(ts) \o <<Tok!LexemeOf(tok)>>
  <2> DEFINE us == Append(ts, tok)
             x  == Tok!LexemeOf(tok)
             ls == Tok!Lexemes(ts)
  <2>1. /\ DOMAIN us = 1 .. Len(ts) + 1 /\ us[Len(ts) + 1] = tok
        /\ \A i \in 1 .. Len(ts) : us[i] = ts[i]
    BY <1>0, AppendProperties
  <2> HIDE DEF us, x, ls
  <2>2. Tok!Lexemes(us) = [i \in 1 .. Len(ts) + 1 |-> Tok!LexemeOf(us[i])]
    BY <2>1 DEF Tok!Lexemes
  <2>3. ls \o <<x>> = [i \in 1 .. Len(ts) + 1 |-> IF i <= Len(ts) THEN ls[i] ELSE x]
    <3>1. Len(ls) = Len(ts) /\ Len(<<x>>) = 1
      BY <1>1 DEF ls
    <3> QED BY <1>0, <3>1
  <2>4. \A i \in 1 .. Len(ts) + 1 : Tok!LexemeOf(us[i]) = IF i <= Len(ts) THEN ls[i] ELSE x
    <3> SUFFICES ASSUME NEW i \in 1 .. Len(ts) + 1 PROVE Tok!LexemeOf(us[i]) = IF i <= Len(ts) THEN ls[i] ELSE x
      OBVIOUS
    <3>1. CASE i <= Len(ts)
      <4>1. i \in 1 .. Len(ts)
        BY <1>0, <3>1
      <4> QED BY <1>1, <2>1, <3>1, <4>1 DEF ls
    <3>2. CASE ~(i <= Len(ts))
      <4>1. i = Len(ts) + 1
        BY <1>0, <3>2
      <4> QED BY <2>1, <3>2, <4>1 DEF x
    <3> QED BY <3>1, <3>2
  <2>5. Tok!Lexemes(us) = ls \o <<x>>
    BY <2>2, <2>3, <2>4
  <2> QED BY <2>5 DEF us, ls, x
<1> QED BY <1>1, <1>2

LEMMA LexemesTyped ==
  ASSUME NEW ts \in Seq(Tokens)
  PROVE  \E E : Tok!Lexemes(ts) \in Seq(E) /\ Lexemes \subseteq E
<1> DEFINE ls == Tok!Lexemes(ts)
           E == Lexemes \cup {ls[i] : i \in 1 .. Len(ts)}
<1>0. Len(ts) \in Nat /\ DOMAIN ts = 1 .. Len(ts)
  BY LenProperties
<1>1. ls = [i \in 1 .. Len(ts) |-> Tok!LexemeOf(ts[i])]
  BY <1>0 DEF Tok!Lexemes
<1> HIDE DEF ls
<1>2. ls \in Seq(E)
  BY <1>0, <1>1
<1> QED BY <1>2 DEF ls

\* What is behind a lexeme is what is behind the lexemes up to it.
LEMMA Chained ==
  ASSUME NEW E, NEW ls \in Seq(E), NEW x \in E, NEW R \in SUBSET Seq(E)
  PROVE  Joined(ls, {<<x>> \o r : r \in R}) = Joined(ls \o <<x>>, R)
<1>1. \A r \in R : ls \o (<<x>> \o r) = (ls \o <<x>>) \o r
  <2> TAKE r \in R
  <2>1. r \in Seq(E) /\ <<x>> \in Seq(E)
    OBVIOUS
  <2> QED BY <2>1, ConcatAssociative
<1> DEFINE a(r) == ls \o r
           b(r) == <<x>> \o r
           c(r) == (ls \o <<x>>) \o r
<1>2. \A r \in R : a(b(r)) = c(r)
  BY <1>1
<1> HIDE DEF a, b, c
<1>3. {a(r) : r \in {b(q) : q \in R}} = {c(r) : r \in R}
  BY <1>2
<1> QED BY <1>3 DEF a, b, c, Joined

LEMMA NothingLeft ==
  ASSUME NEW t \in Strings
  PROVE  LCut(t)[Len(t)] = {<<>>} /\ Len(t) \in 0 .. Len(t)
<1>1. Len(t) \in Nat /\ Len(t) \in 0 .. Len(t)
  BY DEF Strings
<1>2. LCut(t)[Len(t)] = LCutting(t, Len(t), LCut(t))
  BY <1>1, LCutIs
<1> QED BY <1>1, <1>2 DEF LCutting, Cutting

\* A token is taken: whatever goes on like the spec up to its end has its lexeme.
LEMMA Taken ==
  ASSUME NEW s \in Strings, NEW p, NEW ts, Reads(s, p, ts), NEW tok \in Tokens,
         NEW q \in p + 1 .. Len(s), Tok!LexemeOf(tok) \in Lexemes, Tok!LexemeOf(tok).to = q,
         \A t \in Strings : Begins(t, s, q) => Leads(t, p, Tok!LexemeOf(tok))
  PROVE  Reads(s, q, Append(ts, tok))
<1> DEFINE x == Tok!LexemeOf(tok)
<1>0. /\ Len(s) \in Nat /\ p \in 0 .. Len(s) /\ q \in 0 .. Len(s) /\ p < q
      /\ ts \in Seq(Tokens) /\ Append(ts, tok) \in Seq(Tokens)
  <2>1. Len(s) \in Nat /\ p \in 0 .. Len(s) /\ ts \in Seq(Tokens)
    BY DEF Strings, Reads
  <2> HIDE DEF Tokens
  <2>2. Append(ts, tok) \in Seq(Tokens)
    BY <2>1, AppendProperties
  <2> QED BY <2>1, <2>2
<1>1. PICK E : Tok!Lexemes(ts) \in Seq(E) /\ Lexemes \subseteq E
  BY <1>0, LexemesTyped
<1> HIDE DEF x
<1>2. ASSUME NEW t \in Strings, Begins(t, s, q)
      PROVE  Tok!LooseCuts(t) = Joined(Tok!Lexemes(Append(ts, tok)), LCut(t)[q])
  <2>1. Alike(t, s, p) /\ q \in 0 .. Len(t)
    <3>1. Len(t) \in Nat
      BY DEF Strings
    <3> QED BY <1>0, <1>2, <3>1 DEF Begins, Alike
  <2>2. Tok!LooseCuts(t) = Joined(Tok!Lexemes(ts), LCut(t)[p])
    BY <2>1 DEF Reads, KnowsCuts
  <2>3. LCut(t)[p] = {<<x>> \o r : r \in LCut(t)[q]}
    BY <1>2 DEF Leads, x
  <2>4. LCut(t)[q] \subseteq Seq(Lexemes)
    BY <2>1, LCutIs
  <2>5. x \in E /\ LCut(t)[q] \in SUBSET Seq(E)
    <3>1. Seq(Lexemes) \subseteq Seq(E)
      BY <1>1
    <3> QED BY <1>1, <2>4, <3>1 DEF x
  <2>6. Joined(Tok!Lexemes(ts), LCut(t)[p]) = Joined(Tok!Lexemes(ts) \o <<x>>, LCut(t)[q])
    <3>1. PICK R : R = LCut(t)[q]
      OBVIOUS
    <3>2. PICK ls : ls = Tok!Lexemes(ts)
      OBVIOUS
    <3>3. x \in E
      BY <2>5
    <3>4. R \in SUBSET Seq(E)
      BY <2>5, <3>1
    <3>5. ls \in Seq(E)
      BY <1>1, <3>2
    <3>6. Joined(ls, {<<x>> \o r : r \in R}) = Joined(ls \o <<x>>, R)
      BY <3>3, <3>4, <3>5, Chained
    <3> QED BY <2>3, <3>1, <3>2, <3>6
  <2>7. Tok!Lexemes(Append(ts, tok)) = Tok!Lexemes(ts) \o <<x>>
    BY <1>0, LexemesAre DEF x
  <2> QED BY <2>2, <2>6, <2>7
<1>3. KnowsCuts(s, q, Append(ts, tok))
  BY <1>2 DEF KnowsCuts, Alike
<1>4. Tok!Viable(SubSeq(s, 1, q)) /\ Cuttable(s, q)
  <2> DEFINE u == SubSeq(s, 0 + 1, q)
  <2>1. u \in Strings /\ Len(u) = q /\ (\A k \in 1 .. q : u[k] = s[k]) /\ Begins(u, s, q)
    <3>1. u \in Strings /\ Len(u) = q - 0 /\ \A k \in 1 .. q - 0 : u[k] = s[0 + k]
      <4>1. PICK z \in Nat : z = 0
        OBVIOUS
      <4>2. s \in Strings /\ q \in z .. Len(s)
        BY <1>0, <4>1
      <4>3. SubSeq(s, z + 1, q) \in Strings /\ Len(SubSeq(s, z + 1, q)) = q - z
            /\ \A k \in 1 .. q - z : SubSeq(s, z + 1, q)[k] = s[z + k]
        BY <4>2, PieceIs
      <4> QED BY <4>1, <4>3
    <3>2. u \in Strings /\ Len(u) = q /\ \A k \in 1 .. q : u[k] = s[k]
      BY <1>0, <3>1
    <3> HIDE DEF u
    <3> QED BY <1>0, <3>2 DEF Begins
  <2>2. u = SubSeq(s, 1, q)
    OBVIOUS
  <2> HIDE DEF u
  <2>3. LCut(u)[q] = {<<>>}
    BY <2>1, NothingLeft
  <2>4. Tok!LooseCuts(u) # {}
    <3>1. Tok!LooseCuts(u) = Joined(Tok!Lexemes(Append(ts, tok)), {<<>>})
      BY <1>2, <2>1, <2>3
    <3> QED BY <3>1 DEF Joined
  <2>5. u \o <<>> = u
    BY <2>1, ConcatEmptySeq DEF Strings
  <2>6. PICK c : c \in Lower
    BY ClassesAssumption
  <2>7. <<>> \in Tok!Ends({c})
    BY DEF Tok!Ends
  <2> QED BY <2>2, <2>4, <2>5, <2>6, <2>7 DEF Tok!Viable, Cuttable
<1> QED BY <1>0, <1>3, <1>4 DEF Reads

\* Something is passed over.
LEMMA Passed ==
  ASSUME NEW s \in Strings, NEW p, NEW ts, Reads(s, p, ts), p < Len(s),
         \A t \in Strings : Alike(t, s, p + 1) => Passes(t, p),
         Tok!Viable(SubSeq(s, 1, p + 1)), Cuttable(s, p + 1)
  PROVE  Reads(s, p + 1, ts)
<1>0. Len(s) \in Nat /\ p \in 0 .. Len(s) /\ p + 1 \in 0 .. Len(s) /\ ts \in Seq(Tokens)
  BY DEF Strings, Reads
<1>1. ASSUME NEW t \in Strings, Alike(t, s, p + 1)
      PROVE  Tok!LooseCuts(t) = Joined(Tok!Lexemes(ts), LCut(t)[p + 1])
  <2>1. Alike(t, s, p)
    <3>1. Len(t) \in Nat
      BY DEF Strings
    <3> QED BY <1>0, <1>1, <3>1 DEF Begins, Alike
  <2> QED BY <1>1, <2>1 DEF Reads, KnowsCuts, Passes
<1>2. KnowsCuts(s, p + 1, ts)
  BY <1>1 DEF KnowsCuts
<1> QED BY <1>0, <1>2 DEF Reads

\* The spec is at its end.
LEMMA AllCut ==
  ASSUME NEW s \in Strings, NEW p, NEW ts, Reads(s, p, ts), p = Len(s)
  PROVE  Tok!LooseCuts(s) = {Tok!Lexemes(ts)}
<1>0. Len(s) \in Nat /\ ts \in Seq(Tokens)
  BY DEF Strings, Reads
<1>1. Alike(s, s, p)
  BY <1>0 DEF Alike, Begins
<1>2. Tok!LooseCuts(s) = Joined(Tok!Lexemes(ts), {<<>>})
  BY <1>1, NothingLeft DEF Reads, KnowsCuts
<1>3. Tok!Lexemes(ts) \o <<>> = Tok!Lexemes(ts)
  <2>1. PICK E : Tok!Lexemes(ts) \in Seq(E)
    BY <1>0, LexemesTyped
  <2> QED BY <2>1, ConcatEmptySeq
<1> QED BY <1>2, <1>3 DEF Joined

\* The beginning of a text with something else behind it.
LEMMA Extended ==
  ASSUME NEW s \in Strings, NEW q \in 0 .. Len(s), NEW e \in Strings
  PROVE  /\ SubSeq(s, 1, q) \o e \in Strings /\ Len(SubSeq(s, 1, q) \o e) = q + Len(e)
         /\ \A k \in 1 .. q : (SubSeq(s, 1, q) \o e)[k] = s[k]
         /\ \A k \in 1 .. Len(e) : (SubSeq(s, 1, q) \o e)[q + k] = e[k]
<1> DEFINE u == SubSeq(s, 0 + 1, q)
           t == u \o e
<1>0. Len(s) \in Nat /\ Len(e) \in Nat /\ q \in Nat
  BY DEF Strings
<1>1. u \in Strings /\ Len(u) = q - 0 /\ \A k \in 1 .. q - 0 : u[k] = s[0 + k]
  BY <1>0, PieceIs
<1>2. u = SubSeq(s, 1, q)
  OBVIOUS
<1>3. Len(u) = q /\ \A k \in 1 .. q : u[k] = s[k]
  BY <1>0, <1>1
<1> HIDE DEF u
<1>4. /\ t \in Strings /\ Len(t) = Len(u) + Len(e)
      /\ \A k \in 1 .. Len(u) + Len(e) : t[k] = IF k <= Len(u) THEN u[k] ELSE e[k - Len(u)]
  <2>1. u \in Seq(Characters) /\ e \in Seq(Characters)
    BY <1>1 DEF Strings
  <2> QED BY <2>1, ConcatProperties DEF Strings
<1>5. Len(t) = q + Len(e) /\ \A k \in 1 .. q + Len(e) : t[k] = IF k <= q THEN u[k] ELSE e[k - q]
  BY <1>3, <1>4
<1> HIDE DEF t
<1>6. \A k \in 1 .. q : t[k] = s[k]
  BY <1>0, <1>3, <1>5
<1>7. \A k \in 1 .. Len(e) : t[q + k] = e[k]
  BY <1>0, <1>5
<1> QED BY <1>2, <1>4, <1>5, <1>6, <1>7 DEF t

\* The ends that complete a text.
LEMMA EndsAre ==
  ASSUME NEW c \in Lower
  PROVE  /\ \A e \in Tok!Ends({c}) : e \in Strings
         /\ Tok!Ends({c}) = {<<>>, <<".">>, <<".", ".">>, <<">">>, <<c>>, <<c, ">">>, <<"<", c, ">">>}
         /\ c \in Characters /\ c \notin Separators /\ c \notin Tok!Blanks /\ c \in Tok!Letters /\ c \in Tok!Dashless
<1>1. c \in Characters /\ c \notin Separators /\ c \notin {Space, Tab}
  BY ClassesAssumption
<1>2. Tok!Ends({c}) = {<<>>, <<".">>, <<".", ".">>, <<">">>, <<c>>, <<c, ">">>, <<"<", c, ">">>}
  BY DEF Tok!Ends
<1>3. \A e \in Tok!Ends({c}) : e \in Strings
  <2>1. \A a, b, d \in Characters : <<>> \in Strings /\ <<a>> \in Strings /\ <<a, b>> \in Strings /\ <<a, b, d>> \in Strings
    BY DEF Strings
  <2>2. "." \in Characters /\ ">" \in Characters /\ "<" \in Characters
    BY ClassesAssumption DEF Separators
  <2> HIDE DEF Strings
  <2> QED BY <1>1, <1>2, <2>1, <2>2
<1> QED BY <1>1, <1>2, <1>3, ClassesApart DEF Separators

\* The spec up to q can be completed: behind it, e makes a last lexeme of what stands from p.
LEMMA CanEnd ==
  ASSUME NEW s \in Strings, NEW p, NEW ts, Reads(s, p, ts), NEW q \in p + 1 .. Len(s),
         NEW c \in Lower, NEW e \in Tok!Ends({c}), NEW x, x.to = q + Len(e),
         Leads(SubSeq(s, 1, q) \o e, p, x)
  PROVE  Tok!Viable(SubSeq(s, 1, q))
<1> DEFINE t == SubSeq(s, 1, q) \o e
<1>0. Len(s) \in Nat /\ p \in 0 .. Len(s) /\ q \in 0 .. Len(s) /\ p < q /\ e \in Strings /\ Len(e) \in Nat
  BY EndsAre DEF Strings, Reads
<1>1. t \in Strings /\ Len(t) = q + Len(e) /\ \A k \in 1 .. q : t[k] = s[k]
  BY <1>0, Extended
<1> HIDE DEF t
<1>2. Alike(t, s, p)
  BY <1>0, <1>1 DEF Alike, Begins
<1>3. Tok!LooseCuts(t) = Joined(Tok!Lexemes(ts), LCut(t)[p])
  BY <1>1, <1>2 DEF Reads, KnowsCuts
<1>4. LCut(t)[p] = {<<x>> \o r : r \in {<<>>}}
  BY <1>1, NothingLeft DEF Leads, t
<1>5. Tok!LooseCuts(t) # {}
  <2>1. PICK R : R = LCut(t)[p] /\ R # {}
    BY <1>4
  <2>2. Joined(Tok!Lexemes(ts), R) # {}
    BY <2>1 DEF Joined
  <2> QED BY <1>3, <2>1, <2>2
<1> QED BY <1>5 DEF Tok!Viable, t

\* What goes on like the spec beyond q cannot be cut.
LEMMA Refused ==
  ASSUME NEW s \in Strings, NEW p, NEW ts, Reads(s, p, ts), p < Len(s), NEW q \in p .. Len(s),
         Tok!Viable(SubSeq(s, 1, q)), \A t \in Strings : Alike(t, s, q) => Stuck(t, p)
  PROVE  BadAt(s, q)
<1>0. Len(s) \in Nat /\ p \in 0 .. Len(s) /\ q \in Nat
  BY DEF Strings, Reads
<1>1. ASSUME NEW t \in Strings, Alike(t, s, q) PROVE Tok!LooseCuts(t) = {}
  <2>1. Alike(t, s, p)
    <3>1. Len(t) \in Nat
      BY DEF Strings
    <3> QED BY <1>0, <1>1, <3>1 DEF Alike, Begins
  <2>2. LCut(t)[p] = {}
    BY <1>1 DEF Stuck
  <2> QED BY <2>1, <2>2 DEF Reads, KnowsCuts, Joined
<1>2. ASSUME q < Len(s), Tok!Viable(SubSeq(s, 1, q + 1)) PROVE FALSE
  <2>1. PICK c \in Lower : \E e \in Tok!Ends({c}) : Tok!LooseCuts(SubSeq(s, 1, q + 1) \o e) # {}
    BY <1>2 DEF Tok!Viable
  <2>2. PICK e \in Tok!Ends({c}) : Tok!LooseCuts(SubSeq(s, 1, q + 1) \o e) # {}
    BY <2>1
  <2> DEFINE t == SubSeq(s, 1, q + 1) \o e
  <2>3. e \in Strings /\ Len(e) \in Nat /\ q + 1 \in 0 .. Len(s)
    BY <1>0, <1>2, EndsAre DEF Strings
  <2>4. t \in Strings /\ Len(t) = q + 1 + Len(e) /\ \A k \in 1 .. q + 1 : t[k] = s[k]
    BY <2>3, Extended
  <2> HIDE DEF t
  <2>5. Alike(t, s, q)
    BY <1>0, <1>2, <2>3, <2>4 DEF Alike, Begins
  <2> QED BY <1>1, <2>2, <2>4, <2>5 DEF t
<1>3. Tok!LooseCuts(s) = {}
  <2>1. Alike(s, s, q)
    BY <1>0 DEF Alike, Begins
  <2> QED BY <1>1, <2>1
<1> QED BY <1>0, <1>2, <1>3 DEF BadAt

\* What the tokenizer refuses though the grammar has it: it is stricter there.
LEMMA TooStrict ==
  ASSUME NEW s \in Strings, NEW p, NEW ts, Reads(s, p, ts), NEW q \in p + 1 .. Len(s), q < Len(s),
         NEW x \in Tok!Ahead(s, p), x.to = q, s[p + 1] = "-", Tok!Viable(SubSeq(s, 1, q)),
         \/ x.typ = "dblDash" /\ s[q + 1] # Space
         \/ x.typ \in {"shortOpt", "optSeq"} /\ s[q + 1] = "-"
  PROVE  BadAt(s, q)
<1>1. Len(s) \in Nat /\ p \in 0 .. q - 1
  BY DEF Strings, Reads
<1>2. Tok!LooseCuts(SubSeq(s, 1, p)) # {}
  <2> HIDE DEF Tok!Letters
  <2> QED BY DEF Reads, Cuttable
<1>3. Tok!Stricter(s, q)
  BY <1>1, <1>2 DEF Tok!Stricter
<1> QED BY <1>1, <1>3 DEF BadAt

(***************************************************************************)
(* The steps of uTokenize on the spec.                                     *)
(***************************************************************************)

\* EndOf finds the end of a run of characters.
LEMMA EndOfIs ==
  ASSUME spec \in Strings, NEW p \in 0 .. Len(spec), NEW C
  PROVE  IsRun(spec, p, Tok!EndOf(p, C), C)
<1> DEFINE u == SubSeq(spec, p + 1, Len(spec))
           I == {i \in 1 .. Len(u) : u[i] \notin C}
           q == Tok!EndOf(p, C)
<1>0. Len(spec) \in Nat /\ p \in Nat /\ Len(spec) \in p .. Len(spec)
  BY DEF Strings
<1>1. Len(u) = Len(spec) - p /\ \A k \in 1 .. Len(spec) - p : u[k] = spec[p + k]
  BY <1>0, PieceIs
<1>2. q = IF (IF I # {} THEN Min(I) ELSE 0) = 0 THEN Len(spec) ELSE p + (IF I # {} THEN Min(I) ELSE 0) - 1
  BY Zenon DEF Tok!EndOf, Tok!SelectInSeq, Tok!Min, Min, Tok!Text
<1> HIDE DEF q
<1>3. I \subseteq Nat /\ I \subseteq 1 .. Len(spec) - p
  BY <1>0, <1>1
<1>4. CASE I = {}
  <2>1. q = Len(spec)
    BY <1>2, <1>4
  <2>2. ASSUME NEW k \in p + 1 .. q PROVE spec[k] \in C
    <3>1. k - p \in 1 .. Len(u) /\ p + (k - p) = k
      BY <1>0, <1>1, <2>1
    <3>2. u[k - p] \in C
      BY <1>4, <3>1
    <3> QED BY <1>1, <3>1, <3>2
  <2> QED BY <1>0, <2>1, <2>2 DEF IsRun, q
<1>5. CASE I # {}
  <2>1. PICK i : i = Min(I)
    OBVIOUS
  <2>2. i \in I /\ \A y \in I : i <= y
    BY <1>3, <1>5, <2>1, LeastNumber
  <2>3. i \in 1 .. Len(spec) - p /\ u[i] \notin C
    BY <1>3, <2>2
  <2>4. q = p + i - 1
    <3> HIDE DEF I
    <3>1. q = IF i = 0 THEN Len(spec) ELSE p + i - 1
      BY <1>2, <1>5, <2>1
    <3> QED BY <1>0, <2>3, <3>1
  <2>5. ASSUME NEW k \in p + 1 .. q PROVE spec[k] \in C
    <3>1. k - p \in 1 .. Len(u) /\ p + (k - p) = k /\ ~(i <= k - p)
      BY <1>0, <1>1, <2>3, <2>4
    <3>2. u[k - p] \in C
      BY <2>2, <3>1
    <3> QED BY <1>1, <3>1, <3>2
  <2>6. q \in p .. Len(spec) /\ q + 1 = p + i
    BY <1>0, <2>3, <2>4
  <2>7. spec[q + 1] \notin C
    BY <1>1, <2>3, <2>6
  <2> QED BY <2>5, <2>6, <2>7 DEF IsRun, q
<1> QED BY <1>4, <1>5

\* What the loop has found: the tokens of the spec up to here; or all of them; or
\* the first bad character.
Sound(s, p, ts, c) ==
  /\ c = "cutting" => Reads(s, p, ts)
  /\ c = "ok" => Tok!LooseCuts(s) = {Tok!Lexemes(ts)} /\ ts \in Seq(Tokens)
  /\ c = "error" => BadAt(s, p)

LEMMA SeesIs ==
  ASSUME spec \in Strings, NEW p \in Nat, NEW C
  PROVE  /\ Tok!Sees(p, C) <=> p < Len(spec) /\ spec[p + 1] \in C
         /\ Tok!Eof(p) <=> ~(p < Len(spec))
<1>1. Len(spec) \in Nat
  BY DEF Strings
<1> QED BY <1>1 DEF Tok!Sees, Tok!Eof

\* A run that the spec has is in the texts that begin like it.
LEMMA SameRun ==
  ASSUME NEW s \in Strings, NEW p \in Nat, NEW q, NEW C, IsRun(s, p, q, C), NEW t \in Strings, Begins(t, s, q)
  PROVE  IsRun(t, p, q, C)
<1>1. Len(s) \in Nat /\ Len(t) \in Nat
  BY DEF Strings
<1>2. q \in p .. Len(t) /\ \A k \in p + 1 .. q : k \in 1 .. q
  BY <1>1 DEF IsRun, Begins
<1> QED BY <1>1, <1>2 DEF IsRun, Begins

LEMMA TokenIs ==
  ASSUME spec \in Strings, NEW typ \in Tok!TokenTypes, NEW p \in Nat, NEW q \in p .. Len(spec),
         NEW i \in Nat, p = IF typ = "optSeq" THEN i + 1 ELSE i
  PROVE  /\ Tok!Token(typ, p, q) \in Tokens
         /\ Tok!LexemeOf(Tok!Token(typ, p, q)) = Tok!Lexeme(typ, i, q)
         /\ Tok!Lexeme(typ, i, q) \in Lexemes
<1> HIDE DEF Tok!TokenTypes
<1>0. Len(spec) \in Nat /\ q \in Nat
  BY DEF Strings
<1> DEFINE v == SubSeq(spec, p + 1, q)
<1>1. v \in Strings /\ Len(v) = q - p
  BY PieceIs
<1>2. Tok!Token(typ, p, q) = [typ |-> typ, val |-> v, pos |-> p]
  BY DEF Tok!Token, Tok!Text
<1> HIDE DEF v, Strings
<1>3. Tok!Token(typ, p, q) \in Tokens
  BY <1>1, <1>2 DEF Tokens
<1>4. p + Len(v) = q
  BY <1>0, <1>1
<1>5. p - (IF typ = "optSeq" THEN 1 ELSE 0) = i
  OBVIOUS
<1>6. Tok!LexemeOf(Tok!Token(typ, p, q)) = Tok!Lexeme(typ, p - (IF typ = "optSeq" THEN 1 ELSE 0), p + Len(v))
  BY <1>2 DEF Tok!LexemeOf
<1>7. Tok!LexemeOf(Tok!Token(typ, p, q)) = Tok!Lexeme(typ, i, q)
  BY <1>4, <1>5, <1>6
<1>8. Tok!Lexeme(typ, i, q) \in Lexemes
  BY <1>0 DEF Tok!Lexeme, Lexemes
<1> QED BY <1>3, <1>7, <1>8

\* A step that takes a token, one that stops, and one that does neither.
LEMMA TakesIt ==
  ASSUME NEW typ \in Tok!TokenTypes, NEW p, NEW q \in pos + 1 .. Len(spec),
         spec \in Strings, cut = "cutting", Reads(spec, pos, tokens), Tok!Take(Tok!Token(typ, p, q), q),
         p = IF typ = "optSeq" THEN pos + 1 ELSE pos,
         \A t \in Strings : Begins(t, spec, q) => Leads(t, pos, Tok!Lexeme(typ, pos, q))
  PROVE  Sound(spec', pos', tokens', cut')
<1> DEFINE tok == Tok!Token(typ, p, q)
<1> HIDE DEF Tok!TokenTypes
<1>0. Len(spec) \in Nat /\ pos \in Nat /\ p \in Nat /\ q \in p .. Len(spec)
  BY DEF Reads, Strings
<1>1. tok \in Tokens /\ Tok!LexemeOf(tok) = Tok!Lexeme(typ, pos, q) /\ Tok!Lexeme(typ, pos, q) \in Lexemes
  BY <1>0, TokenIs
<1>2. spec' = spec /\ cut' = cut /\ pos' = q /\ tokens' = Append(tokens, tok)
  BY DEF Tok!Take
<1> HIDE DEF tok
<1>3. Tok!Lexeme(typ, pos, q).to = q
  BY DEF Tok!Lexeme
<1>4. Reads(spec, q, Append(tokens, tok))
  BY <1>1, <1>3, Taken
<1> QED BY <1>2, <1>4 DEF Sound

LEMMA StopsAt ==
  ASSUME NEW q \in pos .. Len(spec), spec \in Strings, Reads(spec, pos, tokens), pos < Len(spec), Tok!Stop(q),
         Tok!Viable(SubSeq(spec, 1, q)), \A t \in Strings : Alike(t, spec, q) => Stuck(t, pos)
  PROVE  Sound(spec', pos', tokens', cut')
<1>1. spec' = spec /\ cut' = "error" /\ pos' = q
  BY DEF Tok!Stop
<1>2. BadAt(spec, q)
  BY Refused
<1> QED BY <1>1, <1>2 DEF Sound

LEMMA StopsThere ==
  ASSUME NEW q, Tok!Stop(q), BadAt(spec, q)
  PROVE  Sound(spec', pos', tokens', cut')
<1>1. spec' = spec /\ cut' = "error" /\ pos' = q
  BY DEF Tok!Stop
<1> QED BY <1>1 DEF Sound

LEMMA SkipsIt ==
  ASSUME spec \in Strings, cut = "cutting", Reads(spec, pos, tokens), pos < Len(spec), Tok!Skip(pos + 1), Cuttable(spec, pos + 1),
         Tok!Viable(SubSeq(spec, 1, pos + 1)), \A t \in Strings : Alike(t, spec, pos + 1) => Passes(t, pos)
  PROVE  Sound(spec', pos', tokens', cut')
<1>1. spec' = spec /\ cut' = cut /\ pos' = pos + 1 /\ tokens' = tokens
  BY DEF Tok!Skip
<1>2. Reads(spec, pos + 1, tokens)
  BY Passed
<1> QED BY <1>1, <1>2 DEF Sound

\* A text that is cut up to here is completed by nothing.
LEMMA EndsHere ==
  ASSUME NEW s \in Strings, NEW p, NEW ts, Reads(s, p, ts), p < Len(s),
         \A t \in Strings : Begins(t, s, p + 1) => Passes(t, p)
  PROVE  Tok!Viable(SubSeq(s, 1, p + 1)) /\ Cuttable(s, p + 1)
<1>0. Len(s) \in Nat /\ p \in 0 .. Len(s) /\ p + 1 \in 0 .. Len(s)
  BY DEF Strings, Reads
<1>1. PICK c : c \in Lower
  BY ClassesAssumption
<1>2. PICK e : e \in Tok!Ends({c}) /\ e \in Strings /\ Len(e) = 0 /\ e = <<>>
  <2>1. <<>> \in Tok!Ends({c}) /\ <<>> \in Strings /\ Len(<<>>) = 0
    BY <1>1, EndsAre
  <2> QED BY <2>1
<1> DEFINE u == SubSeq(s, 1, p + 1) \o e
<1>3. u \in Strings /\ Len(u) = p + 1 /\ \A k \in 1 .. p + 1 : u[k] = s[k]
  <2>1. u \in Strings /\ Len(u) = p + 1 + Len(e) /\ \A k \in 1 .. p + 1 : u[k] = s[k]
    BY <1>0, <1>2, Extended
  <2> HIDE DEF u
  <2> QED BY <1>0, <1>2, <2>1
<1> HIDE DEF u
<1>4. Alike(u, s, p) /\ Begins(u, s, p + 1)
  BY <1>0, <1>3 DEF Alike, Begins
<1>5. Tok!LooseCuts(u) = Joined(Tok!Lexemes(ts), LCut(u)[p])
  BY <1>3, <1>4 DEF Reads, KnowsCuts
<1>6. LCut(u)[p] = LCut(u)[p + 1]
  BY <1>3, <1>4 DEF Passes
<1>7. LCut(u)[p + 1] = {<<>>}
  BY <1>3, NothingLeft
<1>8. Tok!LooseCuts(u) # {}
  BY <1>5, <1>6, <1>7 DEF Joined
<1>9. u = SubSeq(s, 1, p + 1)
  <2>1. SubSeq(s, 0 + 1, p + 1) \in Strings
    BY <1>0, PieceIs
  <2>2. SubSeq(s, 1, p + 1) \in Strings
    BY <2>1
  <2> HIDE DEF u
  <2>3. u = SubSeq(s, 1, p + 1) \o <<>>
    BY <1>2 DEF u
  <2> QED BY <2>2, <2>3, ConcatEmptySeq DEF Strings
<1> QED BY <1>1, <1>2, <1>8, <1>9 DEF Tok!Viable, Cuttable, u

Scanning == spec \in Strings /\ cut = "cutting" /\ Reads(spec, pos, tokens)

LEMMA Here ==
  ASSUME Scanning
  PROVE  /\ Len(spec) \in Nat /\ pos \in Nat /\ pos <= Len(spec) /\ spec \in Strings
         /\ \A C : Tok!At(C) => pos < Len(spec) /\ spec[pos + 1] \in C
<1>1. Len(spec) \in Nat /\ pos \in Nat /\ pos <= Len(spec)
  BY DEF Scanning, Reads, Strings
<1>2. \A C : Tok!At(C) => pos < Len(spec) /\ spec[pos + 1] \in C
  BY <1>1, SeesIs DEF Scanning, Tok!At
<1> QED BY <1>1, <1>2 DEF Scanning

LEMMA BlankSound ==
  ASSUME Scanning, Tok!Blank
  PROVE  Sound(spec', pos', tokens', cut')
<1>1. pos < Len(spec) /\ spec[pos + 1] \in Tok!Blanks /\ Tok!Skip(pos + 1) /\ pos \in Nat
  BY Here DEF Tok!Blank
<1>2. ASSUME NEW t \in Strings, Begins(t, spec, pos + 1) PROVE Passes(t, pos)
  <2>1. Len(t) \in Nat
    BY DEF Strings
  <2>2. pos < Len(t) /\ t[pos + 1] = spec[pos + 1]
    BY <1>1, <1>2, <2>1 DEF Begins
  <2> QED BY <1>1, <2>2, AtBlank
<1>3. Tok!Viable(SubSeq(spec, 1, pos + 1)) /\ Cuttable(spec, pos + 1)
  BY <1>1, <1>2, EndsHere DEF Scanning
<1> QED BY <1>1, <1>2, <1>3, SkipsIt DEF Scanning, Alike

LEMMA BracketSound ==
  ASSUME Scanning, Tok!Bracket
  PROVE  Sound(spec', pos', tokens', cut')
<1> DEFINE typ == Tok!Punctuation[spec[pos + 1]]
<1>1. /\ pos < Len(spec) /\ spec[pos + 1] \in DOMAIN Tok!Punctuation /\ pos \in Nat /\ Len(spec) \in Nat
      /\ Tok!Take(Tok!Token(typ, pos, pos + 1), pos + 1)
  BY Here DEF Tok!Bracket
<1>2. typ \in Tok!TokenTypes /\ typ # "optSeq"
  <2>1. spec[pos + 1] \in {"[", "]", "(", ")", "|"}
    BY <1>1, ClassesApart
  <2>2. typ \in Tok!Range(Tok!Punctuation)
    BY <1>1 DEF Tok!Range
  <2>3. typ # "optSeq"
    BY <2>1 DEF Tok!Punctuation
  <2> QED BY <2>2, <2>3 DEF Tok!TokenTypes
<1>3. ASSUME NEW t \in Strings, Begins(t, spec, pos + 1) PROVE Leads(t, pos, Tok!Lexeme(typ, pos, pos + 1))
  <2>1. Len(t) \in Nat
    BY DEF Strings
  <2>2. pos < Len(t) /\ t[pos + 1] = spec[pos + 1]
    BY <1>1, <1>3, <2>1 DEF Begins
  <2> QED BY <1>1, <2>2, AtBracket
<1> HIDE DEF typ
<1>4. pos + 1 \in pos + 1 .. Len(spec)
  BY <1>1
<1> QED BY <1>1, <1>2, <1>3, <1>4, TakesIt DEF Scanning

LEMMA UnexpectedSound ==
  ASSUME Scanning, Tok!Unexpected
  PROVE  Sound(spec', pos', tokens', cut')
<1>1. pos < Len(spec) /\ Tok!Stop(pos) /\ pos \in pos .. Len(spec) /\ pos \in Nat
  BY Here, SeesIs DEF Tok!Unexpected
<1>2. spec[pos + 1] \notin Tok!Blanks \cup DOMAIN Tok!Punctuation \cup {".", "-", "="} \cup Upper
  BY DEF Tok!Unexpected
<1>3. ASSUME NEW t \in Strings, Alike(t, spec, pos) PROVE Stuck(t, pos)
  <2>1. Len(t) \in Nat
    BY DEF Strings
  <2>2. pos < Len(t) /\ t[pos + 1] = spec[pos + 1]
    BY <1>1, <1>3, <2>1 DEF Begins, Alike
  <2> QED BY <1>1, <1>2, <2>2, AtNothing
<1>4. Tok!Viable(SubSeq(spec, 1, pos))
  BY DEF Scanning, Reads
<1> QED BY <1>1, <1>3, <1>4, StopsAt DEF Scanning

LEMMA ReturnSound ==
  ASSUME Scanning, Tok!Return
  PROVE  Sound(spec', pos', tokens', cut')
<1>1. spec' = spec /\ cut' = "ok" /\ tokens' = tokens /\ pos = Len(spec)
  BY Here, SeesIs DEF Tok!Return
<1>2. Tok!LooseCuts(spec) = {Tok!Lexemes(tokens)}
  BY <1>1, AllCut DEF Scanning
<1>3. tokens \in Seq(Tokens)
  BY DEF Scanning, Reads
<1> QED BY <1>1, <1>2, <1>3 DEF Sound

LEMMA NameSound ==
  ASSUME Scanning, Tok!Name
  PROVE  Sound(spec', pos', tokens', cut')
<1> DEFINE end == Tok!EndOf(pos + 1, Tok!OkPos)
           typ == IF Keyword(spec, pos, end) THEN "options" ELSE "pos"
<1>1. pos < Len(spec) /\ spec[pos + 1] \in Upper /\ pos \in Nat /\ Len(spec) \in Nat /\ spec \in Strings
  BY Here DEF Tok!Name
<1>2. Tok!Take(Tok!Token(typ, pos, end), end)
  BY DEF Tok!Name, Keyword, Tok!Text
<1>3. IsRun(spec, pos + 1, end, Tok!OkPos)
  <2>1. pos + 1 \in 0 .. Len(spec)
    BY <1>1
  <2> QED BY <1>1, <2>1, EndOfIs
<1> HIDE DEF end
<1>4. IsRun(spec, pos, end, Tok!OkPos) /\ end \in pos + 1 .. Len(spec)
  <2>1. spec[pos + 1] \in Tok!OkPos
    BY <1>1, ClassesApart
  <2>2. end \in pos + 1 .. Len(spec) /\ end \in pos .. Len(spec)
    BY <1>1, <1>3 DEF IsRun
  <2>3. \A k \in pos + 1 .. end : k = pos + 1 \/ k \in pos + 1 + 1 .. end
    BY <1>1, <2>2
  <2> HIDE DEF Tok!OkPos
  <2> QED BY <1>3, <2>1, <2>2, <2>3 DEF IsRun
<1>5. typ \in Tok!TokenTypes /\ typ # "optSeq"
  BY DEF Tok!TokenTypes
<1>6. ASSUME NEW t \in Strings, Begins(t, spec, end) PROVE Leads(t, pos, Tok!Lexeme(typ, pos, end))
  <2>1. Len(t) \in Nat
    BY DEF Strings
  <2>2. pos < Len(t) /\ t[pos + 1] = spec[pos + 1] /\ \A k \in 1 .. end - pos : t[pos + k] = spec[pos + k]
    BY <1>1, <1>4, <1>6, <2>1 DEF Begins
  <2>3. IsRun(t, pos, end, Tok!OkPos)
    BY <1>1, <1>4, <1>6, SameRun
  <2>4. Keyword(t, pos, end) <=> Keyword(spec, pos, end)
    <3>1. \A k \in 1 .. end - pos : t[k + pos] = spec[k + pos]
      BY <1>1, <2>2
    <3>2. SubSeq(t, pos + 1, end) = [k \in 1 .. end - pos |-> t[k + pos]]
      BY <1>1, <1>4
    <3>3. SubSeq(spec, pos + 1, end) = [k \in 1 .. end - pos |-> spec[k + pos]]
      BY <1>1, <1>4
    <3>4. SubSeq(t, pos + 1, end) = SubSeq(spec, pos + 1, end)
      BY <3>1, <3>2, <3>3
    <3> QED BY <3>4 DEF Keyword
  <2> HIDE DEF Keyword, Tok!OkPos
  <2>5. Leads(t, pos, Tok!Lexeme(IF Keyword(t, pos, end) THEN "options" ELSE "pos", pos, end))
    BY <1>1, <2>2, <2>3, AtName
  <2> QED BY <2>4, <2>5
<1> HIDE DEF typ
<1> QED BY <1>1, <1>2, <1>4, <1>5, <1>6, TakesIt DEF Scanning

LEMMA DotsSound ==
  ASSUME Scanning, Tok!Dots
  PROVE  Sound(spec', pos', tokens', cut')
<1>1. pos < Len(spec) /\ spec[pos + 1] = "." /\ pos \in Nat /\ Len(spec) \in Nat /\ spec \in Strings
  BY Here DEF Tok!Dots
<1>2. /\ Tok!Sees(pos + 1, {"."}) <=> pos + 1 < Len(spec) /\ spec[pos + 2] = "."
      /\ Tok!Sees(pos + 2, {"."}) <=> pos + 2 < Len(spec) /\ spec[pos + 3] = "."
  <2>1. pos + 1 \in Nat /\ pos + 2 \in Nat /\ pos + 1 + 1 = pos + 2 /\ pos + 2 + 1 = pos + 3
    BY <1>1
  <2> QED BY <1>1, <2>1, SeesIs
<1>3. \A t \in Strings : pos < Len(t) /\ t[pos + 1] = "." =>
         IF pos + 3 <= Len(t) /\ t[pos + 2] = "." /\ t[pos + 3] = "."
         THEN Leads(t, pos, Tok!Lexeme("rep", pos, pos + 3)) ELSE Stuck(t, pos)
  BY <1>1, AtDots
<1>4. PICK c : c \in Lower
  BY ClassesAssumption
<1>5. \A e : e \in Tok!Ends({c}) <=> e \in {<<>>, <<".">>, <<".", ".">>, <<">">>, <<c>>, <<c, ">">>, <<"<", c, ">">>}
  BY <1>4, EndsAre
<1>6. CASE ~Tok!Sees(pos + 1, {"."})
  <2>1. Tok!Stop(pos + 1) /\ pos + 1 \in pos .. Len(spec) /\ pos + 1 \in pos + 1 .. Len(spec) /\ pos + 1 \in 0 .. Len(spec)
    BY <1>1, <1>6 DEF Tok!Dots
  <2>2. PICK e : e = <<".", ".">>
    OBVIOUS
  <2>3. e \in Tok!Ends({c}) /\ e \in Strings /\ Len(e) = 2 /\ e[1] = "." /\ e[2] = "."
    BY <1>4, <1>5, <2>2, EndsAre
  <2> DEFINE t == SubSeq(spec, 1, pos + 1) \o e
  <2>4. /\ t \in Strings /\ Len(t) = pos + 1 + Len(e)
        /\ \A k \in 1 .. pos + 1 : t[k] = spec[k]
        /\ \A k \in 1 .. Len(e) : t[pos + 1 + k] = e[k]
    BY <1>1, <2>1, <2>3, Extended
  <2> HIDE DEF t
  <2>5. t[pos + 1] = "." /\ t[pos + 2] = "." /\ t[pos + 3] = "." /\ Len(t) = pos + 3
    <3>1. pos + 1 + 1 = pos + 2 /\ pos + 1 + 2 = pos + 3 /\ pos + 1 \in 1 .. pos + 1 /\ 1 \in 1 .. Len(e) /\ 2 \in 1 .. Len(e)
      BY <1>1, <2>3
    <3> QED BY <1>1, <2>3, <2>4, <3>1
  <2>6. Leads(t, pos, Tok!Lexeme("rep", pos, pos + 3))
    BY <1>1, <1>3, <2>4, <2>5
  <2>7. Tok!Viable(SubSeq(spec, 1, pos + 1))
    <3>1. Tok!Lexeme("rep", pos, pos + 3).to = pos + 1 + Len(e)
      BY <1>1, <2>3 DEF Tok!Lexeme
    <3> QED BY <1>4, <2>1, <2>3, <2>6, <3>1, CanEnd DEF Scanning, t
  <2>8. ASSUME NEW u \in Strings, Alike(u, spec, pos + 1) PROVE Stuck(u, pos)
    <3>1. Len(u) \in Nat
      BY DEF Strings
    <3>2. pos < Len(u) /\ u[pos + 1] = "." /\ (pos + 1 < Len(u) => pos + 1 < Len(spec) /\ u[pos + 2] = spec[pos + 2])
      BY <1>1, <2>8, <3>1 DEF Alike, Begins
    <3> QED BY <1>1, <1>2, <1>3, <1>6, <3>1, <3>2
  <2> QED BY <1>1, <2>1, <2>7, <2>8, StopsAt DEF Scanning
<1>7. CASE Tok!Sees(pos + 1, {"."}) /\ ~Tok!Sees(pos + 2, {"."})
  <2>1. Tok!Stop(pos + 2) /\ pos + 2 \in pos .. Len(spec) /\ pos + 2 \in pos + 1 .. Len(spec) /\ pos + 2 \in 0 .. Len(spec)
    BY <1>1, <1>2, <1>7 DEF Tok!Dots
  <2>2. PICK e : e = <<".">>
    OBVIOUS
  <2>3. e \in Tok!Ends({c}) /\ e \in Strings /\ Len(e) = 1 /\ e[1] = "."
    BY <1>4, <1>5, <2>2, EndsAre
  <2> DEFINE t == SubSeq(spec, 1, pos + 2) \o e
  <2>4. /\ t \in Strings /\ Len(t) = pos + 2 + Len(e)
        /\ \A k \in 1 .. pos + 2 : t[k] = spec[k]
        /\ \A k \in 1 .. Len(e) : t[pos + 2 + k] = e[k]
    BY <1>1, <2>1, <2>3, Extended
  <2> HIDE DEF t
  <2>5. t[pos + 1] = "." /\ t[pos + 2] = "." /\ t[pos + 3] = "." /\ Len(t) = pos + 3
    <3>1. pos + 2 + 1 = pos + 3 /\ pos + 1 \in 1 .. pos + 2 /\ pos + 2 \in 1 .. pos + 2 /\ 1 \in 1 .. Len(e)
      BY <1>1, <2>3
    <3> QED BY <1>1, <1>2, <1>7, <2>3, <2>4, <3>1
  <2>6. Leads(t, pos, Tok!Lexeme("rep", pos, pos + 3))
    BY <1>1, <1>3, <2>4, <2>5
  <2>7. Tok!Viable(SubSeq(spec, 1, pos + 2))
    <3>1. Tok!Lexeme("rep", pos, pos + 3).to = pos + 2 + Len(e)
      BY <1>1, <2>3 DEF Tok!Lexeme
    <3> QED BY <1>4, <2>1, <2>3, <2>6, <3>1, CanEnd DEF Scanning, t
  <2>8. ASSUME NEW u \in Strings, Alike(u, spec, pos + 2) PROVE Stuck(u, pos)
    <3>1. Len(u) \in Nat
      BY DEF Strings
    <3>2. pos < Len(u) /\ u[pos + 1] = "." /\ (pos + 2 < Len(u) => pos + 2 < Len(spec) /\ u[pos + 3] = spec[pos + 3])
      BY <1>1, <2>8, <3>1 DEF Alike, Begins
    <3> QED BY <1>1, <1>2, <1>3, <1>7, <3>1, <3>2
  <2> QED BY <1>1, <2>1, <2>7, <2>8, StopsAt DEF Scanning
<1>8. CASE Tok!Sees(pos + 1, {"."}) /\ Tok!Sees(pos + 2, {"."})
  <2>1. Tok!Take(Tok!Token("rep", pos, pos + 3), pos + 3) /\ pos + 3 \in pos + 1 .. Len(spec)
    BY <1>1, <1>2, <1>8 DEF Tok!Dots
  <2>2. "rep" \in Tok!TokenTypes
    BY DEF Tok!TokenTypes
  <2>3. ASSUME NEW t \in Strings, Begins(t, spec, pos + 3) PROVE Leads(t, pos, Tok!Lexeme("rep", pos, pos + 3))
    <3>1. Len(t) \in Nat
      BY DEF Strings
    <3>2. pos + 3 <= Len(t) /\ t[pos + 1] = "." /\ t[pos + 2] = "." /\ t[pos + 3] = "."
      BY <1>1, <1>2, <1>8, <2>3, <3>1 DEF Begins
    <3> QED BY <1>1, <1>3, <3>1, <3>2
  <2>4. pos = IF "rep" = "optSeq" THEN pos + 1 ELSE pos
    OBVIOUS
  <2> QED BY <2>1, <2>2, <2>3, <2>4, TakesIt DEF Scanning
<1> QED BY <1>6, <1>7, <1>8

LEMMA ShortOptsSound ==
  ASSUME Scanning, Tok!ShortOpts
  PROVE  Sound(spec', pos', tokens', cut')
<1> DEFINE end == Tok!EndOf(pos + 1, Tok!Letters)
           typ == IF end > pos + 2 THEN "optSeq" ELSE "shortOpt"
<1>1. pos < Len(spec) /\ spec[pos + 1] = "-" /\ pos \in Nat /\ Len(spec) \in Nat /\ spec \in Strings
  BY Here DEF Tok!ShortOpts
<1>2. pos + 1 < Len(spec) /\ spec[pos + 2] \in Tok!Letters
  <2>1. pos + 1 \in Nat /\ pos + 1 + 1 = pos + 2
    BY <1>1
  <2> QED BY <1>1, <2>1, SeesIs DEF Tok!ShortOpts
<1>3. IsRun(spec, pos + 1, end, Tok!Letters)
  <2>1. pos + 1 \in 0 .. Len(spec)
    BY <1>1
  <2> QED BY <1>1, <2>1, EndOfIs
<1>4. /\ Tok!Sees(end, {"-"}) => Tok!Stop(end)
      /\ ~Tok!Sees(end, {"-"}) =>
           Tok!Take(IF end - pos > 2 THEN Tok!Token("optSeq", pos + 1, end) ELSE Tok!Token("shortOpt", pos, end), end)
  BY Zenon DEF Tok!ShortOpts
<1> HIDE DEF end
<1>5. end \in pos + 2 .. Len(spec) /\ end \in pos + 1 .. Len(spec) /\ end \in pos .. Len(spec) /\ end \in Nat
  <2>1. end \in pos + 1 .. Len(spec) /\ (end < Len(spec) => spec[end + 1] \notin Tok!Letters)
    BY <1>3 DEF IsRun
  <2>2. end # pos + 1
    BY <1>1, <1>2, <2>1
  <2> QED BY <1>1, <2>1, <2>2
<1>6. \A t \in Strings : Begins(t, spec, end) =>
        Leads(t, pos, Tok!Lexeme(typ, pos, end)) /\ Tok!Ahead(t, pos) = {Tok!Lexeme(typ, pos, end)}
  <2> SUFFICES ASSUME NEW t \in Strings, Begins(t, spec, end)
               PROVE Leads(t, pos, Tok!Lexeme(typ, pos, end)) /\ Tok!Ahead(t, pos) = {Tok!Lexeme(typ, pos, end)}
    OBVIOUS
  <2>1. Len(t) \in Nat
    BY DEF Strings
  <2>2. pos < Len(t) /\ t[pos + 1] = "-" /\ end >= pos + 2
    BY <1>1, <1>5, <2>1 DEF Begins
  <2>3. IsRun(t, pos + 1, end, Tok!Letters)
    BY <1>1, <1>3, SameRun
  <2> HIDE DEF Tok!Letters
  <2> QED BY <1>1, <2>2, <2>3, AtShort
<1>7. CASE Tok!Sees(end, {"-"})
  <2>1. end < Len(spec) /\ spec[end + 1] = "-" /\ Tok!Stop(end)
    BY <1>1, <1>4, <1>5, <1>7, SeesIs
  <2>2. Tok!Ahead(spec, pos) = {Tok!Lexeme(typ, pos, end)}
    <3>1. Begins(spec, spec, end)
      BY <1>1, <1>5 DEF Begins
    <3> QED BY <1>1, <1>6, <3>1
  <2>3. PICK c : c \in Lower
    BY ClassesAssumption
  <2>4. PICK e : e \in Tok!Ends({c}) /\ e \in Strings /\ Len(e) = 0
    <3>1. <<>> \in Tok!Ends({c}) /\ <<>> \in Strings /\ Len(<<>>) = 0
      BY <2>3, EndsAre
    <3> QED BY <3>1
  <2> DEFINE t == SubSeq(spec, 1, end) \o e
  <2>5. t \in Strings /\ Len(t) = end + Len(e) /\ \A k \in 1 .. end : t[k] = spec[k]
    <3>1. end \in 0 .. Len(spec)
      BY <1>1, <1>5
    <3> QED BY <1>1, <2>4, <3>1, Extended
  <2> HIDE DEF t
  <2>6. Begins(t, spec, end) /\ end = Len(t)
    BY <1>1, <1>5, <2>4, <2>5 DEF Begins
  <2>7. Leads(t, pos, Tok!Lexeme(typ, pos, end))
    BY <1>6, <2>5, <2>6
  <2>8. Tok!Viable(SubSeq(spec, 1, end))
    <3>1. Tok!Lexeme(typ, pos, end).to = end + Len(e)
      BY <1>5, <2>4 DEF Tok!Lexeme
    <3> HIDE DEF typ
    <3> QED BY <1>5, <2>3, <2>4, <2>7, <3>1, CanEnd DEF Scanning, t
  <2>9. PICK x : x = Tok!Lexeme(typ, pos, end)
    OBVIOUS
  <2>10. x \in Tok!Ahead(spec, pos) /\ x.to = end /\ x.typ \in {"shortOpt", "optSeq"}
    BY <2>2, <2>9 DEF Tok!Lexeme
  <2>11. BadAt(spec, end)
    <3>1. end \in pos + 1 .. Len(spec)
      BY <1>1, <1>5
    <3> QED BY <1>1, <2>1, <2>8, <2>10, <3>1, TooStrict DEF Scanning
  <2> QED BY <2>1, <2>11, StopsThere
<1>8. CASE ~Tok!Sees(end, {"-"})
  <2>1. ~(end < Len(spec) /\ spec[end + 1] = "-")
    BY <1>1, <1>5, <1>8, SeesIs
  <2>2. ASSUME NEW t \in Strings, Begins(t, spec, end) PROVE Leads(t, pos, Tok!Lexeme(typ, pos, end))
    BY <1>6, <2>2
  <2>3. Tok!Take(Tok!Token(typ, IF typ = "optSeq" THEN pos + 1 ELSE pos, end), end)
    <3>1. end - pos > 2 <=> end > pos + 2
      BY <1>1, <1>5
    <3> QED BY <1>4, <1>8, <3>1
  <2>4. typ \in Tok!TokenTypes
    BY DEF Tok!TokenTypes
  <2> HIDE DEF typ
  <2> QED BY <1>1, <1>5, <2>2, <2>3, <2>4, TakesIt DEF Scanning
<1> QED BY <1>7, <1>8

LEMMA LoneDashSound ==
  ASSUME Scanning, Tok!LoneDash
  PROVE  Sound(spec', pos', tokens', cut')
<1>1. pos < Len(spec) /\ spec[pos + 1] = "-" /\ pos \in Nat /\ Len(spec) \in Nat /\ spec \in Strings
  BY Here DEF Tok!LoneDash
<1>2. /\ pos + 1 < Len(spec) => spec[pos + 2] \notin Tok!Letters \cup {"-"}
      /\ Tok!Eof(pos + 1) <=> ~(pos + 1 < Len(spec))
  <2>1. pos + 1 \in Nat /\ pos + 1 + 1 = pos + 2
    BY <1>1
  <2> HIDE DEF Tok!Letters
  <2> QED BY <1>1, <2>1, SeesIs DEF Tok!LoneDash
<1>3. PICK c : c \in Lower
  BY ClassesAssumption
<1>4. PICK e : e \in Tok!Ends({c}) /\ e \in Strings /\ Len(e) = 1 /\ e[1] = c
  <2>1. <<c>> \in Tok!Ends({c}) /\ <<c>> \in Strings /\ Len(<<c>>) = 1 /\ <<c>>[1] = c
    BY <1>3, EndsAre
  <2> QED BY <2>1
<1>5. Tok!Viable(SubSeq(spec, 1, pos + 1))
  <2> DEFINE t == SubSeq(spec, 1, pos + 1) \o e
  <2>1. pos + 1 \in 0 .. Len(spec) /\ pos + 1 \in pos + 1 .. Len(spec)
    BY <1>1
  <2>2. /\ t \in Strings /\ Len(t) = pos + 1 + Len(e)
        /\ \A k \in 1 .. pos + 1 : t[k] = spec[k]
        /\ \A k \in 1 .. Len(e) : t[pos + 1 + k] = e[k]
    BY <1>1, <1>4, <2>1, Extended
  <2> HIDE DEF t
  <2>3. Len(t) = pos + 2 /\ pos < Len(t) /\ t[pos + 1] = "-" /\ t[pos + 2] = c
    <3>1. pos + 1 + 1 = pos + 2 /\ pos + 1 \in 1 .. pos + 1 /\ 1 \in 1 .. Len(e)
      BY <1>1, <1>4
    <3> QED BY <1>1, <1>4, <2>2, <3>1
  <2>4. c \in Tok!Letters
    BY <1>3, EndsAre
  <2>5. IsRun(t, pos + 1, pos + 2, Tok!Letters)
    <3>1. \A k \in pos + 1 + 1 .. pos + 2 : k = pos + 2
      BY <1>1
    <3>2. pos + 2 \in pos + 1 .. Len(t)
      BY <1>1, <2>3
    <3> HIDE DEF Tok!Letters
    <3> QED BY <2>3, <2>4, <3>1, <3>2 DEF IsRun
  <2>6. Leads(t, pos, Tok!Lexeme("shortOpt", pos, pos + 2))
    <3>1. pos + 2 >= pos + 2 /\ ~(pos + 2 > pos + 2)
      BY <1>1
    <3>2. PICK q : q = pos + 2
      OBVIOUS
    <3> HIDE DEF Tok!Letters
    <3>3. Leads(t, pos, Tok!Lexeme(IF q > pos + 2 THEN "optSeq" ELSE "shortOpt", pos, q))
      BY <1>1, <2>2, <2>3, <2>5, <3>1, <3>2, AtShort
    <3> QED BY <3>1, <3>2, <3>3
  <2>7. Tok!Lexeme("shortOpt", pos, pos + 2).to = pos + 1 + Len(e)
    BY <1>1, <1>4 DEF Tok!Lexeme
  <2> QED BY <1>3, <1>4, <2>1, <2>6, <2>7, CanEnd DEF Scanning, t
<1>6. ASSUME NEW t \in Strings, Alike(t, spec, pos + 1)
      PROVE  IF pos + 1 < Len(spec) THEN Passes(t, pos) ELSE Stuck(t, pos)
  <2>1. Len(t) \in Nat
    BY DEF Strings
  <2>2. /\ pos < Len(t) /\ t[pos + 1] = "-" /\ (pos + 1 < Len(t) <=> pos + 1 < Len(spec))
        /\ pos + 1 < Len(t) => t[pos + 2] = spec[pos + 2]
    BY <1>1, <1>6, <2>1 DEF Alike, Begins
  <2>3. pos + 1 < Len(t) => t[pos + 2] \notin Tok!Letters \cup {"-"}
    BY <1>2, <2>2
  <2> HIDE DEF Tok!Letters
  <2>4. IF pos + 1 < Len(t) THEN Passes(t, pos) ELSE Stuck(t, pos)
    BY <1>1, <2>2, <2>3, AtLone
  <2> QED BY <2>2, <2>4
<1>7. CASE pos + 1 < Len(spec)
  <2>1. Tok!Skip(pos + 1)
    BY <1>2, <1>7 DEF Tok!LoneDash
  <2>2. Cuttable(spec, pos + 1)
    <3>1. pos + 1 + 1 = pos + 2
      BY <1>1
    <3> HIDE DEF Tok!Letters
    <3> QED BY <1>2, <1>7, <3>1 DEF Cuttable
  <2> QED BY <1>1, <1>5, <1>6, <1>7, <2>1, <2>2, SkipsIt DEF Scanning
<1>8. CASE ~(pos + 1 < Len(spec))
  <2>1. Tok!Stop(pos + 1)
    BY <1>2, <1>8 DEF Tok!LoneDash
  <2>2. pos + 1 \in pos .. Len(spec)
    BY <1>1
  <2> QED BY <1>1, <1>5, <1>6, <1>8, <2>1, <2>2, StopsAt DEF Scanning
<1> QED BY <1>7, <1>8

LEMMA LongOptSound ==
  ASSUME Scanning, Tok!LongOpt
  PROVE  Sound(spec', pos', tokens', cut')
<1>1. /\ pos < Len(spec) /\ spec[pos + 1] = "-" /\ pos \in Nat /\ Len(spec) \in Nat /\ spec \in Strings
      /\ pos + 1 < Len(spec) /\ spec[pos + 2] = "-"
  <2>1. pos < Len(spec) /\ spec[pos + 1] = "-" /\ pos \in Nat /\ Len(spec) \in Nat /\ spec \in Strings
    BY Here DEF Tok!LongOpt
  <2>2. pos + 1 \in Nat /\ pos + 1 + 1 = pos + 2
    BY <2>1
  <2>3. pos + 1 < Len(spec) /\ spec[pos + 2] = "-"
    BY <2>1, <2>2, SeesIs DEF Tok!LongOpt
  <2> QED BY <2>1, <2>3
<1>2. /\ Tok!Eof(pos + 2) <=> ~(pos + 2 < Len(spec))
      /\ Tok!Sees(pos + 2, {Space}) <=> pos + 2 < Len(spec) /\ spec[pos + 3] = Space
  <2>1. pos + 2 \in Nat /\ pos + 2 + 1 = pos + 3
    BY <1>1
  <2> QED BY <1>1, <2>1, SeesIs
<1>3. /\ Tok!OkLongOpt(TRUE) = Tok!Dashless /\ Tok!OkLongOpt(FALSE) = Tok!Dashless \cup {"-"}
      /\ Space \notin Tok!Dashless
  <2>1. Tok!OkLongOpt(TRUE) = Tok!Dashless /\ Tok!OkLongOpt(FALSE) = Tok!Dashless \cup {"-"}
    BY DEF Tok!OkLongOpt, Tok!Dashless, Tok!Letters
  <2>2. Space \notin Tok!Dashless
    BY ClassesApart DEF Separators
  <2> QED BY <2>1, <2>2
<1>4. pos + 2 \in pos + 1 .. Len(spec) /\ pos + 2 \in pos .. Len(spec) /\ pos + 2 \in 0 .. Len(spec)
  BY <1>1
<1> HIDE DEF Tok!Dashless
<1>5. CASE ~(pos + 2 < Len(spec)) \/ spec[pos + 3] = Space
  <2>1. Tok!Take(Tok!Token("dblDash", pos, pos + 2), pos + 2)
    BY <1>2, <1>5 DEF Tok!LongOpt
  <2>2. ASSUME NEW t \in Strings, Begins(t, spec, pos + 2) PROVE Leads(t, pos, Tok!Lexeme("dblDash", pos, pos + 2))
    <3>1. Len(t) \in Nat
      BY DEF Strings
    <3>2. /\ pos + 1 < Len(t) /\ t[pos + 1] = "-" /\ t[pos + 2] = "-"
          /\ pos + 2 = Len(t) \/ (pos + 2 < Len(t) /\ t[pos + 3] = Space)
      BY <1>1, <1>5, <2>2, <3>1 DEF Begins
    <3>3. pos + 2 < Len(t) => t[pos + 3] \notin Tok!Dashless
      BY <1>3, <3>2
    <3> QED BY <1>1, <3>2, <3>3, AtDblDash
  <2>3. "dblDash" \in Tok!TokenTypes
    BY DEF Tok!TokenTypes
  <2>4. pos = IF "dblDash" = "optSeq" THEN pos + 1 ELSE pos
    OBVIOUS
  <2> QED BY <1>4, <2>1, <2>2, <2>3, <2>4, TakesIt DEF Scanning
<1>6. CASE pos + 2 < Len(spec) /\ spec[pos + 3] # Space /\ spec[pos + 3] \notin Tok!Dashless
  <2>1. Tok!Stop(pos + 2)
    BY <1>2, <1>3, <1>6 DEF Tok!LongOpt
  <2>2. PICK c : c \in Lower
    BY ClassesAssumption
  <2>3. PICK e : e \in Tok!Ends({c}) /\ e \in Strings /\ Len(e) = 0
    <3>1. <<>> \in Tok!Ends({c}) /\ <<>> \in Strings /\ Len(<<>>) = 0
      BY <2>2, EndsAre
    <3> QED BY <3>1
  <2> DEFINE t == SubSeq(spec, 1, pos + 2) \o e
  <2>4. t \in Strings /\ Len(t) = pos + 2 + Len(e) /\ \A k \in 1 .. pos + 2 : t[k] = spec[k]
    BY <1>1, <1>4, <2>3, Extended
  <2> HIDE DEF t
  <2>5. pos + 1 < Len(t) /\ t[pos + 1] = "-" /\ t[pos + 2] = "-" /\ pos + 2 = Len(t)
    BY <1>1, <2>3, <2>4
  <2>6. Leads(t, pos, Tok!Lexeme("dblDash", pos, pos + 2))
    BY <1>1, <2>4, <2>5, AtDblDash
  <2>7. Tok!Viable(SubSeq(spec, 1, pos + 2))
    <3>1. Tok!Lexeme("dblDash", pos, pos + 2).to = pos + 2 + Len(e)
      BY <1>1, <2>3 DEF Tok!Lexeme
    <3> QED BY <1>4, <2>2, <2>3, <2>6, <3>1, CanEnd DEF Scanning, t
  <2>8. Tok!Ahead(spec, pos) = {Tok!Lexeme("dblDash", pos, pos + 2)}
    BY <1>1, <1>6, AtDblDash
  <2>9. PICK x : x = Tok!Lexeme("dblDash", pos, pos + 2)
    OBVIOUS
  <2>10. x \in Tok!Ahead(spec, pos) /\ x.to = pos + 2 /\ x.typ = "dblDash"
    BY <2>8, <2>9 DEF Tok!Lexeme
  <2>11. PICK q : q = pos + 2
    OBVIOUS
  <2>12. BadAt(spec, q)
    <3>1. q \in pos + 1 .. Len(spec) /\ q < Len(spec) /\ spec[q + 1] # Space
      <4>1. pos + 2 + 1 = pos + 3
        BY <1>1
      <4> QED BY <1>4, <1>6, <2>11, <4>1
    <3> QED BY <1>1, <2>7, <2>10, <2>11, <3>1, TooStrict DEF Scanning
  <2> QED BY <2>1, <2>11, <2>12, StopsThere
<1>7. CASE pos + 2 < Len(spec) /\ spec[pos + 3] # Space /\ spec[pos + 3] \in Tok!Dashless
  <2> DEFINE end == Tok!EndOf(pos + 2, Tok!Dashless \cup {"-"})
  <2>1. Tok!Take(Tok!Token("longOpt", pos, end), end)
    <3> HIDE DEF end
    <3>1. ~Tok!Eof(pos + 2) /\ ~Tok!Sees(pos + 2, {Space}) /\ spec[pos + 3] \in Tok!OkLongOpt(TRUE)
      BY <1>2, <1>3, <1>7
    <3>2. end = Tok!EndOf(pos + 2, Tok!OkLongOpt(FALSE))
      BY <1>3 DEF end
    <3> QED BY <3>1, <3>2, Zenon DEF Tok!LongOpt
  <2>2. IsRun(spec, pos + 2, end, Tok!Dashless \cup {"-"})
    BY <1>1, <1>4, EndOfIs
  <2> HIDE DEF end
  <2>3. end \in pos + 3 .. Len(spec) /\ end \in pos + 1 .. Len(spec)
    <3>1. end \in pos + 2 .. Len(spec) /\ (end < Len(spec) => spec[end + 1] \notin Tok!Dashless \cup {"-"})
      BY <2>2 DEF IsRun
    <3>2. end # pos + 2
      BY <1>1, <1>7, <3>1
    <3> QED BY <1>1, <3>1, <3>2
  <2>4. ASSUME NEW t \in Strings, Begins(t, spec, end) PROVE Leads(t, pos, Tok!Lexeme("longOpt", pos, end))
    <3>1. Len(t) \in Nat
      BY DEF Strings
    <3>2. pos + 2 < Len(t) /\ t[pos + 1] = "-" /\ t[pos + 2] = "-" /\ t[pos + 3] \in Tok!Dashless /\ end >= pos + 3
      BY <1>1, <1>7, <2>3, <2>4, <3>1 DEF Begins
    <3>3. IsRun(t, pos + 2, end, Tok!Dashless \cup {"-"})
      <4>1. pos + 2 \in Nat
        BY <1>1
      <4> QED BY <1>1, <2>2, <2>4, <4>1, SameRun
    <3> QED BY <1>1, <3>2, <3>3, AtLong
  <2>5. "longOpt" \in Tok!TokenTypes
    BY DEF Tok!TokenTypes
  <2>6. pos = IF "longOpt" = "optSeq" THEN pos + 1 ELSE pos
    OBVIOUS
  <2> QED BY <2>1, <2>3, <2>4, <2>5, <2>6, TakesIt DEF Scanning
<1> QED BY <1>5, <1>6, <1>7

LEMMA OptValueSound ==
  ASSUME Scanning, Tok!OptValue
  PROVE  Sound(spec', pos', tokens', cut')
<1>1. pos < Len(spec) /\ spec[pos + 1] = "=" /\ pos \in Nat /\ Len(spec) \in Nat /\ spec \in Strings
  BY Here DEF Tok!OptValue
<1>2. Tok!Sees(pos + 1, {"<"}) <=> pos + 1 < Len(spec) /\ spec[pos + 2] = "<"
  <2>1. pos + 1 \in Nat /\ pos + 1 + 1 = pos + 2
    BY <1>1
  <2> QED BY <1>1, <2>1, SeesIs
<1>3. PICK c : c \in Lower
  BY ClassesAssumption
<1>4. c # ">" /\ \A e : e \in Tok!Ends({c}) <=> e \in {<<>>, <<".">>, <<".", ".">>, <<">">>, <<c>>, <<c, ">">>, <<"<", c, ">">>}
  BY <1>3, EndsAre DEF Separators
<1>5. CASE ~Tok!Sees(pos + 1, {"<"})
  <2>1. Tok!Stop(pos + 1) /\ pos + 1 \in pos .. Len(spec) /\ pos + 1 \in pos + 1 .. Len(spec) /\ pos + 1 \in 0 .. Len(spec)
    BY <1>1, <1>5 DEF Tok!OptValue
  <2>2. PICK e : e \in Tok!Ends({c}) /\ e \in Strings /\ Len(e) = 3 /\ e[1] = "<" /\ e[2] = c /\ e[3] = ">"
    <3>1. PICK e : e = <<"<", c, ">">>
      OBVIOUS
    <3>2. e \in Tok!Ends({c}) /\ e \in Strings
      BY <1>3, <1>4, <3>1, EndsAre
    <3> QED BY <3>1, <3>2
  <2> DEFINE t == SubSeq(spec, 1, pos + 1) \o e
  <2>3. /\ t \in Strings /\ Len(t) = pos + 1 + Len(e)
        /\ \A k \in 1 .. pos + 1 : t[k] = spec[k]
        /\ \A k \in 1 .. Len(e) : t[pos + 1 + k] = e[k]
    BY <1>1, <2>1, <2>2, Extended
  <2> HIDE DEF t
  <2>4. t[pos + 1] = "=" /\ t[pos + 2] = "<" /\ t[pos + 3] = c /\ t[pos + 4] = ">" /\ Len(t) = pos + 4
    <3>1. /\ pos + 1 + 1 = pos + 2 /\ pos + 1 + 2 = pos + 3 /\ pos + 1 + 3 = pos + 4
          /\ pos + 1 \in 1 .. pos + 1 /\ 1 \in 1 .. Len(e) /\ 2 \in 1 .. Len(e) /\ 3 \in 1 .. Len(e)
      BY <1>1, <2>2
    <3> QED BY <1>1, <2>2, <2>3, <3>1
  <2>5. Leads(t, pos, Tok!Lexeme("optValue", pos, pos + 4))
    <3>1. PICK q : q = pos + 3
      OBVIOUS
    <3>2. q \in pos + 1 .. Len(t) /\ q < Len(t) /\ q > pos + 2 /\ pos < Len(t) /\ q + 1 = pos + 4
      BY <1>1, <2>4, <3>1
    <3>3. \A k \in pos + 2 .. q : k = pos + 2 \/ k = pos + 3
      BY <1>1, <3>1
    <3>4. \A k \in pos + 2 .. q : t[k] # ">"
      BY <1>4, <2>4, <3>3
    <3>5. Leads(t, pos, Tok!Lexeme("optValue", pos, q + 1))
      BY <1>1, <2>3, <2>4, <3>2, <3>4, AtEquals
    <3> QED BY <3>2, <3>5
  <2>6. Tok!Viable(SubSeq(spec, 1, pos + 1))
    <3>1. Tok!Lexeme("optValue", pos, pos + 4).to = pos + 1 + Len(e)
      BY <1>1, <2>2 DEF Tok!Lexeme
    <3> QED BY <1>3, <2>1, <2>2, <2>5, <3>1, CanEnd DEF Scanning, t
  <2>7. ASSUME NEW u \in Strings, Alike(u, spec, pos + 1) PROVE Stuck(u, pos)
    <3>1. Len(u) \in Nat
      BY DEF Strings
    <3>2. pos < Len(u) /\ u[pos + 1] = "=" /\ (pos + 1 < Len(u) => pos + 1 < Len(spec) /\ u[pos + 2] = spec[pos + 2])
      BY <1>1, <2>7, <3>1 DEF Alike, Begins
    <3>3. pos + 1 < Len(u) => u[pos + 2] # "<"
      BY <1>2, <1>5, <3>2
    <3>4. PICK q : q = pos + 1
      OBVIOUS
    <3>5. q \in pos + 1 .. Len(u) /\ ~(q > pos + 2) /\ (q < Len(u) => u[pos + 2] # "<") /\ \A k \in pos + 2 .. q : u[k] # ">"
      BY <1>1, <3>1, <3>2, <3>3, <3>4
    <3> QED BY <1>1, <3>2, <3>5, AtEquals
  <2> QED BY <1>1, <2>1, <2>6, <2>7, StopsAt DEF Scanning
<1>6. CASE Tok!Sees(pos + 1, {"<"})
  <2> DEFINE C == Tok!ToSet(spec) \ {">"}
             close == Tok!EndOf(pos + 1, C)
  <2>1. /\ Tok!Eof(close) \/ close - pos = 2 => Tok!Stop(close)
        /\ ~(Tok!Eof(close) \/ close - pos = 2) => Tok!Take(Tok!Token("optValue", pos, close + 1), close + 1)
    BY <1>6, Zenon DEF Tok!OptValue
  <2>2. IsRun(spec, pos + 1, close, C)
    <3>1. pos + 1 \in 0 .. Len(spec)
      BY <1>1
    <3> HIDE DEF C
    <3> QED BY <1>1, <3>1, EndOfIs
  <2> HIDE DEF close
  <2>3. \A k \in 1 .. Len(spec) : spec[k] \in C <=> spec[k] # ">"
    BY <1>1 DEF Tok!ToSet, Strings
  <2> HIDE DEF C
  <2>4. close \in pos + 1 .. Len(spec) /\ close \in Nat
    BY <1>1, <2>2 DEF IsRun
  <2>5. /\ \A k \in pos + 2 .. close : spec[k] # ">"
        /\ close < Len(spec) => spec[close + 1] = ">"
    <3>1. \A k \in pos + 2 .. close : k \in pos + 1 + 1 .. close /\ k \in 1 .. Len(spec)
      BY <1>1, <2>4
    <3>2. close < Len(spec) => close + 1 \in 1 .. Len(spec)
      BY <1>1, <2>4
    <3> QED BY <2>2, <2>3, <3>1, <3>2 DEF IsRun
  <2>6. close \in pos + 2 .. Len(spec) /\ close \in pos .. Len(spec) /\ close \in 0 .. Len(spec)
    <3>1. close # pos + 1
      BY <1>1, <1>2, <1>6, <2>5
    <3> QED BY <1>1, <2>4, <3>1
  <2>7. Tok!Eof(close) <=> ~(close < Len(spec))
    BY <1>1, <2>4, SeesIs
  <2>8. CASE ~(close < Len(spec)) \/ close = pos + 2
    <3>1. Tok!Stop(close)
      BY <1>1, <2>1, <2>4, <2>7, <2>8
    <3>2. PICK e : /\ e \in Tok!Ends({c}) /\ e \in Strings
                   /\ IF close = pos + 2 THEN Len(e) = 2 /\ e[1] = c /\ e[2] = ">" ELSE Len(e) = 1 /\ e[1] = ">"
      <4>1. PICK e : e = IF close = pos + 2 THEN <<c, ">">> ELSE <<">">>
        OBVIOUS
      <4>2. e \in Tok!Ends({c}) /\ e \in Strings
        BY <1>3, <1>4, <4>1, EndsAre
      <4> QED BY <4>1, <4>2
    <3> DEFINE t == SubSeq(spec, 1, close) \o e
    <3>3. /\ t \in Strings /\ Len(t) = close + Len(e)
          /\ \A k \in 1 .. close : t[k] = spec[k]
          /\ \A k \in 1 .. Len(e) : t[close + k] = e[k]
      BY <1>1, <2>6, <3>2, Extended
    <3> HIDE DEF t
    <3>4. t[pos + 1] = "=" /\ t[pos + 2] = "<" /\ \A k \in pos + 2 .. close : t[k] # ">"
      <4>1. pos + 1 \in 1 .. close /\ pos + 2 \in 1 .. close /\ \A k \in pos + 2 .. close : k \in 1 .. close
        BY <1>1, <2>6
      <4> QED BY <1>1, <1>2, <1>6, <2>5, <3>3, <4>1
    <3>5. PICK q : q = IF close = pos + 2 THEN close + 1 ELSE close
      OBVIOUS
    <3>6. q \in pos + 1 .. Len(t) /\ q < Len(t) /\ q > pos + 2 /\ t[q + 1] = ">" /\ q + 1 = close + Len(e) /\ q + 1 = Len(t)
      <4>1. CASE close = pos + 2
        <5>1. Len(e) = 2 /\ e[2] = ">" /\ q = close + 1
          BY <3>2, <3>5, <4>1
        <5>2. 2 \in 1 .. Len(e) /\ close + 2 = q + 1
          BY <2>4, <5>1
        <5>3. t[q + 1] = ">" /\ Len(t) = q + 1
          BY <2>4, <3>3, <5>1, <5>2
        <5> QED BY <1>1, <2>4, <4>1, <5>1, <5>3
      <4>2. CASE close # pos + 2
        <5>1. Len(e) = 1 /\ e[1] = ">" /\ q = close
          BY <3>2, <3>5, <4>2
        <5>2. 1 \in 1 .. Len(e) /\ close + 1 = q + 1
          BY <2>4, <5>1
        <5>3. t[q + 1] = ">" /\ Len(t) = q + 1
          BY <2>4, <3>3, <5>1, <5>2
        <5> QED BY <1>1, <2>4, <2>6, <4>2, <5>1, <5>3
      <4> QED BY <4>1, <4>2
    <3>7. \A k \in pos + 2 .. q : t[k] # ">"
      <4>1. CASE close = pos + 2
        <5>1. \A k \in pos + 2 .. q : k \in pos + 2 .. close \/ k = close + 1
          BY <1>1, <2>4, <3>5, <4>1
        <5>2. t[close + 1] = c
          <6>1. 1 \in 1 .. Len(e)
            BY <3>2, <4>1
          <6> QED BY <3>2, <3>3, <4>1, <6>1
        <5> QED BY <1>4, <3>4, <5>1, <5>2
      <4>2. CASE close # pos + 2
        BY <3>4, <3>5, <4>2
      <4> QED BY <4>1, <4>2
    <3>8. Leads(t, pos, Tok!Lexeme("optValue", pos, q + 1))
      <4>1. pos < Len(t)
        BY <1>1, <2>4, <3>6
      <4> QED BY <1>1, <3>3, <3>4, <3>6, <3>7, <4>1, AtEquals
    <3>9. Tok!Viable(SubSeq(spec, 1, close))
      <4>1. Tok!Lexeme("optValue", pos, q + 1).to = close + Len(e)
        BY <3>6 DEF Tok!Lexeme
      <4> QED BY <1>3, <2>4, <3>2, <3>8, <4>1, CanEnd DEF Scanning, t
    <3>10. ASSUME NEW u \in Strings, Alike(u, spec, close) PROVE Stuck(u, pos)
      <4>1. Len(u) \in Nat
        BY DEF Strings
      <4>2. /\ pos < Len(u) /\ u[pos + 1] = "=" /\ close \in pos + 1 .. Len(u)
            /\ \A k \in pos + 2 .. close : u[k] = spec[k]
            /\ close < Len(u) => close < Len(spec) /\ u[close + 1] = spec[close + 1]
        BY <1>1, <2>4, <2>6, <3>10, <4>1 DEF Alike, Begins
      <4>3. ~(close < Len(u) /\ close > pos + 2)
        BY <1>1, <2>4, <2>8, <4>2
      <4> QED BY <1>1, <2>5, <4>2, <4>3, AtEquals
    <3> QED BY <1>1, <2>6, <3>1, <3>9, <3>10, StopsAt DEF Scanning
  <2>9. CASE close < Len(spec) /\ close # pos + 2
    <3>1. Tok!Take(Tok!Token("optValue", pos, close + 1), close + 1) /\ close + 1 \in pos + 1 .. Len(spec) /\ close > pos + 2
      BY <1>1, <2>1, <2>4, <2>6, <2>7, <2>9
    <3>2. ASSUME NEW t \in Strings, Begins(t, spec, close + 1) PROVE Leads(t, pos, Tok!Lexeme("optValue", pos, close + 1))
      <4>1. Len(t) \in Nat
        BY DEF Strings
      <4>2. /\ pos < Len(t) /\ t[pos + 1] = "=" /\ t[pos + 2] = "<" /\ close < Len(t) /\ close \in pos + 1 .. Len(t)
            /\ t[close + 1] = ">" /\ \A k \in pos + 2 .. close : t[k] # ">"
        <5>1. /\ close + 1 <= Len(t) /\ \A k \in 1 .. close + 1 : t[k] = spec[k]
          BY <3>2 DEF Begins
        <5>2. /\ pos + 1 \in 1 .. close + 1 /\ pos + 2 \in 1 .. close + 1 /\ close + 1 \in 1 .. close + 1
              /\ \A k \in pos + 2 .. close : k \in 1 .. close + 1
          BY <1>1, <2>6
        <5> QED BY <1>1, <1>2, <1>6, <2>4, <2>5, <2>9, <4>1, <5>1, <5>2
      <4> QED BY <1>1, <3>1, <4>2, AtEquals
    <3>3. "optValue" \in Tok!TokenTypes
      BY DEF Tok!TokenTypes
    <3>4. pos = IF "optValue" = "optSeq" THEN pos + 1 ELSE pos
      OBVIOUS
    <3> QED BY <3>1, <3>2, <3>3, <3>4, TakesIt DEF Scanning
  <2> QED BY <2>8, <2>9
<1> QED BY <1>5, <1>6

(***************************************************************************)
(* The invariant of doInit: what is declared, and what of the spec is cut. *)
(***************************************************************************)
Typed ==
  /\ program \in Programs /\ left \in Seq(ToSet(program.decls))
  /\ spec \in Strings /\ args \in Seq(Strings)

TokInv == Typed /\ Sound(spec, pos, tokens, cut)

LEMMA MadeUpTyped ==
  ASSUME args \in Seq(Strings)
  PROVE  MadeUp \in Strings
<1> DEFINE given == [i \in DOMAIN args |-> args[i] \o <<Space>>]
           group == IF options # <<>> THEN <<"[">> \o OptionsWord \o <<"]", Space>> ELSE <<>>
<1>1. \A a \in {"[", "]", Space} : a \in Characters
  BY ClassesAssumption DEF Separators
<1>2. group \in Seq(Characters)
  <2>1. OptionsWord \in Seq(Characters)
    <3>1. OptionsWord \in Seq(Upper) /\ Upper \subseteq Characters
      BY ClassesAssumption
    <3> QED BY <3>1
  <2>2. <<"[">> \in Seq(Characters) /\ <<"]", Space>> \in Seq(Characters) /\ <<>> \in Seq(Characters)
    BY <1>1
  <2>3. <<"[">> \o OptionsWord \in Seq(Characters)
    BY <2>1, <2>2, ConcatProperties
  <2>4. <<"[">> \o OptionsWord \o <<"]", Space>> \in Seq(Characters)
    BY <2>2, <2>3, ConcatProperties
  <2> QED BY <2>2, <2>4
<1>3. given \in Seq(Seq(Characters))
  <2>1. Len(args) \in Nat /\ DOMAIN args = 1 .. Len(args) /\ \A i \in 1 .. Len(args) : args[i] \in Seq(Characters)
    BY LenProperties, ElementOfSeq DEF Strings
  <2>2. \A i \in DOMAIN args : args[i] \o <<Space>> \in Seq(Characters)
    <3>1. <<Space>> \in Seq(Characters)
      BY <1>1
    <3> QED BY <2>1, <3>1, ConcatProperties
  <2> QED BY <2>1, <2>2
<1>4. FlattenSeq(given) \in Seq(Characters)
  <2> HIDE DEF given
  <2>1. PICK t \in [0 .. Len(given) -> Seq(Characters)] : JoinsOf(t, given)
    BY <1>3, Joins
  <2>2. Len(given) \in 0 .. Len(given)
    BY <1>3, LenProperties
  <2> QED BY <1>3, <2>1, <2>2, Flattened
<1>5. MadeUp = group \o FlattenSeq(given)
  BY Zenon DEF MadeUp
<1> HIDE DEF given, group
<1> QED BY <1>2, <1>4, <1>5, ConcatProperties DEF Strings

\* At the beginning of a spec, nothing is cut.
LEMMA StartSound ==
  ASSUME NEW s \in Strings
  PROVE  Reads(s, 0, <<>>)
<1>0. Len(s) \in Nat /\ 0 \in 0 .. Len(s)
  BY DEF Strings
<1>1. <<>> \in Seq(Tokens) /\ Tok!Lexemes(<<>>) = <<>>
  <2>1. <<>> \in Seq(Tokens) /\ DOMAIN <<>> = {}
    OBVIOUS
  <2> QED BY <2>1 DEF Tok!Lexemes
<1>2. ASSUME NEW t \in Strings PROVE Tok!LooseCuts(t) = Joined(<<>>, LCut(t)[0])
  <2>1. LCut(t)[0] \subseteq Seq(Lexemes)
    <3>1. 0 \in 0 .. Len(t)
      BY DEF Strings
    <3> QED BY <3>1, LCutIs
  <2> DEFINE R == LCut(t)[0]
  <2> HIDE DEF R, Lexemes
  <2>2. \A r \in R : <<>> \o r = r
    BY <2>1, ConcatEmptySeq DEF R
  <2>3. Joined(<<>>, R) = R
    BY <2>2 DEF Joined
  <2> QED BY <2>3, LooseCutsAre DEF R
<1>3. KnowsCuts(s, 0, <<>>)
  BY <1>1, <1>2 DEF KnowsCuts
<1>4. Tok!Viable(SubSeq(s, 1, 0)) /\ Cuttable(s, 0)
  <2>1. PICK c : c \in Lower
    BY ClassesAssumption
  <2>2. PICK e : e \in Tok!Ends({c}) /\ e \in Strings /\ Len(e) = 0 /\ e = <<>>
    <3>1. <<>> \in Tok!Ends({c}) /\ <<>> \in Strings /\ Len(<<>>) = 0
      BY <2>1, EndsAre
    <3> QED BY <3>1
  <2> DEFINE t == SubSeq(s, 1, 0) \o e
  <2>3. t \in Strings /\ Len(t) = 0 + Len(e)
    BY <1>0, <2>2, Extended
  <2> HIDE DEF t
  <2>4. LCut(t)[0] = {<<>>}
    BY <2>2, <2>3, NothingLeft
  <2>5. Tok!LooseCuts(t) # {}
    BY <2>4, LooseCutsAre
  <2>6. t = SubSeq(s, 1, 0)
    <3>1. SubSeq(s, 0 + 1, 0) \in Strings
      BY <1>0, PieceIs
    <3>2. t = SubSeq(s, 1, 0) \o <<>>
      BY <2>2 DEF t
    <3> QED BY <3>1, <3>2, ConcatEmptySeq DEF Strings
  <2> QED BY <2>1, <2>2, <2>5, <2>6 DEF Tok!Viable, Cuttable, t
<1> QED BY <1>0, <1>1, <1>3, <1>4 DEF Reads

LEMMA InitSound ==
  ASSUME Init
  PROVE  TokInv
<1>1. program \in Programs /\ spec = program.spec /\ args = <<>> /\ cut = "idle" /\ left \in {<<>>, program.decls}
  BY DEF Init
<1>2. spec \in Strings /\ program.decls \in Seq(ToSet(program.decls))
  BY <1>1, ProgramsAssumption
<1>3. left \in Seq(ToSet(program.decls)) /\ args \in Seq(Strings)
  <2>1. <<>> \in Seq(ToSet(program.decls)) /\ <<>> \in Seq(Strings)
    OBVIOUS
  <2> HIDE DEF Strings
  <2> QED BY <1>1, <1>2, <2>1
<1> QED BY <1>1, <1>2, <1>3 DEF TokInv, Typed, Sound

LEMMA NextSound ==
  ASSUME TokInv, [Next]_vars
  PROVE  TokInv'
<1> USE DEF TokInv, Typed
<1>1. CASE Declare
  <2>1. /\ left # <<>> /\ left' = Tail(left) /\ UNCHANGED <<program, spec, pos, tokens, cut>>
        /\ args' = args \/ (Head(left).param = "arg" /\ args' = Append(args, Head(left).name))
    BY <1>1 DEF Declare, MkOpt, MkArg, cutting
  <2>2. Head(left) \in ToSet(program.decls) /\ Tail(left) \in Seq(ToSet(program.decls))
    BY <2>1, HeadTailProperties
  <2>3. IsDeclaration(Head(left))
    BY <2>2, ProgramsAssumption
  <2>4. Head(left).param = "arg" => Head(left).name \in Strings
    BY <2>3 DEF IsDeclaration
  <2>5. args' \in Seq(Strings)
    <3> HIDE DEF Strings
    <3> QED BY <2>1, <2>4, AppendProperties
  <2> QED BY <2>1, <2>2, <2>5
<1>2. CASE Run
  <2>1. UNCHANGED <<program, spec, args, pos, tokens, cut>> /\ left' \in {<<>>, program.decls}
    BY <1>2 DEF Run, cutting
  <2>2. program.decls \in Seq(ToSet(program.decls)) /\ <<>> \in Seq(ToSet(program.decls))
    BY ProgramsAssumption
  <2> QED BY <2>1, <2>2
<1>3. CASE MakeUp
  <2>1. /\ UNCHANGED <<program, left, args>> /\ pos' = 0 /\ tokens' = <<>> /\ cut' = "cutting"
        /\ spec' = IF spec = <<>> THEN MadeUp ELSE spec
    BY <1>3 DEF MakeUp, declared, Tok!Start
  <2>2. spec' \in Strings
    BY <2>1, MadeUpTyped
  <2>3. Sound(spec', pos', tokens', cut')
    <3>1. PICK s : s = spec' /\ s \in Strings
      BY <2>2
    <3>2. Reads(s, 0, <<>>)
      BY <3>1, StartSound
    <3> QED BY <2>1, <3>1, <3>2 DEF Sound
  <2> QED BY <2>1, <2>2, <2>3
<1>4. CASE Tokenize
  <2>1. UNCHANGED <<program, left, args>> /\ Tok!Next
    BY <1>4 DEF Tokenize, declared
  <2>2. cut = "cutting"
    BY <2>1 DEF Tok!Next, Tok!Blank, Tok!Bracket, Tok!Dots, Tok!ShortOpts, Tok!LongOpt, Tok!LoneDash, Tok!OptValue,
                Tok!Name, Tok!Unexpected, Tok!Return, Tok!At
  <2>3. Scanning
    BY <2>2 DEF Sound, Scanning
  <2>4. Sound(spec', pos', tokens', cut')
    BY <2>1, <2>3, BlankSound, BracketSound, DotsSound, ShortOptsSound, LongOptSound, LoneDashSound, OptValueSound,
       NameSound, UnexpectedSound, ReturnSound DEF Tok!Next
  <2>5. spec' = spec
    <3> USE DEF Tok!Take, Tok!Skip, Tok!Stop
    <3>1. Tok!Blank \/ Tok!Bracket \/ Tok!Dots \/ Tok!LoneDash \/ Tok!Unexpected \/ Tok!Return => spec' = spec
      BY DEF Tok!Blank, Tok!Bracket, Tok!Dots, Tok!LoneDash, Tok!Unexpected, Tok!Return
    <3>2. Tok!ShortOpts \/ Tok!LongOpt \/ Tok!OptValue \/ Tok!Name => spec' = spec
      BY Zenon DEF Tok!ShortOpts, Tok!LongOpt, Tok!OptValue, Tok!Name
    <3> QED BY <2>1, <3>1, <3>2 DEF Tok!Next
  <2> QED BY <2>1, <2>4, <2>5
<1>5. CASE Parse \/ Refuse \/ Terminated \/ UNCHANGED vars
  <2>1. UNCHANGED <<program, left, spec, args, pos, tokens, cut>>
    BY <1>5 DEF Parse, Refuse, Terminated, vars, declared, cutting
  <2> QED BY <2>1
<1> QED BY <1>1, <1>2, <1>3, <1>4, <1>5 DEF Next, Step

(***************************************************************************)
(* The ways to cut a text without leaving out lone dashes are those of the *)
(* ways with them in which every lone dash is in a lexeme.                 *)
(***************************************************************************)
Covered(t, r, p) == \A i \in Tok!LoneDashes(t) : i > p => \E k \in DOMAIN r : r[k].from < i /\ i <= r[k].to

Led(x, h) == {<<x>> \o u : u \in h[x.to]}

LEMMA CuttingSays ==
  ASSUME NEW t, NEW out, NEW p, NEW h, p # Len(t)
  PROVE  \A r : r \in Cutting(t, out, p, h) <=>
                \/ (t[p + 1] \in Tok!Blanks \/ p + 1 \in out) /\ r \in h[p + 1]
                \/ \E x \in Tok!Ahead(t, p) : r \in Led(x, h)
<1> DEFINE B == t[p + 1] \in Tok!Blanks \/ p + 1 \in out
<1>1. Cutting(t, out, p, h) = (IF B THEN h[p + 1] ELSE {}) \cup UNION {Led(x, h) : x \in Tok!Ahead(t, p)}
  BY Zenon DEF Cutting, Led
<1> HIDE DEF B
<1>2. \A r : r \in Cutting(t, out, p, h) <=> (B /\ r \in h[p + 1]) \/ \E x \in Tok!Ahead(t, p) : r \in Led(x, h)
  BY <1>1
<1> QED BY <1>2 DEF B

\* What is cut from a place on lies behind it.
LEMMA LiesBehind ==
  ASSUME NEW t \in Strings
  PROVE  \A p \in 0 .. Len(t) : \A r \in LCut(t)[p] : \A k \in DOMAIN r : r[k].from >= p
<1> DEFINE P == 0 .. Len(t)
           rank == [p \in P |-> Len(t) - p]
           Farther(p) == \A r \in LCut(t)[p] : \A k \in DOMAIN r : r[k].from >= p
           S == {p \in P : Farther(p)}
<1>0. Len(t) \in Nat
  BY DEF Strings
<1>1. rank \in [P -> Nat] /\ \A p \in P : rank[p] = Len(t) - p
  BY <1>0
<1> HIDE DEF rank
<1>2. ASSUME NEW p \in P, \A q \in P : rank[q] < rank[p] => q \in S PROVE p \in S
  <2>1. LCut(t)[p] = LCutting(t, p, LCut(t))
    BY LCutIs
  <2> SUFFICES ASSUME NEW r \in LCut(t)[p], NEW k \in DOMAIN r PROVE r[k].from >= p
    OBVIOUS
  <2>2. CASE p = Len(t)
    <3>1. r = <<>>
      BY <2>1, <2>2 DEF LCutting, Cutting
    <3> QED BY <3>1
  <2>3. CASE p # Len(t)
    <3>1. p + 1 \in P /\ rank[p + 1] < rank[p]
      BY <1>0, <1>1, <2>3
    <3>2. r \in LCut(t)[p + 1] \/ \E x \in Tok!Ahead(t, p) : r \in Led(x, LCut(t))
      BY <2>1, <2>3, CuttingSays DEF LCutting
    <3>3. CASE r \in LCut(t)[p + 1]
      <4>1. p + 1 \in S
        BY <1>2, <3>1
      <4>2. r[k].from >= p + 1 /\ p \in Nat
        BY <1>0, <3>3, <4>1
      <4>3. r \in Seq(Lexemes)
        BY <3>1, <3>3, LCutIs
      <4>4. r[k].from \in Nat
        <5>1. r[k] \in Lexemes
          BY <4>3
        <5> HIDE DEF Tok!TokenTypes
        <5> QED BY <5>1 DEF Lexemes
      <4> QED BY <4>2, <4>4
    <3>4. ASSUME NEW x \in Tok!Ahead(t, p), r \in Led(x, LCut(t)) PROVE r[k].from >= p
      <4>1. x.from = p /\ x.to \in P /\ x.to > p /\ rank[x.to] < rank[p] /\ x \in Lexemes
        <5>1. x \in Lexemes /\ x.from = p /\ x.to \in p + 1 .. Len(t)
          <6>1. p \in 0 .. Len(t) /\ x \in Tok!Ahead(t, p)
            BY <3>4
          <6> QED BY Zenon, <6>1, AheadIs
        <5>2. p \in Nat /\ x.to \in P /\ x.to > p
          BY <1>0, <5>1
        <5>3. rank[x.to] = Len(t) - x.to /\ rank[p] = Len(t) - p
          BY <1>1, <5>2
        <5> HIDE DEF Lexemes
        <5> QED BY <1>0, <5>1, <5>2, <5>3
      <4>2. PICK u \in LCut(t)[x.to] : r = <<x>> \o u
        BY <3>4 DEF Led
      <4>3. x.to \in S
        BY <1>2, <4>1
      <4>4. u \in Seq(Lexemes)
        BY <4>1, LCutIs
      <4> HIDE DEF Lexemes
      <4>5. /\ DOMAIN r = 1 .. Len(u) + 1 /\ Len(u) \in Nat /\ r[1] = x
            /\ \A i \in 1 .. Len(u) : r[i + 1] = u[i]
        BY <4>1, <4>2, <4>4
      <4>6. CASE k = 1
        BY <1>0, <4>1, <4>5, <4>6
      <4>7. CASE k # 1
        <5>1. k - 1 \in 1 .. Len(u) /\ k - 1 + 1 = k /\ DOMAIN u = 1 .. Len(u)
          BY <4>4, <4>5, <4>7
        <5>2. r[k] = u[k - 1] /\ u[k - 1].from >= x.to /\ u[k - 1] \in Lexemes
          BY <4>3, <4>4, <4>5, <5>1
        <5>3. u[k - 1].from \in Nat
          <6> USE DEF Lexemes
          <6> HIDE DEF Tok!TokenTypes
          <6> QED BY <5>2
        <5> QED BY <1>0, <4>1, <5>2, <5>3
      <4> QED BY <4>6, <4>7
    <3> QED BY <3>2, <3>3, <3>4
  <2> QED BY <2>2, <2>3
<1>3. P \subseteq S
  <2> HIDE DEF S, P
  <2> QED BY <1>1, <1>2, RankInduction
<1> QED BY <1>3

LEMMA WithoutLone ==
  ASSUME NEW t \in Strings
  PROVE  \A p \in 0 .. Len(t) : Tok!Cuttings(t, {})[p] = {r \in LCut(t)[p] : Covered(t, r, p)}
<1> DEFINE P == 0 .. Len(t)
           none == Tok!Cuttings(t, {})
           rank == [p \in P |-> Len(t) - p]
           All(p) == {r \in LCut(t)[p] : Covered(t, r, p)}
           S == {p \in P : none[p] = All(p)}
<1>0. Len(t) \in Nat
  BY DEF Strings
<1>1. rank \in [P -> Nat] /\ \A p \in P : rank[p] = Len(t) - p
  BY <1>0
<1>2. \A p \in P : none[p] = Cutting(t, {}, p, none)
  BY CuttingsAre
<1> HIDE DEF rank, none
<1>3. Tok!LoneDashes(t) \subseteq 1 .. Len(t) - 1
  BY DEF Tok!LoneDashes
<1>4. ASSUME NEW p \in P, \A q \in P : rank[q] < rank[p] => q \in S PROVE p \in S
  <2>1. LCut(t)[p] = LCutting(t, p, LCut(t)) /\ none[p] = Cutting(t, {}, p, none) /\ p \in Nat
    BY <1>0, <1>2, LCutIs
  <2>2. CASE p = Len(t)
    <3>1. LCut(t)[p] = {<<>>} /\ none[p] = {<<>>}
      BY <2>1, <2>2 DEF LCutting, Cutting
    <3>2. Covered(t, <<>>, p)
      BY <1>0, <1>3, <2>2 DEF Covered
    <3> QED BY <3>1, <3>2
  <2>3. CASE p # Len(t)
    <3>1. p + 1 \in P /\ rank[p + 1] < rank[p] /\ p < Len(t)
      BY <1>0, <1>1, <2>3
    <3>2. none[p + 1] = All(p + 1)
      BY <1>4, <3>1
    <3>3. \A r : r \in none[p] <=> \/ t[p + 1] \in Tok!Blanks /\ r \in none[p + 1]
                                   \/ \E x \in Tok!Ahead(t, p) : r \in Led(x, none)
      BY <2>1, <2>3, CuttingSays
    <3>4. \A r : r \in LCut(t)[p] <=>
                   \/ (t[p + 1] \in Tok!Blanks \/ p + 1 \in Tok!LoneDashes(t)) /\ r \in LCut(t)[p + 1]
                   \/ \E x \in Tok!Ahead(t, p) : r \in Led(x, LCut(t))
      BY <2>1, <2>3, CuttingSays DEF LCutting
    <3>5. CASE p + 1 \in Tok!LoneDashes(t)
      <4>1. IsLoneDash(t, p)
        BY <2>1, <3>5, LoneDashIs
      <4>2. t[p + 1] \notin Tok!Blanks /\ Tok!Ahead(t, p) = {}
        <5>1. t[p + 1] = "-" /\ t[p + 2] \notin Tok!Letters \cup {"-"}
          BY <4>1 DEF IsLoneDash
        <5> HIDE DEF Tok!Letters, Tok!Blanks
        <5> QED BY <2>1, <3>1, <5>1, AtLone, DashTypes
      <4>3. none[p] = {}
        BY <3>3, <4>2
      <4>4. ASSUME NEW r \in LCut(t)[p], Covered(t, r, p) PROVE FALSE
        <5>1. r \in LCut(t)[p + 1]
          BY <3>4, <4>2
        <5>2. PICK k \in DOMAIN r : r[k].from < p + 1
          BY <2>1, <3>5, <4>4 DEF Covered
        <5>3. r[k].from >= p + 1
          BY <3>1, <5>1, LiesBehind
        <5>4. r \in Seq(Lexemes)
          BY <3>1, <5>1, LCutIs
        <5>5. r[k].from \in Nat
          <6>1. r[k] \in Lexemes
            BY <5>4
          <6> HIDE DEF Tok!TokenTypes
          <6> QED BY <6>1 DEF Lexemes
        <5> QED BY <2>1, <5>2, <5>3, <5>5
      <4> QED BY <4>3, <4>4
    <3>6. CASE p + 1 \notin Tok!LoneDashes(t)
      <4>1. \A r : Covered(t, r, p) <=> Covered(t, r, p + 1)
        <5>1. \A i \in Tok!LoneDashes(t) : i > p <=> i > p + 1
          BY <1>0, <1>3, <2>1, <3>6
        <5> QED BY <5>1 DEF Covered
      <4>2. ASSUME NEW x \in Tok!Ahead(t, p) PROVE \A r : r \in Led(x, none) <=> r \in Led(x, LCut(t)) /\ Covered(t, r, p)
        <5>1. x.from = p /\ x.to \in P /\ x.to > p /\ rank[x.to] < rank[p] /\ x \in Lexemes
          BY <1>0, <1>1, AheadIs
        <5>2. none[x.to] = All(x.to)
          BY <1>4, <5>1
        <5>3. ASSUME NEW u \in LCut(t)[x.to] PROVE Covered(t, <<x>> \o u, p) <=> Covered(t, u, x.to)
          <6>1. u \in Seq(Lexemes)
            BY <5>1, LCutIs
          <6> DEFINE r == <<x>> \o u
          <6>2. /\ DOMAIN r = 1 .. Len(u) + 1 /\ Len(u) \in Nat /\ r[1] = x
                /\ \A i \in 1 .. Len(u) : r[i + 1] = u[i]
                /\ DOMAIN u = 1 .. Len(u)
            <7> HIDE DEF Lexemes
            <7> QED BY <5>1, <6>1
          <6> HIDE DEF r
          <6>3. ASSUME Covered(t, r, p), NEW i \in Tok!LoneDashes(t), i > x.to
                PROVE  \E k \in DOMAIN u : u[k].from < i /\ i <= u[k].to
            <7>1. i > p /\ i \in Nat
              BY <1>0, <1>3, <2>1, <5>1, <6>3
            <7>2. PICK k \in DOMAIN r : r[k].from < i /\ i <= r[k].to
              BY <6>3, <7>1 DEF Covered
            <7>3. k # 1
              BY <1>0, <5>1, <6>2, <6>3, <7>1, <7>2
            <7>4. k - 1 \in 1 .. Len(u) /\ k - 1 + 1 = k
              BY <6>2, <7>3
            <7>5. r[k] = u[k - 1]
              BY <6>2, <7>4
            <7> QED BY <6>2, <7>2, <7>4, <7>5
          <6>4. ASSUME Covered(t, u, x.to), NEW i \in Tok!LoneDashes(t), i > p
                PROVE  \E k \in DOMAIN r : r[k].from < i /\ i <= r[k].to
            <7>1. i \in Nat
              BY <1>0, <1>3
            <7>2. CASE i <= x.to
              <8>1. 1 \in DOMAIN r /\ r[1].from < i /\ i <= r[1].to
                BY <2>1, <5>1, <6>2, <6>4, <7>1, <7>2
              <8> QED BY <8>1
            <7>3. CASE ~(i <= x.to)
              <8>1. i > x.to
                BY <1>0, <5>1, <7>1, <7>3
              <8>2. PICK k \in DOMAIN u : u[k].from < i /\ i <= u[k].to
                BY <6>4, <8>1 DEF Covered
              <8>3. k + 1 \in DOMAIN r /\ r[k + 1] = u[k]
                BY <6>2
              <8> QED BY <8>2, <8>3
            <7> QED BY <7>2, <7>3
          <6>5. Covered(t, r, p) <=> Covered(t, u, x.to)
            <7>1. Covered(t, r, p) => Covered(t, u, x.to)
              BY <6>3 DEF Covered
            <7>2. Covered(t, u, x.to) => Covered(t, r, p)
              BY <6>4 DEF Covered
            <7> QED BY <7>1, <7>2
          <6> QED BY <6>5 DEF r
        <5>4. \A u \in LCut(t)[x.to] : u \in none[x.to] <=> Covered(t, u, x.to)
          BY <5>2
        <5>5. none[x.to] \subseteq LCut(t)[x.to]
          BY <5>2
        <5> HIDE DEF Covered
        <5> TAKE r
        <5>6. ASSUME r \in Led(x, none) PROVE r \in Led(x, LCut(t)) /\ Covered(t, r, p)
          <6>1. PICK u \in none[x.to] : r = <<x>> \o u
            BY <5>6 DEF Led
          <6> QED BY <5>3, <5>4, <5>5, <6>1 DEF Led
        <5>7. ASSUME r \in Led(x, LCut(t)), Covered(t, r, p) PROVE r \in Led(x, none)
          <6>1. PICK u \in LCut(t)[x.to] : r = <<x>> \o u
            BY <5>7 DEF Led
          <6>2. u \in none[x.to]
            BY <5>3, <5>4, <5>7, <6>1
          <6> QED BY <6>1, <6>2 DEF Led
        <5> QED BY <5>6, <5>7
      <4> HIDE DEF Covered
      <4>3. \A r : r \in none[p + 1] <=> r \in LCut(t)[p + 1] /\ Covered(t, r, p)
        BY <3>2, <4>1
      <4>4. \A r : r \in none[p] <=> r \in LCut(t)[p] /\ Covered(t, r, p)
        BY <3>3, <3>4, <3>6, <4>2, <4>3, Zenon
      <4> QED BY <4>4
    <3> QED BY <3>5, <3>6
  <2> QED BY <2>2, <2>3
<1>5. P \subseteq S
  <2> HIDE DEF S, P
  <2> QED BY <1>1, <1>4, RankInduction
<1> QED BY <1>5 DEF none

LEMMA CutsInvariant == Spec => []TokInv
<1>1. Init => TokInv
  BY InitSound
<1>2. TokInv /\ [Next]_vars => TokInv'
  BY NextSound
<1> QED BY <1>1, <1>2, PTL DEF Spec

\* When all of a spec is cut: the tokens are its longest lexemes, in their order, and
\* the only ways to cut it; without leaving out lone dashes, too, if they hold all of
\* those, and else there is no way (uTokenize).
THEOREM Lexed == Spec => []CutsIntoLexemes
<1>1. ASSUME TokInv, cut = "ok"
      PROVE  Tok!Cuts(spec, {}) = IF Tok!LeftOut = {} THEN {Tok!Lexemes(tokens)} ELSE {}
  <2> DEFINE ls == Tok!Lexemes(tokens)
  <2>1. spec \in Strings /\ LCut(spec)[0] = {ls} /\ 0 \in 0 .. Len(spec)
    <3>1. spec \in Strings /\ Tok!LooseCuts(spec) = {ls}
      BY <1>1 DEF TokInv, Typed, Sound
    <3> QED BY <3>1, LooseCutsAre DEF Strings
  <2>2. Tok!Cuts(spec, {}) = {r \in {ls} : Covered(spec, r, 0)}
    BY <2>1, WithoutLone DEF Tok!Cuts
  <2>3. Tok!LeftOut = {} <=> Covered(spec, ls, 0)
    <3>1. DOMAIN ls = DOMAIN tokens
      BY DEF Tok!Lexemes
    <3>2. \A i \in Tok!LoneDashes(spec) : i > 0
      BY DEF Tok!LoneDashes
    <3> HIDE DEF ls, Tok!LoneDashes
    <3> QED BY <3>1, <3>2 DEF Tok!LeftOut, Covered, ls
  <2> HIDE DEF ls, Covered
  <2> QED BY <2>2, <2>3 DEF ls
<1>2. TokInv => CutsIntoLexemes
  BY <1>1 DEF TokInv, Sound, CutsIntoLexemes, Tok!CutsIntoLexemes
<1> QED BY <1>2, CutsInvariant, PTL

\* A spec is refused at the first character with which no spec can go on, and only if
\* it cannot be cut; or where the tokenizer is stricter than the grammar (uTokenize).
THEOREM Pinpointed == Spec => []ErrorAtFirstBadCharacter
<1>1. TokInv => ErrorAtFirstBadCharacter
  BY DEF TokInv, Sound, BadAt, ErrorAtFirstBadCharacter, Tok!ErrorAtFirstBadCharacter, Tok!Text
<1> QED BY <1>1, CutsInvariant, PTL

(***************************************************************************)
(* What the names lead to: the option or argument declared last.           *)
(***************************************************************************)
LeadsToLast(m, names) ==
  \A x \in DOMAIN m : /\ m[x] \in DOMAIN names /\ x \in names[m[x]]
                      /\ \A j \in DOMAIN names : x \in names[j] => j <= m[x]

IndexInv ==
  /\ args \in Seq(Strings) /\ options \in Seq(Seq(Strings))
  /\ LeadsToLast(argsIdx, OfArgs) /\ LeadsToLast(optionsIdx, OfOptions)

BoundInv == Typed /\ IndexInv /\ BindsThisRun

\* A declaration more: its names lead to it, the others to where they led.
LEMMA OneMoreName ==
  ASSUME NEW m, NEW n \in Nat, NEW names, DOMAIN names = 1 .. n, NEW more, DOMAIN more = 1 .. n + 1,
         \A i \in 1 .. n : more[i] = names[i], LeadsToLast(m, names)
  PROVE  LeadsToLast(Put(m, more[n + 1], n + 1), more)
<1> DEFINE ks == more[n + 1]
           r == Put(m, ks, n + 1)
<1>1. DOMAIN r = ks \cup DOMAIN m /\ \A x \in ks \cup DOMAIN m : r[x] = IF x \in ks THEN n + 1 ELSE m[x]
  BY DEF Put
<1> HIDE DEF r, ks
<1> SUFFICES ASSUME NEW x \in DOMAIN r
             PROVE  /\ r[x] \in DOMAIN more /\ x \in more[r[x]]
                    /\ \A j \in DOMAIN more : x \in more[j] => j <= r[x]
  BY DEF LeadsToLast, r, ks
<1>2. CASE x \in ks
  <2>1. r[x] = n + 1
    BY <1>1, <1>2
  <2> QED BY <1>2, <2>1 DEF ks
<1>3. CASE x \notin ks
  <2>1. x \in DOMAIN m /\ r[x] = m[x]
    BY <1>1, <1>3
  <2>2. m[x] \in 1 .. n /\ x \in names[m[x]] /\ \A j \in 1 .. n : x \in names[j] => j <= m[x]
    BY <2>1 DEF LeadsToLast
  <2>3. \A j \in 1 .. n + 1 : j \in 1 .. n \/ j = n + 1
    OBVIOUS
  <2>4. \A j \in DOMAIN more : x \in more[j] => j <= m[x]
    BY <1>3, <2>2, <2>3 DEF ks
  <2> QED BY <2>1, <2>2, <2>4
<1> QED BY <1>2, <1>3

LEMMA NamesTyped ==
  ASSUME NEW ns \in Seq(Strings)
  PROVE  MkOptStrs(ns) \in Seq(Strings)
<1>1. Len(ns) \in Nat /\ DOMAIN ns = 1 .. Len(ns) /\ \A i \in 1 .. Len(ns) : ns[i] \in Seq(Characters)
  BY LenProperties, ElementOfSeq DEF Strings
<1>2. <<"-", "-">> \in Seq(Characters) /\ <<"-">> \in Seq(Characters)
  <2>1. "-" \in Characters
    BY ClassesAssumption DEF Separators
  <2> QED BY <2>1
<1>3. \A i \in 1 .. Len(ns) : (IF Len(ns[i]) > 1 THEN <<"-", "-">> ELSE <<"-">>) \o ns[i] \in Seq(Characters)
  <2> TAKE i \in 1 .. Len(ns)
  <2>1. PICK d \in Seq(Characters) : d = IF Len(ns[i]) > 1 THEN <<"-", "-">> ELSE <<"-">>
    BY <1>2
  <2>2. d \o ns[i] \in Seq(Characters)
    BY <1>1, ConcatProperties
  <2> QED BY <2>1, <2>2
<1> QED BY <1>1, <1>3 DEF MkOptStrs, Strings

LEMMA IndexInit == Init => BoundInv
<1> SUFFICES ASSUME Init PROVE BoundInv
  OBVIOUS
<1>1. Typed
  BY InitSound DEF TokInv
<1>2. args = <<>> /\ options = <<>> /\ argsIdx = <<>> /\ optionsIdx = <<>> /\ runs = 0
  BY DEF Init
<1>3. IndexInv
  <2>1. DOMAIN argsIdx = {} /\ DOMAIN optionsIdx = {} /\ <<>> \in Seq(Strings) /\ <<>> \in Seq(Seq(Strings))
    BY <1>2
  <2> HIDE DEF Strings
  <2> QED BY <1>2, <2>1 DEF IndexInv, LeadsToLast
<1>4. ~Ready
  BY <1>2 DEF Ready
<1> QED BY <1>1, <1>3, <1>4 DEF BoundInv, BindsThisRun

LEMMA IndexNext ==
  ASSUME TokInv, BoundInv, Declare
  PROVE  IndexInv'
<1> DEFINE d == Head(left)
<1>1. left # <<>> /\ ((MkOpt(d) /\ d.param = "opt") \/ (MkArg(d) /\ d.param = "arg")) /\ IsDeclaration(d)
  <2>1. left # <<>> /\ ((MkOpt(d) /\ d.param = "opt") \/ (MkArg(d) /\ d.param = "arg"))
    BY DEF Declare
  <2>2. d \in ToSet(program.decls) /\ program \in Programs
    BY <2>1, HeadTailProperties DEF TokInv, Typed
  <2> QED BY <2>1, <2>2, ProgramsAssumption
<1> HIDE DEF d
<1>2. CASE MkOpt(d) /\ d.param = "opt"
  <2> DEFINE ns == MkOptStrs(d.names)
             n == Len(options)
  <2>1. options' = Append(options, ns) /\ optionsIdx' = Put(optionsIdx, ToSet(ns), n + 1) /\ UNCHANGED <<args, argsIdx>>
    BY <1>2 DEF MkOpt
  <2>2. ns \in Seq(Strings)
    <3>1. d.names \in Seq(Strings)
      BY <1>1, <1>2 DEF IsDeclaration
    <3> HIDE DEF Strings
    <3> QED BY <3>1, NamesTyped
  <2> HIDE DEF ns
  <2>3. /\ n \in Nat /\ DOMAIN options = 1 .. n /\ options' \in Seq(Seq(Strings)) /\ DOMAIN options' = 1 .. n + 1
        /\ options'[n + 1] = ns /\ \A i \in 1 .. n : options'[i] = options[i]
    <3> HIDE DEF Strings
    <3> QED BY <2>1, <2>2, AppendProperties, LenProperties DEF BoundInv, IndexInv
  <2> HIDE DEF n
  <2> DEFINE m == OfOptions'
  <2>4. /\ DOMAIN OfOptions = 1 .. n /\ DOMAIN m = 1 .. n + 1 /\ m[n + 1] = ToSet(ns)
        /\ \A i \in 1 .. n : m[i] = OfOptions[i]
    <3>1. DOMAIN OfOptions = 1 .. n /\ \A i \in 1 .. n : OfOptions[i] = ToSet(options[i])
      BY <2>3 DEF OfOptions
    <3>2. DOMAIN m = 1 .. n + 1 /\ \A i \in 1 .. n + 1 : m[i] = ToSet(options'[i])
      BY <2>3 DEF OfOptions
    <3> HIDE DEF m
    <3>3. n + 1 \in 1 .. n + 1 /\ 1 .. n \subseteq 1 .. n + 1
      BY <2>3
    <3> QED BY <2>3, <3>1, <3>2, <3>3
  <2>5. LeadsToLast(optionsIdx', m)
    <3> HIDE DEF m
    <3>1. LeadsToLast(optionsIdx, OfOptions)
      BY DEF BoundInv, IndexInv
    <3>2. LeadsToLast(Put(optionsIdx, m[n + 1], n + 1), m)
      BY <2>3, <2>4, <3>1, OneMoreName
    <3> QED BY <2>1, <2>4, <3>2 DEF n
  <2>6. args' \in Seq(Strings) /\ LeadsToLast(argsIdx', OfArgs')
    BY <2>1 DEF BoundInv, IndexInv, OfArgs
  <2> QED BY <2>3, <2>5, <2>6 DEF IndexInv
<1>3. CASE MkArg(d) /\ d.param = "arg"
  <2> DEFINE n == Len(args)
  <2>1. args' = Append(args, d.name) /\ argsIdx' = Put(argsIdx, {d.name}, n + 1) /\ UNCHANGED <<options, optionsIdx>>
    BY <1>3 DEF MkArg
  <2>2. d.name \in Strings
    BY <1>1, <1>3 DEF IsDeclaration
  <2>3. /\ n \in Nat /\ DOMAIN args = 1 .. n /\ args' \in Seq(Strings) /\ DOMAIN args' = 1 .. n + 1
        /\ args'[n + 1] = d.name /\ \A i \in 1 .. n : args'[i] = args[i]
    <3> HIDE DEF Strings
    <3> QED BY <2>1, <2>2, AppendProperties, LenProperties DEF BoundInv, IndexInv
  <2> HIDE DEF n
  <2> DEFINE m == OfArgs'
  <2>4. /\ DOMAIN OfArgs = 1 .. n /\ DOMAIN m = 1 .. n + 1 /\ m[n + 1] = {d.name}
        /\ \A i \in 1 .. n : m[i] = OfArgs[i]
    <3>1. DOMAIN OfArgs = 1 .. n /\ \A i \in 1 .. n : OfArgs[i] = {args[i]}
      BY <2>3 DEF OfArgs
    <3>2. DOMAIN m = 1 .. n + 1 /\ \A i \in 1 .. n + 1 : m[i] = {args'[i]}
      BY <2>3 DEF OfArgs
    <3> HIDE DEF m
    <3>3. n + 1 \in 1 .. n + 1 /\ 1 .. n \subseteq 1 .. n + 1
      BY <2>3
    <3> QED BY <2>3, <3>1, <3>2, <3>3
  <2>5. LeadsToLast(argsIdx', m)
    <3> HIDE DEF m
    <3>1. LeadsToLast(argsIdx, OfArgs)
      BY DEF BoundInv, IndexInv
    <3>2. LeadsToLast(Put(argsIdx, m[n + 1], n + 1), m)
      BY <2>3, <2>4, <3>1, OneMoreName
    <3> QED BY <2>1, <2>4, <3>2 DEF n
  <2>6. options' \in Seq(Seq(Strings)) /\ LeadsToLast(optionsIdx', OfOptions')
    BY <2>1 DEF BoundInv, IndexInv, OfOptions
  <2> QED BY <2>3, <2>5, <2>6 DEF IndexInv
<1> QED BY <1>1, <1>2, <1>3

\* A name of which the index knows leads to what has it now.
LEMMA FoundIsCurrent ==
  ASSUME NEW m, NEW names, LeadsToLast(m, names), NEW x, Find(m, x) \in DOMAIN names, 0 \notin DOMAIN names
  PROVE  Current(names, Find(m, x))
<1>1. x \in DOMAIN m /\ Find(m, x) = m[x]
  BY DEF Find, Undeclared
<1> QED BY <1>1 DEF LeadsToLast, Current

\* The tokens that the parser is given: names stand for numbers.
InputTokens ==
  {t \in [typ : Tok!TokenTypes, val : Nat \cup Seq(Nat) \cup Strings] :
     /\ t.typ \in {"pos", "shortOpt", "longOpt"} => t.val \in Nat
     /\ t.typ = "optSeq" => t.val \in Seq(Nat)}

LEMMA FindsNumbers ==
  ASSUME NEW m, NEW names, LeadsToLast(m, names), DOMAIN names \subseteq Nat
  PROVE  \A x : Find(m, x) \in Nat
<1> SUFFICES ASSUME NEW x PROVE Find(m, x) \in Nat
  OBVIOUS
<1>1. CASE x \in DOMAIN m
  BY <1>1 DEF Find, LeadsToLast
<1>2. CASE x \notin DOMAIN m
  BY <1>2 DEF Find, Undeclared
<1> QED BY <1>1, <1>2

LEMMA GivenTokens ==
  ASSUME IndexInv, NEW t \in Tokens
  PROVE  [typ |-> t.typ, val |-> Found(t)] \in InputTokens
<1>1. (\A x : Find(argsIdx, x) \in Nat) /\ (\A x : Find(optionsIdx, x) \in Nat)
  <2>1. DOMAIN OfArgs \subseteq Nat /\ DOMAIN OfOptions \subseteq Nat
    BY LenProperties DEF IndexInv, OfArgs, OfOptions
  <2> QED BY <2>1, FindsNumbers DEF IndexInv
<1>2. t.typ \in Tok!TokenTypes /\ t.val \in Seq(Characters)
  BY DEF Tokens, Strings
<1> HIDE DEF Tok!TokenTypes
<1>3. CASE t.typ = "pos"
  <2>1. Found(t) \in Nat
    BY <1>1, <1>3 DEF Found
  <2> QED BY <1>2, <1>3, <2>1 DEF InputTokens
<1>4. CASE t.typ \in {"shortOpt", "longOpt"}
  <2>1. Found(t) \in Nat
    BY <1>1, <1>4 DEF Found
  <2> QED BY <1>2, <1>4, <2>1 DEF InputTokens
<1>5. CASE t.typ = "optSeq"
  <2>1. Found(t) = [i \in DOMAIN t.val |-> Find(optionsIdx, <<"-", t.val[i]>>)]
    BY <1>5 DEF Found
  <2>2. Found(t) \in Seq(Nat)
    <3>1. Len(t.val) \in Nat /\ DOMAIN t.val = 1 .. Len(t.val)
      BY <1>2, LenProperties
    <3> DEFINE F(i) == Find(optionsIdx, <<"-", t.val[i]>>)
    <3>2. \A i \in 1 .. Len(t.val) : F(i) \in Nat
      BY <1>1
    <3> HIDE DEF F
    <3>3. [i \in 1 .. Len(t.val) |-> F(i)] \in Seq(Nat)
      BY <3>1, <3>2
    <3> QED BY <2>1, <3>1, <3>3 DEF F
  <2> QED BY <1>2, <1>5, <2>2 DEF InputTokens
<1>6. CASE t.typ \notin {"pos", "shortOpt", "longOpt", "optSeq"}
  <2>1. Found(t) = t.val
    BY <1>6 DEF Found
  <2> QED BY <1>2, <1>6, <2>1 DEF InputTokens, Strings
<1> QED BY <1>3, <1>4, <1>5, <1>6

LEMMA ParseBinds ==
  ASSUME TokInv, BoundInv, Parse
  PROVE  BindsThisRun'
<1> SUFFICES ASSUME Ready', NEW m \in Expected'
             PROVE  /\ m.kind = "arg" => Current(OfArgs, m.arg)
                    /\ m.kind = "opt" => Current(OfOptions, m.opt)
                    /\ m.kind = "opts" => LET all == {i \in DOMAIN options : Current(OfOptions, i)}
                                          IN  ToSet(m.opts) \subseteq all \/ all \subseteq ToSet(m.opts)
  <2>1. options' = options /\ OfArgs' = OfArgs /\ OfOptions' = OfOptions
    BY DEF Parse, declared, OfArgs, OfOptions
  <2> QED BY <2>1 DEF BindsThisRun
<1> DEFINE as == DOMAIN args
           os == [i \in DOMAIN options |-> i]
           ts == [i \in DOMAIN tokens |-> [typ |-> tokens[i].typ, val |-> Found(tokens[i])]]
           g == UParse(as, os, ts)
<1>1. g.err = "" /\ fsm' = g
  <2>1. g = Parsed
    BY DEF Parsed
  <2>2. at' = "between"
    BY DEF Ready
  <2> HIDE DEF g
  <2> QED BY <2>1, <2>2 DEF Parse
<1>2. WaitsForTokens(g, as, os, ts)
  <2>1. as \in SUBSET Nat
    BY LenProperties DEF BoundInv, IndexInv
  <2>2. os \in Seq(Nat)
    <3>1. Len(options) \in Nat /\ DOMAIN options = 1 .. Len(options)
      BY LenProperties DEF BoundInv, IndexInv
    <3> QED BY <3>1
  <2>3. ts \in Seq(InputTokens)
    <3>1. tokens \in Seq(Tokens)
      BY DEF Parse, TokInv, Sound
    <3>2. Len(tokens) \in Nat /\ DOMAIN tokens = 1 .. Len(tokens) /\ \A i \in 1 .. Len(tokens) : tokens[i] \in Tokens
      BY <3>1, LenProperties, ElementOfSeq
    <3> DEFINE F(i) == [typ |-> tokens[i].typ, val |-> Found(tokens[i])]
    <3>3. \A i \in 1 .. Len(tokens) : F(i) \in InputTokens
      BY <3>2, GivenTokens DEF BoundInv
    <3> HIDE DEF F
    <3>4. [i \in 1 .. Len(tokens) |-> F(i)] \in Seq(InputTokens)
      BY <3>2, <3>3
    <3> QED BY <3>2, <3>4 DEF F
  <2> HIDE DEF as, os, ts, g
  <2>4. UParse(as, os, ts) = g
    BY DEF g
  <2>5. Inputs(os, ts)
    <3>1. os \in Seq(ToSet(os)) /\ ts \in Seq(ToSet(ts)) /\ ToSet(ts) \subseteq InputTokens
      BY <2>2, <2>3, SeqOfMembers, Members
    <3>2. \A t \in ToSet(ts) : t.typ = "optSeq" => t.val \in Seq(ToSet(t.val))
      BY <3>1, SeqOfMembers DEF InputTokens
    <3> QED BY <3>1, <3>2 DEF Inputs, IsSpec
  <2>6. WaitsForTokens(UParse(as, os, ts), as, os, ts)
    BY <1>1, <2>4, <2>5, ParsedWaits
  <2> QED BY <2>4, <2>6
<1>3. DOMAIN ts = DOMAIN tokens /\ \A i \in DOMAIN tokens : ts[i].typ = tokens[i].typ /\ ts[i].val = Found(tokens[i])
  OBVIOUS
<1>4. ToSet(os) = DOMAIN options
  BY DEF ToSet
<1> HIDE DEF g, ts, os
<1>5. PICK s \in States(g) : \E t \in ToSet(g.tr[s]) : m = t.m
  BY <1>1 DEF Expected, States
<1>6. PICK t \in ToSet(g.tr[s]) : m = t.m
  BY <1>5
<1>7. /\ m.kind = "arg"  => m.arg \in as /\ \E i \in DOMAIN ts : ts[i].typ = "pos" /\ ts[i].val = m.arg
      /\ m.kind = "opt"  => /\ m.opt \in ToSet(os)
                            /\ \E i \in DOMAIN ts : ts[i].typ \in {"shortOpt", "longOpt"} /\ ts[i].val = m.opt
      /\ m.kind = "opts" => \/ m.opts = os
                            \/ /\ ToSet(m.opts) \subseteq ToSet(os)
                               /\ \E i \in DOMAIN ts : ts[i].typ = "optSeq" /\ ts[i].val = m.opts
  BY <1>2, <1>6 DEF WaitsForTokens, From
<1>8. /\ DOMAIN OfArgs = as /\ DOMAIN OfOptions = DOMAIN options /\ 0 \notin as /\ 0 \notin DOMAIN options
      /\ LeadsToLast(argsIdx, OfArgs) /\ LeadsToLast(optionsIdx, OfOptions)
  <2>1. as = 1 .. Len(args) /\ DOMAIN options = 1 .. Len(options) /\ Len(args) \in Nat /\ Len(options) \in Nat
    BY LenProperties DEF BoundInv, IndexInv
  <2> QED BY <2>1 DEF BoundInv, IndexInv, OfArgs, OfOptions
<1>9. ASSUME m.kind = "arg" PROVE Current(OfArgs, m.arg)
  <2>1. PICK i \in DOMAIN ts : ts[i].typ = "pos" /\ ts[i].val = m.arg
    BY <1>7, <1>9
  <2>2. m.arg = Find(argsIdx, tokens[i].val) /\ m.arg \in as
    BY <1>3, <1>7, <1>9, <2>1 DEF Found
  <2> QED BY <1>8, <2>2, FoundIsCurrent
<1>10. ASSUME m.kind = "opt" PROVE Current(OfOptions, m.opt)
  <2>1. PICK i \in DOMAIN ts : ts[i].typ \in {"shortOpt", "longOpt"} /\ ts[i].val = m.opt
    BY <1>7, <1>10
  <2>2. m.opt = Find(optionsIdx, tokens[i].val) /\ m.opt \in DOMAIN options
    BY <1>3, <1>4, <1>7, <1>10, <2>1 DEF Found
  <2> QED BY <1>8, <2>2, FoundIsCurrent
<1>11. ASSUME m.kind = "opts"
       PROVE  LET all == {i \in DOMAIN options : Current(OfOptions, i)}
              IN  ToSet(m.opts) \subseteq all \/ all \subseteq ToSet(m.opts)
  <2>1. CASE m.opts = os
    BY <1>4, <2>1
  <2>2. CASE m.opts # os
    <3>1. PICK i \in DOMAIN ts : ts[i].typ = "optSeq" /\ ts[i].val = m.opts
      BY <1>7, <1>11, <2>2
    <3>2. ToSet(m.opts) \subseteq DOMAIN options
      BY <1>4, <1>7, <1>11, <2>2
    <3>3. m.opts = [k \in DOMAIN tokens[i].val |-> Find(optionsIdx, <<"-", tokens[i].val[k]>>)]
      BY <1>3, <3>1 DEF Found
    <3>4. ASSUME NEW o \in ToSet(m.opts) PROVE Current(OfOptions, o)
      <4>1. PICK k \in DOMAIN m.opts : o = m.opts[k]
        BY DEF ToSet
      <4>2. PICK x : o = Find(optionsIdx, x)
        BY <3>3, <4>1
      <4> QED BY <1>8, <3>2, <4>2, FoundIsCurrent
    <3> QED BY <3>2, <3>4
  <2> QED BY <2>1, <2>2
<1> QED BY <1>9, <1>10, <1>11

LEMMA NextBinds ==
  ASSUME TokInv, BoundInv, [Next]_vars
  PROVE  BoundInv'
<1>1. Typed'
  BY NextSound DEF TokInv
<1>2. CASE Declare
  <2>1. IndexInv' /\ ~Ready'
    BY <1>2, IndexNext DEF Declare, Ready
  <2> QED BY <1>1, <2>1 DEF BoundInv, BindsThisRun
<1>3. CASE Parse
  <2>1. IndexInv'
    BY <1>3 DEF Parse, declared, BoundInv, IndexInv, OfArgs, OfOptions
  <2> QED BY <1>1, <1>3, <2>1, ParseBinds DEF BoundInv
<1>4. CASE Run \/ MakeUp \/ Tokenize \/ Refuse
  <2>1. UNCHANGED <<options, optionsIdx, args, argsIdx>> /\ at' # "between"
    BY <1>4 DEF Run, MakeUp, Tokenize, Refuse, declared
  <2>2. IndexInv' /\ ~Ready'
    BY <2>1 DEF BoundInv, IndexInv, OfArgs, OfOptions, Ready
  <2> QED BY <1>1, <2>2 DEF BoundInv, BindsThisRun
<1>5. CASE Terminated \/ UNCHANGED vars
  <2>1. UNCHANGED <<options, optionsIdx, args, argsIdx, at, runs, fsm>>
    BY <1>5 DEF Terminated, vars, declared
  <2>2. IndexInv'
    BY <2>1 DEF BoundInv, IndexInv, OfArgs, OfOptions
  <2>3. BindsThisRun'
    BY <2>1 DEF BoundInv, BindsThisRun, Ready, Expected, OfArgs, OfOptions
  <2> QED BY <1>1, <2>2, <2>3 DEF BoundInv
<1> QED BY <1>2, <1>3, <1>4, <1>5 DEF Next, Step

\* An automaton waits for the options and arguments of its own Run, whatever was
\* declared in the Runs before (doInit, mkOpt, mkArg, and uParse, which makes the
\* automaton of what the tokens stand for).
THEOREM Bound == Spec => []BindsThisRun
<1>1. Init => TokInv /\ BoundInv
  BY InitSound, IndexInit
<1>2. TokInv /\ BoundInv /\ [Next]_vars => TokInv' /\ BoundInv'
  BY NextSound, NextBinds
<1>3. BoundInv => BindsThisRun
  BY DEF BoundInv
<1> QED BY <1>1, <1>2, <1>3, PTL DEF Spec
(***************************************************************************)
(* Words up to a length.                                                   *)
(***************************************************************************)
Short(U, W) == {w \in U : Len(w) <= W}

LEMMA InConcat ==
  ASSUME NEW U, NEW V, NEW W, NEW x
  PROVE  x \in Concat(U, V, W) <=> x \in WordsJoined(U, V) /\ Len(x) <= W
BY DEF Concat, WordsJoined

LEMMA JoinedLength ==
  ASSUME NEW L, NEW u \in Seq(L), NEW v \in Seq(L)
  PROVE  Len(u) \in Nat /\ Len(v) \in Nat /\ Len(u \o v) = Len(u) + Len(v)
BY ConcatProperties, LenProperties

LEMMA ShortJoined ==
  ASSUME NEW L, NEW U \in SUBSET Seq(L), NEW V \in SUBSET Seq(L), NEW W \in Nat
  PROVE  Short(WordsJoined(U, V), W) = Concat(Short(U, W), Short(V, W), W)
<1>1. ASSUME NEW x, x \in WordsJoined(U, V), Len(x) <= W PROVE x \in WordsJoined(Short(U, W), Short(V, W))
  <2>1. PICK u \in U, v \in V : x = u \o v
    BY <1>1, InJoined
  <2>2. Len(u) \in Nat /\ Len(v) \in Nat /\ Len(x) = Len(u) + Len(v)
    BY <2>1, JoinedLength
  <2>3. u \in Short(U, W) /\ v \in Short(V, W)
    BY <1>1, <2>2 DEF Short
  <2> QED BY <2>1, <2>3, InJoined
<1>2. ASSUME NEW x, x \in WordsJoined(Short(U, W), Short(V, W)) PROVE x \in WordsJoined(U, V)
  <2> DEFINE S == Short(U, W)
             T == Short(V, W)
  <2>1. S \subseteq U /\ T \subseteq V
    BY DEF Short
  <2>2. x \in WordsJoined(S, T)
    BY <1>2
  <2> HIDE DEF S, T
  <2>3. PICK u \in S, v \in T : x = u \o v
    BY <2>2, InJoined
  <2> QED BY <2>1, <2>3, InJoined
<1>3. \A x : x \in Short(WordsJoined(U, V), W) <=> x \in WordsJoined(U, V) /\ Len(x) <= W
  BY DEF Short
<1> QED BY <1>1, <1>2, <1>3, InConcat

\* The words of Repeated, by the rounds they may take.
IsUpTo(f, U, W) == f = [n \in Nat |-> IF n <= 1 THEN U ELSE U \cup Concat(f[n - 1], U, W)]

LEMMA UpToIs ==
  ASSUME NEW L, NEW U \in SUBSET Seq(L), NEW W
  PROVE  \E f \in [Nat -> SUBSET Seq(L)] : IsUpTo(f, U, W) /\ Repeated(U, W) = f[W]
<1> DEFINE V == SUBSET Seq(L)
           G == [y \in Nat \X [Nat -> V] |-> IF y[1] <= 1 THEN U ELSE U \cup Concat(y[2][y[1] - 1], U, W)]
           rank == [n \in Nat |-> n]
<1>1. ASSUME NEW h \in [Nat -> V], NEW n \in Nat, ~(n <= 1) PROVE Concat(h[n - 1], U, W) \in V
  <2>1. n - 1 \in Nat
    BY <1>1
  <2>2. h[n - 1] \in V
    BY <2>1
  <2>3. WordsJoined(h[n - 1], U) \in V
    BY <2>2, JoinedWords
  <2> QED BY <2>3, InConcat
<1>2. G \in [Nat \X [Nat -> V] -> V]
  <2> SUFFICES ASSUME NEW n \in Nat, NEW h \in [Nat -> V]
               PROVE  (IF n <= 1 THEN U ELSE U \cup Concat(h[n - 1], U, W)) \in V
    OBVIOUS
  <2> QED BY <1>1
<1>3. ASSUME NEW n \in Nat, NEW h \in [Nat -> V], NEW k \in [Nat -> V], \A m \in Nat : rank[m] < rank[n] => h[m] = k[m]
      PROVE  G[<<n, h>>] = G[<<n, k>>]
  <2>1. ~(n <= 1) => n - 1 \in Nat /\ n - 1 < n
    OBVIOUS
  <2>2. ~(n <= 1) => h[n - 1] = k[n - 1]
    BY <1>3, <2>1
  <2> QED BY <2>2
<1>4. rank \in [Nat -> Nat] /\ V # {}
  OBVIOUS
<1>5. Ranked(Nat, V, rank, G)
  <2> HIDE DEF V, G, rank
  <2> QED BY <1>2, <1>3, <1>4 DEF Ranked
<1>6. PICK g : Computed(g, Nat, V, G)
  <2> HIDE DEF V, G, rank
  <2> QED BY <1>5, Recursion
<1>7. g \in [Nat -> V] /\ \A n \in Nat : g[n] = IF n <= 1 THEN U ELSE U \cup Concat(g[n - 1], U, W)
  BY <1>6 DEF Computed
<1>8. IsUpTo(g, U, W)
  BY <1>7 DEF IsUpTo
<1> DEFINE f == CHOOSE h : IsUpTo(h, U, W)
<1>9. IsUpTo(f, U, W)
  BY <1>8
<1>10. Repeated(U, W) = f[W]
  BY DEF Repeated, IsUpTo
<1> HIDE DEF f, V
<1>11. f \in [Nat -> V]
  <2> DEFINE S == {n \in Nat : f[n] \in V}
  <2>1. \A n \in Nat : f[n] = IF n <= 1 THEN U ELSE U \cup Concat(f[n - 1], U, W)
    BY <1>9 DEF IsUpTo
  <2>2. f[0] \in V /\ f[1] \in V
    <3>1. 0 \in Nat /\ 0 <= 1 /\ 1 \in Nat /\ 1 <= 1
      OBVIOUS
    <3>2. f[0] = U /\ f[1] = U
      BY <2>1, <3>1
    <3> QED BY <3>2 DEF V
  <2>3. ASSUME NEW n \in Nat, f[n] \in V PROVE f[n + 1] \in V
    <3>1. CASE n = 0
      BY <2>2, <3>1
    <3>2. CASE n # 0
      <4>1. n + 1 \in Nat /\ ~(n + 1 <= 1) /\ (n + 1) - 1 = n
        BY <3>2
      <4>2. f[n + 1] = U \cup Concat(f[n], U, W)
        BY <2>1, <4>1
      <4>3. WordsJoined(f[n], U) \in V
        BY <2>3, JoinedWords DEF V
      <4>4. Concat(f[n], U, W) \subseteq WordsJoined(f[n], U)
        BY InConcat
      <4> QED BY <4>2, <4>3, <4>4 DEF V
    <3> QED BY <3>1, <3>2
  <2>4. 0 \in S /\ \A n \in S : n + 1 \in S
    BY <2>2, <2>3
  <2>5. S \subseteq Nat
    OBVIOUS
  <2>6. \A n \in Nat : n \in S
    <3> HIDE DEF S
    <3> QED BY <2>4, <2>5, Induction
  <2>7. \A n \in Nat : f[n] \in V
    BY <2>6
  <2>8. f = [n \in Nat |-> f[n]]
    BY <1>9, Zenon DEF IsUpTo
  <2> QED BY <2>7, <2>8
<1> QED BY <1>9, <1>10, <1>11 DEF V

LEMMA ShortRounds ==
  ASSUME NEW L, NEW U \in SUBSET Seq(L), NEW W \in Nat \ {0}
  PROVE  Short(OnceOrMore(U, L), W) = Repeated(Short(U, W), W)
<1> DEFINE A == Short(U, W)
           R == OnceOrMore(U, L)
<1>1. A \in SUBSET Seq(L) /\ A \subseteq U /\ \A u \in U : Len(u) <= W => u \in A
  BY DEF Short
<1>2. \A a \in A : Len(a) <= W
  BY DEF Short
<1>3. /\ R \in SUBSET Seq(L) /\ MoreThanOnce(R, U)
      /\ \A X \in SUBSET Seq(L) : MoreThanOnce(X, U) => R \subseteq X
  BY RoundsAre
<1> HIDE DEF A, R
<1>4. PICK f \in [Nat -> SUBSET Seq(L)] : IsUpTo(f, A, W) /\ Repeated(A, W) = f[W]
  BY <1>1, UpToIs
<1>5. /\ f[0] = A /\ f[1] = A /\ \A n \in Nat : A \subseteq f[n]
      /\ \A n \in Nat : n >= 2 => f[n] = A \cup Concat(f[n - 1], A, W)
  <2>1. \A n \in Nat : f[n] = IF n <= 1 THEN A ELSE A \cup Concat(f[n - 1], A, W)
    BY <1>4 DEF IsUpTo
  <2>2. 0 \in Nat /\ 0 <= 1 /\ 1 \in Nat /\ 1 <= 1
    OBVIOUS
  <2>3. f[0] = A /\ f[1] = A
    BY <2>1, <2>2
  <2>4. \A n \in Nat : A \subseteq f[n]
    BY <2>1
  <2>5. \A n \in Nat : n >= 2 => ~(n <= 1)
    OBVIOUS
  <2>6. \A n \in Nat : n >= 2 => f[n] = A \cup Concat(f[n - 1], A, W)
    BY <2>1, <2>5
  <2> QED BY <2>3, <2>4, <2>6
<1>6. R \subseteq {w \in Seq(L) : Len(w) <= W => w \in f[W]}
  <2> DEFINE X == {w \in Seq(L) : \A n \in Nat : n >= 1 /\ Len(w) <= n /\ n <= W => w \in f[n]}
  <2>1. X \in SUBSET Seq(L)
    OBVIOUS
  <2>2. U \subseteq X
    <3> SUFFICES ASSUME NEW u \in U, NEW n \in Nat, n >= 1, Len(u) <= n, n <= W PROVE u \in f[n]
      OBVIOUS
    <3>1. Len(u) \in Nat
      BY LenProperties
    <3>2. u \in A
      BY <1>1, <3>1
    <3> QED BY <1>5, <3>2
  <2>3. ASSUME NEW x \in X, NEW u \in U PROVE x \o u \in X
    <3>1. x \in Seq(L) /\ u \in Seq(L) /\ x \o u \in Seq(L)
      OBVIOUS
    <3>2. Len(x) \in Nat /\ Len(u) \in Nat /\ Len(x \o u) = Len(x) + Len(u)
      BY <3>1, JoinedLength
    <3>3. ASSUME NEW n \in Nat, n >= 1, Len(x \o u) <= n, n <= W PROVE x \o u \in f[n]
      <4>1. Len(u) <= W /\ Len(x) <= n /\ Len(x) + Len(u) <= W
        BY <3>2, <3>3
      <4>2. u \in A
        BY <1>1, <4>1
      <4>3. CASE u = <<>>
        <5>1. x \o u = x
          BY <3>1, <4>3, ConcatEmptySeq
        <5> QED BY <3>3, <4>1, <5>1
      <4>4. CASE x = <<>>
        <5>1. x \o u = u
          BY <3>1, <4>4, ConcatEmptySeq
        <5> QED BY <1>5, <4>2, <5>1
      <4>5. CASE u # <<>> /\ x # <<>>
        <5>1. Len(x) >= 1 /\ Len(u) >= 1
          BY <3>1, <3>2, <4>5, EmptySeq
        <5>2. n >= 2 /\ n - 1 \in Nat /\ n - 1 >= 1 /\ Len(x) <= n - 1 /\ n - 1 <= W
          BY <3>2, <3>3, <5>1
        <5>3. x \in f[n - 1]
          BY <5>2
        <5>4. x \o u \in WordsJoined(f[n - 1], A) /\ Len(x \o u) <= W
          BY <3>2, <4>1, <4>2, <5>3, InJoined
        <5>5. x \o u \in Concat(f[n - 1], A, W)
          BY <5>4, InConcat
        <5> QED BY <1>5, <5>2, <5>5
      <4> QED BY <4>3, <4>4, <4>5
    <3> QED BY <3>1, <3>3
  <2>4. R \subseteq X
    <3> HIDE DEF X
    <3> QED BY <1>3, <2>1, <2>2, <2>3 DEF MoreThanOnce
  <2>5. \A w \in X : Len(w) <= W => w \in f[W]
    <3> SUFFICES ASSUME NEW w \in X, Len(w) <= W PROVE w \in f[W]
      OBVIOUS
    <3>1. W \in Nat /\ W >= 1 /\ W <= W
      OBVIOUS
    <3> QED BY <3>1
  <2> QED BY <1>3, <2>4, <2>5
<1>7. \A n \in Nat : f[n] \subseteq Short(R, W)
  <2> DEFINE S == {n \in Nat : f[n] \subseteq Short(R, W)}
  <2>1. A \subseteq Short(R, W)
    BY <1>1, <1>2, <1>3 DEF MoreThanOnce, Short
  <2>2. ASSUME NEW n \in Nat, f[n] \subseteq Short(R, W) PROVE f[n + 1] \subseteq Short(R, W)
    <3>1. CASE n = 0
      BY <1>5, <2>1, <3>1
    <3>2. CASE n # 0
      <4>1. n + 1 \in Nat /\ n + 1 >= 2 /\ (n + 1) - 1 = n
        BY <3>2
      <4>2. f[n + 1] = A \cup Concat(f[n], A, W)
        BY <1>5, <4>1
      <4>3. ASSUME NEW x \in Concat(f[n], A, W) PROVE x \in Short(R, W)
        <5>1. x \in WordsJoined(f[n], A) /\ Len(x) <= W
          BY InConcat
        <5>2. PICK y \in f[n], a \in A : x = y \o a
          BY <5>1, InJoined
        <5>3. y \in R
          BY <2>2 DEF Short
        <5>4. x \in R
          BY <1>1, <1>3, <5>2, <5>3 DEF MoreThanOnce
        <5> QED BY <5>1, <5>4 DEF Short
      <4> QED BY <2>1, <4>2, <4>3
    <3> QED BY <3>1, <3>2
  <2>3. 0 \in S /\ \A n \in S : n + 1 \in S
    BY <1>5, <2>1, <2>2
  <2>4. S \subseteq Nat
    OBVIOUS
  <2>5. \A n \in Nat : n \in S
    <3> HIDE DEF S
    <3> QED BY <2>3, <2>4, Induction
  <2> QED BY <2>5
<1>8. \A w \in R : Len(w) <= W => w \in f[W]
  BY <1>6
<1>9. Short(R, W) = f[W]
  <2>1. Short(R, W) \subseteq f[W]
    BY <1>8 DEF Short
  <2> QED BY <1>7, <2>1
<1> QED BY <1>4, <1>9 DEF A, R

(***************************************************************************)
(* The grammar is read without a choice: if a symbol derives tokens and    *)
(* more of them, it goes on at a token it may go on with.  What a spec     *)
(* means is therefore what one way of reading it means.                    *)
(***************************************************************************)
Goes(s, k, i, j) ==
  \A m \in Places(s) : Derives(s, k, i, m) /\ Derives(s, k, i, j) /\ m < j => s[m].typ \in GoesOn(k)

LEMMA GoesOnIs ==
  /\ GoesOn("item") = {"optValue"} /\ GoesOn("atom") = {"optValue", "rep"}
  /\ GoesOn("choice") = {"optValue", "rep", "choice"}
  /\ GoesOn("sequence") = {"optValue", "rep", "choice"} \cup AtomTypes
BY DEF GoesOn

LEMMA ItemGoes ==
  ASSUME NEW s, Len(s) \in Nat, NEW i \in Places(s), NEW j \in Places(s),
         j > i + 2 => Goes(s, "sequence", i + 1, j - 1)
  PROVE  Goes(s, "item", i, j)
<1> SUFFICES ASSUME NEW m \in Places(s), Derives(s, "item", i, m), Derives(s, "item", i, j), m < j
             PROVE  s[m].typ \in GoesOn("item")
  BY DEF Goes
<1>0. i \in Nat /\ j \in Nat /\ m \in Nat
  BY DEF Places
<1>1. \/ m = i + 1 /\ s[i].typ \in {"pos", "options", "shortOpt", "longOpt", "optSeq"}
      \/ m = i + 2 /\ s[i].typ \in {"shortOpt", "longOpt"} /\ s[i + 1].typ = "optValue"
      \/ m > i + 2 /\ s[i].typ = "openPar" /\ s[m - 1].typ = "closePar" /\ Derives(s, "sequence", i + 1, m - 1)
      \/ m > i + 2 /\ s[i].typ = "openSq" /\ s[m - 1].typ = "closeSq" /\ Derives(s, "sequence", i + 1, m - 1)
  BY ItemRule
<1>2. \/ j = i + 1 /\ s[i].typ \in {"pos", "options", "shortOpt", "longOpt", "optSeq"}
      \/ j = i + 2 /\ s[i].typ \in {"shortOpt", "longOpt"} /\ s[i + 1].typ = "optValue"
      \/ j > i + 2 /\ s[i].typ \in {"openPar", "openSq"} /\ Derives(s, "sequence", i + 1, j - 1)
  BY ItemRule
<1>3. CASE m <= i + 2
  <2>1. m = i + 1 /\ j = i + 2 /\ s[i + 1].typ = "optValue"
    BY <1>0, <1>1, <1>2, <1>3
  <2> QED BY <2>1, GoesOnIs
<1>4. CASE m > i + 2
  <2>1. Derives(s, "sequence", i + 1, m - 1) /\ s[m - 1].typ \in {"closePar", "closeSq"}
    BY <1>0, <1>1, <1>4
  <2>2. j > i + 2 /\ Derives(s, "sequence", i + 1, j - 1) /\ m - 1 < j - 1 /\ m - 1 \in Places(s)
    BY <1>0, <1>1, <1>2, <1>4 DEF Places
  <2>3. s[m - 1].typ \in GoesOn("sequence")
    BY <2>1, <2>2 DEF Goes
  <2> QED BY <2>1, <2>3, GoesOnIs DEF AtomTypes
<1> QED BY <1>0, <1>3, <1>4

LEMMA AtomGoes ==
  ASSUME NEW s, Len(s) \in Nat, NEW i \in Places(s), NEW j \in Places(s),
         Goes(s, "item", i, j), j > i + 1 => Goes(s, "item", i, j - 1)
  PROVE  Goes(s, "atom", i, j)
<1> SUFFICES ASSUME NEW m \in Places(s), Derives(s, "atom", i, m), Derives(s, "atom", i, j), m < j
             PROVE  s[m].typ \in GoesOn("atom")
  BY DEF Goes
<1>0. i \in Nat /\ j \in Nat /\ m \in Nat
  BY DEF Places
<1>1. \A l \in Places(s) : Derives(s, "atom", i, l) <=>
        \/ l = i + 1 /\ s[i].typ = "dblDash"
        \/ Derives(s, "item", i, l)
        \/ l > i + 1 /\ s[l - 1].typ = "rep" /\ Derives(s, "item", i, l - 1)
  BY Rules
<1>2. \A l \in Places(s) : Derives(s, "item", i, l) => s[i].typ # "dblDash" /\ l > i
  <2> TAKE l \in Places(s)
  <2> HAVE Derives(s, "item", i, l)
  <2>1. l \in Nat
    BY DEF Places
  <2>2. \/ l = i + 1 /\ s[i].typ \in {"pos", "options", "shortOpt", "longOpt", "optSeq"}
        \/ l = i + 2 /\ s[i].typ \in {"shortOpt", "longOpt"}
        \/ l > i + 2 /\ s[i].typ = "openPar"
        \/ l > i + 2 /\ s[i].typ = "openSq"
    BY ItemRule
  <2> QED BY <1>0, <2>1, <2>2
<1>3. s[i].typ # "dblDash"
  <2> SUFFICES ASSUME s[i].typ = "dblDash" PROVE FALSE
    OBVIOUS
  <2>1. ASSUME NEW l \in Places(s), Derives(s, "atom", i, l) PROVE l = i + 1
    <3>1. l > i + 1 => l - 1 \in Places(s)
      BY <1>0 DEF Places
    <3> QED BY <1>1, <1>2, <2>1, <3>1
  <2> QED BY <1>0, <2>1
<1>4. PICK a \in Places(s) : Derives(s, "item", i, a) /\ (a = m \/ (a = m - 1 /\ s[a].typ = "rep"))
  <2>1. m > i + 1 => m - 1 \in Places(s)
    BY <1>0 DEF Places
  <2>2. Derives(s, "item", i, m) \/ (m > i + 1 /\ s[m - 1].typ = "rep" /\ Derives(s, "item", i, m - 1))
    BY <1>1, <1>3
  <2> QED BY <2>1, <2>2
<1>5. PICK b \in Places(s) : Derives(s, "item", i, b) /\ (b = j \/ (b = j - 1 /\ s[b].typ = "rep" /\ j > i + 1))
  <2>1. j > i + 1 => j - 1 \in Places(s)
    BY <1>0 DEF Places
  <2>2. Derives(s, "item", i, j) \/ (j > i + 1 /\ s[j - 1].typ = "rep" /\ Derives(s, "item", i, j - 1))
    BY <1>1, <1>3
  <2> QED BY <2>1, <2>2
<1>6. a \in Nat /\ b \in Nat
  BY DEF Places
<1>7. a < b => s[a].typ = "optValue"
  <2>1. Goes(s, "item", i, b)
    BY <1>5
  <2> QED BY <1>4, <1>5, <2>1, GoesOnIs DEF Goes
<1>8. CASE a < b
  BY <1>4, <1>7, <1>8, GoesOnIs
<1>9. CASE ~(a < b)
  <2>1. a = m /\ b = m /\ b = j - 1
    BY <1>0, <1>4, <1>5, <1>6, <1>9
  <2> QED BY <1>0, <1>5, <2>1, GoesOnIs
<1> QED BY <1>8, <1>9

LEMMA ChoiceGoes ==
  ASSUME NEW s, Len(s) \in Nat, NEW i \in Places(s), NEW j \in Places(s),
         \A l \in Places(s) : l <= j => Goes(s, "atom", i, l),
         \A l \in Places(s) : i < l /\ l < j => Goes(s, "choice", l, j)
  PROVE  Goes(s, "choice", i, j)
<1> SUFFICES ASSUME NEW m \in Places(s), Derives(s, "choice", i, m), Derives(s, "choice", i, j), m < j
             PROVE  s[m].typ \in GoesOn("choice")
  BY DEF Goes
<1>0. i \in Nat /\ j \in Nat /\ m \in Nat
  BY DEF Places
<1>1. ASSUME NEW l \in Places(s), Derives(s, "choice", i, l)
      PROVE  \E e \in Places(s) : /\ Derives(s, "atom", i, e) /\ i < e /\ e <= l
                                  /\ e = l \/ (e + 1 \in Places(s) /\ e + 1 < l /\ s[e].typ = "choice" /\ Derives(s, "choice", e + 1, l))
  <2>0. l \in Nat
    BY DEF Places
  <2>1. CASE Derives(s, "atom", i, l)
    <3>1. i < l
      BY <2>1, Starts
    <3> QED BY <2>0, <2>1, <3>1
  <2>2. CASE \E e \in i + 1 .. l - 2 : s[e].typ = "choice" /\ Derives(s, "atom", i, e) /\ Derives(s, "choice", e + 1, l)
    <3>1. PICK e \in i + 1 .. l - 2 : s[e].typ = "choice" /\ Derives(s, "atom", i, e) /\ Derives(s, "choice", e + 1, l)
      BY <2>2
    <3>2. e \in Places(s) /\ e + 1 \in Places(s) /\ e + 1 < l /\ i < e /\ e <= l
      BY <1>0, <2>0 DEF Places
    <3> QED BY <3>1, <3>2
  <2> QED BY <1>1, <2>1, <2>2, Rules
<1>2. PICK e \in Places(s) : /\ Derives(s, "atom", i, e) /\ i < e /\ e <= m
                             /\ e = m \/ (e + 1 \in Places(s) /\ e + 1 < m /\ s[e].typ = "choice" /\ Derives(s, "choice", e + 1, m))
  BY <1>1
<1>3. PICK f \in Places(s) : /\ Derives(s, "atom", i, f) /\ i < f /\ f <= j
                             /\ f = j \/ (f + 1 \in Places(s) /\ f + 1 < j /\ s[f].typ = "choice" /\ Derives(s, "choice", f + 1, j))
  BY <1>1
<1>4. e \in Nat /\ f \in Nat
  BY DEF Places
<1>5. e < f => s[e].typ \in {"optValue", "rep"}
  <2>1. Goes(s, "atom", i, f)
    BY <1>3
  <2> QED BY <1>2, <1>3, <2>1, GoesOnIs DEF Goes
<1>6. f < e => s[f].typ \in {"optValue", "rep"}
  <2>1. Goes(s, "atom", i, e)
    BY <1>0, <1>2, <1>4
  <2> QED BY <1>2, <1>3, <2>1, GoesOnIs DEF Goes
<1>7. CASE e < f
  BY <1>2, <1>5, <1>7, GoesOnIs
<1>8. CASE f < e
  BY <1>0, <1>2, <1>3, <1>4, <1>6, <1>8
<1>9. CASE e = f
  <2>1. CASE e = m
    BY <1>0, <1>3, <1>9, <2>1, GoesOnIs
  <2>2. CASE e # m
    <3>1. Derives(s, "choice", e + 1, m) /\ Derives(s, "choice", e + 1, j) /\ e + 1 \in Places(s) /\ i < e + 1 /\ e + 1 < j
      BY <1>0, <1>2, <1>3, <1>4, <1>9, <2>2
    <3>2. Goes(s, "choice", e + 1, j)
      BY <3>1
    <3> QED BY <3>1, <3>2 DEF Goes
  <2> QED BY <2>1, <2>2
<1> QED BY <1>4, <1>7, <1>8, <1>9

LEMMA SequenceGoes ==
  ASSUME NEW s, Len(s) \in Nat, NEW i \in Places(s), NEW j \in Places(s),
         \A l \in Places(s) : l <= j => Goes(s, "choice", i, l),
         \A l \in Places(s) : i < l /\ l < j => Goes(s, "sequence", l, j)
  PROVE  Goes(s, "sequence", i, j)
<1> SUFFICES ASSUME NEW m \in Places(s), Derives(s, "sequence", i, m), Derives(s, "sequence", i, j), m < j
             PROVE  s[m].typ \in GoesOn("sequence")
  BY DEF Goes
<1>0. i \in Nat /\ j \in Nat /\ m \in Nat
  BY DEF Places
<1>1. ASSUME NEW l \in Places(s), Derives(s, "sequence", i, l)
      PROVE  \E e \in Places(s) : /\ Derives(s, "choice", i, e) /\ i < e /\ e <= l
                                  /\ e = l \/ (e < l /\ s[e].typ \in AtomTypes /\ Derives(s, "sequence", e, l))
  <2>0. l \in Nat
    BY DEF Places
  <2>1. CASE Derives(s, "choice", i, l)
    <3>1. i < l
      BY <2>1, Starts
    <3> QED BY <2>0, <2>1, <3>1
  <2>2. CASE \E e \in i + 1 .. l - 1 : Derives(s, "choice", i, e) /\ Derives(s, "sequence", e, l)
    <3>1. PICK e \in i + 1 .. l - 1 : Derives(s, "choice", i, e) /\ Derives(s, "sequence", e, l)
      BY <2>2
    <3>2. e \in Places(s) /\ e < l /\ i < e /\ e <= l
      BY <1>0, <2>0 DEF Places
    <3>3. s[e].typ \in AtomTypes
      BY <3>1, <3>2, Starts
    <3> QED BY <3>1, <3>2, <3>3
  <2> QED BY <1>1, <2>1, <2>2, Rules
<1>2. PICK e \in Places(s) : /\ Derives(s, "choice", i, e) /\ i < e /\ e <= m
                             /\ e = m \/ (e < m /\ s[e].typ \in AtomTypes /\ Derives(s, "sequence", e, m))
  BY <1>1
<1>3. PICK f \in Places(s) : /\ Derives(s, "choice", i, f) /\ i < f /\ f <= j
                             /\ f = j \/ (f < j /\ s[f].typ \in AtomTypes /\ Derives(s, "sequence", f, j))
  BY <1>1
<1>4. e \in Nat /\ f \in Nat
  BY DEF Places
<1>5. e < f => s[e].typ \in {"optValue", "rep", "choice"}
  <2>1. Goes(s, "choice", i, f)
    BY <1>3
  <2> QED BY <1>2, <1>3, <2>1, GoesOnIs DEF Goes
<1>6. f < e => s[f].typ \in {"optValue", "rep", "choice"}
  <2>1. Goes(s, "choice", i, e)
    BY <1>0, <1>2, <1>4
  <2> QED BY <1>2, <1>3, <2>1, GoesOnIs DEF Goes
<1>7. CASE e < f
  BY <1>2, <1>5, <1>7, GoesOnIs DEF AtomTypes
<1>8. CASE f < e
  BY <1>0, <1>2, <1>3, <1>4, <1>6, <1>8 DEF AtomTypes
<1>9. CASE e = f
  <2>1. CASE e = m
    BY <1>0, <1>3, <1>9, <2>1, GoesOnIs
  <2>2. CASE e # m
    <3>1. Derives(s, "sequence", e, m) /\ Derives(s, "sequence", e, j) /\ i < e /\ e < j
      BY <1>0, <1>2, <1>3, <1>4, <1>9, <2>2
    <3>2. Goes(s, "sequence", e, j)
      BY <3>1
    <3> QED BY <3>1, <3>2 DEF Goes
  <2> QED BY <2>1, <2>2
<1> QED BY <1>4, <1>7, <1>8, <1>9

\* No symbol derives tokens and more of them, unless a token follows that it may go on with.
THEOREM ReadOneWay ==
  ASSUME NEW s, Len(s) \in Nat
  PROVE  \A k \in {"item", "atom", "choice", "sequence"} : \A i, j \in Places(s) : Goes(s, k, i, j)
<1> DEFINE D == Spans(s)
           rank == [x \in D |-> Depth(x)]
           S == {x \in D : x[1] # "spec" => Goes(s, x[1], x[2], x[3])}
           n == Len(s) + 1
<1>0. n \in Nat /\ Places(s) = 1 .. n
  BY DEF Places
<1>1. ASSUME NEW k \in Symbols, NEW i \in Places(s), NEW j \in Places(s)
      PROVE  <<k, i, j>> \in D /\ <<k, i, j>>[1] = k /\ <<k, i, j>>[2] = i /\ <<k, i, j>>[3] = j
             /\ Depth(<<k, i, j>>) \in Nat
  BY <1>0, Depths DEF Spans, Places
<1>2. \A x \in D : x[1] \in Symbols /\ x[2] \in Places(s) /\ x[3] \in Places(s) /\ x = <<x[1], x[2], x[3]>>
  BY DEF Spans, Places
<1>3. rank \in [D -> Nat] /\ \A x \in D : rank[x] = Depth(x)
  BY <1>1, <1>2
<1>4. ASSUME NEW x \in D, \A y \in D : rank[y] < rank[x] => y \in S PROVE x \in S
  <2> DEFINE k == x[1]
             i == x[2]
             j == x[3]
  <2>1. k \in Symbols /\ i \in Places(s) /\ j \in Places(s) /\ x = <<k, i, j>>
    BY <1>2
  <2>2. i \in Nat /\ j \in Nat
    BY <1>2 DEF Places
  <2>3. ASSUME NEW h \in Symbols, h # "spec", NEW l \in Places(s), NEW m \in Places(s), Depth(<<h, l, m>>) < Depth(<<k, i, j>>)
        PROVE  Goes(s, h, l, m)
    <3>1. <<h, l, m>> \in D /\ rank[<<h, l, m>>] < rank[x]
      BY <1>1, <1>3, <2>1, <2>3
    <3>2. <<h, l, m>> \in S
      BY <1>4, <3>1
    <3> QED BY <1>1, <2>3, <3>2
  <2> HIDE DEF k, i, j
  <2>4. ASSUME NEW h \in Symbols, h # "spec", Order(h) < Order(k) PROVE Goes(s, h, i, j)
    <3>1. Depth(<<h, i, j>>) < Depth(<<k, i, j>>)
      BY <1>0, <2>1, <2>4, Depths
    <3> QED BY <2>1, <2>3, <2>4, <3>1
  <2>5. ASSUME NEW h \in Symbols, h # "spec", NEW l \in Places(s), NEW m \in Places(s),
               i <= l, l <= m, m <= j, i < l \/ m < j
        PROVE  Goes(s, h, l, m)
    <3>1. Depth(<<h, l, m>>) < Depth(<<k, i, j>>)
      BY <1>0, <2>1, <2>5, Depths
    <3> QED BY <2>3, <2>5, <3>1
  <2>6. \A h \in Symbols : \A l \in Places(s) : h # "spec" /\ ~(i < l) => Goes(s, h, i, l)
    <3> SUFFICES ASSUME NEW h \in Symbols, NEW l \in Places(s), h # "spec", ~(i < l) PROVE Goes(s, h, i, l)
      OBVIOUS
    <3>1. ~Derives(s, h, i, l)
      <4>1. h \in {"item", "atom", "choice", "sequence"}
        BY DEF Symbols
      <4> QED BY <2>1, <4>1, Starts
    <3> QED BY <3>1 DEF Goes
  <2>7. ASSUME NEW h \in Symbols, h # "spec", Order(h) < Order(k), NEW l \in Places(s), l <= j PROVE Goes(s, h, i, l)
    <3>1. l \in Nat
      BY DEF Places
    <3>2. CASE l = j
      BY <2>4, <2>7, <3>2
    <3>3. CASE l # j /\ i < l
      BY <2>1, <2>2, <2>5, <2>7, <3>1, <3>3
    <3>4. CASE ~(i < l)
      BY <2>6, <2>7, <3>4
    <3> QED BY <3>2, <3>3, <3>4
  <2>8. CASE k = "item"
    <3>1. j > i + 2 => i + 1 \in Places(s) /\ j - 1 \in Places(s) /\ i <= i + 1 /\ i + 1 <= j - 1 /\ j - 1 <= j /\ i < i + 1
      BY <2>1, <2>2 DEF Places
    <3>2. j > i + 2 => Goes(s, "sequence", i + 1, j - 1)
      BY <2>5, <3>1 DEF Symbols
    <3> QED BY <2>1, <2>8, <3>2, ItemGoes
  <2>9. CASE k = "atom"
    <3>1. "item" \in Symbols /\ "item" # "spec" /\ Order("item") < Order(k) /\ j <= j
      BY <2>2, <2>9 DEF Symbols, Order
    <3>2. j > i + 1 => j - 1 \in Places(s) /\ j - 1 <= j
      BY <2>1, <2>2 DEF Places
    <3>3. Goes(s, "item", i, j) /\ (j > i + 1 => Goes(s, "item", i, j - 1))
      BY <2>1, <2>7, <3>1, <3>2
    <3> QED BY <2>1, <2>9, <3>3, AtomGoes
  <2>10. CASE k = "choice"
    <3>1. "atom" \in Symbols /\ "atom" # "spec" /\ Order("atom") < Order(k) /\ "choice" \in Symbols /\ "choice" # "spec"
      BY <2>10 DEF Symbols, Order
    <3>2. \A l \in Places(s) : l <= j => Goes(s, "atom", i, l)
      BY <2>7, <3>1
    <3>3. ASSUME NEW l \in Places(s), i < l, l < j PROVE Goes(s, "choice", l, j)
      <4>1. l \in Nat /\ i <= l /\ l <= j /\ j <= j
        BY <2>2, <3>3 DEF Places
      <4> QED BY <2>1, <2>5, <3>1, <3>3, <4>1
    <3> QED BY <2>1, <2>10, <3>2, <3>3, ChoiceGoes
  <2>11. CASE k = "sequence"
    <3>1. "choice" \in Symbols /\ "choice" # "spec" /\ Order("choice") < Order(k) /\ "sequence" \in Symbols /\ "sequence" # "spec"
      BY <2>11 DEF Symbols, Order
    <3>2. \A l \in Places(s) : l <= j => Goes(s, "choice", i, l)
      BY <2>7, <3>1
    <3>3. ASSUME NEW l \in Places(s), i < l, l < j PROVE Goes(s, "sequence", l, j)
      <4>1. l \in Nat /\ i <= l /\ l <= j /\ j <= j
        BY <2>2, <3>3 DEF Places
      <4> QED BY <2>1, <2>5, <3>1, <3>3, <4>1
    <3> QED BY <2>1, <2>11, <3>2, <3>3, SequenceGoes
  <2>12. k # "spec" => Goes(s, k, i, j)
    BY <2>1, <2>8, <2>9, <2>10, <2>11 DEF Symbols
  <2> QED BY <2>12 DEF k, i, j
<1> HIDE DEF D, rank, S
<1>5. D \subseteq S
  BY <1>3, <1>4, RankInduction
<1>6. ASSUME NEW k \in {"item", "atom", "choice", "sequence"}, NEW i \in Places(s), NEW j \in Places(s) PROVE Goes(s, k, i, j)
  <2>1. k \in Symbols /\ k # "spec"
    BY DEF Symbols
  <2>2. <<k, i, j>> \in S
    BY <1>1, <1>5, <2>1
  <2> QED BY <1>1, <2>1, <2>2 DEF S
<1> QED BY <1>6

(***************************************************************************)
(* What a spec means, symbol by symbol.                                    *)
(***************************************************************************)
\* The matchers that a token stands for are among L.
Labels(L, os, s) ==
  /\ OptsEnd \in L
  /\ \A i \in 1 .. Len(s) :
       /\ s[i].typ = "pos" => ArgMatcher(s[i].val) \in L
       /\ s[i].typ = "options" => OptsMatcher(os, i) \in L
       /\ s[i].typ = "optSeq" => OptsMatcher(s[i].val, i) \in L
       /\ s[i].typ \in {"shortOpt", "longOpt"} => OptMatcher(s[i].val, i) \in L

IsMeant(f, os, s, W) ==
  f = [x \in Spans(s) |-> IF Derives(s, x[1], x[2], x[3]) THEN Meaning(os, s, W, x[1], x[2], x[3], f) ELSE {}]

LEMMA ConcatWords ==
  ASSUME NEW L, NEW U \in SUBSET Seq(L), NEW V \in SUBSET Seq(L), NEW W
  PROVE  Concat(U, V, W) \in SUBSET Seq(L)
<1>1. WordsJoined(U, V) \in SUBSET Seq(L)
  BY JoinedWords
<1> QED BY <1>1, InConcat

LEMMA RepeatedWords ==
  ASSUME NEW L, NEW U \in SUBSET Seq(L), NEW W \in Nat
  PROVE  Repeated(U, W) \in SUBSET Seq(L)
BY UpToIs

\* The tokens of an item and of a `--` or a repetition.
LEMMA ItemToken ==
  ASSUME NEW s, Len(s) \in Nat, NEW i \in Places(s), NEW j \in Places(s), Derives(s, "item", i, j)
  PROVE  /\ i \in 1 .. Len(s) /\ i < j /\ s[i].typ # "dblDash" /\ s[j - 1].typ # "rep"
         /\ s[i].typ \in {"pos", "options", "shortOpt", "longOpt", "optSeq", "openPar", "openSq"}
         /\ s[i].typ \in {"openPar", "openSq"} => /\ i + 1 \in Places(s) /\ j - 1 \in Places(s) /\ i + 1 < j - 1
                                                  /\ Derives(s, "sequence", i + 1, j - 1)
<1>0. i \in Nat /\ j \in Nat /\ j <= Len(s) + 1 /\ 1 <= i
  BY DEF Places
<1>1. \/ j = i + 1 /\ s[i].typ \in {"pos", "options", "shortOpt", "longOpt", "optSeq"}
      \/ j = i + 2 /\ s[i].typ \in {"shortOpt", "longOpt"} /\ s[i + 1].typ = "optValue"
      \/ j > i + 2 /\ s[i].typ = "openPar" /\ s[j - 1].typ = "closePar" /\ Derives(s, "sequence", i + 1, j - 1)
      \/ j > i + 2 /\ s[i].typ = "openSq" /\ s[j - 1].typ = "closeSq" /\ Derives(s, "sequence", i + 1, j - 1)
  BY ItemRule
<1>2. i < j /\ i \in 1 .. Len(s)
  BY <1>0, <1>1
<1>3. s[j - 1].typ # "rep"
  <2>1. (j = i + 1 => j - 1 = i) /\ (j = i + 2 => j - 1 = i + 1)
    BY <1>0
  <2> QED BY <1>1, <2>1
<1>4. s[i].typ \in {"openPar", "openSq"} => j > i + 2 /\ Derives(s, "sequence", i + 1, j - 1)
  BY <1>1
<1>5. s[i].typ \in {"openPar", "openSq"} => i + 1 \in Places(s) /\ j - 1 \in Places(s) /\ i + 1 < j - 1
  BY <1>0, <1>4 DEF Places
<1> QED BY <1>1, <1>2, <1>3, <1>4, <1>5

LEMMA AtomToken ==
  ASSUME NEW s, Len(s) \in Nat, NEW i \in Places(s), NEW j \in Places(s), Derives(s, "atom", i, j)
  PROVE  /\ s[i].typ # "dblDash" /\ s[j - 1].typ = "rep" => j - 1 \in Places(s) /\ i < j - 1 /\ Derives(s, "item", i, j - 1)
         /\ s[i].typ # "dblDash" /\ s[j - 1].typ # "rep" => Derives(s, "item", i, j)
         /\ s[i].typ = "dblDash" => j = i + 1
<1>0. i \in Nat /\ j \in Nat /\ j <= Len(s) + 1 /\ 1 <= i
  BY DEF Places
<1>1. \/ j = i + 1 /\ s[i].typ = "dblDash"
      \/ Derives(s, "item", i, j)
      \/ j > i + 1 /\ s[j - 1].typ = "rep" /\ Derives(s, "item", i, j - 1)
  BY Rules
<1>2. Derives(s, "item", i, j) => s[i].typ # "dblDash" /\ s[j - 1].typ # "rep"
  BY ItemToken
<1>3. j > i + 1 => j - 1 \in Places(s) /\ i < j - 1
  BY <1>0 DEF Places
<1>4. j > i + 1 /\ Derives(s, "item", i, j - 1) => s[i].typ # "dblDash"
  BY <1>3, ItemToken
<1> QED BY <1>1, <1>2, <1>3, <1>4

LEMMA MeaningIs ==
  ASSUME NEW L, NEW os, NEW s, Len(s) \in Nat, Labels(L, os, s), NEW W \in Nat,
         NEW k \in Symbols, NEW i \in Places(s), NEW j \in Places(s), Derives(s, k, i, j),
         NEW h \in [Spans(s) -> SUBSET Seq(L)]
  PROVE  Meaning(os, s, W, k, i, j, h) \in SUBSET Seq(L)
<1>0. i \in Nat /\ j \in Nat
  BY DEF Places
<1>1. \A y \in Symbols : \A l \in Places(s), m \in Places(s) : h[<<y, l, m>>] \in SUBSET Seq(L)
  BY DEF Spans, Places
<1>2. CASE k = "spec"
  <2>1. h[<<"sequence", i, j>>] \in SUBSET Seq(L)
    BY <1>1 DEF Symbols
  <2> QED BY <1>2, <2>1, EmptySeq DEF Meaning
<1>3. CASE k = "sequence"
  <2>1. h[<<"choice", i, j>>] \in SUBSET Seq(L)
    BY <1>1 DEF Symbols
  <2>2. ASSUME NEW m \in i + 1 .. j - 1 PROVE Concat(h[<<"choice", i, m>>], h[<<"sequence", m, j>>], W) \in SUBSET Seq(L)
    <3>1. m \in Places(s)
      BY <1>0 DEF Places
    <3>2. h[<<"choice", i, m>>] \in SUBSET Seq(L) /\ h[<<"sequence", m, j>>] \in SUBSET Seq(L)
      BY <1>1, <3>1 DEF Symbols
    <3> QED BY <3>2, ConcatWords
  <2> QED BY <1>3, <2>1, <2>2 DEF Meaning
<1>4. CASE k = "choice"
  <2>1. h[<<"atom", i, j>>] \in SUBSET Seq(L)
    BY <1>1 DEF Symbols
  <2>2. ASSUME NEW m \in i + 1 .. j - 2 PROVE h[<<"atom", i, m>>] \cup h[<<"choice", m + 1, j>>] \in SUBSET Seq(L)
    <3>1. m \in Places(s) /\ m + 1 \in Places(s)
      BY <1>0 DEF Places
    <3>2. h[<<"atom", i, m>>] \in SUBSET Seq(L) /\ h[<<"choice", m + 1, j>>] \in SUBSET Seq(L)
      BY <1>1, <3>1 DEF Symbols
    <3> QED BY <3>2
  <2> QED BY <1>4, <2>1, <2>2 DEF Meaning
<1>5. CASE k = "atom"
  <2>1. s[i].typ # "dblDash" /\ s[j - 1].typ = "rep" => Repeated(h[<<"item", i, j - 1>>], W) \in SUBSET Seq(L)
    <3> SUFFICES ASSUME s[i].typ # "dblDash", s[j - 1].typ = "rep" PROVE Repeated(h[<<"item", i, j - 1>>], W) \in SUBSET Seq(L)
      OBVIOUS
    <3>1. j - 1 \in Places(s)
      BY <1>5, AtomToken
    <3>2. h[<<"item", i, j - 1>>] \in SUBSET Seq(L)
      BY <1>1, <3>1 DEF Symbols
    <3> QED BY <3>2, RepeatedWords
  <2>2. h[<<"item", i, j>>] \in SUBSET Seq(L)
    BY <1>1 DEF Symbols
  <2>3. {<<OptsEnd>>} \in SUBSET Seq(L)
    BY DEF Labels
  <2> QED BY <1>5, <2>1, <2>2, <2>3 DEF Meaning
<1>6. CASE k = "item"
  <2>1. i \in 1 .. Len(s) /\ s[i].typ \in {"pos", "options", "shortOpt", "longOpt", "optSeq", "openPar", "openSq"}
    BY <1>6, ItemToken
  <2>2. s[i].typ \in {"openPar", "openSq"} => h[<<"sequence", i + 1, j - 1>>] \in SUBSET Seq(L)
    <3>1. s[i].typ \in {"openPar", "openSq"} => i + 1 \in Places(s) /\ j - 1 \in Places(s)
      BY <1>6, ItemToken
    <3> QED BY <1>1, <3>1 DEF Symbols
  <2>3. /\ s[i].typ = "pos" => {<<ArgMatcher(s[i].val)>>} \in SUBSET Seq(L)
        /\ s[i].typ = "options" => {<<OptsMatcher(os, i)>>} \in SUBSET Seq(L)
        /\ s[i].typ = "optSeq" => {<<OptsMatcher(s[i].val, i)>>} \in SUBSET Seq(L)
        /\ s[i].typ \in {"shortOpt", "longOpt"} => {<<OptMatcher(s[i].val, i)>>} \in SUBSET Seq(L)
    BY <2>1 DEF Labels
  <2>4. {<<>>} \in SUBSET Seq(L)
    BY EmptySeq
  <2> QED BY <1>6, <2>1, <2>2, <2>3, <2>4 DEF Meaning
<1> QED BY <1>2, <1>3, <1>4, <1>5, <1>6 DEF Symbols

LEMMA MeaningBelow ==
  ASSUME NEW os, NEW s, Len(s) \in Nat, NEW W,
         NEW k \in Symbols, NEW i \in Places(s), NEW j \in Places(s), Derives(s, k, i, j),
         NEW d, NEW e, \A y \in Spans(s) : Depth(y) < Depth(<<k, i, j>>) => d[y] = e[y]
  PROVE  Meaning(os, s, W, k, i, j, d) = Meaning(os, s, W, k, i, j, e)
<1> DEFINE n == Len(s) + 1
<1>0. n \in Nat /\ i \in 1 .. n /\ j \in 1 .. n /\ i \in Nat /\ j \in Nat /\ Places(s) = 1 .. n
  BY DEF Places
<1>1. ASSUME NEW h \in Symbols, Order(h) < Order(k) PROVE d[<<h, i, j>>] = e[<<h, i, j>>]
  BY <1>0, <1>1, Depths DEF Spans
<1>2. ASSUME NEW h \in Symbols, NEW l \in 1 .. n, NEW m \in 1 .. n, i <= l, l <= m, m <= j, i < l \/ m < j
      PROVE  d[<<h, l, m>>] = e[<<h, l, m>>]
  BY <1>0, <1>2, Depths DEF Spans
<1>3. CASE k = "spec"
  <2>1. d[<<"sequence", i, j>>] = e[<<"sequence", i, j>>]
    BY <1>1, <1>3 DEF Order, Symbols
  <2> QED BY <1>3, <2>1 DEF Meaning
<1>4. CASE k = "sequence"
  <2>1. d[<<"choice", i, j>>] = e[<<"choice", i, j>>]
    BY <1>1, <1>4 DEF Order, Symbols
  <2>2. \A m \in i + 1 .. j - 1 : /\ d[<<"choice", i, m>>] = e[<<"choice", i, m>>]
                                  /\ d[<<"sequence", m, j>>] = e[<<"sequence", m, j>>]
    BY <1>0, <1>2 DEF Symbols
  <2> QED BY <1>4, <2>1, <2>2 DEF Meaning
<1>5. CASE k = "choice"
  <2>1. d[<<"atom", i, j>>] = e[<<"atom", i, j>>]
    BY <1>1, <1>5 DEF Order, Symbols
  <2> DEFINE Splits == {m \in i + 1 .. j - 2 : s[m].typ = "choice" /\ Derives(s, "atom", i, m) /\ Derives(s, "choice", m + 1, j)}
  <2>2. \A m \in Splits : /\ d[<<"atom", i, m>>] = e[<<"atom", i, m>>]
                          /\ d[<<"choice", m + 1, j>>] = e[<<"choice", m + 1, j>>]
    BY <1>0, <1>2 DEF Symbols
  <2>3. ASSUME NEW h
        PROVE  Meaning(os, s, W, "choice", i, j, h) =
                 h[<<"atom", i, j>>] \cup UNION {h[<<"atom", i, m>>] \cup h[<<"choice", m + 1, j>>] : m \in Splits}
    BY DEF Meaning
  <2>4. {d[<<"atom", i, m>>] \cup d[<<"choice", m + 1, j>>] : m \in Splits}
          = {e[<<"atom", i, m>>] \cup e[<<"choice", m + 1, j>>] : m \in Splits}
    <3> HIDE DEF Splits
    <3> QED BY <2>2
  <2> HIDE DEF Splits
  <2> QED BY <1>5, <2>1, <2>3, <2>4
<1>6. CASE k = "atom"
  <2>1. d[<<"item", i, j>>] = e[<<"item", i, j>>]
    BY <1>1, <1>6 DEF Order, Symbols
  <2>2. s[i].typ # "dblDash" /\ s[j - 1].typ = "rep" => d[<<"item", i, j - 1>>] = e[<<"item", i, j - 1>>]
    <3>1. s[i].typ # "dblDash" /\ s[j - 1].typ = "rep" => j - 1 \in 1 .. n /\ i <= j - 1 /\ j - 1 <= j /\ j - 1 < j
      BY <1>0, <1>6, AtomToken
    <3> QED BY <1>0, <1>2, <3>1 DEF Symbols
  <2>3. ASSUME NEW h
        PROVE  Meaning(os, s, W, "atom", i, j, h) = IF s[i].typ = "dblDash" THEN {<<OptsEnd>>}
                                                    ELSE IF s[j - 1].typ = "rep" THEN Repeated(h[<<"item", i, j - 1>>], W)
                                                    ELSE h[<<"item", i, j>>]
    BY DEF Meaning
  <2> QED BY <1>6, <2>1, <2>2, <2>3
<1>7. CASE k = "item"
  <2>1. s[i].typ \in {"openPar", "openSq"} => d[<<"sequence", i + 1, j - 1>>] = e[<<"sequence", i + 1, j - 1>>]
    <3>1. s[i].typ \in {"openPar", "openSq"} =>
            i + 1 \in 1 .. n /\ j - 1 \in 1 .. n /\ i <= i + 1 /\ i + 1 <= j - 1 /\ j - 1 <= j /\ i < i + 1
      BY <1>0, <1>7, ItemToken
    <3> QED BY <1>0, <1>2, <3>1 DEF Symbols
  <2>2. s[i].typ \in {"pos", "options", "shortOpt", "longOpt", "optSeq", "openPar", "openSq"}
    BY <1>7, ItemToken
  <2> QED BY <1>7, <2>1, <2>2 DEF Meaning
<1> QED BY <1>3, <1>4, <1>5, <1>6, <1>7 DEF Symbols

LEMMA MeansIs ==
  ASSUME NEW L, NEW os, NEW s, Len(s) \in Nat, Labels(L, os, s), NEW W \in Nat
  PROVE  \E f : /\ IsMeant(f, os, s, W)
                /\ \A k \in Symbols : \A i, j \in Places(s) : Means(os, s, W, k, i, j) = f[<<k, i, j>>]
<1> DEFINE D == Spans(s)
           V == SUBSET Seq(L)
           F(x, h) == IF Derives(s, x[1], x[2], x[3]) THEN Meaning(os, s, W, x[1], x[2], x[3], h) ELSE {}
           G == [y \in D \X [D -> V] |-> F(y[1], y[2])]
           rank == [x \in D |-> Depth(x)]
<1>1. \A x \in D : x = <<x[1], x[2], x[3]>> /\ x[1] \in Symbols /\ x[2] \in Places(s) /\ x[3] \in Places(s)
  BY DEF Spans, Places
<1>2. \A x \in D : Depth(x) \in Nat
  BY <1>1, Depths DEF Places
<1>3. \A x \in D, h \in [D -> V] : G[<<x, h>>] = F(x, h)
  OBVIOUS
<1>4. \A x \in D, h \in [D -> V] : F(x, h) \in V
  BY <1>1, MeaningIs
<1>5. ASSUME NEW x \in D, NEW h \in [D -> V], NEW g \in [D -> V], \A y \in D : rank[y] < rank[x] => h[y] = g[y]
      PROVE  G[<<x, h>>] = G[<<x, g>>]
  <2>1. \A y \in D : Depth(y) < Depth(x) => h[y] = g[y]
    BY <1>5
  <2>2. F(x, h) = F(x, g)
    BY <1>1, <2>1, MeaningBelow
  <2> QED BY <1>3, <2>2
<1>6. G \in [D \X [D -> V] -> V]
  <2> SUFFICES ASSUME NEW x \in D, NEW h \in [D -> V] PROVE F(x, h) \in V
    OBVIOUS
  <2> QED BY <1>4
<1>7. rank \in [D -> Nat] /\ V # {}
  BY <1>2
<1>8. Ranked(D, V, rank, G)
  <2> HIDE DEF D, V, F, G, rank
  <2> QED BY <1>5, <1>6, <1>7 DEF Ranked
<1>9. PICK g : Computed(g, D, V, G)
  <2> HIDE DEF D, V, F, G, rank
  <2> QED BY <1>8, Recursion
<1>10. IsMeant(g, os, s, W)
  BY <1>3, <1>9 DEF Computed, IsMeant
<1> DEFINE f == CHOOSE h : IsMeant(h, os, s, W)
<1>11. IsMeant(f, os, s, W)
  BY <1>10
<1>12. \A k \in Symbols : \A i, j \in Places(s) : Means(os, s, W, k, i, j) = f[<<k, i, j>>]
  BY DEF Means, IsMeant
<1> QED BY <1>11, <1>12

\* The meaning of a symbol, by that of the parts it was read in.
ByParts(f, os, s, W, k, i, j) ==
  /\ Derives(s, k, i, j) => Means(os, s, W, k, i, j) = Meaning(os, s, W, k, i, j, f)
  /\ \A h \in Symbols : \A l, m \in Places(s) :
       f[<<h, l, m>>] = Means(os, s, W, h, l, m) /\ (~Derives(s, h, l, m) => f[<<h, l, m>>] = {})

LEMMA Meanings ==
  ASSUME NEW L, NEW os, NEW s, Len(s) \in Nat, Labels(L, os, s), NEW W \in Nat,
         NEW k \in Symbols, NEW i \in Places(s), NEW j \in Places(s)
  PROVE  \E f : ByParts(f, os, s, W, k, i, j)
<1>1. PICK f : /\ IsMeant(f, os, s, W)
               /\ \A h \in Symbols : \A l, m \in Places(s) : Means(os, s, W, h, l, m) = f[<<h, l, m>>]
  BY MeansIs
<1>2. ASSUME NEW h \in Symbols, NEW l \in Places(s), NEW m \in Places(s)
      PROVE  f[<<h, l, m>>] = IF Derives(s, h, l, m) THEN Meaning(os, s, W, h, l, m, f) ELSE {}
  <2>1. <<h, l, m>> \in Spans(s)
    BY DEF Spans, Places
  <2> QED BY <1>1, <2>1 DEF IsMeant
<1>3. ByParts(f, os, s, W, k, i, j)
  BY <1>1, <1>2 DEF ByParts
<1> QED BY <1>3

LEMMA MeansSequence ==
  ASSUME NEW L, NEW os, NEW s, Len(s) \in Nat, Labels(L, os, s), NEW W \in Nat, NEW i \in Places(s), NEW j \in Places(s)
  PROVE  /\ Derives(s, "choice", i, j) => Means(os, s, W, "sequence", i, j) = Means(os, s, W, "choice", i, j)
         /\ \A m \in Places(s) : Derives(s, "choice", i, m) /\ Derives(s, "sequence", m, j) =>
              Means(os, s, W, "sequence", i, j) = Concat(Means(os, s, W, "choice", i, m), Means(os, s, W, "sequence", m, j), W)
<1>0. i \in Nat /\ j \in Nat /\ \A m \in Places(s) : m \in Nat
  BY DEF Places
<1>a. "sequence" \in Symbols
  BY DEF Symbols
<1>b. PICK f : ByParts(f, os, s, W, "sequence", i, j)
  BY <1>a, Meanings
<1>1. /\ Derives(s, "sequence", i, j) => Means(os, s, W, "sequence", i, j) = Meaning(os, s, W, "sequence", i, j, f)
      /\ \A h \in Symbols : \A l, m \in Places(s) :
           f[<<h, l, m>>] = Means(os, s, W, h, l, m) /\ (~Derives(s, h, l, m) => f[<<h, l, m>>] = {})
  BY <1>b DEF ByParts
<1>2. \A l, m \in Places(s) : /\ f[<<"choice", l, m>>] = Means(os, s, W, "choice", l, m)
                              /\ f[<<"sequence", l, m>>] = Means(os, s, W, "sequence", l, m)
                              /\ ~Derives(s, "choice", l, m) => f[<<"choice", l, m>>] = {}
                              /\ ~Derives(s, "sequence", l, m) => f[<<"sequence", l, m>>] = {}
  BY <1>1 DEF Symbols
<1> DEFINE Split(m) == Derives(s, "choice", i, m) /\ Derives(s, "sequence", m, j)
           Part(m) == Concat(f[<<"choice", i, m>>], f[<<"sequence", m, j>>], W)
<1>3. ASSUME Derives(s, "sequence", i, j)
      PROVE  Means(os, s, W, "sequence", i, j) = f[<<"choice", i, j>>] \cup UNION {Part(m) : m \in i + 1 .. j - 1}
  BY <1>1, <1>3 DEF Meaning
<1>4. \A m \in i + 1 .. j - 1 : m \in Places(s)
  BY <1>0 DEF Places
<1>5. \A m \in i + 1 .. j - 1 : ~Split(m) => Part(m) = {}
  <2> SUFFICES ASSUME NEW m \in i + 1 .. j - 1, ~Split(m) PROVE Part(m) = {}
    OBVIOUS
  <2>1. f[<<"choice", i, m>>] = {} \/ f[<<"sequence", m, j>>] = {}
    BY <1>2, <1>4
  <2> DEFINE A == f[<<"choice", i, m>>]
             B == f[<<"sequence", m, j>>]
  <2> HIDE DEF A, B
  <2>2. A = {} \/ B = {} => Concat(A, B, W) = {}
    BY DEF Concat
  <2> QED BY <2>1, <2>2 DEF A, B
<1>6. ASSUME NEW m \in Places(s), Split(m) PROVE i < m /\ m < j /\ s[m].typ \in AtomTypes
  BY <1>6, Starts
<1>7. \A l, m \in Places(s) : Derives(s, "choice", i, l) /\ Derives(s, "choice", i, m) /\ l < m => s[l].typ \notin AtomTypes
  <2> SUFFICES ASSUME NEW l \in Places(s), NEW m \in Places(s), Derives(s, "choice", i, l), Derives(s, "choice", i, m), l < m
               PROVE  s[l].typ \notin AtomTypes
    OBVIOUS
  <2>1. Goes(s, "choice", i, m)
    BY ReadOneWay
  <2>2. s[l].typ \in GoesOn("choice")
    BY <2>1 DEF Goes
  <2> QED BY <2>2, GoesOnIs DEF AtomTypes
<1>8. ASSUME Derives(s, "choice", i, j) PROVE Means(os, s, W, "sequence", i, j) = f[<<"choice", i, j>>]
  <2>1. Derives(s, "sequence", i, j)
    BY <1>8, Rules
  <2>2. \A m \in i + 1 .. j - 1 : ~Split(m)
    BY <1>4, <1>6, <1>7, <1>8
  <2>3. \A m \in i + 1 .. j - 1 : Part(m) = {}
    BY <1>5, <2>2
  <2> HIDE DEF Part, Split
  <2> QED BY <1>3, <2>1, <2>3
<1>9. ASSUME NEW m \in Places(s), Split(m) PROVE Means(os, s, W, "sequence", i, j) = Part(m)
  <2>1. i < m /\ m < j /\ m \in i + 1 .. j - 1 /\ s[m].typ \in AtomTypes
    BY <1>0, <1>6, <1>9
  <2>2. Derives(s, "sequence", i, j)
    BY <1>9, <2>1, Rules
  <2>3. ~Derives(s, "choice", i, j)
    BY <1>7, <1>9, <2>1
  <2>4. \A l \in i + 1 .. j - 1 : l # m => ~Split(l)
    <3> SUFFICES ASSUME NEW l \in i + 1 .. j - 1, l # m, Split(l) PROVE FALSE
      OBVIOUS
    <3>1. l \in Places(s) /\ l \in Nat /\ m \in Nat
      BY <1>0, <1>4
    <3>2. l < m \/ m < l
      BY <3>1
    <3> QED BY <1>6, <1>7, <1>9, <3>1, <3>2
  <2>5. f[<<"choice", i, j>>] = {} /\ \A l \in i + 1 .. j - 1 : l # m => Part(l) = {}
    BY <1>2, <1>5, <2>3, <2>4
  <2> HIDE DEF Part, Split
  <2> QED BY <1>3, <2>1, <2>2, <2>5
<1> QED BY <1>2, <1>8, <1>9

LEMMA MeansChoice ==
  ASSUME NEW L, NEW os, NEW s, Len(s) \in Nat, Labels(L, os, s), NEW W \in Nat, NEW i \in Places(s), NEW j \in Places(s)
  PROVE  /\ Derives(s, "atom", i, j) => Means(os, s, W, "choice", i, j) = Means(os, s, W, "atom", i, j)
         /\ \A m \in Places(s) :
              Derives(s, "atom", i, m) /\ m + 1 \in Places(s) /\ s[m].typ = "choice" /\ Derives(s, "choice", m + 1, j) =>
                Means(os, s, W, "choice", i, j) = Means(os, s, W, "atom", i, m) \cup Means(os, s, W, "choice", m + 1, j)
<1>0. i \in Nat /\ j \in Nat /\ \A m \in Places(s) : m \in Nat
  BY DEF Places
<1>a. "choice" \in Symbols
  BY DEF Symbols
<1>b. PICK f : ByParts(f, os, s, W, "choice", i, j)
  BY <1>a, Meanings
<1>1. /\ Derives(s, "choice", i, j) => Means(os, s, W, "choice", i, j) = Meaning(os, s, W, "choice", i, j, f)
      /\ \A h \in Symbols : \A l, m \in Places(s) :
           f[<<h, l, m>>] = Means(os, s, W, h, l, m) /\ (~Derives(s, h, l, m) => f[<<h, l, m>>] = {})
  BY <1>b DEF ByParts
<1>2. \A l, m \in Places(s) : /\ f[<<"choice", l, m>>] = Means(os, s, W, "choice", l, m)
                              /\ f[<<"atom", l, m>>] = Means(os, s, W, "atom", l, m)
                              /\ ~Derives(s, "atom", l, m) => f[<<"atom", l, m>>] = {}
  BY <1>1 DEF Symbols
<1> DEFINE Split(m) == s[m].typ = "choice" /\ Derives(s, "atom", i, m) /\ Derives(s, "choice", m + 1, j)
           Part(m) == f[<<"atom", i, m>>] \cup f[<<"choice", m + 1, j>>]
           Splits == {m \in i + 1 .. j - 2 : Split(m)}
<1>3. ASSUME Derives(s, "choice", i, j)
      PROVE  Means(os, s, W, "choice", i, j) = f[<<"atom", i, j>>] \cup UNION {Part(m) : m \in Splits}
  BY <1>1, <1>3 DEF Meaning
<1>4. \A m \in i + 1 .. j - 2 : m \in Places(s)
  BY <1>0 DEF Places
<1>5. \A l, m \in Places(s) : Derives(s, "atom", i, l) /\ Derives(s, "atom", i, m) /\ l < m => s[l].typ # "choice"
  <2> SUFFICES ASSUME NEW l \in Places(s), NEW m \in Places(s), Derives(s, "atom", i, l), Derives(s, "atom", i, m), l < m
               PROVE  s[l].typ # "choice"
    OBVIOUS
  <2>1. Goes(s, "atom", i, m)
    BY ReadOneWay
  <2>2. s[l].typ \in GoesOn("atom")
    BY <2>1 DEF Goes
  <2> QED BY <2>2, GoesOnIs
<1>6. ASSUME Derives(s, "atom", i, j) PROVE Means(os, s, W, "choice", i, j) = f[<<"atom", i, j>>]
  <2>1. Derives(s, "choice", i, j)
    BY <1>6, Rules
  <2>2. \A m \in i + 1 .. j - 2 : ~Split(m)
    <3> SUFFICES ASSUME NEW m \in i + 1 .. j - 2, Split(m) PROVE FALSE
      OBVIOUS
    <3>1. m < j /\ m \in Places(s)
      BY <1>0, <1>4
    <3> QED BY <1>5, <1>6, <3>1
  <2>3. Splits = {}
    BY <2>2
  <2> HIDE DEF Part, Split, Splits
  <2> QED BY <1>3, <2>1, <2>3
<1>7. ASSUME NEW m \in Places(s), m + 1 \in Places(s), Split(m) PROVE Means(os, s, W, "choice", i, j) = Part(m)
  <2>1. i < m /\ m + 1 < j
    BY <1>7, Starts
  <2>2. m \in i + 1 .. j - 2 /\ m < j
    BY <1>0, <2>1
  <2>3. Derives(s, "choice", i, j)
    BY <1>7, <2>2, Rules
  <2>4. f[<<"atom", i, j>>] = {}
    BY <1>2, <1>5, <1>7, <2>2
  <2>5. Splits = {m}
    <3>1. ASSUME NEW l \in i + 1 .. j - 2, Split(l) PROVE l = m
      <4>1. l \in Places(s) /\ l \in Nat /\ m \in Nat
        BY <1>0, <1>4
      <4>2. ~(l < m) /\ ~(m < l)
        BY <1>5, <1>7, <3>1, <4>1
      <4> QED BY <4>1, <4>2
    <3> QED BY <1>7, <2>2, <3>1
  <2> HIDE DEF Part, Split, Splits
  <2> QED BY <1>3, <2>3, <2>4, <2>5
<1> QED BY <1>2, <1>6, <1>7

LEMMA MeansAtom ==
  ASSUME NEW L, NEW os, NEW s, Len(s) \in Nat, Labels(L, os, s), NEW W \in Nat, NEW i \in Places(s), NEW j \in Places(s),
         Derives(s, "atom", i, j)
  PROVE  Means(os, s, W, "atom", i, j) =
           IF s[i].typ = "dblDash" THEN {<<OptsEnd>>}
           ELSE IF s[j - 1].typ = "rep" THEN Repeated(Means(os, s, W, "item", i, j - 1), W)
           ELSE Means(os, s, W, "item", i, j)
<1>a. "atom" \in Symbols
  BY DEF Symbols
<1>b. PICK f : ByParts(f, os, s, W, "atom", i, j)
  BY <1>a, Meanings
<1>1. /\ Derives(s, "atom", i, j) => Means(os, s, W, "atom", i, j) = Meaning(os, s, W, "atom", i, j, f)
      /\ \A h \in Symbols : \A l, m \in Places(s) :
           f[<<h, l, m>>] = Means(os, s, W, h, l, m) /\ (~Derives(s, h, l, m) => f[<<h, l, m>>] = {})
  BY <1>b DEF ByParts
<1>2. Means(os, s, W, "atom", i, j) = IF s[i].typ = "dblDash" THEN {<<OptsEnd>>}
                                      ELSE IF s[j - 1].typ = "rep" THEN Repeated(f[<<"item", i, j - 1>>], W)
                                      ELSE f[<<"item", i, j>>]
  BY <1>1 DEF Meaning
<1>3. f[<<"item", i, j>>] = Means(os, s, W, "item", i, j)
  BY <1>1 DEF Symbols
<1>4. s[i].typ # "dblDash" /\ s[j - 1].typ = "rep" => f[<<"item", i, j - 1>>] = Means(os, s, W, "item", i, j - 1)
  BY <1>1, AtomToken DEF Symbols
<1> QED BY <1>2, <1>3, <1>4

LEMMA MeansItem ==
  ASSUME NEW L, NEW os, NEW s, Len(s) \in Nat, Labels(L, os, s), NEW W \in Nat, NEW i \in Places(s), NEW j \in Places(s),
         Derives(s, "item", i, j)
  PROVE  /\ s[i].typ = "pos" => Means(os, s, W, "item", i, j) = {<<ArgMatcher(s[i].val)>>}
         /\ s[i].typ = "options" => Means(os, s, W, "item", i, j) = {<<OptsMatcher(os, i)>>}
         /\ s[i].typ = "optSeq" => Means(os, s, W, "item", i, j) = {<<OptsMatcher(s[i].val, i)>>}
         /\ s[i].typ \in {"shortOpt", "longOpt"} => Means(os, s, W, "item", i, j) = {<<OptMatcher(s[i].val, i)>>}
         /\ s[i].typ = "openPar" => Means(os, s, W, "item", i, j) = Means(os, s, W, "sequence", i + 1, j - 1)
         /\ s[i].typ = "openSq" => Means(os, s, W, "item", i, j) = {<<>>} \cup Means(os, s, W, "sequence", i + 1, j - 1)
<1>a. "item" \in Symbols
  BY DEF Symbols
<1>b. PICK f : ByParts(f, os, s, W, "item", i, j)
  BY <1>a, Meanings
<1>1. /\ Derives(s, "item", i, j) => Means(os, s, W, "item", i, j) = Meaning(os, s, W, "item", i, j, f)
      /\ \A h \in Symbols : \A l, m \in Places(s) :
           f[<<h, l, m>>] = Means(os, s, W, h, l, m) /\ (~Derives(s, h, l, m) => f[<<h, l, m>>] = {})
  BY <1>b DEF ByParts
<1>2. s[i].typ \in {"openPar", "openSq"} => f[<<"sequence", i + 1, j - 1>>] = Means(os, s, W, "sequence", i + 1, j - 1)
  BY <1>1, ItemToken DEF Symbols
<1> QED BY <1>1, <1>2 DEF Meaning

LEMMA MeansSpec ==
  ASSUME NEW L, NEW os, NEW s, Len(s) \in Nat, Labels(L, os, s), NEW W \in Nat, NEW i \in Places(s), NEW j \in Places(s),
         Derives(s, "spec", i, j)
  PROVE  Means(os, s, W, "spec", i, j) = IF i = j THEN {<<>>} ELSE Means(os, s, W, "sequence", i, j)
<1>a. "spec" \in Symbols
  BY DEF Symbols
<1>b. PICK f : ByParts(f, os, s, W, "spec", i, j)
  BY <1>a, Meanings
<1>1. /\ Derives(s, "spec", i, j) => Means(os, s, W, "spec", i, j) = Meaning(os, s, W, "spec", i, j, f)
      /\ \A h \in Symbols : \A l, m \in Places(s) :
           f[<<h, l, m>>] = Means(os, s, W, h, l, m) /\ (~Derives(s, h, l, m) => f[<<h, l, m>>] = {})
  BY <1>b DEF ByParts
<1>2. f[<<"sequence", i, j>>] = Means(os, s, W, "sequence", i, j)
  BY <1>1 DEF Symbols
<1> QED BY <1>1, <1>2 DEF Meaning

(***************************************************************************)
(* The arcs that the parser adds.                                          *)
(***************************************************************************)
Adds(p, q, D)  == Arcs(q.tr) = Arcs(p.tr) \cup D
Since(p, q)    == Len(p.tr) + 1 .. Len(q.tr)
ArcsBy(s, T)   == {<<s, ArcWord(t), t.next>> : t \in T}

\* The transitions new have those of T more than tr, from s on.
HasMore(tr, new, s, T) ==
  /\ Len(new) = Len(tr) /\ s \in 1 .. Len(tr) /\ ToSet(new[s]) = ToSet(tr[s]) \cup T
  /\ \A q \in 1 .. Len(tr) : q # s => new[q] = tr[q]

LEMMA MoreArcs ==
  ASSUME NEW tr, NEW new, NEW s, NEW T, HasMore(tr, new, s, T)
  PROVE  Arcs(new) = Arcs(tr) \cup ArcsBy(s, T)
<1>0. /\ Len(new) = Len(tr) /\ s \in 1 .. Len(tr) /\ ToSet(new[s]) = ToSet(tr[s]) \cup T
      /\ \A q \in 1 .. Len(tr) : q # s => new[q] = tr[q]
  BY DEF HasMore
<1>1. ASSUME NEW x \in Arcs(new) PROVE x \in Arcs(tr) \cup ArcsBy(s, T)
  <2>1. PICK q \in 1 .. Len(tr) : \E t \in ToSet(new[q]) : x = <<q, ArcWord(t), t.next>>
    BY <1>0, <1>1, InArcs
  <2>2. PICK t \in ToSet(new[q]) : x = <<q, ArcWord(t), t.next>>
    BY <2>1
  <2>3. t \in ToSet(tr[q]) \/ (q = s /\ t \in T)
    BY <1>0, <2>2
  <2> QED BY <1>0, <2>2, <2>3, InArcs DEF ArcsBy
<1>2. ASSUME NEW x \in Arcs(tr) PROVE x \in Arcs(new)
  <2>1. PICK q \in 1 .. Len(tr) : \E t \in ToSet(tr[q]) : x = <<q, ArcWord(t), t.next>>
    BY <1>2, InArcs
  <2>2. \E t \in ToSet(new[q]) : x = <<q, ArcWord(t), t.next>>
    BY <1>0, <2>1
  <2> QED BY <1>0, <2>2, InArcs
<1>3. ASSUME NEW t \in T PROVE <<s, ArcWord(t), t.next>> \in Arcs(new)
  BY <1>0, InArcs
<1> QED BY <1>1, <1>2, <1>3 DEF ArcsBy

\* The arcs of a parser's automaton.
LEMMA ArcsOf ==
  ASSUME NEW p, IsParser(p)
  PROVE  /\ Arcs(p.tr) \in SUBSET ArcSet(Matchers(p.args, p.options))
         /\ \A d \in Arcs(p.tr) : d[1] \in States(p)
<1> DEFINE L == Matchers(p.args, p.options)
           X == [m : L, next : Nat]
<1>1. p.tr \in Seq(Seq(X)) /\ States(p) = 1 .. Len(p.tr)
  BY Fields
<1>2. ASSUME NEW d \in Arcs(p.tr) PROVE d \in ArcSet(L) /\ d[1] \in States(p)
  <2>1. PICK q \in 1 .. Len(p.tr) : \E t \in ToSet(p.tr[q]) : d = <<q, ArcWord(t), t.next>>
    BY <1>2, InArcs
  <2>2. PICK t \in ToSet(p.tr[q]) : d = <<q, ArcWord(t), t.next>>
    BY <2>1
  <2> HIDE DEF X
  <2>3. p.tr[q] \in Seq(X)
    BY <1>1, ElementOfSeq
  <2>4. t \in X
    BY <2>3, Members
  <2>5. t.m \in L /\ t.next \in Nat
    BY <2>4 DEF X
  <2> HIDE DEF L
  <2>6. ArcWord(t) \in Seq(L)
    BY <2>5, EmptySeq DEF ArcWord
  <2> QED BY <1>1, <2>2, <2>5, <2>6 DEF ArcSet
<1> QED BY <1>2

LEMMA NewStateArcs ==
  ASSUME NEW p, IsParser(p)
  PROVE  Arcs(NewState(p).tr) = Arcs(p.tr)
<1> DEFINE tr == Append(p.tr, <<>>)
           X == [m : Matchers(p.args, p.options), next : Nat]
<1>1. p.tr \in Seq(Seq(X)) /\ Len(p.tr) \in Nat
  BY Fields
<1> HIDE DEF X
<1>2. <<>> \in Seq(X)
  OBVIOUS
<1>3. /\ Len(tr) = Len(p.tr) + 1 /\ \A s \in 1 .. Len(p.tr) : tr[s] = p.tr[s]
      /\ tr[Len(p.tr) + 1] = <<>>
  BY <1>1, <1>2, AppendProperties
<1>4. NewState(p).tr = tr
  BY DEF NewState, IsParser, Parsers
<1> HIDE DEF tr
<1>5. ToSet(tr[Len(p.tr) + 1]) = {}
  BY <1>3 DEF ToSet
<1>6. \A q : q \in 1 .. Len(tr) <=> q \in 1 .. Len(p.tr) \/ q = Len(p.tr) + 1
  BY <1>1, <1>3
<1>7. ASSUME NEW x PROVE x \in Arcs(tr) <=> x \in Arcs(p.tr)
  BY <1>3, <1>5, <1>6, InArcs
<1> QED BY <1>4, <1>7

LEMMA LinkArcs ==
  ASSUME NEW p, IsParser(p), NEW s \in States(p), NEW m \in Matchers(p.args, p.options), NEW next \in Nat
  PROVE  Adds(p, Link(p, s, m, next), {<<s, ArcWord(Transition(m, next)), next>>})
<1> DEFINE X == [m : Matchers(p.args, p.options), next : Nat]
           t == Transition(m, next)
           more == Append(p.tr[s], t)
           tr == [p.tr EXCEPT ![s] = more]
<1>1. p.tr \in Seq(Seq(X)) /\ Len(p.tr) \in Nat /\ DOMAIN p.tr = 1 .. Len(p.tr) /\ States(p) = DOMAIN p.tr
  BY Fields
<1>2. t \in X /\ t.next = next
  BY DEF Transition
<1> HIDE DEF X, t
<1>3. p.tr[s] \in Seq(X)
  BY <1>1, ElementOfSeq
<1>4. more \in Seq(X) /\ ToSet(more) = ToSet(p.tr[s]) \cup {t}
  <2> DEFINE ts == p.tr[s]
             a == Append(ts, t)
  <2>0. ts \in Seq(X)
    BY <1>3
  <2> HIDE DEF ts
  <2>1. /\ a \in Seq(X) /\ Len(a) = Len(ts) + 1
        /\ \A i \in 1 .. Len(ts) : a[i] = ts[i]
        /\ a[Len(ts) + 1] = t
    BY <1>2, <2>0, AppendProperties
  <2> HIDE DEF a
  <2>2. ToSet(a) = {a[i] : i \in 1 .. Len(a)}
    BY <2>1, Members
  <2>3. ToSet(ts) = {ts[i] : i \in 1 .. Len(ts)} /\ Len(ts) \in Nat
    BY <2>0, Members
  <2>4. ToSet(a) = ToSet(ts) \cup {t}
    BY <2>1, <2>2, <2>3
  <2> QED BY <2>1, <2>4 DEF a, ts
<1> HIDE DEF more
<1>5. /\ Len(tr) = Len(p.tr) /\ \A u \in DOMAIN p.tr : tr[u] = IF u = s THEN more ELSE p.tr[u]
  BY <1>1, <1>4, ExceptSeq
<1>6. Link(p, s, m, next).tr = tr
  BY DEF Link, more, t, IsParser, Parsers
<1> HIDE DEF tr
<1>7. Arcs(tr) = Arcs(p.tr) \cup ArcsBy(s, {t})
  <2>1. Len(p.tr) \in Nat /\ Len(tr) = Len(p.tr) /\ s \in 1 .. Len(p.tr)
    BY <1>1, <1>5
  <2>2. \A u \in 1 .. Len(p.tr) : u # s => tr[u] = p.tr[u]
    BY <1>1, <1>5
  <2>3. ToSet(tr[s]) = ToSet(p.tr[s]) \cup {t}
    BY <1>1, <1>4, <1>5
  <2>4. HasMore(p.tr, tr, s, {t})
    BY <2>1, <2>2, <2>3 DEF HasMore
  <2> QED BY <2>4, MoreArcs
<1> QED BY <1>2, <1>6, <1>7 DEF Adds, t, ArcsBy

LEMMA AppendArcs ==
  ASSUME NEW r, IsPiece(r), NEW c, Follows(r.p, c)
  PROVE  /\ Adds(c.p, AppendComp(r, c).p, Copies(Arcs(c.p.tr), c.start, r.end))
         /\ Len(AppendComp(r, c).p.tr) = Len(c.p.tr)
         /\ AppendComp(r, c).start = r.start /\ AppendComp(r, c).end = c.end
<1> DEFINE X == [m : Matchers(c.p.args, c.p.options), next : Nat]
           both == c.p.tr[r.end] \o c.p.tr[c.start]
           tr == [c.p.tr EXCEPT ![r.end] = both]
           q == [c.p EXCEPT !.tr = tr]
<1>1. /\ IsParser(r.p) /\ IsParser(c.p) /\ Grows(r.p, c.p) /\ {r.start, r.end} \subseteq States(r.p)
      /\ {c.start, c.end} \subseteq States(c.p)
  BY DEF Follows, IsPiece
<1>2. /\ States(r.p) = 1 .. Len(r.p.tr) /\ States(c.p) = 1 .. Len(c.p.tr) /\ Len(r.p.tr) <= Len(c.p.tr)
      /\ Len(r.p.tr) \in Nat /\ Len(c.p.tr) \in Nat /\ DOMAIN c.p.tr = 1 .. Len(c.p.tr)
      /\ c.p.tr \in Seq(Seq(X))
  BY <1>1, Fields DEF Grows
<1>3. r.end \in 1 .. Len(c.p.tr) /\ c.start \in 1 .. Len(c.p.tr)
  <2>1. 1 .. Len(r.p.tr) \subseteq 1 .. Len(c.p.tr)
    BY <1>2
  <2> QED BY <1>1, <1>2, <2>1
<1> HIDE DEF X
<1>4. c.p.tr[r.end] \in Seq(X) /\ c.p.tr[c.start] \in Seq(X)
  BY <1>2, <1>3, ElementOfSeq
<1>5. both \in Seq(X) /\ ToSet(both) = ToSet(c.p.tr[r.end]) \cup ToSet(c.p.tr[c.start])
  BY <1>4, Concatenated
<1> HIDE DEF both
<1>6. Len(tr) = Len(c.p.tr) /\ \A u \in DOMAIN c.p.tr : tr[u] = IF u = r.end THEN both ELSE c.p.tr[u]
  BY <1>2, <1>3, <1>5, ExceptSeq
<1> HIDE DEF tr
<1> DEFINE T == ToSet(c.p.tr[c.start])
           more == ArcsBy(r.end, T)
           D == Arcs(c.p.tr)
<1>7. Arcs(tr) = D \cup more
  <2>1. \A u \in 1 .. Len(c.p.tr) : u # r.end => tr[u] = c.p.tr[u]
    BY <1>2, <1>6
  <2>2. ToSet(tr[r.end]) = ToSet(c.p.tr[r.end]) \cup T
    BY <1>2, <1>3, <1>5, <1>6
  <2> HIDE DEF T
  <2>3. HasMore(c.p.tr, tr, r.end, T)
    BY <1>2, <1>3, <1>6, <2>1, <2>2 DEF HasMore
  <2> QED BY <2>3, MoreArcs
<1>8. more = Copies(D, c.start, r.end)
  <2>1. ASSUME NEW t \in T PROVE <<r.end, ArcWord(t), t.next>> \in Copies(D, c.start, r.end)
    <3> DEFINE d == <<c.start, ArcWord(t), t.next>>
    <3>1. d \in D
      BY <1>3, <2>1, InArcs
    <3>2. d[1] = c.start /\ d[2] = ArcWord(t) /\ d[3] = t.next
      OBVIOUS
    <3> HIDE DEF d, D
    <3> QED BY <3>1, <3>2 DEF Copies
  <2>2. ASSUME NEW d \in D, d[1] = c.start PROVE <<r.end, d[2], d[3]>> \in more
    <3>1. PICK s \in 1 .. Len(c.p.tr) : \E t \in ToSet(c.p.tr[s]) : d = <<s, ArcWord(t), t.next>>
      BY <2>2, InArcs
    <3>2. PICK t \in ToSet(c.p.tr[s]) : d = <<s, ArcWord(t), t.next>>
      BY <3>1
    <3>3. s = c.start /\ d[2] = ArcWord(t) /\ d[3] = t.next
      BY <2>2, <3>2
    <3> QED BY <3>2, <3>3 DEF ArcsBy
  <2> HIDE DEF D
  <2> QED BY <2>1, <2>2 DEF Copies, ArcsBy
<1>9. AppendComp(r, c) = Piece(q, r.start, c.end) /\ q.tr = tr
  BY <1>1 DEF AppendComp, tr, both, IsParser, Parsers
<1> HIDE DEF q
<1>10. AppendComp(r, c).p.tr = tr /\ AppendComp(r, c).start = r.start /\ AppendComp(r, c).end = c.end
  BY <1>9 DEF Piece
<1> QED BY <1>6, <1>7, <1>8, <1>10 DEF Adds

(***************************************************************************)
(* What the parser has built, by its arcs D, stands for the words U.       *)
(***************************************************************************)
AtomBuilt(p, v, D, U, L) ==
  /\ Adds(p, v.p, D) /\ StandFor(D, v.start, v.end, U, L)
  /\ Among(D, Since(p, v.p)) /\ v.start \in Since(p, v.p) /\ v.end \in Since(p, v.p)

ChoiceBuilt(r, v, D, U, L) ==
  /\ Adds(r.p, v.p, D) /\ StandFor(D, r.start, r.end, U, L) /\ v.start = r.start /\ v.end = r.end
  /\ Among(D, Since(r.p, v.p) \cup {r.start, r.end}) /\ NoneInto(D, r.start) /\ NoneFrom(D, r.end)

SequenceBuilt(r, v, D, U, L) ==
  /\ Adds(r.p, v.p, D) /\ StandFor(D, r.end, v.end, U, L) /\ v.start = r.start /\ v.end \in Since(r.p, v.p)
  /\ Among(D, Since(r.p, v.p) \cup {r.end}) /\ NoneInto(D, r.end) /\ NoneFrom(D, v.end)

LEMMA OverMore ==
  ASSUME NEW D, NEW Q, NEW Q2, Among(D, Q), Q \subseteq Q2, NEW s \in Q2, NEW e \in Q2, NEW w
  PROVE  Among(D \cup {<<s, w, e>>}, Q2)
<1>1. <<s, w, e>>[1] = s /\ <<s, w, e>>[3] = e
  OBVIOUS
<1> DEFINE d == <<s, w, e>>
<1>2. d[1] = s /\ d[3] = e
  BY <1>1
<1> HIDE DEF d
<1> QED BY <1>2 DEF Among, d

LEMMA EndsMore ==
  ASSUME NEW D, NEW s, NEW e, NEW w, NEW q
  PROVE  /\ NoneInto(D, q) /\ e # q => NoneInto(D \cup {<<s, w, e>>}, q)
         /\ NoneFrom(D, q) /\ s # q => NoneFrom(D \cup {<<s, w, e>>}, q)
<1> DEFINE d == <<s, w, e>>
<1>1. d[1] = s /\ d[3] = e
  OBVIOUS
<1> HIDE DEF d
<1> QED BY <1>1 DEF NoneInto, NoneFrom, d

\* The states made since.
LEMMA SinceIs ==
  ASSUME NEW p, NEW q, IsParser(p), Grows(p, q)
  PROVE  /\ \A s \in Since(p, q) : s \in Nat /\ s \notin States(p) /\ s \in States(q)
         /\ \A o : Grows(q, o) => Since(p, q) \subseteq Since(p, o) /\ Since(q, o) \subseteq Since(p, o)
                                  /\ Since(p, q) \cap Since(q, o) = {}
<1>1. Len(p.tr) \in Nat /\ Len(q.tr) \in Nat /\ Len(p.tr) <= Len(q.tr) /\ States(p) = 1 .. Len(p.tr) /\ States(q) = 1 .. Len(q.tr)
  BY Fields DEF Grows
<1>2. \A s \in Since(p, q) : s \in Nat /\ s \notin States(p) /\ s \in States(q)
  BY <1>1 DEF Since
<1>3. ASSUME NEW o, Grows(q, o)
      PROVE  Since(p, q) \subseteq Since(p, o) /\ Since(q, o) \subseteq Since(p, o) /\ Since(p, q) \cap Since(q, o) = {}
  <2>1. Len(o.tr) \in Nat /\ Len(q.tr) <= Len(o.tr)
    BY <1>3, Fields DEF Grows
  <2> QED BY <1>1, <2>1 DEF Since
<1> QED BY <1>2, <1>3

LEMMA SinceSame ==
  ASSUME NEW p, NEW q, NEW o
  PROVE  /\ p.tr = q.tr => Since(p, o) = Since(q, o) /\ Since(o, p) = Since(o, q)
         /\ Len(p.tr) = Len(q.tr) => Since(p, o) = Since(q, o) /\ Since(o, p) = Since(o, q)
BY DEF Since

\* An element: one arc between two new states.
LEMMA SingleBuilt ==
  ASSUME NEW p, IsParser(p), NEW m \in Matchers(p.args, p.options), From(m, p.args, p.options, p.tokens), m.kind # "shortcut"
  PROVE  \E D : AtomBuilt(p, Single(p, m), D, {<<m>>}, Matchers(p.args, p.options))
<1> DEFINE L == Matchers(p.args, p.options)
           n == Len(p.tr)
           a == NewState(p)
           b == NewState(a)
           q == Link(b, n + 1, m, n + 2)
           D == {<<n + 1, <<m>>, n + 2>>}
<1>1. IsParser(a) /\ Grows(p, a) /\ Len(a.tr) = n + 1 /\ n \in Nat
  BY NewStateGrows, Fields DEF Grows
<1>2. Arcs(a.tr) = Arcs(p.tr)
  BY NewStateArcs
<1>3. IsParser(b) /\ Grows(a, b) /\ Len(b.tr) = n + 2 /\ Arcs(b.tr) = Arcs(a.tr)
  <2> HIDE DEF a
  <2> QED BY <1>1, NewStateGrows, NewStateArcs DEF Grows
<1>4. Grows(p, b)
  <2> HIDE DEF a, b
  <2> QED BY <1>1, <1>3, GrowsOn
<1>5. b.args = p.args /\ b.options = p.options /\ b.tokens = p.tokens
  BY <1>4 DEF Grows, Same
<1>6. n + 1 \in States(b) /\ n + 2 \in Nat /\ n + 1 \in Nat /\ n + 1 # n + 2
  BY <1>1, <1>3 DEF States
<1>7. Adds(b, q, {<<n + 1, ArcWord(Transition(m, n + 2)), n + 2>>}) /\ Len(q.tr) = n + 2
  <2> HIDE DEF a, b, n
  <2> QED BY <1>3, <1>5, <1>6, LinkArcs, LinkGrows
<1>8. ArcWord(Transition(m, n + 2)) = <<m>>
  BY DEF ArcWord, Transition, IsShortcut
<1>9. Single(p, m) = [p |-> q, start |-> n + 1, end |-> n + 2]
  <2>1. LastTwo(b) = [p |-> b, start |-> n + 1, end |-> n + 2]
    <3> HIDE DEF b
    <3> QED BY <1>1, <1>3 DEF LastTwo, Piece
  <2>2. Single(p, m) = Labelled(LastTwo(b), m)
    BY DEF Single
  <2> HIDE DEF a, b
  <2> QED BY <2>1, <2>2 DEF Labelled
<1> HIDE DEF a, b, q
<1>10. Adds(p, q, D)
  BY <1>2, <1>3, <1>7, <1>8 DEF Adds
<1>11. <<m>> \in Seq(L)
  OBVIOUS
<1> HIDE DEF L
<1>12. StandFor(D, n + 1, n + 2, {<<m>>}, L)
  BY <1>6, <1>11, OneArc
<1>13. n + 1 \in Since(p, q) /\ n + 2 \in Since(p, q)
  BY <1>1, <1>7 DEF Since
<1>14. Among(D, Since(p, q))
  <2> DEFINE d == <<n + 1, <<m>>, n + 2>>
  <2>1. d[1] = n + 1 /\ d[3] = n + 2
    OBVIOUS
  <2> HIDE DEF d
  <2> QED BY <1>13, <2>1 DEF Among, d
<1> HIDE DEF D, n
<1>15. AtomBuilt(p, Single(p, m), D, {<<m>>}, L)
  BY <1>9, <1>10, <1>12, <1>13, <1>14 DEF AtomBuilt
<1> QED BY <1>15 DEF L

\* A postfix `...` adds the way back.
LEMMA RepBuilt ==
  ASSUME NEW p, IsParser(p), NEW r, IsPiece(r), Grows(p, r.p), NEW D, NEW U, NEW L, AtomBuilt(p, r, D, U, L)
  PROVE  \E E : AtomBuilt(p, Rep(r), E, IF Is(r.p, "rep") THEN OnceOrMore(U, L) ELSE U, L)
<1>a. r.p.err = ""
  BY Fields DEF IsPiece
<1>0. IsParser(r.p) /\ r.start \in States(r.p) /\ r.end \in States(r.p)
  BY DEF IsPiece
<1>1. CASE ~Is(r.p, "rep")
  BY <1>1 DEF Rep
<1>2. CASE Is(r.p, "rep")
  <2> DEFINE a == Next1(r.p)
             q == Link(a, r.end, Shortcut, r.start)
             E == D \cup {<<r.end, <<>>, r.start>>}
  <2>1. IsParser(a) /\ Grows(r.p, a) /\ a.tr = r.p.tr
    BY <1>0, NextGrows DEF Grows
  <2>2. r.end \in States(a) /\ r.start \in Nat
    <3>1. States(r.p) = 1 .. Len(r.p.tr)
      BY <1>0, Fields
    <3>2. States(a) = States(r.p)
      BY <2>1 DEF States
    <3> QED BY <1>0, <3>1, <3>2
  <2>3. Shortcut \in Matchers(a.args, a.options) /\ From(Shortcut, a.args, a.options, a.tokens)
    BY NoNames
  <2> HIDE DEF a
  <2>4. Adds(a, q, {<<r.end, ArcWord(Transition(Shortcut, r.start)), r.start>>}) /\ Len(q.tr) = Len(a.tr)
    BY <2>1, <2>2, <2>3, LinkArcs, LinkGrows
  <2>5. ArcWord(Transition(Shortcut, r.start)) = <<>>
    BY DEF ArcWord, Transition, IsShortcut, Shortcut
  <2>6. Rep(r) = [p |-> q, start |-> r.start, end |-> r.end]
    <3>1. Rep(r) = [r EXCEPT !.p = q]
      BY <1>a, <1>0, <1>2 DEF Rep, a
    <3>2. r = [p |-> r.p, start |-> r.start, end |-> r.end]
      BY DEF IsPiece
    <3> HIDE DEF q
    <3> QED BY <3>1, <3>2
  <2> HIDE DEF q
  <2>7. Adds(p, q, E)
    BY <2>1, <2>4, <2>5 DEF Adds, AtomBuilt
  <2>8. Since(p, q) = Since(p, r.p)
    BY <2>1, <2>4 DEF Since
  <2>9. StandFor(E, r.start, r.end, OnceOrMore(U, L), L)
    BY RoundsStand DEF AtomBuilt
  <2>10. Among(E, Since(p, r.p))
    BY OverMore DEF AtomBuilt
  <2> HIDE DEF E
  <2>11. AtomBuilt(p, Rep(r), E, OnceOrMore(U, L), L)
    BY <2>6, <2>7, <2>8, <2>9, <2>10 DEF AtomBuilt
  <2> QED BY <1>2, <2>11
<1> QED BY <1>1, <1>2

\* The sequence in brackets, and the shortcut over it.
LEMMA GroupBuilt ==
  ASSUME NEW p, IsParser(p), ~Eof(p), NEW a, Follows(Group(p).r.p, a), NEW D, NEW U, NEW L,
         SequenceBuilt(Group(p).r, a, D, U, L)
  PROVE  /\ AtomBuilt(p, a, D, U, L)
         /\ \E E : AtomBuilt(p, Optional(a), E, {<<>>} \cup U, L)
<1> DEFINE q == Next1(p)
           n == NewState(q)
           r == Group(p).r
           e == Len(n.tr)
<1>1. IsParser(q) /\ Grows(p, q) /\ q.tr = p.tr
  BY NextGrows DEF Grows
<1>2. r = Piece(n, e, e)
  BY DEF Group, Sequence, Call
<1> HIDE DEF q
<1>3. IsParser(n) /\ e = Len(q.tr) + 1 /\ Arcs(n.tr) = Arcs(q.tr) /\ Grows(q, n)
  BY <1>1, NewStateGrows, NewStateArcs DEF Grows
<1> HIDE DEF n
<1>4. r.p = n /\ r.start = e /\ r.end = e
  BY <1>2 DEF Piece
<1> HIDE DEF r, e
<1>5. IsPiece(a) /\ IsParser(a.p) /\ Grows(n, a.p)
  BY <1>4 DEF Follows, IsPiece, r
<1>6. Len(p.tr) \in Nat /\ e = Len(p.tr) + 1 /\ Len(a.p.tr) \in Nat /\ e <= Len(a.p.tr) /\ e = Len(n.tr)
  BY <1>1, <1>3, <1>5, Fields DEF Grows, e
<1>7. Since(n, a.p) \cup {e} = Since(p, a.p) /\ e \notin Since(n, a.p) /\ Since(n, a.p) \subseteq Nat
  BY <1>6 DEF Since
<1>8. /\ Adds(n, a.p, D) /\ StandFor(D, e, a.end, U, L) /\ a.start = e /\ a.end \in Since(n, a.p)
      /\ Among(D, Since(n, a.p) \cup {e}) /\ NoneInto(D, e) /\ NoneFrom(D, a.end)
  BY <1>4 DEF SequenceBuilt, r
<1>9. Adds(p, a.p, D)
  BY <1>1, <1>3, <1>8 DEF Adds
<1>10. AtomBuilt(p, a, D, U, L)
  BY <1>7, <1>8, <1>9 DEF AtomBuilt
<1> DEFINE b == Optional(a)
           o == Link(a.p, a.start, Shortcut, a.end)
           E == D \cup {<<a.start, <<>>, a.end>>}
<1>11. a.start \in States(a.p) /\ a.end \in Nat /\ Shortcut \in Matchers(a.p.args, a.p.options)
       /\ From(Shortcut, a.p.args, a.p.options, a.p.tokens) /\ a.p.err = ""
  BY <1>5, <1>7, <1>8, NoNames, Fields DEF IsPiece
<1>12. b = [p |-> o, start |-> a.start, end |-> a.end]
  <2>1. b = [a EXCEPT !.p = o]
    BY <1>11 DEF Optional, Labelled, IsPiece
  <2>2. a = [p |-> a.p, start |-> a.start, end |-> a.end]
    BY <1>5 DEF IsPiece
  <2> HIDE DEF o
  <2> QED BY <2>1, <2>2
<1>13. Adds(a.p, o, {<<a.start, ArcWord(Transition(Shortcut, a.end)), a.end>>}) /\ Len(o.tr) = Len(a.p.tr)
  BY <1>5, <1>11, LinkArcs, LinkGrows
<1>14. ArcWord(Transition(Shortcut, a.end)) = <<>>
  BY DEF ArcWord, Transition, IsShortcut, Shortcut
<1> HIDE DEF o, b
<1>15. Adds(p, o, E)
  BY <1>9, <1>13, <1>14 DEF Adds
<1>16. Since(p, o) = Since(p, a.p)
  BY <1>13 DEF Since
<1>17. StandFor(E, a.start, a.end, {<<>>} \cup U, L)
  BY <1>7, <1>8, LeftOut
<1>18. Among(E, Since(p, a.p))
  BY <1>7, <1>8, OverMore
<1> HIDE DEF E
<1>19. AtomBuilt(p, b, E, {<<>>} \cup U, L)
  BY <1>7, <1>8, <1>12, <1>15, <1>16, <1>17, <1>18 DEF AtomBuilt
<1> QED BY <1>10, <1>19 DEF b

\* An alternative.
LEMMA AddBuilt ==
  ASSUME NEW r, IsPiece(r), r.start # r.end, NEW a, Follows(r.p, a), NEW D, NEW U, NEW L, AtomBuilt(r.p, a, D, U, L)
  PROVE  \E E : ChoiceBuilt(r, Add(r, a), E, U, L)
<1> DEFINE o == Link(a.p, r.start, Shortcut, a.start)
           q == Link(o, a.end, Shortcut, r.end)
           F == D \cup {<<r.start, <<>>, a.start>>}
           E == F \cup {<<a.end, <<>>, r.end>>}
           Q == Since(r.p, a.p)
<1>1. /\ IsParser(r.p) /\ IsParser(a.p) /\ Grows(r.p, a.p) /\ {r.start, r.end} \subseteq States(r.p)
      /\ {a.start, a.end} \subseteq States(a.p)
  BY DEF Follows, IsPiece
<1>2. /\ States(r.p) = 1 .. Len(r.p.tr) /\ States(a.p) = 1 .. Len(a.p.tr) /\ Len(r.p.tr) <= Len(a.p.tr)
      /\ Len(r.p.tr) \in Nat /\ Len(a.p.tr) \in Nat
  BY <1>1, Fields DEF Grows
<1>3. /\ r.start \in States(a.p) /\ a.start \in Nat /\ a.end \in States(a.p) /\ r.end \in Nat /\ r.start \in Nat
      /\ r.start \notin Q /\ r.end \notin Q
  BY <1>1, <1>2 DEF Since
<1>4. Adds(a.p, o, {<<r.start, ArcWord(Transition(Shortcut, a.start)), a.start>>}) /\ Len(o.tr) = Len(a.p.tr) /\ Grows(a.p, o)
  BY <1>1, <1>3, NoNames, LinkArcs, LinkGrows
<1>5. \A e : ArcWord(Transition(Shortcut, e)) = <<>>
  BY DEF ArcWord, Transition, IsShortcut, Shortcut
<1>6. Add(r, a) = [p |-> q, start |-> r.start, end |-> r.end]
  <2>1. Add(r, a) = [r EXCEPT !.p = q]
    BY DEF Add
  <2>2. r = [p |-> r.p, start |-> r.start, end |-> r.end]
    BY DEF IsPiece
  <2> HIDE DEF q
  <2> QED BY <2>1, <2>2
<1> HIDE DEF o
<1>7. IsParser(o) /\ a.end \in States(o)
  BY <1>1, <1>4 DEF Grows, States
<1>8. Adds(o, q, {<<a.end, ArcWord(Transition(Shortcut, r.end)), r.end>>}) /\ Len(q.tr) = Len(o.tr)
  BY <1>3, <1>7, NoNames, LinkArcs, LinkGrows
<1> HIDE DEF q
<1>9. Adds(r.p, q, E)
  BY <1>4, <1>5, <1>8 DEF Adds, AtomBuilt
<1>10. Since(r.p, q) = Q
  BY <1>4, <1>8 DEF Since
<1>11. StandFor(D, a.start, a.end, U, L) /\ Among(D, Q) /\ a.start \in Q /\ a.end \in Q
  BY DEF AtomBuilt
<1> HIDE DEF Q
<1>12. StandFor(E, r.start, r.end, U, L)
  BY <1>3, <1>11, Enclosed
<1>13. Among(F, Q \cup {r.start, r.end})
  BY <1>11, OverMore
<1>14. Among(E, Q \cup {r.start, r.end})
  <2> HIDE DEF F
  <2> QED BY <1>11, <1>13, OverMore
<1>15. NoneInto(D, r.start) /\ NoneFrom(D, r.end)
  BY <1>3, <1>11 DEF Among, NoneInto, NoneFrom
<1>16. NoneInto(F, r.start) /\ NoneFrom(F, r.end)
  BY <1>3, <1>11, <1>15, EndsMore
<1>17. NoneInto(E, r.start) /\ NoneFrom(E, r.end)
  <2> HIDE DEF F
  <2> QED BY <1>3, <1>11, <1>16, EndsMore
<1> HIDE DEF E
<1>18. ChoiceBuilt(r, Add(r, a), E, U, L)
  BY <1>6, <1>9, <1>10, <1>12, <1>14, <1>17 DEF ChoiceBuilt
<1> QED BY <1>18

\* The alternatives behind a bar.
LEMMA MoreBuilt ==
  ASSUME NEW r, IsPiece(r), r.start # r.end, NEW a, Follows(r.p, a),
         NEW D, NEW U, NEW L, ChoiceBuilt(r, Add(r, a), D, U, L),
         NEW v, Follows(MoreOf(r, a).r.p, v), NEW E, NEW V, ChoiceBuilt(MoreOf(r, a).r, v, E, V, L)
  PROVE  /\ MoreOf(r, a).r.start = r.start /\ MoreOf(r, a).r.end = r.end
         /\ ChoiceBuilt(r, v, D \cup E, U \cup V, L)
<1> DEFINE b == Add(r, a)
           q == Next1(b.p)
           m == MoreOf(r, a).r
           s == r.start
           e == r.end
<1>1. IsPiece(b) /\ Grows(r.p, b.p) /\ IsParser(b.p)
  BY AddFollows DEF Follows, IsPiece
<1>2. b = [p |-> b.p, start |-> b.start, end |-> b.end]
  BY <1>1 DEF IsPiece
<1>3. b.start = s /\ b.end = e
  BY DEF ChoiceBuilt
<1>4. m = [b EXCEPT !.p = q]
  BY <1>2 DEF MoreOf, Call
<1>5. Grows(b.p, q) /\ IsParser(q) /\ q.tr = b.p.tr
  BY <1>1, NextGrows DEF Grows
<1> HIDE DEF b, q, m
<1>6. m.p = q /\ m.start = s /\ m.end = e
  BY <1>2, <1>3, <1>4
<1>7. Grows(q, v.p)
  BY <1>6 DEF Follows, m
<1>8. Grows(b.p, v.p) /\ IsParser(r.p) /\ IsParser(v.p)
  BY <1>1, <1>5, <1>7, GrowsOn DEF IsPiece, Grows
<1> DEFINE Q == Since(r.p, b.p)
           R == Since(b.p, v.p)
           T == Since(r.p, v.p)
<1>9. Q \subseteq T /\ R \subseteq T /\ Q \cap R = {} /\ Since(q, v.p) = R
  BY <1>1, <1>5, <1>8, SinceIs, SinceSame
<1>10. /\ Adds(r.p, b.p, D) /\ StandFor(D, s, e, U, L) /\ Among(D, Q \cup {s, e}) /\ NoneInto(D, s) /\ NoneFrom(D, e)
  BY DEF ChoiceBuilt, b
<1>11. /\ Adds(q, v.p, E) /\ StandFor(E, s, e, V, L) /\ Among(E, R \cup {s, e}) /\ NoneInto(E, s) /\ NoneFrom(E, e)
       /\ v.start = s /\ v.end = e
  <2>1. ChoiceBuilt(m, v, E, V, L)
    BY DEF m
  <2> QED BY <1>6, <1>9, <2>1 DEF ChoiceBuilt
<1> HIDE DEF Q, R, T
<1>12. Adds(r.p, v.p, D \cup E)
  BY <1>5, <1>10, <1>11 DEF Adds
<1>13. StandFor(D \cup E, s, e, U \cup V, L)
  <2>1. (Q \cup {s, e}) \cap (R \cup {s, e}) \subseteq {s, e}
    BY <1>9
  <2> HIDE DEF s, e
  <2>2. s # e
    BY DEF s, e
  <2> QED BY <1>10, <1>11, <2>1, <2>2, InParallel
<1>14. Among(D \cup E, T \cup {s, e}) /\ NoneInto(D \cup E, s) /\ NoneFrom(D \cup E, e)
  BY <1>9, <1>10, <1>11 DEF Among, NoneInto, NoneFrom
<1>15. ChoiceBuilt(r, v, D \cup E, U \cup V, L)
  BY <1>11, <1>12, <1>13, <1>14 DEF ChoiceBuilt, T
<1> QED BY <1>6, <1>15 DEF m

\* A component, joined to what comes before it.
LEMMA AppendBuilt ==
  ASSUME NEW r, IsPiece(r), NEW c, Follows(Choice(r.p).r.p, c), NEW D, NEW U, NEW L, ChoiceBuilt(Choice(r.p).r, c, D, U, L)
  PROVE  \E E : SequenceBuilt(r, AppendComp(r, c), E, U, L)
<1> DEFINE x == Choice(r.p).r
           p == r.p
           n == Len(p.tr)
           a == NewState(p)
           b == NewState(a)
           s == n + 1
           e == n + 2
           d == AppendComp(r, c)
           C == Copies(D, s, r.end)
           E == D \cup C
<1>1. IsParser(p) /\ r.end \in States(p) /\ States(p) = 1 .. n /\ n \in Nat /\ r.end \in Nat
  <2>1. IsParser(p) /\ r.end \in States(p)
    BY DEF IsPiece
  <2>2. States(p) = 1 .. n /\ n \in Nat
    BY <2>1, Fields
  <2> QED BY <2>1, <2>2
<1>2. IsParser(a) /\ Len(a.tr) = n + 1 /\ Arcs(a.tr) = Arcs(p.tr) /\ Grows(p, a)
  BY <1>1, NewStateGrows, NewStateArcs DEF Grows
<1>3. IsParser(b) /\ Len(b.tr) = n + 2 /\ Arcs(b.tr) = Arcs(a.tr) /\ Grows(a, b)
  <2> HIDE DEF a
  <2>1. Len(NewState(a).tr) = n + 1 + 1 /\ n + 1 + 1 = n + 2
    BY <1>1, <1>2, NewStateGrows
  <2> QED BY <1>2, <2>1, NewStateGrows, NewStateArcs DEF Grows
<1>4. x = Piece(b, Len(b.tr) - 1, Len(b.tr))
  BY DEF Choice, Call, LastTwo
<1> HIDE DEF a, b, x
<1>5. x.p = b /\ x.start = s /\ x.end = e
  <2>1. (n + 2) - 1 = n + 1
    BY <1>1
  <2> QED BY <1>3, <1>4, <2>1 DEF Piece
<1>6. Grows(b, c.p) /\ IsPiece(c) /\ IsParser(c.p)
  BY <1>5 DEF Follows, IsPiece, x
<1>7. Grows(p, c.p) /\ Follows(p, c)
  <2>1. Grows(p, b)
    BY <1>1, <1>2, <1>3, GrowsOn
  <2> HIDE DEF p
  <2> QED BY <1>1, <1>6, <2>1, GrowsOn DEF Follows
<1>8. /\ Adds(b, c.p, D) /\ StandFor(D, s, e, U, L) /\ c.start = s /\ c.end = e
      /\ Among(D, Since(b, c.p) \cup {s, e}) /\ NoneInto(D, s) /\ NoneFrom(D, e)
  <2>1. ChoiceBuilt(x, c, D, U, L)
    BY DEF x
  <2> HIDE DEF s, e
  <2> QED BY <1>5, <2>1 DEF ChoiceBuilt
<1>9. /\ Adds(c.p, d.p, Copies(Arcs(c.p.tr), c.start, r.end)) /\ Len(d.p.tr) = Len(c.p.tr)
      /\ d.start = r.start /\ d.end = c.end
  <2> HIDE DEF d
  <2>1. Follows(r.p, c)
    BY <1>7
  <2> QED BY <2>1, AppendArcs DEF d
<1>10. Len(c.p.tr) \in Nat /\ n + 2 <= Len(c.p.tr)
  BY <1>3, <1>6, Fields DEF Grows
<1> DEFINE Q == Since(b, c.p) \cup {s, e}
           T == Since(p, c.p)
<1>11. Q = T /\ s \in Nat /\ s # e /\ r.end \notin Q /\ r.end # s /\ r.end # e /\ e \in T
  <2> DEFINE l == Len(c.p.tr)
             k == r.end
  <2>1. Since(b, c.p) = (n + 2) + 1 .. l /\ T = n + 1 .. l /\ l \in Nat /\ n + 2 <= l /\ n \in Nat /\ k \in 1 .. n
    BY <1>1, <1>3, <1>10 DEF Since
  <2> HIDE DEF l, k, n, T
  <2>2. ((n + 2) + 1 .. l) \cup {n + 1, n + 2} = n + 1 .. l
    BY <2>1
  <2>3. k \notin (n + 1 .. l) /\ k # n + 1 /\ k # n + 2 /\ n + 2 \in n + 1 .. l /\ n + 1 \in Nat /\ n + 1 # n + 2
    BY <2>1
  <2> QED BY <2>1, <2>2, <2>3 DEF k
<1>12. Copies(Arcs(c.p.tr), s, r.end) = C
  <2>1. Arcs(c.p.tr) = Arcs(p.tr) \cup D
    BY <1>2, <1>3, <1>8 DEF Adds
  <2>2. \A y \in Arcs(p.tr) : y[1] # s
    <3>1. \A y \in Arcs(p.tr) : y[1] \in 1 .. n
      BY <1>1, ArcsOf
    <3> QED BY <1>1, <3>1
  <2> HIDE DEF s
  <2> QED BY <2>1, <2>2 DEF Copies
<1> HIDE DEF d, Q, T
<1>13. Adds(p, d.p, E)
  BY <1>2, <1>3, <1>8, <1>9, <1>12 DEF Adds
<1> HIDE DEF s, e
<1>14. StandFor(E, r.end, e, U, L)
  BY <1>1, <1>8, <1>11, Copied DEF Q
<1>15. \A y \in C : y[1] = r.end /\ \E z \in D : y[3] = z[3]
  <2> SUFFICES ASSUME NEW z \in D PROVE LET y == <<r.end, z[2], z[3]>> IN y[1] = r.end /\ y[3] = z[3]
    BY DEF Copies
  <2> QED OBVIOUS
<1> HIDE DEF C
<1>16. Among(E, T \cup {r.end})
  <2>1. Among(D, T)
    BY <1>8, <1>11 DEF Q
  <2> QED BY <1>15, <2>1 DEF Among
<1>17. NoneInto(E, r.end) /\ NoneFrom(E, e)
  <2>1. \A y \in D : y[3] # r.end /\ y[1] # e
    BY <1>8, <1>11 DEF Among, NoneFrom, Q
  <2> QED BY <1>11, <1>15, <2>1 DEF NoneInto, NoneFrom
<1>18. Since(p, d.p) = T
  BY <1>9 DEF Since, T
<1> HIDE DEF E
<1>19. SequenceBuilt(r, d, E, U, L)
  BY <1>8, <1>9, <1>11, <1>13, <1>14, <1>16, <1>17, <1>18 DEF SequenceBuilt
<1> QED BY <1>19 DEF d

\* The components behind a first one.
LEMMA RestBuilt ==
  ASSUME NEW r, IsPiece(r), NEW u, Follows(r.p, u), NEW D, NEW U, NEW L, SequenceBuilt(r, u, D, U, L),
         NEW v, Follows(u.p, v), NEW E, NEW V, SequenceBuilt(u, v, E, V, L)
  PROVE  SequenceBuilt(r, v, D \cup E, WordsJoined(U, V), L)
<1> DEFINE s == r.end
           m == u.end
           e == v.end
           Q == Since(r.p, u.p)
           R == Since(u.p, v.p)
           T == Since(r.p, v.p)
<1>1. IsParser(r.p) /\ IsParser(u.p) /\ Grows(r.p, u.p) /\ Grows(u.p, v.p) /\ s \in States(r.p)
  BY DEF Follows, IsPiece
<1>2. Q \subseteq T /\ R \subseteq T /\ Q \cap R = {} /\ s \notin Q /\ s \notin R
  <2>1. Q \subseteq T /\ R \subseteq T /\ Q \cap R = {} /\ s \notin Q
    BY <1>1, SinceIs
  <2>2. \A y \in R : y \notin States(u.p)
    BY <1>1, SinceIs
  <2>3. s \in States(u.p)
    <3>1. /\ States(r.p) = 1 .. Len(r.p.tr) /\ States(u.p) = 1 .. Len(u.p.tr) /\ Len(r.p.tr) <= Len(u.p.tr)
          /\ Len(r.p.tr) \in Nat /\ Len(u.p.tr) \in Nat
      BY <1>1, Fields DEF Grows
    <3> QED BY <1>1, <3>1
  <2> QED BY <2>1, <2>2, <2>3
<1>3. /\ Adds(r.p, u.p, D) /\ StandFor(D, s, m, U, L) /\ u.start = r.start /\ m \in Q /\ Among(D, Q \cup {s})
      /\ NoneInto(D, s) /\ NoneFrom(D, m)
  BY DEF SequenceBuilt
<1>4. /\ Adds(u.p, v.p, E) /\ StandFor(E, m, e, V, L) /\ v.start = u.start /\ e \in R /\ Among(E, R \cup {m})
      /\ NoneInto(E, m) /\ NoneFrom(E, e)
  BY DEF SequenceBuilt
<1> HIDE DEF s, m, e, Q, R, T
<1>5. Adds(r.p, v.p, D \cup E)
  BY <1>3, <1>4 DEF Adds
<1>6. StandFor(D \cup E, s, e, WordsJoined(U, V), L)
  <2>1. (Q \cup {s}) \cap (R \cup {m}) = {m} /\ s # m /\ e # m
    BY <1>2, <1>3, <1>4
  <2> DEFINE Q1 == Q \cup {s}
             Q2 == R \cup {m}
  <2>2. Q1 \cap Q2 = {m} /\ s \in Q1 /\ e \in Q2 /\ Among(D, Q1) /\ Among(E, Q2)
    BY <1>3, <1>4, <2>1
  <2> HIDE DEF Q1, Q2
  <2> QED BY <1>3, <1>4, <2>1, <2>2, InSeries
<1>7. Among(D \cup E, T \cup {s}) /\ NoneInto(D \cup E, s) /\ NoneFrom(D \cup E, e) /\ e \in T
  BY <1>2, <1>3, <1>4 DEF Among, NoneInto, NoneFrom
<1> QED BY <1>3, <1>4, <1>5, <1>6, <1>7 DEF SequenceBuilt, s, m, e, T

(***************************************************************************)
(* Every call builds what its tokens mean, if those below it do.           *)
(***************************************************************************)
Stands(k, os, ts, W, L, r, v) ==
  \E D, U : /\ Short(U, W) = Means(os, ts, W, Symbol(k), r.p.tkpos, v.p.tkpos)
            /\ k = "atom" => AtomBuilt(r.p, v, D, U, L)
            /\ k = "choice" => ChoiceBuilt(r, v, D, U, L)
            /\ k \in {"sequence", "components"} => r.p.tkpos < v.p.tkpos /\ SequenceBuilt(r, v, D, U, L)

CallBuilt(k, os, ts, W, L, r, v) ==
  Fine(v) /\ (k = "choice" => r.start # r.end) =>
    Stands(k, os, ts, W, L, r, v) \/ (k = "components" /\ v = r)

CallBuilds(y, parse, os, ts, W, L) ==
  y.r.p.tkpos \in Places(ts) => CallBuilt(y.production, os, ts, W, L, y.r, parse[y])
BuildsBelow(c, parse, as, os, ts, W, L) ==
  \A y : Below(y, c, as, os, ts) => CallBuilds(y, parse, os, ts, W, L)

Granted(c, parse, as, os, ts, W, L) ==
  /\ IsCall(c, as, os, ts) /\ AllReturned(parse, as, os, ts) /\ ReadBelow(c, parse, as, os, ts)
  /\ BuildsBelow(c, parse, as, os, ts, W, L) /\ Labels(L, os, ts) /\ L = Matchers(as, os)

LEMMA OnwardBuilds ==
  ASSUME NEW as, NEW os, NEW ts, NEW W \in Nat, NEW L, NEW parse, NEW c, Granted(c, parse, as, os, ts, W, L),
         NEW l, NEW s, Onward(c, l, s), s.p.tkpos \in Places(ts), Fine(parse[Call(l, s)])
  PROVE  /\ CallBuilt(l, os, ts, W, L, s, parse[Call(l, s)])
         /\ Follows(s.p, parse[Call(l, s)])
         /\ l # "components" => /\ ReadOn(l, as, os, ts, s.p.reject, s.p.tkpos, parse[Call(l, s)])
                                /\ Consumes(s.p, parse[Call(l, s)])
         /\ l = "components" => ReadsAt(l, as, os, ts, s.p.reject, s.p.tkpos, parse[Call(l, s)])
<1> DEFINE y == Call(l, s)
           v == parse[y]
<1>0. IsCall(c, as, os, ts) /\ AllReturned(parse, as, os, ts) /\ ReadBelow(c, parse, as, os, ts)
      /\ BuildsBelow(c, parse, as, os, ts, W, L)
  BY DEF Granted
<1>1. y.r = s /\ y.production = l /\ l \in Productions
  BY DEF Call, Onward
<1>2. Below(y, c, as, os, ts)
  BY <1>0, Smaller
<1>3. /\ ReadsAt(l, as, os, ts, s.p.reject, s.p.tkpos, v)
      /\ l # "components" => Answered(s.p, v)
  BY <1>0, OnwardReads
<1>4. Returned(y, v)
  BY <1>0, <1>2 DEF AllReturned, Below
<1>5. IsSpec(ts)
  BY <1>0 DEF IsCall, IsParser
<1> HIDE DEF y
<1>6. CallBuilds(y, parse, os, ts, W, L)
  BY <1>0, <1>2 DEF BuildsBelow
<1>7. CallBuilt(l, os, ts, W, L, s, v)
  BY <1>1, <1>6 DEF CallBuilds
<1> HIDE DEF v
<1>8. Fine(v)
  BY DEF v, y
<1>9. Follows(s.p, v) /\ (l # "components" => Consumes(s.p, v))
  BY <1>1, <1>3, <1>4, <1>8 DEF Returned, Consumes, Fine, Answered
<1>10. l # "components" => ReadOn(l, as, os, ts, s.p.reject, s.p.tkpos, v)
  BY <1>1, <1>3, <1>5, <1>8, FineRead DEF Productions
<1> QED BY <1>3, <1>7, <1>9, <1>10 DEF v, y

LEMMA ShortUnion ==
  ASSUME NEW U, NEW V, NEW W
  PROVE  Short(U \cup V, W) = Short(U, W) \cup Short(V, W)
BY DEF Short

LEMMA MoreEnds ==
  ASSUME NEW r, NEW a, IsPiece(Add(r, a))
  PROVE  MoreOf(r, a).r.start = Add(r, a).start /\ MoreOf(r, a).r.end = Add(r, a).end
<1> DEFINE b == Add(r, a)
<1>1. b = [p |-> b.p, start |-> b.start, end |-> b.end]
  BY DEF IsPiece
<1>2. MoreOf(r, a).r = [b EXCEPT !.p = Next1(b.p)]
  BY <1>1 DEF MoreOf, Call
<1> HIDE DEF b
<1> QED BY <1>1, <1>2 DEF b

LEMMA AlternativesBuild ==
  ASSUME NEW as, NEW os, NEW ts, NEW W \in Nat, NEW L, NEW parse, NEW c, Granted(c, parse, as, os, ts, W, L),
         c.production = "choice", c.r.p.tkpos \in Places(ts)
  PROVE  CallBuilt("choice", os, ts, W, L, c.r, Alternatives(c.r, parse))
<1> DEFINE r == c.r
           p == r.p
           i == p.tkpos
           a == parse[Call("atom", r)]
           b == Add(r, a)
           y == MoreOf(r, a)
           v == Alternatives(r, parse)
           m == a.p.tkpos
<1>0. /\ IsCall(c, as, os, ts) /\ AllReturned(parse, as, os, ts) /\ Labels(L, os, ts)
      /\ IsPiece(r) /\ IsParser(p) /\ p.tokens = ts /\ i \in Places(ts)
  BY DEF Granted, IsCall
<1>1. Len(ts) \in Nat
  BY <1>0, Fields
<1>2. FromFirst(r, parse, a, v)
  BY AlternativesIs
<1> HIDE DEF v
<1> SUFFICES ASSUME Fine(v), r.start # r.end PROVE Stands("choice", os, ts, W, L, r, v)
  BY DEF CallBuilt, v
<1>3. Fine(a)
  BY <1>2 DEF FromFirst, Fine
<1>4. Onward(c, "atom", r)
  BY <1>0, AlternativesStep
<1>5. /\ CallBuilt("atom", os, ts, W, L, r, a) /\ Consumes(p, a)
      /\ ReadOn("atom", as, os, ts, p.reject, i, a)
  <2> HIDE DEF r
  <2>1. r.p.tkpos \in Places(ts) /\ Fine(parse[Call("atom", r)])
    BY <1>0, <1>3
  <2> QED BY <1>4, <2>1, OnwardBuilds
<1> HIDE DEF a, r
<1>6. Stands("atom", os, ts, W, L, r, a)
  BY <1>3, <1>5 DEF CallBuilt
<1>7. PICK D, U : Short(U, W) = Means(os, ts, W, "atom", i, m) /\ AtomBuilt(p, a, D, U, L)
  BY <1>6 DEF Stands, Symbol
<1>8. m \in Places(ts) /\ m \in Nat /\ Derives(ts, "atom", i, m) /\ Follows(p, a)
  BY <1>5 DEF ReadOn, Consumes
<1>9. PICK E : ChoiceBuilt(r, b, E, U, L)
  BY <1>0, <1>7, <1>8, AddBuilt
<1>10. AddedTo(r, a, b, y)
  BY <1>0, <1>5, MoreIs
<1>11. IsPiece(b) /\ IsParser(b.p) /\ b.p.tkpos = m /\ b.p.tokens = ts
  BY <1>0, <1>10 DEF AddedTo, Consumes, Follows, Grows, Same, IsPiece
<1>12. Is(b.p, "choice") <=> m <= Len(ts) /\ ts[m].typ = "choice"
  BY <1>1, <1>8, <1>11, PlaceIs
<1>13. CASE ~Is(b.p, "choice")
  <2>1. v = b
    BY <1>2, <1>3, <1>13 DEF FromFirst, Fine
  <2>2. Means(os, ts, W, "choice", i, m) = Means(os, ts, W, "atom", i, m)
    BY <1>0, <1>1, <1>8, MeansChoice
  <2> HIDE DEF b
  <2> QED BY <1>7, <1>9, <1>11, <2>1, <2>2 DEF Stands, Symbol
<1>14. CASE Is(b.p, "choice")
  <2> DEFINE x == y.r
             j == v.p.tkpos
  <2>1. v = parse[y]
    BY <1>2, <1>3, <1>14 DEF FromFirst, Fine
  <2>2. /\ y = Call("choice", x) /\ IsPiece(x) /\ Grows(p, x.p) /\ x.p.tkpos = m + 1 /\ p.tkpos < x.p.tkpos
        /\ p.tkpos <= Len(p.tokens)
    BY <1>10 DEF AddedTo, Consumes
  <2>3. x.start = b.start /\ x.end = b.end
    BY <1>11, MoreEnds
  <2>4. m + 1 \in Places(ts) /\ ts[m].typ = "choice"
    BY <1>1, <1>8, <1>12, <1>14 DEF Places
  <2>5. x.start # x.end
    BY <1>9, <2>3 DEF ChoiceBuilt
  <2> HIDE DEF y, x, b, j
  <2>6. Onward(c, "choice", x)
    BY <2>2 DEF Onward, Productions, r
  <2>7. x.p.tkpos \in Places(ts) /\ Fine(parse[Call("choice", x)])
    BY <2>1, <2>2, <2>4
  <2>8. /\ CallBuilt("choice", os, ts, W, L, x, v) /\ Follows(x.p, v)
        /\ ReadOn("choice", as, os, ts, x.p.reject, x.p.tkpos, v)
    <3>1. /\ CallBuilt("choice", os, ts, W, L, x, parse[Call("choice", x)]) /\ Follows(x.p, parse[Call("choice", x)])
          /\ ReadOn("choice", as, os, ts, x.p.reject, x.p.tkpos, parse[Call("choice", x)])
      BY <2>6, <2>7, OnwardBuilds
    <3> QED BY <2>1, <2>2, <3>1
  <2>9. Stands("choice", os, ts, W, L, x, v)
    BY <2>5, <2>8 DEF CallBuilt
  <2>10. PICK F, V : Short(V, W) = Means(os, ts, W, "choice", m + 1, j) /\ ChoiceBuilt(x, v, F, V, L)
    BY <2>2, <2>9 DEF Stands, Symbol, j
  <2>11. ChoiceBuilt(r, v, E \cup F, U \cup V, L)
    BY <1>0, <1>8, <1>9, <2>8, <2>10, MoreBuilt DEF x, y, b
  <2>12. j \in Places(ts) /\ Derives(ts, "choice", m + 1, j)
    BY <2>2, <2>8 DEF ReadOn, j
  <2>13. Means(os, ts, W, "choice", i, j) = Means(os, ts, W, "atom", i, m) \cup Means(os, ts, W, "choice", m + 1, j)
    BY <1>0, <1>1, <1>8, <2>4, <2>12, MeansChoice
  <2>14. Short(U \cup V, W) = Means(os, ts, W, "choice", i, j)
    <3>1. Short(U \cup V, W) = Short(U, W) \cup Short(V, W)
      BY ShortUnion
    <3> QED BY <1>7, <2>10, <2>13, <3>1, Zenon
  <2> QED BY <2>11, <2>14 DEF Stands, Symbol, j
<1> QED BY <1>13, <1>14

LEMMA ComponentsBuild ==
  ASSUME NEW as, NEW os, NEW ts, NEW W \in Nat, NEW L, NEW parse, NEW c, Granted(c, parse, as, os, ts, W, L),
         c.production \in {"sequence", "components"}, c.r.p.tkpos \in Places(ts), NEW required \in BOOLEAN,
         c.production = "sequence" => required
  PROVE  CallBuilt(c.production, os, ts, W, L, c.r, Components(c.r, required, parse))
<1> DEFINE r == c.r
           p == r.p
           i == p.tkpos
           x == Choice(p)
           s == x.r
           a == parse[x]
           u == AppendComp(r, a)
           v == Components(r, required, parse)
           m == a.p.tkpos
           j == v.p.tkpos
           k == c.production
<1>0. /\ IsCall(c, as, os, ts) /\ AllReturned(parse, as, os, ts) /\ Labels(L, os, ts)
      /\ IsPiece(r) /\ IsParser(p) /\ p.tokens = ts /\ i \in Places(ts)
  BY DEF Granted, IsCall
<1>1. Len(ts) \in Nat
  BY <1>0, Fields
<1>2. IsPiece(s) /\ Grows(p, s.p) /\ s.p.tkpos = i /\ x = Call("choice", s)
  <2> HIDE DEF r
  <2> QED BY <1>0, ChoiceIs
<1>3. /\ ~required /\ ~CanAtom(p) => v = r
      /\ (required \/ CanAtom(p)) /\ a.p.err # "" => v = a
      /\ (required \/ CanAtom(p)) /\ a.p.err = "" => v = parse[Call("components", u)]
  BY Zenon DEF Components
<1> HIDE DEF v
<1> SUFFICES ASSUME Fine(v) PROVE Stands(k, os, ts, W, L, r, v) \/ (k = "components" /\ v = r)
  BY DEF CallBuilt, v
<1>4. CASE ~(required \/ CanAtom(p))
  BY <1>3, <1>4
<1>5. CASE required \/ CanAtom(p)
  <2>1. Fine(a) /\ v = parse[Call("components", u)]
    BY <1>3, <1>5 DEF Fine
  <2>2. s.start # s.end
    <3>1. IsParser(NewState(p)) /\ Len(NewState(p).tr) \in Nat
      BY <1>0, NewStateGrows, Fields DEF Grows
    <3>2. Len(NewState(NewState(p)).tr) \in Nat
      <4> DEFINE q == NewState(p)
      <4> HIDE DEF q
      <4>1. IsParser(q)
        BY <3>1 DEF q
      <4>2. Len(NewState(q).tr) = Len(q.tr) + 1 /\ Len(q.tr) \in Nat
        BY <4>1, NewStateGrows, Fields
      <4> QED BY <4>2 DEF q
    <3>3. s.start = Len(NewState(NewState(p)).tr) - 1 /\ s.end = Len(NewState(NewState(p)).tr)
      BY DEF Choice, Call, LastTwo, Piece
    <3> QED BY <3>2, <3>3
  <2> HIDE DEF x, s, a, u, k
  <2>3. Onward(c, "choice", s)
    BY <1>2 DEF Onward, Productions, Level, r
  <2>4. s.p.tkpos \in Places(ts) /\ Fine(parse[Call("choice", s)])
    BY <1>0, <1>2, <2>1 DEF a
  <2>5. /\ CallBuilt("choice", os, ts, W, L, s, a) /\ Consumes(s.p, a) /\ Follows(s.p, a)
        /\ ReadOn("choice", as, os, ts, s.p.reject, s.p.tkpos, a)
    <3>1. /\ CallBuilt("choice", os, ts, W, L, s, parse[Call("choice", s)]) /\ Consumes(s.p, parse[Call("choice", s)])
          /\ Follows(s.p, parse[Call("choice", s)])
          /\ ReadOn("choice", as, os, ts, s.p.reject, s.p.tkpos, parse[Call("choice", s)])
      BY <2>3, <2>4, OnwardBuilds
    <3> QED BY <1>2, <3>1 DEF a
  <2>6. Stands("choice", os, ts, W, L, s, a)
    BY <2>1, <2>2, <2>5 DEF CallBuilt
  <2>7. PICK D, U : Short(U, W) = Means(os, ts, W, "choice", i, m) /\ ChoiceBuilt(s, a, D, U, L)
    BY <1>2, <2>6 DEF Stands, Symbol
  <2>8. m \in Places(ts) /\ m \in Nat /\ Derives(ts, "choice", i, m)
    BY <1>2, <2>5 DEF ReadOn
  <2>9. PICK E : SequenceBuilt(r, u, E, U, L)
    BY <1>0, <2>5, <2>7, AppendBuilt DEF s, x, u
  <2>10. Consumes(p, a)
    <3> HIDE DEF p
    <3>1. Follows(p, a) /\ p.tkpos < a.p.tkpos
      BY <1>0, <1>2, <2>5, FollowsOn
    <3>2. p.tkpos <= Len(p.tokens)
      BY <1>2, <2>5 DEF Grows, Same, Consumes
    <3> QED BY <3>1, <3>2 DEF Consumes
  <2>11. Follows(p, u) /\ IsPiece(u) /\ Grows(p, u.p) /\ u.p.tkpos = m
    BY <1>0, <2>10, AppendFollows DEF u, Consumes, Follows
  <2>12. Onward(c, "components", u)
    BY <2>10, <2>11 DEF Onward, Productions, Consumes, r
  <2>13. u.p.tkpos \in Places(ts) /\ Fine(parse[Call("components", u)])
    BY <2>1, <2>8, <2>11
  <2>14. /\ CallBuilt("components", os, ts, W, L, u, v) /\ Follows(u.p, v)
         /\ ReadsAt("components", as, os, ts, u.p.reject, m, v)
    <3>1. /\ CallBuilt("components", os, ts, W, L, u, parse[Call("components", u)]) /\ Follows(u.p, parse[Call("components", u)])
          /\ ReadsAt("components", as, os, ts, u.p.reject, u.p.tkpos, parse[Call("components", u)])
      BY <2>12, <2>13, OnwardBuilds
    <3> QED BY <2>1, <2>11, <3>1
  <2>15. k \in {"sequence", "components"} /\ Symbol(k) = "sequence" /\ k # "atom" /\ k # "choice"
    BY DEF k, Symbol
  <2>16. CASE v = u
    <3>1. Means(os, ts, W, "sequence", i, m) = Means(os, ts, W, "choice", i, m)
      BY <1>0, <1>1, <2>8, MeansSequence
    <3>2. SequenceBuilt(r, v, E, U, L) /\ Short(U, W) = Means(os, ts, W, "sequence", p.tkpos, v.p.tkpos)
      BY <2>7, <2>9, <2>11, <2>16, <3>1
    <3>3. r.p.tkpos < v.p.tkpos
      BY <2>10, <2>11, <2>16 DEF Consumes
    <3> QED BY <2>15, <3>2, <3>3 DEF Stands
  <2>17. CASE v # u
    <3>1. Stands("components", os, ts, W, L, u, v)
      BY <2>14, <2>17 DEF CallBuilt
    <3>2. PICK F, V : Short(V, W) = Means(os, ts, W, "sequence", m, j) /\ SequenceBuilt(u, v, F, V, L)
      BY <2>11, <3>1 DEF Stands, Symbol
    <3>9. u.p.tkpos < v.p.tkpos
      BY <3>1 DEF Stands
    <3>10. r.p.tkpos < v.p.tkpos
      <4>1. i \in Nat /\ m \in Nat /\ i < m
        BY <1>0, <2>8, <2>10, Fields DEF Consumes
      <4>2. j \in Nat
        BY <1>1, <2>14 DEF ReadsAt, ReadsFine, Read, Places
      <4> HIDE DEF i, j
      <4>3. m < j
        BY <2>11, <3>9 DEF j
      <4>4. i < j
        BY <4>1, <4>2, <4>3
      <4> QED BY <4>4 DEF i, j
    <3>3. SequenceBuilt(r, v, E \cup F, WordsJoined(U, V), L)
      BY <1>0, <2>9, <2>11, <2>14, <3>2, RestBuilt
    <3>4. U \in SUBSET Seq(L) /\ V \in SUBSET Seq(L)
      BY <2>9, <3>2 DEF SequenceBuilt, StandFor
    <3>5. Short(WordsJoined(U, V), W) = Concat(Means(os, ts, W, "choice", i, m), Means(os, ts, W, "sequence", m, j), W)
      BY <2>7, <3>2, <3>4, ShortJoined
    <3>6. j \in Places(ts) /\ (m = j \/ Derives(ts, "sequence", m, j))
      BY <2>14 DEF ReadsAt, ReadsFine, Read
    <3>7. CASE Derives(ts, "sequence", m, j)
      <4>1. Means(os, ts, W, "sequence", i, j) = Concat(Means(os, ts, W, "choice", i, m), Means(os, ts, W, "sequence", m, j), W)
        BY <1>0, <1>1, <2>8, <3>6, <3>7, MeansSequence
      <4> QED BY <2>15, <3>3, <3>5, <3>10, <4>1 DEF Stands
    <3>8. m # j
      BY <2>8, <2>11, <3>9 DEF j
    <3> QED BY <3>6, <3>7, <3>8
  <2> QED BY <2>16, <2>17
<1> QED BY <1>4, <1>5

(***************************************************************************)
(* An atom builds what its token stands for, or what its group does.       *)
(***************************************************************************)
AtomStands(p, v, os, ts, W, L) ==
  \E D, U : AtomBuilt(p, v, D, U, L) /\ Short(U, W) = Means(os, ts, W, "atom", p.tkpos, v.p.tkpos)

\* What r built is what the tokens of an item from p on stand for.
ItemStands(p, r, os, ts, W, L) ==
  /\ IsPiece(r) /\ Grows(p, r.p) /\ p.tokens = ts /\ r.p.tkpos \in Places(ts)
  /\ Derives(ts, "item", p.tkpos, r.p.tkpos)
  /\ \E D, U : AtomBuilt(p, r, D, U, L) /\ Short(U, W) = Means(os, ts, W, "item", p.tkpos, r.p.tkpos)

LEMMA MeansRep ==
  ASSUME NEW L, NEW os, NEW s, Len(s) \in Nat, Labels(L, os, s), NEW W \in Nat \ {0},
         NEW i \in Places(s), NEW e \in Places(s), Derives(s, "item", i, e),
         NEW U \in SUBSET Seq(L), Short(U, W) = Means(os, s, W, "item", i, e)
  PROVE  /\ ~Sees(s, e, "rep") => Short(U, W) = Means(os, s, W, "atom", i, e)
         /\ Sees(s, e, "rep") => Short(OnceOrMore(U, L), W) = Means(os, s, W, "atom", i, e + 1)
<1>1. /\ i \in 1 .. Len(s) /\ i < e /\ s[i].typ # "dblDash" /\ s[e - 1].typ # "rep"
  BY ItemToken
<1>2. W \in Nat /\ e \in Nat /\ i \in Nat
  BY DEF Places
<1>3. ASSUME ~Sees(s, e, "rep") PROVE Short(U, W) = Means(os, s, W, "atom", i, e)
  <2>1. Derives(s, "atom", i, e)
    BY Rules
  <2>2. Means(os, s, W, "atom", i, e) = Means(os, s, W, "item", i, e)
    BY <1>1, <1>2, <2>1, MeansAtom
  <2> QED BY <2>2
<1>4. ASSUME Sees(s, e, "rep") PROVE Short(OnceOrMore(U, L), W) = Means(os, s, W, "atom", i, e + 1)
  <2>1. e + 1 \in Places(s) /\ (e + 1) - 1 = e /\ s[e].typ = "rep" /\ e + 1 > i + 1
    BY <1>1, <1>2, <1>4 DEF Places, Sees
  <2>2. Derives(s, "atom", i, e + 1)
    BY <2>1, Rules
  <2>3. Means(os, s, W, "atom", i, e + 1) = Repeated(Means(os, s, W, "item", i, e), W)
    BY <1>1, <1>2, <2>1, <2>2, MeansAtom
  <2>4. Short(OnceOrMore(U, L), W) = Repeated(Short(U, W), W)
    BY ShortRounds
  <2> QED BY <2>3, <2>4
<1> QED BY <1>3, <1>4

LEMMA RepStands ==
  ASSUME NEW L, NEW os, NEW ts, Len(ts) \in Nat, Labels(L, os, ts), NEW W \in Nat \ {0},
         NEW p, IsParser(p), p.tkpos \in Places(ts), NEW r, ItemStands(p, r, os, ts, W, L)
  PROVE  AtomStands(p, Rep(r), os, ts, W, L)
<1> DEFINE i == p.tkpos
           e == r.p.tkpos
           v == Rep(r)
<1>1. /\ IsPiece(r) /\ Grows(p, r.p) /\ p.tokens = ts /\ e \in Places(ts) /\ Derives(ts, "item", i, e)
  BY DEF ItemStands
<1>2. PICK D, U : AtomBuilt(p, r, D, U, L) /\ Short(U, W) = Means(os, ts, W, "item", i, e)
  BY DEF ItemStands
<1>3. v.p.tkpos = IF Is(r.p, "rep") THEN e + 1 ELSE e
  BY <1>1, RepGrows
<1>4. Is(r.p, "rep") <=> Sees(ts, e, "rep")
  <2>1. r.p.tokens = ts /\ e \in Nat
    BY <1>1 DEF Grows, Same, Places
  <2> QED BY <2>1, PlaceIs DEF Sees
<1>5. PICK E : AtomBuilt(p, v, E, IF Is(r.p, "rep") THEN OnceOrMore(U, L) ELSE U, L)
  BY <1>1, <1>2, RepBuilt
<1>6. U \in SUBSET Seq(L)
  BY <1>2 DEF AtomBuilt, StandFor
<1> HIDE DEF i, e, v
<1>7. i \in Places(ts)
  BY DEF i
<1>8. /\ ~Sees(ts, e, "rep") => Short(U, W) = Means(os, ts, W, "atom", i, e)
      /\ Sees(ts, e, "rep") => Short(OnceOrMore(U, L), W) = Means(os, ts, W, "atom", i, e + 1)
  BY <1>1, <1>2, <1>6, <1>7, MeansRep
<1>9. \E F, V : AtomBuilt(p, v, F, V, L) /\ Short(V, W) = Means(os, ts, W, "atom", i, v.p.tkpos)
  <2>1. CASE Sees(ts, e, "rep")
    <3>1. AtomBuilt(p, v, E, OnceOrMore(U, L), L)
      BY <1>4, <1>5, <2>1
    <3>2. Short(OnceOrMore(U, L), W) = Means(os, ts, W, "atom", i, v.p.tkpos)
      BY <1>3, <1>4, <1>8, <2>1
    <3> QED BY <3>1, <3>2
  <2>2. CASE ~Sees(ts, e, "rep")
    <3>1. AtomBuilt(p, v, E, U, L)
      BY <1>4, <1>5, <2>2
    <3>2. Short(U, W) = Means(os, ts, W, "atom", i, v.p.tkpos)
      BY <1>3, <1>4, <1>8, <2>2
    <3> QED BY <3>1, <3>2
  <2> QED BY <2>1, <2>2
<1> QED BY <1>9 DEF AtomStands, i, v

LEMMA BuiltFrom ==
  ASSUME NEW p, NEW q, q.tr = p.tr, NEW v, NEW w, w.p.tr = v.p.tr, w.start = v.start, w.end = v.end,
         NEW D, NEW U, NEW L, AtomBuilt(q, v, D, U, L)
  PROVE  AtomBuilt(p, w, D, U, L)
<1>1. Since(p, w.p) = Since(q, v.p)
  BY DEF Since
<1>2. Adds(p, w.p, D)
  BY DEF Adds, AtomBuilt
<1> QED BY <1>1, <1>2 DEF AtomBuilt

LEMMA ShortOne ==
  ASSUME NEW m, NEW W \in Nat \ {0}
  PROVE  Short({<<m>>}, W) = {<<m>>}
<1>1. Len(<<m>>) = 1
  OBVIOUS
<1>2. 1 <= W
  OBVIOUS
<1> QED BY <1>1, <1>2 DEF Short

\* A single matcher, for the token at p.
LEMMA SingleStands ==
  ASSUME NEW os, NEW ts, NEW W \in Nat \ {0}, NEW p, IsParser(p), p.tokens = ts, ~Eof(p),
         NEW m \in Matchers(p.args, p.options), From(m, p.args, p.options, ts), m.kind # "shortcut",
         NEW w, w.p.tr = Single(Next1(p), m).p.tr, w.start = Single(Next1(p), m).start, w.end = Single(Next1(p), m).end,
         IsPiece(w), Grows(p, w.p), w.p.tkpos \in Places(ts), Derives(ts, "item", p.tkpos, w.p.tkpos),
         Means(os, ts, W, "item", p.tkpos, w.p.tkpos) = {<<m>>}
  PROVE  ItemStands(p, w, os, ts, W, Matchers(p.args, p.options))
<1> DEFINE q == Next1(p)
           L == Matchers(p.args, p.options)
           v == Single(q, m)
<1>1. /\ IsParser(q) /\ q.args = p.args /\ q.options = p.options /\ q.tokens = p.tokens /\ q.tr = p.tr
  BY NextGrows DEF Grows, Same
<1> HIDE DEF q
<1>2. m \in Matchers(q.args, q.options) /\ From(m, q.args, q.options, q.tokens)
  BY <1>1
<1>3. PICK D : AtomBuilt(q, Single(q, m), D, {<<m>>}, Matchers(q.args, q.options))
  BY <1>1, <1>2, SingleBuilt
<1>4. AtomBuilt(q, v, D, {<<m>>}, L)
  BY <1>1, <1>3
<1>5. w.p.tr = v.p.tr /\ w.start = v.start /\ w.end = v.end
  BY DEF q
<1> HIDE DEF v, L
<1>6. AtomBuilt(p, w, D, {<<m>>}, L)
  BY <1>1, <1>4, <1>5, BuiltFrom
<1>7. Short({<<m>>}, W) = Means(os, ts, W, "item", p.tkpos, w.p.tkpos)
  BY ShortOne
<1> QED BY <1>6, <1>7 DEF ItemStands, L

LEMMA ElementStands ==
  ASSUME NEW os, NEW ts, NEW W \in Nat \ {0}, NEW p, IsParser(p), p.tokens = ts, p.tkpos \in Places(ts), ~Eof(p),
         Labels(Matchers(p.args, p.options), os, ts),
         NEW m \in Matchers(p.args, p.options), From(m, p.args, p.options, ts), m.kind # "shortcut",
         Token(p).typ \in {"pos", "options", "optSeq"}, Means(os, ts, W, "item", p.tkpos, p.tkpos + 1) = {<<m>>}
  PROVE  AtomStands(p, Element(p, m), os, ts, W, Matchers(p.args, p.options))
<1> DEFINE q == Next1(p)
           w == Single(q, m)
           i == p.tkpos
<1>1. /\ i \in Nat /\ Len(ts) \in Nat /\ i + 1 \in Places(ts) /\ ts[i] = Token(p)
  BY AtPlace
<1>2. Grows(p, q) /\ IsParser(q) /\ q.tkpos = i + 1 /\ q.args = p.args /\ q.options = p.options /\ q.tokens = ts
  BY NextGrows DEF Grows, Same
<1> HIDE DEF q
<1>3. m \in Matchers(q.args, q.options) /\ From(m, q.args, q.options, q.tokens)
  BY <1>2
<1>4. IsPiece(w) /\ Grows(q, w.p) /\ w.p.tkpos = i + 1
  BY <1>2, <1>3, SingleGrows
<1>5. w.p.tr = Single(Next1(p), m).p.tr /\ w.start = Single(Next1(p), m).start /\ w.end = Single(Next1(p), m).end
  BY DEF q
<1>6. Element(p, m) = Rep(w)
  BY DEF Element, q
<1> HIDE DEF w
<1>7. Grows(p, w.p)
  BY <1>2, <1>4, GrowsOn
<1>8. Derives(ts, "item", i, w.p.tkpos) /\ w.p.tkpos \in Places(ts)
  BY <1>1, <1>4, ElementRule
<1>9. Means(os, ts, W, "item", i, w.p.tkpos) = {<<m>>}
  BY <1>4
<1>10. ItemStands(p, w, os, ts, W, Matchers(p.args, p.options))
  BY <1>4, <1>5, <1>7, <1>8, <1>9, SingleStands
<1> QED BY <1>1, <1>6, <1>10, RepStands

LEMMA ValuedStands ==
  ASSUME NEW os, NEW ts, NEW W \in Nat \ {0}, NEW p, IsParser(p), p.tokens = ts, p.tkpos \in Places(ts), ~Eof(p),
         Labels(Matchers(p.args, p.options), os, ts),
         Token(p).typ \in {"shortOpt", "longOpt"}, Token(p).val \in Declared(p)
  PROVE  AtomStands(p, Valued(p), os, ts, W, Matchers(p.args, p.options))
<1> DEFINE q == Next1(p)
           m == OptMatcher(Token(p).val, p.tkpos)
           x == Single(q, m)
           w == WithValue(x)
           i == p.tkpos
           L == Matchers(p.args, p.options)
<1>1. /\ i \in Nat /\ Len(ts) \in Nat /\ i + 1 \in Places(ts) /\ ts[i] = Token(p)
  BY AtPlace
<1>2. Grows(p, q) /\ IsParser(q) /\ q.tkpos = i + 1 /\ q.args = p.args /\ q.options = p.options /\ q.tokens = ts
  BY NextGrows DEF Grows, Same
<1>3. m \in L /\ From(m, p.args, p.options, ts) /\ m.kind # "shortcut"
  BY MatchersOfTokens DEF OptMatcher
<1>4. Valued(p) = Rep(w)
  BY DEF Valued
<1>5. x = Single(Next1(p), m)
  OBVIOUS
<1>6. m = OptMatcher(Token(p).val, i)
  OBVIOUS
<1> HIDE DEF q, m
<1>7. m \in Matchers(q.args, q.options) /\ From(m, q.args, q.options, q.tokens)
  BY <1>2, <1>3
<1>8. IsPiece(x) /\ Grows(q, x.p) /\ x.p.tkpos = i + 1
  BY <1>2, <1>7, SingleGrows
<1> HIDE DEF x
<1>9. /\ IsPiece(w) /\ Grows(x.p, w.p) /\ w.start = x.start /\ w.end = x.end
      /\ w.p.tkpos = IF Is(x.p, "optValue") THEN x.p.tkpos + 1 ELSE x.p.tkpos
  BY <1>8, WithValueGrows
<1>10. w.p.tr = x.p.tr
  <2>1. IsParser(x.p) /\ Next1(x.p).tr = x.p.tr
    BY <1>8, NextGrows DEF Grows
  <2>2. x = [p |-> x.p, start |-> x.start, end |-> x.end]
    BY <1>8 DEF IsPiece
  <2> QED BY <2>1, <2>2 DEF WithValue
<1> HIDE DEF w
<1>11. Grows(p, w.p)
  <2>1. Grows(p, x.p)
    BY <1>2, <1>8, GrowsOn
  <2> QED BY <1>9, <2>1, GrowsOn
<1>12. Derives(ts, "item", i, w.p.tkpos) /\ w.p.tkpos \in Places(ts)
  <2>1. x.p.tokens = ts
    BY <1>2, <1>8 DEF Grows, Same
  <2>2. Is(x.p, "optValue") <=> i + 1 <= Len(ts) /\ ts[i + 1].typ = "optValue"
    BY <1>1, <1>8, <2>1, PlaceIs
  <2>3. ts[i].typ \in {"shortOpt", "longOpt"}
    BY <1>1
  <2>4. CASE Is(x.p, "optValue")
    <3>1. w.p.tkpos = i + 2
      BY <1>1, <1>8, <1>9, <2>4
    <3>2. i + 2 \in Places(ts)
      BY <1>1, <2>2, <2>4 DEF Places
    <3> QED BY <1>1, <2>2, <2>3, <2>4, <3>1, <3>2, ElementRule
  <2>5. CASE ~Is(x.p, "optValue")
    <3>1. w.p.tkpos = i + 1
      BY <1>8, <1>9, <2>5
    <3> QED BY <1>1, <2>3, <3>1, ElementRule
  <2> QED BY <2>4, <2>5
<1>13. Means(os, ts, W, "item", i, w.p.tkpos) = {<<m>>}
  <2>1. ts[i].typ \in {"shortOpt", "longOpt"}
    BY <1>1
  <2>2. Means(os, ts, W, "item", i, w.p.tkpos) = {<<OptMatcher(ts[i].val, i)>>}
    BY <1>1, <1>12, <2>1, MeansItem
  <2> QED BY <1>1, <1>6, <2>2
<1>14. w.p.tr = Single(Next1(p), m).p.tr /\ w.start = Single(Next1(p), m).start /\ w.end = Single(Next1(p), m).end
  BY <1>5, <1>9, <1>10
<1>15. ItemStands(p, w, os, ts, W, L)
  BY <1>3, <1>9, <1>11, <1>12, <1>13, <1>14, SingleStands
<1> QED BY <1>1, <1>4, <1>15, RepStands

LEMMA DashesStand ==
  ASSUME NEW os, NEW ts, NEW W \in Nat \ {0}, NEW p, IsParser(p), p.tokens = ts, p.tkpos \in Places(ts), ~Eof(p),
         Labels(Matchers(p.args, p.options), os, ts), Token(p).typ = "dblDash"
  PROVE  AtomStands(p, Single([Next1(p) EXCEPT !.reject = TRUE], OptsEnd), os, ts, W, Matchers(p.args, p.options))
<1> DEFINE n == Next1(p)
           q == [n EXCEPT !.reject = TRUE]
           v == Single(q, OptsEnd)
           i == p.tkpos
           L == Matchers(p.args, p.options)
<1>1. /\ i \in Nat /\ Len(ts) \in Nat /\ i + 1 \in Places(ts) /\ ts[i] = Token(p)
  BY AtPlace
<1>2. IsParser(n) /\ n.tkpos = i + 1 /\ n.args = p.args /\ n.options = p.options /\ n.tokens = ts /\ n.tr = p.tr
  BY NextGrows DEF Grows, Same
<1> HIDE DEF n
<1>3. IsParser(q) /\ q.args = p.args /\ q.options = p.options /\ q.tokens = ts /\ q.tr = p.tr
  BY <1>2, DashesGrow DEF Grows, Same
<1>4. v.p.tkpos = i + 1
  BY DashesAnswer DEF n
<1> HIDE DEF q
<1>5. /\ OptsEnd \in Matchers(q.args, q.options) /\ From(OptsEnd, q.args, q.options, q.tokens)
      /\ OptsEnd.kind # "shortcut"
  BY NoNames DEF OptsEnd
<1>6. PICK D : AtomBuilt(q, Single(q, OptsEnd), D, {<<OptsEnd>>}, Matchers(q.args, q.options))
  BY <1>3, <1>5, SingleBuilt
<1>7. AtomBuilt(p, v, D, {<<OptsEnd>>}, L)
  BY <1>3, <1>6, BuiltFrom
<1>8. Derives(ts, "atom", i, i + 1)
  BY <1>1, Rules
<1>9. Means(os, ts, W, "atom", i, i + 1) = {<<OptsEnd>>}
  <2>1. ts[i].typ = "dblDash" /\ W \in Nat /\ i \in Places(ts) /\ Labels(L, os, ts)
    BY <1>1
  <2> HIDE DEF i, L
  <2> QED BY <1>1, <1>8, <2>1, MeansAtom
<1>10. Short({<<OptsEnd>>}, W) = Means(os, ts, W, "atom", i, v.p.tkpos)
  BY <1>4, <1>9, ShortOne
<1> HIDE DEF v, L
<1>11. AtomStands(p, v, os, ts, W, L)
  BY <1>7, <1>10 DEF AtomStands
<1> QED BY <1>11 DEF v, q, n, L

\* The words of a group: those of the sequence in it, and the empty one if it may be skipped.
GroupWords(typ, U) == IF typ = "openSq" THEN {<<>>} \cup U ELSE U

LEMMA ShortGroup ==
  ASSUME NEW typ, NEW U, NEW W \in Nat
  PROVE  Short(GroupWords(typ, U), W) = GroupWords(typ, Short(U, W))
<1>1. Short({<<>>}, W) = {<<>>}
  BY DEF Short
<1>2. Short({<<>>} \cup U, W) = Short({<<>>}, W) \cup Short(U, W)
  BY ShortUnion
<1> QED BY <1>1, <1>2 DEF GroupWords

\* The piece w of a group whose sequence is a, before what follows the group.
LEMMA GroupItem ==
  ASSUME NEW os, NEW ts, NEW W \in Nat \ {0}, NEW L, NEW p, IsParser(p), p.tokens = ts, p.tkpos \in Places(ts), ~Eof(p),
         Labels(L, os, ts), NEW typ, <<Token(p).typ, typ>> \in Brackets,
         NEW e \in Places(ts), p.tkpos + 1 < e, e <= Len(ts), ts[e].typ = typ, Derives(ts, "sequence", p.tkpos + 1, e),
         NEW D, NEW U, Short(U, W) = Means(os, ts, W, "sequence", p.tkpos + 1, e),
         NEW w, IsPiece(w), Grows(p, w.p), w.p.tkpos = e + 1,
         AtomBuilt(p, w, D, GroupWords(Token(p).typ, U), L)
  PROVE  ItemStands(p, w, os, ts, W, L)
<1> DEFINE i == p.tkpos
           c == Token(p).typ
<1>1. /\ i \in Nat /\ Len(ts) \in Nat /\ i \in Places(ts) /\ ts[i].typ = c
  BY AtPlace
<1>2. e \in Nat /\ e + 1 \in Places(ts) /\ (e + 1) - 1 = e /\ e + 1 > i + 2
  BY <1>1 DEF Places
<1> HIDE DEF i, c
<1>3. (c = "openPar" /\ typ = "closePar") \/ (c = "openSq" /\ typ = "closeSq")
  <2>1. <<c, typ>> \in Brackets
    BY DEF c
  <2>2. \A a, b : <<c, typ>> = <<a, b>> => c = a /\ typ = b
    OBVIOUS
  <2> QED BY <2>1, <2>2 DEF Brackets
<1>4. Derives(ts, "sequence", i + 1, (e + 1) - 1)
  BY <1>2 DEF i
<1>5. Derives(ts, "item", i, e + 1)
  BY <1>1, <1>2, <1>3, <1>4, ItemRule
<1>6. Means(os, ts, W, "item", i, e + 1) = GroupWords(c, Means(os, ts, W, "sequence", i + 1, e))
  <2>1. /\ c = "openPar" => Means(os, ts, W, "item", i, e + 1) = Means(os, ts, W, "sequence", i + 1, (e + 1) - 1)
        /\ c = "openSq" => Means(os, ts, W, "item", i, e + 1) = {<<>>} \cup Means(os, ts, W, "sequence", i + 1, (e + 1) - 1)
    BY <1>1, <1>2, <1>5, MeansItem
  <2> QED BY <1>2, <1>3, <2>1 DEF GroupWords
<1>7. Short(GroupWords(c, U), W) = Means(os, ts, W, "item", i, e + 1)
  <2>1. Short(GroupWords(c, U), W) = GroupWords(c, Short(U, W))
    BY ShortGroup
  <2> QED BY <1>6, <2>1 DEF i
<1>8. AtomBuilt(p, w, D, GroupWords(c, U), L) /\ w.p.tkpos = e + 1 /\ Derives(ts, "item", p.tkpos, w.p.tkpos)
      /\ w.p.tkpos \in Places(ts) /\ Short(GroupWords(c, U), W) = Means(os, ts, W, "item", p.tkpos, w.p.tkpos)
  BY <1>2, <1>5, <1>7 DEF c, i
<1> QED BY <1>8 DEF ItemStands

LEMMA ClosedKeeps ==
  ASSUME NEW r, IsPiece(r), NEW typ, Is(r.p, typ), Fine(r)
  PROVE  /\ Closed(r, typ).p.tr = r.p.tr /\ Closed(r, typ).start = r.start /\ Closed(r, typ).end = r.end
<1>1. r = [p |-> r.p, start |-> r.start, end |-> r.end] /\ IsParser(r.p)
  BY DEF IsPiece
<1>2. Next1(r.p).tr = r.p.tr
  BY <1>1, NextGrows
<1>3. Closed(r, typ) = [r EXCEPT !.p = Next1(r.p)]
  BY DEF Closed, Expect, Fine
<1> QED BY <1>1, <1>2, <1>3

LEMMA ClosedStands ==
  ASSUME NEW os, NEW ts, NEW W \in Nat \ {0}, NEW L, NEW p, IsParser(p), p.tokens = ts, p.tkpos \in Places(ts), ~Eof(p),
         Labels(L, os, ts), NEW typ, <<Token(p).typ, typ>> \in Brackets,
         NEW e \in Places(ts), p.tkpos + 1 < e, Derives(ts, "sequence", p.tkpos + 1, e),
         NEW D, NEW U, Short(U, W) = Means(os, ts, W, "sequence", p.tkpos + 1, e),
         NEW b, IsPiece(b), Grows(p, b.p), b.p.tkpos = e, AtomBuilt(p, b, D, GroupWords(Token(p).typ, U), L),
         Fine(Rep(Closed(b, typ)))
  PROVE  AtomStands(p, Rep(Closed(b, typ)), os, ts, W, L)
<1> DEFINE d == Closed(b, typ)
           i == p.tkpos
<1>1. i \in Nat /\ e \in Nat /\ i <= Len(ts) /\ Len(ts) \in Nat
  BY AtPlace DEF Places
<1>2. Answered(p, b)
  <2>1. p.tkpos < b.p.tkpos /\ p.tkpos <= Len(p.tokens)
    BY <1>1
  <2>2. Consumes(p, b)
    BY <2>1 DEF Consumes, Follows
  <2> QED BY <2>2, ConsumesAnswers
<1>3. Fine(d)
  BY DEF Rep, Fine
<1>4. Fine(b) /\ Is(b.p, typ) /\ IsPiece(d) /\ Grows(b.p, d.p) /\ d.p.tkpos = e + 1
  BY <1>2, <1>3, ClosedAnswers DEF Fine
<1>5. d.p.tr = b.p.tr /\ d.start = b.start /\ d.end = b.end
  BY <1>4, ClosedKeeps
<1> HIDE DEF d
<1>6. Grows(p, d.p)
  BY <1>4, GrowsOn
<1>7. AtomBuilt(p, d, D, GroupWords(Token(p).typ, U), L)
  BY <1>5, BuiltFrom
<1>8. e <= Len(ts) /\ ts[e].typ = typ
  <2>1. b.p.tokens = ts
    BY DEF Grows, Same
  <2> QED BY <1>1, <1>4, <2>1, PlaceIs
<1>9. ItemStands(p, d, os, ts, W, L)
  BY <1>4, <1>6, <1>7, <1>8, GroupItem
<1>10. AtomStands(p, Rep(d), os, ts, W, L)
  BY <1>1, <1>9, RepStands
<1> QED BY <1>10 DEF d

LEMMA GroupsStand ==
  ASSUME NEW as, NEW os, NEW ts, NEW W \in Nat \ {0}, NEW L, NEW parse, NEW c, Granted(c, parse, as, os, ts, W, L),
         c.r.p.tkpos \in Places(ts), ~Eof(c.r.p), Token(c.r.p).typ \in OpenTypes, Fine(Atom(c.r.p, parse))
  PROVE  AtomStands(c.r.p, Atom(c.r.p, parse), os, ts, W, L)
<1> DEFINE p == c.r.p
           i == p.tkpos
           s == Group(p).r
           a == parse[Group(p)]
           e == a.p.tkpos
           v == Atom(p, parse)
           t == Token(p)
<1>0. /\ IsCall(c, as, os, ts) /\ Labels(L, os, ts) /\ AllReturned(parse, as, os, ts)
      /\ IsParser(p) /\ p.tokens = ts /\ W \in Nat
  BY DEF Granted, IsCall
<1>1. /\ Onward(c, "sequence", s) /\ Group(p) = Call("sequence", s)
      /\ s.p.tkpos = i + 1 /\ s.p.reject = p.reject /\ s.p.tkpos \in Places(ts)
  <2>1. ~Eof(p) /\ IsCall(c, as, os, ts)
    BY <1>0
  <2> QED BY <2>1, GroupOnward
<1>2. /\ t.typ = "openPar" => v = Rep(Closed(a, "closePar"))
      /\ t.typ = "openSq" => v = Rep(Closed(Optional(a), "closeSq"))
  <2>1. /\ Is(p, "openPar") => v = Rep(Closed(a, "closePar"))
        /\ Is(p, "openSq") => v = Rep(Closed(Optional(a), "closeSq"))
    BY AtomIs
  <2>2. /\ t.typ = "openPar" => Is(p, "openPar")
        /\ t.typ = "openSq" => Is(p, "openSq")
    BY DEF Is
  <2> QED BY <2>1, <2>2
<1>3. Answered(s.p, a) /\ IsParser(s.p) /\ Grows(p, s.p)
  <2>1. IsPiece(s) /\ Grows(p, s.p) /\ "sequence" \in Productions /\ "sequence" # "components"
    BY <1>1 DEF Onward, Productions
  <2>2. IsParser(s.p)
    BY <2>1 DEF Grows
  <2> HIDE DEF s
  <2>3. p.args = as /\ p.options = os
    BY <1>0 DEF IsCall
  <2> HIDE DEF p
  <2>4. Answered(s.p, parse[Call("sequence", s)])
    BY <1>0, <2>1, <2>3, CallReturns
  <2> QED BY <1>1, <2>1, <2>2, <2>4
<1>4. Fine(a)
  <2>1. CASE t.typ = "openPar"
    <3>1. Fine(Closed(a, "closePar"))
      BY <1>2, <2>1 DEF Rep, Fine
    <3> HIDE DEF a
    <3> QED BY <1>3, <3>1, ClosedAnswers DEF Fine
  <2>2. CASE t.typ = "openSq"
    <3>1. Fine(Closed(Optional(a), "closeSq"))
      BY <1>2, <2>2 DEF Rep, Fine
    <3> HIDE DEF a
    <3>2. Answered(s.p, Optional(a)) /\ (Optional(a).p.err = "" <=> a.p.err = "")
      BY <1>3, OptionalAnswers
    <3> QED BY <1>3, <3>1, <3>2, ClosedAnswers DEF Fine
  <2> QED BY <2>1, <2>2 DEF OpenTypes
<1> HIDE DEF s, v, t
<1>5. /\ CallBuilt("sequence", os, ts, W, L, s, a) /\ Follows(s.p, a)
      /\ ReadOn("sequence", as, os, ts, s.p.reject, i + 1, a)
  <2>1. Fine(parse[Call("sequence", s)])
    BY <1>1, <1>4
  <2>2. /\ CallBuilt("sequence", os, ts, W, L, s, parse[Call("sequence", s)]) /\ Follows(s.p, parse[Call("sequence", s)])
        /\ ReadOn("sequence", as, os, ts, s.p.reject, s.p.tkpos, parse[Call("sequence", s)])
    BY <1>0, <1>1, <2>1, OnwardBuilds
  <2> QED BY <1>1, <2>2
<1> HIDE DEF a
<1>6. Stands("sequence", os, ts, W, L, s, a)
  BY <1>4, <1>5 DEF CallBuilt
<1>7. PICK D, U : Short(U, W) = Means(os, ts, W, "sequence", i + 1, e) /\ SequenceBuilt(s, a, D, U, L)
  BY <1>1, <1>6 DEF Stands, Symbol
<1>8. e \in Places(ts) /\ i + 1 < e /\ Derives(ts, "sequence", i + 1, e)
  BY <1>5 DEF ReadOn
<1>9. AtomBuilt(p, a, D, U, L) /\ \E E : AtomBuilt(p, Optional(a), E, {<<>>} \cup U, L)
  BY <1>0, <1>5, <1>7, GroupBuilt DEF s
<1>10. IsPiece(a) /\ Grows(p, a.p)
  BY <1>0, <1>3, <1>5, GrowsOn DEF Follows
<1>11. CASE t.typ = "openPar"
  <2>1. AtomBuilt(p, a, D, GroupWords(Token(p).typ, U), L) /\ <<Token(p).typ, "closePar">> \in Brackets
    BY <1>9, <1>11 DEF GroupWords, Brackets, t
  <2>2. v = Rep(Closed(a, "closePar")) /\ Fine(Rep(Closed(a, "closePar")))
    BY <1>2, <1>11 DEF v
  <2>3. AtomStands(p, Rep(Closed(a, "closePar")), os, ts, W, L)
    BY <1>0, <1>7, <1>8, <1>10, <2>1, <2>2, ClosedStands
  <2> QED BY <2>2, <2>3 DEF v
<1>12. CASE t.typ = "openSq"
  <2> DEFINE b == Optional(a)
  <2>0. PICK E : AtomBuilt(p, b, E, {<<>>} \cup U, L)
    BY <1>9
  <2>1. AtomBuilt(p, b, E, GroupWords(Token(p).typ, U), L) /\ <<Token(p).typ, "closeSq">> \in Brackets
    BY <1>12, <2>0 DEF GroupWords, Brackets, t
  <2>2. v = Rep(Closed(b, "closeSq")) /\ Fine(Rep(Closed(b, "closeSq")))
    BY <1>2, <1>12 DEF v
  <2>3. IsPiece(b) /\ Grows(a.p, b.p) /\ b.p.tkpos = e
    BY <1>3, <1>4, OptionalAnswers DEF Fine
  <2> HIDE DEF b
  <2>4. Grows(p, b.p)
    BY <1>0, <1>10, <2>3, GrowsOn
  <2>5. AtomStands(p, Rep(Closed(b, "closeSq")), os, ts, W, L)
    BY <1>0, <1>7, <1>8, <2>1, <2>2, <2>3, <2>4, ClosedStands
  <2> QED BY <2>2, <2>5 DEF v
<1> QED BY <1>11, <1>12 DEF OpenTypes, t

\* The token at p makes the element m.
LEMMA TokenStands ==
  ASSUME NEW os, NEW ts, NEW W \in Nat \ {0}, NEW p, IsParser(p), p.tokens = ts, p.options = os, p.tkpos \in Places(ts), ~Eof(p),
         Labels(Matchers(p.args, p.options), os, ts), ~AtomRefused(p),
         NEW m, Token(p).typ = "pos" => m = ArgMatcher(Token(p).val),
         Token(p).typ = "options" => m = OptsMatcher(os, p.tkpos),
         Token(p).typ = "optSeq" => m = OptsMatcher(Token(p).val, p.tkpos),
         Token(p).typ \in {"pos", "options", "optSeq"}
  PROVE  AtomStands(p, Element(p, m), os, ts, W, Matchers(p.args, p.options))
<1> DEFINE t == Token(p)
           i == p.tkpos
           L == Matchers(p.args, p.options)
<1>1. /\ i \in Nat /\ Len(ts) \in Nat /\ i + 1 \in Places(ts) /\ ts[i] = t
  BY AtPlace
<1>2. Known(p.args, p.options, t)
  BY DEF AtomRefused
<1>3. /\ t.typ = "pos" => t.val \in p.args
      /\ t.typ = "optSeq" => ToSet(t.val) \subseteq Declared(p)
  BY <1>2 DEF Known, Declared
<1>4. m \in L /\ From(m, p.args, p.options, ts)
  BY <1>3, MatchersOfTokens
<1>5. m.kind # "shortcut"
  BY DEF ArgMatcher, OptsMatcher
<1>6. Derives(ts, "item", i, i + 1)
  <2>1. i \in Places(ts) /\ ts[i].typ \in {"pos", "options", "optSeq"}
    BY <1>1
  <2> HIDE DEF i
  <2> QED BY <1>1, <2>1, ElementRule
<1>7. Means(os, ts, W, "item", i, i + 1) = {<<m>>}
  <2>1. i \in Places(ts) /\ W \in Nat /\ Labels(L, os, ts)
    OBVIOUS
  <2>2. /\ ts[i].typ = "pos" => m = ArgMatcher(ts[i].val)
        /\ ts[i].typ = "options" => m = OptsMatcher(os, i)
        /\ ts[i].typ = "optSeq" => m = OptsMatcher(ts[i].val, i)
        /\ ts[i].typ \in {"pos", "options", "optSeq"}
    BY <1>1
  <2> HIDE DEF i, L
  <2>3. /\ ts[i].typ = "pos" => Means(os, ts, W, "item", i, i + 1) = {<<ArgMatcher(ts[i].val)>>}
        /\ ts[i].typ = "options" => Means(os, ts, W, "item", i, i + 1) = {<<OptsMatcher(os, i)>>}
        /\ ts[i].typ = "optSeq" => Means(os, ts, W, "item", i, i + 1) = {<<OptsMatcher(ts[i].val, i)>>}
    BY <1>1, <1>6, <2>1, MeansItem
  <2> QED BY <2>2, <2>3
<1> QED BY <1>4, <1>5, <1>7, ElementStands

LEMMA AtomsBuild ==
  ASSUME NEW as, NEW os, NEW ts, NEW W \in Nat \ {0}, NEW L, NEW parse, NEW c, Granted(c, parse, as, os, ts, W, L),
         c.r.p.tkpos \in Places(ts)
  PROVE  CallBuilt("atom", os, ts, W, L, c.r, Atom(c.r.p, parse))
<1> DEFINE p == c.r.p
           v == Atom(p, parse)
           t == Token(p)
<1>0. /\ IsCall(c, as, os, ts) /\ Labels(L, os, ts) /\ AllReturned(parse, as, os, ts)
      /\ IsParser(p) /\ p.tokens = ts /\ p.args = as /\ p.options = os /\ L = Matchers(p.args, p.options)
  BY DEF Granted, IsCall
<1>1. /\ Eof(p) => v = Failed(p, "Unexpected end of input")
      /\ Is(p, "pos") =>
           v = IF t.val \in p.args THEN Element(p, ArgMatcher(t.val)) ELSE Failed(p, "Undeclared arg")
      /\ Is(p, "options") /\ ~p.reject => v = Element(p, OptsMatcher(p.options, p.tkpos))
      /\ (Is(p, "shortOpt") \/ Is(p, "longOpt")) /\ ~p.reject =>
           v = IF t.val \in Declared(p) THEN Valued(p) ELSE Failed(p, "Undeclared option")
      /\ Is(p, "optSeq") /\ ~p.reject =>
           v = IF ToSet(t.val) \subseteq Declared(p)
               THEN Element(p, OptsMatcher(t.val, p.tkpos)) ELSE Failed(p, "Undeclared option")
      /\ Is(p, "dblDash") => v = Single([Next1(p) EXCEPT !.reject = TRUE], OptsEnd)
  BY AtomIs
<1>2. AtomStep(as, os, ts, p.reject, p.tkpos, parse[Group(p)], v)
  BY <1>0, AtomStepOf
<1>3. Blocked(p.args, p.options, p.tokens, p.reject, p.tkpos) <=> AtomRefused(p)
  BY <1>0, RefusedIs
<1>4. Fine(v) => AtomStands(p, v, os, ts, W, L)
  <2> SUFFICES ASSUME Fine(v) PROVE AtomStands(p, v, os, ts, W, L)
    OBVIOUS
  <2>1. ~AtomRefused(p)
    BY <1>0, <1>2, <1>3 DEF AtomStep, FailsIn
  <2>2. /\ ~Eof(p) /\ t.typ \in AtomTypes /\ Known(p.args, p.options, t) /\ (t.typ \in OptTypes => ~p.reject)
        /\ \A typ : Is(p, typ) <=> t.typ = typ
    BY <2>1 DEF AtomRefused, CanAtom, Is
  <2>3. p.tkpos \in Places(ts)
    OBVIOUS
  <2>4. CASE t.typ \in OpenTypes
    BY <2>2, <2>4, GroupsStand
  <2> HIDE DEF v, t, p
  <2>5. CASE t.typ = "dblDash"
    <3>1. v = Single([Next1(p) EXCEPT !.reject = TRUE], OptsEnd)
      BY <1>1, <2>2, <2>5
    <3> QED BY <1>0, <2>2, <2>3, <2>5, <3>1, DashesStand DEF t
  <2>6. CASE t.typ \in {"shortOpt", "longOpt"}
    <3>1. t.val \in Declared(p)
      BY <2>2, <2>6 DEF Known, Declared
    <3>2. v = Valued(p)
      BY <1>1, <2>2, <2>6, <3>1 DEF OptTypes
    <3> QED BY <1>0, <2>2, <2>3, <2>6, <3>1, <3>2, ValuedStands DEF t
  <2>7. CASE t.typ = "pos"
    <3>1. t.val \in p.args
      BY <2>2, <2>7 DEF Known
    <3>2. v = Element(p, ArgMatcher(t.val))
      BY <1>1, <2>2, <2>7, <3>1
    <3> QED BY <1>0, <2>1, <2>2, <2>3, <2>7, <3>2, TokenStands DEF t
  <2>8. CASE t.typ = "options"
    <3>1. v = Element(p, OptsMatcher(os, p.tkpos))
      BY <1>0, <1>1, <2>2, <2>8 DEF OptTypes
    <3> QED BY <1>0, <2>1, <2>2, <2>3, <2>8, <3>1, TokenStands DEF t
  <2>9. CASE t.typ = "optSeq"
    <3>1. ToSet(t.val) \subseteq Declared(p)
      BY <2>2, <2>9 DEF Known, Declared
    <3>2. v = Element(p, OptsMatcher(t.val, p.tkpos))
      BY <1>1, <2>2, <2>9, <3>1 DEF OptTypes
    <3> QED BY <1>0, <2>1, <2>2, <2>3, <2>9, <3>2, TokenStands DEF t
  <2> QED BY <2>2, <2>4, <2>5, <2>6, <2>7, <2>8, <2>9 DEF AtomTypes, OpenTypes
<1> HIDE DEF v
<1>5. CallBuilt("atom", os, ts, W, L, c.r, v)
  BY <1>4 DEF CallBuilt, Stands, AtomStands, Symbol
<1> QED BY <1>5 DEF v

LEMMA AnswerBuilds ==
  ASSUME NEW as, NEW os, NEW ts, NEW W \in Nat \ {0}, NEW L, NEW parse, NEW c, Granted(c, parse, as, os, ts, W, L),
         c.r.p.tkpos \in Places(ts)
  PROVE  CallBuilt(c.production, os, ts, W, L, c.r, Answer(c, parse))
<1>0. c.production \in Productions /\ W \in Nat
  BY DEF Granted, IsCall
<1>1. CASE c.production = "atom"
  <2>1. Answer(c, parse) = Atom(c.r.p, parse)
    BY <1>1 DEF Answer
  <2> QED BY <1>1, <2>1, AtomsBuild
<1>2. CASE c.production = "choice"
  <2>1. Answer(c, parse) = Alternatives(c.r, parse)
    BY <1>2 DEF Answer
  <2> QED BY <1>0, <1>2, <2>1, AlternativesBuild
<1>3. CASE c.production = "sequence"
  <2>1. Answer(c, parse) = Components(c.r, TRUE, parse)
    BY <1>3 DEF Answer
  <2>2. CallBuilt(c.production, os, ts, W, L, c.r, Components(c.r, TRUE, parse))
    BY <1>0, <1>3, ComponentsBuild
  <2> QED BY <2>1, <2>2
<1>4. CASE c.production = "components"
  <2>1. Answer(c, parse) = Components(c.r, FALSE, parse)
    BY <1>4 DEF Answer
  <2>2. CallBuilt(c.production, os, ts, W, L, c.r, Components(c.r, FALSE, parse))
    BY <1>0, <1>4, ComponentsBuild
  <2> QED BY <2>1, <2>2
<1> QED BY <1>0, <1>1, <1>2, <1>3, <1>4 DEF Productions

LEMMA CallsBuild ==
  ASSUME NEW as, NEW os, NEW ts, Inputs(os, ts), NEW W \in Nat \ {0}, Labels(Matchers(as, os), os, ts)
  PROVE  \A c \in Calls(as, os, ts) : CallBuilds(c, Parses(as, os, ts), os, ts, W, Matchers(as, os))
<1> DEFINE parse == Parses(as, os, ts)
           L == Matchers(as, os)
           S == {c \in Calls(as, os, ts) : CallBuilds(c, parse, os, ts, W, L)}
<1>1. IsParse(parse, as, os, ts)
  BY ParsesAnswer
<1>2. \A c \in Calls(as, os, ts) : CallReads(c, parse)
  BY CallsRead
<1> HIDE DEF parse
<1>3. \A c \in Calls(as, os, ts) : parse[c] = Answer(c, parse)
  BY <1>1 DEF IsParse
<1>4. AllReturned(parse, as, os, ts)
  BY <1>1 DEF IsParse
<1>5. ASSUME NEW c \in Calls(as, os, ts), \A y : Below(y, c, as, os, ts) => y \in S PROVE c \in S
  <2>1. IsCall(c, as, os, ts)
    BY CallIs
  <2>2. ReadBelow(c, parse, as, os, ts)
    BY <1>2 DEF ReadBelow, Below
  <2>3. BuildsBelow(c, parse, as, os, ts, W, L)
    BY <1>5 DEF BuildsBelow
  <2>4. Granted(c, parse, as, os, ts, W, L)
    BY <1>4, <2>1, <2>2, <2>3 DEF Granted
  <2> HIDE DEF L
  <2>5. c.r.p.tkpos \in Places(ts) => CallBuilt(c.production, os, ts, W, L, c.r, Answer(c, parse))
    BY <2>4, AnswerBuilds
  <2>6. CallBuilds(c, parse, os, ts, W, L)
    BY <1>3, <2>5 DEF CallBuilds
  <2> QED BY <2>6
<1> HIDE DEF S
<1>6. Calls(as, os, ts) \subseteq S
  BY <1>5, CallInduction
<1> QED BY <1>6 DEF S, parse

LEMMA NoArcs ==
  ASSUME NEW L, NEW s \in Nat
  PROVE  StandFor({}, s, s, {<<>>}, L)
<1>1. \A V \in SUBSET Seq(L) : \A v \in V : <<>> \o v = v
  OBVIOUS
<1>2. Admits({}, s, s, {<<>>}, L)
  BY <1>1 DEF Admits, WordSettings
<1>3. Confines({}, s, s, {<<>>}, L)
  <2> SUFFICES ASSUME NEW V \in SUBSET Seq(L)
               PROVE  \E B \in WordSettings(L) : FitsArcs(B, {}) /\ V \subseteq B[s] /\ B[s] \subseteq WordsJoined({<<>>}, V)
    BY DEF Confines
  <2> DEFINE B == [n \in Nat |-> V]
  <2>1. B \in WordSettings(L) /\ FitsArcs(B, {}) /\ B[s] = V
    BY DEF WordSettings, FitsArcs
  <2>2. \A v \in V : v \in WordsJoined({<<>>}, V)
    BY <1>1, InJoined
  <2> QED BY <2>1, <2>2
<1>4. {<<>>} \in SUBSET Seq(L)
  OBVIOUS
<1> QED BY <1>2, <1>3, <1>4 DEF StandFor

\* An automaton whose arcs lead to its states is a graph over the matchers.
LEMMA GraphOfArcs ==
  ASSUME NEW p, IsParser(p), p.tr # <<>>, \A d \in Arcs(p.tr) : d[3] \in States(p),
         NEW g, g.tr = p.tr, g.terminal \in SUBSET States(p)
  PROVE  LET E == [m : Matchers(p.args, p.options), next : States(p)]
         IN  IsGraph(g, E) /\ LabelsOf(E) = Matchers(p.args, p.options)
<1> DEFINE L == Matchers(p.args, p.options)
           Q == States(p)
           E == [m : L, next : Q]
           F == [m : L, next : Nat]
<1>1. p.tr \in Seq(Seq(F)) /\ Q = 1 .. Len(p.tr) /\ Len(p.tr) \in Nat /\ DOMAIN p.tr = 1 .. Len(p.tr)
  BY Fields
<1>2. States(g) = Q
  BY DEF States
<1> HIDE DEF L, Q, E
<1>3. \A s \in 1 .. Len(p.tr) : p.tr[s] \in Seq(E)
  <2> SUFFICES ASSUME NEW s \in 1 .. Len(p.tr) PROVE p.tr[s] \in Seq(E)
    OBVIOUS
  <2>1. p.tr[s] \in Seq(F)
    BY <1>1
  <2>2. \A t \in ToSet(p.tr[s]) : t \in F /\ t.next \in Q
    <3> SUFFICES ASSUME NEW t \in ToSet(p.tr[s]) PROVE t \in F /\ t.next \in Q
      OBVIOUS
    <3>1. t \in F
      <4> HIDE DEF F
      <4>1. PICK n \in DOMAIN p.tr[s] : t = p.tr[s][n]
        BY DEF ToSet
      <4> QED BY <2>1, <4>1
    <3>2. <<s, ArcWord(t), t.next>> \in Arcs(p.tr)
      BY InArcs
    <3>3. <<s, ArcWord(t), t.next>>[3] = t.next
      OBVIOUS
    <3> QED BY <3>1, <3>2, <3>3 DEF Q
  <2>3. \A t \in ToSet(p.tr[s]) : t \in E
    BY <2>2 DEF E
  <2> HIDE DEF F
  <2>4. Len(p.tr[s]) \in Nat /\ DOMAIN p.tr[s] = 1 .. Len(p.tr[s])
    BY <2>1
  <2>5. \A n \in 1 .. Len(p.tr[s]) : p.tr[s][n] \in E
    BY <2>3, <2>4 DEF ToSet
  <2>6. p.tr[s] \in [1 .. Len(p.tr[s]) -> E]
    BY <2>1, <2>4, <2>5
  <2> QED BY <2>4, <2>6
<1>4. p.tr \in Seq(Seq(E))
  <2> HIDE DEF F
  <2> DEFINE S == Seq(E)
  <2>1. \A s \in 1 .. Len(p.tr) : p.tr[s] \in S
    BY <1>3
  <2> HIDE DEF S
  <2>2. p.tr \in [1 .. Len(p.tr) -> S]
    BY <1>1, <2>1
  <2> DEFINE tr == p.tr
  <2> HIDE DEF tr
  <2>3. Len(tr) \in Nat /\ tr \in [1 .. Len(tr) -> S]
    BY <1>1, <2>2 DEF tr
  <2>4. tr \in Seq(S)
    BY <2>3
  <2> QED BY <2>4 DEF S, tr
<1>5. IsGraph(g, E)
  <2>1. \A t \in E : t.next \in Q
    BY DEF E
  <2> QED BY <1>2, <1>4, <2>1 DEF IsGraph, Q
<1>6. LabelsOf(E) = L
  <2>1. 1 \in Q
    BY <1>1
  <2>2. \A m \in L : [m |-> m, next |-> 1] \in E /\ [m |-> m, next |-> 1].m = m
    BY <2>1 DEF E
  <2>3. \A m \in L : \E t \in E : t.m = m
    BY <2>2
  <2>4. \A t \in E : t.m \in L
    BY DEF E
  <2> QED BY <2>3, <2>4 DEF LabelsOf
<1> QED BY <1>5, <1>6 DEF L, Q, E

LEMMA LabelsDeclared ==
  ASSUME NEW as, NEW os, NEW ts, Inputs(os, ts), NamesDeclared(as, os, ts)
  PROVE  Labels(Matchers(as, os), os, ts)
<1> DEFINE L == Matchers(as, os)
<1>1. OptsEnd \in L
  BY NoNames
<1>2. Len(ts) \in Nat /\ DOMAIN ts = 1 .. Len(ts) /\ os \in Seq(ToSet(os))
  BY DEF Inputs, IsSpec
<1> SUFFICES ASSUME NEW i \in 1 .. Len(ts)
             PROVE  /\ ts[i].typ = "pos" => ArgMatcher(ts[i].val) \in L
                    /\ ts[i].typ = "options" => OptsMatcher(os, i) \in L
                    /\ ts[i].typ = "optSeq" => OptsMatcher(ts[i].val, i) \in L
                    /\ ts[i].typ \in {"shortOpt", "longOpt"} => OptMatcher(ts[i].val, i) \in L
  BY <1>1 DEF Labels
<1> HIDE DEF L
<1>3. Known(as, os, ts[i]) /\ i \in Nat
  <2>1. i \in DOMAIN ts /\ i \in Nat
    BY <1>2
  <2> QED BY <2>1 DEF NamesDeclared
<1>4. ts[i].typ = "pos" => ArgMatcher(ts[i].val) \in L
  BY <1>3 DEF Known, ArgMatcher, Matchers, L
<1>5. ts[i].typ = "options" => OptsMatcher(os, i) \in L
  BY <1>2, <1>3 DEF OptsMatcher, Matchers, L
<1>6. ts[i].typ = "optSeq" => OptsMatcher(ts[i].val, i) \in L
  <2> SUFFICES ASSUME ts[i].typ = "optSeq" PROVE OptsMatcher(ts[i].val, i) \in L
    OBVIOUS
  <2>1. ToSet(ts[i].val) \subseteq ToSet(os) /\ ts[i].val \in Seq(ToSet(ts[i].val))
    BY <1>2, <1>3 DEF Known, Inputs, IsSpec
  <2>2. ts[i].val \in Seq(ToSet(os))
    BY <2>1
  <2> QED BY <1>3, <2>2 DEF OptsMatcher, Matchers, L
<1>7. ts[i].typ \in {"shortOpt", "longOpt"} => OptMatcher(ts[i].val, i) \in L
  BY <1>3 DEF Known, OptMatcher, Matchers, L
<1> QED BY <1>4, <1>5, <1>6, <1>7

LEMMA FirstPiece ==
  ASSUME NEW as, NEW os, NEW ts, Inputs(os, ts)
  PROVE  LET r == First(as, os, ts).r
         IN  r.start = 1 /\ r.end = 1 /\ Arcs(r.p.tr) = {} /\ Len(r.p.tr) = 1
<1> DEFINE p == Parser(as, os, ts)
           q == NewState(p)
<1>1. IsParser(p) /\ p.tr = <<>>
  BY ParserIs DEF AtStart, Parser
<1>2. First(as, os, ts).r = Piece(q, Len(q.tr), Len(q.tr))
  BY DEF First, Sequence, Call
<1> HIDE DEF p
<1>3. Arcs(q.tr) = Arcs(p.tr) /\ Len(q.tr) = 1
  <2>1. Len(p.tr) = 0
    BY <1>1
  <2>2. Arcs(NewState(p).tr) = Arcs(p.tr) /\ Len(NewState(p).tr) = Len(p.tr) + 1
    BY <1>1, NewStateArcs, NewStateGrows
  <2> QED BY <2>1, <2>2
<1>4. Arcs(p.tr) = {}
  <2>1. 1 .. Len(p.tr) = {}
    BY <1>1
  <2> QED BY <2>1 DEF Arcs
<1> HIDE DEF q
<1> QED BY <1>2, <1>3, <1>4 DEF Piece

\* What the whole parse built stands for what the whole spec means.
LEMMA WholeBuilt ==
  ASSUME NEW as, NEW os, NEW ts, Inputs(os, ts), Valid(as, os, ts), NEW W \in Nat \ {0}
  PROVE  LET v == FinalAnswer(as, os, ts)
             L == Matchers(as, os)
         IN  \E U : /\ Short(U, W) = Means(os, ts, W, "spec", 1, Len(ts) + 1)
                    /\ StandFor(Arcs(v.p.tr), 1, v.end, U, L) /\ v.start = 1
                    /\ \A d \in Arcs(v.p.tr) : d[3] \in States(v.p)
<1> DEFINE c == First(as, os, ts)
           r == c.r
           v == FinalAnswer(as, os, ts)
           L == Matchers(as, os)
           g == UParse(as, os, ts)
           n == Len(ts) + 1
<1>1. /\ c \in Calls(as, os, ts) /\ IsCall(c, as, os, ts) /\ c.production = "components"
      /\ IsParser(r.p) /\ r.p.tkpos = 1
  <2>1. /\ c \in Calls(as, os, ts) /\ IsCall(c, as, os, ts) /\ c.production = "components"
        /\ AtStart(c.r.p, as, os, ts)
    BY FirstIs
  <2> HIDE DEF c
  <2> QED BY <2>1 DEF AtStart
<1>2. r.start = 1 /\ r.end = 1 /\ Arcs(r.p.tr) = {} /\ Len(r.p.tr) = 1
  BY FirstPiece
<1>3. Len(ts) \in Nat /\ n \in Nat /\ 1 \in Places(ts) /\ n \in Places(ts)
  BY DEF Inputs, IsSpec, Places
<1>4. NamesDeclared(as, os, ts) /\ Derives(ts, "spec", 1, n)
  BY DEF Valid
<1>5. Labels(L, os, ts)
  BY <1>4, LabelsDeclared
<1>6. ~Erred(g)
  BY AcceptsTheGrammar DEF Erred
<1>7. Fine(v) /\ Follows(r.p, v)
  <2>1. Results(g, v, c)
    BY ParsedIs DEF FinalAnswer
  <2> HIDE DEF g, v, c
  <2> QED BY <1>6, <2>1 DEF Results, Erred, Fine, r
<1>8. v.p.tkpos = n
  <2>1. ErrsAt(g, v, ts)
    BY ParseErrs
  <2> HIDE DEF v, g
  <2> QED BY <1>3, <1>6, <2>1 DEF ErrsAt, Places
<1>9. CallBuilt("components", os, ts, W, L, r, v)
  <2>1. CallBuilds(c, Parses(as, os, ts), os, ts, W, L)
    BY <1>1, <1>5, CallsBuild
  <2> HIDE DEF c
  <2> QED BY <1>1, <1>3, <2>1 DEF CallBuilds, FinalAnswer, c
<1>10. Means(os, ts, W, "spec", 1, n) = IF n = 1 THEN {<<>>} ELSE Means(os, ts, W, "sequence", 1, n)
  <2> HIDE DEF L, n
  <2>1. W \in Nat
    OBVIOUS
  <2>2. Means(os, ts, W, "spec", 1, n) = IF 1 = n THEN {<<>>} ELSE Means(os, ts, W, "sequence", 1, n)
    BY <1>3, <1>4, <1>5, <2>1, MeansSpec
  <2> QED BY <2>2
<1> HIDE DEF v, L, c
<1>11. CASE v = r
  <2>1. n = 1
    BY <1>1, <1>8, <1>11
  <2>2. Short({<<>>}, W) = Means(os, ts, W, "spec", 1, n)
    BY <1>10, <2>1 DEF Short
  <2>3. StandFor(Arcs(v.p.tr), 1, v.end, {<<>>}, L) /\ v.start = 1
    BY <1>2, <1>11, NoArcs
  <2>4. \A d \in Arcs(v.p.tr) : d[3] \in States(v.p)
    BY <1>2, <1>11
  <2> QED BY <2>2, <2>3, <2>4 DEF v, L
<1>12. CASE v # r
  <2>1. Stands("components", os, ts, W, L, r, v)
    BY <1>7, <1>9, <1>12 DEF CallBuilt
  <2>2. PICK D, U : /\ Short(U, W) = Means(os, ts, W, "sequence", 1, n)
                    /\ r.p.tkpos < v.p.tkpos /\ SequenceBuilt(r, v, D, U, L)
    BY <1>1, <1>8, <2>1 DEF Stands, Symbol
  <2>3. n # 1
    BY <1>1, <1>3, <1>8, <2>2
  <2>4. Short(U, W) = Means(os, ts, W, "spec", 1, n)
    BY <1>10, <2>2, <2>3
  <2>5. Arcs(v.p.tr) = D
    BY <1>2, <2>2 DEF SequenceBuilt, Adds
  <2>6. StandFor(Arcs(v.p.tr), 1, v.end, U, L) /\ v.start = 1
    BY <1>2, <2>2, <2>5 DEF SequenceBuilt
  <2>7. \A d \in Arcs(v.p.tr) : d[3] \in States(v.p)
    <3> SUFFICES ASSUME NEW d \in D PROVE d[3] \in States(v.p)
      BY <2>5
    <3>1. d[3] \in Since(r.p, v.p) \cup {1}
      BY <1>2, <2>2 DEF SequenceBuilt, Among
    <3>2. \A s \in Since(r.p, v.p) : s \in States(v.p)
      <4> HIDE DEF r
      <4> QED BY <1>1, <1>7, SinceIs DEF Follows
    <3>3. 1 \in States(v.p)
      <4>1. Len(v.p.tr) \in Nat /\ 1 <= Len(v.p.tr)
        BY <1>2, <1>7, Fields DEF Follows, Grows
      <4> QED BY <4>1 DEF States
    <3> QED BY <3>1, <3>2, <3>3
  <2> QED BY <2>4, <2>6, <2>7 DEF v, L
<1> QED BY <1>11, <1>12

\* The automaton uParse builds for a valid spec accepts, from its start state, exactly the
\* sequences of at most W matchers the spec stands for, whatever the declared options and
\* arguments and however the sequences, choices, groups, options and repetitions nest.
THEOREM BuildsTheMeaning ==
  ASSUME NEW as, NEW os, NEW ts, Inputs(os, ts), Valid(as, os, ts), NEW W \in Nat \ {0}
  PROVE  LET g == UParse(as, os, ts)
         IN  Words(g, W, g.start) = Means(os, ts, W, "spec", 1, Len(ts) + 1)
<1> DEFINE g == UParse(as, os, ts)
           v == FinalAnswer(as, os, ts)
           p == v.p
           L == Matchers(as, os)
           E == [m : L, next : States(p)]
<1>1. ~Erred(g)
  BY AcceptsTheGrammar DEF Erred
<1>2. g.tr = p.tr /\ g.start = v.start /\ g.terminal = {v.end} /\ Follows(First(as, os, ts).r.p, v)
  BY <1>1, ParsedIs DEF Results, Erred, FinalAnswer
<1>3. PICK U : /\ Short(U, W) = Means(os, ts, W, "spec", 1, Len(ts) + 1)
               /\ StandFor(Arcs(p.tr), 1, v.end, U, L) /\ v.start = 1
               /\ \A d \in Arcs(p.tr) : d[3] \in States(p)
  BY WholeBuilt
<1>4. IsParser(p) /\ p.args = as /\ p.options = os /\ v.start \in States(p) /\ v.end \in States(p)
  <2>1. AtStart(First(as, os, ts).r.p, as, os, ts)
    BY FirstIs
  <2> QED BY <1>2, <2>1 DEF Follows, IsPiece, Grows, Same, AtStart
<1> HIDE DEF g, v
<1>5. p.tr # <<>> /\ States(g) = States(p)
  BY <1>2, <1>4 DEF States
<1>6. IsGraph(g, E) /\ LabelsOf(E) = L
  <2>1. g.terminal \in SUBSET States(p)
    BY <1>2, <1>4
  <2> HIDE DEF p
  <2> QED BY <1>2, <1>3, <1>4, <1>5, <2>1, GraphOfArcs
<1> HIDE DEF E, L
<1>7. Words(g, W, 1) = {w \in U : Len(w) <= W}
  <2>1. StandFor(Arcs(g.tr), 1, v.end, U, LabelsOf(E))
    BY <1>2, <1>3, <1>6
  <2>2. 1 \in States(g) /\ v.end \in States(g) /\ W \in Nat
    BY <1>3, <1>4, <1>5
  <2> QED BY <1>2, <1>6, <2>1, <2>2, LanguageOfArcs
<1> QED BY <1>2, <1>3, <1>7 DEF Short, g

\* What the automaton of a spec accepts is what the spec stands for, at any moment of its
\* writing.
THEOREM MeaningBuilt == Writing => []BuildsMeaning
<1>1. OfTokens => BuildsMeaning
  <2> SUFFICES ASSUME written \in Seq(Alphabet), Valid(Args, Options, written)
               PROVE  LET g == UParse(Args, Options, written)
                      IN  Words(g, MaxMatchers, g.start) = Means(Options, written, MaxMatchers, "spec", 1, Len(written) + 1)
    BY DEF OfTokens, BuildsMeaning
  <2>1. Inputs(Options, written)
    BY SpecWritten
  <2> QED BY <2>1, WordsAssumption, BuildsTheMeaning
<1> QED BY <1>1, Written, PTL

(***************************************************************************)
(* What all the options and then some arguments mean.                      *)
(***************************************************************************)
\* The matchers of the arguments from the token i on.
Matched(ts)     == [k \in 1 .. Len(ts) |-> ArgMatcher(ts[k].val)]
ArgsFrom(ts, i) == SubSeq(Matched(ts), i, Len(ts))

LEMMA SomeLabels ==
  ASSUME NEW os, NEW ts
  PROVE  \E L : Labels(L, os, ts)
<1> DEFINE Of(i) == {ArgMatcher(ts[i].val), OptsMatcher(os, i), OptsMatcher(ts[i].val, i), OptMatcher(ts[i].val, i)}
           L == {OptsEnd} \cup UNION {Of(i) : i \in 1 .. Len(ts)}
<1>1. \A i \in 1 .. Len(ts) : \A x \in Of(i) : x \in L
  <2> HIDE DEF Of
  <2> QED OBVIOUS
<1>2. OptsEnd \in L
  OBVIOUS
<1> HIDE DEF L
<1>3. Labels(L, os, ts)
  BY <1>1, <1>2, Zenon DEF Labels
<1> QED BY <1>3

LEMMA AtomAlone ==
  ASSUME NEW L, NEW os, NEW s, Len(s) \in Nat, Labels(L, os, s), NEW W \in Nat, NEW i \in Places(s), NEW j \in Places(s),
         Derives(s, "atom", i, j)
  PROVE  Means(os, s, W, "choice", i, j) = Means(os, s, W, "atom", i, j)
BY MeansChoice, SMTT(60)

\* One argument.
IsOne(os, ts, W, i) ==
  /\ i \in Places(ts) /\ i + 1 \in Places(ts) /\ Derives(ts, "choice", i, i + 1)
  /\ Means(os, ts, W, "choice", i, i + 1) = {<<ArgMatcher(ts[i].val)>>}

LEMMA OneArgument ==
  ASSUME NEW os, NEW ts, Len(ts) \in Nat, NEW i \in 1 .. Len(ts), ts[i].typ = "pos", NEW W \in Nat
  PROVE  IsOne(os, ts, W, i)
<1> DEFINE j == i + 1
<1>1. i \in Nat /\ i \in Places(ts) /\ j \in Places(ts) /\ j = i + 1 /\ ts[j - 1] = ts[i]
  BY DEF Places
<1> HIDE DEF j
<1>2. Derives(ts, "item", i, j)
  BY <1>1, ItemRule
<1>3. Derives(ts, "atom", i, j) /\ Derives(ts, "choice", i, j)
  BY <1>1, <1>2, Rules
<1>4. PICK L : Labels(L, os, ts)
  BY SomeLabels
<1>5. Means(os, ts, W, "item", i, j) = {<<ArgMatcher(ts[i].val)>>}
  BY <1>1, <1>2, <1>4, MeansItem
<1>6. Means(os, ts, W, "atom", i, j) = Means(os, ts, W, "item", i, j)
  <2>1. ts[i].typ # "dblDash" /\ ts[j - 1].typ # "rep"
    BY <1>1
  <2> QED BY <1>1, <1>3, <1>4, <2>1, MeansAtom
<1>7. Means(os, ts, W, "choice", i, j) = Means(os, ts, W, "atom", i, j)
  BY <1>1, <1>3, <1>4, AtomAlone
<1>8. Derives(ts, "choice", i, j) /\ Means(os, ts, W, "choice", i, j) = {<<ArgMatcher(ts[i].val)>>}
  BY <1>3, <1>5, <1>6, <1>7
<1> QED BY <1>1, <1>8 DEF IsOne

\* The words of a part before one word.
LEMMA BeforeOne ==
  ASSUME NEW U, NEW x, NEW W, \A u \in U : Len(u \o x) <= W
  PROVE  Concat(U, {x}, W) = {u \o x : u \in U}
<1>1. \A y : y \in Concat(U, {x}, W) <=> \E u \in U : y = u \o x
  BY DEF Concat
<1> QED BY <1>1

LEMMA ArgsFollow ==
  ASSUME NEW ts, Len(ts) \in Nat, NEW i \in 1 .. Len(ts)
  PROVE  /\ <<ArgMatcher(ts[i].val)>> \o ArgsFrom(ts, i + 1) = ArgsFrom(ts, i)
         /\ Len(ArgsFrom(ts, i)) = Len(ts) + 1 - i
         /\ i = Len(ts) => ArgsFrom(ts, i) = <<ArgMatcher(ts[i].val)>>
<1> DEFINE n == Len(ts)
           a(k) == ArgMatcher(ts[k].val)
           E == {a(k) : k \in 1 .. n}
           ms == Matched(ts)
<1>1. ms = [k \in 1 .. n |-> a(k)]
  BY DEF Matched
<1>2. \A k \in 1 .. n : a(k) \in E
  OBVIOUS
<1> HIDE DEF a, E, ms
<1>3. ms \in Seq(E) /\ Len(ms) = n /\ \A k \in 1 .. n : ms[k] = a(k)
  BY <1>1, <1>2
<1>4. i \in 1 .. Len(ms) /\ n \in i .. Len(ms)
  BY <1>3
<1>5. SubSeq(ms, i, n) = <<ms[i]>> \o SubSeq(ms, i + 1, n)
  BY <1>3, <1>4, SubSeqRecursiveFirst
<1>6. Len(SubSeq(ms, i, n)) = n + 1 - i
  <2>1. \A k \in i .. n : ms[k] \in E
    BY <1>2, <1>3
  <2>2. Len(SubSeq(ms, i, n)) = n - i + 1
    BY <2>1, SubSeqProperties
  <2> QED BY <2>2
<1>7. i = n => SubSeq(ms, i, n) = <<ms[i]>>
  <2> SUFFICES ASSUME i = n PROVE SubSeq(ms, i, n) = <<ms[i]>>
    OBVIOUS
  <2>1. SubSeq(ms, i + 1, n) = <<>>
    BY SubSeqEmpty
  <2>2. <<ms[i]>> \in Seq(E)
    BY <1>2, <1>3
  <2> QED BY <1>5, <2>1, <2>2, ConcatEmptySeq
<1>8. ms[i] = a(i)
  BY <1>3
<1> QED BY <1>5, <1>6, <1>7, <1>8 DEF ArgsFrom, ms, a

\* The arguments behind one another.
AreThose(os, ts, W, i) ==
  /\ Derives(ts, "sequence", i, Len(ts) + 1)
  /\ Means(os, ts, W, "sequence", i, Len(ts) + 1) = {ArgsFrom(ts, i)}

LEMMA ArgumentsMean ==
  ASSUME NEW os, NEW ts, Len(ts) \in Nat, NEW b \in Nat \ {0}, \A i \in b .. Len(ts) : ts[i].typ = "pos",
         NEW W \in Nat, Len(ts) + 1 - b <= W
  PROVE  \A i \in b .. Len(ts) : AreThose(os, ts, W, i)
<1>0. Len(ts) + 1 \in Places(ts)
  BY DEF Places
<1>1. PICK L : Labels(L, os, ts)
  BY SomeLabels
<1>2. ASSUME NEW i \in b .. Len(ts)
      PROVE  /\ i \in 1 .. Len(ts) /\ i \in Places(ts) /\ i + 1 \in Places(ts) /\ Derives(ts, "choice", i, i + 1)
             /\ Means(os, ts, W, "choice", i, i + 1) = {<<ArgMatcher(ts[i].val)>>}
  <2>1. i \in 1 .. Len(ts) /\ ts[i].typ = "pos"
    OBVIOUS
  <2>2. IsOne(os, ts, W, i)
    BY <2>1, OneArgument
  <2> QED BY <2>1, <2>2 DEF IsOne
<1> DEFINE n == Len(ts) + 1
           Fit(i) == /\ Derives(ts, "sequence", i, n)
                     /\ Means(os, ts, W, "sequence", i, n) = {ArgsFrom(ts, i)}
<1>3. ASSUME NEW i \in b .. Len(ts), i = Len(ts) PROVE Fit(i)
  <2>1. Derives(ts, "choice", i, n) /\ Means(os, ts, W, "choice", i, n) = {<<ArgMatcher(ts[i].val)>>} /\ i \in Places(ts)
    BY <1>2, <1>3
  <2>2. Derives(ts, "sequence", i, n) /\ Means(os, ts, W, "sequence", i, n) = Means(os, ts, W, "choice", i, n)
    BY <1>0, <1>1, <2>1, Rules, MeansSequence
  <2>3. ArgsFrom(ts, i) = <<ArgMatcher(ts[i].val)>>
    BY <1>2, <1>3, ArgsFollow
  <2> QED BY <2>1, <2>2, <2>3
<1>4. ASSUME NEW i \in b .. Len(ts), i # Len(ts), Fit(i + 1) PROVE Fit(i)
  <2>1. Derives(ts, "sequence", i + 1, n) /\ Means(os, ts, W, "sequence", i + 1, n) = {ArgsFrom(ts, i + 1)}
    BY <1>4
  <2>2. n \in Places(ts) /\ i + 1 \in i + 1 .. n - 1
    BY <1>0, <1>4
  <2> HIDE DEF n
  <2>3. Derives(ts, "sequence", i, n)
    BY <1>2, <2>1, <2>2, Rules
  <2> DEFINE u == <<ArgMatcher(ts[i].val)>>
             x == ArgsFrom(ts, i + 1)
  <2>4. Means(os, ts, W, "sequence", i, n) = Concat({u}, {x}, W)
    <3>1. Means(os, ts, W, "sequence", i, n)
            = Concat(Means(os, ts, W, "choice", i, i + 1), Means(os, ts, W, "sequence", i + 1, n), W)
      BY <1>1, <1>2, <2>1, <2>2, MeansSequence
    <3> QED BY <1>2, <2>1, <3>1
  <2>5. u \o x = ArgsFrom(ts, i) /\ Len(ArgsFrom(ts, i)) <= W
    <3>1. i \in 1 .. Len(ts)
      BY <1>2
    <3>2. Len(ts) + 1 - i <= W
      OBVIOUS
    <3>3. u \o x = ArgsFrom(ts, i) /\ Len(ArgsFrom(ts, i)) = Len(ts) + 1 - i
      BY <3>1, ArgsFollow
    <3> QED BY <3>2, <3>3
  <2> HIDE DEF u, x
  <2>6. Concat({u}, {x}, W) = {v \o x : v \in {u}}
    <3>1. \A v \in {u} : Len(v \o x) <= W
      BY <2>5
    <3> QED BY <3>1, BeforeOne
  <2>7. {v \o x : v \in {u}} = {ArgsFrom(ts, i)}
    BY <2>5
  <2> QED BY <2>3, <2>4, <2>6, <2>7
<1> HIDE DEF Fit
<1> DEFINE S == {m \in Nat : \A i \in b .. Len(ts) : i + m = Len(ts) => Fit(i)}
<1>5. 0 \in S
  BY <1>3
<1>6. ASSUME NEW m \in S PROVE m + 1 \in S
  <2> SUFFICES ASSUME NEW i \in b .. Len(ts), i + (m + 1) = Len(ts) PROVE Fit(i)
    OBVIOUS
  <2>1. i + 1 \in b .. Len(ts) /\ (i + 1) + m = Len(ts) /\ i # Len(ts)
    OBVIOUS
  <2>2. Fit(i + 1)
    BY <2>1
  <2> QED BY <1>4, <2>1, <2>2
<1>7. \A m \in Nat : m \in S
  <2>1. S \subseteq Nat
    OBVIOUS
  <2> HIDE DEF S
  <2> QED BY <1>5, <1>6, <2>1, Induction
<1>8. ASSUME NEW i \in b .. Len(ts) PROVE Fit(i)
  <2>1. Len(ts) - i \in Nat /\ i + (Len(ts) - i) = Len(ts)
    OBVIOUS
  <2> QED BY <1>7, <2>1
<1> QED BY <1>8 DEF Fit, AreThose

\* The group of all the options.
LEMMA GroupMeans ==
  ASSUME NEW os, NEW ts, Len(ts) \in Nat, Len(ts) >= 3, ts[1].typ = "openSq", ts[2].typ = "options", ts[3].typ = "closeSq",
         NEW W \in Nat
  PROVE  /\ Derives(ts, "choice", 1, 4)
         /\ Means(os, ts, W, "choice", 1, 4) = {<<>>, <<OptsMatcher(os, 2)>>}
<1>1. \A i \in {1, 2, 3, 4} : i \in Places(ts)
  BY DEF Places
<1>2. PICK L : Labels(L, os, ts)
  BY SomeLabels
<1> HIDE DEF Places
<1>3. Derives(ts, "item", 2, 3) /\ 2 \in Places(ts) /\ 3 \in Places(ts)
  <2>1. 2 \in Places(ts) /\ 3 \in Places(ts) /\ 3 = 2 + 1
    BY <1>1
  <2> QED BY <2>1, ItemRule
<1>4. Derives(ts, "atom", 2, 3)
  BY <1>3, Rules
<1>5. Derives(ts, "choice", 2, 3)
  BY <1>3, <1>4, Rules
<1>6. Derives(ts, "sequence", 2, 3)
  BY <1>3, <1>5, Rules
<1>7. Means(os, ts, W, "sequence", 2, 3) = {<<OptsMatcher(os, 2)>>}
  <2>1. Means(os, ts, W, "item", 2, 3) = {<<OptsMatcher(os, 2)>>}
    BY <1>2, <1>3, MeansItem
  <2>2. Means(os, ts, W, "atom", 2, 3) = Means(os, ts, W, "item", 2, 3)
    <3>1. ts[3 - 1].typ = "options"
      OBVIOUS
    <3> QED BY <1>2, <1>3, <1>4, <3>1, MeansAtom
  <2>3. Means(os, ts, W, "choice", 2, 3) = Means(os, ts, W, "atom", 2, 3)
    BY <1>2, <1>3, <1>4, AtomAlone
  <2>4. Means(os, ts, W, "sequence", 2, 3) = Means(os, ts, W, "choice", 2, 3)
    BY <1>2, <1>3, <1>5, MeansSequence
  <2> QED BY <2>1, <2>2, <2>3, <2>4
<1>8. 1 \in Places(ts) /\ 4 \in Places(ts) /\ 1 + 1 = 2 /\ 4 - 1 = 3 /\ 4 > 1 + 2
  BY <1>1
<1>9. Derives(ts, "item", 1, 4)
  BY <1>6, <1>8, ItemRule
<1>10. Derives(ts, "atom", 1, 4)
  BY <1>8, <1>9, Rules
<1>11. Derives(ts, "choice", 1, 4)
  BY <1>8, <1>10, Rules
<1>12. Means(os, ts, W, "item", 1, 4) = {<<>>} \cup Means(os, ts, W, "sequence", 2, 3)
  BY <1>2, <1>8, <1>9, MeansItem
<1>13. Means(os, ts, W, "atom", 1, 4) = Means(os, ts, W, "item", 1, 4)
  BY <1>2, <1>8, <1>10, MeansAtom
<1>14. Means(os, ts, W, "choice", 1, 4) = Means(os, ts, W, "atom", 1, 4)
  BY <1>2, <1>8, <1>10, AtomAlone
<1>15. {<<>>} \cup {<<OptsMatcher(os, 2)>>} = {<<>>, <<OptsMatcher(os, 2)>>}
  OBVIOUS
<1> QED BY <1>7, <1>11, <1>12, <1>13, <1>14, <1>15

AreMatched(ts, i, ms) ==
  /\ \E E : ms \in Seq(E)
  /\ Len(ms) = Len(ts) + 1 - i
  /\ i = Len(ts) + 1 => ms = <<>>
  /\ \A k \in 1 .. Len(ts) + 1 - i : ms[k] = ArgMatcher(ts[i - 1 + k].val)

LEMMA ArgsTyped ==
  ASSUME NEW ts, Len(ts) \in Nat, NEW i \in 1 .. Len(ts) + 1
  PROVE  AreMatched(ts, i, ArgsFrom(ts, i))
<1> DEFINE n == Len(ts)
           a(k) == ArgMatcher(ts[k].val)
           E == {a(k) : k \in 1 .. n}
           ms == Matched(ts)
<1>1. ms = [k \in 1 .. n |-> a(k)]
  BY DEF Matched
<1>2. \A k \in 1 .. n : a(k) \in E
  OBVIOUS
<1> HIDE DEF a, E, ms
<1>3. \A k \in i .. n : k \in 1 .. n /\ ms[k] = a(k) /\ ms[k] \in E
  BY <1>1, <1>2
<1>4. i \in Int /\ n \in Int
  OBVIOUS
<1> HIDE DEF n
<1>5. SubSeq(ms, i, n) \in Seq(E)
  BY <1>3, <1>4, SubSeqProperties
<1>6. Len(SubSeq(ms, i, n)) = n + 1 - i
  <2>1. Len(SubSeq(ms, i, n)) = IF i <= n THEN n - i + 1 ELSE 0
    BY <1>3, <1>4, SubSeqProperties
  <2>2. i <= n + 1
    BY DEF n
  <2> QED BY <1>4, <2>1, <2>2
<1>7. \A k \in 1 .. n + 1 - i : SubSeq(ms, i, n)[k] = a(i - 1 + k)
  <2> SUFFICES ASSUME NEW k \in 1 .. n + 1 - i PROVE SubSeq(ms, i, n)[k] = a(i - 1 + k)
    OBVIOUS
  <2>1. k \in 1 .. n - i + 1 /\ i - 1 + k \in i .. n /\ i + k - 1 = i - 1 + k
    BY <1>4
  <2>2. SubSeq(ms, i, n)[k] = ms[i + k - 1]
    BY <1>3, <1>4, <2>1, SubSeqProperties
  <2> QED BY <1>3, <2>1, <2>2
<1>8. i = n + 1 => SubSeq(ms, i, n) = <<>>
  BY <1>4, SubSeqEmpty
<1> DEFINE ps == SubSeq(ms, i, n)
<1>9. \A k \in 1 .. n + 1 - i : ps[k] = ArgMatcher(ts[i - 1 + k].val)
  BY <1>7 DEF a
<1>10. ps \in Seq(E) /\ Len(ps) = n + 1 - i /\ (i = n + 1 => ps = <<>>)
  BY <1>5, <1>6, <1>8
<1> HIDE DEF ps
<1>11. AreMatched(ts, i, ps)
  BY <1>9, <1>10 DEF AreMatched, n
<1> QED BY <1>11 DEF ArgsFrom, ms, n, ps

\* A spec of a group for the options, or none, and the arguments.
IsDefault(ts, h) ==
  /\ Len(ts) \in Nat /\ h \in {0, 3} /\ h <= Len(ts)
  /\ h = 3 => ts[1].typ = "openSq" /\ ts[2].typ = "options" /\ ts[3].typ = "closeSq"
  /\ \A i \in h + 1 .. Len(ts) : ts[i].typ = "pos"

SaysDefault(os, ts, h, W) ==
  /\ Derives(ts, "spec", 1, Len(ts) + 1)
  /\ Means(os, ts, W, "spec", 1, Len(ts) + 1) =
       {ArgsFrom(ts, h + 1)} \cup (IF h = 0 THEN {} ELSE {<<OptsMatcher(os, 2)>> \o ArgsFrom(ts, h + 1)})

LEMMA DefaultMeans ==
  ASSUME NEW os, NEW ts, NEW h \in Nat, IsDefault(ts, h), NEW W \in Nat, h = 0 => Len(ts) <= W, h = 3 => Len(ts) - 2 <= W
  PROVE  SaysDefault(os, ts, h, W)
<1> DEFINE n == Len(ts) + 1
           P == ArgsFrom(ts, h + 1)
           o == <<OptsMatcher(os, 2)>>
<1> SUFFICES /\ Derives(ts, "spec", 1, n)
             /\ Means(os, ts, W, "spec", 1, n) = {P} \cup (IF h = 0 THEN {} ELSE {o \o P})
  BY DEF SaysDefault
<1>0. Len(ts) \in Nat /\ h \in {0, 3} /\ h <= Len(ts) /\ 1 \in Places(ts) /\ n \in Places(ts) /\ n \in Nat
  BY DEF IsDefault, Places
<1>1. PICK L : Labels(L, os, ts)
  BY SomeLabels
<1>a. AreMatched(ts, h + 1, P)
  <2>1. h + 1 \in 1 .. Len(ts) + 1
    BY <1>0
  <2> QED BY <1>0, <2>1, ArgsTyped
<1>2. PICK E : P \in Seq(E)
  <2> HIDE DEF P
  <2> QED BY <1>a DEF AreMatched
<1>3. Len(P) = Len(ts) - h /\ (Len(ts) = h => P = <<>>)
  <2> HIDE DEF P
  <2>1. Len(P) = Len(ts) + 1 - (h + 1) /\ (h + 1 = Len(ts) + 1 => P = <<>>)
    BY <1>a DEF AreMatched
  <2> QED BY <1>0, <2>1
<1>4. ASSUME Len(ts) > h
      PROVE  Derives(ts, "sequence", h + 1, n) /\ Means(os, ts, W, "sequence", h + 1, n) = {P}
  <2>1. h + 1 \in Nat \ {0} /\ h + 1 \in h + 1 .. Len(ts) /\ Len(ts) + 1 - (h + 1) <= W
    BY <1>0, <1>4
  <2>2. \A i \in h + 1 .. Len(ts) : ts[i].typ = "pos"
    BY DEF IsDefault
  <2> DEFINE b == h + 1
  <2>3. b \in Nat \ {0} /\ b \in b .. Len(ts) /\ Len(ts) + 1 - b <= W /\ \A i \in b .. Len(ts) : ts[i].typ = "pos"
    BY <2>1, <2>2
  <2>4. AreThose(os, ts, W, b)
    <3> HIDE DEF b
    <3> QED BY <1>0, <2>3, ArgumentsMean
  <2> QED BY <2>4 DEF AreThose
<1>5. CASE h = 0
  <2>1. CASE Len(ts) = 0
    <3>1. n = 1 /\ Derives(ts, "spec", 1, n)
      BY <1>0, <2>1, Rules
    <3>2. Means(os, ts, W, "spec", 1, n) = {<<>>}
      BY <1>0, <1>1, <3>1, MeansSpec
    <3> QED BY <1>3, <1>5, <2>1, <3>1, <3>2
  <2>2. CASE Len(ts) # 0
    <3>1. Derives(ts, "sequence", 1, n) /\ Means(os, ts, W, "sequence", 1, n) = {P} /\ n # 1
      BY <1>0, <1>4, <1>5, <2>2
    <3>2. Derives(ts, "spec", 1, n)
      BY <1>0, <3>1, Rules
    <3>3. Means(os, ts, W, "spec", 1, n) = Means(os, ts, W, "sequence", 1, n)
      BY <1>0, <1>1, <3>1, <3>2, MeansSpec
    <3> QED BY <1>5, <3>1, <3>2, <3>3
  <2> QED BY <2>1, <2>2
<1>6. CASE h = 3
  <2>1. Derives(ts, "choice", 1, 4) /\ Means(os, ts, W, "choice", 1, 4) = {<<>>, o} /\ 4 \in Places(ts)
    <3>1. ts[1].typ = "openSq" /\ ts[2].typ = "options" /\ ts[3].typ = "closeSq" /\ Len(ts) >= 3
      BY <1>0, <1>6 DEF IsDefault
    <3>2. 4 \in Places(ts)
      BY <1>0, <3>1 DEF Places
    <3> QED BY <1>0, <3>1, <3>2, GroupMeans
  <2>2. Derives(ts, "sequence", 1, n) /\ Means(os, ts, W, "sequence", 1, n) = {P, o \o P} /\ n # 1
    <3>1. CASE Len(ts) = 3
      <4>1. n = 4
        BY <3>1
      <4>2. Derives(ts, "sequence", 1, n)
        BY <1>0, <2>1, <4>1, Rules
      <4>3. Means(os, ts, W, "sequence", 1, n) = {<<>>, o}
        BY <1>0, <1>1, <2>1, <4>1, MeansSequence
      <4>4. P = <<>> /\ o \o P = o
        <5>1. P = <<>>
          BY <1>3, <1>6, <3>1
        <5>2. o \in Seq({OptsMatcher(os, 2)})
          OBVIOUS
        <5> HIDE DEF o, P
        <5> QED BY <5>1, <5>2, ConcatEmptySeq
      <4>5. n # 1
        BY <4>1
      <4> HIDE DEF n, P, o
      <4> QED BY <4>2, <4>3, <4>4, <4>5
    <3>2. CASE Len(ts) # 3
      <4>1. Derives(ts, "sequence", 4, n) /\ Means(os, ts, W, "sequence", 4, n) = {P} /\ 4 \in 2 .. n - 1
        <5>1. Len(ts) > h /\ h + 1 = 4 /\ 4 \in 2 .. n - 1
          <6>1. h = 3 /\ Len(ts) \in Nat /\ h <= Len(ts) /\ Len(ts) # 3
            BY <1>0, <1>6, <3>2
          <6> DEFINE l == Len(ts)
          <6>2. h = 3 /\ l \in Nat /\ 3 <= l /\ l # 3
            BY <6>1
          <6> HIDE DEF l
          <6>3. l \in Nat /\ l >= 4
            BY <6>2
          <6> QED BY <6>2, <6>3 DEF l
        <5> HIDE DEF n, P
        <5> QED BY <1>4, <5>1
      <4>2. Derives(ts, "sequence", 1, n)
        <5>1. 4 \in 1 + 1 .. n - 1
          BY <4>1
        <5> HIDE DEF n
        <5> QED BY <1>0, <2>1, <4>1, <5>1, Rules
      <4>3. Means(os, ts, W, "sequence", 1, n) = Concat({<<>>, o}, {P}, W)
        <5> HIDE DEF n, P, o
        <5>1. Means(os, ts, W, "sequence", 1, n)
                = Concat(Means(os, ts, W, "choice", 1, 4), Means(os, ts, W, "sequence", 4, n), W)
          BY <1>0, <1>1, <2>1, <4>1, MeansSequence
        <5> QED BY <2>1, <4>1, <5>1
      <4>4. <<>> \o P = P /\ Len(P) <= W
        BY <1>0, <1>2, <1>3, <1>6, ConcatEmptySeq
      <4>5. Len(o \o P) <= W
        <5> DEFINE E2 == E \cup {OptsMatcher(os, 2)}
        <5>1. OptsMatcher(os, 2) \in E2 /\ E \subseteq E2
          OBVIOUS
        <5> HIDE DEF E2, P
        <5>2. o \in Seq(E2) /\ P \in Seq(E2) /\ Len(o) = 1
          BY <1>2, <5>1
        <5> HIDE DEF o
        <5>3. Len(o \o P) = 1 + Len(P)
          BY <5>2, ConcatProperties
        <5> QED BY <1>0, <1>3, <1>6, <5>3
      <4> HIDE DEF P, o
      <4>6. Concat({<<>>, o}, {P}, W) = {u \o P : u \in {<<>>, o}}
        <5>1. \A u \in {<<>>, o} : Len(u \o P) <= W
          BY <4>4, <4>5
        <5> QED BY <5>1, BeforeOne
      <4>7. {u \o P : u \in {<<>>, o}} = {P, o \o P}
        BY <4>4
      <4>8. n # 1
        BY <1>0, <1>6
      <4> QED BY <4>2, <4>3, <4>6, <4>7, <4>8
    <3> QED BY <3>1, <3>2
  <2> HIDE DEF n, P, o
  <2>3. Derives(ts, "spec", 1, n)
    BY <1>0, <2>2, Rules
  <2>4. Means(os, ts, W, "spec", 1, n) = Means(os, ts, W, "sequence", 1, n)
    BY <1>0, <1>1, <2>2, <2>3, MeansSpec
  <2>5. {P, o \o P} = {P} \cup (IF h = 0 THEN {} ELSE {o \o P})
    BY <1>6
  <2> QED BY <2>2, <2>3, <2>4, <2>5 DEF n, P, o
<1> QED BY <1>0, <1>5, <1>6

\* Such a spec is one of the grammar, if its names are declared.
LEMMA DefaultValid ==
  ASSUME NEW as, NEW os, NEW ts, NEW h, IsDefault(ts, h), ts \in Seq(ToSet(ts)), \A i \in h + 1 .. Len(ts) : ts[i].val \in as
  PROVE  Valid(as, os, ts)
<1>1. Len(ts) \in Nat /\ DOMAIN ts = 1 .. Len(ts) /\ h \in {0, 3} /\ h <= Len(ts)
  BY LenProperties DEF IsDefault
<1>2. \A i \in DOMAIN ts : (i \in h + 1 .. Len(ts) /\ ts[i].typ = "pos") \/ ts[i].typ \in {"openSq", "options", "closeSq"}
  <2> SUFFICES ASSUME NEW i \in DOMAIN ts
               PROVE  (i \in h + 1 .. Len(ts) /\ ts[i].typ = "pos") \/ ts[i].typ \in {"openSq", "options", "closeSq"}
    OBVIOUS
  <2>1. CASE i > h
    <3>1. i \in h + 1 .. Len(ts)
      BY <1>1, <2>1
    <3> QED BY <3>1 DEF IsDefault
  <2>2. CASE ~(i > h)
    <3>1. h = 3 /\ i \in {1, 2, 3}
      BY <1>1, <2>2
    <3> QED BY <3>1 DEF IsDefault
  <2> QED BY <2>1, <2>2
<1>3. NamesDeclared(as, os, ts)
  <2> SUFFICES ASSUME NEW i \in DOMAIN ts PROVE Known(as, os, ts[i])
    BY DEF NamesDeclared
  <2> QED BY <1>2 DEF Known
<1>4. NoOptionsAfterDashes(ts)
  <2>1. \A i \in DOMAIN ts : ts[i].typ # "dblDash"
    BY <1>2
  <2> QED BY <2>1 DEF NoOptionsAfterDashes
<1>5. Derives(ts, "spec", 1, Len(ts) + 1)
  <2>1. PICK W \in Nat : W = Len(ts)
    BY DEF IsDefault
  <2>2. h \in Nat /\ Len(ts) <= W /\ Len(ts) - 2 <= W
    BY <2>1 DEF IsDefault
  <2>3. SaysDefault(os, ts, h, W)
    BY <2>2, DefaultMeans
  <2> QED BY <2>3 DEF SaysDefault
<1> QED BY <1>3, <1>4, <1>5 DEF Valid

(***************************************************************************)
(* Where the pieces of a text are that is joined from them.                *)
(***************************************************************************)
\* The piece n comes behind those before it.
PieceFollows(t, ss, n) ==
  /\ Len(t[n - 1]) \in Nat /\ Len(ss[n]) \in Nat /\ Len(t[n]) = Len(t[n - 1]) + Len(ss[n])
  /\ \A j \in 1 .. Len(t[n - 1]) : t[n][j] = t[n - 1][j]
  /\ \A j \in 1 .. Len(ss[n]) : t[n][Len(t[n - 1]) + j] = ss[n][j]

LEMMA JoinsGrow ==
  ASSUME NEW E, NEW ss \in Seq(Seq(E)), NEW t \in [0 .. Len(ss) -> Seq(E)], JoinsOf(t, ss)
  PROVE  /\ Len(t[0]) = 0 /\ \A n \in 0 .. Len(ss) : Len(t[n]) \in Nat
         /\ \A n \in 1 .. Len(ss) : PieceFollows(t, ss, n)
<1>1. Len(ss) \in Nat /\ t[0] = <<>> /\ \A n \in 1 .. Len(ss) : t[n] = t[n - 1] \o ss[n]
  BY LenProperties DEF JoinsOf
<1>2. \A n \in 0 .. Len(ss) : Len(t[n]) \in Nat
  BY LenProperties
<1>3. ASSUME NEW n \in 1 .. Len(ss)
      PROVE  PieceFollows(t, ss, n)
  <2>1. ss[n] \in Seq(E) /\ n - 1 \in 0 .. Len(ss)
    BY <1>1, ElementOfSeq
  <2>2. t[n - 1] \in Seq(E) /\ Len(ss[n]) \in Nat
    BY <2>1, LenProperties
  <2> DEFINE a == t[n - 1]
             b == ss[n]
  <2>3. t[n] = a \o b /\ a \in Seq(E) /\ b \in Seq(E)
    BY <1>1, <2>1, <2>2
  <2> HIDE DEF a, b
  <2>4. Len(a) \in Nat /\ Len(b) \in Nat /\ Len(a \o b) = Len(a) + Len(b)
        /\ \A i \in 1 .. Len(a) + Len(b) : (a \o b)[i] = IF i <= Len(a) THEN a[i] ELSE b[i - Len(a)]
    BY <2>3, ConcatProperties, LenProperties
  <2>5. \A j \in 1 .. Len(a) : (a \o b)[j] = a[j]
    BY <2>4
  <2>6. ASSUME NEW j \in 1 .. Len(b) PROVE (a \o b)[Len(a) + j] = b[j]
    <3>1. Len(a) + j \in 1 .. Len(a) + Len(b) /\ ~(Len(a) + j <= Len(a)) /\ (Len(a) + j) - Len(a) = j
      BY <2>4
    <3> QED BY <2>4, <3>1
  <2>7. Len(t[n]) = Len(a) + Len(b) /\ (\A j \in 1 .. Len(a) : t[n][j] = a[j])
        /\ \A j \in 1 .. Len(b) : t[n][Len(a) + j] = b[j]
    BY <2>3, <2>4, <2>5, <2>6
  <2> QED BY <2>4, <2>7 DEF a, b, PieceFollows
<1>4. Len(t[0]) = 0
  BY <1>1
<1> QED BY <1>2, <1>3, <1>4

\* The pieces so far are where the text begins.
BeginsLike(a, c) == Len(a) <= Len(c) /\ \A j \in 1 .. Len(a) : c[j] = a[j]

LEMMA JoinsBegin ==
  ASSUME NEW E, NEW ss \in Seq(Seq(E)), NEW t \in [0 .. Len(ss) -> Seq(E)], JoinsOf(t, ss)
  PROVE  \A n \in 0 .. Len(ss) : BeginsLike(t[n], t[Len(ss)])
<1> DEFINE N == Len(ss)
           Fit(n) == BeginsLike(t[n], t[N])
<1>1. N \in Nat /\ (\A n \in 0 .. N : Len(t[n]) \in Nat) /\ \A n \in 1 .. N : PieceFollows(t, ss, n)
  BY LenProperties, JoinsGrow
<1>2. Fit(N)
  <2>1. Len(t[N]) \in Nat
    BY <1>1
  <2> HIDE DEF N
  <2> QED BY <2>1 DEF BeginsLike
<1>3. ASSUME NEW n \in 1 .. N, Fit(n) PROVE Fit(n - 1)
  <2> DEFINE a == t[n - 1]
             b == t[n]
             c == t[N]
  <2>1. n \in 0 .. N /\ N \in 0 .. N
    BY <1>1
  <2>2. Len(b) \in Nat /\ Len(c) \in Nat
    BY <1>1, <2>1
  <2>3. PieceFollows(t, ss, n)
    BY <1>1
  <2>4. Len(a) \in Nat /\ Len(ss[n]) \in Nat /\ Len(b) = Len(a) + Len(ss[n]) /\ \A j \in 1 .. Len(a) : b[j] = a[j]
    BY <2>3 DEF PieceFollows
  <2>5. BeginsLike(b, c)
    BY <1>3
  <2> HIDE DEF a, b, c
  <2>6. Len(a) <= Len(b) /\ \A j \in 1 .. Len(a) : j \in 1 .. Len(b)
    BY <2>2, <2>4
  <2>7. Len(b) <= Len(c) /\ \A j \in 1 .. Len(b) : c[j] = b[j]
    BY <2>5 DEF BeginsLike
  <2>8. Len(a) <= Len(c)
    BY <2>2, <2>4, <2>6, <2>7
  <2>9. \A j \in 1 .. Len(a) : c[j] = a[j]
    BY <2>4, <2>6, <2>7
  <2>10. BeginsLike(a, c)
    BY <2>8, <2>9 DEF BeginsLike
  <2> QED BY <2>10 DEF a, c
<1> HIDE DEF Fit
<1> DEFINE S == {m \in Nat : \A n \in 0 .. N : n + m = N => Fit(n)}
<1>4. 0 \in S
  BY <1>1, <1>2
<1>5. ASSUME NEW m \in S PROVE m + 1 \in S
  <2> SUFFICES ASSUME NEW n \in 0 .. N, n + (m + 1) = N PROVE Fit(n)
    OBVIOUS
  <2>1. n + 1 \in 1 .. N /\ n + 1 \in 0 .. N /\ (n + 1) + m = N /\ (n + 1) - 1 = n
    BY <1>1
  <2>2. Fit(n + 1)
    BY <2>1
  <2> QED BY <1>3, <2>1, <2>2
<1>6. \A m \in Nat : m \in S
  <2>1. S \subseteq Nat
    OBVIOUS
  <2> HIDE DEF S
  <2> QED BY <1>4, <1>5, <2>1, Induction
<1>7. ASSUME NEW n \in 0 .. N PROVE Fit(n)
  <2>1. N - n \in Nat /\ n + (N - n) = N
    BY <1>1
  <2> QED BY <1>6, <2>1
<1> QED BY <1>7 DEF Fit

\* The piece s is in the text F from p on.
SitsAt(F, p, s) == p \in Nat /\ Len(s) \in Nat /\ p + Len(s) <= Len(F) /\ \A j \in 1 .. Len(s) : F[p + j] = s[j]

LEMMA PiecesSit ==
  ASSUME NEW E, NEW ss \in Seq(Seq(E)), NEW t \in [0 .. Len(ss) -> Seq(E)], JoinsOf(t, ss)
  PROVE  /\ FlattenSeq(ss) = t[Len(ss)] /\ FlattenSeq(ss) \in Seq(E)
         /\ \A n \in 1 .. Len(ss) : SitsAt(FlattenSeq(ss), Len(t[n - 1]), ss[n])
<1>1. Len(ss) \in Nat /\ Len(ss) \in 0 .. Len(ss)
  BY LenProperties
<1>2. FlattenSeq(ss) = t[Len(ss)] /\ FlattenSeq(ss) \in Seq(E)
  BY <1>1, Flattened
<1>3. ASSUME NEW n \in 1 .. Len(ss) PROVE SitsAt(FlattenSeq(ss), Len(t[n - 1]), ss[n])
  <2> DEFINE F == FlattenSeq(ss)
             a == t[n - 1]
             b == t[n]
             s == ss[n]
  <2>1. n \in 0 .. Len(ss)
    BY <1>1
  <2>2. BeginsLike(b, F)
    BY <1>2, <2>1, JoinsBegin
  <2>3. PieceFollows(t, ss, n)
    BY JoinsGrow
  <2>4. Len(a) \in Nat /\ Len(s) \in Nat /\ Len(b) = Len(a) + Len(s) /\ \A j \in 1 .. Len(s) : b[Len(a) + j] = s[j]
    BY <2>3 DEF PieceFollows
  <2> HIDE DEF F, a, b, s
  <2>5. \A j \in 1 .. Len(s) : Len(a) + j \in 1 .. Len(b)
    BY <2>4
  <2>6. Len(b) <= Len(F) /\ \A j \in 1 .. Len(b) : F[j] = b[j]
    BY <2>2 DEF BeginsLike
  <2>7. \A j \in 1 .. Len(s) : F[Len(a) + j] = s[j]
    BY <2>4, <2>5, <2>6
  <2>8. SitsAt(F, Len(a), s)
    BY <2>4, <2>6, <2>7 DEF SitsAt
  <2> QED BY <2>8 DEF F, a, s
<1> QED BY <1>2, <1>3

\* One piece more.
LEMMA JoinsAppend ==
  ASSUME NEW E, NEW ss \in Seq(Seq(E)), NEW x \in Seq(E)
  PROVE  FlattenSeq(Append(ss, x)) = FlattenSeq(ss) \o x
<1> DEFINE rs == Append(ss, x)
           N  == Len(ss)
<1>1. rs \in Seq(Seq(E)) /\ Len(rs) = N + 1 /\ N \in Nat /\ rs[N + 1] = x /\ \A n \in 1 .. N : rs[n] = ss[n]
  BY AppendProperties, LenProperties
<1> HIDE DEF rs, N
<1>2. PICK t \in [0 .. Len(rs) -> Seq(E)] : JoinsOf(t, rs)
  BY <1>1, Joins
<1>3. t[0] = <<>> /\ \A n \in 1 .. N + 1 : t[n] = t[n - 1] \o rs[n]
  BY <1>1, <1>2 DEF JoinsOf
<1>4. JoinsOf(t, ss)
  <2>1. \A n \in 1 .. N : n \in 1 .. N + 1
    BY <1>1
  <2> QED BY <1>1, <1>3, <2>1 DEF JoinsOf, N
<1>5. FlattenSeq(ss) = t[N] /\ FlattenSeq(rs) = t[N + 1]
  BY <1>1, <1>2, <1>4, Flattened DEF N
<1>6. t[N + 1] = t[N] \o x
  <2>1. N + 1 \in 1 .. N + 1 /\ (N + 1) - 1 = N
    BY <1>1
  <2> QED BY <1>1, <1>3, <2>1
<1> QED BY <1>5, <1>6 DEF rs

(***************************************************************************)
(* The names of the arguments among some declarations.                     *)
(***************************************************************************)
HasOptions(ds) == \E i \in DOMAIN ds : ds[i].param = "opt"
NameIn(d)      == IF d.param = "arg" THEN <<d.name>> ELSE <<>>
NamePieces(ds) == [i \in DOMAIN ds |-> NameIn(ds[i])]

LEMMA NamePiecesTyped ==
  ASSUME NEW D, \A d \in D : IsDeclaration(d), NEW ds \in Seq(D)
  PROVE  /\ NamesIn(ds) = FlattenSeq(NamePieces(ds))
         /\ NamePieces(ds) \in Seq(Seq(Strings)) /\ Len(NamePieces(ds)) = Len(ds) /\ Len(ds) \in Nat
         /\ \A i \in 1 .. Len(ds) : NamePieces(ds)[i] = NameIn(ds[i]) /\ ds[i] \in D
<1>1. Len(ds) \in Nat /\ DOMAIN ds = 1 .. Len(ds) /\ \A i \in 1 .. Len(ds) : ds[i] \in D
  BY LenProperties, ElementOfSeq
<1>2. NamesIn(ds) = FlattenSeq(NamePieces(ds))
  BY Zenon DEF NamesIn, NamePieces, NameIn
<1>3. \A d \in D : NameIn(d) \in Seq(Strings)
  <2> SUFFICES ASSUME NEW d \in D PROVE NameIn(d) \in Seq(Strings)
    OBVIOUS
  <2>1. d.param = "arg" => d.name \in Strings
    BY DEF IsDeclaration
  <2> HIDE DEF Strings
  <2> QED BY <2>1 DEF NameIn
<1>4. NamePieces(ds) = [i \in 1 .. Len(ds) |-> NameIn(ds[i])]
  BY <1>1 DEF NamePieces
<1> HIDE DEF NameIn, Strings
<1>5. NamePieces(ds) \in Seq(Seq(Strings)) /\ Len(NamePieces(ds)) = Len(ds)
  BY <1>1, <1>3, <1>4
<1> QED BY <1>1, <1>2, <1>4, <1>5

\* What is among them, and how many there may be.
LEMMA NamesAre ==
  ASSUME NEW D, \A d \in D : IsDeclaration(d), NEW ds \in Seq(D)
  PROVE  /\ NamesIn(ds) \in Seq(Strings)
         /\ Len(NamesIn(ds)) <= Len(ds) /\ (HasOptions(ds) => Len(NamesIn(ds)) + 1 <= Len(ds))
         /\ \A d \in ToSet(ds) : d.param = "arg" => d.name \in ToSet(NamesIn(ds))
<1> DEFINE ss == NamePieces(ds)
           ns == NamesIn(ds)
<1>1. /\ ns = FlattenSeq(ss) /\ ss \in Seq(Seq(Strings)) /\ Len(ss) = Len(ds) /\ Len(ds) \in Nat /\ DOMAIN ds = 1 .. Len(ds)
      /\ \A i \in 1 .. Len(ds) : ss[i] = NameIn(ds[i]) /\ ds[i] \in D
  BY NamePiecesTyped, LenProperties
<1> HIDE DEF ss
<1>2. PICK t \in [0 .. Len(ss) -> Seq(Strings)] : JoinsOf(t, ss)
  BY <1>1, Joins
<1>3. ns = t[Len(ds)] /\ ns \in Seq(Strings) /\ \A n \in 1 .. Len(ds) : SitsAt(ns, Len(t[n - 1]), ss[n])
  <2> HIDE DEF ns, Strings
  <2>1. /\ FlattenSeq(ss) = t[Len(ss)] /\ FlattenSeq(ss) \in Seq(Strings)
        /\ \A n \in 1 .. Len(ss) : SitsAt(FlattenSeq(ss), Len(t[n - 1]), ss[n])
    BY <1>1, <1>2, PiecesSit
  <2> QED BY <1>1, <2>1
<1> HIDE DEF Strings, ns
<1>4. Len(t[0]) = 0 /\ (\A n \in 0 .. Len(ds) : Len(t[n]) \in Nat) /\ \A n \in 1 .. Len(ds) : PieceFollows(t, ss, n)
  <2>1. Len(t[0]) = 0 /\ (\A n \in 0 .. Len(ss) : Len(t[n]) \in Nat) /\ \A n \in 1 .. Len(ss) : PieceFollows(t, ss, n)
    BY <1>1, <1>2, JoinsGrow
  <2> QED BY <1>1, <2>1
<1> DEFINE PieceOf(s, d) == IF d.param = "arg" THEN s = <<d.name>> /\ Len(s) = 1 ELSE Len(s) = 0
<1>5. \A n \in 1 .. Len(ds) : PieceOf(ss[n], ds[n])
  <2> SUFFICES ASSUME NEW n \in 1 .. Len(ds) PROVE PieceOf(ss[n], ds[n])
    OBVIOUS
  <2> DEFINE d == ds[n]
             s == ss[n]
  <2>1. s = NameIn(d)
    BY <1>1
  <2> HIDE DEF d, s
  <2>2. d.param = "arg" => s = <<d.name>>
    BY <2>1 DEF NameIn
  <2>3. d.param # "arg" => s = <<>>
    BY <2>1 DEF NameIn
  <2>4. (s = <<d.name>> => Len(s) = 1) /\ (s = <<>> => Len(s) = 0)
    OBVIOUS
  <2> QED BY <2>2, <2>3, <2>4 DEF d, s
<1>6. ASSUME NEW d \in ToSet(ds), d.param = "arg" PROVE d.name \in ToSet(ns)
  <2>1. PICK n \in 1 .. Len(ds) : d = ds[n]
    BY <1>1 DEF ToSet
  <2>2. ss[n] = <<d.name>> /\ Len(ss[n]) = 1
    <3>1. PieceOf(ss[n], d)
      BY <1>5, <2>1
    <3> QED BY <1>6, <3>1
  <2> DEFINE p == Len(t[n - 1])
  <2>3. SitsAt(ns, p, ss[n])
    BY <1>3
  <2> HIDE DEF p
  <2>4. p \in Nat /\ p + 1 <= Len(ns) /\ ns[p + 1] = ss[n][1]
    BY <2>2, <2>3 DEF SitsAt
  <2>5. ss[n][1] = d.name
    BY <2>2
  <2>6. DOMAIN ns = 1 .. Len(ns) /\ Len(ns) \in Nat
    BY <1>3, LenProperties
  <2>7. p + 1 \in DOMAIN ns
    BY <2>4, <2>6
  <2> QED BY <2>4, <2>5, <2>7 DEF ToSet
\* Each declaration so far added one at most.
<1> DEFINE Opt(n) == \E i \in 1 .. n : ds[i].param = "opt"
           Few(n) == Len(t[n]) <= n /\ (Opt(n) => Len(t[n]) + 1 <= n)
<1>7. Few(0)
  <2>1. 1 .. 0 = {}
    OBVIOUS
  <2> QED BY <1>4, <2>1
<1>8. ASSUME NEW n \in 1 .. Len(ds), Few(n - 1) PROVE Few(n)
  <2> DEFINE a == Len(t[n - 1])
             b == Len(t[n])
             c == Len(ss[n])
  <2>0. PieceFollows(t, ss, n)
    BY <1>4
  <2>1. n \in Nat /\ a \in Nat /\ c \in Nat /\ b = a + c
    BY <1>1, <2>0 DEF PieceFollows
  <2>2. Opt(n) => Opt(n - 1) \/ ds[n].param = "opt"
    <3>1. \A i \in 1 .. n : i \in 1 .. n - 1 \/ i = n
      BY <2>1
    <3> QED BY <3>1
  <2>3. a <= n - 1 /\ (Opt(n - 1) => a + 1 <= n - 1)
    BY <1>8
  <2>4. c <= 1 /\ (ds[n].param = "opt" => c = 0)
    <3>1. PieceOf(ss[n], ds[n])
      BY <1>5
    <3>2. ds[n].param = "opt" => ds[n].param # "arg"
      OBVIOUS
    <3>3. c = 1 \/ c = 0
      BY <3>1
    <3>4. ds[n].param = "opt" => c = 0
      BY <3>1, <3>2
    <3> HIDE DEF c
    <3> QED BY <3>3, <3>4
  <2> HIDE DEF a, b, c, Opt
  <2>5. b <= n
    BY <2>1, <2>3, <2>4
  <2>6. Opt(n) => b + 1 <= n
    BY <2>1, <2>2, <2>3, <2>4
  <2> QED BY <2>5, <2>6 DEF b
<1> HIDE DEF Few
<1> DEFINE S == {n \in Nat : n <= Len(ds) => Few(n)}
<1>9. \A n \in Nat : n \in S
  <2>1. 0 \in S
    BY <1>7
  <2>2. ASSUME NEW n \in S PROVE n + 1 \in S
    <3> SUFFICES ASSUME n + 1 <= Len(ds) PROVE Few(n + 1)
      OBVIOUS
    <3>1. n \in Nat /\ n <= Len(ds) /\ n + 1 \in 1 .. Len(ds) /\ (n + 1) - 1 = n
      BY <1>1
    <3> QED BY <1>8, <3>1
  <2>3. S \subseteq Nat
    OBVIOUS
  <2> HIDE DEF S
  <2> QED BY <2>1, <2>2, <2>3, Induction
<1>10. Len(ns) <= Len(ds) /\ (HasOptions(ds) => Len(ns) + 1 <= Len(ds))
  <2>1. Few(Len(ds))
    BY <1>1, <1>9
  <2>2. Len(t[Len(ds)]) <= Len(ds) /\ (Opt(Len(ds)) => Len(t[Len(ds)]) + 1 <= Len(ds))
    BY <2>1 DEF Few
  <2>3. HasOptions(ds) <=> Opt(Len(ds))
    BY <1>1 DEF HasOptions
  <2> HIDE DEF Opt
  <2> QED BY <1>3, <2>2, <2>3
<1> QED BY <1>3, <1>6, <1>10 DEF ns

LEMMA NamesOfMore ==
  ASSUME NEW D, \A d \in D : IsDeclaration(d), NEW ds \in Seq(D), NEW d \in D
  PROVE  /\ NamesIn(Append(ds, d)) = IF d.param = "arg" THEN Append(NamesIn(ds), d.name) ELSE NamesIn(ds)
         /\ HasOptions(Append(ds, d)) <=> HasOptions(ds) \/ d.param = "opt"
<1> DEFINE es == Append(ds, d)
           n  == Len(ds)
<1>1. es \in Seq(D) /\ Len(es) = n + 1 /\ n \in Nat /\ es[n + 1] = d /\ (\A i \in 1 .. n : es[i] = ds[i])
      /\ DOMAIN es = 1 .. n + 1 /\ DOMAIN ds = 1 .. n
  BY AppendProperties, LenProperties
<1> HIDE DEF es, n
<1>2. HasOptions(es) <=> HasOptions(ds) \/ d.param = "opt"
  <2>1. \A i : i \in 1 .. n + 1 <=> i \in 1 .. n \/ i = n + 1
    BY <1>1
  <2> QED BY <1>1, <2>1 DEF HasOptions
<1>3. NamePieces(es) = Append(NamePieces(ds), NameIn(d))
  <2>1. /\ NamePieces(ds) \in Seq(Seq(Strings)) /\ Len(NamePieces(ds)) = n
        /\ \A i \in 1 .. n : NamePieces(ds)[i] = NameIn(ds[i])
    BY NamePiecesTyped DEF n
  <2>2. /\ NamePieces(es) \in Seq(Seq(Strings)) /\ Len(NamePieces(es)) = n + 1
        /\ \A i \in 1 .. n + 1 : NamePieces(es)[i] = NameIn(es[i])
    BY <1>1, NamePiecesTyped
  <2>3. NameIn(d) \in Seq(Strings)
    <3>1. n + 1 \in 1 .. Len(NamePieces(es))
      BY <1>1, <2>2
    <3>2. NamePieces(es)[n + 1] \in Seq(Strings)
      BY <2>2, <3>1, ElementOfSeq
    <3> QED BY <1>1, <2>2, <3>1, <3>2
  <2> DEFINE a == NamePieces(es)
             b == Append(NamePieces(ds), NameIn(d))
  <2>4. /\ b \in Seq(Seq(Strings)) /\ Len(b) = n + 1 /\ b[n + 1] = NameIn(d)
        /\ \A i \in 1 .. n : b[i] = NameIn(ds[i])
    <3> HIDE DEF Strings, NameIn
    <3> QED BY <2>1, <2>3, AppendProperties
  <2>5. \A i \in 1 .. n + 1 : a[i] = b[i]
    <3> SUFFICES ASSUME NEW i \in 1 .. n + 1 PROVE a[i] = b[i]
      OBVIOUS
    <3> HIDE DEF b
    <3>1. CASE i = n + 1
      BY <1>1, <2>2, <2>4, <3>1
    <3>2. CASE i # n + 1
      <4>1. i \in 1 .. n
        BY <1>1, <3>2
      <4> QED BY <1>1, <2>2, <2>4, <4>1
    <3> QED BY <3>1, <3>2
  <2> HIDE DEF b
  <2>6. a \in Seq(Seq(Strings)) /\ Len(a) = Len(b) /\ \A i \in 1 .. Len(a) : a[i] = b[i]
    BY <2>2, <2>4, <2>5
  <2> HIDE DEF a
  <2>7. a = b
    BY <2>4, <2>6, SeqEqual
  <2> QED BY <2>7 DEF a, b
<1>4. NamesIn(es) = NamesIn(ds) \o NameIn(d) /\ NamesIn(ds) \in Seq(Strings) /\ NameIn(d) \in Seq(Strings)
  <2>1. NamesIn(ds) = FlattenSeq(NamePieces(ds)) /\ NamePieces(ds) \in Seq(Seq(Strings))
    BY NamePiecesTyped
  <2>2. NamesIn(es) = FlattenSeq(NamePieces(es))
    BY <1>1, NamePiecesTyped
  <2>3. NameIn(d) \in Seq(Strings)
    <3>1. d.param = "arg" => d.name \in Strings
      BY DEF IsDeclaration
    <3> HIDE DEF Strings
    <3> QED BY <3>1 DEF NameIn
  <2>4. NamesIn(ds) \in Seq(Strings)
    BY NamesAre
  <2> QED BY <1>3, <2>1, <2>2, <2>3, <2>4, JoinsAppend
<1>5. NamesIn(es) = IF d.param = "arg" THEN Append(NamesIn(ds), d.name) ELSE NamesIn(ds)
  <2>1. CASE d.param = "arg"
    <3>1. NameIn(d) = <<d.name>> /\ d.name \in Strings
      BY <2>1 DEF NameIn, IsDeclaration
    <3> DEFINE ns == NamesIn(ds)
    <3> HIDE DEF ns, Strings
    <3>2. ns \in Seq(Strings) /\ NamesIn(es) = ns \o <<d.name>>
      BY <1>4, <3>1 DEF ns
    <3>3. ns \o <<d.name>> = Append(ns, d.name)
      BY <3>1, <3>2
    <3> QED BY <2>1, <3>2, <3>3 DEF ns
  <2>2. CASE d.param # "arg"
    <3>1. NameIn(d) = <<>>
      BY <2>2 DEF NameIn
    <3> QED BY <1>4, <2>2, <3>1, ConcatEmptySeq
  <2> QED BY <2>1, <2>2
<1> QED BY <1>2, <1>5 DEF es

(***************************************************************************)
(* The text that doInit makes up, and the only way to cut it.              *)
(***************************************************************************)
\* The text c is a with b behind it.
JoinOf(c, a, b) ==
  /\ Len(a) \in Nat /\ Len(b) \in Nat /\ Len(c) = Len(a) + Len(b)
  /\ \A j \in 1 .. Len(a) : c[j] = a[j]
  /\ \A j \in 1 .. Len(b) : c[Len(a) + j] = b[j]

LEMMA JoinedIs ==
  ASSUME NEW E, NEW a \in Seq(E), NEW b \in Seq(E)
  PROVE  a \o b \in Seq(E) /\ JoinOf(a \o b, a, b)
<1> DEFINE c == a \o b
<1>1. Len(a) \in Nat /\ Len(b) \in Nat /\ c \in Seq(E) /\ Len(c) = Len(a) + Len(b)
      /\ \A i \in 1 .. Len(a) + Len(b) : c[i] = IF i <= Len(a) THEN a[i] ELSE b[i - Len(a)]
  BY ConcatProperties, LenProperties
<1> HIDE DEF c
<1>2. \A j \in 1 .. Len(a) : c[j] = a[j]
  BY <1>1
<1>3. ASSUME NEW j \in 1 .. Len(b) PROVE c[Len(a) + j] = b[j]
  <2>1. Len(a) + j \in 1 .. Len(a) + Len(b) /\ ~(Len(a) + j <= Len(a)) /\ (Len(a) + j) - Len(a) = j
    BY <1>1
  <2> QED BY <1>1, <2>1
<1>4. JoinOf(c, a, b)
  BY <1>1, <1>2, <1>3 DEF JoinOf
<1> QED BY <1>1, <1>4 DEF c

GroupText(o)  == IF o THEN <<"[">> \o OptionsWord \o <<"]", Space>> ELSE <<>>
Spaced(ns)    == [i \in DOMAIN ns |-> ns[i] \o <<Space>>]
TextOf(o, ns) == GroupText(o) \o FlattenSeq(Spaced(ns))

LEMMA GroupTextIs ==
  ASSUME NEW o \in BOOLEAN
  PROVE  /\ GroupText(o) \in Strings /\ Len(OptionsWord) \in Nat \ {0}
         /\ \A j \in 1 .. Len(OptionsWord) : OptionsWord[j] \in Upper
         /\ ~o => GroupText(o) = <<>>
         /\ o => /\ Len(GroupText(o)) = Len(OptionsWord) + 3
                 /\ GroupText(o)[1] = "[" /\ \A j \in 1 .. Len(OptionsWord) : GroupText(o)[1 + j] = OptionsWord[j]
                 /\ GroupText(o)[Len(OptionsWord) + 2] = "]" /\ GroupText(o)[Len(OptionsWord) + 3] = Space
<1>1. \A a \in {"[", "]", Space} : a \in Characters
  BY ClassesAssumption DEF Separators
<1>2. OptionsWord \in Seq(Characters) /\ Len(OptionsWord) \in Nat \ {0} /\ \A j \in 1 .. Len(OptionsWord) : OptionsWord[j] \in Upper
  <2>1. OptionsWord \in Seq(Upper) /\ OptionsWord # <<>> /\ Upper \subseteq Characters
    BY ClassesAssumption
  <2>2. Len(OptionsWord) \in Nat /\ Len(OptionsWord) # 0 /\ \A j \in 1 .. Len(OptionsWord) : OptionsWord[j] \in Upper
    BY <2>1, LenProperties, EmptySeq, ElementOfSeq
  <2> QED BY <2>1, <2>2
<1> DEFINE a == <<"[">>
           b == OptionsWord
           c == <<"]", Space>>
           w == Len(OptionsWord)
<1>3. a \in Seq(Characters) /\ c \in Seq(Characters) /\ <<>> \in Seq(Characters) /\ Len(a) = 1 /\ Len(c) = 2
      /\ a[1] = "[" /\ c[1] = "]" /\ c[2] = Space
  BY <1>1
<1>4. b \in Seq(Characters) /\ Len(b) = w /\ w \in Nat
  BY <1>2
<1> HIDE DEF a, b, c, w
<1> DEFINE ab == a \o b
<1>5. ab \in Seq(Characters) /\ JoinOf(ab, a, b)
  BY <1>3, <1>4, JoinedIs
<1> HIDE DEF ab
<1> DEFINE g == ab \o c
<1>6. g \in Seq(Characters) /\ JoinOf(g, ab, c)
  BY <1>3, <1>5, JoinedIs
<1> HIDE DEF g
<1>7. g[1] = "[" /\ (\A j \in 1 .. w : g[1 + j] = b[j]) /\ g[w + 2] = "]" /\ g[w + 3] = Space /\ Len(g) = w + 3
  <2>1. Len(ab) = 1 + w /\ ab[1] = a[1] /\ \A j \in 1 .. w : ab[1 + j] = b[j]
    <3>1. Len(ab) = Len(a) + Len(b) /\ (\A j \in 1 .. Len(a) : ab[j] = a[j]) /\ \A j \in 1 .. Len(b) : ab[Len(a) + j] = b[j]
      BY <1>5 DEF JoinOf
    <3> QED BY <1>3, <1>4, <3>1
  <2>2. Len(g) = Len(ab) + 2 /\ (\A j \in 1 .. 1 + w : g[j] = ab[j]) /\ \A j \in 1 .. 2 : g[Len(ab) + j] = c[j]
    <3>1. Len(g) = Len(ab) + Len(c) /\ (\A j \in 1 .. Len(ab) : g[j] = ab[j]) /\ \A j \in 1 .. Len(c) : g[Len(ab) + j] = c[j]
      BY <1>6 DEF JoinOf
    <3> QED BY <1>3, <2>1, <3>1
  <2>3. /\ 1 \in 1 .. 1 + w /\ (\A j \in 1 .. w : 1 + j \in 1 .. 1 + w) /\ 1 \in 1 .. 2 /\ 2 \in 1 .. 2
        /\ (1 + w) + 1 = w + 2 /\ (1 + w) + 2 = w + 3
    BY <1>4
  <2>4. g[1] = "[" /\ \A j \in 1 .. w : g[1 + j] = b[j]
    BY <1>3, <2>1, <2>2, <2>3
  <2>5. g[w + 2] = "]" /\ g[w + 3] = Space /\ Len(g) = w + 3
    BY <1>3, <2>1, <2>2, <2>3
  <2> QED BY <2>4, <2>5
<1>8. GroupText(o) = IF o THEN g ELSE <<>>
  BY Zenon DEF GroupText, g, ab, a, b, c
<1>9. o => GroupText(o) = g
  BY <1>8
<1>10. ~o => GroupText(o) = <<>>
  BY <1>8
<1> QED BY <1>2, <1>3, <1>6, <1>7, <1>9, <1>10 DEF Strings, w, b

\* JoinOf the group every name sits at its offset, with a blank behind it.
NameAt(t, p, n, q) ==
  /\ p \in Nat /\ Len(n) \in Nat /\ q = p + Len(n) + 1 /\ q <= Len(t)
  /\ SubSeq(t, p + 1, p + Len(n)) = n /\ t[p + Len(n) + 1] = Space

LEMMA NamesSit ==
  ASSUME NEW o \in BOOLEAN, NEW ns \in Seq(Strings)
  PROVE  /\ TextOf(o, ns) \in Strings
         /\ \A j \in 1 .. Len(GroupText(o)) : TextOf(o, ns)[j] = GroupText(o)[j]
         /\ \E off \in [1 .. Len(ns) + 1 -> Nat] :
              /\ off[1] = Len(GroupText(o)) /\ off[Len(ns) + 1] = Len(TextOf(o, ns))
              /\ \A i \in 1 .. Len(ns) : NameAt(TextOf(o, ns), off[i], ns[i], off[i + 1])
<1> DEFINE G == GroupText(o)
           F == FlattenSeq(Spaced(ns))
           T == TextOf(o, ns)
           N == Len(ns)
           ss == Spaced(ns)
<1>1. G \in Seq(Characters) /\ Len(G) \in Nat
  BY GroupTextIs, LenProperties DEF Strings
<1>2. Space \in Characters
  BY ClassesAssumption
<1>3. N \in Nat /\ DOMAIN ns = 1 .. N /\ \A i \in 1 .. N : ns[i] \in Seq(Characters) /\ Len(ns[i]) \in Nat
  BY LenProperties, ElementOfSeq DEF Strings
<1> DEFINE gap == <<Space>>
<1>a. gap \in Seq(Characters) /\ Len(gap) = 1 /\ gap[1] = Space
  BY <1>2
<1> HIDE DEF gap
<1>4. ss \in Seq(Seq(Characters)) /\ Len(ss) = N /\ \A i \in 1 .. N : JoinOf(ss[i], ns[i], gap)
  <2>1. \A i \in 1 .. N : ns[i] \o gap \in Seq(Characters) /\ JoinOf(ns[i] \o gap, ns[i], gap)
    BY <1>3, <1>a, JoinedIs
  <2>2. ss = [i \in 1 .. N |-> ns[i] \o gap]
    BY <1>3 DEF Spaced, gap
  <2> HIDE DEF ss
  <2>3. ss \in Seq(Seq(Characters)) /\ Len(ss) = N /\ \A i \in 1 .. N : ss[i] = ns[i] \o gap
    BY <1>3, <2>1, <2>2
  <2> QED BY <2>1, <2>3
<1> HIDE DEF ss, N
<1>5. PICK t \in [0 .. Len(ss) -> Seq(Characters)] : JoinsOf(t, ss)
  BY <1>4, Joins
<1>6. F = t[N] /\ F \in Seq(Characters) /\ \A n \in 1 .. N : SitsAt(F, Len(t[n - 1]), ss[n])
  <2>1. /\ FlattenSeq(ss) = t[Len(ss)] /\ FlattenSeq(ss) \in Seq(Characters)
        /\ \A n \in 1 .. Len(ss) : SitsAt(FlattenSeq(ss), Len(t[n - 1]), ss[n])
    BY <1>4, <1>5, PiecesSit
  <2>2. F = FlattenSeq(ss)
    BY DEF ss
  <2> HIDE DEF F
  <2> QED BY <1>4, <2>1, <2>2
<1>7. Len(t[0]) = 0 /\ (\A n \in 0 .. N : Len(t[n]) \in Nat) /\ \A n \in 1 .. N : PieceFollows(t, ss, n)
  <2>1. Len(t[0]) = 0 /\ (\A n \in 0 .. Len(ss) : Len(t[n]) \in Nat) /\ \A n \in 1 .. Len(ss) : PieceFollows(t, ss, n)
    BY <1>4, <1>5, JoinsGrow
  <2> QED BY <1>4, <2>1
<1> HIDE DEF F, G
<1>8. T \in Seq(Characters) /\ JoinOf(T, G, F)
  <2>1. T = G \o F
    BY DEF TextOf, G, F, ss
  <2> HIDE DEF T
  <2> QED BY <1>1, <1>6, <2>1, JoinedIs
<1> HIDE DEF T
<1>b. /\ Len(T) = Len(G) + Len(F) /\ Len(F) \in Nat
      /\ (\A j \in 1 .. Len(G) : T[j] = G[j]) /\ \A j \in 1 .. Len(F) : T[Len(G) + j] = F[j]
  BY <1>8 DEF JoinOf
<1> DEFINE off == [i \in 1 .. N + 1 |-> Len(G) + Len(t[i - 1])]
<1>9. off \in [1 .. N + 1 -> Nat] /\ \A i \in 1 .. N + 1 : off[i] = Len(G) + Len(t[i - 1])
  <2>1. \A i \in 1 .. N + 1 : i - 1 \in 0 .. N
    BY <1>3
  <2> QED BY <1>1, <1>7, <2>1
<1> HIDE DEF off
<1>10. off[1] = Len(G) /\ off[N + 1] = Len(T)
  <2>1. 1 \in 1 .. N + 1 /\ N + 1 \in 1 .. N + 1 /\ 1 - 1 = 0 /\ (N + 1) - 1 = N
    BY <1>3
  <2>2. off[1] = Len(G) + Len(t[0]) /\ off[N + 1] = Len(G) + Len(t[N])
    BY <1>9, <2>1
  <2> QED BY <1>1, <1>6, <1>7, <1>b, <2>2
<1>11. ASSUME NEW i \in 1 .. N PROVE NameAt(T, off[i], ns[i], off[i + 1])
  <2> DEFINE n == ns[i]
             s == ss[i]
             l == Len(n)
             z == Len(t[i - 1])
             y == Len(t[i])
             p == off[i]
             q == off[i + 1]
  <2>1. n \in Strings /\ l \in Nat
    BY <1>3 DEF Strings
  <2>2. JoinOf(s, n, gap)
    BY <1>4
  <2>3. z \in Nat /\ y = z + Len(s)
    <3>1. PieceFollows(t, ss, i)
      BY <1>7
    <3> QED BY <3>1 DEF PieceFollows
  <2>4. SitsAt(F, z, s)
    BY <1>6
  <2>5. p = Len(G) + z /\ q = Len(G) + y
    <3>1. i \in 1 .. N + 1 /\ i + 1 \in 1 .. N + 1 /\ (i + 1) - 1 = i
      BY <1>3
    <3> QED BY <1>9, <3>1
  <2> HIDE DEF n, s, z, y, p, q
  <2>6. Len(s) = l + 1 /\ (\A j \in 1 .. l : s[j] = n[j]) /\ s[l + 1] = Space
    <3>1. Len(s) = Len(n) + Len(gap) /\ (\A j \in 1 .. Len(n) : s[j] = n[j]) /\ \A j \in 1 .. Len(gap) : s[Len(n) + j] = gap[j]
      BY <2>2 DEF JoinOf
    <3>2. 1 \in 1 .. Len(gap)
      BY <1>a
    <3> QED BY <1>a, <3>1, <3>2
  <2> HIDE DEF l
  <2>7. z + (l + 1) <= Len(F) /\ \A j \in 1 .. l + 1 : F[z + j] = s[j]
    BY <2>4, <2>6 DEF SitsAt
  <2>8. p \in Nat /\ q = p + l + 1 /\ q <= Len(T)
    BY <1>1, <1>b, <2>1, <2>3, <2>5, <2>6, <2>7
  <2>9. ASSUME NEW j \in 1 .. l + 1 PROVE T[p + j] = s[j]
    <3>1. z + j \in 1 .. Len(F) /\ p + j = Len(G) + (z + j)
      BY <1>1, <1>b, <2>1, <2>3, <2>5, <2>7
    <3> QED BY <1>b, <2>7, <3>1
  <2>10. T[p + l + 1] = Space
    <3>1. l + 1 \in 1 .. l + 1 /\ p + l + 1 = p + (l + 1)
      BY <2>1, <2>8
    <3> QED BY <2>6, <2>9, <3>1
  <2>11. SubSeq(T, p + 1, p + l) = n
    <3> DEFINE u == SubSeq(T, p + 1, p + l)
               e == p + l
    <3>1. e \in p .. Len(T) /\ T \in Strings /\ e - p = l
      BY <1>8, <1>b, <1>1, <2>1, <2>8 DEF Strings
    <3> HIDE DEF e
    <3>2. SubSeq(T, p + 1, e) \in Strings /\ Len(SubSeq(T, p + 1, e)) = e - p
          /\ \A k \in 1 .. e - p : SubSeq(T, p + 1, e)[k] = T[p + k]
      BY <2>8, <3>1, PieceIs
    <3>3. u \in Strings /\ Len(u) = l /\ \A k \in 1 .. l : u[k] = T[p + k]
      BY <3>1, <3>2 DEF e
    <3> HIDE DEF u
    <3>4. \A k \in 1 .. l : u[k] = n[k]
      <4>1. \A k \in 1 .. l : k \in 1 .. l + 1
        BY <2>1
      <4> QED BY <2>6, <2>9, <3>3, <4>1
    <3>5. Len(n) = l
      BY DEF l
    <3>6. u = n
      <4>1. u \in Seq(Characters) /\ n \in Seq(Characters)
        BY <2>1, <3>3 DEF Strings
      <4> QED BY <3>3, <3>4, <3>5, <4>1, SeqEqual
    <3> QED BY <3>6 DEF u
  <2>12. NameAt(T, p, n, q)
    BY <2>1, <2>8, <2>10, <2>11 DEF NameAt, l
  <2> QED BY <2>12 DEF p, n, q
<1>12. T \in Strings
  BY <1>8 DEF Strings
<1> QED BY <1>b, <1>9, <1>10, <1>11, <1>12 DEF T, G, N

\* A text of which one lexeme, and then what is behind it, can be cut.
OneMore(t, p, x, ls, new) ==
  /\ LCut(t)[p] = {new} /\ new \in Seq(Lexemes) /\ Len(new) = Len(ls) + 1 /\ Len(ls) \in Nat
  /\ new[1] = x /\ \A i \in 1 .. Len(ls) : new[1 + i] = ls[i]

LEMMA CutsOneMore ==
  ASSUME NEW t, NEW p, NEW x \in Lexemes, Leads(t, p, x), NEW ls \in Seq(Lexemes), LCut(t)[x.to] = {ls}
  PROVE  OneMore(t, p, x, ls, <<x>> \o ls)
<1>1. LCut(t)[p] = {<<x>> \o ls}
  <2>1. LCut(t)[p] = {<<x>> \o r : r \in {ls}}
    BY DEF Leads
  <2> HIDE DEF Lexemes
  <2> QED BY <2>1
<1> HIDE DEF Lexemes
<1> DEFINE a == <<x>>
<1>2. a \in Seq(Lexemes) /\ Len(a) = 1 /\ a[1] = x
  OBVIOUS
<1> HIDE DEF a
<1> DEFINE new == a \o ls
<1>3. new \in Seq(Lexemes) /\ JoinOf(new, a, ls)
  BY <1>2, JoinedIs
<1> HIDE DEF new
<1>4. /\ Len(ls) \in Nat /\ Len(new) = Len(a) + Len(ls)
      /\ (\A j \in 1 .. Len(a) : new[j] = a[j]) /\ \A j \in 1 .. Len(ls) : new[Len(a) + j] = ls[j]
  BY <1>3 DEF JoinOf
<1>5. Len(new) = Len(ls) + 1 /\ new[1] = x /\ \A i \in 1 .. Len(ls) : new[1 + i] = ls[i]
  BY <1>2, <1>4
<1>6. LCut(t)[p] = {new}
  BY <1>1 DEF a, new
<1>7. OneMore(t, p, x, ls, new)
  BY <1>3, <1>4, <1>5, <1>6 DEF OneMore
<1> QED BY <1>7 DEF a, new

\* A name with a blank behind it.
LEMMA NameLeads ==
  ASSUME NEW t \in Strings, NEW p \in Nat, NEW n \in Strings, "pos" \in Tok!Types(n),
         p + Len(n) < Len(t), SubSeq(t, p + 1, p + Len(n)) = n, t[p + Len(n) + 1] = Space
  PROVE  /\ Tok!Lexeme("pos", p, p + Len(n)) \in Lexemes
         /\ Leads(t, p, Tok!Lexeme("pos", p, p + Len(n))) /\ Passes(t, p + Len(n))
<1> DEFINE q == p + Len(n)
<1>1. Len(n) \in Nat /\ Len(t) \in Nat /\ n # <<>>
  BY LenProperties DEF Strings, Tok!Types
<1>2. Len(n) # 0
  BY <1>1, EmptySeq DEF Strings
<1>3. q \in Nat /\ q \in p + 1 .. Len(t) /\ q \in p .. Len(t) /\ p < Len(t) /\ q < Len(t) /\ SubSeq(t, p + 1, q) = n /\ t[q + 1] = Space
  BY <1>1, <1>2
<1> HIDE DEF q
<1>4. "pos" \in Tok!TokenTypes
  BY DEF Tok!TokenTypes
<1>5. IsAt("pos", t, p, q)
  <2> HIDE DEF IsAt, Tok!Types, Tok!TokenTypes, Strings
  <2> QED BY <1>3, <1>4, TypeAt
<1>6. t[p + 1] \in Upper /\ ~Keyword(t, p, q) /\ \A k \in p + 1 .. q : t[k] \in Tok!OkPos
  <2>1. \A c \in DOMAIN Tok!Punctuation : Tok!Punctuation[c] # "pos"
    BY ClassesApart DEF Tok!Punctuation
  <2>2. \/ t[p + 1] \in DOMAIN Tok!Punctuation /\ "pos" = Tok!Punctuation[t[p + 1]] /\ q = p + 1
        \/ t[p + 1] = "." /\ "pos" = "rep"
        \/ t[p + 1] = "-" /\ "pos" \in {"shortOpt", "optSeq", "dblDash", "longOpt"}
        \/ t[p + 1] = "=" /\ "pos" = "optValue"
        \/ /\ t[p + 1] \in Upper /\ "pos" = IF Keyword(t, p, q) THEN "options" ELSE "pos"
           /\ \A k \in p + 1 .. q : t[k] \in Tok!OkPos
    <3> HIDE DEF IsAt, Tok!TokenTypes, Strings, Keyword
    <3> QED BY <1>3, <1>4, <1>5, FirstSays
  <2> HIDE DEF Keyword, Tok!OkPos
  <2> QED BY <2>1, <2>2
<1>7. Space \notin Tok!OkPos /\ Space \in Tok!Blanks
  BY ClassesApart DEF Separators
<1>8. IsRun(t, p, q, Tok!OkPos)
  BY <1>3, <1>6, <1>7 DEF IsRun
<1>9. Leads(t, p, Tok!Lexeme("pos", p, q))
  <2> HIDE DEF IsRun, Leads, Keyword
  <2> QED BY <1>3, <1>6, <1>8, AtName
<1>10. Passes(t, q)
  <2> HIDE DEF Passes, Tok!Blanks
  <2> QED BY <1>3, <1>7, AtBlank
<1>11. Tok!Lexeme("pos", p, q) \in Lexemes
  BY <1>3, <1>4 DEF Tok!Lexeme, Lexemes
<1> QED BY <1>9, <1>10, <1>11 DEF q

\* JoinOf the place p there are the names behind the m-th, and nothing else.
OnlyNames(t, ns, p, m, ls) ==
  /\ LCut(t)[p] = {ls} /\ ls \in Seq(Lexemes) /\ Len(ls) = Len(ns) - m
  /\ \A i \in 1 .. Len(ns) - m : ls[i].typ = "pos" /\ SubSeq(t, ls[i].from + 1, ls[i].to) = ns[m + i]

LEMMA NamesCut ==
  ASSUME NEW t \in Strings, NEW ns \in Seq(Strings), \A n \in ToSet(ns) : "pos" \in Tok!Types(n),
         NEW off \in [1 .. Len(ns) + 1 -> Nat], off[Len(ns) + 1] = Len(t),
         \A i \in 1 .. Len(ns) : NameAt(t, off[i], ns[i], off[i + 1])
  PROVE  \E ls : OnlyNames(t, ns, off[1], 0, ls)
<1> DEFINE N == Len(ns)
           Fit(m) == \E ls : OnlyNames(t, ns, off[m + 1], m, ls)
<1>1. N \in Nat /\ Len(t) \in Nat /\ DOMAIN ns = 1 .. N /\ \A i \in 1 .. N : ns[i] \in Strings /\ "pos" \in Tok!Types(ns[i])
  <2> HIDE DEF Tok!Types
  <2>1. N \in Nat /\ DOMAIN ns = 1 .. N /\ (\A i \in 1 .. N : ns[i] \in Strings) /\ Len(t) \in Nat
    BY LenProperties, ElementOfSeq DEF Strings
  <2>2. \A i \in 1 .. N : ns[i] \in ToSet(ns)
    BY <2>1 DEF ToSet
  <2> QED BY <2>1, <2>2
<1> HIDE DEF Lexemes, Tok!Types
<1>2. Fit(N)
  <2>1. LCut(t)[Len(t)] = {<<>>}
    BY NothingLeft
  <2>2. <<>> \in Seq(Lexemes) /\ Len(<<>>) = N - N /\ 1 .. N - N = {}
    BY <1>1
  <2>3. OnlyNames(t, ns, off[N + 1], N, <<>>)
    BY <2>1, <2>2 DEF OnlyNames
  <2> QED BY <2>3
<1>3. ASSUME NEW m \in 1 .. N, Fit(m) PROVE Fit(m - 1)
  <2>1. PICK ls : OnlyNames(t, ns, off[m + 1], m, ls)
    BY <1>3
  <2> DEFINE p == off[m]
             n == ns[m]
             q == p + Len(n)
             x == Tok!Lexeme("pos", p, q)
             r == off[m + 1]
  <2>a. NameAt(t, p, n, r) /\ n \in Strings /\ "pos" \in Tok!Types(n) /\ m \in Nat
    BY <1>1
  <2> HIDE DEF p, n, r
  <2>2. /\ p \in Nat /\ Len(n) \in Nat /\ q \in Nat /\ q < Len(t) /\ r = q + 1
        /\ SubSeq(t, p + 1, p + Len(n)) = n /\ t[p + Len(n) + 1] = Space
    <3>1. p \in Nat /\ Len(n) \in Nat /\ r = p + Len(n) + 1 /\ r <= Len(t)
          /\ SubSeq(t, p + 1, p + Len(n)) = n /\ t[p + Len(n) + 1] = Space
      BY <2>a DEF NameAt
    <3>2. q \in Nat /\ r = q + 1
      BY <3>1
    <3> HIDE DEF q
    <3>3. q < Len(t)
      BY <1>1, <3>1, <3>2
    <3> QED BY <3>1, <3>2, <3>3
  <2>3. x \in Lexemes /\ Leads(t, p, x) /\ Passes(t, q) /\ x.to = q /\ x.from = p /\ x.typ = "pos"
    <3>1. Tok!Lexeme("pos", p, q).to = q /\ Tok!Lexeme("pos", p, q).from = p /\ Tok!Lexeme("pos", p, q).typ = "pos"
      BY DEF Tok!Lexeme
    <3> HIDE DEF Leads, Passes
    <3> QED BY <2>a, <2>2, <3>1, NameLeads
  <2>b. SubSeq(t, p + 1, q) = n
    BY <2>2
  <2> HIDE DEF q, x
  <2>4. LCut(t)[x.to] = {ls} /\ ls \in Seq(Lexemes)
    <3>1. LCut(t)[r] = {ls} /\ ls \in Seq(Lexemes)
      BY <2>1 DEF OnlyNames, r
    <3> QED BY <2>2, <2>3, <3>1 DEF Passes
  <2> DEFINE new == <<x>> \o ls
  <2>5. /\ LCut(t)[p] = {new} /\ new \in Seq(Lexemes) /\ Len(new) = Len(ls) + 1
        /\ new[1] = x /\ \A i \in 1 .. Len(ls) : new[1 + i] = ls[i]
    <3>1. OneMore(t, p, x, ls, new)
      <4> HIDE DEF Leads
      <4> QED BY <2>3, <2>4, CutsOneMore
    <3> HIDE DEF new
    <3> QED BY <3>1 DEF OneMore
  <2> HIDE DEF new
  <2>6. Len(ls) = N - m /\ Len(new) = N - (m - 1) /\ N - m \in Nat
    <3>1. Len(ls) = N - m
      BY <2>1 DEF OnlyNames
    <3> QED BY <1>1, <2>a, <2>5, <3>1
  <2>7. ASSUME NEW i \in 1 .. N - (m - 1)
        PROVE  new[i].typ = "pos" /\ SubSeq(t, new[i].from + 1, new[i].to) = ns[(m - 1) + i]
    <3>1. CASE i = 1
      <4>1. (m - 1) + 1 = m
        BY <2>a
      <4> QED BY <2>b, <2>3, <2>5, <3>1, <4>1 DEF n
    <3>2. CASE i # 1
      <4>1. i - 1 \in 1 .. N - m /\ 1 + (i - 1) = i /\ m + (i - 1) = (m - 1) + i
        BY <1>1, <2>a, <3>2
      <4>2. new[i] = ls[i - 1]
        BY <2>5, <2>6, <4>1
      <4>3. ls[i - 1].typ = "pos" /\ SubSeq(t, ls[i - 1].from + 1, ls[i - 1].to) = ns[m + (i - 1)]
        BY <2>1, <4>1 DEF OnlyNames
      <4> QED BY <4>1, <4>2, <4>3
    <3> QED BY <3>1, <3>2
  <2>8. (m - 1) + 1 = m
    BY <2>a
  <2>9. OnlyNames(t, ns, off[(m - 1) + 1], m - 1, new)
    BY <2>5, <2>6, <2>7, <2>8 DEF OnlyNames, p
  <2> QED BY <2>9
<1> HIDE DEF Fit, N
<1> DEFINE S == {d \in Nat : \A m \in 0 .. N : m + d = N => Fit(m)}
<1>4. \A d \in Nat : d \in S
  <2>1. 0 \in S
    BY <1>1, <1>2
  <2>2. ASSUME NEW d \in S PROVE d + 1 \in S
    <3> SUFFICES ASSUME NEW m \in 0 .. N, m + (d + 1) = N PROVE Fit(m)
      OBVIOUS
    <3>1. m + 1 \in 1 .. N /\ m + 1 \in 0 .. N /\ (m + 1) + d = N /\ (m + 1) - 1 = m
      BY <1>1
    <3>2. Fit(m + 1)
      BY <3>1
    <3> QED BY <1>3, <3>1, <3>2
  <2>3. S \subseteq Nat
    OBVIOUS
  <2> HIDE DEF S
  <2> QED BY <2>1, <2>2, <2>3, Induction
<1>5. Fit(0)
  <2>1. N \in S /\ 0 \in 0 .. N /\ 0 + N = N
    BY <1>1, <1>4
  <2> QED BY <2>1
<1> QED BY <1>5 DEF Fit, N

\* The text has no dash, and the tokenizer is stricter than the grammar only behind one.
LEMMA NoDashes ==
  ASSUME NEW o \in BOOLEAN, NEW ns \in Seq(Strings), \A n \in ToSet(ns) : "pos" \in Tok!Types(n)
  PROVE  \A k \in 1 .. Len(TextOf(o, ns)) : TextOf(o, ns)[k] # "-"
<1> DEFINE E == Characters \ {"-"}
           gap == <<Space>>
           G == GroupText(o)
           ss == Spaced(ns)
<1>1. /\ Tok!OkPos \subseteq E /\ Upper \subseteq E /\ Space \in E /\ "[" \in E /\ "]" \in E
  BY ClassesAssumption, ClassesApart DEF Separators
<1>2. gap \in Seq(E)
  BY <1>1
<1> HIDE DEF E, gap
<1>3. ASSUME NEW n \in ToSet(ns) PROVE n \in Seq(E)
  <2>1. n \in Strings
    BY DEF ToSet, Strings
  <2>2. Tok!IsOf("pos", n)
    BY DEF Tok!Types
  <2>3. "pos" \notin Tok!Range(Tok!Punctuation)
    BY DEF Tok!Range, Tok!Punctuation
  <2>4. n[1] \in Upper /\ \A k \in 2 .. Len(n) : n[k] \in Tok!OkPos
    <3> HIDE DEF Tok!Punctuation, Tok!Letters, Tok!Dashless, Tok!Range
    <3> QED BY <2>2, <2>3 DEF Tok!IsOf, Tok!AllFrom, Tok!OkPos
  <2>5. Len(n) \in Nat /\ n = [k \in 1 .. Len(n) |-> n[k]]
    BY <2>1 DEF Strings
  <2>6. \A k \in 1 .. Len(n) : n[k] \in E
    <3>1. \A k \in 1 .. Len(n) : k = 1 \/ k \in 2 .. Len(n)
      BY <2>5
    <3> QED BY <1>1, <2>4, <3>1
  <2> QED BY <2>5, <2>6
<1>4. G \in Seq(E)
  <2>1. OptionsWord \in Seq(E)
    <3>1. OptionsWord \in Seq(Upper)
      BY ClassesAssumption
    <3> QED BY <1>1, <3>1
  <2>2. <<"[">> \in Seq(E) /\ <<"]", Space>> \in Seq(E) /\ <<>> \in Seq(E)
    BY <1>1
  <2>3. <<"[">> \o OptionsWord \in Seq(E)
    BY <2>1, <2>2, JoinedIs
  <2>4. <<"[">> \o OptionsWord \o <<"]", Space>> \in Seq(E)
    BY <2>2, <2>3, JoinedIs
  <2> QED BY <2>2, <2>4 DEF GroupText
<1>5. ss \in Seq(Seq(E))
  <2>1. Len(ns) \in Nat /\ DOMAIN ns = 1 .. Len(ns)
    BY LenProperties
  <2>2. \A i \in 1 .. Len(ns) : ns[i] \o gap \in Seq(E)
    <3>1. \A i \in 1 .. Len(ns) : ns[i] \in Seq(E)
      BY <1>3, <2>1 DEF ToSet
    <3> QED BY <1>2, <3>1, JoinedIs
  <2>3. ss = [i \in 1 .. Len(ns) |-> ns[i] \o gap]
    BY <2>1 DEF Spaced, gap
  <2> HIDE DEF ss
  <2> QED BY <2>1, <2>2, <2>3
<1> HIDE DEF G, ss
<1>6. FlattenSeq(ss) \in Seq(E)
  <2>1. PICK t \in [0 .. Len(ss) -> Seq(E)] : JoinsOf(t, ss)
    BY <1>5, Joins
  <2>2. Len(ss) \in 0 .. Len(ss)
    BY <1>5, LenProperties
  <2> QED BY <1>5, <2>1, <2>2, Flattened
<1>7. TextOf(o, ns) \in Seq(E)
  <2>1. TextOf(o, ns) = G \o FlattenSeq(ss)
    BY DEF TextOf, G, ss
  <2> QED BY <1>4, <1>6, <2>1, JoinedIs
<1>8. \A k \in 1 .. Len(TextOf(o, ns)) : TextOf(o, ns)[k] \in E
  BY <1>7, ElementOfSeq
<1> QED BY <1>8 DEF E

LEMMA StrictAtDash ==
  ASSUME NEW t \in Strings, NEW q \in Nat, Tok!Stricter(t, q)
  PROVE  \E k \in 1 .. Len(t) : t[k] = "-"
<1>0. Len(t) \in Nat
  BY DEF Strings
<1>1. PICK i \in 0 .. q - 1 : \E x \in Tok!Ahead(t, i) : x.typ \in {"dblDash", "shortOpt", "optSeq"}
  BY DEF Tok!Stricter
<1>2. PICK x \in Tok!Ahead(t, i) : x.typ \in {"dblDash", "shortOpt", "optSeq"}
  BY <1>1
<1>3. PICK j \in Tok!Spans(t, i) : \E typ \in Tok!Types(SubSeq(t, i + 1, j)) : x = Tok!Lexeme(typ, i, j)
  BY <1>2 DEF Tok!Ahead
<1>4. PICK typ \in Tok!Types(SubSeq(t, i + 1, j)) : x = Tok!Lexeme(typ, i, j)
  BY <1>3
<1>5. i \in Nat /\ j \in i + 1 .. Len(t) /\ typ \in Tok!TokenTypes /\ typ \in {"dblDash", "shortOpt", "optSeq"}
  BY <1>2, <1>4 DEF Tok!Spans, Tok!Types, Tok!Lexeme
<1>6. IsAt(typ, t, i, j)
  BY <1>4, <1>5, TypeAt
<1>7. typ \notin Tok!Range(Tok!Punctuation)
  BY <1>5 DEF Tok!Range, Tok!Punctuation
<1>8. t[i + 1] = "-"
  <2> HIDE DEF Tok!Punctuation, Tok!Letters, Tok!Dashless, Tok!Range, Keyword
  <2> QED BY <1>5, <1>6, <1>7 DEF IsAt
<1>9. i + 1 \in 1 .. Len(t)
  BY <1>0, <1>5
<1> QED BY <1>8, <1>9

\* The text is cut into the brackets and the keyword, if there is a group, and the names.
GroupTokens(o) == IF o THEN 3 ELSE 0

IsName(t, x, n) == x.typ = "pos" /\ SubSeq(t, x.from + 1, x.to) = n
MadeOf(t, g, ns, ls) ==
  /\ Tok!LooseCuts(t) = {ls} /\ ls \in Seq(Lexemes) /\ Len(ls) = g + Len(ns)
  /\ g = 3 => ls[1].typ = "openSq" /\ ls[2].typ = "options" /\ ls[3].typ = "closeSq"
  /\ \A i \in 1 .. Len(ns) : IsName(t, ls[g + i], ns[i])

LEMMA TextCut ==
  ASSUME NEW o \in BOOLEAN, NEW ns \in Seq(Strings), \A n \in ToSet(ns) : "pos" \in Tok!Types(n)
  PROVE  \E ls : MadeOf(TextOf(o, ns), GroupTokens(o), ns, ls)
<1> DEFINE t == TextOf(o, ns)
           w == Len(OptionsWord)
           N == Len(ns)
<1>1. PICK off \in [1 .. N + 1 -> Nat] :
        /\ off[1] = Len(GroupText(o)) /\ off[N + 1] = Len(t)
        /\ \A i \in 1 .. N : NameAt(t, off[i], ns[i], off[i + 1])
  BY NamesSit
<1>2. t \in Strings /\ \A j \in 1 .. Len(GroupText(o)) : t[j] = GroupText(o)[j]
  BY NamesSit
<1> HIDE DEF t, Lexemes, Tok!Types
<1>3. PICK ls : OnlyNames(t, ns, off[1], 0, ls)
  BY <1>1, <1>2, NamesCut
<1>4. N \in Nat /\ Len(t) \in Nat /\ Len(ls) = N /\ ls \in Seq(Lexemes) /\ LCut(t)[Len(GroupText(o))] = {ls}
      /\ \A i \in 1 .. N : IsName(t, ls[i], ns[i])
  <2>1. N \in Nat /\ Len(t) \in Nat
    BY <1>2, LenProperties DEF Strings
  <2>2. N - 0 = N /\ \A i \in 1 .. N : 0 + i = i
    BY <2>1
  <2> QED BY <1>1, <1>3, <2>1, <2>2 DEF OnlyNames, IsName
<1>5. CASE ~o
  <2>1. Len(GroupText(o)) = 0
    BY <1>5, GroupTextIs
  <2>2. Tok!LooseCuts(t) = {ls}
    BY <1>4, <2>1, LooseCutsAre
  <2>3. GroupTokens(o) = 0 /\ \A i \in 1 .. N : 0 + i = i
    BY <1>4, <1>5 DEF GroupTokens
  <2>4. MadeOf(t, 0, ns, ls)
    BY <1>4, <2>2, <2>3 DEF MadeOf
  <2> QED BY <2>3, <2>4 DEF t
<1>6. CASE o
  <2>1. /\ w \in Nat \ {0} /\ (\A j \in 1 .. w : OptionsWord[j] \in Upper) /\ Len(GroupText(o)) = w + 3
        /\ GroupText(o)[1] = "[" /\ (\A j \in 1 .. w : GroupText(o)[1 + j] = OptionsWord[j])
        /\ GroupText(o)[w + 2] = "]" /\ GroupText(o)[w + 3] = Space
    BY <1>6, GroupTextIs
  <2> HIDE DEF w
  <2>2. w + 3 <= Len(t)
    <3>1. CASE N = 0
      BY <1>1, <2>1, <3>1
    <3>2. CASE N # 0
      <4>1. 1 \in 1 .. N
        BY <1>4, <3>2
      <4>2. NameAt(t, off[1], ns[1], off[1 + 1])
        BY <1>1, <4>1
      <4>3. Len(ns[1]) \in Nat /\ off[1] + Len(ns[1]) + 1 <= Len(t)
        BY <4>2 DEF NameAt
      <4>4. off[1] = w + 3
        BY <1>1, <2>1
      <4> DEFINE k == Len(ns[1])
                 y == off[1]
      <4>5. k \in Nat /\ y = w + 3 /\ y + k + 1 <= Len(t) /\ w \in Nat
        BY <2>1, <4>3, <4>4
      <4> HIDE DEF k, y
      <4> QED BY <1>4, <4>5
    <3> QED BY <3>1, <3>2
  <2>3. t[1] = "[" /\ (\A j \in 1 .. w : t[1 + j] = OptionsWord[j]) /\ t[w + 2] = "]" /\ t[w + 3] = Space
    <3>1. 1 \in 1 .. w + 3 /\ w + 2 \in 1 .. w + 3 /\ w + 3 \in 1 .. w + 3 /\ \A j \in 1 .. w : 1 + j \in 1 .. w + 3
      BY <2>1
    <3> QED BY <1>2, <2>1, <3>1
  <2>4. w \in Nat /\ 0 < Len(t) /\ 1 < Len(t) /\ w + 1 \in Nat /\ w + 1 < Len(t) /\ w + 2 \in Nat /\ w + 2 < Len(t)
        /\ 0 + 1 = 1 /\ 1 + 1 = 2 /\ (w + 1) + 1 = w + 2 /\ (w + 2) + 1 = w + 3
    BY <1>4, <2>1, <2>2
  <2>5. /\ "[" \in DOMAIN Tok!Punctuation /\ "]" \in DOMAIN Tok!Punctuation /\ Space \in Tok!Blanks /\ "]" \notin Tok!OkPos
        /\ Tok!Punctuation["["] = "openSq" /\ Tok!Punctuation["]"] = "closeSq" /\ Upper \subseteq Tok!OkPos
        /\ {"openSq", "closeSq", "options"} \subseteq Tok!TokenTypes
    <3>1. DOMAIN Tok!Punctuation = {"[", "]", "(", ")", "|"} /\ Tok!Blanks = {Space, Tab} /\ Tok!OkPos = Upper \cup Digits \cup {"_"}
          /\ \A c \in Upper \cup Lower \cup Digits \cup {Space, Tab} : c \notin Separators
      BY ClassesApart
    <3>2. Tok!Punctuation["["] = "openSq" /\ Tok!Punctuation["]"] = "closeSq"
      BY DEF Tok!Punctuation
    <3>3. "]" \notin Tok!OkPos
      <4>1. "]" \in Separators
        BY DEF Separators
      <4> QED BY <3>1, <4>1
    <3>4. {"openSq", "closeSq", "options"} \subseteq Tok!TokenTypes
      BY <3>1, <3>2 DEF Tok!TokenTypes, Tok!Range
    <3> QED BY <3>1, <3>2, <3>3, <3>4
  <2> DEFINE a == Tok!Lexeme("openSq", 0, 1)
             b == Tok!Lexeme("options", 1, w + 1)
             c == Tok!Lexeme("closeSq", w + 1, w + 2)
  <2>6. /\ a \in Lexemes /\ b \in Lexemes /\ c \in Lexemes /\ a.to = 1 /\ b.to = w + 1 /\ c.to = w + 2
        /\ a.typ = "openSq" /\ b.typ = "options" /\ c.typ = "closeSq"
    BY <2>4, <2>5 DEF Tok!Lexeme, Lexemes
  <2>7. Leads(t, 0, a)
    <3>1. t[0 + 1] \in DOMAIN Tok!Punctuation
      BY <2>3, <2>4, <2>5
    <3>2. Leads(t, 0, Tok!Lexeme(Tok!Punctuation[t[0 + 1]], 0, 0 + 1))
      <4> HIDE DEF Leads
      <4> QED BY <1>2, <2>4, <3>1, AtBracket
    <3> QED BY <2>3, <2>4, <2>5, <3>2
  <2>8. Leads(t, w + 1, c)
    <3>1. t[(w + 1) + 1] \in DOMAIN Tok!Punctuation
      BY <2>3, <2>4, <2>5
    <3>2. Leads(t, w + 1, Tok!Lexeme(Tok!Punctuation[t[(w + 1) + 1]], w + 1, (w + 1) + 1))
      <4> HIDE DEF Leads
      <4> QED BY <1>2, <2>4, <3>1, AtBracket
    <3> QED BY <2>3, <2>4, <2>5, <3>2
  <2>9. Passes(t, w + 2)
    <3>1. t[(w + 2) + 1] \in Tok!Blanks
      BY <2>3, <2>4, <2>5
    <3> HIDE DEF Passes
    <3> QED BY <1>2, <2>4, <3>1, AtBlank
  <2>10. Leads(t, 1, b)
    <3>1. t[1 + 1] \in Upper /\ \A k \in 2 .. w + 1 : t[k] \in Upper
      <4>1. ASSUME NEW k \in 2 .. w + 1 PROVE t[k] \in Upper
        <5>1. k - 1 \in 1 .. w /\ 1 + (k - 1) = k
          BY <2>4
        <5> QED BY <2>1, <2>3, <5>1
      <4>2. 1 + 1 \in 2 .. w + 1
        BY <2>1
      <4> QED BY <4>1, <4>2
    <3>2. IsRun(t, 1, w + 1, Tok!OkPos)
      <4>1. w + 1 \in 1 .. Len(t)
        BY <1>4, <2>4
      <4>2. \A k \in 1 + 1 .. w + 1 : t[k] \in Tok!OkPos
        BY <2>5, <3>1
      <4>3. t[(w + 1) + 1] \notin Tok!OkPos
        BY <2>3, <2>4, <2>5
      <4> QED BY <4>1, <4>2, <4>3 DEF IsRun
    <3>3. Keyword(t, 1, w + 1)
      <4> DEFINE u == SubSeq(t, 1 + 1, w + 1)
      <4>1. w + 1 \in 1 .. Len(t) /\ (w + 1) - 1 = w
        BY <1>4, <2>4
      <4>2. u \in Strings /\ Len(u) = w /\ \A k \in 1 .. w : u[k] = t[1 + k]
        <5> DEFINE e == w + 1
        <5>1. e \in 1 .. Len(t) /\ e - 1 = w /\ 1 \in Nat
          BY <4>1
        <5> HIDE DEF e
        <5>2. SubSeq(t, 1 + 1, e) \in Strings /\ Len(SubSeq(t, 1 + 1, e)) = e - 1
              /\ \A k \in 1 .. e - 1 : SubSeq(t, 1 + 1, e)[k] = t[1 + k]
          BY <1>2, <5>1, PieceIs
        <5> QED BY <5>1, <5>2 DEF e
      <4>3. OptionsWord \in Seq(Characters)
        <5>1. OptionsWord \in Seq(Upper) /\ Upper \subseteq Characters
          BY ClassesAssumption
        <5> QED BY <5>1
      <4> HIDE DEF u
      <4>4. u = OptionsWord
        BY <2>3, <4>2, <4>3, SeqEqual DEF Strings, w
      <4> QED BY <4>4 DEF Keyword, u
    <3>4. Leads(t, 1, Tok!Lexeme(IF Keyword(t, 1, w + 1) THEN "options" ELSE "pos", 1, w + 1))
      <4> HIDE DEF Leads, IsRun, Keyword
      <4> QED BY <1>2, <2>4, <3>1, <3>2, AtName
    <3> HIDE DEF Keyword
    <3> QED BY <3>3, <3>4
  <2> HIDE DEF a, b, c
  <2>11. LCut(t)[c.to] = {ls}
    BY <1>4, <2>1, <2>4, <2>6, <2>9 DEF Passes
  <2> DEFINE l1 == <<c>> \o ls
             l2 == <<b>> \o l1
             l3 == <<a>> \o l2
  <2>12. /\ LCut(t)[w + 1] = {l1} /\ l1 \in Seq(Lexemes) /\ Len(l1) = N + 1
         /\ l1[1] = c /\ \A i \in 1 .. N : l1[1 + i] = ls[i]
    <3>1. OneMore(t, w + 1, c, ls, l1)
      <4> HIDE DEF Leads
      <4> QED BY <1>4, <2>6, <2>8, <2>11, CutsOneMore
    <3> HIDE DEF l1
    <3> QED BY <1>4, <1>4, <2>6, <2>8, <2>11, <3>1 DEF OneMore
  <2> HIDE DEF l1
  <2>13. /\ LCut(t)[1] = {l2} /\ l2 \in Seq(Lexemes) /\ Len(l2) = (N + 1) + 1
         /\ l2[1] = b /\ \A i \in 1 .. N + 1 : l2[1 + i] = l1[i]
    <3>1. OneMore(t, 1, b, l1, l2)
      <4> HIDE DEF Leads
      <4> QED BY <2>6, <2>10, <2>12, CutsOneMore
    <3> HIDE DEF l2
    <3> QED BY <1>4, <2>6, <2>10, <2>12, <3>1 DEF OneMore
  <2> HIDE DEF l2
  <2>14. /\ LCut(t)[0] = {l3} /\ l3 \in Seq(Lexemes) /\ Len(l3) = ((N + 1) + 1) + 1
         /\ l3[1] = a /\ \A i \in 1 .. (N + 1) + 1 : l3[1 + i] = l2[i]
    <3>1. OneMore(t, 0, a, l2, l3)
      <4> HIDE DEF Leads
      <4> QED BY <2>6, <2>7, <2>13, CutsOneMore
    <3> HIDE DEF l3
    <3> QED BY <1>4, <2>6, <2>7, <2>13, <3>1 DEF OneMore
  <2> HIDE DEF l3
  <2>15. l3[1] = a /\ l3[2] = b /\ l3[3] = c /\ Len(l3) = 3 + N /\ \A i \in 1 .. N : l3[3 + i] = ls[i]
    <3>1. /\ 1 \in 1 .. (N + 1) + 1 /\ 2 \in 1 .. (N + 1) + 1 /\ 1 \in 1 .. N + 1 /\ 1 + 1 = 2 /\ 1 + 2 = 3
          /\ ((N + 1) + 1) + 1 = 3 + N
      BY <1>4
    <3>2. l3[2] = l2[1] /\ l3[3] = l2[2] /\ l2[2] = l1[1]
      BY <2>13, <2>14, <3>1
    <3>3. ASSUME NEW i \in 1 .. N PROVE l3[3 + i] = ls[i]
      <4>1. 2 + i \in 1 .. (N + 1) + 1 /\ 1 + (2 + i) = 3 + i /\ 1 + i \in 1 .. N + 1 /\ 1 + (1 + i) = 2 + i
        BY <1>4
      <4>2. l3[3 + i] = l2[2 + i] /\ l2[2 + i] = l1[1 + i]
        BY <2>13, <2>14, <4>1
      <4> QED BY <2>12, <4>2
    <3> QED BY <2>12, <2>13, <2>14, <3>1, <3>2, <3>3
  <2>16. Tok!LooseCuts(t) = {l3}
    BY <2>14, LooseCutsAre
  <2>17. GroupTokens(o) = 3
    BY <1>6 DEF GroupTokens
  <2>18. ASSUME NEW i \in 1 .. N PROVE IsName(t, l3[3 + i], ns[i])
    BY <1>4, <2>15
  <2>19. MadeOf(t, 3, ns, l3)
    BY <2>6, <2>14, <2>15, <2>16, <2>18 DEF MadeOf
  <2> QED BY <2>17, <2>19 DEF t
<1> QED BY <1>5, <1>6

(***************************************************************************)
(* The spec that is made up, and what is declared when it is parsed.       *)
(***************************************************************************)
\* A token has the text it was cut from.
TokenTexts == \A i \in DOMAIN tokens : \E q \in Nat : tokens[i].val = SubSeq(spec, tokens[i].pos + 1, q)

\* The declarations of one Run so far; or those of one Run at least.
Fresh ==
  \E done \in Seq(ToSet(program.decls)) :
    /\ program.decls = done \o left
    /\ args = NamesIn(done) /\ (options # <<>> <=> HasOptions(done))
Kept  == ToSet(args) = ToSet(ArgNames) /\ (options # <<>> <=> HasOptions(program.decls))

MadeFor == TextOf(HasOptions(program.decls), ArgNames)

Stages ==
  /\ at \in {"app", "between", "init", "cutting", "failed"} /\ runs \in Nat
  /\ at \in {"between", "cutting", "failed"} => left = <<>>
  /\ at = "app" => runs = 0 /\ ~program.sub
  /\ at \in {"init", "cutting", "failed"} => runs > 0

MadeInv ==
  /\ at \in {"app", "init"} => (spec = <<>> /\ Fresh) \/ (spec = MadeFor /\ Kept)
  /\ at \in {"cutting", "failed"} \/ (at = "between" /\ runs > 0) => spec = MadeFor /\ Kept
  /\ at = "between" /\ runs = 0 => spec = <<>> /\ args = <<>> /\ options = <<>> /\ program.sub

DefaultInv ==
  /\ TokenTexts /\ Stages /\ ToSet(args) \subseteq DOMAIN argsIdx
  /\ program.spec = <<>> => MadeInv
  /\ DefaultSpecMeans

LEMMA TextEmpty ==
  ASSUME NEW o \in BOOLEAN, NEW ns \in Seq(Strings), TextOf(o, ns) = <<>>
  PROVE  ~o /\ ns = <<>>
<1> DEFINE N == Len(ns)
<1>1. PICK off \in [1 .. N + 1 -> Nat] :
        /\ off[1] = Len(GroupText(o)) /\ off[N + 1] = Len(TextOf(o, ns))
        /\ \A i \in 1 .. N : NameAt(TextOf(o, ns), off[i], ns[i], off[i + 1])
  BY NamesSit
<1>2. N \in Nat /\ off[N + 1] = 0
  BY <1>1, LenProperties
<1> HIDE DEF N
<1>4. N = 0
  <2> SUFFICES ASSUME N # 0 PROVE FALSE
    OBVIOUS
  <2>1. N \in 1 .. N
    BY <1>2
  <2>2. NameAt(TextOf(o, ns), off[N], ns[N], off[N + 1])
    BY <1>1, <2>1
  <2>3. off[N] \in Nat /\ Len(ns[N]) \in Nat /\ off[N + 1] = off[N] + Len(ns[N]) + 1
    BY <2>2 DEF NameAt
  <2> QED BY <1>2, <2>3
<1>5. Len(GroupText(o)) = 0
  BY <1>1, <1>2, <1>4
<1>6. ~o
  BY <1>5, GroupTextIs
<1> HIDE DEF Strings
<1> QED BY <1>4, <1>6, EmptySeq DEF N

(***************************************************************************)
(* Each step of the tokenizer takes the text of its token.                 *)
(***************************************************************************)
LEMMA TakenText ==
  ASSUME spec \in Strings, tokens \in Seq(Tokens), TokenTexts,
         NEW typ, NEW p, NEW q \in Nat, NEW r, Tok!Take(Tok!Token(typ, p, q), r)
  PROVE  TokenTexts'
<1> DEFINE tok == Tok!Token(typ, p, q)
<1>1. tokens' = Append(tokens, tok) /\ spec' = spec
  BY DEF Tok!Take
<1>2. tok.val = SubSeq(spec, p + 1, q) /\ tok.pos = p
  BY DEF Tok!Token, Tok!Text
<1> HIDE DEF tok, Tokens, Strings
<1>3. Len(tokens) \in Nat /\ DOMAIN tokens = 1 .. Len(tokens)
      /\ DOMAIN tokens' = 1 .. Len(tokens) + 1 /\ tokens'[Len(tokens) + 1] = tok
      /\ \A i \in 1 .. Len(tokens) : tokens'[i] = tokens[i]
  <2> DEFINE S == Tokens \cup {tok}
  <2>1. tok \in S /\ Tokens \subseteq S
    OBVIOUS
  <2> HIDE DEF S
  <2>2. tokens \in Seq(S)
    BY <2>1
  <2> QED BY <1>1, <2>1, <2>2, AppendProperties, LenProperties
<1>4. ASSUME NEW i \in DOMAIN tokens' PROVE \E e \in Nat : tokens'[i].val = SubSeq(spec', tokens'[i].pos + 1, e)
  <2>1. CASE i = Len(tokens) + 1
    BY <1>1, <1>2, <1>3, <2>1
  <2>2. CASE i # Len(tokens) + 1
    <3>1. i \in 1 .. Len(tokens)
      BY <1>3, <2>2
    <3> QED BY <1>1, <1>3, <3>1 DEF TokenTexts
  <2> QED BY <2>1, <2>2
<1> QED BY <1>4 DEF TokenTexts

LEMMA NoText ==
  ASSUME \/ tokens' = <<>>
         \/ tokens' = tokens /\ spec' = spec /\ TokenTexts
  PROVE  TokenTexts'
BY DEF TokenTexts

LEMMA TextsNext ==
  ASSUME Scanning, TokenTexts, Tok!Next
  PROVE  TokenTexts'
<1>1. spec \in Strings /\ tokens \in Seq(Tokens) /\ Len(spec) \in Nat /\ pos \in Nat
      /\ \A C : Tok!At(C) => pos < Len(spec) /\ spec[pos + 1] \in C
  BY Here DEF Scanning, Reads
<1>2. \A p \in 0 .. Len(spec) : \A C : Tok!EndOf(p, C) \in Nat
  <2> SUFFICES ASSUME NEW p \in 0 .. Len(spec), NEW C PROVE Tok!EndOf(p, C) \in Nat
    OBVIOUS
  <2>1. IsRun(spec, p, Tok!EndOf(p, C), C)
    BY <1>1, EndOfIs
  <2> QED BY <1>1, <2>1 DEF IsRun
<1>3. \A p \in Nat : \A C : Tok!Sees(p, C) => p \in 0 .. Len(spec)
  BY <1>1, SeesIs
<1>4. \A p \in Nat : ~Tok!Eof(p) => p \in 0 .. Len(spec)
  BY <1>1, SeesIs
<1>5. \A typ, p, r : \A q \in Nat : Tok!Take(Tok!Token(typ, p, q), r) => TokenTexts'
  BY <1>1, TakenText
<1>6. \A q : Tok!Stop(q) \/ Tok!Skip(q) => TokenTexts'
  BY NoText DEF Tok!Stop, Tok!Skip
<1> HIDE DEF Tok!Take, Tok!Stop, Tok!Skip, Tok!Token, TokenTexts
<1>7. CASE Tok!Blank \/ Tok!LoneDash \/ Tok!Unexpected
  BY <1>6, <1>7 DEF Tok!Blank, Tok!LoneDash, Tok!Unexpected
<1>8. CASE Tok!Return
  <2>1. tokens' = tokens /\ spec' = spec
    BY <1>8 DEF Tok!Return
  <2> QED BY <2>1, NoText
<1>9. CASE Tok!Bracket
  <2>1. pos + 1 \in Nat
    BY <1>1
  <2> QED BY <1>5, <1>9, <2>1 DEF Tok!Bracket
<1>10. CASE Tok!Dots
  <2>1. pos + 3 \in Nat
    BY <1>1
  <2> HIDE DEF Tok!Sees
  <2> QED BY <1>5, <1>6, <1>10, <2>1 DEF Tok!Dots
<1>11. CASE Tok!ShortOpts
  <2> DEFINE end == Tok!EndOf(pos + 1, Tok!Letters)
  <2>1. end \in Nat
    <3>1. pos + 1 \in Nat /\ Tok!Sees(pos + 1, Tok!Letters)
      BY <1>1, <1>11 DEF Tok!ShortOpts
    <3> QED BY <1>2, <1>3, <3>1
  <2>2. \/ Tok!Stop(end)
        \/ Tok!Take(IF end - pos > 2 THEN Tok!Token("optSeq", pos + 1, end) ELSE Tok!Token("shortOpt", pos, end), end)
    BY <1>11, Zenon DEF Tok!ShortOpts
  <2> HIDE DEF end
  <2>3. CASE end - pos > 2
    BY <1>5, <1>6, <2>1, <2>2, <2>3
  <2>4. CASE ~(end - pos > 2)
    BY <1>5, <1>6, <2>1, <2>2, <2>4
  <2> QED BY <2>3, <2>4
<1>12. CASE Tok!LongOpt
  <2> DEFINE end == Tok!EndOf(pos + 2, Tok!OkLongOpt(FALSE))
  <2>1. \/ Tok!Take(Tok!Token("dblDash", pos, pos + 2), pos + 2)
        \/ Tok!Stop(pos + 2)
        \/ ~Tok!Eof(pos + 2) /\ Tok!Take(Tok!Token("longOpt", pos, end), end)
    BY <1>12, Zenon DEF Tok!LongOpt
  <2>2. pos + 2 \in Nat /\ (~Tok!Eof(pos + 2) => end \in Nat)
    <3>1. pos + 2 \in Nat
      BY <1>1
    <3> QED BY <1>2, <1>4, <3>1
  <2> HIDE DEF end
  <2> QED BY <1>5, <1>6, <2>1, <2>2
<1>13. CASE Tok!OptValue
  <2> DEFINE close == Tok!EndOf(pos + 1, ToSet(spec) \ {">"})
  <2>1. Tok!Stop(pos + 1) \/ Tok!Stop(close) \/ Tok!Take(Tok!Token("optValue", pos, close + 1), close + 1)
    BY <1>13, Zenon DEF Tok!OptValue, Tok!ToSet, ToSet
  <2>2. close + 1 \in Nat
    <3>1. pos + 1 \in 0 .. Len(spec)
      BY <1>1, <1>13 DEF Tok!OptValue
    <3>2. close \in Nat
      BY <1>2, <3>1
    <3> HIDE DEF close
    <3> QED BY <3>2
  <2> HIDE DEF close
  <2> QED BY <1>5, <1>6, <2>1, <2>2
<1>14. CASE Tok!Name
  <2> DEFINE end == Tok!EndOf(pos + 1, Tok!OkPos)
  <2>1. \E typ : Tok!Take(Tok!Token(typ, pos, end), end)
    BY <1>14, Zenon DEF Tok!Name
  <2>2. end \in Nat
    <3>1. pos + 1 \in 0 .. Len(spec)
      BY <1>1, <1>14 DEF Tok!Name
    <3> QED BY <1>2, <3>1
  <2> HIDE DEF end
  <2> QED BY <1>5, <2>1, <2>2
<1> QED BY <1>7, <1>8, <1>9, <1>10, <1>11, <1>12, <1>13, <1>14 DEF Tok!Next

(***************************************************************************)
(* What is parsed for the spec that is made up.                            *)
(***************************************************************************)
\* The options and the tokens that doInit gives to uParse.
GivenOptions == [i \in DOMAIN options |-> i]
GivenSpec    == [i \in DOMAIN tokens |-> [typ |-> tokens[i].typ, val |-> Found(tokens[i])]]

LEMMA GivenInputs ==
  ASSUME BoundInv, tokens \in Seq(Tokens)
  PROVE  Inputs(GivenOptions, GivenSpec)
<1> DEFINE os == GivenOptions
           ts == GivenSpec
<1>1. os \in Seq(Nat)
  <2>1. Len(options) \in Nat /\ DOMAIN options = 1 .. Len(options)
    BY LenProperties DEF BoundInv, IndexInv
  <2> QED BY <2>1 DEF GivenOptions
<1>2. ts \in Seq(InputTokens)
  <2>1. Len(tokens) \in Nat /\ DOMAIN tokens = 1 .. Len(tokens) /\ \A i \in 1 .. Len(tokens) : tokens[i] \in Tokens
    BY LenProperties, ElementOfSeq
  <2> DEFINE F(i) == [typ |-> tokens[i].typ, val |-> Found(tokens[i])]
  <2>2. \A i \in 1 .. Len(tokens) : F(i) \in InputTokens
    BY <2>1, GivenTokens DEF BoundInv
  <2> HIDE DEF F
  <2>3. [i \in 1 .. Len(tokens) |-> F(i)] \in Seq(InputTokens)
    BY <2>1, <2>2
  <2> QED BY <2>1, <2>3 DEF F, GivenSpec
<1> HIDE DEF os, ts
<1>3. os \in Seq(ToSet(os)) /\ ts \in Seq(ToSet(ts)) /\ ToSet(ts) \subseteq InputTokens
  BY <1>1, <1>2, SeqOfMembers, Members
<1>4. \A t \in ToSet(ts) : t.typ = "optSeq" => t.val \in Seq(ToSet(t.val))
  BY <1>3, SeqOfMembers DEF InputTokens
<1> QED BY <1>3, <1>4 DEF Inputs, IsSpec, os, ts

\* The text of a token is the one of its lexeme.
LEMMA TokenCut ==
  ASSUME NEW s, NEW tok \in Tokens, NEW q \in Nat, tok.val = SubSeq(s, tok.pos + 1, q)
  PROVE  /\ Tok!LexemeOf(tok).typ = tok.typ
         /\ tok.typ = "pos" => SubSeq(s, Tok!LexemeOf(tok).from + 1, Tok!LexemeOf(tok).to) = tok.val
<1>1. tok.pos \in Nat /\ Tok!LexemeOf(tok).typ = tok.typ
  BY DEF Tokens, Tok!LexemeOf, Tok!Lexeme
<1>2. ASSUME tok.typ = "pos" PROVE Tok!LexemeOf(tok).from = tok.pos /\ Tok!LexemeOf(tok).to = tok.pos + Len(tok.val)
  BY <1>1, <1>2 DEF Tok!LexemeOf, Tok!Lexeme
<1> DEFINE p == tok.pos
           S == {s[i] : i \in p + 1 .. q}
<1>3. \A i \in p + 1 .. q : s[i] \in S
  OBVIOUS
<1> HIDE DEF p, S
<1>4. p \in Nat /\ p + 1 \in Int /\ q \in Int
  BY <1>1 DEF p
<1>5. Len(SubSeq(s, p + 1, q)) = IF p + 1 <= q THEN q - (p + 1) + 1 ELSE 0
  BY <1>3, <1>4, SubSeqProperties
<1>6. CASE p + 1 <= q
  <2>1. p + Len(SubSeq(s, p + 1, q)) = q
    BY <1>4, <1>5, <1>6
  <2> QED BY <1>1, <1>2, <2>1 DEF p
<1>7. CASE ~(p + 1 <= q)
  <2>1. p + Len(SubSeq(s, p + 1, q)) = p /\ q < p + 1 /\ p < p + 1 /\ p \in Int
    BY <1>4, <1>5, <1>7
  <2>2. SubSeq(s, p + 1, q) = <<>> /\ SubSeq(s, p + 1, p) = <<>>
    BY <1>4, <2>1, SubSeqEmpty
  <2> QED BY <1>1, <1>2, <2>1, <2>2 DEF p
<1> QED BY <1>6, <1>7

\* The tokens of the text that was made up.
AreTokens(ts, g, ns) ==
  /\ Len(ts) = g + Len(ns)
  /\ g = 3 => ts[1].typ = "openSq" /\ ts[2].typ = "options" /\ ts[3].typ = "closeSq"
  /\ \A i \in 1 .. Len(ns) : ts[g + i].typ = "pos" /\ ts[g + i].val = ns[i]

LEMMA MadeTokens ==
  ASSUME NEW o \in BOOLEAN, NEW ns \in Seq(Strings), \A n \in ToSet(ns) : "pos" \in Tok!Types(n),
         spec = TextOf(o, ns), tokens \in Seq(Tokens), TokenTexts, Tok!LooseCuts(spec) = {Tok!Lexemes(tokens)}
  PROVE  AreTokens(tokens, GroupTokens(o), ns)
<1> DEFINE g == GroupTokens(o)
           N == Len(ns)
<1>0. PICK ls : MadeOf(spec, g, ns, ls)
  <2> HIDE DEF Tok!Types
  <2> QED BY TextCut
<1> HIDE DEF Tok!Types, Tokens, Lexemes
<1>1. /\ Tok!LooseCuts(spec) = {ls} /\ Len(ls) = g + N
      /\ g = 3 => ls[1].typ = "openSq" /\ ls[2].typ = "options" /\ ls[3].typ = "closeSq"
      /\ \A i \in 1 .. N : IsName(spec, ls[g + i], ns[i])
  BY <1>0 DEF MadeOf
<1>2. Tok!Lexemes(tokens) = ls
  BY <1>1
<1>3. Len(tokens) = Len(ls) /\ Len(tokens) \in Nat /\ DOMAIN tokens = 1 .. Len(tokens)
      /\ \A i \in 1 .. Len(tokens) : tokens[i] \in Tokens
  BY <1>2, LexemesAre, LenProperties, ElementOfSeq
<1>a. N \in Nat /\ g \in {0, 3}
  BY LenProperties DEF GroupTokens
<1> HIDE DEF g, N
<1> DEFINE SameAs(i) == ls[i].typ = tokens[i].typ
                        /\ (tokens[i].typ = "pos" => SubSeq(spec, ls[i].from + 1, ls[i].to) = tokens[i].val)
<1>4. ASSUME NEW i \in 1 .. g + N PROVE SameAs(i)
  <2>1. i \in DOMAIN tokens /\ tokens[i] \in Tokens
    BY <1>1, <1>3
  <2>2. ls[i] = Tok!LexemeOf(tokens[i])
    BY <1>2, <2>1 DEF Tok!Lexemes
  <2>3. PICK q \in Nat : tokens[i].val = SubSeq(spec, tokens[i].pos + 1, q)
    BY <2>1 DEF TokenTexts
  <2> DEFINE tok == tokens[i]
  <2>4. tok \in Tokens /\ tok.val = SubSeq(spec, tok.pos + 1, q)
    BY <2>1, <2>3
  <2> HIDE DEF tok
  <2>5. /\ Tok!LexemeOf(tok).typ = tok.typ
        /\ tok.typ = "pos" => SubSeq(spec, Tok!LexemeOf(tok).from + 1, Tok!LexemeOf(tok).to) = tok.val
    BY <2>4, TokenCut
  <2> QED BY <2>2, <2>5 DEF tok
<1>5. ASSUME g = 3 PROVE tokens[1].typ = "openSq" /\ tokens[2].typ = "options" /\ tokens[3].typ = "closeSq"
  <2>1. 1 \in 1 .. g + N /\ 2 \in 1 .. g + N /\ 3 \in 1 .. g + N
    BY <1>a, <1>5
  <2>2. SameAs(1) /\ SameAs(2) /\ SameAs(3)
    BY <1>4, <2>1
  <2> QED BY <1>1, <1>5, <2>2
<1>6. ASSUME NEW i \in 1 .. N PROVE tokens[g + i].typ = "pos" /\ tokens[g + i].val = ns[i]
  <2> DEFINE k == g + i
  <2>1. k \in 1 .. g + N
    BY <1>a
  <2>2. IsName(spec, ls[k], ns[i])
    BY <1>1
  <2> HIDE DEF k
  <2>3. SameAs(k)
    BY <1>4, <2>1
  <2>4. ls[k].typ = "pos" /\ SubSeq(spec, ls[k].from + 1, ls[k].to) = ns[i]
    BY <2>2 DEF IsName
  <2>5. tokens[k].typ = "pos" /\ tokens[k].val = ns[i]
    BY <2>3, <2>4
  <2> QED BY <2>5 DEF k
<1>7. AreTokens(tokens, g, ns)
  BY <1>1, <1>3, <1>5, <1>6 DEF AreTokens, N
<1> QED BY <1>7 DEF g

\* The index knows the argument that was last declared under a name.
LEMMA LatestFound ==
  ASSUME args \in Seq(Strings), LeadsToLast(argsIdx, OfArgs), ToSet(args) \subseteq DOMAIN argsIdx, NEW n \in ToSet(args)
  PROVE  Find(argsIdx, n) = Latest(args, n) /\ Find(argsIdx, n) \in DOMAIN args
<1> DEFINE I == {i \in 1 .. Len(args) : args[i] = n}
           m == argsIdx[n]
<1>1. Len(args) \in Nat /\ DOMAIN args = 1 .. Len(args)
  BY LenProperties
<1>2. m \in DOMAIN args /\ args[m] = n /\ \A j \in DOMAIN args : args[j] = n => j <= m
  BY DEF LeadsToLast, OfArgs
<1>3. m \in I /\ \A y \in I : m >= y
  BY <1>1, <1>2
<1>4. I \subseteq Int
  BY <1>1
<1>5. Find(argsIdx, n) = m
  BY DEF Find
<1>6. Latest(args, n) = IF I # {} THEN Max(I) ELSE 0
  BY Zenon DEF Latest, SelectLastInSeq
<1> HIDE DEF I, m
<1>7. Max(I) = m
  <2> DEFINE x == Max(I)
  <2>1. x \in I /\ \A y \in I : x >= y
    <3>1. \E z \in I : \A y \in I : z >= y
      BY <1>3
    <3> QED BY <3>1, Zenon DEF Max
  <2> HIDE DEF x
  <2>2. x = m
    BY <1>3, <1>4, <2>1
  <2> QED BY <2>2 DEF x
<1> QED BY <1>2, <1>3, <1>5, <1>6, <1>7

LEMMA ArgNamesAre ==
  ASSUME TokInv
  PROVE  /\ ArgNames \in Seq(Strings) /\ (HasOptions(program.decls) \in BOOLEAN)
         /\ Len(ArgNames) <= Len(program.decls) /\ (HasOptions(program.decls) => Len(ArgNames) + 1 <= Len(program.decls))
         /\ \A d \in ToSet(program.decls) : d.param = "arg" => d.name \in ToSet(ArgNames)
         /\ NamesLegal => \A n \in ToSet(ArgNames) : "pos" \in Tok!Types(n)
<1> DEFINE D == ToSet(program.decls)
<1>1. program.decls \in Seq(D) /\ \A d \in D : IsDeclaration(d)
  BY ProgramsAssumption DEF TokInv, Typed
<1> HIDE DEF D, IsDeclaration
<1>2. /\ NamesIn(program.decls) \in Seq(Strings)
      /\ Len(NamesIn(program.decls)) <= Len(program.decls)
      /\ HasOptions(program.decls) => Len(NamesIn(program.decls)) + 1 <= Len(program.decls)
      /\ \A d \in ToSet(program.decls) : d.param = "arg" => d.name \in ToSet(NamesIn(program.decls))
  BY <1>1, NamesAre
<1>3. NamesLegal => \A n \in ToSet(ArgNames) : "pos" \in Tok!Types(n)
  BY DEF NamesLegal, ToSet
<1>4. HasOptions(program.decls) \in BOOLEAN
  BY DEF HasOptions
<1> QED BY <1>2, <1>3, <1>4 DEF ArgNames

\* What the automaton of the spec says that was made up.
LEMMA ParseMade ==
  ASSUME TokInv, BoundInv, DefaultInv, program.spec = <<>>, NamesLegal, at = "cutting", cut = "ok"
  PROVE  /\ Parsed.err = ""
         /\ Words(Parsed, MaxWord, Parsed.start) =
              {InOrder} \cup (IF options = <<>> THEN {} ELSE {<<AllOptions>> \o InOrder})
<1> DEFINE as == DOMAIN args
           os == GivenOptions
           ts == GivenSpec
           ns == ArgNames
           o  == HasOptions(program.decls)
           h  == GroupTokens(o)
           N  == Len(ns)
<1>1. /\ ns \in Seq(Strings) /\ o \in BOOLEAN /\ N <= Len(program.decls) /\ (o => N + 1 <= Len(program.decls))
      /\ \A n \in ToSet(ns) : "pos" \in Tok!Types(n)
  BY ArgNamesAre
<1>2. spec = TextOf(o, ns) /\ ToSet(args) = ToSet(ns) /\ (options # <<>> <=> o) /\ TokenTexts /\ ToSet(args) \subseteq DOMAIN argsIdx
  BY DEF DefaultInv, MadeInv, MadeFor, Kept
<1>3. tokens \in Seq(Tokens) /\ Tok!LooseCuts(spec) = {Tok!Lexemes(tokens)}
  BY DEF TokInv, Sound
<1>4. args \in Seq(Strings) /\ LeadsToLast(argsIdx, OfArgs)
  BY DEF BoundInv, IndexInv
<1>5. N \in Nat /\ DOMAIN ns = 1 .. N /\ h \in {0, 3} /\ (o <=> h = 3)
  BY <1>1, LenProperties DEF GroupTokens
<1>6. Inputs(os, ts)
  BY <1>3, GivenInputs
<1>7. Parsed = UParse(as, os, ts)
  BY DEF Parsed, GivenOptions, GivenSpec
<1> HIDE DEF Tokens, Tok!Types, o, ns
<1>8. /\ Len(tokens) = h + N
      /\ h = 3 => tokens[1].typ = "openSq" /\ tokens[2].typ = "options" /\ tokens[3].typ = "closeSq"
      /\ \A i \in 1 .. N : tokens[h + i].typ = "pos" /\ tokens[h + i].val = ns[i]
  <2>1. AreTokens(tokens, h, ns)
    BY <1>1, <1>2, <1>3, MadeTokens
  <2> HIDE DEF h
  <2> QED BY <2>1 DEF AreTokens
<1> HIDE DEF h, N
<1>9. /\ Len(ts) = h + N /\ ts \in Seq(ToSet(ts))
      /\ \A i \in 1 .. h + N : ts[i].typ = tokens[i].typ /\ ts[i].val = Found(tokens[i])
  <2>1. DOMAIN tokens = 1 .. h + N /\ h + N \in Nat
    BY <1>3, <1>5, <1>8, LenProperties
  <2>2. ts \in Seq(ToSet(ts))
    BY <1>6 DEF Inputs, IsSpec
  <2>3. DOMAIN ts = 1 .. h + N /\ \A i \in 1 .. h + N : ts[i].typ = tokens[i].typ /\ ts[i].val = Found(tokens[i])
    BY <2>1 DEF GivenSpec
  <2> HIDE DEF ts
  <2>4. Len(ts) = h + N
    BY <2>1, <2>2, <2>3, LenProperties
  <2> QED BY <2>2, <2>3, <2>4
<1> HIDE DEF ts, os, as
<1>10. ASSUME NEW i \in 1 .. N
       PROVE  ts[h + i].typ = "pos" /\ ts[h + i].val = Latest(args, ns[i]) /\ ts[h + i].val \in as
  <2>1. h + i \in 1 .. h + N
    BY <1>5
  <2>2. ts[h + i].typ = "pos" /\ ts[h + i].val = Find(argsIdx, ns[i])
    <3>1. tokens[h + i].typ = "pos" /\ tokens[h + i].val = ns[i]
      BY <1>8
    <3>2. Found(tokens[h + i]) = Find(argsIdx, ns[i])
      BY <3>1 DEF Found
    <3> QED BY <1>9, <2>1, <3>1, <3>2
  <2>3. ns[i] \in ToSet(args)
    BY <1>2, <1>5 DEF ToSet
  <2>4. Find(argsIdx, ns[i]) = Latest(args, ns[i]) /\ Find(argsIdx, ns[i]) \in DOMAIN args
    BY <1>2, <1>4, <2>3, LatestFound
  <2> QED BY <2>2, <2>4 DEF as
<1>11. ASSUME NEW i \in h + 1 .. Len(ts) PROVE ts[i].typ = "pos" /\ ts[i].val \in as
  <2>1. i - h \in 1 .. N /\ h + (i - h) = i
    BY <1>5, <1>9
  <2> QED BY <1>10, <2>1
<1>12. IsDefault(ts, h)
  <2>1. Len(ts) \in Nat /\ h <= Len(ts)
    BY <1>5, <1>9
  <2>2. h = 3 => ts[1].typ = "openSq" /\ ts[2].typ = "options" /\ ts[3].typ = "closeSq"
    <3> SUFFICES ASSUME h = 3 PROVE ts[1].typ = "openSq" /\ ts[2].typ = "options" /\ ts[3].typ = "closeSq"
      OBVIOUS
    <3>1. 1 \in 1 .. h + N /\ 2 \in 1 .. h + N /\ 3 \in 1 .. h + N
      BY <1>5
    <3> QED BY <1>5, <1>8, <1>9, <3>1
  <2> QED BY <1>5, <1>11, <2>1, <2>2 DEF IsDefault
<1>13. Valid(as, os, ts)
  BY <1>9, <1>11, <1>12, DefaultValid
<1>14. Parsed.err = ""
  BY <1>6, <1>7, <1>13, AcceptsTheGrammar
<1>15. MaxWord \in Nat \ {0} /\ (h = 0 => Len(ts) <= MaxWord) /\ (h = 3 => Len(ts) - 2 <= MaxWord)
  <2>1. MaxWord \in Nat \ {0} /\ Len(program.decls) <= MaxWord
    BY MaxWordAssumption DEF TokInv, Typed
  <2>2. Len(program.decls) \in Nat
    <3>1. program.decls \in Seq(ToSet(program.decls))
      BY ProgramsAssumption DEF TokInv, Typed
    <3> QED BY <3>1, LenProperties
  <2> DEFINE d == Len(program.decls)
             l == Len(ts)
  <2>3. d \in Nat /\ d <= MaxWord /\ MaxWord \in Nat \ {0} /\ l = h + N /\ N \in Nat /\ N <= d /\ (h = 3 => N + 1 <= d)
    BY <1>1, <1>5, <1>9, <2>1, <2>2 DEF N
  <2> HIDE DEF d, l
  <2>4. (h = 0 => l <= MaxWord) /\ (h = 3 => l - 2 <= MaxWord)
    BY <2>3
  <2> QED BY <2>1, <2>4 DEF l
<1> DEFINE P == ArgsFrom(ts, h + 1)
<1>16. Words(Parsed, MaxWord, Parsed.start) = {P} \cup (IF h = 0 THEN {} ELSE {<<OptsMatcher(os, 2)>> \o P})
  <2>1. Words(Parsed, MaxWord, Parsed.start) = Means(os, ts, MaxWord, "spec", 1, Len(ts) + 1)
    BY <1>6, <1>7, <1>13, <1>15, BuildsTheMeaning
  <2>2. Means(os, ts, MaxWord, "spec", 1, Len(ts) + 1) = {P} \cup (IF h = 0 THEN {} ELSE {<<OptsMatcher(os, 2)>> \o P})
    <3> HIDE DEF P
    <3>1. MaxWord \in Nat /\ h \in Nat
      BY <1>5, <1>15
    <3>2. SaysDefault(os, ts, h, MaxWord)
      BY <1>12, <1>15, <3>1, DefaultMeans
    <3> QED BY <3>2 DEF SaysDefault, P
  <2> QED BY <2>1, <2>2
<1>17. P = InOrder
  <2>1. h + 1 \in 1 .. Len(ts) + 1 /\ Len(ts) + 1 - (h + 1) = N /\ Len(ts) \in Nat
    BY <1>5, <1>9
  <2>2. /\ \E E : P \in Seq(E)
        /\ Len(P) = N /\ \A k \in 1 .. N : P[k] = ArgMatcher(ts[h + 1 - 1 + k].val)
    <3>1. AreMatched(ts, h + 1, P)
      BY <2>1, ArgsTyped
    <3> HIDE DEF P
    <3>2. Len(P) = Len(ts) + 1 - (h + 1) /\ (\E E : P \in Seq(E))
          /\ \A k \in 1 .. Len(ts) + 1 - (h + 1) : P[k] = ArgMatcher(ts[(h + 1) - 1 + k].val)
      BY <3>1 DEF AreMatched
    <3>3. \A k \in 1 .. N : (h + 1) - 1 + k = h + 1 - 1 + k
      BY <1>5
    <3> QED BY <2>1, <3>2, <3>3
  <2>3. PICK E : P \in Seq(E)
    BY <2>2
  <2>4. InOrder = [k \in 1 .. N |-> ArgMatcher(Latest(args, ns[k]))]
    BY <1>5 DEF InOrder, ns
  <2> HIDE DEF P
  <2>5. \A k \in 1 .. N : P[k] = ArgMatcher(Latest(args, ns[k]))
    <3> SUFFICES ASSUME NEW k \in 1 .. N PROVE P[k] = ArgMatcher(Latest(args, ns[k]))
      OBVIOUS
    <3>1. h + 1 - 1 + k = h + k
      BY <1>5
    <3> QED BY <1>10, <2>2, <3>1
  <2> DEFINE a(k) == ArgMatcher(Latest(args, ns[k]))
             E2   == E \cup {a(k) : k \in 1 .. N}
  <2>6. E \subseteq E2 /\ \A k \in 1 .. N : a(k) \in E2
    OBVIOUS
  <2> HIDE DEF E2
  <2>7. InOrder = [k \in 1 .. N |-> a(k)] /\ \A k \in 1 .. N : P[k] = a(k)
    BY <2>4, <2>5
  <2> HIDE DEF a
  <2>8. P \in Seq(E2) /\ InOrder \in Seq(E2) /\ Len(InOrder) = N /\ \A k \in 1 .. N : InOrder[k] = a(k)
    BY <1>5, <2>3, <2>6, <2>7
  <2> QED BY <2>2, <2>7, <2>8, SeqEqual
<1>18. OptsMatcher(os, 2) = AllOptions
  BY DEF AllOptions, os, GivenOptions
<1>19. h = 0 <=> options = <<>>
  BY <1>2, <1>5
<1> HIDE DEF P
<1> QED BY <1>14, <1>16, <1>17, <1>18, <1>19

(***************************************************************************)
(* The invariant of a command that has no spec, step by step.              *)
(***************************************************************************)
LEMMA MembersAppend ==
  ASSUME NEW E, NEW ss \in Seq(E), NEW x \in E
  PROVE  ToSet(Append(ss, x)) = ToSet(ss) \cup {x}
<1>1. /\ Len(ss) \in Nat /\ DOMAIN ss = 1 .. Len(ss) /\ DOMAIN Append(ss, x) = 1 .. Len(ss) + 1
      /\ Append(ss, x)[Len(ss) + 1] = x /\ \A i \in 1 .. Len(ss) : Append(ss, x)[i] = ss[i]
  BY AppendProperties, LenProperties
<1>2. ToSet(Append(ss, x)) \subseteq ToSet(ss) \cup {x}
  <2> SUFFICES ASSUME NEW i \in 1 .. Len(ss) + 1 PROVE Append(ss, x)[i] \in ToSet(ss) \cup {x}
    BY <1>1 DEF ToSet
  <2>1. CASE i = Len(ss) + 1
    BY <1>1, <2>1
  <2>2. CASE i # Len(ss) + 1
    <3>1. i \in 1 .. Len(ss)
      BY <1>1, <2>2
    <3> QED BY <1>1, <3>1 DEF ToSet
  <2> QED BY <2>1, <2>2
<1>3. ToSet(ss) \subseteq ToSet(Append(ss, x))
  <2> SUFFICES ASSUME NEW i \in 1 .. Len(ss) PROVE ss[i] \in ToSet(Append(ss, x))
    BY <1>1 DEF ToSet
  <2>1. i \in 1 .. Len(ss) + 1 /\ Append(ss, x)[i] = ss[i]
    BY <1>1
  <2> QED BY <1>1, <2>1 DEF ToSet
<1>4. x \in ToSet(Append(ss, x))
  <2>1. Len(ss) + 1 \in 1 .. Len(ss) + 1
    BY <1>1
  <2> QED BY <1>1, <2>1 DEF ToSet
<1> QED BY <1>2, <1>3, <1>4

LEMMA MadeUpIs ==
  MadeUp = TextOf(options # <<>>, args)
BY DEF MadeUp, TextOf, GroupText, Spaced

\* What is declared.
LEMMA DeclaredIs ==
  ASSUME TokInv
  PROVE  program.decls \in Seq(ToSet(program.decls)) /\ \A d \in ToSet(program.decls) : IsDeclaration(d)
BY ProgramsAssumption DEF TokInv, Typed

\* Nothing is declared.
LEMMA NothingNamed ==
  ASSUME NEW D, \A d \in D : IsDeclaration(d)
  PROVE  NamesIn(<<>>) = <<>> /\ ~HasOptions(<<>>)
<1> HIDE DEF IsDeclaration
<1>1. <<>> \in Seq(D) /\ DOMAIN <<>> = {} /\ Len(<<>>) = 0
  OBVIOUS
<1>2. ~HasOptions(<<>>)
  BY <1>1 DEF HasOptions
<1>3. NamesIn(<<>>) \in Seq(Strings) /\ Len(NamesIn(<<>>)) <= Len(<<>>)
  BY <1>1, NamesAre
<1>4. Len(NamesIn(<<>>)) = 0
  <2>1. Len(NamesIn(<<>>)) \in Nat
    BY <1>3, LenProperties
  <2> QED BY <1>1, <1>3, <2>1
<1> HIDE DEF Strings
<1> QED BY <1>2, <1>3, <1>4, EmptySeq

\* All is declared.
LEMMA FreshLast ==
  ASSUME TokInv, Fresh, left = <<>>
  PROVE  args = ArgNames /\ (options # <<>> <=> HasOptions(program.decls)) /\ Kept
<1>1. PICK done \in Seq(ToSet(program.decls)) :
        program.decls = done \o left /\ args = NamesIn(done) /\ (options # <<>> <=> HasOptions(done))
  BY DEF Fresh
<1>2. done \o <<>> = done
  OBVIOUS
<1> QED BY <1>1, <1>2 DEF ArgNames, Kept

\* One declaration.
LEMMA OneDeclared ==
  ASSUME TokInv, BoundInv, Declare
  PROVE  /\ left # <<>> /\ left' = Tail(left) /\ UNCHANGED <<program, at, runs, spec, fsm, tokens>>
         /\ Head(left) \in ToSet(program.decls) /\ left \in Seq(ToSet(program.decls))
         /\ \/ Head(left).param = "opt" /\ options' # <<>> /\ UNCHANGED <<args, argsIdx>>
            \/ /\ Head(left).param = "arg" /\ UNCHANGED options /\ Head(left).name \in Strings
               /\ args' = Append(args, Head(left).name) /\ ToSet(args') = ToSet(args) \cup {Head(left).name}
               /\ DOMAIN argsIdx' = DOMAIN argsIdx \cup {Head(left).name}
<1> DEFINE d == Head(left)
<1>1. left # <<>> /\ left' = Tail(left) /\ UNCHANGED <<program, at, runs, spec, fsm, tokens>>
      /\ ((d.param = "opt" /\ MkOpt(d)) \/ (d.param = "arg" /\ MkArg(d)))
  BY DEF Declare, cutting
<1>2. left \in Seq(ToSet(program.decls)) /\ d \in ToSet(program.decls)
  BY <1>1, HeadTailProperties DEF TokInv, Typed
<1>3. IsDeclaration(d)
  BY <1>2, DeclaredIs
<1> HIDE DEF d
<1>4. CASE d.param = "opt" /\ MkOpt(d)
  <2>1. options' = Append(options, MkOptStrs(d.names)) /\ UNCHANGED <<args, argsIdx>>
    BY <1>4 DEF MkOpt
  <2>2. MkOptStrs(d.names) \in Seq(Strings)
    <3>1. d.names \in Seq(Strings)
      BY <1>3, <1>4 DEF IsDeclaration
    <3> HIDE DEF Strings
    <3> QED BY <3>1, NamesTyped
  <2>3. options \in Seq(Seq(Strings))
    BY DEF BoundInv, IndexInv
  <2>4. options' # <<>>
    <3> HIDE DEF Strings
    <3>1. Len(options') = Len(options) + 1 /\ Len(options) \in Nat
      BY <2>1, <2>2, <2>3, AppendProperties, LenProperties
    <3>2. Len(options') # 0
      BY <3>1
    <3> QED BY <3>2
  <2> QED BY <1>1, <1>2, <1>4, <2>1, <2>4 DEF d
<1>5. CASE d.param = "arg" /\ MkArg(d)
  <2>1. args' = Append(args, d.name) /\ argsIdx' = Put(argsIdx, {d.name}, Len(args) + 1) /\ UNCHANGED options
    BY <1>5 DEF MkArg
  <2>2. d.name \in Strings /\ args \in Seq(Strings)
    BY <1>3, <1>5 DEF IsDeclaration, BoundInv, IndexInv
  <2>3. ToSet(args') = ToSet(args) \cup {d.name}
    <3> HIDE DEF Strings
    <3> QED BY <2>1, <2>2, MembersAppend
  <2>4. DOMAIN argsIdx' = DOMAIN argsIdx \cup {d.name}
    BY <2>1 DEF Put
  <2> QED BY <1>1, <1>2, <1>5, <2>1, <2>2, <2>3, <2>4 DEF d
<1> QED BY <1>1, <1>4, <1>5

LEMMA FreshNext ==
  ASSUME TokInv, BoundInv, Fresh, Declare
  PROVE  Fresh'
<1> DEFINE D == ToSet(program.decls)
           d == Head(left)
<1>1. program.decls \in Seq(D) /\ \A e \in D : IsDeclaration(e)
  BY DeclaredIs
<1>2. /\ left # <<>> /\ left' = Tail(left) /\ program' = program /\ d \in D /\ left \in Seq(D)
      /\ \/ d.param = "opt" /\ options' # <<>> /\ UNCHANGED args
         \/ d.param = "arg" /\ UNCHANGED options /\ args' = Append(args, d.name)
  BY OneDeclared
<1>3. PICK done \in Seq(D) : program.decls = done \o left /\ args = NamesIn(done) /\ (options # <<>> <=> HasOptions(done))
  BY DEF Fresh
<1> HIDE DEF IsDeclaration, D, d
<1>4. Append(done, d) \in Seq(D) /\ program.decls = Append(done, d) \o Tail(left)
  <2>1. Tail(left) \in Seq(D) /\ left = <<d>> \o Tail(left)
    BY <1>2, HeadTailProperties DEF d
  <2>2. Append(done, d) = done \o <<d>> /\ Append(done, d) \in Seq(D) /\ <<d>> \in Seq(D)
    BY <1>2, <1>3
  <2>3. (done \o <<d>>) \o Tail(left) = done \o (<<d>> \o Tail(left))
    BY <1>3, <2>1, <2>2, Rebracketed
  <2> QED BY <1>3, <2>1, <2>2, <2>3
<1>5. /\ NamesIn(Append(done, d)) = IF d.param = "arg" THEN Append(NamesIn(done), d.name) ELSE NamesIn(done)
      /\ HasOptions(Append(done, d)) <=> HasOptions(done) \/ d.param = "opt"
  BY <1>1, <1>2, <1>3, NamesOfMore
<1>6. args' = NamesIn(Append(done, d)) /\ (options' # <<>> <=> HasOptions(Append(done, d)))
  BY <1>2, <1>3, <1>5
<1> QED BY <1>2, <1>4, <1>6 DEF Fresh, D

LEMMA KeptNext ==
  ASSUME TokInv, BoundInv, Kept, Declare
  PROVE  Kept'
<1> DEFINE d == Head(left)
<1>1. /\ program' = program /\ d \in ToSet(program.decls)
      /\ \/ d.param = "opt" /\ options' # <<>> /\ UNCHANGED args
         \/ d.param = "arg" /\ UNCHANGED options /\ ToSet(args') = ToSet(args) \cup {d.name}
  BY OneDeclared
<1>2. d.param = "arg" => d.name \in ToSet(ArgNames)
  BY <1>1, ArgNamesAre
<1>3. d.param = "opt" => HasOptions(program.decls)
  <2> HIDE DEF d
  <2> QED BY <1>1 DEF HasOptions, ToSet
<1>4. ToSet(args) = ToSet(ArgNames) /\ (options # <<>> <=> HasOptions(program.decls))
  BY DEF Kept
<1>5. ArgNames' = ArgNames
  BY <1>1 DEF ArgNames
<1> HIDE DEF d, ArgNames
<1>6. ToSet(args') = ToSet(ArgNames) /\ (options' # <<>> <=> HasOptions(program.decls))
  BY <1>1, <1>2, <1>3, <1>4
<1> QED BY <1>1, <1>5, <1>6 DEF Kept

\* The tokenizer leaves the spec alone.
LEMMA SpecStays ==
  ASSUME Tok!Next
  PROVE  spec' = spec
<1> USE DEF Tok!Take, Tok!Skip, Tok!Stop
<1>1. Tok!Blank \/ Tok!Bracket \/ Tok!Dots \/ Tok!LoneDash \/ Tok!Unexpected \/ Tok!Return => spec' = spec
  BY DEF Tok!Blank, Tok!Bracket, Tok!Dots, Tok!LoneDash, Tok!Unexpected, Tok!Return
<1>2. Tok!ShortOpts \/ Tok!LongOpt \/ Tok!OptValue \/ Tok!Name => spec' = spec
  BY Zenon DEF Tok!ShortOpts, Tok!LongOpt, Tok!OptValue, Tok!Name
<1> QED BY <1>1, <1>2 DEF Tok!Next

LEMMA InitMade ==
  ASSUME Init
  PROVE  DefaultInv
<1>1. /\ program \in Programs /\ spec = program.spec /\ args = <<>> /\ options = <<>> /\ runs = 0 /\ tokens = <<>>
      /\ at = (IF program.sub THEN "between" ELSE "app") /\ left = (IF program.sub THEN <<>> ELSE program.decls)
  BY DEF Init
<1>2. TokInv
  BY InitSound
<1>3. TokenTexts
  BY <1>1 DEF TokenTexts
<1>4. Stages
  BY <1>1 DEF Stages
<1>5. ToSet(args) \subseteq DOMAIN argsIdx
  BY <1>1 DEF ToSet
<1>6. MadeInv \/ program.spec # <<>>
  <2>1. CASE program.sub
    BY <1>1, <2>1 DEF MadeInv
  <2>2. CASE ~program.sub
    <3>1. Fresh
      <4> DEFINE D == ToSet(program.decls)
      <4>1. program.decls \in Seq(D) /\ \A d \in D : IsDeclaration(d)
        BY <1>2, DeclaredIs
      <4> HIDE DEF D, IsDeclaration
      <4>2. <<>> \in Seq(D) /\ program.decls = <<>> \o program.decls
        BY <4>1
      <4>3. NamesIn(<<>>) = <<>> /\ ~HasOptions(<<>>)
        BY <4>1, NothingNamed
      <4> QED BY <1>1, <2>2, <4>2, <4>3 DEF Fresh, D
    <3> QED BY <1>1, <2>2, <3>1 DEF MadeInv
  <2> QED BY <2>1, <2>2
<1>7. DefaultSpecMeans
  BY <1>1 DEF DefaultSpecMeans, Ready
<1> QED BY <1>3, <1>4, <1>5, <1>6, <1>7 DEF DefaultInv

\* What the invariant says of a command without a spec, step by step.
LEMMA DeclareMade ==
  ASSUME TokInv, BoundInv, DefaultInv, Declare
  PROVE  DefaultInv'
<1>1. /\ UNCHANGED <<program, at, runs, spec, fsm, tokens>>
      /\ left # <<>> /\ at \in {"app", "init"}
      /\ \/ UNCHANGED <<args, argsIdx>>
         \/ \E n : ToSet(args') = ToSet(args) \cup {n} /\ DOMAIN argsIdx' = DOMAIN argsIdx \cup {n}
  <2>1. at \in {"app", "init"}
    BY DEF Declare
  <2> QED BY <2>1, OneDeclared
<1>2. TokenTexts'
  BY <1>1 DEF DefaultInv, TokenTexts
<1>3. Stages'
  BY <1>1 DEF DefaultInv, Stages
<1>4. ToSet(args') \subseteq DOMAIN argsIdx'
  BY <1>1 DEF DefaultInv
<1>5. ASSUME program.spec = <<>> PROVE MadeInv'
  <2>1. (spec = <<>> /\ Fresh) \/ (spec = MadeFor /\ Kept)
    BY <1>1, <1>5 DEF DefaultInv, MadeInv
  <2>2. MadeFor' = MadeFor
    BY <1>1 DEF MadeFor, ArgNames
  <2>3. (spec' = <<>> /\ Fresh') \/ (spec' = MadeFor' /\ Kept')
    BY <1>1, <2>1, <2>2, FreshNext, KeptNext
  <2> QED BY <1>1, <2>3 DEF MadeInv
<1>6. DefaultSpecMeans'
  BY <1>1 DEF DefaultSpecMeans, Ready
<1> QED BY <1>1, <1>2, <1>3, <1>4, <1>5, <1>6 DEF DefaultInv

LEMMA RunMade ==
  ASSUME TokInv, BoundInv, DefaultInv, Run
  PROVE  DefaultInv'
<1>1. /\ UNCHANGED <<program, args, argsIdx, options, spec, fsm, tokens>>
      /\ left = <<>> /\ at \in {"app", "between"} /\ at' = "init" /\ runs' = runs + 1
      /\ left' = IF program.sub THEN program.decls ELSE <<>>
  BY DEF Run, cutting
<1>2. TokenTexts'
  BY <1>1 DEF DefaultInv, TokenTexts
<1>3. Stages'
  <2>1. runs \in Nat
    BY DEF DefaultInv, Stages
  <2>2. runs' \in Nat /\ runs' > 0
    BY <1>1, <2>1
  <2> QED BY <1>1, <2>2 DEF Stages
<1>4. ToSet(args') \subseteq DOMAIN argsIdx'
  BY <1>1 DEF DefaultInv
<1>5. ASSUME program.spec = <<>> PROVE MadeInv'
  <2>0. MadeInv /\ Stages
    BY <1>5 DEF DefaultInv
  <2>1. MadeFor' = MadeFor /\ (Kept <=> Kept')
    BY <1>1 DEF MadeFor, Kept, ArgNames
  <2>2. (spec' = <<>> /\ Fresh') \/ (spec' = MadeFor' /\ Kept')
    <3>1. CASE at = "between" /\ runs > 0
      <4>1. spec = MadeFor /\ Kept
        BY <2>0, <3>1 DEF MadeInv
      <4> QED BY <1>1, <2>1, <4>1
    <3>2. CASE at = "between" /\ runs = 0
      <4>1. spec = <<>> /\ args = <<>> /\ options = <<>> /\ program.sub
        BY <2>0, <3>2 DEF MadeInv
      <4> DEFINE D == ToSet(program.decls)
      <4>2. program.decls \in Seq(D) /\ \A d \in D : IsDeclaration(d)
        BY DeclaredIs
      <4> HIDE DEF D, IsDeclaration
      <4>3. <<>> \in Seq(D) /\ program.decls = <<>> \o program.decls
        BY <4>2
      <4>4. NamesIn(<<>>) = <<>> /\ ~HasOptions(<<>>)
        BY <4>2, NothingNamed
      <4> QED BY <1>1, <4>1, <4>3, <4>4 DEF Fresh, D
    <3>3. CASE at = "app"
      <4>1. (spec = <<>> /\ Fresh) \/ (spec = MadeFor /\ Kept)
        BY <2>0, <3>3 DEF MadeInv
      <4>2. ~program.sub
        BY <2>0, <3>3 DEF Stages
      <4>3. left' = left
        BY <1>1, <4>2
      <4> QED BY <1>1, <2>1, <4>1, <4>3 DEF Fresh
    <3>4. runs = 0 \/ runs > 0
      BY <2>0 DEF Stages
    <3> QED BY <1>1, <3>1, <3>2, <3>3, <3>4
  <2> QED BY <1>1, <2>2 DEF MadeInv
<1>6. DefaultSpecMeans'
  BY <1>1 DEF DefaultSpecMeans, Ready
<1> QED BY <1>1, <1>2, <1>3, <1>4, <1>5, <1>6 DEF DefaultInv

LEMMA MakeUpMade ==
  ASSUME TokInv, BoundInv, DefaultInv, MakeUp
  PROVE  DefaultInv'
<1>1. /\ UNCHANGED <<program, runs, left, args, argsIdx, options, fsm>> /\ tokens' = <<>>
      /\ left = <<>> /\ at = "init" /\ at' = "cutting"
      /\ spec' = IF spec = <<>> THEN MadeUp ELSE spec
  BY DEF MakeUp, declared, Tok!Start
<1>2. TokenTexts'
  BY <1>1 DEF TokenTexts
<1>3. Stages'
  BY <1>1 DEF DefaultInv, Stages
<1>4. ToSet(args') \subseteq DOMAIN argsIdx'
  BY <1>1 DEF DefaultInv
<1>5. ASSUME program.spec = <<>> PROVE MadeInv'
  <2>1. (spec = <<>> /\ Fresh) \/ (spec = MadeFor /\ Kept)
    BY <1>1, <1>5 DEF DefaultInv, MadeInv
  <2>2. MadeFor' = MadeFor /\ (Kept <=> Kept')
    BY <1>1 DEF MadeFor, Kept, ArgNames
  <2>3. spec' = MadeFor /\ Kept
    <3>1. CASE spec = <<>> /\ Fresh
      <4>1. args = ArgNames /\ (options # <<>> <=> HasOptions(program.decls)) /\ Kept
        BY <1>1, <3>1, FreshLast
      <4>2. (options # <<>>) = HasOptions(program.decls)
        BY <4>1 DEF HasOptions
      <4> QED BY <1>1, <3>1, <4>1, <4>2, MadeUpIs DEF MadeFor
    <3>2. CASE spec # <<>> /\ spec = MadeFor /\ Kept
      BY <1>1, <3>2
    <3>3. CASE spec = <<>> /\ spec = MadeFor /\ Kept
      <4>1. ArgNames \in Seq(Strings) /\ HasOptions(program.decls) \in BOOLEAN
        BY ArgNamesAre
      <4>2. ~HasOptions(program.decls) /\ ArgNames = <<>>
        BY <3>3, <4>1, TextEmpty DEF MadeFor
      <4>3. ToSet(args) = {} /\ ~(options # <<>>)
        BY <3>3, <4>2 DEF Kept, ToSet
      <4>4. args = <<>>
        <5>1. args \in Seq(Strings) /\ Len(args) \in Nat /\ DOMAIN args = 1 .. Len(args)
          BY LenProperties DEF BoundInv, IndexInv
        <5>2. Len(args) = 0
          <6> SUFFICES ASSUME Len(args) # 0 PROVE FALSE
            OBVIOUS
          <6>1. 1 \in DOMAIN args
            BY <5>1
          <6>2. args[1] \in ToSet(args)
            BY <6>1 DEF ToSet
          <6> QED BY <4>3, <6>2
        <5> HIDE DEF Strings
        <5> QED BY <5>1, <5>2, EmptySeq
      <4>5. (options # <<>>) = HasOptions(program.decls)
        BY <4>2, <4>3 DEF HasOptions
      <4> QED BY <1>1, <3>3, <4>2, <4>4, <4>5, MadeUpIs DEF MadeFor
    <3> QED BY <2>1, <3>1, <3>2, <3>3
  <2> QED BY <1>1, <2>2, <2>3 DEF MadeInv
<1>6. DefaultSpecMeans'
  BY <1>1 DEF DefaultSpecMeans, Ready
<1> QED BY <1>1, <1>2, <1>3, <1>4, <1>5, <1>6 DEF DefaultInv

LEMMA TokenizeMade ==
  ASSUME TokInv, BoundInv, DefaultInv, Tokenize
  PROVE  DefaultInv'
<1>1. at = "cutting" /\ Tok!Next /\ UNCHANGED <<program, at, runs, left, args, argsIdx, options, fsm>>
  BY DEF Tokenize, declared
<1>2. cut = "cutting"
  BY <1>1 DEF Tok!Next, Tok!Blank, Tok!Bracket, Tok!Dots, Tok!ShortOpts, Tok!LongOpt, Tok!LoneDash, Tok!OptValue,
              Tok!Name, Tok!Unexpected, Tok!Return, Tok!At
<1>3. Scanning
  BY <1>2 DEF TokInv, Typed, Sound, Scanning
<1>4. spec' = spec
  BY <1>1, SpecStays
<1>5. TokenTexts'
  BY <1>1, <1>3, TextsNext DEF DefaultInv
<1>6. Stages'
  BY <1>1 DEF DefaultInv, Stages
<1>7. ToSet(args') \subseteq DOMAIN argsIdx'
  BY <1>1 DEF DefaultInv
<1>8. ASSUME program.spec = <<>> PROVE MadeInv'
  <2>1. spec = MadeFor /\ Kept
    BY <1>1, <1>8 DEF DefaultInv, MadeInv
  <2>2. MadeFor' = MadeFor /\ (Kept <=> Kept')
    BY <1>1 DEF MadeFor, Kept, ArgNames
  <2> QED BY <1>1, <1>4, <2>1, <2>2 DEF MadeInv
<1>9. DefaultSpecMeans'
  BY <1>1 DEF DefaultSpecMeans, Ready
<1> QED BY <1>1, <1>5, <1>6, <1>7, <1>8, <1>9 DEF DefaultInv

LEMMA ParseStepMade ==
  ASSUME TokInv, BoundInv, DefaultInv, Parse
  PROVE  DefaultInv'
<1>1. /\ at = "cutting" /\ cut = "ok" /\ UNCHANGED <<program, runs, left, args, argsIdx, options, spec, tokens>>
      /\ \/ Parsed.err # "" /\ at' = "failed"
         \/ Parsed.err = "" /\ at' = "between" /\ fsm' = Parsed
  BY DEF Parse, declared, cutting
<1>2. TokenTexts'
  BY <1>1 DEF DefaultInv, TokenTexts
<1>3. Stages /\ runs > 0 /\ left = <<>>
  BY <1>1 DEF DefaultInv, Stages
<1>4. Stages'
  <2>1. at' \in {"failed", "between"} /\ runs' = runs /\ left' = left /\ program' = program
    BY <1>1
  <2>2. runs \in Nat /\ runs > 0 /\ left = <<>>
    BY <1>3 DEF Stages
  <2> QED BY <2>1, <2>2 DEF Stages
<1>5. ToSet(args') \subseteq DOMAIN argsIdx'
  BY <1>1 DEF DefaultInv
<1>6. ASSUME program.spec = <<>> PROVE MadeInv'
  <2>1. spec = MadeFor /\ Kept
    BY <1>1, <1>6 DEF DefaultInv, MadeInv
  <2>2. MadeFor' = MadeFor /\ (Kept <=> Kept')
    BY <1>1 DEF MadeFor, Kept, ArgNames
  <2>3. at' \in {"failed", "between"} /\ spec' = spec
    BY <1>1
  <2>4. runs' # 0
    <3>1. runs' = runs
      BY <1>1
    <3>2. runs \in Nat /\ runs > 0
      BY <1>3 DEF Stages
    <3> QED BY <3>1, <3>2
  <2> QED BY <2>1, <2>2, <2>3, <2>4 DEF MadeInv
<1>7. DefaultSpecMeans'
  <2> SUFFICES ASSUME program.spec = <<>>, NamesLegal'
               PROVE  /\ at' # "failed"
                      /\ Ready' => Words(fsm', MaxWord, fsm'.start) =
                           {InOrder'} \cup (IF options' = <<>> THEN {} ELSE {<<AllOptions'>> \o InOrder'})
    BY <1>1 DEF DefaultSpecMeans
  <2>1. NamesLegal
    BY <1>1 DEF NamesLegal, ArgNames
  <2>2. InOrder' = InOrder /\ AllOptions' = AllOptions
    BY <1>1 DEF InOrder, AllOptions, ArgNames
  <2>3. /\ Parsed.err = ""
        /\ Words(Parsed, MaxWord, Parsed.start) =
             {InOrder} \cup (IF options = <<>> THEN {} ELSE {<<AllOptions>> \o InOrder})
    BY <1>1, <2>1, ParseMade
  <2> HIDE DEF Parsed, InOrder, AllOptions
  <2> QED BY <1>1, <2>2, <2>3
<1> QED BY <1>1, <1>2, <1>4, <1>5, <1>6, <1>7 DEF DefaultInv

LEMMA RefuseMade ==
  ASSUME TokInv, BoundInv, DefaultInv, Refuse
  PROVE  DefaultInv'
<1>1. /\ at = "cutting" /\ cut = "error" /\ at' = "failed"
      /\ UNCHANGED <<program, runs, left, args, argsIdx, options, spec, fsm, tokens>>
  BY DEF Refuse, declared, cutting
<1>2. TokenTexts'
  BY <1>1 DEF DefaultInv, TokenTexts
<1>3. Stages'
  BY <1>1 DEF DefaultInv, Stages
<1>4. ToSet(args') \subseteq DOMAIN argsIdx'
  BY <1>1 DEF DefaultInv
<1>5. program.spec = <<>> => spec = MadeFor /\ Kept
  BY <1>1 DEF DefaultInv, MadeInv
<1>6. MadeFor' = MadeFor /\ (Kept <=> Kept')
  BY <1>1 DEF MadeFor, Kept, ArgNames
<1>7. program.spec = <<>> => MadeInv'
  BY <1>1, <1>5, <1>6 DEF MadeInv
<1>8. ~(program.spec = <<>> /\ NamesLegal)
  <2> SUFFICES ASSUME program.spec = <<>>, NamesLegal PROVE FALSE
    OBVIOUS
  <2>1. /\ ArgNames \in Seq(Strings) /\ HasOptions(program.decls) \in BOOLEAN
        /\ \A n \in ToSet(ArgNames) : "pos" \in Tok!Types(n)
    BY ArgNamesAre
  <2> HIDE DEF Tok!Types, ArgNames, Lexemes
  <2>2. \E ls : Tok!LooseCuts(TextOf(HasOptions(program.decls), ArgNames)) = {ls}
    <3>1. PICK ls : MadeOf(TextOf(HasOptions(program.decls), ArgNames), GroupTokens(HasOptions(program.decls)), ArgNames, ls)
      BY <2>1, TextCut
    <3> QED BY <3>1 DEF MadeOf
  <2>3. BadAt(spec, pos) /\ spec \in Strings /\ pos \in Nat
    BY <1>1 DEF TokInv, Typed, Sound, BadAt
  <2>4. ~Tok!Stricter(spec, pos)
    <3>1. \A k \in 1 .. Len(spec) : spec[k] # "-"
      BY <1>5, <2>1, NoDashes DEF MadeFor
    <3> QED BY <2>3, <3>1, StrictAtDash
  <2>5. Tok!LooseCuts(spec) = {}
    BY <2>3, <2>4 DEF BadAt
  <2> QED BY <1>5, <2>2, <2>5 DEF MadeFor
<1>9. DefaultSpecMeans'
  BY <1>1, <1>8 DEF DefaultSpecMeans, NamesLegal, ArgNames
<1> QED BY <1>1, <1>2, <1>3, <1>4, <1>7, <1>9 DEF DefaultInv

LEMMA NextMade ==
  ASSUME TokInv, BoundInv, DefaultInv, [Next]_vars
  PROVE  DefaultInv'
<1>1. CASE Terminated \/ UNCHANGED vars
  <2>1. UNCHANGED <<program, at, runs, left, args, argsIdx, options, spec, fsm, tokens>>
    BY <1>1 DEF Terminated, vars, declared, cutting
  <2>2. (TokenTexts <=> TokenTexts') /\ (Stages <=> Stages')
    BY <2>1 DEF TokenTexts, Stages
  <2>3. (Fresh <=> Fresh') /\ (Kept <=> Kept') /\ MadeFor' = MadeFor
    BY <2>1 DEF Fresh, Kept, MadeFor, ArgNames
  <2>4. MadeInv <=> MadeInv'
    BY <2>1, <2>3 DEF MadeInv
  <2>5. DefaultSpecMeans <=> DefaultSpecMeans'
    BY <2>1 DEF DefaultSpecMeans, NamesLegal, ArgNames, Ready, InOrder, AllOptions
  <2> QED BY <2>1, <2>2, <2>4, <2>5 DEF DefaultInv
<1> QED BY <1>1, DeclareMade, RunMade, MakeUpMade, TokenizeMade, ParseStepMade, RefuseMade DEF Next, Step

\* A command that has no spec takes its options and then its arguments, in every
\* Run: the spec that is made up is never refused, and its automaton says just that,
\* with the variable last declared under each name (doInit).
THEOREM DefaultMeant == Spec => []DefaultSpecMeans
<1>1. Init => TokInv /\ BoundInv /\ DefaultInv
  BY InitSound, IndexInit, InitMade
<1>2. TokInv /\ BoundInv /\ DefaultInv /\ [Next]_vars => TokInv' /\ BoundInv' /\ DefaultInv'
  BY NextSound, NextBinds, NextMade
<1>3. DefaultInv => DefaultSpecMeans
  BY DEF DefaultInv
<1> QED BY <1>1, <1>2, <1>3, PTL DEF Spec
=============================================================================
