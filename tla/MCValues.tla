------------------------------ MODULE MCValues ------------------------------
(***************************************************************************)
(* Values for a flag f, a slice of numbers n, a number A and a slice of    *)
(* strings B.  One text of each sort: numbers, among them the first and    *)
(* the last that fit and the first that does not, a number between spaces, *)
(* a word that is no number.                                               *)
(***************************************************************************)
EXTENDS Values

MCKind    == ("f" :> "bool") @@ ("n" :> "ints") @@ ("A" :> "int") @@ ("B" :> "strings")
MCDefault == ("f" :> <<"false">>) @@ ("n" :> <<7>>) @@ ("A" :> <<0>>) @@ ("B" :> <<"d">>)

MCTexts == {"0", "1", "02", "7", "-8", "8", " 1 ", "x"}

\* Four bits stand for 64.
MCLimit == 2 ^ 3

Numbers == ("1" :> 1) @@ ("02" :> 2) @@ ("7" :> 7) @@ ("-8" :> -8) @@ ("8" :> 8)
MCConverts ==
  ("bool" :> (("1" :> "true") @@ ("0" :> "false")))
  @@ ("int" :> Numbers) @@ ("ints" :> Numbers)
  @@ ("strings" :> [t \in {"1", "02", " 1 ", "x"} |-> t])
MCTrimmed == [t \in {"0", "1", "02", "7", "8", "-8", "x"} |-> t] @@ (" 1 " :> "1")

\* The functions that give each key one of the things allowed for it.
Assignments(allowed) == {g \in [DOMAIN allowed -> UNION Range(allowed)] : \A k \in DOMAIN allowed : g[k] \in allowed[k]}

Two(S) == {<<>>} \cup {<<x>> : x \in S} \cup {<<x, y>> : x \in S, y \in S}

MCEnvironments ==
  Assignments( ("f" :> {<<>>, <<<<"1">>>>, <<<<"x">>, <<"1">>>>})
        @@ ("n" :> Two({<<>>, <<"-8", " 1 ">>, <<"1", "8">>}))
        @@ ("A" :> {<<>>, <<<<>>, <<"02">>>>, <<<<"8">>>>})
        @@ ("B" :> {<<>>, <<<<" 1 ">>>>}) )

Absent == <<"absent">>
Given1(c) == [k \in {j \in DOMAIN c : c[j] # Absent} |-> c[k]]

MCContexts ==
  {Given1(c) : c \in Assignments( ("f" :> {Absent, <<"1">>, <<"1", "0">>, <<"1", "x">>})
                           @@ ("n" :> {Absent, <<"7", "02">>, <<"1", " 1 ">>})
                           @@ ("A" :> {Absent, <<"-8">>, <<"8">>})
                           @@ ("B" :> {Absent, <<"x", "1">>}) )}

\* Later lines: one that gives nothing, one that does not convert, one that does.
MCLater ==
  {Given1(c) : c \in Assignments( ("f" :> {Absent}) @@ ("n" :> {Absent, <<"1">>, <<"02", "x">>})
                           @@ ("A" :> {Absent, <<"02">>}) @@ ("B" :> {Absent}) )}
=============================================================================
