---------------------------- MODULE MCSpecParser ----------------------------
(***************************************************************************)
(* Every spec of at most MaxTokens tokens over a small alphabet.           *)
(***************************************************************************)
EXTENDS Writing

T(typ, val) == [typ |-> typ, val |-> val]

MCArgs    == {"A"}
MCOptions == <<"a", "b">>

\* Every token type but longOpt, which is parsed like shortOpt, and a name that is not declared.
AllTokens ==
  { T("pos", "A"), T("pos", "U"), T("options", "OPTIONS"), T("shortOpt", "a"),
    T("optSeq", <<"a", "b">>), T("optSeq", <<"a", "u">>), T("optValue", "=<v>"),
    T("openPar", "("), T("closePar", ")"), T("openSq", "["), T("closeSq", "]"),
    T("choice", "|"), T("rep", "..."), T("dblDash", "--") }
=============================================================================
