------------------------------- MODULE MCDoInit -------------------------------
(***************************************************************************)
(* doInit for a command with many specs and a few declarations, and for    *)
(* commands without a spec and many declarations, in two Runs.  A and B    *)
(* are upper case, a is lower case, the keyword OPTIONS is cut down to BA. *)
(***************************************************************************)
EXTENDS DoInit

CONSTANTS MaxSpec, MaxDecls

MCTab  == "tab"
MCWord == <<"B", "A">>

\* Every class of characters, and one that no spec may have.
MCCharacters ==
  {"A", "B", "a", "1", "_", Space, MCTab, "[", "]", "(", ")", "|", ".", "-", "=", "<", ">", "%"}

\* Those of options and their values, and one of each other sort, for longer specs.
OfOptions1 == {"a", Space, "-", "=", "<", ">"}
OfEach     == {"A", "a", "1", Space, "-", ".", "=", "["}

MCSpecs == SeqOf(MCCharacters, MaxSpec) \cup SeqOf(OfEach, MaxSpec + 1) \cup SeqOf(OfOptions1, MaxSpec + 2)

Opt(names) == [param |-> "opt", names |-> names]
Arg(name)  == [param |-> "arg", name |-> name]

Declarations ==
  { Opt(<<<<"a">>, <<"a", "A">>>>), Opt(<<<<"A">>, <<"a">>>>),
    Arg(<<"A">>), Arg(<<"B">>), Arg(<<"A", "1">>), Arg(<<"a">>), Arg(MCWord) }

Usual == <<Opt(<<<<"a">>, <<"a", "A">>>>), Opt(<<<<"A">>>>), Arg(<<"A">>), Arg(<<"B">>)>>

\* Longer specs of a command, most of which parse.
GivenSpecs ==
  { <<"A">>, <<"-", "a">>, <<"-", "-", "a", "A">>, <<"-", "a", "A", Space, "A">>,
    <<"[", "B", "A", "]", Space, "A">>, <<"[", "-", "a", "A", "]", "A", ".", ".", ".">>,
    <<"-", "a", "=", "<", "a", Space, "A", ">", "A", "|", "B">>, <<"(", "-", "-", "a", "A", "=", "<", "-", ">", ")">>,
    <<"-", "a", Space, "-", "-", Space, "A">> }

Program(sub, sp, ds) == [sub |-> sub, spec |-> sp, decls |-> ds]

MCPrograms ==
  {Program(FALSE, sp, Usual) : sp \in MCSpecs}
  \cup {Program(sub, <<>>, ds) : sub \in BOOLEAN, ds \in SeqOf(Declarations, MaxDecls)}
  \cup {Program(TRUE, sp, ds) : sp \in GivenSpecs, ds \in {Usual, Usual \o <<Opt(<<<<"a">>>>), Arg(<<"A">>)>>}}
=============================================================================
