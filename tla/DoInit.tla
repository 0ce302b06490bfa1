-------------------------------- MODULE DoInit --------------------------------
(***************************************************************************)
(* How a command gets its options, arguments and automaton: the calls that *)
(* declare them (Cmd.Bool, .., Cmd.Var, which end in mkOpt and mkArg) and  *)
(* Cmd.doInit, which every Run calls on each command it reaches.           *)
(*                                                                         *)
(* An option or argument is its index in c.options or c.args, which stands *)
(* for the pointer that Go keeps: two declarations with the same name are  *)
(* two options.                                                            *)
(***************************************************************************)
EXTENDS SpecParser

CONSTANTS
  Characters,
  Upper, Lower, Digits, Space, Tab, OptionsWord,   \* as in Tokenizer
  Programs,   \* what may be initialized: [sub, spec, decls], see Init
  MaxRuns,    \* bound: the calls of Run
  MaxWord     \* bound on the words compared in the properties

\* A string is a sequence of characters.
Strings    == Seq(Characters)
Separators == {"[", "]", "(", ")", "|", ".", "-", "=", "<", ">", "_"}

ASSUME ClassesAssumption ==
  /\ Separators \subseteq Characters
  /\ Upper \cup Lower \cup Digits \cup {Space, Tab} \subseteq Characters \ Separators
  /\ {Space, Tab} \cap (Upper \cup Lower \cup Digits) = {} /\ Lower # {}
  /\ OptionsWord \in Seq(Upper) \ {<<>>}

\* A declaration has the name of an argument, or the names of an option.
IsDeclaration(d) ==
  \/ d.param = "arg" /\ d.name \in Strings
  \/ d.param = "opt" /\ d.names \in Seq(Strings)

ASSUME ProgramsAssumption ==
  \A p \in Programs : /\ p.sub \in BOOLEAN /\ p.spec \in Strings
                       /\ p.decls \in Seq(ToSet(p.decls)) /\ \A d \in ToSet(p.decls) : IsDeclaration(d)
ASSUME RunsAssumption == MaxRuns \in Nat \ {0}

\* The words compared are as long as those of a spec that is made up: an argument each,
\* and the options.
ASSUME MaxWordAssumption ==
  MaxWord \in Nat \ {0} /\ \A p \in Programs : p.spec = <<>> => Len(p.decls) <= MaxWord

VARIABLES
  program,      \* is it a sub command, the Spec its user sets, what it declares
  at,           \* app: the application declares; between: no Run goes on;
                \* init, cutting: in doInit; failed: it answered with an error
  runs,         \* the calls of Run
  left,         \* the declarations still to be made
  options,      \* c.options: the names of each
  optionsIdx,   \* from names to options
  args,         \* c.args: the name of each
  argsIdx,      \* from names to arguments
  spec,         \* c.Spec
  fsm,          \* what c.fsm was parsed to, before its simplification
  pos, tokens, cut   \* of Tokenizer

declared == <<left, options, optionsIdx, args, argsIdx>>
cutting  == <<pos, tokens, cut>>
vars     == <<program, at, runs, declared, spec, fsm, cutting>>

Tok == INSTANCE Tokenizer WITH usage <- spec

NoFsm == [tr |-> <<>>, start |-> 0, terminal |-> {}, err |-> "", pos |-> 0]

\* App and Cmd.Command: an application declares before its first Run, a sub
\* command in every Run.
Init ==
  /\ program \in Programs
  /\ at = IF program.sub THEN "between" ELSE "app"
  /\ left = IF program.sub THEN <<>> ELSE program.decls
  /\ runs = 0 /\ spec = program.spec /\ fsm = NoFsm
  /\ options = <<>> /\ args = <<>> /\ optionsIdx = <<>> /\ argsIdx = <<>>
  /\ pos = 0 /\ tokens = <<>> /\ cut = "idle"

\* mkOptStrs
MkOptStrs(words) == [i \in DOMAIN words |-> (IF Len(words[i]) > 1 THEN <<"-", "-">> ELSE <<"-">>) \o words[i]]

\* The index m after the keys ks were set to v.
Put(m, ks, v) == [k \in ks \cup DOMAIN m |-> IF k \in ks THEN v ELSE m[k]]

MkOpt(o) ==
  /\ options' = Append(options, MkOptStrs(o.names))
  /\ optionsIdx' = Put(optionsIdx, ToSet(MkOptStrs(o.names)), Len(options) + 1)
  /\ UNCHANGED <<args, argsIdx>>

MkArg(a) ==
  /\ args' = Append(args, a.name)
  /\ argsIdx' = Put(argsIdx, {a.name}, Len(args) + 1)
  /\ UNCHANGED <<options, optionsIdx>>

\* Bool, String, Int, Strings, Ints and Var take an option or an argument.
Declare ==
  /\ at \in {"app", "init"} /\ left # <<>>
  /\ left' = Tail(left)
  /\ \/ Head(left).param = "opt" /\ MkOpt(Head(left))
     \/ Head(left).param = "arg" /\ MkArg(Head(left))
  /\ UNCHANGED <<program, at, runs, spec, fsm, cutting>>

\* A Run reaches the command: doInit calls the initializer of a sub command.
Run ==
  /\ at \in {"app", "between"} /\ left = <<>> /\ runs < MaxRuns
  /\ runs' = runs + 1 /\ at' = "init"
  /\ left' = IF program.sub THEN program.decls ELSE <<>>
  /\ UNCHANGED <<program, options, optionsIdx, args, argsIdx, spec, fsm, cutting>>

\* The spec of a command that has none: all the options, then the arguments.
MadeUp ==
  (IF options # <<>> THEN <<"[">> \o OptionsWord \o <<"]", Space>> ELSE <<>>)
  \o FlattenSeq([i \in DOMAIN args |-> args[i] \o <<Space>>])

\* The rest of doInit up to the tokenizer.
MakeUp_Afresh ==
  /\ at = "init" /\ left = <<>>
  /\ spec' = IF program.spec = <<>> THEN MadeUp ELSE spec
  /\ at' = "cutting" /\ Tok!Start
  /\ UNCHANGED <<program, runs, declared, fsm>>

MakeUp ==
  /\ at = "init" /\ left = <<>>
  /\ spec' = IF spec = <<>> THEN MadeUp ELSE spec
  /\ at' = "cutting" /\ Tok!Start
  /\ UNCHANGED <<program, runs, declared, fsm>>

Tokenize == at = "cutting" /\ Tok!Next /\ UNCHANGED <<program, at, runs, declared, fsm>>

\* What the parser finds under a name: an option, an argument, or nothing.
Undeclared == 0
Find(m, name) == IF name \in DOMAIN m THEN m[name] ELSE Undeclared

Found(t) ==
  CASE t.typ = "pos"                      -> Find(argsIdx, t.val)
    [] t.typ \in {"shortOpt", "longOpt"} -> Find(optionsIdx, t.val)
    [] t.typ = "optSeq"                   -> [i \in DOMAIN t.val |-> Find(optionsIdx, <<"-", t.val[i]>>)]
    [] OTHER                              -> t.val

Parsed ==
  UParse(DOMAIN args, [i \in DOMAIN options |-> i],
         [i \in DOMAIN tokens |-> [typ |-> tokens[i].typ, val |-> Found(tokens[i])]])

\* uParse after the tokenizer, and the end of doInit.
Parse_OnceOnly ==
  /\ at = "cutting" /\ cut = "ok"
  /\ \E g \in {Parsed} : IF g.err # "" THEN at' = "failed" /\ UNCHANGED fsm
                         ELSE at' = "between" /\ fsm' = IF fsm = NoFsm THEN g ELSE fsm
  /\ UNCHANGED <<program, runs, declared, spec, cutting>>

Parse ==
  /\ at = "cutting" /\ cut = "ok"
  /\ \E g \in {Parsed} : IF g.err # "" THEN at' = "failed" /\ UNCHANGED fsm
                         ELSE at' = "between" /\ fsm' = g
  /\ UNCHANGED <<program, runs, declared, spec, cutting>>

Refuse == at = "cutting" /\ cut = "error" /\ at' = "failed" /\ UNCHANGED <<program, runs, declared, spec, fsm, cutting>>

Step == Declare \/ Run \/ MakeUp \/ Tokenize \/ Parse \/ Refuse

Terminated == (at = "failed" \/ (at = "between" /\ runs = MaxRuns)) /\ UNCHANGED vars

Next == Step \/ Terminated

\* uTokenize takes its next step: it has the only loop in here.
Spec == Init /\ [][Next]_vars /\ WF_vars(Tokenize)

(***************************************************************************)
(* Properties.                                                             *)
(***************************************************************************)

CutsIntoLexemes          == Tok!CutsIntoLexemes
ErrorAtFirstBadCharacter == Tok!ErrorAtFirstBadCharacter

Ready == at = "between" /\ runs > 0

\* The option or argument that the name stands for: the last one declared.
Latest(names, name) == SelectLastInSeq(names, LAMBDA x : x = name)

\* What the automaton says when there is no spec: all the options, if there are
\* any, may come first, then every argument of the program in its order, each with
\* the variable last declared under its name.
NamesIn(ds) == FlattenSeq([i \in DOMAIN ds |-> IF ds[i].param = "arg" THEN <<ds[i].name>> ELSE <<>>])
ArgNames   == NamesIn(program.decls)
NamesLegal == \A i \in DOMAIN ArgNames : ArgNames[i] # OptionsWord /\ "pos" \in Tok!Types(ArgNames[i])
InOrder    == [i \in DOMAIN ArgNames |-> ArgMatcher(Latest(args, ArgNames[i]))]
AllOptions == OptsMatcher([i \in DOMAIN options |-> i], 2)

\* A command without a spec takes its options and then its arguments in the order
\* declared (README "Default spec"), in every Run, if the arguments have names that
\* can stand in a spec.
DefaultSpecMeans ==
  program.spec = <<>> /\ NamesLegal =>
    /\ at # "failed"
    /\ Ready => Words(fsm, MaxWord, fsm.start) =
                  {InOrder} \cup (IF options = <<>> THEN {} ELSE {<<AllOptions>> \o InOrder})

\* Every option and argument that the automaton waits for is one whose name still
\* leads to it: not one of an earlier Run, nor one that a later declaration took the
\* name of.  Else the line would fill a variable nobody reads.  A group may hold
\* those as well, if it holds every one that has a name.
Current(names, i) == \E x \in names[i] : \A j \in DOMAIN names : x \in names[j] => j <= i
OfOptions == [i \in DOMAIN options |-> ToSet(options[i])]
OfArgs    == [i \in DOMAIN args |-> {args[i]}]
Expected  == UNION {{t.m : t \in ToSet(fsm.tr[s])} : s \in States(fsm)}

BindsThisRun ==
  Ready => \A m \in Expected :
    CASE m.kind = "arg"  -> Current(OfArgs, m.arg)
      [] m.kind = "opt"  -> Current(OfOptions, m.opt)
      [] m.kind = "opts" -> LET all == {i \in DOMAIN options : Current(OfOptions, i)}
                            IN  ToSet(m.opts) \subseteq all \/ all \subseteq ToSet(m.opts)
      [] OTHER           -> TRUE

\* uTokenize comes to the end of every spec: each turn of its loop moves on.
Ends == cut = "cutting" ~> cut \in {"ok", "error"}
=============================================================================
