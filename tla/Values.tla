------------------------------- MODULE Values -------------------------------
(***************************************************************************)
(* The values of the options and arguments of a command: initialized when  *)
(* they are declared, from their default and the environment (mkOpt,       *)
(* mkArg, setFromEnv), and filled with what an accepted command line binds *)
(* (the second half of state.parse), in one Run after the other.           *)
(*                                                                         *)
(* A value is a sequence: of one element for a single-valued kind, of any  *)
(* length for a slice.                                                     *)
(***************************************************************************)
EXTENDS Integers, Sequences, SequencesExt, Functions

CONSTANTS
  Opts, Args,   \* the declared options and arguments
  Kind,         \* the kind of each: a boolean, a number, a slice of numbers, ...
  Multi,        \* the kinds that implement multiValued
  Default,      \* the default of each
  Flagged,      \* those declared with a SetByUser pointer
  Converts,     \* for each kind, from the texts its Set may accept to the elements
  Numeric,      \* the kinds whose elements are numbers
  ParseLimit,   \* the first number beyond those ParseInt is asked for, 2^63
  IntLimit,     \* the first beyond those of an int: no less in the builds considered
  Texts,        \* the texts of lines and variables
  Trimmed,      \* from a text to the text without the spaces around it
  Environments, \* for each option and argument, the contents of its environment
                \* variables in order; what a comma separates are parts of a sequence
  Contexts,     \* what command lines bind: from options and arguments to texts
  Later,        \* what those of later Runs bind
  MaxRuns       \* bound: the Runs

Keys == Opts \cup Args

ASSUME KeysAssumption ==
  /\ Opts \cap Args = {} /\ Flagged \subseteq Keys
  /\ DOMAIN Kind = Keys /\ DOMAIN Default = Keys
  /\ \A k \in Keys : Kind[k] \in DOMAIN Converts /\ (Kind[k] \notin Multi => Len(Default[k]) = 1)
ASSUME NumbersAssumption ==
  \A kind \in Numeric \cap DOMAIN Converts : \A t \in DOMAIN Converts[kind] : Converts[kind][t] \in Int
ASSUME WidthAssumption == ParseLimit \in Nat \ {0} /\ IntLimit \in Nat /\ IntLimit >= ParseLimit
ASSUME RunsAssumption == MaxRuns \in Nat \ {0}
ASSUME EnvironmentsAssumption == Environments \subseteq [Keys -> Seq(Seq(Texts))]
ASSUME ContextsAssumption ==     \* apply binds no key without a text
  \A c \in Contexts \cup Later :
    DOMAIN c \subseteq Keys /\ \A k \in DOMAIN c : c[k] \in Seq(Texts) /\ c[k] # <<>>

VARIABLES
  variables,    \* the environment
  declared,     \* the keys mkOpt or mkArg was called on
  value,        \* the value of each
  fromEnv,      \* valueSetFromEnv
  byUser,       \* *valueSetByUser
  context,      \* the parse context of the accepted line
  pending,      \* the keys of the context not visited yet
  outcome,      \* declaring, filling, or what parse answers: ok or error
  runs,         \* the number of the Run
  before        \* history: the values and byUser when the line was accepted

line == <<context, pending, outcome>>
vars == <<variables, declared, value, fromEnv, byUser, line, runs, before>>

IsMulti(k)    == Kind[k] \in Multi
IsNumber(k)   == Kind[k] \in Numeric

\* strconv refuses a number that has more bits than it is asked for, and int(i)
\* keeps the lower bits of it.
InRange(n, limit) == -limit <= n /\ n < limit
Lower(n, limit)   == ((n + limit) % (2 * limit)) - limit

Text(k, t)    == Converts[Kind[k]][t]
Accepts(k, t) == t \in DOMAIN Converts[Kind[k]] /\ (IsNumber(k) => InRange(Text(k, t), ParseLimit))
Element(k, t) == IF IsNumber(k) THEN Lower(Text(k, t), IntLimit) ELSE Text(k, t)
Elements(k, ts) == [i \in DOMAIN ts |-> Element(k, ts[i])]

\* Set on each text in turn: what is stored when all, or those before the first
\* that is not accepted, are set on the value v.
Bad(k, ts)    == SelectInSeq(ts, LAMBDA t : ~Accepts(k, t))
Good(k, ts)   == IF Bad(k, ts) = 0 THEN ts ELSE SubSeq(ts, 1, Bad(k, ts) - 1)
SetAll_Appends(k, v, ts) == v \o Elements(k, Good(k, ts))

SetAll(k, v, ts) ==
  LET good == Good(k, ts)
  IN  IF good = <<>> THEN v
      ELSE IF IsMulti(k) THEN v \o Elements(k, good) ELSE <<Element(k, Last(good))>>

(***************************************************************************)
(* setFromEnv: the first variable that is not empty and converts.  A slice *)
(* is cleared before its parts are set, and again if one is not accepted.  *)
(***************************************************************************)
Parts(k, var) == IF IsMulti(k) THEN [i \in DOMAIN var |-> Trimmed[var[i]]] ELSE var

Usable_FirstPart(k, var) == var # <<>> /\ Accepts(k, Parts(k, var)[1])
Usable(k, var)  == var # <<>> /\ Bad(k, Parts(k, var)) = 0
FirstUsable(k, vs) == SelectInSeq(vs, LAMBDA var : Usable(k, var))

Initial(k, vs) ==
  LET i == FirstUsable(k, vs)
  IN  IF i > 0 THEN SetAll(k, <<>>, Parts(k, vs[i]))
      ELSE IF IsMulti(k) /\ \E j \in DOMAIN vs : vs[j] # <<>> THEN <<>>
      ELSE Default[k]

Init ==
  /\ variables \in Environments
  /\ declared = {}
  /\ value = Default
  /\ fromEnv = [k \in Keys |-> FALSE]
  /\ byUser = [k \in Keys |-> FALSE]
  /\ context = <<>> /\ pending = {} /\ outcome = "declaring"
  /\ runs = 1 /\ before = [value |-> Default, byUser |-> [k \in Keys |-> FALSE]]

\* mkOpt or mkArg, called by the initializer of the command.
Declare(k) ==
  /\ k \in Keys \ declared
  /\ declared' = declared \cup {k}
  /\ value' = [value EXCEPT ![k] = Initial(k, variables[k])]
  /\ fromEnv' = [fromEnv EXCEPT ![k] = FirstUsable(k, variables[k]) > 0]
  /\ UNCHANGED <<variables, byUser, line, runs, before>>

\* apply accepts a line.
Accepted ==
  /\ declared = Keys /\ outcome = "declaring"
  /\ outcome' = "filling"
  /\ \E c \in IF runs = 1 THEN Contexts ELSE Later : context' = c /\ pending' = DOMAIN c
  /\ before' = [value |-> value, byUser |-> byUser]
  /\ UNCHANGED <<variables, declared, value, fromEnv, byUser, runs>>

\* One iteration of a loop over a map of the context, in any order; the loop over
\* the options comes first.  The first error ends both.
Cleared_Kept(k) == value[k]
Cleared(k)      == IF IsMulti(k) THEN <<>> ELSE value[k]

Fill_GoesOn(k) ==
  /\ k \in pending /\ (k \in Args => pending \subseteq Args)
  /\ pending' = pending \ {k}
  /\ value' = [value EXCEPT ![k] = SetAll(k, Cleared(k), context[k])]
  /\ fromEnv' = [fromEnv EXCEPT ![k] = IF IsMulti(k) THEN FALSE ELSE @]
  /\ byUser' = [byUser EXCEPT ![k] = @ \/ k \in Flagged]
  /\ outcome' = IF Bad(k, context[k]) > 0 THEN "error" ELSE outcome
  /\ UNCHANGED <<variables, declared, context, runs, before>>

Fill(k) ==
  /\ outcome = "filling"
  /\ k \in pending /\ (k \in Args => pending \subseteq Args)
  /\ pending' = pending \ {k}
  /\ value' = [value EXCEPT ![k] = SetAll(k, Cleared(k), context[k])]
  /\ fromEnv' = [fromEnv EXCEPT ![k] = IF IsMulti(k) THEN FALSE ELSE @]
  /\ IF Bad(k, context[k]) > 0
     THEN outcome' = "error" /\ UNCHANGED byUser
     ELSE byUser' = [byUser EXCEPT ![k] = @ \/ k \in Flagged] /\ UNCHANGED outcome
  /\ UNCHANGED <<variables, declared, context, runs, before>>

Return ==
  /\ pending = {} /\ outcome = "filling"
  /\ outcome' = "ok"
  /\ UNCHANGED <<variables, declared, value, fromEnv, byUser, context, pending, runs, before>>

Answered == outcome \in {"ok", "error"}

\* The next Run finds the variables of the application as the last one left them.
Again ==
  /\ Answered /\ runs < MaxRuns
  /\ runs' = runs + 1
  /\ context' = <<>> /\ pending' = {} /\ outcome' = "declaring"
  /\ UNCHANGED <<variables, declared, value, fromEnv, byUser, before>>

Terminated == Answered /\ UNCHANGED vars

Next ==
  \/ \E k \in Keys : Declare(k) \/ Fill(k)
  \/ Accepted
  \/ Return
  \/ Again
  \/ Terminated

Spec == Init /\ [][Next]_vars

(***************************************************************************)
(* Properties.                                                             *)
(***************************************************************************)

\* What texts stand for, and what a variable that converts says.
Means(k, ts) == LET vs == [i \in DOMAIN ts |-> Text(k, ts[i])] IN IF IsMulti(k) THEN vs ELSE <<Last(vs)>>

Given(k)   == k \in DOMAIN context
Says(k)    == Given(k) /\ Bad(k, context[k]) = 0 /\ value[k] = Means(k, context[k])
FromVar(k) == {Means(k, Parts(k, var)) : var \in
                 {w \in ToSet(variables[k]) : w # <<>> /\ \A i \in DOMAIN w : Accepts(k, Parts(k, w)[i])}}
Silent(k)  == \A i \in DOMAIN variables[k] : variables[k][i] = <<>>

\* Every variable has the type of what it stands for.
TypeOK ==
  /\ declared \subseteq Keys
  /\ \A k \in Keys : /\ \A i \in DOMAIN value[k] : value[k][i] \in Range(Converts[Kind[k]]) \cup ToSet(Default[k])
                     /\ ~IsMulti(k) => Len(value[k]) = 1
  /\ fromEnv \in [Keys -> BOOLEAN] /\ byUser \in [Keys -> BOOLEAN]
  /\ pending \subseteq DOMAIN context /\ DOMAIN context \subseteq Keys
  /\ outcome \in {"declaring", "filling", "ok", "error"} /\ runs \in 1 .. MaxRuns

\* After a successful parse the command line wins over what was there, which in the
\* first Run is what the environment says, or else the default.  Nothing of what
\* lost is left in a slice, and a number is the one the text says.
LineThenEnvironmentThenDefault ==
  outcome = "ok" =>
    \A k \in Keys :
      /\ Given(k)  => Says(k)
      /\ ~Given(k) => value[k] = before.value[k]
      /\ runs = 1 /\ FromVar(k) # {} => before.value[k] \in FromVar(k)
      /\ runs = 1 /\ Silent(k) => before.value[k] = Default[k]

\* The matchers take valueSetFromEnv for the presence of an option: until a line
\* is accepted it says that the value is one of the environment, all of it.
EnvironmentFlagIsTrue ==
  \A k \in declared : outcome = "declaring" /\ runs = 1 =>
    (fromEnv[k] <=> FromVar(k) # {}) /\ (fromEnv[k] => value[k] \in FromVar(k))

\* SetByUser never comes to say that a value is the user's when it is not, and after
\* a successful parse it says so of every one that this line or an earlier one gave.
ByUserIsTrue ==
  /\ outcome # "declaring" => \A k \in Keys : byUser[k] => before.byUser[k] \/ Says(k)
  /\ outcome = "ok" => \A k \in Flagged : byUser[k] <=> before.byUser[k] \/ Given(k)

\* An error leaves at most one value half set: every other is as it was before the
\* line or as the line says, in whatever order the maps are visited.
AtMostOneBroken ==
  outcome = "error" =>
    \E k \in DOMAIN context : \A j \in Keys \ {k} : value[j] = before.value[j] \/ Says(j)
=============================================================================
