---------------------------- MODULE ValuesProofs ----------------------------
(***************************************************************************)
(* Theorems about Values, for every set of options and arguments, every    *)
(* kind of value, every environment and every line.                        *)
(***************************************************************************)
EXTENDS Values, Facts

(***************************************************************************)
(* Lemmas about the operators the model is built from.                     *)
(***************************************************************************)

\* Bad is the position of a text that is not accepted, or 0 if there is none.
LEMMA BadText ==
  ASSUME NEW k, NEW S, NEW ts \in Seq(S)
  PROVE  /\ Bad(k, ts) = 0 => \A i \in 1 .. Len(ts) : Accepts(k, ts[i])
         /\ Bad(k, ts) > 0 => \E i \in 1 .. Len(ts) : ~Accepts(k, ts[i])
         /\ Bad(k, ts) \in Nat
<1> DEFINE I == {i \in 1 .. Len(ts) : ~Accepts(k, ts[i])}
<1>1. Bad(k, ts) = IF I # {} THEN Min(I) ELSE 0
  BY DEF Bad, SelectInSeq
<1>2. I # {} => Min(I) \in I
  <2>1. I \subseteq Nat
    BY LenProperties
  <2> HIDE DEF I
  <2> QED BY <2>1, LeastNumber
<1> QED BY <1>1, <1>2

\* The same for a list of environment variables.
LEMMA UsableVariable ==
  ASSUME NEW k, NEW S, NEW vs \in Seq(S)
  PROVE  /\ FirstUsable(k, vs) = 0 => \A i \in 1 .. Len(vs) : ~Usable(k, vs[i])
         /\ FirstUsable(k, vs) > 0 => /\ FirstUsable(k, vs) \in 1 .. Len(vs)
                                      /\ Usable(k, vs[FirstUsable(k, vs)])
         /\ FirstUsable(k, vs) \in Nat
<1> DEFINE I == {i \in 1 .. Len(vs) : Usable(k, vs[i])}
<1>1. FirstUsable(k, vs) = IF I # {} THEN Min(I) ELSE 0
  BY DEF FirstUsable, SelectInSeq
<1>2. I # {} => Min(I) \in I
  <2>1. I \subseteq Nat
    BY LenProperties
  <2> HIDE DEF I
  <2> QED BY <2>1, LeastNumber
<1> QED BY <1>1, <1>2

\* A number that ParseInt accepts is stored as it is.
LEMMA LowerKeeps ==
  ASSUME NEW n \in Int, InRange(n, ParseLimit)
  PROVE  Lower(n, IntLimit) = n
<1>1. n + IntLimit \in 0 .. 2 * IntLimit - 1 /\ IntLimit \in Nat \ {0}
  BY WidthAssumption DEF InRange
<1>2. \A m \in Nat \ {0} : \A a \in 0 .. m - 1 : a % m = a
  OBVIOUS
<1>3. 2 * IntLimit \in Nat \ {0}
  BY <1>1
<1>4. (n + IntLimit) % (2 * IntLimit) = n + IntLimit
  BY <1>1, <1>2, <1>3
<1> QED BY <1>1, <1>4 DEF Lower

\* An accepted text sets the element it stands for.
LEMMA ElementIsText ==
  ASSUME NEW k \in Keys, NEW t, Accepts(k, t)
  PROVE  Element(k, t) = Text(k, t)
<1>1. CASE IsNumber(k)
  <2>1. Text(k, t) \in Int
    BY <1>1, KeysAssumption, NumbersAssumption DEF IsNumber, Accepts, Text
  <2> QED BY <1>1, <2>1, LowerKeeps DEF Accepts, Element
<1>2. CASE ~IsNumber(k)
  BY <1>2 DEF Element
<1> QED BY <1>1, <1>2

\* Texts that are all accepted, set on a value that was cleared if it is a slice,
\* give the value they mean.
LEMMA SetAllMeans ==
  ASSUME NEW k \in Keys, NEW S, NEW ts \in Seq(S), ts # <<>>, Bad(k, ts) = 0,
         NEW v, IsMulti(k) => v = <<>>
  PROVE  SetAll(k, v, ts) = Means(k, ts)
<1>1. Len(ts) \in Nat \ {0} /\ DOMAIN ts = 1 .. Len(ts)
  BY EmptySeq, LenProperties
<1>2. \A i \in 1 .. Len(ts) : Element(k, ts[i]) = Text(k, ts[i])
  BY BadText, ElementIsText
<1>3. Good(k, ts) = ts
  BY DEF Good
<1> DEFINE texts == [i \in 1 .. Len(ts) |-> Text(k, ts[i])]
<1>4. Elements(k, ts) = texts
  BY <1>1, <1>2 DEF Elements
<1>5. texts \in Seq({Text(k, ts[i]) : i \in 1 .. Len(ts)}) /\ Len(texts) = Len(ts)
  BY <1>1
<1>6. CASE IsMulti(k)
  <2>1. <<>> \o texts = texts
    BY <1>5, ConcatEmptySeq
  <2> QED BY <1>1, <1>3, <1>4, <1>6, <2>1 DEF SetAll, Means
<1>7. CASE ~IsMulti(k)
  <2>1. Last(texts) = Text(k, Last(ts))
    BY <1>1, <1>5 DEF Last
  <2>2. Element(k, Last(ts)) = Text(k, Last(ts))
    BY <1>1, <1>2 DEF Last
  <2> QED BY <1>1, <1>3, <1>7, <2>1, <2>2 DEF SetAll, Means
<1> QED BY <1>6, <1>7

\* The parts of a variable are as many as it has.
LEMMA PartsOfVariable ==
  ASSUME NEW k, NEW S, NEW var \in Seq(S)
  PROVE  /\ Parts(k, var) \in Seq(S \cup {Trimmed[var[i]] : i \in 1 .. Len(var)})
         /\ Len(Parts(k, var)) = Len(var)
<1>1. Len(var) \in Nat /\ DOMAIN var = 1 .. Len(var) /\ \A i \in 1 .. Len(var) : var[i] \in S
  BY LenProperties, ElementOfSeq
<1> DEFINE parts == [i \in 1 .. Len(var) |-> Trimmed[var[i]]]
           T     == S \cup {Trimmed[var[i]] : i \in 1 .. Len(var)}
<1>2. var \in Seq(T)
  BY SeqMonotonic
<1>3. parts \in Seq(T) /\ Len(parts) = Len(var)
  BY <1>1
<1>4. Parts(k, var) = IF IsMulti(k) THEN parts ELSE var
  BY <1>1 DEF Parts
<1> QED BY <1>2, <1>3, <1>4

\* A variable is usable iff it is not empty and all its parts are accepted.
LEMMA UsableAccepted ==
  ASSUME NEW k, NEW S, NEW var \in Seq(S)
  PROVE  Usable(k, var) <=> var # <<>> /\ \A i \in DOMAIN var : Accepts(k, Parts(k, var)[i])
<1> DEFINE T == S \cup {Trimmed[var[i]] : i \in 1 .. Len(var)}
<1>1. Parts(k, var) \in Seq(T) /\ Len(Parts(k, var)) = Len(var) /\ DOMAIN var = 1 .. Len(var)
  BY PartsOfVariable, LenProperties
<1> HIDE DEF T
<1>2. Bad(k, Parts(k, var)) = 0 <=> \A i \in 1 .. Len(Parts(k, var)) : Accepts(k, Parts(k, var)[i])
  BY <1>1, BadText
<1> QED BY <1>1, <1>2 DEF Usable

\* What a key is initialized to: what a usable variable means, if there is one, and
\* the default if all its variables are empty.
LEMMA InitialValue ==
  ASSUME NEW k \in Keys, variables \in Environments
  PROVE  /\ FirstUsable(k, variables[k]) > 0 <=> FromVar(k) # {}
         /\ FromVar(k) # {} => Initial(k, variables[k]) \in FromVar(k)
         /\ Silent(k) => Initial(k, variables[k]) = Default[k]
<1> DEFINE vs    == variables[k]
           first == FirstUsable(k, vs)
<1>1. vs \in Seq(Seq(Texts))
  BY EnvironmentsAssumption
<1>2. DOMAIN vs = 1 .. Len(vs) /\ ToSet(vs) = {vs[i] : i \in 1 .. Len(vs)}
      /\ \A i \in 1 .. Len(vs) : vs[i] \in Seq(Texts)
  BY <1>1, LenProperties, ElementOfSeq DEF ToSet
<1>3. FromVar(k) = {Means(k, Parts(k, var)) : var \in {w \in ToSet(vs) : Usable(k, w)}}
  BY <1>2, UsableAccepted DEF FromVar
<1> HIDE DEF vs
<1>4. /\ first = 0 => \A i \in 1 .. Len(vs) : ~Usable(k, vs[i])
      /\ first > 0 => first \in 1 .. Len(vs) /\ Usable(k, vs[first])
      /\ first \in Nat
  BY <1>1, UsableVariable
<1> HIDE DEF first
<1>5. first > 0 <=> FromVar(k) # {}
  BY <1>2, <1>3, <1>4
<1>6. ASSUME first > 0 PROVE Initial(k, vs) \in FromVar(k)
  <2> DEFINE var == vs[first]
             T   == Texts \cup {Trimmed[var[i]] : i \in 1 .. Len(var)}
  <2>1. var \in Seq(Texts) /\ var \in ToSet(vs) /\ Usable(k, var)
    BY <1>2, <1>4, <1>6
  <2>2. Parts(k, var) \in Seq(T) /\ Len(Parts(k, var)) = Len(var)
    BY <2>1, PartsOfVariable
  <2>3. Parts(k, var) # <<>> /\ Bad(k, Parts(k, var)) = 0
    BY <2>1, <2>2, EmptySeq DEF Usable
  <2>4. SetAll(k, <<>>, Parts(k, var)) = Means(k, Parts(k, var))
    <3> HIDE DEF var, T
    <3> QED BY <2>2, <2>3, SetAllMeans
  <2>5. Initial(k, vs) = SetAll(k, <<>>, Parts(k, var))
    BY <1>6 DEF Initial, first
  <2> QED BY <1>3, <2>1, <2>4, <2>5
<1>7. ASSUME Silent(k) PROVE Initial(k, vs) = Default[k]
  <2>1. \A i \in 1 .. Len(vs) : vs[i] = <<>>
    BY <1>2, <1>7 DEF Silent, vs
  <2>2. ~(first > 0)
    BY <1>4, <2>1 DEF Usable
  <2> QED BY <1>2, <2>1, <2>2 DEF Initial, first
<1> QED BY <1>5, <1>6, <1>7 DEF first, vs

(***************************************************************************)
(* The inductive invariant.                                                *)
(***************************************************************************)

\* The keys of the line whose values were set.
Visited == DOMAIN context \ pending

Shape ==
  /\ variables \in Environments /\ declared \subseteq Keys
  /\ DOMAIN value = Keys
  /\ fromEnv \in [Keys -> BOOLEAN] /\ byUser \in [Keys -> BOOLEAN]
  /\ outcome \in {"declaring", "filling", "ok", "error"} /\ runs \in Nat \ {0}
  /\ outcome # "declaring" => declared = Keys /\ context \in Contexts \cup Later
  /\ pending \subseteq DOMAIN context
  /\ outcome = "ok" => pending = {}

\* While a line is taken over, what was visited has the value the line says and
\* nothing else has changed.
LineInv ==
  /\ outcome \in {"filling", "ok"} =>
       \A j \in Keys : IF j \in Visited THEN Says(j) ELSE value[j] = before.value[j]
  /\ AtMostOneBroken

UserInv ==
  /\ outcome \in {"filling", "ok"} =>
       \A j \in Keys : byUser[j] <=> before.byUser[j] \/ (j \in Flagged /\ j \in Visited)
  /\ outcome = "error" => \A j \in Keys : byUser[j] => before.byUser[j] \/ Says(j)

\* What a key is initialized to does not depend on the moment.
EnvInv ==
  runs = 1 =>
    /\ outcome = "declaring" => \A k \in declared :
         value[k] = Initial(k, variables[k]) /\ (fromEnv[k] <=> FirstUsable(k, variables[k]) > 0)
    /\ outcome # "declaring" => \A k \in Keys : before.value[k] = Initial(k, variables[k])

ValuesInv == Shape /\ LineInv /\ UserInv /\ EnvInv

LEMMA InitInv == Init => ValuesInv
BY KeysAssumption DEF Init, ValuesInv, Shape, LineInv, UserInv, EnvInv, AtMostOneBroken

LEMMA DeclareKeeps == ASSUME ValuesInv, NEW k \in Keys, Declare(k) PROVE ValuesInv'
<1> USE DEF Declare, line
<1>1. outcome = "declaring" /\ outcome' = "declaring" /\ runs' = runs /\ variables' = variables
  BY DEF ValuesInv, Shape
<1>2. Shape'
  BY <1>1 DEF ValuesInv, Shape
<1>3. LineInv' /\ UserInv'
  BY <1>1 DEF LineInv, UserInv, AtMostOneBroken
<1>4. EnvInv'
  BY <1>1 DEF ValuesInv, Shape, EnvInv
<1> QED BY <1>2, <1>3, <1>4 DEF ValuesInv

LEMMA AcceptedKeeps == ASSUME ValuesInv, Accepted PROVE ValuesInv'
<1> USE DEF Accepted
<1>1. PICK c \in Contexts \cup Later : context' = c /\ pending' = DOMAIN c
  OBVIOUS
<1>2. Shape'
  BY <1>1 DEF ValuesInv, Shape
<1>3. Visited' = {}
  BY <1>1 DEF Visited
<1>4. LineInv'
  BY <1>3 DEF LineInv, AtMostOneBroken
<1>5. UserInv'
  BY <1>3 DEF UserInv
<1>6. EnvInv'
  BY DEF ValuesInv, Shape, EnvInv
<1> QED BY <1>2, <1>4, <1>5, <1>6 DEF ValuesInv

\* The text that does not convert is the only one to break a value, and no flag
\* is raised for it.
LEMMA FillKeeps == ASSUME ValuesInv, NEW k \in Keys, Fill(k) PROVE ValuesInv'
<1> DEFINE ts == context[k]
<1>1. /\ outcome = "filling" /\ declared = Keys /\ k \in pending /\ pending' = pending \ {k}
      /\ k \in DOMAIN context /\ ts \in Seq(Texts) /\ ts # <<>>
      /\ value' = [value EXCEPT ![k] = SetAll(k, Cleared(k), ts)] /\ DOMAIN value = Keys
      /\ context' = context /\ variables' = variables /\ runs' = runs /\ before' = before /\ declared' = declared
  BY ContextsAssumption DEF ValuesInv, Shape, Fill
<1>2. \A j \in Keys \ {k} : value'[j] = value[j] /\ (j \in Visited' <=> j \in Visited)
  BY <1>1 DEF Visited
<1>3. \A j \in Keys \ {k} : Says(j)' <=> Says(j)
  BY <1>1, <1>2 DEF Says, Given
<1>4. k \notin Visited /\ k \in Visited'
  BY <1>1 DEF Visited
<1>5. Shape'
  BY <1>1 DEF ValuesInv, Shape, Fill
<1>6. EnvInv'
  BY <1>1 DEF ValuesInv, EnvInv, Fill
<1>7. CASE Bad(k, ts) > 0
  <2>1. outcome' = "error" /\ byUser' = byUser
    BY <1>7 DEF Fill
  <2>2. \A j \in Keys \ {k} : (value[j] = before.value[j] \/ Says(j))'
    BY <1>1, <1>2, <1>3 DEF ValuesInv, LineInv
  <2>3. LineInv'
    BY <1>1, <2>1, <2>2 DEF LineInv, AtMostOneBroken
  <2>4. UserInv'
    BY <1>1, <1>2, <1>3, <1>4, <2>1 DEF ValuesInv, LineInv, UserInv
  <2> QED BY <1>5, <1>6, <2>3, <2>4 DEF ValuesInv
<1>8. CASE ~(Bad(k, ts) > 0)
  <2>1. outcome' = "filling" /\ byUser' = [byUser EXCEPT ![k] = @ \/ k \in Flagged]
    BY <1>1, <1>8 DEF Fill
  <2>2. Says(k)'
    <3>1. Bad(k, ts) = 0
      BY <1>1, <1>8, BadText
    <3>2. SetAll(k, Cleared(k), ts) = Means(k, ts)
      BY <1>1, <3>1, SetAllMeans DEF Cleared
    <3> QED BY <1>1, <3>1, <3>2 DEF Says, Given
  <2>3. LineInv'
    <3>1. ASSUME NEW j \in Keys
          PROVE  (IF j \in Visited THEN Says(j) ELSE value[j] = before.value[j])'
      <4>1. CASE j = k
        BY <1>4, <2>2, <4>1
      <4>2. CASE j # k
        BY <1>1, <1>2, <1>3, <4>2 DEF ValuesInv, LineInv
      <4> QED BY <4>1, <4>2
    <3> QED BY <2>1, <3>1 DEF LineInv, AtMostOneBroken
  <2>4. UserInv'
    BY <1>1, <1>2, <1>4, <2>1 DEF ValuesInv, Shape, UserInv
  <2> QED BY <1>5, <1>6, <2>3, <2>4 DEF ValuesInv
<1> QED BY <1>7, <1>8

LEMMA ReturnKeeps == ASSUME ValuesInv, Return PROVE ValuesInv'
<1> USE DEF Return
<1>1. Visited' = Visited /\ \A j \in Keys : Says(j)' <=> Says(j)
  BY DEF Visited, Says, Given
<1>2. Shape' /\ EnvInv'
  BY DEF ValuesInv, Shape, EnvInv
<1>3. LineInv' /\ UserInv'
  BY <1>1 DEF ValuesInv, LineInv, UserInv, AtMostOneBroken
<1> QED BY <1>2, <1>3 DEF ValuesInv

LEMMA AgainKeeps == ASSUME ValuesInv, Again PROVE ValuesInv'
BY DEF ValuesInv, Shape, LineInv, UserInv, EnvInv, AtMostOneBroken, Again, Answered

\* The invariant is inductive.
THEOREM Invariance == Spec => []ValuesInv
<1>1. ValuesInv /\ [Next]_vars => ValuesInv'
  <2> SUFFICES ASSUME ValuesInv, [Next]_vars PROVE ValuesInv'
    OBVIOUS
  <2>1. ASSUME NEW k \in Keys, Declare(k) PROVE ValuesInv'
    BY <2>1, DeclareKeeps
  <2>2. ASSUME NEW k \in Keys, Fill(k) PROVE ValuesInv'
    BY <2>2, FillKeeps
  <2>3. CASE Accepted
    BY <2>3, AcceptedKeeps
  <2>4. CASE Return
    BY <2>4, ReturnKeeps
  <2>5. CASE Again
    BY <2>5, AgainKeeps
  <2>6. CASE UNCHANGED vars
    BY <2>6 DEF vars, line, ValuesInv, Shape, LineInv, UserInv, EnvInv, AtMostOneBroken, Visited, Says, Given
  <2> QED BY <2>1, <2>2, <2>3, <2>4, <2>5, <2>6 DEF Next, Terminated
<1> QED BY InitInv, <1>1, PTL DEF Spec

(***************************************************************************)
(* The properties.                                                         *)
(***************************************************************************)

\* After a successful parse every value is the one the line says, or else the one it
\* had before; in the first Run that is what a usable variable of the environment
\* means, or the default if all are empty (state.parse, setFromEnv).
THEOREM LineWins == Spec => []LineThenEnvironmentThenDefault
<1>1. ValuesInv => LineThenEnvironmentThenDefault
  <2> SUFFICES ASSUME ValuesInv, outcome = "ok", NEW k \in Keys
               PROVE  /\ Given(k)  => Says(k)
                      /\ ~Given(k) => value[k] = before.value[k]
                      /\ runs = 1 /\ FromVar(k) # {} => before.value[k] \in FromVar(k)
                      /\ runs = 1 /\ Silent(k) => before.value[k] = Default[k]
    BY DEF LineThenEnvironmentThenDefault
  <2>1. k \in Visited <=> Given(k)
    BY DEF ValuesInv, Shape, Visited, Given
  <2>2. IF k \in Visited THEN Says(k) ELSE value[k] = before.value[k]
    BY DEF ValuesInv, LineInv
  <2>3. runs = 1 => before.value[k] = Initial(k, variables[k])
    BY DEF ValuesInv, EnvInv
  <2>4. variables \in Environments
    BY DEF ValuesInv, Shape
  <2> QED BY <2>1, <2>2, <2>3, <2>4, InitialValue
<1> QED BY Invariance, <1>1, PTL

\* Until a line is accepted valueSetFromEnv says that the value is one of the
\* environment (mkOpt and mkArg).
THEOREM EnvironmentFlag == Spec => []EnvironmentFlagIsTrue
<1>1. ValuesInv => EnvironmentFlagIsTrue
  <2> SUFFICES ASSUME ValuesInv, NEW k \in declared, outcome = "declaring", runs = 1
               PROVE  (fromEnv[k] <=> FromVar(k) # {}) /\ (fromEnv[k] => value[k] \in FromVar(k))
    BY DEF EnvironmentFlagIsTrue
  <2>1. value[k] = Initial(k, variables[k]) /\ (fromEnv[k] <=> FirstUsable(k, variables[k]) > 0)
    BY DEF ValuesInv, EnvInv
  <2>2. k \in Keys /\ variables \in Environments
    BY DEF ValuesInv, Shape
  <2> QED BY <2>1, <2>2, InitialValue
<1> QED BY Invariance, <1>1, PTL

\* SetByUser tells the values that this line or an earlier one gave from all others
\* (state.parse).
THEOREM UserFlag == Spec => []ByUserIsTrue
<1>1. ValuesInv => ByUserIsTrue
  <2> SUFFICES ASSUME ValuesInv PROVE ByUserIsTrue
    OBVIOUS
  <2>1. ASSUME outcome # "declaring", NEW k \in Keys, byUser[k] PROVE before.byUser[k] \/ Says(k)
    BY <2>1 DEF ValuesInv, Shape, LineInv, UserInv
  <2>2. ASSUME outcome = "ok", NEW k \in Flagged PROVE byUser[k] <=> before.byUser[k] \/ Given(k)
    BY <2>2, KeysAssumption DEF ValuesInv, Shape, UserInv, Visited, Given
  <2> QED BY <2>1, <2>2 DEF ByUserIsTrue
<1> QED BY Invariance, <1>1, PTL

\* A text that does not convert leaves at most one value half set (state.parse).
THEOREM OneBroken == Spec => []AtMostOneBroken
<1>1. ValuesInv => AtMostOneBroken
  BY DEF ValuesInv, LineInv
<1> QED BY Invariance, <1>1, PTL

(***************************************************************************)
(* The types.                                                              *)
(***************************************************************************)

\* What a key may hold: elements that its kind converts to, or those of its default,
\* and one of them if its kind is single-valued.
Holds(k, v) == \A i \in DOMAIN v : v[i] \in Range(Converts[Kind[k]]) \cup ToSet(Default[k])
Fits(k, v)  == Holds(k, v) /\ (~IsMulti(k) => Len(v) = 1)

TypeInv ==
  /\ \A k \in Keys : Fits(k, value[k])
  /\ DOMAIN context \subseteq Keys
  /\ runs \in 1 .. MaxRuns

\* The texts before the first that is not accepted are accepted.
LEMMA GoodTexts ==
  ASSUME NEW k, NEW S, NEW ts \in Seq(S)
  PROVE  /\ Good(k, ts) \in Seq(S)
         /\ \A i \in 1 .. Len(Good(k, ts)) : Accepts(k, Good(k, ts)[i])
<1> DEFINE I == {i \in 1 .. Len(ts) : ~Accepts(k, ts[i])}
           m == Min(I)
<1>1. Bad(k, ts) = IF I # {} THEN m ELSE 0
  BY DEF Bad, SelectInSeq
<1>2. Len(ts) \in Nat /\ \A i \in 1 .. Len(ts) : ts[i] \in S
  BY LenProperties, ElementOfSeq
<1>3. CASE I = {}
  BY <1>1, <1>3 DEF Good
<1>4. CASE I # {}
  <2>1. m \in I /\ \A y \in I : m <= y
    <3>1. I \subseteq Nat
      BY <1>2
    <3> HIDE DEF I
    <3> QED BY <1>4, <3>1, LeastNumber
  <2>2. m \in 1 .. Len(ts) /\ \A i \in 1 .. Len(ts) : i < m => Accepts(k, ts[i])
    <3>1. m \in 1 .. Len(ts)
      BY <2>1
    <3>2. \A i \in 1 .. Len(ts) : i < m => ~(m <= i)
      <4> HIDE DEF m
      <4> QED BY <1>2, <3>1
    <3> QED BY <2>1, <3>1, <3>2
  <2>3. Good(k, ts) = SubSeq(ts, 1, m - 1)
    <3>1. m # 0
      <4> HIDE DEF m
      <4> QED BY <2>2
    <3> HIDE DEF I, m
    <3> QED BY <1>1, <1>4, <3>1 DEF Good
  <2> HIDE DEF m, I
  <2>4. m - 1 \in Nat /\ \A i \in 1 .. m - 1 : i \in 1 .. Len(ts) /\ i < m
    BY <1>2, <2>2
  <2>5. /\ SubSeq(ts, 1, m - 1) \in Seq(S) /\ Len(SubSeq(ts, 1, m - 1)) = m - 1
        /\ \A i \in 1 .. m - 1 : SubSeq(ts, 1, m - 1)[i] = ts[i]
    BY <1>2, <2>4, SubSeqProperties
  <2> QED BY <2>2, <2>3, <2>4, <2>5
<1> QED BY <1>3, <1>4

\* An accepted text sets an element of its kind.
LEMMA ElementHeld ==
  ASSUME NEW k \in Keys, NEW t, Accepts(k, t)
  PROVE  Element(k, t) \in Range(Converts[Kind[k]])
<1>1. Element(k, t) = Converts[Kind[k]][t] /\ t \in DOMAIN Converts[Kind[k]]
  BY ElementIsText DEF Accepts, Text
<1> QED BY <1>1 DEF Range

\* Texts set on what the key may hold leave what it may hold.
LEMMA SetAllFits ==
  ASSUME NEW k \in Keys, NEW S, NEW ts \in Seq(S), NEW v, Holds(k, v), IsMulti(k) => v = <<>>,
         ~IsMulti(k) => Len(v) = 1 \/ Good(k, ts) # <<>>
  PROVE  Fits(k, SetAll(k, v, ts))
<1> DEFINE good == Good(k, ts)
           new  == Elements(k, good)
           R    == Range(Converts[Kind[k]])
<1>1. good \in Seq(S) /\ \A i \in 1 .. Len(good) : Element(k, good[i]) \in R
  BY GoodTexts, ElementHeld
<1>2. Len(good) \in Nat /\ DOMAIN good = 1 .. Len(good)
  BY <1>1, LenProperties
<1> HIDE DEF good
<1>3. CASE good = <<>>
  BY <1>3 DEF SetAll, Fits, good
<1>4. CASE good # <<>> /\ IsMulti(k)
  <2>1. new = [i \in 1 .. Len(good) |-> Element(k, good[i])]
    BY <1>2 DEF Elements
  <2>2. new \in Seq(R) /\ Len(new) = Len(good)
    BY <1>1, <1>2, <2>1
  <2>3. SetAll(k, v, ts) = new
    <3>1. <<>> \o new = new
      BY <2>2, ConcatEmptySeq
    <3> QED BY <1>4, <3>1 DEF SetAll, good
  <2>4. \A i \in DOMAIN new : new[i] \in R
    BY <1>1, <1>2, <2>1
  <2> QED BY <1>4, <2>3, <2>4 DEF Fits, Holds
<1>5. CASE good # <<>> /\ ~IsMulti(k)
  <2>1. Len(good) \in 1 .. Len(good)
    BY <1>1, <1>2, <1>5, EmptySeq
  <2>2. Element(k, Last(good)) \in R
    BY <1>1, <2>1 DEF Last
  <2>3. SetAll(k, v, ts) = <<Element(k, Last(good))>>
    BY <1>5 DEF SetAll, good
  <2>4. \A e : Len(<<e>>) = 1 /\ DOMAIN <<e>> = {1} /\ <<e>>[1] = e
    OBVIOUS
  <2> QED BY <1>5, <2>2, <2>3, <2>4 DEF Fits, Holds
<1> QED BY <1>3, <1>4, <1>5

\* So does what a key is initialized to.
LEMMA InitialFits ==
  ASSUME NEW k \in Keys, variables \in Environments, Fits(k, Default[k])
  PROVE  Fits(k, Initial(k, variables[k]))
<1> DEFINE vs == variables[k]
           first == FirstUsable(k, vs)
<1>1. vs \in Seq(Seq(Texts))
  BY EnvironmentsAssumption
<1> HIDE DEF vs
<1>2. Fits(k, <<>>) \/ ~IsMulti(k)
  BY DEF Fits, Holds
<1>3. CASE first > 0
  <2> DEFINE var == vs[first]
             T   == Texts \cup {Trimmed[var[i]] : i \in 1 .. Len(var)}
  <2>1. first \in 1 .. Len(vs) /\ Usable(k, var)
    BY <1>1, <1>3, UsableVariable
  <2>2. var \in Seq(Texts)
    BY <1>1, <2>1, ElementOfSeq
  <2>3. Parts(k, var) \in Seq(T) /\ Len(Parts(k, var)) = Len(var)
    BY <2>2, PartsOfVariable
  <2> HIDE DEF var, T
  <2>4. Parts(k, var) # <<>> /\ Bad(k, Parts(k, var)) = 0
    BY <2>1, <2>2, <2>3, EmptySeq DEF Usable
  <2>5. Good(k, Parts(k, var)) # <<>>
    BY <2>4 DEF Good
  <2>6. Holds(k, <<>>)
    BY DEF Holds
  <2>7. Fits(k, SetAll(k, <<>>, Parts(k, var)))
    BY <2>3, <2>5, <2>6, SetAllFits
  <2> QED BY <1>3, <2>7 DEF Initial, var, vs
<1>4. CASE ~(first > 0)
  BY <1>2, <1>4 DEF Initial, vs
<1> QED BY <1>3, <1>4

LEMMA DefaultFits == ASSUME NEW k \in Keys PROVE Fits(k, Default[k])
BY KeysAssumption DEF Fits, Holds, IsMulti, ToSet

LEMMA StepTypes == ASSUME ValuesInv, TypeInv, [Next]_vars PROVE TypeInv'
<1>1. DOMAIN value = Keys /\ variables \in Environments
  BY DEF ValuesInv, Shape
<1>2. ASSUME NEW k \in Keys, Declare(k) PROVE TypeInv'
  <2>1. value' = [value EXCEPT ![k] = Initial(k, variables[k])] /\ UNCHANGED <<context, runs>>
    BY <1>2 DEF Declare, line
  <2>2. Fits(k, Initial(k, variables[k]))
    BY <1>1, DefaultFits, InitialFits
  <2> QED BY <1>1, <2>1, <2>2 DEF TypeInv, Fits, Holds
<1>3. ASSUME NEW k \in Keys, Fill(k) PROVE TypeInv'
  <2>1. value' = [value EXCEPT ![k] = SetAll(k, Cleared(k), context[k])] /\ UNCHANGED <<context, runs>>
    BY <1>3 DEF Fill
  <2>2. context[k] \in Seq(Texts)
    BY <1>3, ContextsAssumption DEF ValuesInv, Shape, Fill
  <2>3. Fits(k, value[k])
    BY DEF TypeInv
  <2>4. Holds(k, Cleared(k)) /\ (IsMulti(k) => Cleared(k) = <<>>) /\ (~IsMulti(k) => Len(Cleared(k)) = 1)
    BY <2>3 DEF Cleared, Fits, Holds
  <2>5. Fits(k, SetAll(k, Cleared(k), context[k]))
    BY <2>2, <2>4, SetAllFits
  <2> QED BY <1>1, <2>1, <2>5 DEF TypeInv, Fits, Holds
<1>4. CASE Accepted
  <2>1. PICK c \in Contexts \cup Later : context' = c
    BY <1>4 DEF Accepted
  <2>2. DOMAIN c \subseteq Keys
    BY <2>1, ContextsAssumption
  <2> QED BY <1>4, <2>1, <2>2 DEF Accepted, TypeInv, Fits, Holds
<1>5. CASE Return
  BY <1>5 DEF Return, TypeInv, Fits, Holds
<1>6. CASE Again
  <2>1. runs' \in 1 .. MaxRuns
    BY <1>6, RunsAssumption DEF Again, TypeInv
  <2>2. DOMAIN context' = {}
    BY <1>6 DEF Again
  <2>3. value' = value
    BY <1>6 DEF Again
  <2> QED BY <2>1, <2>2, <2>3 DEF TypeInv, Fits, Holds
<1>7. CASE UNCHANGED vars
  BY <1>7 DEF vars, line, TypeInv, Fits, Holds
<1> QED BY <1>2, <1>3, <1>4, <1>5, <1>6, <1>7 DEF Next, Terminated

\* A value holds what its kind converts to or its default, a single-valued one one
\* element, whatever was refused half way (mkOpt, mkArg, state.parse).
THEOREM TypeCorrect == Spec => []TypeOK
<1>1. Init => TypeInv
  <2> SUFFICES ASSUME Init PROVE TypeInv
    OBVIOUS
  <2>1. value = Default /\ DOMAIN context = {} /\ runs = 1
    BY DEF Init
  <2> QED BY <2>1, DefaultFits, RunsAssumption DEF TypeInv
<1>2. ValuesInv /\ TypeInv /\ [Next]_vars => TypeInv'
  BY StepTypes
<1>3. ValuesInv /\ TypeInv => TypeOK
  BY DEF ValuesInv, Shape, TypeInv, Fits, Holds, TypeOK
<1> QED BY Invariance, <1>1, <1>2, <1>3, PTL DEF Spec
=============================================================================
