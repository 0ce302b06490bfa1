-------------------------- MODULE SimplifyProofs --------------------------
(***************************************************************************)
(* Theorems about Simplify, for every set of automata.                     *)
(***************************************************************************)
EXTENDS Simplify, Facts

(***************************************************************************)
(* Lemmas about the operators the model is built from.                     *)
(***************************************************************************)

\* AddMissing makes a slice with the transitions of both.
LEMMA Added ==
  ASSUME NEW E, NEW ts \in Seq(E), NEW from \in Seq(E)
  PROVE  /\ AddMissing(ts, from) \in Seq(E)
         /\ ToSet(AddMissing(ts, from)) = ToSet(ts) \cup ToSet(from)
<1> DEFINE l    == Len(from)
           IsNew(n) == /\ from[n] \notin ToSet(ts)
                       /\ \A j \in 1 .. n - 1 : from[j] # from[n]
           new  == {n \in DOMAIN from : IsNew(n)}
           c    == Cardinality(new)
           more == Chosen(from, new)
<1>1. AddMissing(ts, from) = ts \o more
  BY DEF AddMissing
<1>2. /\ l \in Nat /\ DOMAIN from = 1 .. l
      /\ ToSet(from) = {from[n] : n \in 1 .. l} /\ ToSet(from) \subseteq E
  BY Members
<1>3. new \in SUBSET (1 .. l)
  BY <1>2
<1> HIDE DEF new
<1>4. /\ more \in Seq(E) /\ Len(more) = c
      /\ ToSet(more) = {from[n] : n \in new}
  <2>1. new \in SUBSET DOMAIN from
    BY <1>2, <1>3
  <2> QED BY <2>1, ChosenElements
<1>5. c \in Nat
  BY <1>4, LenProperties
<1> HIDE DEF c, l, more
<1>6. ts \o more \in Seq(E) /\ ToSet(ts \o more) = ToSet(ts) \cup ToSet(more)
  BY <1>4, Concatenated
<1>7. ToSet(more) \subseteq ToSet(from)
  BY <1>2, <1>3, <1>4
<1>8. ToSet(from) \subseteq ToSet(ts) \cup ToSet(more)
  <2> SUFFICES ASSUME NEW n \in 1 .. l, from[n] \notin ToSet(ts)
               PROVE  from[n] \in ToSet(more)
    BY <1>2
  <2> DEFINE A == {j \in 1 .. l : from[j] = from[n]}
             x == Min(A)
  <2>1. A \subseteq Nat /\ A # {}
    BY <1>2
  <2> HIDE DEF A
  <2>2. x \in A /\ \A y \in A : x <= y
    BY <2>1, LeastNumber
  <2> HIDE DEF x
  <2>3. x \in 1 .. l /\ from[x] = from[n]
    BY <2>2 DEF A
  <2>4. \A j \in 1 .. x - 1 : from[j] # from[x]
    <3> SUFFICES ASSUME NEW j \in 1 .. x - 1, from[j] = from[x] PROVE FALSE
      OBVIOUS
    <3>1. j \in A /\ ~(x <= j)
      BY <1>2, <2>3 DEF A
    <3> QED BY <2>2, <3>1
  <2>5. x \in new
    BY <1>2, <2>3, <2>4 DEF new
  <2> QED BY <1>4, <2>3, <2>5
<1> QED BY <1>1, <1>6, <1>7, <1>8

\* Cutting out a transition takes nothing else away.
LEMMA CutOut ==
  ASSUME NEW E, NEW ts \in Seq(E), NEW idx \in 1 .. Len(ts)
  PROVE  Cut(ts, idx) \in Seq(E) /\ ToSet(Cut(ts, idx)) \cup {ts[idx]} = ToSet(ts)
<1> DEFINE n == Len(ts)
           a == SubSeq(ts, 1, idx - 1)
           b == SubSeq(ts, idx + 1, n)
           s == a \o b
<1>1. Cut(ts, idx) = s
  BY DEF Cut, RemoveAt
<1>2. n \in Nat /\ idx \in 1 .. n /\ \A i \in 1 .. n : ts[i] \in E
  BY LenProperties, ElementOfSeq
<1>3. a \in Seq(E) /\ Len(a) = idx - 1 /\ \A i \in 1 .. idx - 1 : a[i] = ts[i]
  <2> HIDE DEF n
  <2>1. \A i \in 1 .. idx - 1 : ts[i] \in E
    BY <1>2
  <2>2. /\ a \in Seq(E) /\ Len(a) = IF 1 <= idx - 1 THEN idx - 1 - 1 + 1 ELSE 0
        /\ \A i \in 1 .. idx - 1 - 1 + 1 : a[i] = ts[1 + i - 1]
    BY <1>2, <2>1, SubSeqProperties
  <2> HIDE DEF a
  <2>3. Len(a) = idx - 1
    BY <1>2, <2>2
  <2>4. ASSUME NEW i \in 1 .. idx - 1 PROVE a[i] = ts[i]
    <3>1. i \in 1 .. idx - 1 - 1 + 1 /\ 1 + i - 1 = i
      BY <1>2
    <3> QED BY <2>2, <3>1
  <2> QED BY <2>2, <2>3, <2>4
<1>4. b \in Seq(E) /\ Len(b) = n - idx /\ \A i \in 1 .. n - idx : b[i] = ts[idx + i]
  <2> HIDE DEF n
  <2>1. \A i \in idx + 1 .. n : ts[i] \in E
    BY <1>2
  <2>2. /\ b \in Seq(E) /\ Len(b) = IF idx + 1 <= n THEN n - (idx + 1) + 1 ELSE 0
        /\ \A i \in 1 .. n - (idx + 1) + 1 : b[i] = ts[(idx + 1) + i - 1]
    BY <1>2, <2>1, SubSeqProperties
  <2> HIDE DEF b
  <2>3. Len(b) = n - idx
    BY <1>2, <2>2
  <2>4. ASSUME NEW i \in 1 .. n - idx PROVE b[i] = ts[idx + i]
    <3>1. i \in 1 .. n - (idx + 1) + 1 /\ (idx + 1) + i - 1 = idx + i
      BY <1>2
    <3> QED BY <2>2, <3>1
  <2> QED BY <2>2, <2>3, <2>4
<1> HIDE DEF a, b, n
<1>5. /\ s \in Seq(E) /\ Len(s) = n - 1
      /\ \A i \in 1 .. n - 1 : s[i] = IF i <= idx - 1 THEN ts[i] ELSE ts[i + 1]
  <2>0. /\ s \in Seq(E) /\ Len(s) = Len(a) + Len(b)
        /\ \A i \in 1 .. Len(a) + Len(b) :
             s[i] = IF i <= Len(a) THEN a[i] ELSE b[i - Len(a)]
    BY <1>3, <1>4, ConcatProperties
  <2> HIDE DEF s
  <2>1. /\ s \in Seq(E) /\ Len(s) = (idx - 1) + (n - idx)
        /\ \A i \in 1 .. (idx - 1) + (n - idx) :
             s[i] = IF i <= idx - 1 THEN a[i] ELSE b[i - (idx - 1)]
    BY <1>3, <1>4, <2>0
  <2>2. (idx - 1) + (n - idx) = n - 1
    BY <1>2
  <2>3. ASSUME NEW i \in 1 .. n - 1 PROVE s[i] = IF i <= idx - 1 THEN ts[i] ELSE ts[i + 1]
    <3>1. s[i] = IF i <= idx - 1 THEN a[i] ELSE b[i - (idx - 1)]
      BY <2>1, <2>2
    <3>2. CASE i <= idx - 1
      BY <1>2, <1>3, <3>1, <3>2
    <3>3. CASE ~(i <= idx - 1)
      <4>1. i - (idx - 1) \in 1 .. n - idx /\ idx + (i - (idx - 1)) = i + 1
        BY <1>2, <3>3
      <4> QED BY <1>4, <3>1, <3>3, <4>1
    <3> QED BY <3>2, <3>3
  <2> QED BY <2>1, <2>2, <2>3
<1> HIDE DEF s
<1>6. ToSet(s) = {s[i] : i \in 1 .. n - 1} /\ ToSet(ts) = {ts[i] : i \in 1 .. n}
  BY <1>5, Members DEF n
<1>7. ToSet(s) \subseteq ToSet(ts) /\ ts[idx] \in ToSet(ts)
  <2>1. \A i \in 1 .. n - 1 : i \in 1 .. n /\ i + 1 \in 1 .. n
    BY <1>2
  <2> QED BY <1>2, <1>5, <1>6, <2>1
<1>8. ASSUME NEW i \in 1 .. n, i # idx PROVE ts[i] \in ToSet(s)
  <2>1. CASE i <= idx - 1
    <3>1. i \in 1 .. n - 1
      BY <1>2, <2>1
    <3> QED BY <1>5, <1>6, <2>1, <3>1
  <2>2. CASE ~(i <= idx - 1)
    <3>1. i - 1 \in 1 .. n - 1 /\ ~(i - 1 <= idx - 1) /\ (i - 1) + 1 = i
      BY <1>2, <1>8, <2>2
    <3>2. s[i - 1] = ts[i]
      BY <1>5, <3>1
    <3> QED BY <1>6, <3>1, <3>2
  <2> QED BY <2>1, <2>2
<1> QED BY <1>1, <1>5, <1>6, <1>7, <1>8

\* FirstShortcut finds a shortcut if there is one.
LEMMA ShortcutFound ==
  ASSUME NEW E, NEW ts \in Seq(E)
  PROVE  /\ FirstShortcut(ts) # 0 => /\ FirstShortcut(ts) \in 1 .. Len(ts)
                                     /\ IsShortcut(ts[FirstShortcut(ts)])
         /\ FirstShortcut(ts) = 0 => \A t \in ToSet(ts) : ~IsShortcut(t)
<1> DEFINE I == {i \in 1 .. Len(ts) : IsShortcut(ts[i])}
<1>1. FirstShortcut(ts) = IF I # {} THEN Min(I) ELSE 0
  BY DEF FirstShortcut, SelectInSeq
<1>2. I \subseteq Nat /\ 0 \notin I /\ ToSet(ts) = {ts[i] : i \in 1 .. Len(ts)}
  BY Members
<1>3. I # {} => Min(I) \in I
  <2> HIDE DEF I
  <2> QED BY <1>2, LeastNumber
<1> QED BY <1>1, <1>2, <1>3

(***************************************************************************)
(* Type correctness.                                                       *)
(***************************************************************************)
Calls(v) == [s : v, over : Seq(Edges(built)), i : Nat \ {0}]

TypeInv == built \in Built /\ TypeOK

\* An automaton of Built is a function from its states to slices of its edges.
LEMMA BuiltIsTyped ==
  ASSUME built \in Built
  PROVE  /\ built.tr \in [States(built) -> Seq(Edges(built))]
         /\ \A t \in Edges(built) : t.next \in States(built)
         /\ built.start \in States(built) /\ built.terminal \subseteq States(built)
<1>1. built.tr \in Seq(Seq(Edges(built)))
  BY BuiltAssumption DEF WellFormed
<1>2. built.tr \in [1 .. Len(built.tr) -> Seq(Edges(built))]
  BY <1>1, LenProperties
<1> QED BY <1>2, BuiltAssumption DEF States, WellFormed

\* The running call of simplify, and the calls that wait for it.
LEMMA TopAndPop ==
  ASSUME TypeOK, walk # <<>>
  PROVE  /\ Len(walk) \in Nat /\ Len(walk) > 0 /\ DOMAIN walk = 1 .. Len(walk)
         /\ TopCall \in Calls(visited) /\ TopCall = walk[Len(walk)]
         /\ Pop \in Seq(Calls(visited)) /\ Len(Pop) = Len(walk) - 1
         /\ \A k \in 1 .. Len(walk) - 1 : Pop[k] = walk[k]
<1>1. walk \in Seq(Calls(visited))
  BY DEF TypeOK, Calls
<1>2. Pop = Popped(walk)
  BY DEF Pop, Popped
<1> QED BY <1>1, <1>2, PoppedStack, LenProperties DEF TopCall

\* What a call of the loop leaves on the stack: the running call moves on to the
\* next transition, and a state met for the first time gets a call of its own.
LEMMA Descends ==
  ASSUME TypeInv, Descend, NEW next, next = TopCall.over[TopCall.i].next,
         NEW n, n = Len(walk)
  PROVE  /\ n \in Nat /\ n > 0 /\ n = Len(walk)
         /\ TopCall.i \in 1 .. Len(TopCall.over)
         /\ next \in States(built) /\ visited' = visited \cup {next}
         /\ walk' \in Seq(Calls(visited'))
         /\ Len(walk') = IF next \in visited THEN n ELSE n + 1
         /\ \A k \in 1 .. n - 1 : walk'[k] = walk[k]
         /\ walk'[n] = [TopCall EXCEPT !.i = @ + 1]
         /\ next \notin visited => walk'[n + 1] = Call(next)
<1> DEFINE moved == [TopCall EXCEPT !.i = @ + 1]
           here  == Append(Pop, moved)
<1>1. /\ walk # <<>> /\ TypeOK /\ built \in Built
      /\ TopCall.i <= Len(TopCall.over)
      /\ walk' = IF next \in visited THEN here ELSE Append(here, Call(next))
      /\ visited' = visited \cup {next}
  BY DEF Descend, Over, TypeInv
<1>2. /\ n \in Nat /\ n > 0 /\ TopCall \in Calls(visited)
      /\ Pop \in Seq(Calls(visited)) /\ Len(Pop) = n - 1
      /\ \A k \in 1 .. n - 1 : Pop[k] = walk[k]
  BY <1>1, TopAndPop
<1>3. TopCall.i \in Nat \ {0} /\ TopCall.over \in Seq(Edges(built)) /\ TopCall.s \in visited
  BY <1>2 DEF Calls
<1>4. TopCall.i \in 1 .. Len(TopCall.over)
  BY <1>1, <1>3, LenProperties
<1>5. TopCall.over[TopCall.i] \in Edges(built)
  BY <1>3, <1>4, ElementOfSeq
<1>6. next \in States(built)
  BY <1>1, <1>5, BuiltIsTyped
<1>7. moved \in Calls(visited') /\ Calls(visited) \subseteq Calls(visited')
  BY <1>1, <1>2 DEF Calls
<1>8. Pop \in Seq(Calls(visited'))
  BY <1>2, <1>7, SeqMonotonic
<1>9. Call(next) \in Calls(visited')
  <2>1. tr[next] \in Seq(Edges(built))
    BY <1>1, <1>6 DEF TypeOK
  <2> QED BY <1>1, <2>1 DEF Call, Calls
<1> HIDE DEF moved
<1>10. /\ here \in Seq(Calls(visited')) /\ Len(here) = n
       /\ \A k \in 1 .. n - 1 : here[k] = walk[k]
       /\ here[n] = moved
  <2>1. /\ here \in Seq(Calls(visited')) /\ Len(here) = Len(Pop) + 1
        /\ \A k \in 1 .. Len(Pop) : here[k] = Pop[k]
        /\ here[Len(Pop) + 1] = moved
    BY <1>7, <1>8, AppendProperties
  <2> QED BY <1>2, <2>1
<1> HIDE DEF here
<1>11. CASE next \in visited
  BY <1>1, <1>2, <1>4, <1>6, <1>10, <1>11 DEF moved
<1>12. CASE next \notin visited
  <2>1. /\ walk' \in Seq(Calls(visited')) /\ Len(walk') = n + 1
        /\ \A k \in 1 .. n : walk'[k] = here[k]
        /\ walk'[n + 1] = Call(next)
    BY <1>1, <1>9, <1>10, <1>12, AppendProperties
  <2>2. \A k \in 1 .. n - 1 : walk'[k] = walk[k]
    BY <1>2, <1>10, <2>1
  <2>3. walk'[n] = moved
    BY <1>2, <1>10, <2>1
  <2> QED BY <1>1, <1>2, <1>4, <1>6, <1>12, <2>1, <2>2, <2>3 DEF moved
<1> QED BY <1>11, <1>12

\* The end of a call: no shortcut is left in its state.
Ends == /\ walk' = Pop /\ UNCHANGED <<tr, terminal, crashed>>
        /\ \A t \in ToSet(tr[TopCall.s]) : ~IsShortcut(t)

\* The removal of the shortcut t from the state s: R is what is left of its
\* transitions, and those of the state the shortcut leads to join them.
Removes(s, t, R) ==
  /\ t \in Edges(built) /\ IsShortcut(t)
  /\ R \cup {t} = ToSet(tr[s])
  /\ tr' \in [States(built) -> Seq(Edges(built))]
  /\ \A u \in States(built) \ {s} : tr'[u] = tr[u]
  /\ ToSet(tr'[s]) = R \cup IF t.next = s THEN R ELSE ToSet(tr[t.next])
  /\ terminal' = IF t.next \in terminal THEN terminal \cup {s} ELSE terminal
  /\ walk' = walk

\* simplifySelf ends a call or removes a shortcut from its state.
LEMMA SelfEndsOrRemoves ==
  ASSUME TypeInv, SimplifySelf
  PROVE  /\ walk # <<>> /\ TopCall.s \in States(built)
         /\ UNCHANGED <<built, visited>> /\ crashed' \in BOOLEAN
         /\ TopCall.i > Len(TopCall.over)
         /\ Ends \/ \E t, R : Removes(TopCall.s, t, R)
<1> DEFINE s   == TopCall.s
           idx == FirstShortcut(tr[s])
           t   == tr[s][idx]
           rest == Cut(tr[s], idx)
           from == IF t.next = s THEN rest ELSE tr[t.next]
<1>1. /\ walk # <<>> /\ TypeOK /\ built \in Built /\ crashed \in BOOLEAN
      /\ UNCHANGED <<built, visited>> /\ TopCall.i > Len(TopCall.over)
  BY DEF SimplifySelf, Over, TypeInv, TypeOK
<1>2. s \in visited
  BY <1>1, TopAndPop DEF Calls
<1>3. /\ s \in States(built) /\ tr \in [States(built) -> Seq(Edges(built))]
      /\ tr[s] \in Seq(Edges(built))
  BY <1>1, <1>2 DEF TypeOK
<1>4. CASE idx = 0
  <2>1. walk' = Pop /\ UNCHANGED <<tr, terminal, crashed>>
    BY <1>4 DEF SimplifySelf
  <2>2. \A u \in ToSet(tr[s]) : ~IsShortcut(u)
    BY <1>3, <1>4, ShortcutFound
  <2> QED BY <1>1, <1>3, <2>1, <2>2 DEF Ends
<1>5. CASE idx # 0
  <2>1. /\ crashed' = AdditionPanics(rest, from)
        /\ tr' = [tr EXCEPT ![s] = AddMissing(rest, from)]
        /\ terminal' = Inherit(s, t.next)
        /\ walk' = CallsAgain
    BY <1>5 DEF SimplifySelf
  <2>2. idx \in 1 .. Len(tr[s]) /\ IsShortcut(t)
    BY <1>3, <1>5, ShortcutFound
  <2>3. t \in Edges(built) /\ t.next \in States(built)
    BY <1>1, <1>3, <2>2, ElementOfSeq, BuiltIsTyped
  <2>4. rest \in Seq(Edges(built)) /\ ToSet(rest) \cup {t} = ToSet(tr[s])
    BY <1>3, <2>2, CutOut
  <2>5. from \in Seq(Edges(built))
    BY <1>3, <2>3, <2>4
  <2> HIDE DEF idx, t, rest, from
  <2>6. /\ AddMissing(rest, from) \in Seq(Edges(built))
        /\ ToSet(AddMissing(rest, from)) = ToSet(rest) \cup ToSet(from)
    BY <2>4, <2>5, Added
  <2>7. /\ tr' \in [States(built) -> Seq(Edges(built))]
        /\ \A u \in States(built) \ {s} : tr'[u] = tr[u]
        /\ tr'[s] = AddMissing(rest, from)
    BY <1>3, <2>1, <2>6
  <2>8. ToSet(from) = IF t.next = s THEN ToSet(rest) ELSE ToSet(tr[t.next])
    BY DEF from
  <2>9. /\ walk' = walk /\ crashed' \in BOOLEAN
        /\ terminal' = IF t.next \in terminal THEN terminal \cup {s} ELSE terminal
    BY <2>1 DEF CallsAgain, Inherit, AdditionPanics
  <2>10. Removes(s, t, ToSet(rest))
    BY <2>2, <2>3, <2>4, <2>6, <2>7, <2>8, <2>9 DEF Removes, t
  <2> QED BY <1>1, <1>3, <2>9, <2>10
<1> QED BY <1>4, <1>5

\* The initial values have their types.
LEMMA TypeCorrectInit == Init => TypeInv
<1> SUFFICES ASSUME Init PROVE TypeInv
  OBVIOUS
<1>1. /\ built \in Built /\ tr = built.tr /\ terminal = built.terminal
      /\ visited = {built.start} /\ crashed = FALSE
      /\ walk = <<[s |-> built.start, over |-> built.tr[built.start], i |-> 1]>>
  BY DEF Init
<1>2. [s |-> built.start, over |-> built.tr[built.start], i |-> 1] \in Calls(visited)
  BY <1>1, BuiltIsTyped DEF Calls
<1>3. walk \in Seq(Calls(visited))
  BY <1>1, <1>2
<1> QED BY <1>1, <1>3, BuiltIsTyped DEF TypeInv, TypeOK, Calls

\* Every step keeps the types.
LEMMA TypeCorrectNext == TypeInv /\ [Next]_vars => TypeInv'
<1> SUFFICES ASSUME TypeInv, [Next]_vars PROVE TypeInv'
  OBVIOUS
<1>1. CASE Descend
  <2>1. UNCHANGED <<built, tr, terminal, crashed>>
    BY <1>1 DEF Descend
  <2>2. walk' \in Seq(Calls(visited')) /\ visited' \subseteq States(built)
    <3>1. PICK next, n : next = TopCall.over[TopCall.i].next /\ n = Len(walk)
      OBVIOUS
    <3>2. /\ next \in States(built) /\ visited' = visited \cup {next}
          /\ walk' \in Seq(Calls(visited'))
      BY <1>1, <3>1, Descends
    <3> QED BY <3>2 DEF TypeInv, TypeOK
  <2>3. Calls(visited') = [s : visited', over : Seq(Edges(built')), i : Nat \ {0}]
    BY <2>1 DEF Calls
  <2> QED BY <2>1, <2>2, <2>3 DEF TypeInv, TypeOK
<1>2. CASE SimplifySelf
  <2>1. /\ walk # <<>> /\ UNCHANGED <<built, visited>> /\ crashed' \in BOOLEAN
        /\ TopCall.s \in States(built)
        /\ Ends \/ \E t, R : Removes(TopCall.s, t, R)
    BY <1>2, SelfEndsOrRemoves
  <2>2. CASE Ends
    <3>1. Pop \in Seq(Calls(visited))
      BY <2>1, TopAndPop DEF TypeInv
    <3> QED BY <2>1, <2>2, <3>1 DEF Ends, TypeInv, TypeOK, Calls
  <2>3. ASSUME NEW t, NEW R, Removes(TopCall.s, t, R) PROVE TypeInv'
    BY <2>1, <2>3 DEF Removes, TypeInv, TypeOK
  <2> QED BY <2>1, <2>2, <2>3
<1>3. CASE UNCHANGED vars
  BY <1>3 DEF vars, TypeInv, TypeOK
<1> QED BY <1>1, <1>2, <1>3 DEF Next, Step, Terminated

(***************************************************************************)
(* No shortcut is left.                                                    *)
(***************************************************************************)
Left(s)     == \A k \in DOMAIN walk : walk[k].s # s
Targets(ts) == {t.next : t \in ToSet(ts)}

\* Where the loops under way still have to go.
Pending ==
  UNION {{walk[k].over[j].next : j \in {i \in DOMAIN walk[k].over : i >= walk[k].i}} :
         k \in DOMAIN walk}

\* A set of states the rest of the walk cannot leave.
Encloses(X) ==
  /\ visited \cup Pending \subseteq X
  /\ \A u \in X \ visited : Targets(built.tr[u]) \subseteq X

\* A state the walk has left has no shortcut; one it has not met is as it was
\* built; and a transition of the others leads to where the walk was or will come.
\* (It need not have met the target, nor have it ahead in a loop: a transition
\* copied from a state whose loop is under way may be a shortcut, and its target's
\* transitions are then copied before the target is met.)
CleanInv     == \A s \in visited : Left(s) => \A t \in ToSet(tr[s]) : ~IsShortcut(t)
UntouchedInv == \A u \in States(built) \ visited : tr[u] = built.tr[u]
WayInv       == \A X \in SUBSET States(built) : Encloses(X) =>
                  \A s \in visited : Targets(tr[s]) \subseteq X

WalkInv == TypeInv /\ CleanInv /\ UntouchedInv /\ WayInv

\* The invariant holds initially.
LEMMA WalkInit == Init => WalkInv
<1> SUFFICES ASSUME Init PROVE WalkInv
  OBVIOUS
<1>1. /\ built \in Built /\ tr = built.tr /\ visited = {built.start}
      /\ walk = <<[s |-> built.start, over |-> built.tr[built.start], i |-> 1]>>
  BY DEF Init
<1>2. DOMAIN walk = {1} /\ walk[1].s = built.start
      /\ walk[1].over = built.tr[built.start] /\ walk[1].i = 1
  BY <1>1
<1>3. built.tr[built.start] \in Seq(Edges(built))
  BY <1>1, BuiltIsTyped
<1>4. \A n \in DOMAIN built.tr[built.start] : n >= 1
  BY <1>3, Members
<1>5. Targets(built.tr[built.start]) \subseteq Pending
  BY <1>2, <1>4 DEF Targets, Pending, ToSet
<1> QED BY <1>1, <1>2, <1>5, TypeCorrectInit
        DEF WalkInv, CleanInv, UntouchedInv, WayInv, Encloses, Left

\* What is ahead of the walk does not vanish when a loop takes its next step.
LEMMA PendingDescends ==
  ASSUME TypeInv, Descend, NEW next, next = TopCall.over[TopCall.i].next
  PROVE  /\ Pending \subseteq Pending' \cup {next}
         /\ next \notin visited => Targets(tr[next]) \subseteq Pending'
<1> DEFINE n == Len(walk)
<1>1. /\ n \in Nat /\ n > 0
      /\ next \in States(built)
      /\ walk' \in Seq(Calls(visited'))
      /\ Len(walk') = IF next \in visited THEN n ELSE n + 1
      /\ \A k \in 1 .. n - 1 : walk'[k] = walk[k]
      /\ walk'[n] = [TopCall EXCEPT !.i = @ + 1]
      /\ next \notin visited => walk'[n + 1] = Call(next)
  BY Descends
<1>2. /\ DOMAIN walk = 1 .. n /\ TopCall \in Calls(visited) /\ TopCall = walk[n]
      /\ walk \in Seq(Calls(visited)) /\ tr \in [States(built) -> Seq(Edges(built))]
  BY TopAndPop DEF Descend, Over, TypeInv, TypeOK, Calls
<1> HIDE DEF n
<1>3. DOMAIN walk' = 1 .. Len(walk') /\ 1 .. n \subseteq DOMAIN walk'
  BY <1>1, LenProperties
<1>4. ASSUME NEW k \in 1 .. n, NEW j \in DOMAIN walk[k].over, j >= walk[k].i,
             walk[k].over[j].next # next
      PROVE  walk[k].over[j].next \in Pending'
  <2>1. k \in DOMAIN walk'
    BY <1>3
  <2>2. walk'[k].over = walk[k].over /\ j >= walk'[k].i
    <3>1. CASE k # n
      BY <1>1, <1>4, <3>1
    <3>2. CASE k = n
      <4>1. /\ walk'[n].over = TopCall.over /\ walk'[n].i = TopCall.i + 1
            /\ TopCall.i \in Nat /\ TopCall.over \in Seq(Edges(built))
        BY <1>1, <1>2 DEF Calls
      <4>2. j \in Nat /\ j # TopCall.i
        BY <1>2, <1>4, <3>2, <4>1, Members
      <4> QED BY <1>2, <1>4, <3>2, <4>1, <4>2
    <3> QED BY <3>1, <3>2
  <2> QED BY <2>1, <2>2 DEF Pending
<1>5. Pending \subseteq Pending' \cup {next}
  BY <1>2, <1>4 DEF Pending
<1>6. ASSUME next \notin visited PROVE Targets(tr[next]) \subseteq Pending'
  <2>1. n + 1 \in DOMAIN walk' /\ walk'[n + 1].over = tr[next] /\ walk'[n + 1].i = 1
    BY <1>1, <1>3, <1>6 DEF Call
  <2>2. tr[next] \in Seq(Edges(built))
    BY <1>1, <1>2
  <2>3. \A j \in DOMAIN tr[next] : j >= 1
    BY <2>2, Members
  <2> QED BY <2>1, <2>3 DEF Targets, Pending, ToSet
<1> QED BY <1>5, <1>6

\* Every step keeps the invariant.
LEMMA WalkNext == WalkInv /\ [Next]_vars => WalkInv'
<1> SUFFICES ASSUME WalkInv, [Next]_vars PROVE WalkInv'
  OBVIOUS
<1>1. TypeInv /\ TypeInv'
  BY TypeCorrectNext DEF WalkInv
<1>2. CASE Descend
  <2> DEFINE n == Len(walk)
  <2>1. PICK next : next = TopCall.over[TopCall.i].next
    OBVIOUS
  <2>2. /\ n \in Nat /\ n > 0 /\ next \in States(built)
        /\ visited' = visited \cup {next} /\ walk' \in Seq(Calls(visited'))
        /\ Len(walk') = IF next \in visited THEN n ELSE n + 1
        /\ \A k \in 1 .. n - 1 : walk'[k] = walk[k]
        /\ walk'[n] = [TopCall EXCEPT !.i = @ + 1]
        /\ next \notin visited => walk'[n + 1] = Call(next)
    BY <1>1, <1>2, <2>1, Descends
  <2>3. UNCHANGED <<built, tr>>
    BY <1>2 DEF Descend
  <2>4. /\ DOMAIN walk = 1 .. n /\ TopCall \in Calls(visited) /\ TopCall = walk[n]
        /\ DOMAIN walk' = 1 .. Len(walk')
    BY <1>1, <1>2, <2>2, TopAndPop, LenProperties DEF Descend, Over, TypeInv
  <2> HIDE DEF n
  <2>5. CleanInv'
    <3> SUFFICES ASSUME NEW s \in visited', Left(s)'
                 PROVE  \A t \in ToSet(tr[s]) : ~IsShortcut(t)
      BY <2>3 DEF CleanInv
    <3>1. \A k \in 1 .. n : k \in DOMAIN walk' /\ walk'[k].s = walk[k].s
      <4> TAKE k \in 1 .. n
      <4>1. k \in DOMAIN walk'
        BY <2>2, <2>4
      <4>2. walk'[n].s = walk[n].s
        BY <2>2, <2>4 DEF Calls
      <4>3. k # n => k \in 1 .. n - 1
        BY <2>2
      <4> QED BY <2>2, <4>1, <4>2, <4>3
    <3>2. Left(s)
      BY <2>4, <3>1 DEF Left
    <3>3. s \in visited
      <4>1. next \notin visited => n + 1 \in DOMAIN walk' /\ walk'[n + 1].s = next
        BY <2>2, <2>4 DEF Call
      <4> QED BY <2>2, <4>1 DEF Left
    <3> QED BY <3>2, <3>3 DEF WalkInv, CleanInv
  <2>6. UntouchedInv'
    BY <2>2, <2>3 DEF WalkInv, UntouchedInv
  <2>7. WayInv'
    <3> SUFFICES ASSUME NEW X \in SUBSET States(built), Encloses(X)'
                 PROVE  \A s \in visited' : Targets(tr[s]) \subseteq X
      BY <2>3 DEF WayInv, Targets
    <3>1. /\ Pending \subseteq Pending' \cup {next}
          /\ next \notin visited => Targets(tr[next]) \subseteq Pending'
      BY <1>1, <1>2, <2>1, PendingDescends
    <3>2. /\ visited' \subseteq X /\ Pending' \subseteq X
          /\ \A u \in X \ visited' : Targets(built.tr[u]) \subseteq X
      BY <2>3 DEF Encloses, Targets
    <3>3. next \notin visited => Targets(built.tr[next]) \subseteq X
      BY <2>2, <3>1, <3>2 DEF WalkInv, UntouchedInv
    <3>4. Encloses(X)
      BY <2>2, <3>1, <3>2, <3>3 DEF Encloses
    <3>5. \A s \in visited : Targets(tr[s]) \subseteq X
      BY <3>4 DEF WalkInv, WayInv
    <3> QED BY <2>2, <3>1, <3>2, <3>5
  <2> QED BY <1>1, <2>5, <2>6, <2>7 DEF WalkInv
<1>3. CASE SimplifySelf
  <2> DEFINE s == TopCall.s
  <2>1. /\ walk # <<>> /\ s \in States(built) /\ UNCHANGED <<built, visited>>
        /\ TopCall.i > Len(TopCall.over)
        /\ Ends \/ \E t, R : Removes(s, t, R)
    BY <1>1, <1>3, SelfEndsOrRemoves
  <2>2. /\ Len(walk) \in Nat /\ Len(walk) > 0 /\ DOMAIN walk = 1 .. Len(walk)
        /\ TopCall \in Calls(visited) /\ TopCall = walk[Len(walk)] /\ s \in visited
        /\ Pop \in Seq(Calls(visited)) /\ Len(Pop) = Len(walk) - 1
        /\ \A k \in 1 .. Len(walk) - 1 : Pop[k] = walk[k]
    BY <1>1, <2>1, TopAndPop DEF TypeInv, Calls
  <2>3. CASE Ends
    <3>1. walk' = Pop /\ UNCHANGED tr /\ \A t \in ToSet(tr[s]) : ~IsShortcut(t)
      BY <2>3 DEF Ends
    <3>2. DOMAIN Pop = 1 .. Len(walk) - 1
      BY <2>2, LenProperties
    <3>3. CleanInv'
      <4> SUFFICES ASSUME NEW u \in visited, Left(u)', u # s
                   PROVE  \A t \in ToSet(tr[u]) : ~IsShortcut(t)
        BY <2>1, <3>1 DEF CleanInv
      <4>1. Left(u)
        BY <2>2, <3>1, <3>2 DEF Left
      <4> QED BY <4>1 DEF WalkInv, CleanInv
    <3>4. Pending \subseteq Pending'
      <4> SUFFICES ASSUME NEW k \in 1 .. Len(walk), NEW j \in DOMAIN walk[k].over,
                          j >= walk[k].i
                   PROVE  walk[k].over[j].next \in Pending'
        BY <2>2 DEF Pending
      <4>1. k # Len(walk)
        <5> SUFFICES ASSUME k = Len(walk) PROVE FALSE
          OBVIOUS
        <5>1. TopCall.over \in Seq(Edges(built)) /\ TopCall.i \in Nat
          BY <2>2 DEF Calls
        <5>2. j \in 1 .. Len(TopCall.over) /\ Len(TopCall.over) \in Nat
          BY <2>2, <5>1, Members
        <5>3. j >= TopCall.i
          BY <2>2
        <5> QED BY <2>1, <5>1, <5>2, <5>3
      <4>2. k \in DOMAIN walk' /\ walk'[k] = walk[k]
        <5> DEFINE n == Len(walk)
        <5>1. n \in Nat /\ k \in 1 .. n /\ k # n
          BY <2>2, <4>1
        <5> HIDE DEF n
        <5>2. k \in 1 .. n - 1
          BY <5>1
        <5> QED BY <2>2, <3>1, <3>2, <5>2 DEF n
      <4> QED BY <4>2 DEF Pending
    <3>5. WayInv'
      <4> SUFFICES ASSUME NEW X \in SUBSET States(built), Encloses(X)'
                   PROVE  \A u \in visited : Targets(tr[u]) \subseteq X
        BY <2>1, <3>1 DEF WayInv, Targets
      <4>1. Encloses(X)
        BY <2>1, <3>4 DEF Encloses, Targets
      <4> QED BY <4>1 DEF WalkInv, WayInv
    <3> QED BY <1>1, <2>1, <3>1, <3>3, <3>5 DEF WalkInv, UntouchedInv
  <2>4. ASSUME NEW t, NEW R, Removes(s, t, R) PROVE WalkInv'
    <3> HIDE DEF s
    <3>1. /\ t \in Edges(built) /\ R \cup {t} = ToSet(tr[s])
          /\ \A u \in States(built) \ {s} : tr'[u] = tr[u]
          /\ ToSet(tr'[s]) = R \cup IF t.next = s THEN R ELSE ToSet(tr[t.next])
          /\ walk' = walk
      BY <2>4 DEF Removes
    <3>2. t.next \in States(built) /\ visited \subseteq States(built)
      BY <1>1, <3>1, BuiltIsTyped DEF TypeInv, TypeOK
    <3>3. CleanInv'
      <4>1. \A u : Left(u)' = Left(u)
        BY <3>1 DEF Left
      <4>2. ~Left(s)
        BY <2>2 DEF Left, s
      <4> QED BY <2>1, <3>1, <3>2, <4>1, <4>2 DEF WalkInv, CleanInv
    <3>4. UntouchedInv'
      BY <2>1, <2>2, <3>1, <3>2 DEF WalkInv, UntouchedInv
    <3>5. WayInv'
      <4> SUFFICES ASSUME NEW X \in SUBSET States(built), Encloses(X)'
                   PROVE  \A u \in visited : Targets(tr'[u]) \subseteq X
        BY <2>1 DEF WayInv, Targets
      <4>1. Pending' = Pending
        BY <3>1 DEF Pending
      <4>2. Encloses(X)
        BY <2>1, <4>1 DEF Encloses, Targets
      <4>3. \A u \in visited : Targets(tr[u]) \subseteq X
        BY <4>2 DEF WalkInv, WayInv
      <4>4. t.next \in X
        BY <2>2, <3>1, <4>3 DEF Targets
      <4>5. Targets(tr[t.next]) \subseteq X
        <5>1. CASE t.next \in visited
          BY <4>3, <5>1
        <5>2. CASE t.next \notin visited
          BY <3>2, <4>2, <4>4, <5>2 DEF WalkInv, UntouchedInv, Encloses
        <5> QED BY <5>1, <5>2
      <4>6. \A u \in ToSet(tr'[s]) : u.next \in X
        BY <2>2, <3>1, <4>3, <4>5 DEF Targets
      <4> QED BY <3>1, <3>2, <4>3, <4>6 DEF Targets
    <3> QED BY <1>1, <3>3, <3>4, <3>5 DEF WalkInv
  <2> QED BY <2>1, <2>3, <2>4
<1>4. CASE UNCHANGED vars
  <2>1. UNCHANGED <<built, tr, visited, walk>>
    BY <1>4 DEF vars
  <2>2. Pending' = Pending /\ \A s : Left(s)' = Left(s)
    BY <2>1 DEF Pending, Left
  <2>3. \A X : Encloses(X)' = Encloses(X)
    BY <2>1, <2>2 DEF Encloses, Targets
  <2>4. CleanInv' /\ UntouchedInv'
    BY <2>1, <2>2 DEF WalkInv, CleanInv, UntouchedInv
  <2>5. WayInv'
    BY <2>1, <2>3 DEF WalkInv, WayInv, Targets
  <2> QED BY <1>1, <2>4, <2>5 DEF WalkInv
<1> QED BY <1>2, <1>3, <1>4 DEF Next, Step, Terminated

\* The invariant about the walk says what the walk leaves behind.
LEMMA CleanBehind == WalkInv => LeftClean
<1> SUFFICES ASSUME WalkInv, ~crashed, NEW s \in visited, Left(s),
                    NEW t \in ToSet(tr[s])
             PROVE  ~IsShortcut(t) /\ (Over => t.next \in visited)
  BY DEF LeftClean, Left
<1>1. ~IsShortcut(t)
  BY DEF WalkInv, CleanInv
<1>2. ASSUME Over PROVE t.next \in visited
  <2>1. walk = <<>>
    BY <1>2 DEF Over
  <2>2. Pending = {} /\ visited \in SUBSET States(built)
    BY <2>1 DEF Pending, WalkInv, TypeInv, TypeOK
  <2>3. Encloses(visited)
    BY <2>2 DEF Encloses
  <2>4. Targets(tr[s]) \subseteq visited
    BY <2>2, <2>3 DEF WalkInv, WayInv
  <2> QED BY <2>4 DEF Targets
<1> QED BY <1>1, <1>2

(***************************************************************************)
(* The language.  A language of an automaton gives every state the words   *)
(* it accepts, shortcuts left out; it is closed if it has at least those   *)
(* the transitions and terminal marks ts and term call for.                *)
(***************************************************************************)
Labels    == LabelsOf(Edges(built))
Languages == [States(built) -> SUBSET Seq(Labels)]

Closed(L, ts, term) ==
  \A s \in States(built) :
    /\ s \in term => <<>> \in L[s]
    /\ \A t \in ToSet(ts[s]) : Passing(t, L[t.next]) \subseteq L[s]

\* The words a state accepts: those of the least closed language.
Language(ts, term) ==
  [s \in States(built) |->
     {w \in Seq(Labels) : \A L \in Languages : Closed(L, ts, term) => w \in L[s]}]

\* No step of the walk changes the words a state accepts, however long they are
\* and whatever cycles of shortcuts lead through it.
SameLanguage == Language(tr, terminal) = Language(built.tr, built.terminal)

\* The language of an automaton is closed itself, and every word in it is there
\* because its state is terminal or because of a transition.
LEMMA LanguageIsFixed ==
  ASSUME NEW ts \in [States(built) -> Seq(Edges(built))], NEW term,
         built \in Built, NEW M, M = Language(ts, term)
  PROVE  /\ M \in Languages /\ Closed(M, ts, term)
         /\ \A s \in States(built) : \A w \in M[s] :
              \/ s \in term /\ w = <<>>
              \/ \E t \in ToSet(ts[s]) : w \in Passing(t, M[t.next])
         /\ \A L \in Languages : Closed(L, ts, term) =>
              \A s \in States(built) : M[s] \subseteq L[s]
<1>1. M \in Languages
  BY DEF Language, Languages
<1>2. ASSUME NEW L \in Languages, Closed(L, ts, term), NEW s \in States(built)
      PROVE  M[s] \subseteq L[s]
  BY <1>2 DEF Language
<1>3. ASSUME NEW s \in States(built), NEW t \in ToSet(ts[s])
      PROVE  t \in Edges(built) /\ t.next \in States(built)
  <2>1. ts[s] \in Seq(Edges(built))
    OBVIOUS
  <2> QED BY <2>1, Members, BuiltIsTyped
<1>4. Closed(M, ts, term)
  <2> SUFFICES ASSUME NEW s \in States(built)
               PROVE  /\ s \in term => <<>> \in M[s]
                      /\ \A t \in ToSet(ts[s]) : Passing(t, M[t.next]) \subseteq M[s]
    BY DEF Closed
  <2>1. s \in term => <<>> \in M[s]
    BY DEF Language, Closed
  <2>2. ASSUME NEW t \in ToSet(ts[s]), NEW w \in Passing(t, M[t.next])
        PROVE  w \in M[s]
    <3>1. t \in Edges(built) /\ t.next \in States(built)
      BY <1>3
    <3>2. w \in Seq(Labels)
      BY <1>1, <3>1, PassingWords DEF Languages, Labels
    <3>3. ASSUME NEW L \in Languages, Closed(L, ts, term) PROVE w \in L[s]
      <4>1. M[t.next] \subseteq L[t.next]
        BY <1>2, <3>1, <3>3
      <4>2. Passing(t, M[t.next]) \subseteq Passing(t, L[t.next])
        BY <4>1 DEF Passing
      <4> QED BY <3>3, <4>2 DEF Closed
    <3> QED BY <3>2, <3>3 DEF Language
  <2> QED BY <2>1, <2>2
<1>5. ASSUME NEW s \in States(built), NEW w \in M[s]
      PROVE  \/ s \in term /\ w = <<>>
             \/ \E t \in ToSet(ts[s]) : w \in Passing(t, M[t.next])
  <2> DEFINE Justified(u, v) == \/ u \in term /\ v = <<>>
                                \/ \E t \in ToSet(ts[u]) : v \in Passing(t, M[t.next])
             J == [u \in States(built) |-> {v \in Seq(Labels) : Justified(u, v)}]
  <2>1. J \in Languages /\ \A u \in States(built) : J[u] \subseteq M[u]
    <3>1. J \in Languages
      BY DEF Languages
    <3>2. ASSUME NEW u \in States(built), NEW v \in J[u] PROVE v \in M[u]
      BY <1>4 DEF Closed
    <3> QED BY <3>1, <3>2
  <2>2. Closed(J, ts, term)
    <3> SUFFICES ASSUME NEW u \in States(built)
                 PROVE  /\ u \in term => <<>> \in J[u]
                        /\ \A t \in ToSet(ts[u]) : Passing(t, J[t.next]) \subseteq J[u]
      BY DEF Closed
    <3>1. u \in term => <<>> \in J[u]
      <4>1. <<>> \in Seq(Labels)
        BY EmptySeq
      <4> QED BY <4>1
    <3>2. ASSUME NEW t \in ToSet(ts[u]), NEW v \in Passing(t, J[t.next])
          PROVE  v \in J[u]
      <4>1. t \in Edges(built) /\ t.next \in States(built)
        BY <1>3
      <4>2. Passing(t, J[t.next]) \subseteq Passing(t, M[t.next])
        <5> HIDE DEF J
        <5> QED BY <2>1, <4>1 DEF Passing
      <4>3. v \in Seq(Labels)
        <5> HIDE DEF J
        <5> QED BY <2>1, <4>1, PassingWords DEF Languages, Labels
      <4>4. Justified(u, v)
        BY <4>2
      <4> HIDE DEF Justified
      <4> QED BY <4>3, <4>4
    <3> QED BY <3>1, <3>2
  <2> HIDE DEF J
  <2>3. w \in J[s]
    BY <1>2, <2>1, <2>2
  <2> QED BY <2>3 DEF J
<1> QED BY <1>1, <1>2, <1>4, <1>5

\* The same of the transitions as they are.
LEMMA LanguageOfNow ==
  TypeInv => \A M : M = Language(tr, terminal) =>
    /\ M \in Languages /\ Closed(M, tr, terminal)
    /\ \A s \in States(built) : \A w \in M[s] :
         \/ s \in terminal /\ w = <<>>
         \/ \E t \in ToSet(tr[s]) : w \in Passing(t, M[t.next])
BY LanguageIsFixed DEF TypeInv, TypeOK

\* Removing a shortcut leaves the language as it is: what the shortcut led to is
\* accepted through the copies, and a copy accepts nothing the shortcut did not.
LEMMA RemovalKeeps ==
  ASSUME TypeInv, NEW s \in States(built), NEW t, NEW R, Removes(s, t, R),
         built' = built
  PROVE  Language(tr', terminal') = Language(tr, terminal)
<1> DEFINE A == Language(tr, terminal)
           B == Language(tr', terminal')
<1>1. /\ t \in Edges(built) /\ IsShortcut(t) /\ R \cup {t} = ToSet(tr[s])
      /\ tr \in [States(built) -> Seq(Edges(built))]
      /\ tr' \in [States(built) -> Seq(Edges(built))]
      /\ \A u \in States(built) \ {s} : tr'[u] = tr[u]
      /\ ToSet(tr'[s]) = R \cup IF t.next = s THEN R ELSE ToSet(tr[t.next])
      /\ terminal' = IF t.next \in terminal THEN terminal \cup {s} ELSE terminal
      /\ built \in Built
  BY DEF Removes, TypeInv, TypeOK
<1>2. t.next \in States(built)
  BY <1>1, BuiltIsTyped
<1>3. /\ A \in Languages /\ Closed(A, tr, terminal)
      /\ \A L \in Languages : Closed(L, tr, terminal) =>
           \A u \in States(built) : A[u] \subseteq L[u]
  BY <1>1, LanguageIsFixed
<1>4. /\ B \in Languages /\ Closed(B, tr', terminal')
      /\ \A u \in States(built) : \A w \in B[u] :
           \/ u \in terminal' /\ w = <<>>
           \/ \E e \in ToSet(tr'[u]) : w \in Passing(e, B[e.next])
      /\ \A L \in Languages : Closed(L, tr', terminal') =>
           \A u \in States(built) : B[u] \subseteq L[u]
  <2>1. PICK ts, term : ts = tr' /\ term = terminal'
    OBVIOUS
  <2>2. ts \in [States(built) -> Seq(Edges(built))] /\ B = Language(ts, term)
    BY <1>1, <2>1
  <2> HIDE DEF B
  <2>3. /\ B \in Languages /\ Closed(B, ts, term)
        /\ \A u \in States(built) : \A w \in B[u] :
             \/ u \in term /\ w = <<>>
             \/ \E e \in ToSet(ts[u]) : w \in Passing(e, B[e.next])
        /\ \A L \in Languages : Closed(L, ts, term) =>
             \A u \in States(built) : B[u] \subseteq L[u]
    BY <1>1, <2>2, LanguageIsFixed
  <2> QED BY <2>1, <2>3
<1> HIDE DEF A, B
<1>5. Closed(A, tr', terminal')
  <2>1. A[t.next] \subseteq A[s]
    BY <1>1, <1>3 DEF Closed, Passing
  <2> SUFFICES ASSUME NEW u \in States(built)
               PROVE  /\ u \in terminal' => <<>> \in A[u]
                      /\ \A e \in ToSet(tr'[u]) : Passing(e, A[e.next]) \subseteq A[u]
    BY DEF Closed
  <2>2. u \in terminal' => <<>> \in A[u]
    BY <1>1, <1>2, <1>3, <2>1 DEF Closed
  <2>3. ASSUME NEW e \in ToSet(tr'[u]) PROVE Passing(e, A[e.next]) \subseteq A[u]
    <3>1. CASE e \in ToSet(tr[u])
      BY <1>3, <3>1 DEF Closed
    <3>2. CASE e \notin ToSet(tr[u])
      <4>1. u = s /\ e \in ToSet(tr[t.next])
        BY <1>1, <3>2
      <4> QED BY <1>2, <1>3, <2>1, <4>1 DEF Closed
    <3> QED BY <3>1, <3>2
  <2> QED BY <2>2, <2>3
<1>6. Closed(B, tr, terminal)
  <2>1. B[t.next] \subseteq B[s]
    <3> SUFFICES ASSUME t.next # s, NEW w \in B[t.next] PROVE w \in B[s]
      OBVIOUS
    <3>1. CASE t.next \in terminal' /\ w = <<>>
      BY <1>1, <1>4, <3>1 DEF Closed
    <3>2. ASSUME NEW e \in ToSet(tr'[t.next]), w \in Passing(e, B[e.next])
          PROVE  w \in B[s]
      <4>1. e \in ToSet(tr'[s])
        BY <1>1, <1>2
      <4> QED BY <1>4, <3>2, <4>1 DEF Closed
    <3> QED BY <1>2, <1>4, <3>1, <3>2
  <2> SUFFICES ASSUME NEW u \in States(built)
               PROVE  /\ u \in terminal => <<>> \in B[u]
                      /\ \A e \in ToSet(tr[u]) : Passing(e, B[e.next]) \subseteq B[u]
    BY DEF Closed
  <2>2. u \in terminal => <<>> \in B[u]
    BY <1>1, <1>4 DEF Closed
  <2>3. ASSUME NEW e \in ToSet(tr[u]) PROVE Passing(e, B[e.next]) \subseteq B[u]
    <3>1. CASE e \in ToSet(tr'[u])
      BY <1>4, <3>1 DEF Closed
    <3>2. CASE e \notin ToSet(tr'[u])
      <4>1. u = s /\ e = t
        BY <1>1, <3>2
      <4> QED BY <1>1, <2>1, <4>1 DEF Passing
    <3> QED BY <3>1, <3>2
  <2> QED BY <2>2, <2>3
<1>7. \A u \in States(built) : A[u] = B[u]
  BY <1>3, <1>4, <1>5, <1>6
<1> QED BY <1>3, <1>4, <1>7 DEF A, B, Languages

\* Every step of the walk keeps the language.
LEMMA LanguageNext == TypeInv /\ SameLanguage /\ [Next]_vars => SameLanguage'
<1> SUFFICES ASSUME TypeInv, SameLanguage, [Next]_vars PROVE SameLanguage'
  OBVIOUS
<1>1. built' = built /\ Language(tr', terminal') = Language(tr, terminal)
  <2>1. CASE Descend
    BY <2>1 DEF Descend
  <2>2. CASE SimplifySelf
    <3>1. /\ TopCall.s \in States(built) /\ built' = built
          /\ Ends \/ \E t, R : Removes(TopCall.s, t, R)
      BY <2>2, SelfEndsOrRemoves
    <3>2. CASE Ends
      BY <3>1, <3>2 DEF Ends
    <3>3. ASSUME NEW t, NEW R, Removes(TopCall.s, t, R)
          PROVE  Language(tr', terminal') = Language(tr, terminal)
      BY <3>1, <3>3, RemovalKeeps
    <3> QED BY <3>1, <3>2, <3>3
  <2>3. CASE UNCHANGED vars
    BY <2>3 DEF vars
  <2> QED BY <2>1, <2>2, <2>3 DEF Next, Step, Terminated
<1>2. SameLanguage' <=> Language(tr', terminal') = Language(built.tr, built.terminal)
  BY <1>1 DEF SameLanguage, Language, Languages, Closed, Labels
<1> QED BY <1>1, <1>2 DEF SameLanguage

(***************************************************************************)
(* The words that the model checker compares: Words computes, up to a      *)
(* length, the language above.                                             *)
(***************************************************************************)
LEMMA LanguageIsLeast ==
  ASSUME built \in Built, NEW g,
         g.tr \in [States(built) -> Seq(Edges(built))], g.terminal \in SUBSET States(built)
  PROVE  /\ States(g) = States(built)
         /\ IsGraph(g, Edges(built)) /\ IsLeast(Language(g.tr, g.terminal), g, Edges(built))
         /\ Assignments(g, Edges(built)) = Languages
<1>1. States(g) = States(built) /\ IsGraph(g, Edges(built))
  <2>1. Len(built.tr) \in Nat /\ g.tr \in [1 .. Len(built.tr) -> Seq(Edges(built))]
    BY BuiltIsTyped, LenProperties, BuiltAssumption DEF WellFormed, States
  <2>2. g.tr \in Seq(Seq(Edges(built)))
    BY <2>1
  <2>3. Len(g.tr) = Len(built.tr)
    BY <2>1, <2>2, LenProperties
  <2> QED BY <2>1, <2>2, <2>3, BuiltIsTyped DEF IsGraph, States
<1>2. Assignments(g, Edges(built)) = Languages
  BY <1>1 DEF Assignments, Languages, Labels
<1>3. PICK ts, term, M : ts = g.tr /\ term = g.terminal /\ M = Language(ts, term)
  OBVIOUS
<1>4. \A A : ClosedIn(A, g) <=> Closed(A, ts, term)
  BY <1>1, <1>3 DEF ClosedIn, Closed
<1>5. /\ M \in Languages /\ Closed(M, ts, term)
      /\ \A L \in Languages : Closed(L, ts, term) => \A s \in States(built) : M[s] \subseteq L[s]
  BY <1>3, LanguageIsFixed
<1>6. IsLeast(M, g, Edges(built))
  BY <1>1, <1>2, <1>4, <1>5 DEF IsLeast
<1> QED BY <1>1, <1>2, <1>3, <1>6

(***************************************************************************)
(* The theorems.                                                           *)
(***************************************************************************)

\* Every variable keeps its type: the rewriting moves transitions and makes none.
THEOREM TypeCorrect == Spec => []TypeOK
<1>1. TypeInv => TypeOK
  BY DEF TypeInv
<1> QED BY TypeCorrectInit, TypeCorrectNext, <1>1, PTL DEF Spec

\* The strengthened invariant about the walk is kept for ever.
THEOREM Invariance == Spec => []WalkInv
BY WalkInit, WalkNext, PTL DEF Spec

\* A state the walk has left never gets a shortcut again, and when the walk is
\* over nothing but such states can be reached from the start: where simplify
\* returns, it has removed every shortcut the matching could meet.
THEOREM NoShortcutLeft == Spec => []LeftClean
BY CleanBehind, Invariance, PTL

\* Every state of the automaton accepts, before, during and after the walk, the
\* words it accepted as the parser built it: words of any length, any automaton.
THEOREM LanguageKept == Spec => []SameLanguage
<1>1. Init => TypeInv /\ SameLanguage
  <2>1. Init => SameLanguage
    BY DEF Init, SameLanguage
  <2> QED BY <2>1, TypeCorrectInit
<1>2. (TypeInv /\ SameLanguage) /\ [Next]_vars => (TypeInv /\ SameLanguage)'
  BY TypeCorrectNext, LanguageNext
<1> QED BY <1>1, <1>2, PTL DEF Spec

\* The words the model checker compares are the same wherever the rewriting
\* stands, for every automaton and every bound on the words.
THEOREM SameWords == Spec => []KeepsLanguage
<1>1. ASSUME TypeInv, SameLanguage PROVE KeepsLanguage
  <2> DEFINE g == Simplified
             M == Language(tr, terminal)
             B == Language(built.tr, built.terminal)
  <2>1. /\ built \in Built /\ built.start \in States(built)
        /\ built.tr \in [States(built) -> Seq(Edges(built))] /\ built.terminal \in SUBSET States(built)
        /\ tr \in [States(built) -> Seq(Edges(built))] /\ terminal \in SUBSET States(built)
    BY <1>1, BuiltIsTyped DEF TypeInv, TypeOK
  <2>2. g.tr = tr /\ g.terminal = terminal
    BY DEF Simplified
  <2>3. M = B /\ M = Language(g.tr, g.terminal)
    BY <1>1, <2>2 DEF SameLanguage
  <2>4. g.tr \in [States(built) -> Seq(Edges(built))] /\ g.terminal \in SUBSET States(built)
    BY <2>1, <2>2
  <2> HIDE DEF g, M, B
  <2>5. MaxWord \in Nat
    BY WordAssumption
  <2>6. Words(g, MaxWord, built.start) = {w \in M[built.start] : Len(w) <= MaxWord}
    <3>1. States(g) = States(built) /\ IsGraph(g, Edges(built)) /\ IsLeast(M, g, Edges(built))
      BY <2>1, <2>3, <2>4, LanguageIsLeast
    <3> QED BY <2>1, <2>5, <3>1, WordsAreTheLanguage
  <2>7. B = Language(built.tr, built.terminal)
    BY DEF B
  <2>8. Words(built, MaxWord, built.start) = {w \in B[built.start] : Len(w) <= MaxWord}
    <3>1. IsGraph(built, Edges(built)) /\ IsLeast(B, built, Edges(built))
      BY <2>1, <2>7, LanguageIsLeast
    <3> QED BY <2>1, <2>5, <3>1, WordsAreTheLanguage
  <2> QED BY <2>3, <2>6, <2>8 DEF KeepsLanguage, g
<1>2. Spec => []TypeInv
  BY TypeCorrectInit, TypeCorrectNext, PTL DEF Spec
<1> QED BY <1>1, <1>2, LanguageKept, PTL
=============================================================================
