------------------------------ MODULE Automata ------------------------------
(***************************************************************************)
(* The finite automata mow.cli builds from spec strings (fsm.go): values,  *)
(* constructors and the language an automaton accepts.                     *)
(*                                                                         *)
(* A state is its index in g.tr; g.tr[s] is the slice s.transitions, in    *)
(* order.  A matcher is a record: its kind, and what tells it apart from   *)
(* the others.  Go compares matchers by identity: the two pointers made    *)
(* for `-a` at two places of a spec differ, hence the field `at`.          *)
(***************************************************************************)
EXTENDS Integers, Sequences, SequencesExt, Slices

Shortcut     == [kind |-> "shortcut"]
OptsEnd      == [kind |-> "optsEnd"]
ArgMatcher(a)      == [kind |-> "arg", arg |-> a]
OptMatcher(o, at)  == [kind |-> "opt", opt |-> o, at |-> at]
OptsMatcher(s, at) == [kind |-> "opts", opts |-> s, at |-> at]

States(g) == 1 .. Len(g.tr)

Transition(m, next) == [m |-> m, next |-> next]

\* newState and state.t
NewState(g)         == [g EXCEPT !.tr = Append(@, <<>>)]
Link(g, s, m, next) == [g EXCEPT !.tr[s] = Append(@, Transition(m, next))]

\* The transitions of an automaton, which lead to its states.
Edges(g) == UNION {ToSet(g.tr[s]) : s \in States(g)}

WellFormed(g) ==
  /\ g.tr \in Seq(Seq(Edges(g))) /\ \A t \in Edges(g) : t.next \in States(g)
  /\ g.start \in States(g) /\ g.terminal \subseteq States(g)

(***************************************************************************)
(* The language of an automaton: the sequences of matchers, shortcuts left *)
(* out, on the paths from start to a terminal state.                       *)
(***************************************************************************)
IsShortcut(t) == t.m.kind = "shortcut"

Shortcuts(g) ==
  UNION {{<<s, t.next>> : t \in {u \in ToSet(g.tr[s]) : IsShortcut(u)}} : s \in States(g)}

\* The pairs of states that lead from one to the other by shortcuts alone.
ByShortcuts(g) ==
  LET edges == Shortcuts(g)
      reach[n \in Nat] ==
        IF n = 0 THEN {<<s, s>> : s \in States(g)}
        ELSE LET R == reach[n - 1]
             IN  R \cup UNION {{<<r[1], e[2]>> : e \in {d \in edges : d[1] = r[2]}} : r \in R}
  IN  reach[Len(g.tr)]

\* The matchers that lead from a state to another one behind shortcuts, near, and
\* the states with only shortcuts before a terminal one.
Jumps(g, near) ==
  UNION {{<<r[1], t.m, t.next>> : t \in {u \in ToSet(g.tr[r[2]]) : ~IsShortcut(u)}} : r \in near}
Finals(g, near) == {r[1] : r \in {q \in near : q[2] \in g.terminal}}

\* An automaton without its shortcuts.
Direct(g) ==
  [start |-> g.start, states |-> Len(g.tr),
   labels |-> Jumps(g, ByShortcuts(g)), final |-> Finals(g, ByShortcuts(g))]

\* The words of at most W matchers the automaton g accepts from the state s.
Words(g, W, s) ==
  LET near  == ByShortcuts(g)
      jumps == Jumps(g, near)
      final == Finals(g, near)
      paths[n \in Nat] ==       \* pairs of a word of n matchers and the state it leads to
        IF n = 0 THEN {<<<<>>, s>>}
        ELSE UNION {{<<Append(x[1], l[2]), l[3]>> : l \in {k \in jumps : k[1] = x[2]}} : x \in paths[n - 1]}
  IN  UNION {{x[1] : x \in {y \in paths[n] : y[2] \in final}} : n \in 0 .. W}
=============================================================================
