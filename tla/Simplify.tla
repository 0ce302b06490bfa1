------------------------------- MODULE Simplify -------------------------------
(***************************************************************************)
(* The removal of shortcuts from a freshly built automaton (fsm.go,        *)
(* simplify and simplifySelf), as it runs: a depth-first walk that         *)
(* simplifies a state on the way back from everything reachable from it.   *)
(***************************************************************************)
EXTENDS Automata

CONSTANTS
  Built,     \* the automata the parser builds, each with its start state
  MaxWord    \* bound: the length of the words languages are compared on

ASSUME BuiltAssumption == \A g \in Built : WellFormed(g)
ASSUME WordAssumption == MaxWord \in Nat

VARIABLES
  built,     \* the automaton as it was built
  tr,        \* the transitions of every state
  terminal,  \* the terminal states
  visited,   \* the states simplify was called on
  walk,      \* the active calls of simplify, outermost first: the state, the
             \* transitions its loop ranges over, the index of the next one
  crashed    \* did `has` compare two option sets?

vars == <<built, tr, terminal, visited, walk, crashed>>

Call(s) == [s |-> s, over |-> tr[s], i |-> 1]
TopCall == walk[Len(walk)]
Pop     == SubSeq(walk, 1, Len(walk) - 1)
Over    == walk = <<>> \/ crashed

Init ==
  /\ built \in Built
  /\ tr = built.tr
  /\ terminal = built.terminal
  /\ visited = {built.start}
  /\ walk = <<[s |-> built.start, over |-> built.tr[built.start], i |-> 1]>>
  /\ crashed = FALSE

\* The loop over the transitions calls simplify on the next state, which
\* returns at once if it was visited.
Descend ==
  /\ ~Over
  /\ TopCall.i <= Len(TopCall.over)
  /\ LET next == TopCall.over[TopCall.i].next
         here == Append(Pop, [TopCall EXCEPT !.i = @ + 1])
     IN  /\ walk' = IF next \in visited THEN here ELSE Append(here, Call(next))
         /\ visited' = visited \cup {next}
  /\ UNCHANGED <<built, tr, terminal, crashed>>

(***************************************************************************)
(* simplifySelf.  `has` compares matchers only of transitions to the same  *)
(* state; the comparison panics when both are optsMatcher values, a struct *)
(* with a slice and a map.                                                 *)
(***************************************************************************)
FirstShortcut(ts) == SelectInSeq(ts, IsShortcut)

Panics(ts, t) ==
  t.m.kind = "opts" /\ \E u \in ToSet(ts) : u.next = t.next /\ u.m.kind = "opts"

\* The transitions of `from` that ts does not have, in order, after those of ts.
\* Go grows the slice while it asks `has`, so a transition is added once.
AddMissing(ts, from) ==
  LET new == {n \in DOMAIN from : /\ from[n] \notin ToSet(ts)
                                  /\ \A j \in 1 .. n - 1 : from[j] # from[n]}
  IN  ts \o Chosen(from, new)

\* Does the comparison meet two option sets on the way?
AdditionPanics(ts, from) ==
  \E n \in DOMAIN from : Panics(ts \o SubSeq(from, 1, n - 1), from[n])

\* removeTransitionAt
Cut_Keeps(ts, idx) == ts
Cut(ts, idx)       == RemoveAt(ts, idx)

\* A shortcut to a terminal state makes its origin one.
Inherit_Nothing(s, next) == terminal
Inherit(s, next) == IF next \in terminal THEN terminal \cup {s} ELSE terminal

\* The loop of simplify calls simplifySelf until no shortcut is left.
CallsAgain_Never == Pop
CallsAgain       == walk

SimplifySelf ==
  /\ ~Over
  /\ TopCall.i > Len(TopCall.over)
  /\ LET s   == TopCall.s
         idx == FirstShortcut(tr[s])
     IN  IF idx = 0
         THEN /\ walk' = Pop
              /\ UNCHANGED <<tr, terminal, crashed>>
         ELSE LET next == tr[s][idx].next
                  rest == Cut(tr[s], idx)
                  from == IF next = s THEN rest ELSE tr[next]
              IN  /\ crashed' = AdditionPanics(rest, from)
                  /\ tr' = [tr EXCEPT ![s] = AddMissing(rest, from)]
                  /\ terminal' = Inherit(s, next)
                  /\ walk' = CallsAgain
  /\ UNCHANGED <<built, visited>>

Step       == Descend \/ SimplifySelf
Terminated == Over /\ UNCHANGED vars
Next       == Step \/ Terminated

Spec == Init /\ [][Next]_vars /\ WF_vars(Step)

(***************************************************************************)
(* Properties.                                                             *)
(***************************************************************************)

\* Every variable has the type of what it stands for; the rewriting moves
\* transitions around but makes none.
TypeOK ==
  /\ tr \in [States(built) -> Seq(Edges(built))]
  /\ terminal \subseteq States(built)
  /\ visited \subseteq States(built)
  /\ walk \in Seq([s : visited, over : Seq(Edges(built)), i : Nat \ {0}])
  /\ crashed \in BOOLEAN

Simplified == [tr |-> tr, terminal |-> terminal]

\* A state the walk has left keeps no shortcut, whatever is simplified later, and
\* when the walk is over no other state can be reached.
LeftClean ==
  ~crashed => \A s \in visited : (\A k \in DOMAIN walk : walk[k].s # s) =>
                \A t \in ToSet(tr[s]) : ~IsShortcut(t) /\ (Over => t.next \in visited)

\* No step of the walk changes which sequences of options and arguments the
\* automaton accepts, wherever the rewriting stands.
KeepsLanguage ==
  ~crashed => Words(Simplified, MaxWord, built.start) = Words(built, MaxWord, built.start)

\* A spec that respects the grammar is compiled without a run-time panic.
NeverCrashes == ~crashed

\* doInit never hangs: the simplification of every parsed spec ends.
Terminates == <>Over
=============================================================================
