-------------------------------- MODULE Fsm --------------------------------
(***************************************************************************)
(* How a command line is matched against a spec (fsm.go, state.apply): the *)
(* automaton the parser built is simplified (module Simplify), then apply  *)
(* searches it depth first, backtracking, with the matchers of the module  *)
(* Matchers.  Cmd.doInit builds a new automaton for each Run, so that one  *)
(* automaton serves one command line.                                      *)
(***************************************************************************)
EXTENDS CommandLine

CONSTANTS
  Built,      \* the automata the parser builds, each with the declared options that
              \* have a value from the environment, its field env, with what it
              \* accepts, means, and what it accepts with the option groups of
              \* its spec written out, long: both without shortcuts
  MaxWord,    \* bound on the words compared in the properties of Simplify
  Lines(_),   \* the command lines for an automaton: sequences of arguments
  MaxFrames   \* bound: the calls of apply that fit on the stack

ASSUME BoundsAssumption == MaxFrames \in Nat \ {0} /\ MaxWord \in Nat
ASSUME AutomataAssumption ==
  \A g \in Built : WellFormed(g) /\ g.means = Direct(g) /\ g.env \subseteq STRING /\ \A t \in Edges(g) : IsMatcher(t.m)
ASSUME LinesAssumption == \A g \in Built : Lines(g) \subseteq Seq(Argument)

VARIABLES
  built, tr, terminal, visited, walk, crashed,   \* of Simplify
  line,      \* the arguments of the command
  env,       \* the options whose valueSetFromEnv is set
  stack,     \* the active calls of apply, outermost first
  outcome,   \* what parse answers
  got        \* the parse context of an accepted line: bindings, in merge order

S == INSTANCE Simplify

simplifying == <<built, tr, terminal, visited, walk, crashed>>
matching    == <<line, env, stack, outcome, got>>
vars        == <<simplifying, matching>>

Outcomes == {"none", "accepted", "rejected", "overflow"}

\* A call of apply: its parameters, whether its matches are computed, and those
\* it has not found to fail.  The first of them is being tried.
Frame(s, args, reject) == [s |-> s, args |-> args, reject |-> reject, open |-> FALSE, todo |-> <<>>]
Opened(f, ms) == [s |-> f.s, args |-> f.args, reject |-> f.reject, open |-> TRUE, todo |-> ms]

Init ==
  /\ S!Init
  /\ line = <<>> /\ env = built.env /\ stack = <<>> /\ outcome = "none" /\ got = <<>>

Simplifying == S!Step /\ UNCHANGED matching

\* The automaton is ready and state.parse is called.
Ready == S!Over /\ ~crashed /\ stack = <<>> /\ outcome = "none"

Parse ==
  /\ Ready
  /\ \E l \in Lines(built) : line' = l /\ stack' = <<Frame(built.start, l, FALSE)>>
  /\ UNCHANGED <<simplifying, env, outcome, got>>

Top     == stack[Len(stack)]
Calling == stack # <<>> /\ outcome = "none"

\* A call ends with success at a terminal state with no argument left.  All the
\* calls under way merge what their match bound and return.
Accept ==
  /\ Calling /\ ~Top.open
  /\ Top.s \in terminal /\ Top.args = <<>>
  /\ outcome' = "accepted"
  /\ got' = FlattenSeq([i \in 1 .. Len(stack) - 1 |-> stack[i].todo[1].got])
  /\ stack' = <<>>
  /\ UNCHANGED <<simplifying, line, env>>

\* sort.Sort: Less holds of an option and anything, another option included, so
\* the insertion sort of a short slice moves every option past all that precede.
IsOption(t) == t.m.kind \in {"opt", "opts"}
Sorted(ts) ==
  LET options == {i \in DOMAIN ts : IsOption(ts[i])}
  IN  Reverse(Chosen(ts, options)) \o Chosen(ts, DOMAIN ts \ options)

\* The first `--` on the way marks the end of the options.
Ends(f)  == ~f.reject /\ f.args # <<>> /\ f.args[1] = DashDash
Rest(f)  == IF Ends(f) THEN Tail(f.args) ELSE f.args
Reject(f) == f.reject \/ Ends(f)

\* What a transition leads to when its matcher answers m.
Leads(tn, m, f) ==
  [ok |-> m.ok, next |-> tn.next, rem |-> m.rem, reject |-> RejectAfter(tn.m, Reject(f)), got |-> m.got]

\* The transitions that match, and what each leads to.
MatchesOf(ts, f, v) ==
  LET answers == [i \in DOMAIN ts |-> Leads(ts[i], Match(ts[i].m, Rest(f), Reject(f), v), f)]
  IN  Chosen(answers, {i \in DOMAIN ts : answers[i].ok})

\* The transitions are sorted in place and asked, each with a fresh context.
Expand ==
  /\ Calling /\ ~Top.open
  /\ ~(Top.s \in terminal /\ Top.args = <<>>)
  /\ tr' = [tr EXCEPT ![Top.s] = Sorted(@)]
  /\ \E ms \in {MatchesOf(Sorted(tr[Top.s]), Top, env)} :
       stack' = [stack EXCEPT ![Len(stack)] = Opened(@, ms)]
  /\ UNCHANGED <<built, terminal, visited, walk, crashed, line, env, outcome, got>>

Follow_Forgets ==
  /\ Calling /\ Top.open /\ Top.todo # <<>>
  /\ Len(stack) < MaxFrames
  /\ stack' = Append([stack EXCEPT ![Len(stack)].todo = Tail(@)],
                     Frame(Top.todo[1].next, Top.todo[1].rem, Top.todo[1].reject))
  /\ UNCHANGED <<simplifying, line, env, outcome, got>>

\* The next match is followed: m.tr.next.apply.
Follow ==
  /\ Calling /\ Top.open /\ Top.todo # <<>>
  /\ IF Len(stack) = MaxFrames
     THEN outcome' = "overflow" /\ stack' = <<>>
     ELSE /\ stack' = Append(stack, Frame(Top.todo[1].next, Top.todo[1].rem, Top.todo[1].reject))
          /\ UNCHANGED outcome
  /\ UNCHANGED <<simplifying, line, env, got>>

Backtrack_GivesUp ==
  /\ Calling /\ Top.open /\ Top.todo = <<>>
  /\ outcome' = "rejected" /\ stack' = <<>>
  /\ UNCHANGED <<simplifying, line, env, got>>

Backtrack_TriesAgain ==
  /\ Calling /\ Top.open /\ Top.todo = <<>>
  /\ IF Len(stack) = 1
     THEN outcome' = "rejected" /\ stack' = <<>>
     ELSE stack' = Front(stack) /\ UNCHANGED outcome
  /\ UNCHANGED <<simplifying, line, env, got>>

\* All the matches failed: the caller goes on with its next match.
Backtrack ==
  /\ Calling /\ Top.open /\ Top.todo = <<>>
  /\ IF Len(stack) = 1
     THEN outcome' = "rejected" /\ stack' = <<>>
     ELSE /\ stack' = [Front(stack) EXCEPT ![Len(stack) - 1] = Opened(@, Tail(@.todo))]
          /\ UNCHANGED outcome
  /\ UNCHANGED <<simplifying, line, env, got>>

Done       == outcome # "none" \/ crashed
Terminated == Done /\ UNCHANGED vars

Step == Simplifying \/ Parse \/ Accept \/ Expand \/ Follow \/ Backtrack
Next == Step \/ Terminated

\* parse runs until it answers: WF_vars(Step), where Done stands for ~ENABLED Step
\* (a step is possible until Done, or TLC finds a deadlock).
Runs == []<>Done \/ []<><<Step>>_vars

Spec == Init /\ [][Next]_vars /\ Runs

(***************************************************************************)
(* Properties.                                                             *)
(***************************************************************************)

\* Every variable has the type of what it stands for.
TypeOK ==
  /\ S!TypeOK
  /\ outcome \in Outcomes
  /\ Len(stack) <= MaxFrames
  /\ \A k \in DOMAIN stack :
       /\ stack[k].s \in DOMAIN tr
       /\ k < Len(stack) => stack[k].open /\ stack[k].todo # <<>>
       /\ ~stack[k].open => stack[k].todo = <<>>
       /\ \A i \in DOMAIN stack[k].todo : stack[k].todo[i].next \in DOMAIN tr

(***************************************************************************)
(* The readings of a line: what the matchers on a path of the automaton    *)
(* that was built, before any simplification or sort, bind when they       *)
(* consume the whole line.  A matcher that consumes nothing binds nothing, *)
(* so that a path need not come back to a state before the next one that   *)
(* does, and the paths of interest have a bounded length (MostSteps).      *)
(* Where only the existence of a reading matters, what is bound is left    *)
(* out: binds is FALSE.                                                    *)
(***************************************************************************)
Reached(s, args, reject, bound) == [s |-> s, args |-> args, reject |-> reject, got |-> bound]

\* What the label x of a path leads to from c, when its matcher answers m.
Takes(c, x, m, binds) ==
  IF m.ok THEN {Reached(x[3], m.rem, RejectAfter(x[2], Reject(c)), IF binds THEN c.got \o m.got ELSE <<>>)}
  ELSE {}

Onwards(C, g, v, binds) ==
  UNION {UNION {Takes(c, x, Match(x[2], Rest(c), Reject(c), v), binds) : x \in {y \in g.labels : y[1] = c.s}}
           : c \in C}

\* One more step from what is new: older, newer.
Further(R, g, v, binds) ==
  IF R.newer = {} THEN R
  ELSE [older |-> R.older \cup R.newer,
        newer |-> Onwards(R.newer, g, v, binds) \ (R.older \cup R.newer)]

MostSteps(g, l) == (Weight(l) + 2) * (g.states + 1)

ReadingsOf(g, l, v, binds) ==
  LET reach[n \in Nat] ==
        IF n = 0 THEN [older |-> {}, newer |-> {Reached(g.start, l, FALSE, <<>>)}]
        ELSE Further(reach[n - 1], g, v, binds)
      all == reach[MostSteps(g, l)]
  IN  {c.got : c \in {d \in all.older \cup all.newer : d.args = <<>> /\ d.s \in g.final}}

Readings(g, l, v) == ReadingsOf(g, l, v, TRUE)
CanRead(g, l, v)  == ReadingsOf(g, l, v, FALSE) # {}

\* The search, in whatever order the sorts leave the transitions, accepts a line
\* iff the spec has a reading of it, and binds what that reading binds.
FindsAReading ==
  /\ outcome = "accepted" => got \in Readings(built.means, line, env)
  /\ outcome = "rejected" => Readings(built.means, line, env) = {}

IsArgKey(key) == \E s \in States(built) : \E t \in ToSet(built.tr[s]) : t.m.kind = "arg" /\ t.m.arg = key

Bound == Flat(got, IsArgKey)

\* A spec that holds `--` takes what follows in the line for arguments, as if the
\* line had a `--` there; the left-to-right reading does not know where.
HasOptsEnd == \E s \in States(built) : \E t \in ToSet(built.tr[s]) : t.m = OptsEnd

\* An accepted line gives every option and the arguments exactly the values it
\* reads from left to right: nothing lost, nothing invented, nothing reordered,
\* all that follows `--` taken as arguments.  Where the spec ends the options, it
\* still binds every letter and word of the line, once.
MeansWhatItSays ==
  outcome = "accepted" /\ env = {} =>
    IF HasOptsEnd
    THEN Size(line) = Size([i \in DOMAIN got |-> got[i].val])
                      + Cardinality({i \in DOMAIN got : ~IsArgKey(got[i].key)})
    ELSE SameValues(Bound, Reading(line))

\* Only options that no argument separates are taken in another order than they
\* are given in; a dash alone does not separate them, the search for an option
\* passes over it.
RespectsOrder ==
  outcome = "accepted" /\ env = {} /\ ~HasOptsEnd => SameOrder(Bound, Reading(line))

\* Whatever the environment, every value an accepted line binds is one it gives to
\* the same option, or an argument, in the order given.
InventsNothing ==
  outcome = "accepted" /\ ~HasOptsEnd =>
    \A key \in Keys(Bound) : ValuesOf(Bound, key) \in SubSeqs(ValuesOf(Reading(line), key))

\* An option group is a shortcut (README, "Option group" and "All options"): a line
\* that is accepted has a reading where the groups are written out as repeated
\* choices, and conversely if the spec names no option twice.  A group takes all it
\* can and gives nothing back: -ab -a refuses the line -a -a, (-a | -b)... -a does not.
HasGroups == built.long # built.means

OptionsOf(m) == IF m.kind = "opt" THEN {m.opt} ELSE IF m.kind = "opts" THEN ToSet(m.opts) ELSE {}

NamedOnce ==
  \A x, y \in built.means.labels : x[2] # y[2] => OptionsOf(x[2]) \cap OptionsOf(y[2]) = {}

GroupsAreChoices ==
  HasGroups /\ env = {} =>
    /\ outcome = "accepted" => CanRead(built.long, line, env)
    /\ outcome = "rejected" /\ NamedOnce => ~CanRead(built.long, line, env)

\* A value from the environment lets an option be left out; a line that gives no
\* option twice and that the spec accepts without it is accepted with it.  Not so
\* a line with a `--`: see KeepsWhatFollows.
GivenOnce(l) == \A key \in Keys(Reading(l)) \ {Positional} : Len(ValuesOf(Reading(l), key)) <= 1

EnvironmentOnlyHelps ==
  outcome = "rejected" /\ env # {} /\ GivenOnce(line) /\ DashDash \notin ToSet(line) => ~CanRead(built.means, line, {})

\* Everything after the first `--` of an accepted line is an argument.
KeepsWhatFollows ==
  outcome = "accepted" =>
    LET i    == SelectInSeq(line, LAMBDA x : x = DashDash)
        args == ValuesOf(Bound, Positional)
    IN  i > 0 => IsSuffix(SubSeq(line, i + 1, Len(line)), [k \in DOMAIN args |-> args[k].val])

\* No command line exhausts the stack.
NeverOverflows == outcome # "overflow"

\* Every command line gets an answer, and no search meets its own situation again
\* until the stack is exhausted.
Answers == <>(outcome \in {"accepted", "rejected"} \/ crashed)
=============================================================================
