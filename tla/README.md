# Verification of mow.cli

TLA+ models of mow.cli, a Go library for command-line applications: options,
arguments and commands are declared, a *spec string* states how they may be
combined, and `Run` parses the command line against the specs and runs the
`Before`, `Action` and `After` hooks of the command it reaches.

## Inventory

| Component | Source | State it keeps | Operations | Interacts with |
|---|---|---|---|---|
| Interceptor flow | flow.go, cli.go 96-128, commands.go 449-474 | the chain of steps, Go's call stack, a pending panic | `run`, `callDo`, `Exit`, `exiter` | called by `Cmd.parse` at the leaf; calls user hooks |
| Declarations and doInit | options.go, args.go, commands.go 45-274 | `options`, `args`, their indexes by name, `Spec`, `fsm` | `mkOpt`, `mkArg`, `doInit` | calls the tokenizer and the parser; called again for a sub command by every `Run` |
| Spec tokenizer | spec_tk.go | position in the spec, the tokens | `uTokenize` | feeds the spec parser |
| Spec parser | spec_parser.go | token position, `rejectOptions`, the automaton under construction | `parse`, `seq`, `choice`, `atom` | builds states with `newState`, `t`; calls `simplify` |
| Automaton simplification | fsm.go 53-118 | transitions and terminal flags | `simplify`, `simplifySelf`, `has` | works on the parser's automaton |
| Matchers | matchers.go | none, but for the context passed in | `match` of arguments, options, option sets, `--` | called by `state.apply` |
| Command line matching | fsm.go 142-254 | Go's call stack, the order of transitions, the contexts | `apply`, `merge`, `parse` | calls matchers, then sets values |
| Values and environment | values.go, utils.go, options.go, args.go | the variables the user reads, `valueSetFromEnv`, `valueSetByUser` | `Set`, `Clear`, `setFromEnv` | filled by `state.parse`; `valueSetFromEnv` is read by the matchers |
| Command dispatch | commands.go, cli.go, errors.go | command tree, aliases, error handling | `Run`, `parse`, `getOptsAndArgs`, `onError` | everything above |
| Help, drawing | commands.go 293-431, fsm.go 62-76 and 120-140, flow.go 47-68 | none | `printHelp`, `format*`, `dot` | output only |

The program is sequential: nothing runs concurrently and nothing is persisted.
What makes it hard is elsewhere: recursion through an automaton whose cycles come
from the spec string, backtracking over mutable state (transitions sorted in
place while they are iterated over), panics that unwind frames with deferred
handlers, argument lists rebuilt with pieces cut out, map iteration in random
order, values that come from three places (default, environment, line), and what
one `Run` leaves behind for the next.

What makes each component correct:

* *Interceptor flow.* Interceptors nest: an `After` runs iff its `Before`
  completed, from the inside out, whatever panics or exits; the action runs only
  inside all `Before`s; the caller sees the last error; every `Run` ends.
* *Declarations and doInit.* Every name leads to the option or argument declared
  last under it, the automaton waits for those and not for ones of an earlier `Run`,
  and a command without a spec takes its options and then its arguments.
* *Tokenizer.* The tokens are the longest lexemes of the grammar and nothing of the
  spec is lost; an error names the first character that cannot be right; it ends.
  (Lone dashes are lost, and two things the grammar has are refused: the properties
  say so by name.)
* *Spec parser.* It accepts exactly the documented grammar, builds an automaton
  that means what the spec says, and names the first wrong token.
* *Simplification.* It ends, leaves no shortcut and changes no language.
* *Matching.* A line is accepted iff the spec has a reading of it; what is bound
  is what the line says, nothing lost, invented or reordered; every line gets an
  answer.
* *Values.* The line wins over the environment and the environment over the
  default; the two flags tell the truth; an error breaks at most one value.
* *Dispatch.* The command that runs is the one the line names, errors are
  handled once, in the way the application asked for, no hook runs then, and a
  second `Run` answers like the first, unless options with a value from the
  environment are on the way.

## Modules

    Flow ---------- implements --> Interceptors
     |- MCFlow, FlowProofs
    Dispatch (INSTANCE Interceptors)
     |- MCDispatch, DispatchProofs
    Values
     |- MCValues, ValuesProofs
    Automata
     |- SpecParser -- SpecGrammar -- Writing -- MCSpecParser, ParserProofs
     |    |- DoInit (INSTANCE Tokenizer) -- MCDoInit, DoInitProofs (with ParserProofs)
     |- Simplify -- MCSimplify (on SpecParser's automata), SimplifyProofs
     |- Matchers -- CommandLine -- Fsm (INSTANCE Simplify)
                                    |- MCFsm (on SpecParser's automata), FsmProofs (INSTANCE SimplifyProofs)
    Slices: the elements of a slice that a loop keeps, for Automata and what is below it
    Facts: lemmas about numbers, sequences, stacks, sums and recursive functions for the modules of proofs

### Flow, Interceptors

`Flow` keeps Go's call stack: one frame per active `step.run`, with its step, its
parameter `p` and the place it stands at (before `callDo`, in the hook, in the
deferred function, at the switch, in `s.success.run`).  Steps are numbers along
the chain `Cmd.parse` links; `Success` and `Error` are its edges.

| Action | Code |
|---|---|
| `CallDo` | `callDo` is entered; without a hook it returns |
| `HookReturns`, `HookPanics`, `HookPanicsNil` | what user code may do in `s.do()`: return, panic with a value (`Exit` is a panic with an `exit`), `panic(nil)`, which `recover` cannot tell from success with the toolchains of `.travis.yml` |
| `RunSuccess`, `EndReturns`, `EndExits`, `EndPanics` | the switch of `run` |
| `Return`, `Unwind` | how a return or a panic reaches the caller's frame |

`Interceptors` is the promise of the documentation with none of that machinery:
levels are opened, then closed.  `KeepsPromise` is the refinement, with the open
levels mapped to those between a finished `Before` and a finished `After`.

### DoInit, Tokenizer

A spec is a sequence of characters, as far as spec_tk.go tells them apart: upper
and lower case letters, digits, the punctuation, the two blanks.  `Tokenizer` has one
action per branch of the loop (`Blank`, `Bracket`, `Dots`, `ShortOpts`, `LongOpt`,
`LoneDash`, `OptValue`, `Name`, `Unexpected`, `Return`).  Its reference is the set of
lexemes of the grammar (`Types`), all the ways to cut a text into the longest of them
(`Cuts`), and the texts that can still go on (`Viable`), none of which knows of a loop
or a position.  The grammar of README.md 706-718 is "(simplified)": `IsOf` adds
arguments, the values of options, and the names of long options with `_`, digits
first and dashes inside, as spec_tk_test.go has them.  What follows a lexeme is not its
concern: that `--` must stand before a space and that no dash may follow short
options is in the code only.

The tokenizer departs from this reference in two ways, and the properties name
both.  `LoneDashes` are dashes that start no lexeme: with them left out (`LooseCuts`)
every spec that is accepted has one cutting, and it has one by the grammar just if none was
dropped.  `Stricter` is what the code refuses although the grammar goes on: `[--]`,
`--[A]`, `-a-b`.  Every other refusal is one of the reference.

| Action of `DoInit` | Code |
|---|---|
| `Declare` | `Bool`, `String`, .., `Var`: `mkOpt` or `mkArg`, by the application before `Run` or by the initializer |
| `Run` | `doInit` is entered, and calls the initializer of a sub command |
| `MakeUp` | the spec of a command that has none; `Spec` is written, so that the next `Run` takes it for a given one |
| `Tokenize` | one iteration of `uTokenize` |
| `Parse`, `Refuse` | `uParse` and the end of `doInit` |

An option is its index in `c.options`, which stands for the pointer Go keeps: two
declarations of one name are two options, and `optionsIdx` leads to the later one.
Tokens find their options by name (`Found`) before they go to `UParse` of `SpecParser`.

### SpecParser, SpecGrammar, Writing

`SpecParser` is `uParser` as functions on a parser record (position,
`rejectOptions`, automaton): `Components`/`Alternatives`/`Atom` follow `seq`,
`choice` and `atom`, with the order in which states are made and transitions
appended.  The productions call each other; a call is a value (`Calls`) and what the
calls return is one recursive function of it (`Parses`), so that proofs can speak of
it.  A Go panic is the field `err`, which every later step leaves alone.
`SpecGrammar` is the reference: the grammar of the README as a relation between
spans of tokens (`Derives`), and the matcher sequences a span means (`Means`),
with neither position nor automaton.  `Writing` lets a spec grow by one token at a
time, and states what the parser makes of it at any moment.

### Simplify

The recursive walk with its stack (`walk`): `Descend` is one iteration of the
loop over the transitions the call ranges over, a copy made when the call
began, and `SimplifySelf` one call of `simplifySelf`.  `crashed` is the run-time
panic of comparing two `optsMatcher` values in `has`.

### Matchers, CommandLine, Fsm

`Matchers` are the matchers on arguments cut where matchers.go looks: `-`, `--`,
`--name=value` at its equal signs, a cluster at its letters, words.
`CommandLine` is the reference: what a line says read once from left to right,
given only which names are flags.  A cluster is cut at a dash inside it too: `-a-ee`
without its `a` is the text `--ee`, a long option, and `-a-` is `--` (`Folded`).  `Fsm` composes simplification and matching:
`Simplifying` until the automaton is ready, `Parse` of one line, then `apply`
with its stack of calls.

| Action | Code |
|---|---|
| `Parse` | `state.parse` calls `apply` |
| `Accept` | terminal and no argument left: every call merges its match and returns |
| `Expand` | `sort.Sort` in place, then every transition asked with a fresh context |
| `Follow` | the next match's `next.apply`; a bounded stack stands for Go's |
| `Backtrack` | all matches failed; the caller tries its next one |

The sort is the one of the standard library for up to six transitions, an
insertion sort (for more, up to twelve, Go 1.7 swaps at a distance of six first;
no state of the instances has as many).  `Less` is not an order (an option is less than every option,
itself included), so that the result is not just "options first": the options
come out reversed, and reversed again by the next visit of the same state.
`Sorted` is that; it was compared with a literal insertion sort.  It and the other
loops that append under a condition are written with `Chosen`, the elements of a slice
at a set of places: `SelectSeq` is recursive, and nothing could be proved of it.

The reference of the search is `ReadingsOf`: everything that the paths of the
automaton *as it was built* can consume and bind, with its shortcuts closed over and
no order among its transitions, found in `MostSteps` rounds at most, which depend on
how much there is to consume (`Weight`).  Each automaton comes with it (`means`), and with
what its spec accepts when its option groups are written out as the choices the
documentation says they are (`long`).

### Values

`Declare` is `mkOpt`/`mkArg` with `setFromEnv`, `Accepted` the end of a successful
`apply`, `Fill` one iteration of the loops over the context's maps, in any order,
`Return` the end of them, and `Again` the next `Run`, which finds the variables as
the last one left them.  Texts are abstract; `Converts` says which texts each kind's
`Set` may accept (strconv is external) and which number they stand for.  `ParseInt` is
asked for numbers below `ParseLimit`, and an `int` holds those below `IntLimit`:
`Lower` is the conversion, which keeps the lower bits.

### Dispatch

The `Run`s of an application, seen from the command tree.  What the spec of a
command accepts is the constant `Accepts`, an operator on the command, the options
that have a value from the environment at that moment, and the command's own
arguments; it stands for `state.parse` (the subject of `Fsm` and `Values`).  The second thing
`state.parse` does that reaches the next `Run` is `Clears`: the slices among these options
that the line gave, whose `valueSetFromEnv` goes down (fsm.go 181), or any part of
them if a value was refused in the middle of the map.  `fromEnv` keeps the flags:
for each command those of the options declared last, and those of the options that its
initializer declared in earlier `Run`s, which the automaton of `[OPTIONS]` still
holds.  `Declared` sets them again from `environment` when an initializer runs, which the
one of the application never does.  `found` is what the `Run` found.  The
hooks are `Interceptors`, instantiated with as many levels as commands were called.

| Action | Code |
|---|---|
| `AskVersion`, `ParseApp` | `Cli.parse` |
| `AskHelp` | the first branch of `Cmd.parse` |
| `Wrong`, `Right` | `getOptsAndArgs`, then `fsm.parse` of what stands before the first name of a sub command |
| `RunFlow`, `NoAction` | nothing is left: `entry.run`, or help and `onError(nil)` |
| `Descend`, `SpecPanics` | the loop over the sub commands, with the initializer of the one called |
| `Hooks`, `Return` | `entry.run` up to `RootOut`, and `parse` returns |
| `RunAgain` | `Run` called once more for the same line, unless the process ended; also after a panic, which the program may have recovered |

Every refusal prints, calls `onError` and returns in one step (`Refuse`);
`OnError` is how `Run` ends then, by the `ErrorHandling` of the command and an
exiter that ends the process.  `Cmd.Command` copies the `ErrorHandling` of the
moment, and an initializer that runs again declares its sub commands again, behind
those it has: `handlings` is that of all the copies of each command, and the loop over the
sub commands finds the first.  `sets` is what the initializers set, each before and
after it declares its commands.  `InForce` says by the path alone which `ErrorHandling`
that gives: what the last command set behind its sub commands, else the nearest
that was set on the way before sub commands were declared.  It knows nothing of
copies and is what an ending is compared with.

The reference of the properties is a *reading* of the line (`IsReading`): a path of
commands and the places where the line is cut into the part of each, every part
accepted with the values that `Finds` says its options have in this `Run`.  In a *plain* reading (`IsPlain`) no part holds a word that calls a sub
command, and each call is of the first command that answers to the word.

## Runs

| Run | Instance | Shows |
|---|---|---|
| `flow` | paths of up to 3 commands, any hooks missing, 2 exit codes, 2 panic values, `panic(nil)` | type invariant, nesting, no leak, order, last error, termination, refinement |
| `flow_stub_exiter` | depth 2, the exiter of helper_test.go, which returns | no leak survives the stub |
| `doinit` | every spec of at most 3 of 18 characters, of 4 of 8 and of 5 of 6; commands without a spec with at most 3 of 7 declarations, as applications and as sub commands; 9 specs of a sub command, two `Run`s each | tokens are the longest lexemes but for lone dashes, error positions but for what the tokenizer is stricter about, the made-up spec, the automaton binds what this `Run` declared, the tokenizer ends |
| `spec_parser` | all sequences of at most 5 out of 14 tokens, kept as long as the parser gets to their end | acceptance = grammar, automaton = meaning, error positions |
| `simplify` | all specs of at most 5 of 10 tokens | ends, leaves no shortcut that can be reached, keeps the language at every step |
| `fsm` | 20 specs of the README's kinds, with and without `--` and option groups, and 7 where an option has a value from the environment, lines of at most 3 of 13 arguments, `-a-ee` among them; every spec of at most 5 of 7 tokens, lines of at most 2 of 5 | type invariant, completeness and soundness of the search, what is bound is what the line says, order, groups are choices, an environment value refuses no line, an answer for every line |
| `dispatch` | five commands on three levels, one word that calls commands of two levels and two of one, lines of at most 4 of 8 words, four settings of `ErrorHandling`, options with and without values from the environment, two `Run`s | hooks run only for a line read to its end, plain lines are not refused, failures end as set and none like a success, the second `Run` answers like the first where nothing comes from the environment, one answer per line, a message or the hooks, every `Run` ends |
| `values` | a flag, a number, a slice of numbers, a slice of strings; up to two variables each; a second line | precedence, the two flags, at most one broken value |
| `fsm_env_loop` | `-e...`, `-e` in the environment | *violation*: the stack is exhausted |
| `fsm_env_drops` | `[-a] [-e] [A]`, `-e` in the environment | *violation*: `-a -- x` is accepted, `x` and `-a` dropped |
| `simplify_hangs` | specs of `A [ ] ...` | *violation*: `[[A]...]...` is never simplified |
| `simplify_crashes` | specs with option sets | *violation*: `[OPTIONS]...` panics |

### Bounds, and why they are enough

* `MaxDepth = 3`: a root, a middle and a leaf command, so that an error edge can
  go to a parent that is neither the root nor its child's.  The theorems hold for
  every depth.
* Five characters of the option alphabet hold `-a=<a>` but for one, and with four of
  the other there is every lexeme and the first wrong character behind each.  The
  keyword `OPTIONS` is cut down to `BA`: what matters is that it is read like a name
  and told apart only at its end.
* Five tokens: two operators around one element with brackets (`[[A]...]...` has
  seven and is reached over a smaller alphabet by `simplify_hangs`), a sequence
  within a choice within brackets, and every error of the parser.
* Words of at most 3 matchers distinguish one round of a repetition from two; the
  theorem `SameWords` holds for words of any length.
* A command without a spec declares up to three options and arguments, which makes words
  of at most three matchers (`MaxWord` is 4).
* Lines of 3 arguments: an option, its value and what follows, on both sides of
  a `--`; clusters of two letters, with and without a value stuck to them; one with a
  long option behind a dash.
* `MaxFrames = 20` stands for Go's stack.  No passing run gets near it (the
  longest search has one frame per thing consumed); a run that reaches it does
  so on a cycle that consumes nothing.
* Four words: a command, its sub command and an argument of each, an option or
  `--` before a name.  `s` calls one command of the application and another of
  `job`, and `job` too, `rm` is a command whose spec does not parse, `job` has no
  action.  `-ex` is the option of two commands: the spec of `app` is `[-e -e] [X]` with a
  slice `e`, which a second `Run` reads differently, the one of `start` is
  `[OPTIONS] X...`, which holds the option of the earlier `Run` too.  An exit code and a panic value are enough for hooks here; `flow` has two
  of each.
* `MaxRuns = 2`: what a `Run` leaves behind (declarations, specs, values, flags,
  copies of commands) meets the next one; a third adds only further copies of the same.
* The values run has one kind of each sort of `Set`: flag, single, slice.  Its
  numbers have four bits in place of 64, with the first and last that fit and one that
  does not.

### Fairness

`WF_vars(Step)` in `Flow`, `Simplify` and `Dispatch`, `WF_vars(Tokenize)` in
`DoInit`: a sequential program takes its next step.  In `Flow` and `Dispatch` it
also assumes that user hooks end.  `RunAgain` is not part of `Step`: nobody has to
call `Run` again.  `Fsm` writes the weak fairness of its steps out (again and again a
step is taken or none is possible, `Runs`), because deciding `ENABLED` would compute
every step twice.  `Values` and the parser have no liveness property: their loops are
over finite maps and over tokens that are consumed.

## Theorems

| Theorem | Property | Assumptions |
|---|---|---|
| `FlowProofs!TypeCorrect` | `TypeOK` | none |
| `FlowProofs!Invariance` | `FlowInv`, inductive | `~ExiterReturns` (the real exiter is `os.Exit`) |
| `NoStrayAfter`, `NoLeak`, `NoReentry`, `ActionInside`, `LastError` | `ClosesWhatWasOpened`, `NothingLeftOpen`, `OnceInOrder`, `ActsWhenAllOpen`, `LastErrorWins` | the same |
| `FlowProofs!Promise` | the safety part of `KeepsPromise` | the same |
| `DoInitProofs!Lexed`, `Pinpointed` | `CutsIntoLexemes`, `ErrorAtFirstBadCharacter` | `ClassesAssumption`: letters, digits, blanks and punctuation are distinct characters, and the keyword is a word of upper case letters; `ProgramsAssumption`: declarations have names |
| `DoInitProofs!Bound` | `BindsThisRun` | the same |
| `ParserProofs!ParsesAnswer` | every production returns one answer, from any place of any spec (`IsParse`) | the value of a token for an option set is a sequence, and so are the declared options |
| `ParserProofs!AcceptsTheGrammar`, `GrammarAccepted` | a spec of any length and nesting parses exactly if it is `Valid`; `AcceptsGrammar` | the same; `TokensAssumption` says so of the alphabet |
| `ErrorsAtFirstBadToken`, `ErrorsPinpointed` | the error of a parse names the first token no spec of the grammar can have there, and what is before it can be completed; `ErrorAtFirstBadToken` | the same |
| `DoInitProofs!ReadOneWay` | no symbol of the grammar derives some tokens and more of them, unless a token follows that the symbol may go on with (`Goes`) | none |
| `DoInitProofs!BuildsTheMeaning`, `MeaningBuilt` | the automaton of a valid spec accepts the words the spec means, of any length; `BuildsMeaning` | those of `AcceptsTheGrammar`, and `WordsAssumption`: words of one matcher at least are compared |
| `DoInitProofs!DefaultMeant` | `DefaultSpecMeans` | those of `Lexed`, and `MaxWordAssumption`: the words compared are no shorter than a command without a spec has declarations |
| `ParserProofs!ParsedWaits` | the automaton of a spec waits for what its tokens stand for (`WaitsForTokens`) | the same |
| `DispatchProofs!Invariance` | `DispatchInv`, inductive | those of `Dispatch`: a tree whose application is nobody's sub command and has a spec that parses, policies, lines of words, and hooks that do not `Exit(0)`, which would say what a success says; an environment for every command (`EnvironmentsAssumption`) |
| `WholeLine`, `PlainLines`, `FailuresAsSet`, `Answered` | `HooksNeedAWholeLine`, `PlainLinesAreRead`, `FailuresEndAsSet`, `OneAnswer` | the same |
| `DispatchProofs!TypeCorrect` | `Dispatch!TypeOK` | the same, and `DepthAssumption`: no path of commands is longer than the bound |
| `SameAnswer` | `SameAnswerAgain` | the same |
| `ValuesProofs!Invariance` | `ValuesInv`, inductive | those of `Values`: single values have one default, numbers are numbers, an `int` is at least as wide as what is parsed, `apply` binds no key without a text |
| `LineWins`, `EnvironmentFlag`, `UserFlag`, `OneBroken` | `LineThenEnvironmentThenDefault`, `EnvironmentFlagIsTrue`, `ByUserIsTrue`, `AtMostOneBroken` | the same |
| `ValuesProofs!TypeCorrect` | `Values!TypeOK` | the same |
| `SimplifyProofs!TypeCorrect` | `Simplify!TypeOK` | `BuiltAssumption`: the transitions of an automaton lead to its states |
| `SimplifyProofs!Invariance` | `WalkInv`, inductive | the same |
| `NoShortcutLeft` | `LeftClean` | the same |
| `LanguageKept`, `SameWords` | `SameLanguage`, `KeepsLanguage` | the same, and a bound on words that is a number |
| `FsmProofs!TakesOrLeaves` | what a matcher leaves is a line again, lighter than the one it was asked about or that line itself with nothing bound (`AnswersTo`) | `NamesAssumption`: an equal sign names no option |
| `FsmProofs!TypeCorrect` | `Fsm!TypeOK` | `AutomataAssumption`: the automata are well formed, their matchers name something, and `means` is the automaton without its shortcuts; `BoundsAssumption`: a stack has room for a call |
| `FsmProofs!Invariance` | `Inv`, inductive | the same |
| `SearchIsSound`, `SearchIsComplete` | `AcceptedIsRead`, `RejectedIsUnread`: an accepted line is consumed by a word of the language, a rejected one by none | the same |
| `FindsReadings` | `FindsAReading` | the same, `LinesAssumption`, `NamesAssumption` |

They hold for every value of the other constants: any depth and any hooks; any
tree of commands, any aliases, any line, any answer of the specs and anything they
clear of the environment, any number of `Run`s; any options and arguments, kinds, environments and lines; any automaton,
whether or not the parser could have built it.

*Flow.*  None of the properties is inductive: they speak of histories, and a step
only sees the top frame.  `FlowInv` ties the two together: a waiting frame is in one of
the two recursive calls, in the one of the deferred function only after a hook
raised a value (`StackInv`); the running frame carries the last value raised and
the way out fits it (`ValueInv`); the running step is the last one reached,
without an error every step before it was passed, and with one it is an After or
`RootOut` (`OrderInv`); the Afters still to come belong to Befores that completed,
and those behind the running step were reached if theirs did (`NestInv`).  The main
proof has one case per action; what popping, replacing and pushing a frame do to
the stack is in lemmas.

*The refinement.*  The number of open levels is a cardinality of the histories, so
that each step must be shown to change it by one or not at all.  `HistoryInv` adds
what `FlowInv` does not say: a step that was reached has ended, but for the one
whose hook runs.  `EndsAreSteps` then shows, by the kind of the step that ends, that
it opens, acts, closes or fails as `Interceptors` does; every other action
stutters (`StaysStutters`) or ends the `Run` (`LeavingFinishes`).

*The tokenizer.*  `Cuts` computes from the end of a text to its start, the loop goes
the other way and does not know the rest.  So the invariant `Reads` speaks of every
text that goes on as the spec began: its cuttings are the tokens so far, followed by
the cuttings of what comes behind `pos`; and the spec up to `pos` is the beginning of
some text that can be cut.  For every branch of the loop there is then one lemma on the text at
`pos`: whatever comes later, the longest lexeme there is the one the branch
takes (`Leads`), nothing is there and the place may be passed over (`Passes`), or no lexeme can be
there (`Stuck`).  The last gives the error its place (`BadAt`): the characters up to it can
be completed, here each branch shows how, and one more cannot, or the place is one
of `Stricter`.  All of this is shown of the cuttings that leave out lone dashes.  `Lexed`
then compares them with the cuttings that do not: those are the ones of which every lone dash is
covered by a lexeme, as the `-` inside an option value is.

*Names.*  `LeadsToLast` says of an index that a name leads to the last that has
it, and no name to what does not have it.  The automaton is made in one step
from the tokens and the two indexes of that moment; that it waits for nothing else is
`ParsedWaits`.

*The parser.*  `seq`, `choice` and `atom` call each other, and that they come to an end at
all is half of the matter: a call has fewer tokens left than the one that makes it, or as
many and is of a production further down (`Size`).  But how many tokens a call leaves is
itself an answer of the recursion: the second component begins where the first ended.
So `RecursionWithin` builds the function and what it promises together:
every call answers a piece that has read on (`Returned`), the calls behind it are then
smaller (`Smaller`), and so the answer does not depend on the others (`SameAnswer`).
`Grows` is what every step keeps: states and transitions are added,
the position does not go back, and each transition is labelled with what a
token before it stands for (`AtomAnswers`, `AppendFollows`, `AddFollows`).

*The grammar.*  What derives from a symbol is a recursion over spans of tokens, which
`Derived` builds (a rule asks for shorter spans, or for the same span and a symbol below);
after `Rules` nothing of that recursion is needed any more.  A call of the parser knows
where it begins and not where it will end.  So what is said of it has two parts
(`ReadsSymbol`): what it has read derives from its symbol and is legal, and
if anything derives from the symbol that is legal and ends before a token that could not
go on (`Stops`), then it has read just that.  The second part is why one token of
lookahead is enough: after a part and before the next there is either the operator or a
token that may start an atom, never both (`Starts`).  Both parts are shown for
each way to make an element, a group and a repetition (`AtomReads`), for a part and
those behind it (`ChoiceJoins`, `SequenceJoins`), and over all calls by the same
recursion as `ParsesAnswer` (`CallsRead`).

*The errors of the parser.*  `ErrorAtFirstBadToken` says two things of the token `e` an error
names: what comes before it begins some spec, and nothing that agrees with it up to `e` is
one.  For the first the spec is written down: behind the tokens before `e` a `--` where
an element is missing, then the brackets that are open, innermost first (`Completed`).  That
a failed call can be completed in this way is again shown for each way to make an
element, a group and a repetition, then for a part and those behind it, and over all calls
(`CallInduction`): the call that failed sits in a group, the closing brackets end that group, and what its
callers read before it stays read.  The second part does not speak of the grammar at
all: two parses that have seen the same tokens make the same calls with the same answers,
unless one of them looks at a token behind those they share; so on a spec that agrees up to
`e` the parser fails as well, and by `AcceptsTheGrammar` it is no spec.

*The meaning of a spec.*  The parser hands on pieces of an automaton, copies one into
another (`AppendComp`), adds ways back and ways around them, while `Means` speaks of
sets of words and of no state.  Between the two a piece is the set of its transitions,
read as arcs: arcs *stand for* a set of words between two states if, whatever may follow
at the second, exactly one of those words and then that may follow at the first
(`Admits` and `Confines` of `StandFor`).  Pieces may be put together only where that adds no word that no part
has: a way back into a start that is shared, as in `A... B...`, would add some.  So the
invariant of the calls says besides the words where the arcs of a call may lie: of its
states only the first may have been there before (`AtomBuilt`, `ChoiceBuilt`,
`SequenceBuilt`), and no arc of a choice or of a sequence enters its first state or leaves its last
(`NoneInto`, `NoneFrom`).  One lemma for each way to put arcs together, in `Facts.tla`, says
what the result stands for; then come the ways to make an element, a group and a repetition,
a part and those behind it, and all calls by `CallInduction`.  On the other side `Means`
unites over every place where a span can be cut.  That there is but one is
`ReadOneWay`: with it the cut of the grammar is the place where the call of the parser
ended.  `LanguageOfArcs` comes back from arcs to the words that `Words` computes, with
their bound.

*The spec that is made up.*  `DefaultSpecMeans` is the way from declarations to an automaton:
names become characters, characters tokens, tokens again the names' variables.  `TextCut`
shows that the text of `MadeUp` can be cut in one way only, at every name and around the keyword,
because a space or a bracket ends each, and a name that can stand in a spec is never
the keyword.  As `CutsIntoLexemes` is an invariant, the
tokens are that cut, and with `TokenTexts` each has the text of its name (`MadeTokens`); `DefaultMeans`
computes what the grammar lets such tokens mean, and `BuildsTheMeaning` says that
the automaton accepts just that.  What makes it an invariant of `DoInit` is that a later `Run` does
not start afresh: the first one leaves its text in `Spec`, its options and its arguments, and
the initializer adds the same once more.  So `MadeInv` has two cases.  Until the spec is made up,
the arguments are those of the declarations made so far (`Fresh`); from then on only
their names are known, as a set, and that there are options if the program has any
(`Kept`), while the text stays that of one round of declarations (`MadeFor`).  That is enough, as the
indexes lead each name to the last that has it.  A command that declares nothing has an
empty text, and doInit makes it up in every `Run`.

*Dispatch.*  A hook runs many steps after the words that called for it were read.
`WayInv` keeps the cut of the line so far: the words between two commands on the path
call them, each accepted its part, and the arguments at hand are the rest of the
line.  `PlainInv` says that the path is the beginning of every plain reading, which
`PlainCut` carries over a refusal: the part that was refused is the one that
reading would have accepted.  `FoundInv` says with which values from the environment a
command is asked: those it found in this `Run`, or was given by its initializer, for no
command comes twice on a path.  For `FailuresEndAsSet` the copies of a command must be
compared with a path that knows of none: `HandlingsInv` says that the first copy of a
command has what its parent handed to it, which is `Inherited` of the path before (`Handed`),
or, once its own initializer ran, what `InForce` says; later copies come behind it.

*A second Run.*  `SameAnswerAgain` compares two histories, of which the first is only
known by how it ended.  So `AnswerInv` does not compare: it says that the line
determines the end.  `Answer` is what a command at a place of the line does with
it, by the constants alone if it has no options from the environment (`Free`), whose
flags then stay down whatever is declared again or cleared (`FreeKept`); and `Concludes` says that the path, the message and the
ending at `over` are the ones it determines; the ending needs an `ErrorHandling`
that was set before the command is asked and that setting it again does not change
(`Settled`): the copies that initializers add come behind the first, and the loop over
the sub commands finds the first.  Two ends of one line are then equal.  What is left open is the
ending of a `Run` whose hooks ran, which the hooks decide, and every line with a
command on the way whose options come from the environment: there the second `Run` may
answer differently, and does (see below).

*Values.*  The loop visits a map in any order, so the invariant says key by key: what
was visited holds what the line says, what was not holds what it held when the line
was accepted (`LineInv`), and that is what the environment, the default or an
earlier line left there (`EnvInv`, `UserInv`).  The lemmas compute what `SetAll`,
`Usable` and `Initial` answer.

*Simplification.*  That a state which was left keeps no shortcut is not enough at
the end: a state could be reached that was never visited.  The walk ranges over
transitions that `simplifySelf` replaces, so "everything behind a visited state will
be visited" is an invariant only in this form (`WayInv`): a set of states that
holds the visited ones and those the calls under way still have to visit, and with
an unvisited state its targets, holds the targets of every visited state.
At the end nothing is left to visit, the visited states themselves are such a set, and
`NoShortcutLeft` follows.  `LanguageKept` avoids words of a recursive definition: the
language of a state is the least assignment of words to states that is closed under
transitions and terminal marks, and one removal leaves the same assignments closed
that matter, also where the shortcut leads back to its own state or lies on a
cycle.  It holds of the automata on which the walk does not end, and of those on
which it crashes, up to that point.  `SameWords` carries it over to what the model
checker computes: the pairs of states that shortcuts join are found in as many rounds
as there are states, since a growing sequence of sets of that size must stand still
by then (`Saturation`), and the words of a number of matchers are those of a path
of as many jumps (`WordsAreTheLanguage`); what holds of every automaton stands in
`Facts.tla`, away from the simplification.

*Matchers.*  An `optMatcher` looks past other options and their values, cuts its own out
of the middle of the line, and may leave the rest of a cluster in its place; an
`optsMatcher` does so again and again.  `TakesOrLeaves` gives each argument a weight (a
letter of a cluster counts, so that `-ab` without its `a` is lighter) and shows
that what an answer leaves weighs less, or is the line as it was with nothing bound
(no match, or an option that is not there but has a value from the environment).
The scan is a recursive function of the place in the line, and the rounds one of
what is left: `Ranked` and `Computed` say that such a function, whose
calls are all for a smaller rank, is what its equation says.

*The search.*  `Read` says that a word of the language consumes a line: each of its
matchers, in turn, takes what it takes from what the one before left, the last leaves
nothing, and the bindings are theirs in that order.  `SearchIsSound` finds such a word
for every accepted line, `SearchIsComplete` finds none for a rejected one, where the
language is that of the automaton as it was *built*.  Between the two stand the walk,
which rewrites the automaton, and the sorts, which go on reordering it under the calls
that range over it.  So the invariant first carries `LanguageKept` and the
invariant of the walk over to the search, through every sort (`AutomatonInv`,
`PhaseInv`; when the search starts, `CleanBehind` and the end of the walk leave no
shortcut in reach).  Of the calls under way, `StackInv` says that each waits for the one
above it, at the state and with the arguments its first match leads to; that the matches
they follow spell the start of words which the language of the topmost state completes
(`Spelled`), from which soundness follows when the topmost state is terminal; and that an
open call from which some word reads the line still has an untried match from
which some word reads the rest (`CallInv`).  A match that is dropped by `Backtrack` led
to a call that had none left, so that no word reads the line from there
(`NothingLeft`): when the outermost call has none left either, no word of the spec
reads the line.  These proofs know nothing of what a matcher answers, only that it answers
the same when it is asked the same; they hold for a search that ends, and say nothing of
one that exhausts the stack.

`FindsAReading` compares the search with a computation instead, `ReadingsOf`, which goes
through the automaton as it was built level by level for a bounded number of rounds, and is
what the model checker evaluates.  What it has reached is spelled by a word of the
language (`ReachedSpells`), so that it invents no reading.  That it misses none is where the
matchers count: a step of a word lowers the weight that is left, or changes
nothing but the state (and, once, `rejectOptions`), by `TakesOrLeaves`.  Between two steps
that take something there are at most as many rounds as states until
no new state can be reached (`Saturation` again, `LevelReached`, `LevelEnds`), and there
are at most `Weight + 2` such levels; `MostSteps` rounds are enough (`EndsInTime`).  That these words are the ones the spec *means* is
`BuildsTheMeaning`.

Only model-checked, and why:

* Liveness (`Terminates`, `Ends`, `Answers`, and the fairness of the refinement): out
  of the prover's reach.
* `MeansWhatItSays`, `InventsNothing`, `RespectsOrder`, `GroupsAreChoices` and
  `EnvironmentOnlyHelps` compare what was bound with a reading of the line from left to
  right.  They need of every matcher what it does to that reading, which is
  more than that it takes something, and they do not hold of every line (several
  equal signs, an equal sign behind two letters: see below).

## Disagreements with the documentation

Runs show four of them, listed above and as findings.  The others were met while
modelling.  Some are within the bounds of passing runs, where a property names the exception
(`LoneDashes` and `Stricter` of the tokenizer, the premise of `SameAnswerAgain`);
the alphabets leave out the rest.  They
are listed here so that nobody takes the passing runs for more than they say.

Specs:

* `(--)...` matches without end (matchers.go 25).
* `[--]`, `(--)`, `A|--|B` and `--` before a tab are refused: the tokenizer takes two
  dashes for the end of options only before a space or at the end of the spec
  (spec_tk.go 136), where README.md 706-718 has `optEnd` wherever an atom may stand.
  So is `--[A]`, and `-a-b`, a dash behind short options (spec_tk.go 118-133), where the
  grammar asks for no space between atoms.  This is `Stricter`.
* The example of README.md 698, `time -lp [-- CMD [ARG...]]`, panics: `time` is
  not a token.
* A dash before a blank, a bracket, a digit is dropped in silence: the switch of
  spec_tk.go 115 has no default.  The grammar has no such specs.  This is `LoneDashes`.
* A long option may begin with a digit or `_` and hold `-` (spec_tk.go 214), beyond the
  grammar of README.md 712.
* Two options of one name: the help lists both, the line reaches the later one.  Two
  arguments of one name in a made-up spec: both places fill the later one.
* A made-up spec is not made again when a later initializer declares more.

Lines:

* With a value for `-e` in the environment `[OPTIONS]` rejects `-e x -e y`
  (matchers.go 234), where README.md 213-215 accumulates the values of a repeated
  option; and `[OPTIONS] A` refuses `-a -- --ee`, for the reason of `fsm_env_drops`.
* `app [ARG]` with a command `start` refuses `app -- start`: the line is cut at the
  first name of a sub command before any spec is asked (commands.go 524), where
  README.md 261-262 says that what follows `--` is an argument.  `app -o start`,
  where `-o` takes a value, is cut there too.
* A `--` that ends the line is refused where the spec could be at its end
  (fsm.go 214-226: `apply` drops it and does not look at the terminal mark again).
* `-ae=x` with a flag `a` binds `=x` to `e` if `e` is looked for first, and `x` if `a` is: only the
  second character of a cluster is compared with `=` (matchers.go 140).
* `-ba=x`: the matcher of `a` cuts `a` out of the middle and `x` goes to `b`
  (matchers.go 172).
* A dash inside a cluster comes to stand first when the flags before it are taken
  (matchers.go 173): `-a-ee` goes on as the long option `--ee`, `-a-` as `--`, which ends
  the options.  What it should mean is not documented; `CommandLine` reads what
  begins with the dash as an argument of its own (`Unfolded`), and the run has `-a-ee`.
* `--ee=x=y`: split at every `=`, the inline value is dropped and the next
  argument taken instead (matchers.go 104).
* `-a A` accepts `- -a`: the search goes past a lone dash, which is an argument
  (matchers.go 63), against README.md 606; so does `-e [A]` with `- --ee=x`.
* `-a -- A` accepts `-b -a` with `A` bound to `-b`: no position of a `--` in that
  line says so (README.md 693).
* `-ab -a` rejects `-a -a`: an option group takes all it can and is not tried with
  less, where README.md 646-656 says it is `(-a | -b)...` (matchers.go 249).
  `GroupsAreChoices` is the other half: a group accepts nothing else, and all of it if
  no option is named twice.

Values and `Run`s:

* A slice whose environment variable does not convert loses its default
  (utils.go 45), a single value keeps it (args_test.go 86-91).
* `panic(nil)` in a `Before`: with the old toolchains of `.travis.yml` `recover`
  answers nil and the success edge is taken, where doc.go 328-336 draws an error
  edge (flow.go 37).  The passing run has `panic(nil)`; the properties count the
  step as passed.
* On a build whose `int` has 32 bits a number beyond 2^31 wraps around (values.go
  110): `WidthAssumption` leaves such builds out, and without it
  `LineThenEnvironmentThenDefault` fails.
* In a second `Run` the half-set value of a line that was refused is still there
  with `SetByUser` down; `SetByUser` is never reset; and `valueSetFromEnv` of a slice,
  cleared by the first line that gave it, no longer lets it be left out, while that of
  a single value stays.  So with the spec `-e -e`, a slice `e` and a value for it in the
  environment, `-e x` is accepted by the first `Run` of an application and refused by the
  second (fsm.go 181 and matchers.go 54-91).
* The options of a sub command's earlier `Run`s stay in `c.options`, and so among those
  `[OPTIONS]` tries, with flags of their own: with the spec `[OPTIONS] X...` and a value for `e` in the
  environment the second `Run` accepts other lines than the first, as the old
  option, which no name reaches any more, matches once without being there: `-ex -- x`
  loses what follows `--` to it, and is refused.

## Not modelled

* *Help and drawing* (component "Help messages" and "Automaton drawing"): only text
  is laid out; no state changes and nothing is decided by it.
* *The typed constructors* (`BoolOpt`, `StringArg`, ..): they choose the kind of a value and
  call `mkOpt` or `mkArg`, which are modelled.
* In `DoInit`, a `Run` after a `doInit` that panicked.  `Dispatch` has it (`RunAgain`),
  but takes for granted that a spec that does not parse never will.  Nowhere: a spec of
  the application itself that does not parse (it panics before the line is read).
* In `Dispatch`, why a spec accepts its arguments: `Accepts` and `Clears` are constants.
  They may depend on the values from the environment in any way, and on nothing
  else that changes from `Run` to `Run`.
* strconv, `os.Getenv`, `sort`, Go's runtime: external; modelled by what the code
  relies on.
* User hooks that do not end, `runtime.Goexit`, and goroutines started by hooks.

## What is left

* Modelled, but in no property: which of several usable variables an option takes
  (`FromVar` has the values of all of them), and lines that give an option twice which
  also has a value from the environment.
* Of the matchers, one by one: that each takes from the line only what it binds, and
  leaves the rest to be read as before, for lines without the arguments listed above.
  It would bring `InventsNothing` and `MeansWhatItSays` within reach of a proof.
* A weaker exiter theorem: `NothingLeftOpen` with an exiter that returns.
* A composition of `Values`, `Fsm` and `Dispatch` over two `Run`s, which would compute the
  constants `Accepts` and `Clears` from specs.
