-------------------------------- MODULE Flow --------------------------------
(***************************************************************************)
(* The interceptor machinery of mow.cli: flow.go, with the chain of steps  *)
(* that Cmd.parse (commands.go) links and the exit helpers of cli.go.      *)
(*                                                                         *)
(* When a command line reaches a command at depth `depth`, Cmd.parse has   *)
(* linked one Before and one After step for every command on the way from  *)
(* the app (level 1) to that command, and runs the chain from RootIn.  The *)
(* hooks are user code: each may return, panic, or call cli.Exit, which is *)
(* a panic with a value of type exit.  step.run and step.callDo recurse    *)
(* into one another, so the model keeps Go's call stack: one frame per     *)
(* active step.run, and the panic that unwinds it, if any.                 *)
(*                                                                         *)
(* The steps of a chain are numbered along its success edges:              *)
(*    RootIn, Before(1) .. Before(depth), Action, After(depth) .. After(1),*)
(*    RootOut                                                              *)
(***************************************************************************)
EXTENDS Integers, Sequences, FiniteSets

CONSTANTS
  MaxDepth,       \* the longest command path (bound of the instance)
  Exits,          \* the values cli.Exit panics with: exit(code)
  Panics,         \* the other values user code panics with
  Nil,            \* Go's nil interface value
  NilPanics,      \* may a hook call panic(nil)?  recover() then answers nil
  ExiterReturns   \* FALSE: exiter is os.Exit.  TRUE: the stub of helper_test.go

ASSUME DepthAssumption == MaxDepth \in Nat \ {0}
ASSUME ValueAssumption == Exits \cap Panics = {} /\ Nil \notin Exits \cup Panics
ASSUME FlagAssumption  == NilPanics \in BOOLEAN /\ ExiterReturns \in BOOLEAN

VARIABLES
  depth,     \* the number of commands on the path, app and leaf included
  hooks,     \* the steps whose `do` is not nil
  stack,     \* the active calls of step.run, outermost first
  status,    \* what the top frame is about to do: see Statuses
  result,    \* the exit code or the panic value that leaves the flow
  reached,   \* history: the steps whose callDo was entered
  passed,    \* history: the steps whose callDo found nothing to recover
  failed,    \* history: the steps whose hook panicked
  raised     \* history: the last value a hook panicked with

vars == <<depth, hooks, stack, status, result, reached, passed, failed, raised>>

Raisable == Exits \cup Panics

(***************************************************************************)
(* The chain of steps.                                                     *)
(***************************************************************************)
RootIn    == 0
Before(i) == i
Action    == depth + 1
After(i)  == 2 * depth + 2 - i
RootOut   == 2 * depth + 2
Steps     == RootIn .. RootOut
Levels    == 1 .. depth

\* Mutant: the nil check on s.success is dropped.
HasSuccess_Always(s) == TRUE

HasSuccess(s) == s # RootOut
Success(s)    == s + 1

\* Mutants of the error edges: a Before escapes to the After of its own command
\* (error: newOutFlow), to the step after it, or straight to RootOut; an After
\* that panics skips the Afters above it.
Error_OwnAfter(s)     == IF s <= depth THEN After(s) ELSE s + 1
Error_GoesOn(s)       == s + 1
Error_BeforeToRoot(s) == IF s <= depth THEN RootOut ELSE s + 1
Error_AfterToRoot(s)  ==
  IF s <= depth THEN After(s - 1) ELSE IF s = Action THEN s + 1 ELSE RootOut

\* The error edges.  RootIn and RootOut have none, but no hook either.  A
\* Before escapes to the outFlow of its parent: the parent's After, or RootOut.
HasError(s) == s \notin {RootIn, RootOut}
Error(s)    == IF s <= depth THEN After(s - 1) ELSE s + 1

(***************************************************************************)
(* Frames of the call stack: the step, the parameter p of run, and where   *)
(* the frame stands.                                                       *)
(***************************************************************************)
Places ==
  { "enter",      \* run was called, callDo is next
    "do",         \* the hook is running
    "deferred",   \* callDo recovered a panic, s.error.run(e) is running
    "next",       \* callDo returned, the switch of run is next
    "success" }   \* s.success.run(p) is running

Statuses ==
  { "run",        \* the top frame executes
    "return",     \* a call has returned to the top frame (or to Run)
    "panic",      \* a panic with value result reaches the top frame (or leaves Run)
    "exited" }    \* os.Exit ended the process

Frame(s, p) == [step |-> s, p |-> p, at |-> "enter"]
Top         == stack[Len(stack)]
Below       == SubSeq(stack, 1, Len(stack) - 1)
At(place)   == stack # <<>> /\ status = "run" /\ Top.at = place
MoveTo(place) == Append(Below, [Top EXCEPT !.at = place])

Init ==
  /\ depth \in 1 .. MaxDepth
  /\ \E hs \in SUBSET (Levels \cup {After(i) : i \in Levels}) : hooks = hs \cup {Action}
  /\ stack = <<Frame(RootIn, Nil)>>
  /\ status = "run"
  /\ result = Nil
  /\ reached = {} /\ passed = {} /\ failed = {}
  /\ raised = Nil

(***************************************************************************)
(* callDo.                                                                 *)
(***************************************************************************)
CallDo ==
  /\ At("enter")
  /\ reached' = reached \cup {Top.step}
  /\ IF Top.step \in hooks
     THEN stack' = MoveTo("do") /\ UNCHANGED passed
     ELSE stack' = MoveTo("next") /\ passed' = passed \cup {Top.step}
  /\ UNCHANGED <<depth, hooks, status, result, failed, raised>>

HookReturns ==
  /\ At("do")
  /\ stack' = MoveTo("next")
  /\ passed' = passed \cup {Top.step}
  /\ UNCHANGED <<depth, hooks, status, result, reached, failed, raised>>

\* Mutant: the error chain is run with p, the earlier error, when there is one.
HookPanics_FirstWins(e) ==
  /\ At("do")
  /\ HasError(Top.step)
  /\ stack' = Append(MoveTo("deferred"),
                     Frame(Error(Top.step), IF Top.p = Nil THEN e ELSE Top.p))
  /\ failed' = failed \cup {Top.step}
  /\ raised' = e
  /\ UNCHANGED <<depth, hooks, status, result, reached, passed>>

\* The deferred function recovers e and runs the error chain with it.
HookPanics(e) ==
  /\ At("do")
  /\ HasError(Top.step)
  /\ stack' = Append(MoveTo("deferred"), Frame(Error(Top.step), e))
  /\ failed' = failed \cup {Top.step}
  /\ raised' = e
  /\ UNCHANGED <<depth, hooks, status, result, reached, passed>>

\* panic(nil): recover() stops it but answers nil, as if nothing had happened.
HookPanicsNil ==
  /\ NilPanics
  /\ At("do")
  /\ stack' = MoveTo("next")
  /\ passed' = passed \cup {Top.step}
  /\ failed' = failed \cup {Top.step}
  /\ UNCHANGED <<depth, hooks, status, result, reached, raised>>

(***************************************************************************)
(* The switch of run.                                                      *)
(***************************************************************************)
RunSuccess ==
  /\ At("next")
  /\ HasSuccess(Top.step)
  /\ stack' = Append(MoveTo("success"), Frame(Success(Top.step), Top.p))
  /\ UNCHANGED <<depth, hooks, status, result, reached, passed, failed, raised>>

AtEnd == At("next") /\ ~HasSuccess(Top.step)

EndReturns ==
  /\ AtEnd /\ Top.p = Nil
  /\ stack' = Below
  /\ status' = "return"
  /\ UNCHANGED <<depth, hooks, result, reached, passed, failed, raised>>

EndExits ==
  /\ AtEnd /\ Top.p \in Exits
  /\ result' = Top.p
  /\ IF ExiterReturns
     THEN stack' = Below /\ status' = "return"
     ELSE stack' = <<>> /\ status' = "exited"
  /\ UNCHANGED <<depth, hooks, reached, passed, failed, raised>>

EndPanics ==
  /\ AtEnd /\ Top.p \in Panics
  /\ result' = Top.p
  /\ stack' = Below
  /\ status' = "panic"
  /\ UNCHANGED <<depth, hooks, reached, passed, failed, raised>>

\* Mutant: every caller goes on to its switch, one whose s.success.run returned
\* included.
Return_RunsSwitch ==
  /\ status = "return" /\ stack # <<>>
  /\ stack' = MoveTo("next") /\ status' = "run"
  /\ UNCHANGED <<depth, hooks, result, reached, passed, failed, raised>>

(***************************************************************************)
(* A call of run is over: its caller goes on.  A caller in callDo's        *)
(* deferred function has recovered its panic, and callDo now returns.      *)
(***************************************************************************)
Return ==
  /\ status = "return" /\ stack # <<>>
  /\ IF Top.at = "deferred"
     THEN stack' = MoveTo("next") /\ status' = "run"
     ELSE stack' = Below /\ UNCHANGED status
  /\ UNCHANGED <<depth, hooks, result, reached, passed, failed, raised>>

\* Mutant: a frame whose deferred function runs the error chain recovers again.
Unwind_RecoversAgain ==
  /\ status = "panic" /\ stack # <<>>
  /\ IF Top.at = "deferred"
     THEN stack' = MoveTo("next") /\ status' = "run"
     ELSE stack' = Below /\ UNCHANGED status
  /\ UNCHANGED <<depth, hooks, result, reached, passed, failed, raised>>

\* No frame below recovers again: its deferred function has already started.
Unwind ==
  /\ status = "panic" /\ stack # <<>>
  /\ stack' = Below
  /\ UNCHANGED <<depth, hooks, status, result, reached, passed, failed, raised>>

Over       == stack = <<>>
Terminated == Over /\ UNCHANGED vars

Step ==
  \/ CallDo
  \/ HookReturns
  \/ \E e \in Raisable : HookPanics(e)
  \/ HookPanicsNil
  \/ RunSuccess
  \/ EndReturns
  \/ EndExits
  \/ EndPanics
  \/ Return
  \/ Unwind

Next == Step \/ Terminated

\* A sequential program: it takes its next step, and hooks are assumed to end.
Spec == Init /\ [][Next]_vars /\ WF_vars(Step)

(***************************************************************************)
(* Type invariant.                                                         *)
(***************************************************************************)
Frames == [step : Steps, p : Raisable \cup {Nil}, at : Places]

\* Every variable holds a value of the Go type it stands for.
TypeOK ==
  /\ depth \in 1 .. MaxDepth
  /\ hooks \in SUBSET (Steps \ {RootIn, RootOut})
  /\ stack \in Seq(Frames)
  /\ status \in Statuses
  /\ result \in Raisable \cup {Nil}
  /\ reached \in SUBSET Steps
  /\ passed \in SUBSET Steps
  /\ failed \in SUBSET Steps
  /\ raised \in Raisable \cup {Nil}

(***************************************************************************)
(* Properties of the real exiter, os.Exit, which never returns.            *)
(***************************************************************************)

\* An After interceptor runs only if the Before of its own command completed:
\* it never cleans up what was not set up (TestBeforeAndAfterFlowOrderWhen-
\* OneBeforePanics).
ClosesWhatWasOpened ==
  \A i \in Levels : After(i) \in reached => Before(i) \in passed

\* When the flow is over, by whatever way out, the After of every command whose
\* Before completed was run: panics and exits leak no set-up.
NothingLeftOpen ==
  Over => \A i \in Levels : Before(i) \in passed => After(i) \in reached

\* Steps run in the order of the chain and never twice: after an error the
\* unwinding frames of the calls below do not take up their success edges.
OnceInOrder ==
  At("enter") => \A s \in reached : s < Top.step

\* The action runs only when the Before of every command on the path completed.
ActsWhenAllOpen ==
  Action \in reached => \A i \in Levels : Before(i) \in passed

\* The caller sees the last error raised: Run returns normally only if no hook
\* raised a value, and an exit code or a panic value is never overtaken by an
\* earlier one (TestBeforeAndAfterFlowOrderWhenMultipleAftersPanic).
LastErrorWins ==
  Over => CASE status = "return" -> raised = Nil
            [] status = "exited" -> raised \in Exits /\ result = raised
            [] status = "panic"  -> raised \in Panics /\ result = raised
            [] OTHER -> FALSE

\* Every call of Run ends, however the hooks fail.
Terminates == <>Over

(***************************************************************************)
(* Refinement: a level is open from the end of its Before to the end of    *)
(* its After, counting as ended an After that panicked.                    *)
(***************************************************************************)
Ended == passed \cup failed

Abs == INSTANCE Interceptors WITH
  Errors <- Raisable,
  open   <- Cardinality({i \in Levels : Before(i) \in passed /\ After(i) \notin Ended}),
  phase  <- IF Over THEN "done"
            ELSE IF raised # Nil \/ Action \in passed THEN "up" ELSE "down",
  err    <- raised

\* The chain of steps keeps the promise of the documentation.
KeepsPromise == Abs!Spec
=============================================================================
