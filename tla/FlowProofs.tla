----------------------------- MODULE FlowProofs -----------------------------
(***************************************************************************)
(* Theorems about Flow, for every MaxDepth and every set of exit codes and *)
(* panic values, and its refinement of Interceptors.                       *)
(***************************************************************************)
EXTENDS Flow, Facts, FiniteSetTheorems, SequenceTheorems, TLAPS

(***************************************************************************)
(* The inductive invariant, for the exiter that never returns.             *)
(***************************************************************************)
Running == status = "run"
T       == Top.step

\* The frames that wait for a call: all but the top one while that one runs.
Waiting == IF Running THEN 1 .. Len(stack) - 1 ELSE 1 .. Len(stack)

\* A waiting frame is in one of the two recursive calls, and in the one of the
\* deferred function only after a hook raised a value.
StackInv ==
  /\ Running => stack # <<>> /\ Top.at \in {"enter", "do", "next"}
  /\ \A k \in Waiting : \/ stack[k].at = "success"
                        \/ raised # Nil /\ stack[k].at = "deferred"

\* The running frame carries the last raised value, and the way out fits it.
ValueInv ==
  /\ Running => Top.p = raised
  /\ status = "return" => raised = Nil
  /\ status = "exited" => raised \in Exits /\ result = raised /\ stack = <<>>
  /\ status = "panic"  => raised \in Panics /\ result = raised

\* The running step is the last one reached; without an error every step before
\* it was passed, and with one it is an After or RootOut.
OrderInv ==
  /\ passed \subseteq reached
  /\ Running =>
       /\ \A s \in reached : s <= T
       /\ T \in reached <=> Top.at # "enter"
       /\ Top.at = "do" => T \notin passed
       /\ Top.at = "next" => T \in passed
       /\ raised = Nil => \A s \in Steps : s < T => s \in passed
       /\ raised # Nil => T > Action

\* The Afters still to come belong to Befores that completed; those already
\* behind the running step were reached if theirs did.
NestInv ==
  \A i \in Levels :
    /\ After(i) \in reached => Before(i) \in passed
    /\ Running /\ T > Action /\ After(i) >= T => Before(i) \in passed
    /\ Before(i) \in passed /\ (Running => After(i) < T) => After(i) \in reached

FlowInv == TypeOK /\ StackInv /\ ValueInv /\ OrderInv /\ NestInv /\ ActsWhenAllOpen

(***************************************************************************)
(* The call stack.                                                         *)
(***************************************************************************)

\* The running frame, and the frames below it once its call is over.
LEMMA TopAndBelow ==
  ASSUME TypeOK, stack # <<>>
  PROVE  /\ Len(stack) \in Nat /\ Len(stack) > 0
         /\ Top \in Frames
         /\ Below \in Seq(Frames)
         /\ Len(Below) = Len(stack) - 1
         /\ \A k \in 1 .. Len(stack) - 1 : Below[k] = stack[k]
<1>1. stack \in Seq(Frames)
  BY DEF TypeOK
<1> QED BY <1>1, PoppedStack DEF Top, Below, Popped

\* The running frame moves to another place, and nothing else changes.
LEMMA Moved ==
  ASSUME TypeOK, stack # <<>>, NEW place \in Places
  PROVE  /\ MoveTo(place) \in Seq(Frames)
         /\ MoveTo(place) # <<>>
         /\ Len(MoveTo(place)) = Len(stack)
         /\ MoveTo(place)[Len(stack)] \in Frames
         /\ MoveTo(place)[Len(stack)].step = Top.step
         /\ MoveTo(place)[Len(stack)].p = Top.p
         /\ MoveTo(place)[Len(stack)].at = place
         /\ \A k \in 1 .. Len(stack) - 1 : MoveTo(place)[k] = stack[k]
<1> DEFINE e == [Top EXCEPT !.at = place]
<1>1. stack \in Seq(Frames) /\ Top \in Frames
  BY TopAndBelow DEF TypeOK
<1>2. e \in Frames /\ e.step = Top.step /\ e.p = Top.p /\ e.at = place
  BY <1>1 DEF Frames
<1>3. MoveTo(place) = WithTop(stack, e)
  BY DEF MoveTo, WithTop, Below, Popped
<1> HIDE DEF e
<1>4. /\ WithTop(stack, e) \in Seq(Frames)
      /\ WithTop(stack, e) # <<>>
      /\ Len(WithTop(stack, e)) = Len(stack)
      /\ WithTop(stack, e)[Len(stack)] = e
      /\ \A k \in 1 .. Len(stack) - 1 : WithTop(stack, e)[k] = stack[k]
  BY <1>1, <1>2, WithTopStack
<1> QED BY <1>2, <1>3, <1>4

\* The running frame waits for a call, whose frame f is the new top.
LEMMA Called ==
  ASSUME TypeOK, stack # <<>>, NEW place \in Places, NEW f \in Frames
  PROVE  /\ Append(MoveTo(place), f) \in Seq(Frames)
         /\ Append(MoveTo(place), f) # <<>>
         /\ Len(Append(MoveTo(place), f)) = Len(stack) + 1
         /\ Append(MoveTo(place), f)[Len(stack) + 1] = f
         /\ Append(MoveTo(place), f)[Len(stack)].at = place
         /\ \A k \in 1 .. Len(stack) - 1 : Append(MoveTo(place), f)[k] = stack[k]
<1> DEFINE m == MoveTo(place)
<1>1. /\ Len(stack) \in Nat /\ Len(stack) > 0
      /\ m \in Seq(Frames) /\ Len(m) = Len(stack) /\ m[Len(stack)].at = place
      /\ \A k \in 1 .. Len(stack) - 1 : m[k] = stack[k]
  BY TopAndBelow, Moved
<1> HIDE DEF m
<1>2. /\ Append(m, f) \in Seq(Frames)
      /\ Append(m, f) # <<>>
      /\ Len(Append(m, f)) = Len(m) + 1
      /\ \A k \in 1 .. Len(m) : Append(m, f)[k] = m[k]
      /\ Append(m, f)[Len(m) + 1] = f
  BY <1>1, AppendProperties
<1>3. Len(stack) \in 1 .. Len(m) /\ \A k \in 1 .. Len(stack) - 1 : k \in 1 .. Len(m)
  BY <1>1
<1>4. /\ Append(m, f) \in Seq(Frames)
      /\ Append(m, f) # <<>>
      /\ Len(Append(m, f)) = Len(stack) + 1
      /\ Append(m, f)[Len(stack) + 1] = f
      /\ Append(m, f)[Len(stack)].at = place
      /\ \A k \in 1 .. Len(stack) - 1 : Append(m, f)[k] = stack[k]
  BY <1>1, <1>2, <1>3
<1> QED BY <1>4 DEF m

(***************************************************************************)
(* Type correctness.                                                       *)
(***************************************************************************)

\* The chain of steps is closed under its success and error edges.
LEMMA ChainClosed ==
  ASSUME TypeOK
  PROVE  /\ depth \in Nat /\ depth > 0
         /\ RootIn \in Steps /\ RootOut \in Steps
         /\ \A s \in Steps : HasSuccess(s) => Success(s) \in Steps
         /\ \A s \in Steps : HasError(s) => Error(s) \in Steps
  BY DepthAssumption
     DEF TypeOK, Steps, RootIn, RootOut, HasSuccess, Success, HasError, Error, After

\* The initial values have their types.
LEMMA TypeCorrectInit == Init => TypeOK
<1> SUFFICES ASSUME Init PROVE TypeOK
  OBVIOUS
<1>1. depth \in 1 .. MaxDepth /\ depth \in Nat /\ depth > 0
  BY DepthAssumption DEF Init
<1>2. hooks \in SUBSET (Steps \ {RootIn, RootOut})
  BY <1>1 DEF Init, Levels, After, Action, Steps, RootIn, RootOut
<1>3. Frame(RootIn, Nil) \in Frames
  BY <1>1 DEF Frame, Frames, Steps, RootIn, RootOut, Places
<1>4. stack \in Seq(Frames)
  BY <1>3 DEF Init
<1> QED BY <1>1, <1>2, <1>4 DEF Init, TypeOK, Statuses

\* Every step keeps the types.
LEMMA TypeCorrectNext == TypeOK /\ [Next]_vars => TypeOK'
<1> SUFFICES ASSUME TypeOK, [Next]_vars PROVE TypeOK'
  OBVIOUS
<1>1. stack # <<>> => Top \in Frames
  BY TopAndBelow
<1>2. ASSUME stack # <<>>, depth' = depth PROVE /\ Below \in Seq(Frames')
                              /\ \A pl \in Places : MoveTo(pl) \in Seq(Frames')
                              /\ \A place \in Places, f \in Frames :
                                   Append(MoveTo(place), f) \in Seq(Frames')
  BY <1>2, TopAndBelow, Moved, Called DEF Frames, Steps, RootIn, RootOut
<1>3. depth' = depth => Frames' = Frames /\ Steps' = Steps
                        /\ RootIn' = RootIn /\ RootOut' = RootOut
  BY DEF Frames, Steps, RootIn, RootOut
<1> USE <1>1, <1>2, <1>3 DEF TypeOK, At
<1>4. CASE CallDo
  BY <1>4 DEF CallDo, Places, Frames
<1>5. CASE HookReturns
  BY <1>5 DEF HookReturns, Places, Frames
<1>6. ASSUME NEW e \in Raisable, HookPanics(e) PROVE TypeOK'
  <2>1. Frame(Error(Top.step), e) \in Frames
    BY <1>6, ChainClosed DEF HookPanics, Frame, Frames, Places
  <2> QED BY <1>6, <2>1 DEF HookPanics, Places, Frames
<1>7. CASE HookPanicsNil
  BY <1>7 DEF HookPanicsNil, Places, Frames
<1>8. CASE RunSuccess
  <2>1. Frame(Success(Top.step), Top.p) \in Frames
    BY <1>8, ChainClosed DEF RunSuccess, Frame, Frames, Places
  <2> QED BY <1>8, <2>1 DEF RunSuccess, Places
<1>9. CASE EndReturns
  BY <1>9 DEF EndReturns, AtEnd, Statuses
<1>10. CASE EndExits
  <2>1. <<>> \in Seq(Frames')
    OBVIOUS
  <2> QED BY <1>10, <2>1 DEF EndExits, AtEnd, Statuses, Raisable
<1>11. CASE EndPanics
  BY <1>11 DEF EndPanics, AtEnd, Statuses, Raisable
<1>12. CASE Return
  BY <1>12 DEF Return, Statuses, Places
<1>13. CASE Unwind
  BY <1>13 DEF Unwind
<1>14. CASE UNCHANGED vars
  BY <1>14 DEF vars
<1> QED BY <1>4, <1>5, <1>6, <1>7, <1>8, <1>9, <1>10, <1>11, <1>12, <1>13, <1>14
        DEF Next, Step, Terminated

\* Every variable keeps its type: the chain never runs past its end, and no step
\* without an error edge has a hook to recover from.
THEOREM TypeCorrect == Spec => []TypeOK
BY TypeCorrectInit, TypeCorrectNext, PTL DEF Spec

(***************************************************************************)
(* The invariant is inductive.  Of the call stack its steps use only what  *)
(* the next three lemmas say.                                              *)
(***************************************************************************)

\* The running frame moves on within its call.
LEMMA RunsOn ==
  ASSUME TypeOK, StackInv, Running, status' = status, raised' = raised,
         NEW place \in {"enter", "do", "next"}, stack' = MoveTo(place)
  PROVE  StackInv' /\ Running' /\ T' = T /\ Top'.p = Top.p /\ Top'.at = place
<1>1. place \in Places /\ stack # <<>>
  BY DEF Places, StackInv
<1>2. /\ Len(stack') = Len(stack) /\ stack' # <<>>
      /\ Top' = stack'[Len(stack)]
      /\ Top'.step = Top.step /\ Top'.p = Top.p /\ Top'.at = place
      /\ \A k \in 1 .. Len(stack) - 1 : stack'[k] = stack[k]
  BY <1>1, Moved DEF Top
<1> QED BY <1>2 DEF StackInv, Running, Waiting, T

\* The running frame calls run again, from the place it then waits at.
LEMMA Calls ==
  ASSUME TypeOK, StackInv, Running, status' = status,
         raised' = raised \/ raised' # Nil,
         NEW place \in {"deferred", "success"}, place = "deferred" => raised' # Nil,
         NEW f \in Frames, f.at = "enter", stack' = Append(MoveTo(place), f)
  PROVE  StackInv' /\ Running' /\ Top' = f
<1>1. place \in Places /\ stack # <<>>
  BY DEF Places, StackInv
<1>2. Len(stack) \in Nat /\ Len(stack) > 0
  BY <1>1, TopAndBelow
<1>3. /\ Len(stack') = Len(stack) + 1 /\ stack' # <<>>
      /\ Top' = f
      /\ stack'[Len(stack)].at = place
      /\ \A k \in 1 .. Len(stack) - 1 : stack'[k] = stack[k]
  BY <1>1, Called DEF Top
<1> QED BY <1>2, <1>3 DEF StackInv, Running, Waiting

\* A call is over, and the frames below still wait.
LEMMA Pops ==
  ASSUME TypeOK, StackInv, stack # <<>>, ~Running', raised' = raised, stack' = Below
  PROVE  StackInv'
<1>1. /\ Len(stack) \in Nat /\ Len(stack') = Len(stack) - 1
      /\ \A k \in 1 .. Len(stack) - 1 : stack'[k] = stack[k]
  BY TopAndBelow
<1> QED BY <1>1 DEF StackInv, Running, Waiting

\* On the way out no frame takes up its switch again: each call is just over.
LEMMA Leaves ==
  ASSUME TypeOK, StackInv, ValueInv, Return \/ Unwind
  PROVE  /\ ~Running /\ stack # <<>> /\ ~Running'
         /\ stack' = Below /\ status' = status
         /\ UNCHANGED <<depth, reached, passed, failed, raised, result>>
<1>1. ~Running /\ stack # <<>> /\ UNCHANGED <<depth, reached, passed, failed, raised, result>>
  BY DEF Return, Unwind, Running
<1>2. stack' = Below /\ status' = status
  <2>1. CASE Unwind
    BY <2>1 DEF Unwind
  <2>2. CASE Return
    <3>1. raised = Nil
      BY <2>2 DEF Return, ValueInv
    <3>2. Top.at = "success"
      BY <1>1, <3>1, TopAndBelow DEF StackInv, Waiting, Top
    <3> QED BY <2>2, <3>2 DEF Return
  <2> QED BY <2>1, <2>2
<1> QED BY <1>1, <1>2 DEF Running

\* The invariant holds initially.
LEMMA InitInv == Init => FlowInv
<1> SUFFICES ASSUME Init PROVE FlowInv
  OBVIOUS
<1>1. TypeOK
  BY TypeCorrectInit
<1>2. Top = Frame(RootIn, Nil) /\ Len(stack) = 1
  BY DEF Init, Top
<1> QED BY <1>1, <1>2
        DEF Init, FlowInv, StackInv, ValueInv, OrderInv, NestInv, ActsWhenAllOpen,
            Running, T, Waiting, Frame, RootIn, Steps, Levels, Before, After, Action

\* With os.Exit as the exiter every step keeps the invariant.
LEMMA NextInv ==
  ASSUME ~ExiterReturns, FlowInv, [Next]_vars
  PROVE  FlowInv'
<1>1. TypeOK'
  BY TypeCorrectNext DEF FlowInv
<1>2. /\ depth \in Nat /\ depth > 0 /\ depth' = depth
      /\ Steps \subseteq Int /\ (Top.step \in Steps \/ stack = <<>>)
      /\ reached \subseteq Int /\ Levels' = Levels /\ Steps' = Steps /\ Action' = Action
  <2>1. TypeOK /\ depth \in Nat /\ depth > 0 /\ Steps \subseteq Int
    BY ChainClosed DEF FlowInv, Steps, RootIn, RootOut
  <2>2. Top.step \in Steps \/ stack = <<>>
    BY <2>1, TopAndBelow DEF Frames
  <2>3. reached \subseteq Int
    BY <2>1 DEF TypeOK
  <2>4. depth' = depth
    BY DEF Next, Step, Terminated, vars, CallDo, HookReturns, HookPanics, HookPanicsNil, RunSuccess,
           EndReturns, EndExits, EndPanics, Return, Unwind
  <2>5. Levels' = Levels /\ Steps' = Steps /\ Action' = Action
    BY <2>4 DEF Levels, Action, Steps, RootOut
  <2> QED BY <2>1, <2>2, <2>3, <2>4, <2>5
<1> USE <1>1, <1>2 DEF FlowInv
<1>3. CASE CallDo
  <2>1. PICK place \in {"do", "next"} : stack' = MoveTo(place)
                                    /\ passed' = IF place = "do" THEN passed ELSE passed \cup {T}
    BY <1>3 DEF CallDo, T
  <2>2. /\ Running /\ Top.at = "enter" /\ stack # <<>>
        /\ reached' = reached \cup {T}
        /\ status' = status /\ raised' = raised /\ result' = result
    BY <1>3 DEF CallDo, At, Running, T
  <2>3. StackInv' /\ Running' /\ T' = T /\ Top'.p = Top.p /\ Top'.at = place
    BY <2>1, <2>2, RunsOn
  <2>4. ValueInv'
    BY <2>2, <2>3 DEF ValueInv, Running
  <2>5. T \in Steps /\ T \in Int
    BY <2>2 DEF T
  <2>6. OrderInv'
    <3>1. /\ passed \subseteq reached /\ T \notin reached
          /\ \A s \in reached : s <= T
          /\ raised = Nil => \A s \in Steps : s < T => s \in passed
          /\ raised # Nil => T > Action
      BY <2>2 DEF OrderInv
    <3>2. passed' \subseteq reached' /\ (place = "next" <=> T \in passed')
      BY <2>1, <2>2, <3>1
    <3>3. \A s \in reached' : s <= T
      BY <2>2, <2>5, <3>1
    <3>4. raised' = Nil => \A s \in Steps : s < T => s \in passed'
      BY <2>1, <2>2, <3>1
    <3> QED BY <2>1, <2>2, <2>3, <3>1, <3>2, <3>3, <3>4 DEF OrderInv
  <2>7. NestInv'
    BY <2>1, <2>2, <2>3, <2>5 DEF NestInv, OrderInv, Levels, Before, After, Action
  <2>8. ActsWhenAllOpen'
    BY <2>1, <2>2, <2>3, <2>5
       DEF ActsWhenAllOpen, OrderInv, Levels, Before, Action, Steps, RootIn, RootOut
  <2> QED BY <2>3, <2>4, <2>6, <2>7, <2>8
<1>4. CASE HookReturns \/ HookPanicsNil
  <2>1. /\ Running /\ Top.at = "do" /\ stack # <<>>
        /\ stack' = MoveTo("next") /\ passed' = passed \cup {T}
        /\ UNCHANGED <<reached, status, raised, result>>
    BY <1>4 DEF HookReturns, HookPanicsNil, At, Running, T
  <2>2. StackInv' /\ Running' /\ T' = T /\ Top'.p = Top.p /\ Top'.at = "next"
    BY <2>1, RunsOn
  <2>3. ValueInv'
    BY <2>1, <2>2 DEF ValueInv, Running
  <2>4. T \in Steps /\ T \in Int
    BY <2>1 DEF T
  <2>5. OrderInv'
    BY <2>1, <2>2, <2>4 DEF OrderInv
  <2>6. NestInv'
    BY <2>1, <2>2, <2>4 DEF NestInv, OrderInv, Levels, Before, After, Action
  <2>7. ActsWhenAllOpen'
    BY <2>1, <2>2, <2>4 DEF ActsWhenAllOpen, Levels, Before
  <2> QED BY <2>2, <2>3, <2>5, <2>6, <2>7
<1>5. ASSUME NEW e \in Raisable, HookPanics(e) PROVE FlowInv'
  <2> DEFINE f == Frame(Error(T), e)
  <2>1. /\ Running /\ Top.at = "do" /\ stack # <<>> /\ HasError(T)
        /\ stack' = Append(MoveTo("deferred"), f)
        /\ UNCHANGED <<reached, passed, status, result>>
        /\ raised' = e /\ e # Nil
    BY <1>5, ValueAssumption DEF HookPanics, At, Running, T, Raisable
  <2>2. f \in Frames /\ f.at = "enter" /\ f.step = Error(T) /\ f.p = e
    BY <1>5, <2>1, ChainClosed DEF Frame, Frames, Places, T
  <2>3. StackInv' /\ Running' /\ Top' = f
    BY <2>1, <2>2, Calls
  <2>4. T' = Error(T) /\ Top'.p = raised' /\ Top'.at = "enter"
    BY <2>1, <2>2, <2>3 DEF T
  <2> HIDE DEF f
  <2>5. ValueInv'
    BY <2>3, <2>4 DEF ValueInv, Running
  <2>6. T \in Steps /\ T \in Int /\ T # RootIn /\ T # RootOut
    BY <2>1 DEF T, HasError
  <2>7. Error(T) \in Int /\ Error(T) > T /\ Error(T) > Action
    BY <2>6 DEF Error, After, Action, Steps, RootIn, RootOut
  <2>8. /\ passed \subseteq reached /\ T \in reached /\ T \notin passed
        /\ \A s \in reached : s <= T
        /\ raised = Nil => \A s \in Steps : s < T => s \in passed
        /\ raised # Nil => T > Action
    BY <2>1 DEF OrderInv
  <2>9. OrderInv'
    <3>1. \A s \in reached' : s <= Error(T) /\ s # Error(T)
      BY <2>1, <2>6, <2>7, <2>8
    <3> QED BY <2>1, <2>3, <2>4, <2>7, <2>8, <3>1 DEF OrderInv
  <2>10. NestInv'
    <3> SUFFICES ASSUME NEW i \in Levels
                 PROVE  /\ After(i) \in reached => Before(i) \in passed
                        /\ After(i) >= Error(T) => Before(i) \in passed
                        /\ Before(i) \in passed /\ After(i) < Error(T) => After(i) \in reached
      BY <2>1, <2>3, <2>4 DEF NestInv, After, Before
    <3>1. CASE T <= depth
      BY <2>6, <2>8, <3>1
         DEF NestInv, Error, After, Before, Action, Steps, RootIn, RootOut, Levels
    <3>2. CASE T = Action
      BY <2>6, <2>8, <3>2
         DEF NestInv, Error, After, Before, Action, Steps, RootIn, RootOut, Levels
    <3>3. CASE T > Action
      BY <2>1, <2>6, <2>8, <3>3
         DEF NestInv, Error, After, Before, Action, Steps, RootIn, RootOut, Levels
    <3> QED BY <2>6, <3>1, <3>2, <3>3 DEF Action
  <2>11. ActsWhenAllOpen'
    BY <2>1 DEF ActsWhenAllOpen, Levels, Before
  <2> QED BY <2>3, <2>5, <2>9, <2>10, <2>11
<1>6. CASE RunSuccess
  <2> DEFINE f == Frame(Success(T), Top.p)
  <2>1. /\ Running /\ Top.at = "next" /\ stack # <<>> /\ HasSuccess(T)
        /\ stack' = Append(MoveTo("success"), f)
        /\ UNCHANGED <<reached, passed, status, result, raised>>
    BY <1>6 DEF RunSuccess, At, Running, T
  <2>2. f \in Frames /\ f.at = "enter" /\ f.step = Success(T) /\ f.p = Top.p
    <3>1. Top.p \in Raisable \cup {Nil} /\ Success(T) \in Steps
      BY <2>1, TopAndBelow, ChainClosed DEF Frames, T
    <3> QED BY <3>1 DEF Frame, Frames, Places
  <2>3. StackInv' /\ Running' /\ Top' = f
    BY <2>1, <2>2, Calls
  <2>4. T' = T + 1 /\ Top'.p = Top.p /\ Top'.at = "enter"
    BY <2>1, <2>2, <2>3 DEF T, Success
  <2> HIDE DEF f
  <2>5. ValueInv'
    BY <2>1, <2>3, <2>4 DEF ValueInv, Running
  <2>6. T \in Steps /\ T \in Int
    BY <2>1 DEF T
  <2>7. /\ passed \subseteq reached /\ T \in passed
        /\ \A s \in reached : s <= T
        /\ raised = Nil => \A s \in Steps : s < T => s \in passed
        /\ raised # Nil => T > Action
    BY <2>1 DEF OrderInv
  <2>8. OrderInv'
    <3>1. \A s \in reached' : s <= T + 1 /\ s # T + 1
      BY <2>1, <2>6, <2>7
    <3>2. raised = Nil => \A s \in Steps : s < T + 1 => s \in passed
      BY <2>6, <2>7
    <3>3. raised # Nil => T + 1 > Action
      BY <2>6, <2>7 DEF Action
    <3> QED BY <2>1, <2>3, <2>4, <2>7, <3>1, <3>2, <3>3 DEF OrderInv
  <2>9. NestInv'
    <3> SUFFICES ASSUME NEW i \in Levels
                 PROVE  /\ After(i) \in reached => Before(i) \in passed
                        /\ T + 1 > Action /\ After(i) >= T + 1 => Before(i) \in passed
                        /\ Before(i) \in passed /\ After(i) < T + 1 => After(i) \in reached
      BY <2>1, <2>3, <2>4 DEF NestInv, After, Before
    <3>1. CASE T = Action
      BY <2>6, <2>7, <3>1
         DEF NestInv, After, Before, Action, Steps, RootIn, RootOut, Levels
    <3>2. CASE T # Action
      BY <2>1, <2>6, <2>7, <3>2
         DEF NestInv, After, Before, Action, Steps, RootIn, RootOut, Levels
    <3> QED BY <3>1, <3>2
  <2>10. ActsWhenAllOpen'
    BY <2>1 DEF ActsWhenAllOpen, Levels, Before
  <2> QED BY <2>3, <2>5, <2>8, <2>9, <2>10
<1>7. CASE EndReturns \/ EndExits \/ EndPanics
  <2>1. /\ Running /\ Top.at = "next" /\ stack # <<>> /\ T = RootOut
        /\ UNCHANGED <<reached, passed, raised>>
        /\ status' \in {"return", "exited", "panic"}
        /\ stack' = Below \/ stack' = <<>>
    BY <1>7 DEF EndReturns, EndExits, EndPanics, AtEnd, HasSuccess, At, Running, T
  <2>2. ~Running'
    BY <2>1 DEF Running
  <2>3. StackInv'
    <3>1. CASE stack' = Below
      BY <2>1, <2>2, <3>1, Pops
    <3>2. CASE stack' = <<>>
      <4>1. Len(stack') = 0
        BY <3>2
      <4> QED BY <2>2, <4>1 DEF StackInv, Waiting, Running
    <3> QED BY <2>1, <3>1, <3>2
  <2>4. ValueInv'
    <3>1. Top.p = raised
      BY <2>1 DEF ValueInv
    <3> QED BY <1>7, <2>1, <3>1
            DEF ValueInv, Running, EndReturns, EndExits, EndPanics, AtEnd
  <2>5. OrderInv'
    BY <2>1, <2>2 DEF OrderInv
  <2>6. NestInv'
    <3> SUFFICES ASSUME NEW i \in Levels
                 PROVE  /\ After(i) \in reached => Before(i) \in passed
                        /\ Before(i) \in passed => After(i) \in reached
      BY <2>1, <2>2 DEF NestInv, After, Before
    <3>1. After(i) < T
      BY <2>1 DEF After, RootOut, Levels
    <3> QED BY <2>1, <3>1 DEF NestInv
  <2>7. ActsWhenAllOpen'
    BY <2>1 DEF ActsWhenAllOpen, Levels, Before
  <2> QED BY <2>3, <2>4, <2>5, <2>6, <2>7
<1>8. CASE Return \/ Unwind
  <2>1. /\ ~Running /\ stack # <<>> /\ ~Running'
        /\ stack' = Below /\ status' = status
        /\ UNCHANGED <<reached, passed, failed, raised, result>>
    BY <1>8, Leaves
  <2>2. StackInv'
    BY <2>1, Pops
  <2>3. ValueInv'
    BY <1>8, <2>1 DEF ValueInv, Running, Return, Unwind
  <2>4. OrderInv'
    BY <2>1 DEF OrderInv
  <2>5. NestInv'
    BY <2>1 DEF NestInv, After, Before
  <2>6. ActsWhenAllOpen'
    BY <2>1 DEF ActsWhenAllOpen, Levels, Before
  <2> QED BY <2>2, <2>3, <2>4, <2>5, <2>6
<1>9. CASE UNCHANGED vars
  BY <1>9 DEF vars, StackInv, ValueInv, OrderInv, NestInv, ActsWhenAllOpen,
              Running, Waiting, T, Top, Levels, Before, After, Action, Steps,
              RootIn, RootOut
<1> QED BY <1>3, <1>4, <1>5, <1>6, <1>7, <1>8, <1>9 DEF Next, Step, Terminated

(***************************************************************************)
(* The theorems.                                                           *)
(***************************************************************************)

\* The chain of steps with os.Exit as its exiter keeps the invariant for ever.
THEOREM Invariance == ASSUME ~ExiterReturns PROVE Spec => []FlowInv
<1>1. FlowInv /\ [Next]_vars => FlowInv'
  BY NextInv
<1> QED BY InitInv, <1>1, PTL DEF Spec

\* An After interceptor never runs without the Before of its own command.
THEOREM NoStrayAfter == ASSUME ~ExiterReturns PROVE Spec => []ClosesWhatWasOpened
<1>1. FlowInv => ClosesWhatWasOpened
  BY DEF FlowInv, NestInv, ClosesWhatWasOpened
<1> QED BY <1>1, Invariance, PTL

\* However the flow ends, no command whose Before completed misses its After.
THEOREM NoLeak == ASSUME ~ExiterReturns PROVE Spec => []NothingLeftOpen
<1>1. FlowInv => NothingLeftOpen
  BY DEF FlowInv, NestInv, StackInv, NothingLeftOpen, Over
<1> QED BY <1>1, Invariance, PTL

\* Steps run at most once and in the order of the chain, whatever panics.
THEOREM NoReentry == ASSUME ~ExiterReturns PROVE Spec => []OnceInOrder
<1>1. FlowInv => OnceInOrder
  <2> SUFFICES ASSUME FlowInv, At("enter"), NEW s \in reached PROVE s < Top.step
    BY DEF OnceInOrder
  <2>1. s <= T /\ T \notin reached
    BY DEF FlowInv, OrderInv, At, Running
  <2>2. T \in Int /\ s \in Int
    BY ChainClosed, TopAndBelow
       DEF FlowInv, At, T, Frames, Steps, RootIn, RootOut, TypeOK
  <2> QED BY <2>1, <2>2 DEF T
<1> QED BY <1>1, Invariance, PTL

\* The action runs only inside all the Befores of its path.
THEOREM ActionInside == ASSUME ~ExiterReturns PROVE Spec => []ActsWhenAllOpen
<1>1. FlowInv => ActsWhenAllOpen
  BY DEF FlowInv
<1> QED BY <1>1, Invariance, PTL

\* The exit code or panic value that leaves Run is the last one raised.
THEOREM LastError == ASSUME ~ExiterReturns PROVE Spec => []LastErrorWins
<1>1. FlowInv => LastErrorWins
  <2> SUFFICES ASSUME FlowInv, Over PROVE LastErrorWins
    BY DEF LastErrorWins
  <2>1. status \in {"return", "exited", "panic"}
    BY DEF FlowInv, TypeOK, Statuses, StackInv, Running, Over
  <2> QED BY <2>1 DEF FlowInv, ValueInv, LastErrorWins
<1> QED BY <1>1, Invariance, PTL

(***************************************************************************)
(* The safety part of KeepsPromise: with os.Exit as its exiter each step   *)
(* of Flow is one of Interceptors, or changes nothing of what these see.   *)
(***************************************************************************)
OpenLevels == {i \in Levels : Before(i) \in passed /\ After(i) \notin Ended}
PastAction == raised # Nil \/ Action \in passed

\* What FlowInv leaves out of the histories: a step that was reached has ended,
\* but for the one whose hook runs, and the way out leads past the action.
HistoryInv ==
  /\ failed \subseteq reached
  /\ Running /\ Top.at = "do" => T \notin failed
  /\ \A s \in reached : s \in Ended \/ (Running /\ Top.at = "do" /\ s = T)
  /\ ~Running => PastAction

PromiseInv == FlowInv /\ HistoryInv

(***************************************************************************)
(* Facts about one state of the promise.                                   *)
(***************************************************************************)

\* The number of open levels is one of 0 .. depth, all of them only if every
\* level is open.
LEMMA OpenCount ==
  ASSUME TypeOK
  PROVE  /\ IsFiniteSet(OpenLevels) /\ Cardinality(OpenLevels) \in Nat
         /\ Cardinality(Levels) = depth
         /\ \A i \in Levels \ OpenLevels :
              /\ Cardinality(OpenLevels \cup {i}) = Cardinality(OpenLevels) + 1
              /\ Cardinality(OpenLevels) < depth
         /\ \A i \in OpenLevels :
              /\ Cardinality(OpenLevels \ {i}) = Cardinality(OpenLevels) - 1
              /\ Cardinality(OpenLevels) > 0
<1>1. depth \in Nat /\ depth > 0
  BY ChainClosed
<1>2. IsFiniteSet(Levels) /\ Cardinality(Levels) = depth
  <2>1. /\ IsFiniteSet(1 .. depth)
        /\ Cardinality(1 .. depth) = IF 1 > depth THEN 0 ELSE depth - 1 + 1
    BY <1>1, FS_Interval
  <2> QED BY <1>1, <2>1 DEF Levels
<1>3. OpenLevels \in SUBSET Levels
  BY DEF OpenLevels
<1> HIDE DEF OpenLevels, Levels
<1>4. IsFiniteSet(OpenLevels) /\ Cardinality(OpenLevels) \in Nat
  BY <1>2, <1>3, FS_Subset, FS_CardinalityType
<1>5. ASSUME NEW i \in Levels \ OpenLevels
      PROVE  /\ Cardinality(OpenLevels \cup {i}) = Cardinality(OpenLevels) + 1
             /\ Cardinality(OpenLevels) < depth
  <2>1. Cardinality(OpenLevels \cup {i}) = Cardinality(OpenLevels) + 1
    BY <1>4, FS_AddElement
  <2>2. OpenLevels \cup {i} \in SUBSET Levels
    BY <1>3
  <2>3. Cardinality(OpenLevels \cup {i}) <= Cardinality(Levels)
    BY <1>2, <2>2, FS_Subset
  <2> QED BY <1>1, <1>2, <1>4, <2>1, <2>3
<1>6. ASSUME NEW i \in OpenLevels
      PROVE  /\ Cardinality(OpenLevels \ {i}) = Cardinality(OpenLevels) - 1
             /\ Cardinality(OpenLevels) > 0
  <2>1. Cardinality(OpenLevels \ {i}) = Cardinality(OpenLevels) - 1
    BY <1>4, FS_RemoveElement
  <2>2. IsFiniteSet(OpenLevels \ {i}) /\ Cardinality(OpenLevels \ {i}) \in Nat
    BY <1>4, FS_RemoveElement, FS_CardinalityType
  <2> QED BY <1>4, <2>1, <2>2
<1> QED BY <1>2, <1>4, <1>5, <1>6

\* On the way down the levels below the running step are open and no other.
LEMMA WayDown ==
  ASSUME PromiseInv, Running, T <= Action
  PROVE  /\ raised = Nil /\ (T \notin passed => Action \notin passed)
         /\ \A i \in Levels : /\ After(i) \notin Ended
                              /\ i < T => i \in OpenLevels
                              /\ i > T => i \notin OpenLevels
<1>1. /\ depth \in Nat /\ T \in Steps /\ T \in Int
      /\ reached \subseteq Int /\ Ended \subseteq reached /\ passed \subseteq reached
  BY ChainClosed, TopAndBelow
     DEF PromiseInv, FlowInv, TypeOK, StackInv, T, Frames, Steps, RootIn, RootOut,
         HistoryInv, OrderInv, Ended
<1>2. /\ raised = Nil
      /\ \A s \in reached : s <= T
      /\ \A s \in Steps : s < T => s \in passed
  BY <1>1 DEF PromiseInv, FlowInv, OrderInv, Action
<1>3. Action \in Int /\ (T \notin passed => Action \notin passed)
  <2>1. Action \in Int
    BY <1>1 DEF Action
  <2>2. Action \in passed => Action <= T
    BY <1>1, <1>2
  <2> QED BY <1>1, <2>1, <2>2
<1>4. ASSUME NEW i \in Levels
      PROVE  /\ After(i) \notin Ended
             /\ i < T => i \in OpenLevels
             /\ i > T => i \notin OpenLevels
  <2>1. i \in Int /\ i \in Steps /\ After(i) \in Int /\ After(i) > Action
    BY <1>1 DEF Levels, Steps, RootIn, RootOut, After, Action
  <2>2. After(i) \notin Ended
    BY <1>1, <1>2, <1>3, <2>1
  <2>3. i > T => i \notin passed
    BY <1>1, <1>2, <2>1
  <2> QED BY <1>2, <2>1, <2>2, <2>3 DEF OpenLevels, Before
<1> QED BY <1>2, <1>3, <1>4

(***************************************************************************)
(* The steps of the promise.                                               *)
(***************************************************************************)

\* The end of a step of the chain: it passes, or its hook raises a value.
Ends ==
  /\ T \notin Ended /\ Ended' = Ended \cup {T}
  /\ \/ passed' = passed \cup {T} /\ raised' = raised
     \/ passed' = passed /\ raised' \in Raisable /\ HasError(T)

\* The mapped variables, without the instance.
Stays == /\ OpenLevels' = OpenLevels /\ PastAction' = PastAction
         /\ UNCHANGED <<depth, raised>> /\ Over' = Over

\* What the mapping does not see is a stuttering step of the promise.
LEMMA StaysStutters == Stays => UNCHANGED Abs!absVars
BY DEF Stays, Abs!absVars, OpenLevels, PastAction

\* The end of a step opens a level, turns back, acts or closes a level; RootIn
\* and RootOut do none of these.
LEMMA EndsAreSteps ==
  ASSUME PromiseInv, Running, Ends, depth' = depth, stack' # <<>>
  PROVE  Abs!Next \/ UNCHANGED Abs!absVars
<1>1. /\ depth \in Nat /\ depth > 0 /\ T \in 0 .. 2 * depth + 2
      /\ reached \subseteq Int /\ Ended \subseteq reached /\ passed \subseteq reached
      /\ Nil \notin Raisable /\ stack # <<>>
  BY ChainClosed, TopAndBelow, ValueAssumption
     DEF PromiseInv, FlowInv, TypeOK, StackInv, T, Frames, Steps, RootIn, RootOut,
         HistoryInv, OrderInv, Ended, Raisable
<1>2. /\ TypeOK /\ ~Over /\ ~Over' /\ Levels' = Levels /\ Action' = Action
      /\ T \notin passed /\ Action \in Int
      /\ raised = Nil => \A s \in Steps : s < T => s \in passed
  BY <1>1 DEF PromiseInv, FlowInv, OrderInv, Ends, Ended, Over, Levels, Action
<1>3. /\ IsFiniteSet(OpenLevels) /\ Cardinality(OpenLevels) \in Nat
      /\ Cardinality(Levels) = depth
  BY <1>2, OpenCount
<1>4. CASE T \in {RootIn, RootOut}
  <2>1. passed' = passed \cup {T} /\ raised' = raised
    BY <1>4 DEF Ends, HasError
  <2>2. Action # T /\ \A i \in Levels : Before(i) # T /\ After(i) # T
    BY <1>1, <1>4 DEF Action, Before, After, Levels, RootIn, RootOut
  <2>3. PastAction' = PastAction
    BY <1>2, <2>1, <2>2 DEF PastAction
  <2>4. \A i \in Levels : /\ Before(i)' = Before(i) /\ After(i)' = After(i)
                          /\ Before(i) \in passed' <=> Before(i) \in passed
                          /\ After(i) \in Ended' <=> After(i) \in Ended
    BY <2>1, <2>2 DEF Ends, Before, After
  <2>5. OpenLevels' = OpenLevels
    BY <1>2, <2>4 DEF OpenLevels
  <2>6. Stays
    BY <1>2, <2>1, <2>3, <2>5 DEF Stays, Over
  <2> QED BY <2>6, StaysStutters
<1>5. CASE T \in Levels
  <2>1. /\ raised = Nil /\ Action \notin passed /\ ~PastAction
        /\ \A i \in Levels : After(i) \notin Ended
    BY <1>1, <1>2, <1>5, WayDown DEF Action, Levels, PastAction
  <2>2. T \notin OpenLevels /\ T # Action
        /\ \A i \in Levels : After(i) # T /\ Before(i) = i
    BY <1>1, <1>2, <1>5 DEF OpenLevels, Before, After, Levels, Action
  <2>3. \A i \in Levels : After(i) \notin Ended' /\ After(i)' = After(i)
    BY <2>1, <2>2 DEF Ends, After
  <2>4. /\ Cardinality(OpenLevels \cup {T}) = Cardinality(OpenLevels) + 1
        /\ Cardinality(OpenLevels) < depth
    BY <1>2, <1>5, <2>2, OpenCount
  <2>5. CASE passed' = passed \cup {T} /\ raised' = raised
    <3>1. OpenLevels' = OpenLevels \cup {T}
      BY <1>2, <1>5, <2>1, <2>2, <2>3, <2>5 DEF OpenLevels, Before
    <3>2. ~PastAction'
      BY <1>2, <2>1, <2>2, <2>5 DEF PastAction
    <3> QED BY <1>2, <2>1, <2>4, <2>5, <3>1, <3>2
            DEF Abs!Next, Abs!Open, PastAction, OpenLevels
  <2>6. CASE passed' = passed /\ raised' \in Raisable
    <3>1. OpenLevels' = OpenLevels
      BY <1>2, <2>1, <2>3, <2>6 DEF OpenLevels, Before
    <3>2. PastAction'
      BY <1>1, <2>6 DEF PastAction
    <3> QED BY <1>2, <2>1, <2>4, <2>6, <3>1, <3>2
            DEF Abs!Next, Abs!TurnBack, PastAction, OpenLevels
  <2> QED BY <2>5, <2>6 DEF Ends
<1>6. CASE T = Action
  <2>1. /\ raised = Nil /\ ~PastAction
        /\ \A i \in Levels : After(i) \notin Ended /\ i \in OpenLevels
    BY <1>1, <1>2, <1>6, WayDown DEF Action, Levels, PastAction
  <2>2. OpenLevels = Levels
    BY <2>1 DEF OpenLevels
  <2>3. \A i \in Levels : /\ After(i) \notin Ended' /\ After(i)' = After(i)
                          /\ Before(i) \in passed' /\ Before(i)' = Before(i)
    <3>1. \A i \in Levels : After(i) # T
      BY <1>1, <1>6 DEF After, Action, Levels
    <3>2. passed \subseteq passed'
      BY DEF Ends
    <3> QED BY <2>1, <3>1, <3>2 DEF Ends, After, Before, OpenLevels
  <2>4. OpenLevels' = OpenLevels
    BY <1>2, <2>2, <2>3 DEF OpenLevels
  <2>5. PastAction' /\ raised' \in Raisable \cup {Nil}
    BY <1>1, <1>2, <1>6, <2>1 DEF PastAction, Ends
  <2>6. Cardinality(OpenLevels) = depth
    BY <1>3, <2>2
  <2> QED BY <1>2, <2>1, <2>4, <2>5, <2>6 DEF Abs!Next, Abs!Act, PastAction, OpenLevels
<1>7. CASE T > Action /\ T < RootOut
  <2> DEFINE j == RootOut - T
  <2>1. j \in Levels /\ After(j) = T /\ \A i \in Levels : i # j => After(i) # T
    BY <1>1, <1>7 DEF Levels, After, Action, RootOut
  <2> HIDE DEF j
  <2>2. j \in OpenLevels
    BY <1>1, <1>2, <1>7, <2>1 DEF PromiseInv, FlowInv, NestInv, OpenLevels, Ends
  <2>3. /\ \A i \in Levels : Before(i) # T
        /\ Action \in Steps /\ Action < T /\ Action # T
    BY <1>1, <1>7 DEF Levels, Before, Action, Steps, RootIn, RootOut
  <2>4. OpenLevels' = OpenLevels \ {j}
    <3>1. \A i \in Levels : /\ Before(i)' = Before(i) /\ After(i)' = After(i)
                            /\ Before(i) \in passed' <=> Before(i) \in passed
                            /\ After(i) \in Ended' <=> After(i) \in Ended \/ i = j
      BY <2>1, <2>3 DEF Ends, Before, After
    <3> QED BY <1>2, <3>1 DEF OpenLevels
  <2>5. PastAction /\ PastAction'
    BY <1>1, <1>2, <2>3 DEF PastAction, Ends
  <2>6. /\ Cardinality(OpenLevels \ {j}) = Cardinality(OpenLevels) - 1
        /\ Cardinality(OpenLevels) > 0
    BY <1>2, <2>2, OpenCount
  <2>7. raised' \in Raisable \cup {raised}
    BY DEF Ends
  <2> QED BY <1>2, <2>4, <2>5, <2>6, <2>7 DEF Abs!Next, Abs!Close, PastAction, OpenLevels
<1>8. T \in {RootIn, RootOut} \/ T \in Levels \/ T = Action \/ (T > Action /\ T < RootOut)
  BY <1>1 DEF RootIn, RootOut, Levels, Action
<1> QED BY <1>4, <1>5, <1>6, <1>7, <1>8

\* The histories fit initially.
LEMMA PromiseInit == Init => PromiseInv
BY InitInv DEF Init, PromiseInv, HistoryInv, Running, Top, Frame

\* With os.Exit as the exiter every step keeps them so.
LEMMA PromiseNext ==
  ASSUME ~ExiterReturns, PromiseInv, [Next]_vars
  PROVE  PromiseInv'
<1>1. FlowInv /\ FlowInv' /\ TypeOK
  BY NextInv DEF PromiseInv, FlowInv
<1>2. Action' = Action
  BY DEF Next, Step, Terminated, vars, CallDo, HookReturns, HookPanics, HookPanicsNil,
         RunSuccess, EndReturns, EndExits, EndPanics, Return, Unwind, Action
<1> SUFFICES HistoryInv'
  BY <1>1 DEF PromiseInv
<1>3. CASE CallDo
  <2>1. PICK place \in {"do", "next"} :
          /\ stack' = MoveTo(place)
          /\ passed' = IF place = "do" THEN passed ELSE passed \cup {T}
    BY <1>3 DEF CallDo, T
  <2>2. /\ Running /\ Top.at = "enter" /\ T \notin reached
        /\ reached' = reached \cup {T} /\ failed' = failed
        /\ status' = status /\ raised' = raised
    BY <1>1, <1>3 DEF CallDo, At, Running, T, FlowInv, OrderInv
  <2>3. Running' /\ T' = T /\ Top'.at = place
    BY <1>1, <2>1, <2>2, RunsOn DEF FlowInv
  <2> QED BY <2>1, <2>2, <2>3 DEF PromiseInv, HistoryInv, Ended
<1>4. CASE HookReturns \/ HookPanicsNil
  <2>1. /\ Running /\ Top.at = "do" /\ T \in reached
        /\ stack' = MoveTo("next") /\ passed' = passed \cup {T}
        /\ failed' = failed \/ failed' = failed \cup {T}
        /\ UNCHANGED <<reached, status, raised>>
    BY <1>1, <1>4 DEF HookReturns, HookPanicsNil, At, Running, T, FlowInv, OrderInv
  <2>2. Running' /\ Top'.at = "next"
    BY <1>1, <2>1, RunsOn DEF FlowInv
  <2> QED BY <2>1, <2>2 DEF PromiseInv, HistoryInv, Ended
<1>5. ASSUME NEW e \in Raisable, HookPanics(e) PROVE HistoryInv'
  <2> DEFINE f == Frame(Error(T), e)
  <2>1. /\ Running /\ Top.at = "do" /\ T \in reached
        /\ stack' = Append(MoveTo("deferred"), f)
        /\ failed' = failed \cup {T} /\ raised' = e /\ e # Nil
        /\ UNCHANGED <<reached, passed, status>>
    BY <1>1, <1>5, ValueAssumption
       DEF HookPanics, At, Running, T, FlowInv, OrderInv, Raisable
  <2>2. f \in Frames /\ f.at = "enter"
    BY <1>1, <1>5, ChainClosed, TopAndBelow
       DEF HookPanics, At, Frame, Frames, Places, T
  <2>3. Running' /\ Top'.at = "enter"
    BY <1>1, <2>1, <2>2, Calls DEF FlowInv
  <2> QED BY <2>1, <2>3 DEF PromiseInv, HistoryInv, Ended
<1>6. CASE RunSuccess
  <2> DEFINE f == Frame(Success(T), Top.p)
  <2>1. /\ Running /\ Top.at = "next" /\ stack # <<>> /\ HasSuccess(T)
        /\ stack' = Append(MoveTo("success"), f)
        /\ UNCHANGED <<reached, passed, failed, status, raised>>
    BY <1>6 DEF RunSuccess, At, Running, T
  <2>2. f \in Frames /\ f.at = "enter"
    <3>1. Top.p \in Raisable \cup {Nil} /\ Success(T) \in Steps
      BY <1>1, <2>1, TopAndBelow, ChainClosed DEF Frames, T
    <3> QED BY <3>1 DEF Frame, Frames, Places
  <2>3. Running' /\ Top'.at = "enter"
    BY <1>1, <2>1, <2>2, Calls DEF FlowInv
  <2> QED BY <2>1, <2>3 DEF PromiseInv, HistoryInv, Ended
<1>7. CASE EndReturns \/ EndExits \/ EndPanics
  <2>1. /\ Running /\ Top.at = "next" /\ T = RootOut
        /\ UNCHANGED <<reached, passed, failed, raised>>
        /\ status' \in {"return", "exited", "panic"}
    BY <1>7 DEF EndReturns, EndExits, EndPanics, AtEnd, HasSuccess, At, Running, T
  <2>2. PastAction
    <3>1. Action \in Steps /\ Action < RootOut
      BY <1>1, ChainClosed DEF Action, Steps, RootIn, RootOut
    <3> QED BY <1>1, <2>1, <3>1 DEF FlowInv, OrderInv, PastAction
  <2> QED BY <1>2, <2>1, <2>2 DEF PromiseInv, HistoryInv, Ended, PastAction, Running
<1>8. CASE Return \/ Unwind
  <2>1. ~Running /\ ~Running' /\ UNCHANGED <<reached, passed, failed, raised>>
    BY <1>1, <1>8, Leaves DEF FlowInv
  <2> QED BY <1>2, <2>1 DEF PromiseInv, HistoryInv, Ended, PastAction
<1>9. CASE UNCHANGED vars
  BY <1>2, <1>9 DEF vars, PromiseInv, HistoryInv, Ended, PastAction, Running, T, Top
<1> QED BY <1>3, <1>4, <1>5, <1>6, <1>7, <1>8, <1>9 DEF Next, Step, Terminated

\* A step that leaves the histories alone is not seen.
LEMMA SameHistory ==
  ASSUME UNCHANGED <<depth, passed, failed, raised>>
  PROVE  /\ OpenLevels' = OpenLevels /\ PastAction' = PastAction
         /\ Over' = Over => UNCHANGED Abs!absVars
<1>1. /\ OpenLevels' = OpenLevels /\ PastAction' = PastAction
  BY DEF OpenLevels, PastAction, Ended, Levels, Before, After, Action
<1>2. Over' = Over => Stays
  BY <1>1 DEF Stays
<1> QED BY <1>1, <1>2, StaysStutters

\* The calls that are over are not seen, but for the last one, which finishes.
LEMMA LeavingFinishes ==
  ASSUME PromiseInv', ~Running', stack # <<>>, stack' = Below \/ stack' = <<>>,
         UNCHANGED <<depth, passed, failed, raised>>
  PROVE  Abs!Next \/ UNCHANGED Abs!absVars
<1>1. OpenLevels' = OpenLevels /\ PastAction' = PastAction
  BY SameHistory
<1>2. CASE stack' # <<>>
  <2>1. Over' = Over
    BY <1>2 DEF Over
  <2> QED BY <2>1, SameHistory
<1>3. CASE stack' = <<>>
  <2>1. OpenLevels' = {}
    BY DEF PromiseInv, FlowInv, NestInv, HistoryInv, OpenLevels
  <2>2. PastAction'
    BY DEF PromiseInv, HistoryInv
  <2>3. Cardinality(OpenLevels) = 0 /\ Cardinality(OpenLevels') = 0
    BY <1>1, <2>1, FS_EmptySet
  <2>4. ~Over /\ Over'
    BY <1>3 DEF Over
  <2> QED BY <1>1, <2>2, <2>3, <2>4 DEF Abs!Next, Abs!Finish, PastAction, OpenLevels
<1> QED BY <1>2, <1>3

\* Initially nothing is open.
LEMMA PromisedInit == Init => Abs!Init
<1> SUFFICES ASSUME Init PROVE Abs!Init
  OBVIOUS
<1>1. OpenLevels = {}
  BY DEF Init, OpenLevels
<1>2. Cardinality(OpenLevels) = 0
  BY <1>1, FS_EmptySet
<1>3. ~Over /\ ~PastAction
  BY DEF Init, Over, PastAction
<1> QED BY <1>2, <1>3 DEF Init, Abs!Init, PastAction, OpenLevels

\* Every step of the chain is one of the promise or is not seen.
LEMMA PromisedNext ==
  ASSUME ~ExiterReturns, PromiseInv, [Next]_vars
  PROVE  [Abs!Next]_(Abs!absVars)
<1>1. /\ TypeOK /\ StackInv /\ ValueInv /\ PromiseInv'
      /\ Running => stack # <<>>
  BY PromiseNext DEF PromiseInv, FlowInv, StackInv
<1> SUFFICES Abs!Next \/ UNCHANGED Abs!absVars
  OBVIOUS
<1>2. CASE CallDo /\ T \notin hooks
  <2>1. /\ Running /\ T \notin reached /\ stack' = MoveTo("next")
        /\ UNCHANGED <<depth, failed, raised>> /\ passed' = passed \cup {T}
    BY <1>2 DEF CallDo, At, Running, T, PromiseInv, FlowInv, OrderInv
  <2>2. Ends
    BY <2>1 DEF Ends, Ended, PromiseInv, HistoryInv, FlowInv, OrderInv
  <2>3. stack' # <<>>
    BY <1>1, <2>1, Moved DEF Places
  <2> QED BY <2>1, <2>2, <2>3, EndsAreSteps
<1>3. CASE CallDo /\ T \in hooks
  <2>1. /\ Running /\ stack' = MoveTo("do")
        /\ UNCHANGED <<depth, passed, failed, raised>>
    BY <1>3 DEF CallDo, At, Running, T
  <2>2. Over' = Over
    BY <1>1, <2>1, Moved DEF Places, Over
  <2> QED BY <2>1, <2>2, SameHistory
<1>4. CASE HookReturns \/ HookPanicsNil
  <2>1. /\ Running /\ Top.at = "do" /\ stack' = MoveTo("next")
        /\ UNCHANGED <<depth, raised>> /\ passed' = passed \cup {T}
        /\ failed' = failed \/ failed' = failed \cup {T}
    BY <1>4 DEF HookReturns, HookPanicsNil, At, Running, T
  <2>2. Ends
    BY <2>1 DEF Ends, Ended, PromiseInv, HistoryInv, FlowInv, OrderInv
  <2>3. stack' # <<>>
    BY <1>1, <2>1, Moved DEF Places
  <2> QED BY <2>1, <2>2, <2>3, EndsAreSteps
<1>5. ASSUME NEW e \in Raisable, HookPanics(e)
      PROVE  Abs!Next \/ UNCHANGED Abs!absVars
  <2> DEFINE f == Frame(Error(T), e)
  <2>1. /\ Running /\ Top.at = "do" /\ HasError(T)
        /\ stack' = Append(MoveTo("deferred"), f)
        /\ UNCHANGED <<depth, passed>> /\ raised' = e /\ failed' = failed \cup {T}
    BY <1>5 DEF HookPanics, At, Running, T
  <2>2. Ends
    BY <2>1 DEF Ends, Ended, PromiseInv, HistoryInv, FlowInv, OrderInv
  <2>3. f \in Frames
    BY <1>1, <1>5, <2>1, ChainClosed, TopAndBelow DEF Frame, Frames, Places, T
  <2>4. stack' # <<>>
    BY <1>1, <2>1, <2>3, Called DEF Places
  <2> QED BY <2>1, <2>2, <2>4, EndsAreSteps
<1>6. CASE RunSuccess
  <2> DEFINE f == Frame(Success(T), Top.p)
  <2>1. /\ Running /\ HasSuccess(T) /\ stack' = Append(MoveTo("success"), f)
        /\ UNCHANGED <<depth, passed, failed, raised>>
    BY <1>6 DEF RunSuccess, At, Running, T
  <2>2. f \in Frames
    <3>1. Top.p \in Raisable \cup {Nil} /\ Success(T) \in Steps
      BY <1>1, <2>1, TopAndBelow, ChainClosed DEF Frames, T
    <3> QED BY <3>1 DEF Frame, Frames, Places
  <2>3. Over' = Over
    BY <1>1, <2>1, <2>2, Called DEF Places, Over
  <2> QED BY <2>1, <2>3, SameHistory
<1>7. CASE EndReturns \/ EndExits \/ EndPanics
  <2>1. /\ ~Running' /\ stack # <<>> /\ stack' \in {Below, <<>>}
        /\ UNCHANGED <<depth, passed, failed, raised>>
    BY <1>7 DEF EndReturns, EndExits, EndPanics, AtEnd, At, Running
  <2> QED BY <1>1, <2>1, LeavingFinishes
<1>8. CASE Return \/ Unwind
  BY <1>1, <1>8, Leaves, LeavingFinishes
<1>9. CASE UNCHANGED vars
  <2>1. UNCHANGED <<depth, passed, failed, raised>> /\ Over' = Over
    BY <1>9 DEF vars, Over
  <2> QED BY <2>1, SameHistory
<1> QED BY <1>2, <1>3, <1>4, <1>5, <1>6, <1>7, <1>8, <1>9
        DEF Next, Step, Terminated

\* The safety part of KeepsPromise: with os.Exit as the exiter step.run and
\* callDo do what the documentation promises, whatever depth the command has and
\* whichever hooks panic: levels open from the root to the leaf and close from the
\* leaf to the root, every opened level does, and the last error is the one kept.
THEOREM Promise ==
  ASSUME ~ExiterReturns
  PROVE  Spec => Abs!Init /\ [][Abs!Next]_(Abs!absVars)
<1>1. PromiseInv /\ [Next]_vars => PromiseInv'
  BY PromiseNext
<1>2. PromiseInv /\ [Next]_vars => [Abs!Next]_(Abs!absVars)
  BY PromisedNext
<1> QED BY PromiseInit, PromisedInit, <1>1, <1>2, PTL DEF Spec
=============================================================================
