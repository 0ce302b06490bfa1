---------------------------- MODULE Interceptors ----------------------------
(***************************************************************************)
(* What mow.cli promises of its interceptors (README, "Interceptors"; the  *)
(* diagram of doc.go): the Before interceptors run from the root to the    *)
(* leaf, the action runs when all of them succeeded, and every level that  *)
(* was opened is closed again, from the inside out, whatever failed; the   *)
(* caller sees the last error.  The calls, frames and recovered panics of  *)
(* Flow are not part of the promise.                                       *)
(***************************************************************************)
EXTENDS Integers

CONSTANTS MaxDepth, Errors, Nil

VARIABLES
  depth,    \* the number of commands on the path
  open,     \* how many levels are open
  phase,    \* "down" to the leaf, "up" again, "done"
  err       \* the last error, Nil if there was none

absVars == <<depth, open, phase, err>>

Init ==
  /\ depth \in 1 .. MaxDepth
  /\ open = 0
  /\ phase = "down"
  /\ err = Nil

\* A Before interceptor succeeds, or fails and turns back.
Open ==
  /\ phase = "down" /\ open < depth
  /\ open' = open + 1
  /\ UNCHANGED <<depth, phase, err>>

TurnBack ==
  /\ phase = "down" /\ open < depth
  /\ phase' = "up"
  /\ err' \in Errors
  /\ UNCHANGED <<depth, open>>

Act ==
  /\ phase = "down" /\ open = depth
  /\ phase' = "up"
  /\ err' \in Errors \cup {Nil}
  /\ UNCHANGED <<depth, open>>

\* An After interceptor succeeds, or fails and replaces the error.
Close ==
  /\ phase = "up" /\ open > 0
  /\ open' = open - 1
  /\ err' \in Errors \cup {err}
  /\ UNCHANGED <<depth, phase>>

Finish ==
  /\ phase = "up" /\ open = 0
  /\ phase' = "done"
  /\ UNCHANGED <<depth, open, err>>

Next == Open \/ TurnBack \/ Act \/ Close \/ Finish

Spec == Init /\ [][Next]_absVars /\ WF_absVars(Next)
=============================================================================
