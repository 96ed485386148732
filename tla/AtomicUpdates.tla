--------------------------- MODULE AtomicUpdates ---------------------------
(***************************************************************************)
(* What optimistic concurrency control promises: every writer either adds  *)
(* its delta to the balance, once and in one step, or gives up and leaves  *)
(* no trace.                                                               *)
(***************************************************************************)
EXTENDS Integers

CONSTANTS Writers, Delta

VARIABLES balance, outcome

vars == <<balance, outcome>>

Init == balance = 0 /\ outcome = [w \in Writers |-> "none"]

Add(w) ==
  /\ outcome[w] = "none"
  /\ balance' = balance + Delta[w]
  /\ outcome' = [outcome EXCEPT ![w] = "committed"]

GiveUp(w) ==
  /\ outcome[w] = "none"
  /\ outcome' = [outcome EXCEPT ![w] = "gave up"]
  /\ UNCHANGED balance

Next == \E w \in Writers : Add(w) \/ GiveUp(w)

Spec == Init /\ [][Next]_vars
=============================================================================
