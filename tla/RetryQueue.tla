----------------------------- MODULE RetryQueue ----------------------------
(***************************************************************************)
(* What a queue with retries promises (messaging/queue.py): a message that *)
(* was sent is handled once, or else given up after so many attempts, and  *)
(* nobody attempts it while somebody else does.                            *)
(***************************************************************************)
EXTENDS Integers

CONSTANT Messages

VARIABLES
  limit,      \* how often a message is attempted at most, fixed
  state,      \* message -> "unsent", "lost", "queued", "taken", "done" or "dead"
  attempts    \* message -> how often it was taken

vars == <<limit, state, attempts>>

Init ==
  /\ limit \in Nat
  /\ state = [m \in Messages |-> "unsent"]
  /\ attempts = [m \in Messages |-> 0]

Become(m, from, to) ==
  /\ state[m] = from
  /\ state' = [state EXCEPT ![m] = to]
  /\ UNCHANGED <<limit, attempts>>

Send(m)   == Become(m, "unsent", "queued")
\* The send fails and nobody tries again.
Lose(m)   == Become(m, "unsent", "lost")
Finish(m) == Become(m, "taken", "done")
Retry(m)  == attempts[m] < limit /\ Become(m, "taken", "queued")
Bury(m)   == attempts[m] >= limit /\ Become(m, "taken", "dead")

\* A batch is taken at once.
Take(batch) ==
  /\ batch # {}
  /\ \A m \in batch : state[m] = "queued"
  /\ state' = [m \in Messages |-> IF m \in batch THEN "taken" ELSE state[m]]
  /\ attempts' = [m \in Messages |-> IF m \in batch THEN attempts[m] + 1
                                                    ELSE attempts[m]]
  /\ UNCHANGED limit

Next ==
  \/ \E m \in Messages : Send(m) \/ Lose(m) \/ Finish(m) \/ Retry(m) \/ Bury(m)
  \/ \E batch \in SUBSET Messages : Take(batch)

Spec == Init /\ [][Next]_vars
=============================================================================
