------------------------- MODULE OptimisticLocking -------------------------
(***************************************************************************)
(* core/occ.py: a versioned balance (OCCVersionedEntity, OCCBalanceStore)  *)
(* and writers that retry on a version conflict (occ_retry), as the        *)
(* concurrency benchmark runs them: each reads value and version, is       *)
(* suspended, and commits if the version is still the same, either with    *)
(* compare_and_swap and the value it computed or with apply_delta.         *)
(*                                                                         *)
(* The entity's lock is never held across a suspension, so that both calls *)
(* are one step.  The backoff is random: a sleeping writer wakes at any    *)
(* time.                                                                   *)
(*                                                                         *)
(* The specification's own names begin with Lock, so that                  *)
(* ConcurrentBalanceProofs can extend it beside BalanceCache.              *)
(***************************************************************************)
EXTENDS Integers, FiniteSets

CONSTANTS
  Writers,
  Delta,       \* writer -> what it adds, in cents
  Deltas,      \* the writers that commit with apply_delta
  MaxRetries   \* max_retries of occ_retry

ASSUME WritersAssumption == IsFiniteSet(Writers)
ASSUME DeltaAssumption   == Delta \in [Writers -> Int] /\ Deltas \subseteq Writers
ASSUME RetryAssumption   == MaxRetries \in Nat

VARIABLES
  value, version,  \* of the entity
  stage,           \* writer -> where it stands
  val, ver,        \* writer -> the value and version it read last
  attempt          \* writer -> the loop variable of occ_retry

lockVars == <<value, version, stage, val, ver, attempt>>

Steps == {"reading", "committing", "sleeping", "committed", "gave up"}

LockInit ==
  /\ value = 0 /\ version = 0
  /\ stage = [w \in Writers |-> "reading"]
  /\ val = [w \in Writers |-> 0]
  /\ ver = [w \in Writers |-> 0]
  /\ attempt = [w \in Writers |-> 0]

Read(w) ==
  /\ stage[w] = "reading"
  /\ val' = [val EXCEPT ![w] = value]
  /\ ver' = [ver EXCEPT ![w] = version]
  /\ stage' = [stage EXCEPT ![w] = "committing"]
  /\ UNCHANGED <<value, version, attempt>>

\* The version check.  Mutant: a version behind will do.
OneBehind(w) == version - ver[w] \in {0, 1}
Current(w)   == version = ver[w]

NewValue(w) == (IF w \in Deltas THEN value ELSE val[w]) + Delta[w]

\* compare_and_swap, or apply_delta, succeeds.
\* Mutant: the version stays the same.
SameVersion == version
NextVersion == version + 1
Commit(w) ==
  /\ stage[w] = "committing" /\ Current(w)
  /\ value' = NewValue(w)
  /\ version' = NextVersion
  /\ stage' = [stage EXCEPT ![w] = "committed"]
  /\ UNCHANGED <<val, ver, attempt>>

\* Mutants: no limit; giving up one attempt early.
NoLimit(w)   == FALSE
TooEarly(w)  == attempt[w] + 1 >= MaxRetries
Exhausted(w) == attempt[w] = MaxRetries

\* OptimisticLockConflictError, and another attempt after a pause.
Retry(w) ==
  /\ stage[w] = "committing" /\ ~Current(w) /\ ~Exhausted(w)
  /\ attempt' = [attempt EXCEPT ![w] = @ + 1]
  /\ stage' = [stage EXCEPT ![w] = "sleeping"]
  /\ UNCHANGED <<value, version, val, ver>>

\* MaxRetriesExceededError.
GiveUp(w) ==
  /\ stage[w] = "committing" /\ ~Current(w) /\ Exhausted(w)
  /\ stage' = [stage EXCEPT ![w] = "gave up"]
  /\ UNCHANGED <<value, version, val, ver, attempt>>

\* Where a writer resumes: the decorated function runs from its start.
\* Mutant: only the commit is retried, with the version read before.
CommitAgain == "committing"
Resumes     == "reading"
Wake(w) ==
  /\ stage[w] = "sleeping"
  /\ stage' = [stage EXCEPT ![w] = Resumes]
  /\ UNCHANGED <<value, version, val, ver, attempt>>

Write(w) == Read(w) \/ Commit(w) \/ Retry(w) \/ GiveUp(w) \/ Wake(w)

Ended(w) == stage[w] \in {"committed", "gave up"}
AllEnded == (\A w \in Writers : Ended(w)) /\ UNCHANGED lockVars

LockNext == (\E w \in Writers : Write(w)) \/ AllEnded

LockSpec     == LockInit /\ [][LockNext]_lockVars
\* The event loop resumes every task that can go on.
LockFairSpec == LockSpec /\ \A w \in Writers : WF_lockVars(Write(w))

-----------------------------------------------------------------------------
(* What is true of the writers. *)

\* Type invariant; nobody makes more than MaxRetries + 1 attempts.
LockTypeOK ==
  /\ value \in Int /\ version \in Nat
  /\ stage \in [Writers -> Steps]
  /\ val \in [Writers -> Int] /\ ver \in [Writers -> Nat]
  /\ attempt \in [Writers -> 0 .. MaxRetries]

Committed == {w \in Writers : stage[w] = "committed"}

\* A conflict is always another writer's success: a writer has had no more
\* conflicts than there were commits of others.
ConflictsAreProgress ==
  \A w \in Writers : attempt[w] <= Cardinality(Committed \ {w})

\* A writer gives up only when more others have committed than it may retry, so
\* that up to MaxRetries + 1 writers never exhaust their retries.
OnlyBeatenGiveUp ==
  \A w \in Writers : stage[w] = "gave up" => Cardinality(Committed) > MaxRetries

\* All writers commit in the end, or at least MaxRetries + 1 of them, however
\* the losers of each race are delayed.
EnoughCommit == <>(Committed = Writers \/ Cardinality(Committed) > MaxRetries)

\* The writers behave as if each updated the balance in a single step.
Atomic == INSTANCE AtomicUpdates
          WITH balance <- value,
               outcome <- [w \in Writers |-> IF Ended(w) THEN stage[w] ELSE "none"]
UpdatesAreAtomic == Atomic!Spec
=============================================================================
