---------------------- MODULE ConcurrentBalanceProofs ----------------------
(***************************************************************************)
(* Balances under concurrency.  The versioned balance of OptimisticLocking *)
(* loses no update, for any finite set of writers, any deltas and any      *)
(* retry limit; and how stale the balances of BalanceCache can get, for    *)
(* any number of readers, any lifetime of the entry and any latency of     *)
(* Redis.  The two share no state: one module holds both sets of theorems. *)
(***************************************************************************)
EXTENDS OptimisticLocking, BalanceCache, SequenceTheorems, FiniteSetTheorems,
        TLAPS

\* The initial states are well typed.
LEMMA LockInitTypeOK == LockInit => LockTypeOK
BY RetryAssumption DEF LockInit, LockTypeOK, Steps

\* Every step leaves each writer at a known place.
LEMMA StepsStay == LockTypeOK /\ [LockNext]_lockVars => stage' \in [Writers -> Steps]
<1> SUFFICES ASSUME LockTypeOK, [LockNext]_lockVars PROVE stage' \in [Writers -> Steps]
    OBVIOUS
<1>1. ASSUME NEW w \in Writers, Write(w) PROVE stage' \in [Writers -> Steps]
  BY <1>1 DEF Write, Read, Commit, Retry, GiveUp, Wake, Resumes, LockTypeOK, Steps
<1> QED BY <1>1 DEF LockNext, AllEnded, lockVars, LockTypeOK

\* Every step keeps the variables well typed.
LEMMA LockNextTypeOK == LockTypeOK /\ [LockNext]_lockVars => LockTypeOK'
<1> SUFFICES ASSUME LockTypeOK, [LockNext]_lockVars PROVE LockTypeOK'
    OBVIOUS
<1> USE DEF LockTypeOK
<1>1. stage' \in [Writers -> Steps]
  BY StepsStay
<1>2. ASSUME NEW w \in Writers, Read(w) PROVE LockTypeOK'
  BY <1>1, <1>2 DEF Read
<1>3. ASSUME NEW w \in Writers, Commit(w) PROVE LockTypeOK'
  <2>1. NewValue(w) \in Int
    BY DeltaAssumption DEF NewValue
  <2>2. version + 1 \in Nat
    OBVIOUS
  <2> QED BY <1>1, <1>3, <2>1, <2>2 DEF Commit, NextVersion
<1>4. ASSUME NEW w \in Writers, Retry(w) PROVE LockTypeOK'
  <2>1. attempt[w] # MaxRetries
    BY <1>4 DEF Retry, Exhausted
  <2>2. attempt[w] \in Nat /\ attempt[w] + 1 \in 0 .. MaxRetries
    BY <2>1, RetryAssumption
  <2>3. attempt' \in [Writers -> 0 .. MaxRetries]
    BY <1>4, <2>2 DEF Retry
  <2> QED BY <1>1, <1>4, <2>3 DEF Retry
<1>5. ASSUME NEW w \in Writers, GiveUp(w) PROVE LockTypeOK'
  BY <1>1, <1>5 DEF GiveUp
<1>6. ASSUME NEW w \in Writers, Wake(w) PROVE LockTypeOK'
  BY <1>1, <1>6 DEF Wake
<1>7. CASE UNCHANGED lockVars
  BY <1>7 DEF lockVars
<1> QED BY <1>2, <1>3, <1>4, <1>5, <1>6, <1>7 DEF LockNext, Write, AllEnded

\* The variables keep their types, and no writer makes more attempts than
\* occ_retry allows.
THEOREM LockTypeCorrect == LockSpec => []LockTypeOK
BY LockInitTypeOK, LockNextTypeOK, PTL DEF LockSpec

-----------------------------------------------------------------------------
(* A version stands for a value: whoever read the current version also     *)
(* read the current value.                                                 *)

SeenInv ==
  \A w \in Writers :
    /\ ver[w] <= version
    /\ stage[w] = "committing" /\ ver[w] = version => val[w] = value

\* Versions only grow, so that a version once passed is never current again.
LEMMA NextSeenInv == LockTypeOK /\ SeenInv /\ [LockNext]_lockVars => SeenInv'
<1> SUFFICES ASSUME LockTypeOK, SeenInv, [LockNext]_lockVars PROVE SeenInv'
    OBVIOUS
<1> USE DEF LockTypeOK, SeenInv
<1>1. ASSUME NEW w \in Writers, Read(w) PROVE SeenInv'
  BY <1>1 DEF Read
<1>2. ASSUME NEW w \in Writers, Commit(w) PROVE SeenInv'
  BY <1>2 DEF Commit, NextVersion
<1>3. ASSUME NEW w \in Writers, Retry(w) PROVE SeenInv'
  BY <1>3 DEF Retry
<1>4. ASSUME NEW w \in Writers, GiveUp(w) PROVE SeenInv'
  BY <1>4 DEF GiveUp
<1>5. ASSUME NEW w \in Writers, Wake(w) PROVE SeenInv'
  BY <1>5 DEF Wake, Resumes
<1>6. CASE UNCHANGED lockVars
  BY <1>6 DEF lockVars
<1> QED BY <1>1, <1>2, <1>3, <1>4, <1>5, <1>6 DEF LockNext, Write, AllEnded

\* A commit is the atomic addition, giving up is the atomic refusal, and all
\* other steps are invisible.
LEMMA StepIsAtomic ==
  LockTypeOK /\ SeenInv /\ [LockNext]_lockVars => [Atomic!Next]_(Atomic!vars)
<1> SUFFICES ASSUME LockTypeOK, SeenInv, [LockNext]_lockVars PROVE [Atomic!Next]_(Atomic!vars)
    OBVIOUS
<1> DEFINE view == [w \in Writers |-> IF Ended(w) THEN stage[w] ELSE "none"]
<1>1. ASSUME NEW w \in Writers, Commit(w) PROVE Atomic!Add(w)
  <2>1. value' = value + Delta[w]
    BY <1>1 DEF Commit, NewValue, Current, SeenInv, LockTypeOK
  <2>2. view' = [view EXCEPT ![w] = "committed"] /\ view[w] = "none"
    BY <1>1 DEF Commit, Ended, LockTypeOK
  <2> QED BY <2>1, <2>2 DEF Atomic!Add
<1>2. ASSUME NEW w \in Writers, GiveUp(w) PROVE Atomic!GiveUp(w)
  <2>1. view' = [view EXCEPT ![w] = "gave up"] /\ view[w] = "none"
    BY <1>2 DEF GiveUp, Ended, LockTypeOK
  <2> QED BY <1>2, <2>1 DEF GiveUp, Atomic!GiveUp
<1>3. ASSUME NEW w \in Writers, Read(w) \/ Retry(w) \/ Wake(w)
      PROVE  UNCHANGED Atomic!vars
  <2>1. \A v \in Writers : (Ended(v))' <=> Ended(v)
    BY <1>3 DEF Read, Retry, Wake, Resumes, Ended, LockTypeOK
  <2>2. \A v \in Writers : Ended(v) => stage'[v] = stage[v]
    BY <1>3 DEF Read, Retry, Wake, Resumes, Ended, LockTypeOK
  <2>3. value' = value
    BY <1>3 DEF Read, Retry, Wake
  <2>4. view' = view
    BY <2>1, <2>2
  <2> QED BY <2>3, <2>4 DEF Atomic!vars
<1>4. CASE UNCHANGED lockVars
  <2>1. view' = view /\ value' = value
    BY <1>4 DEF lockVars, Ended
  <2> QED BY <2>1 DEF Atomic!vars
<1> QED BY <1>1, <1>2, <1>3, <1>4 DEF LockNext, Write, AllEnded, Atomic!Next

\* The versioned balance with its retrying writers implements updates that
\* take a single step each: no update is lost, torn or applied twice.
THEOREM LockingIsAtomic == LockSpec => UpdatesAreAtomic
<1>1. LockInit => SeenInv
  BY DEF LockInit, SeenInv
<1>2. LockInit => Atomic!Init
  BY DEF LockInit, Atomic!Init, Ended
<1> QED BY <1>1, <1>2, LockInitTypeOK, LockNextTypeOK, NextSeenInv, StepIsAtomic, PTL
        DEF LockSpec, UpdatesAreAtomic, Atomic!Spec

-----------------------------------------------------------------------------
(* Every conflict of a writer is paid for by a commit of another: the      *)
(* version counts the commits, and between two conflicts of a writer it    *)
(* has grown.                                                              *)

ConflictInv ==
  /\ version = Cardinality(Committed)
  /\ \A w \in Writers :
       /\ attempt[w] <= version
       /\ stage[w] = "committing" => attempt[w] <= ver[w]
       /\ stage[w] \in {"committed", "gave up"} =>
            attempt[w] <= Cardinality(Committed \ {w})
       /\ stage[w] = "gave up" => attempt[w] < Cardinality(Committed)
                               /\ attempt[w] = MaxRetries

\* There are finitely many committed writers.
LEMMA CommittedFinite ==
  /\ IsFiniteSet(Committed) /\ Cardinality(Committed) \in Nat
  /\ \A w : /\ IsFiniteSet(Committed \ {w})
            /\ Cardinality(Committed \ {w}) \in Nat
<1>1. Committed \subseteq Writers /\ \A w : Committed \ {w} \subseteq Writers
  BY DEF Committed
<1> QED BY <1>1, WritersAssumption, FS_Subset, FS_CardinalityType

\* A step other than a commit leaves the set of committed writers alone.
LEMMA CommittedStays ==
  ASSUME LockTypeOK, NEW w \in Writers, Read(w) \/ Retry(w) \/ GiveUp(w) \/ Wake(w)
  PROVE  Committed' = Committed /\ version' = version
<1>1. \A v \in Writers : stage'[v] = "committed" <=> stage[v] = "committed"
  BY DEF Read, Retry, GiveUp, Wake, Resumes, LockTypeOK
<1>2. Committed' = Committed
  BY <1>1 DEF Committed
<1> QED BY <1>2 DEF Read, Retry, GiveUp, Wake

\* A conflict shows that the version has grown since it was read.
LEMMA ConflictCounts ==
  ASSUME LockTypeOK, SeenInv, ConflictInv, NEW w \in Writers,
         stage[w] = "committing", ~Current(w)
  PROVE  attempt[w] + 1 <= version
<1>1. attempt[w] <= ver[w]
  BY DEF ConflictInv
<1>2. ver[w] <= version /\ ver[w] # version
  BY DEF SeenInv, Current
<1>3. ver[w] \in Int /\ version \in Int /\ attempt[w] \in Int
  BY RetryAssumption DEF LockTypeOK
<1> QED BY <1>1, <1>2, <1>3

\* Every step keeps the count of conflicts below that of commits.
LEMMA NextConflictInv ==
  LockTypeOK /\ SeenInv /\ ConflictInv /\ [LockNext]_lockVars => ConflictInv'
<1> SUFFICES ASSUME LockTypeOK, SeenInv, ConflictInv, [LockNext]_lockVars PROVE ConflictInv'
    OBVIOUS
<1> USE RetryAssumption DEF LockTypeOK
<1>1. ASSUME NEW w \in Writers, Read(w) PROVE ConflictInv'
  <2>1. Committed' = Committed /\ version' = version
    BY <1>1, CommittedStays
  <2> QED BY <1>1, <2>1 DEF Read, ConflictInv
<1>2. ASSUME NEW w \in Writers, Commit(w) PROVE ConflictInv'
  <2>1. w \notin Committed /\ Committed' = Committed \cup {w}
    BY <1>2 DEF Commit, Committed
  <2>2. Cardinality(Committed') = Cardinality(Committed) + 1
    BY <2>1, CommittedFinite, FS_AddElement
  <2>3. version' = Cardinality(Committed')
    BY <1>2, <2>2 DEF Commit, NextVersion, ConflictInv
  <2>4. Cardinality(Committed' \ {w}) = Cardinality(Committed)
    <3>1. Committed' \ {w} = Committed
      BY <2>1
    <3> QED BY <3>1
  <2>5. attempt[w] <= Cardinality(Committed)
    BY DEF ConflictInv
  <2>6. ASSUME NEW v \in Writers, v # w
        PROVE  Cardinality(Committed \ {v}) <= Cardinality(Committed' \ {v})
    <3>1. Committed \ {v} \subseteq Committed' \ {v}
      BY <2>1
    <3>2. IsFiniteSet(Committed' \ {v})
      <4>1. Committed' \ {v} \subseteq Writers
        BY <2>1 DEF Committed
      <4> QED BY <4>1, WritersAssumption, FS_Subset
    <3> QED BY <3>1, <3>2, FS_Subset
  <2>7. \A v \in Writers : Cardinality((Committed \ {v})') \in Nat
    <3>1. \A v \in Writers : (Committed \ {v})' \subseteq Writers
      BY <2>1 DEF Committed
    <3> QED BY <3>1, WritersAssumption, FS_Subset, FS_CardinalityType
  <2>8. ASSUME NEW v \in Writers
        PROVE  /\ attempt'[v] <= version'
               /\ stage'[v] = "committing" => attempt'[v] <= ver'[v]
               /\ stage'[v] \in {"committed", "gave up"} =>
                    attempt'[v] <= Cardinality((Committed \ {v})')
               /\ stage'[v] = "gave up" => attempt'[v] < Cardinality(Committed')
                                        /\ attempt'[v] = MaxRetries
    <3>1. CASE v = w
      BY <1>2, <2>2, <2>3, <2>4, <2>5, <3>1, CommittedFinite DEF Commit
    <3>2. CASE v # w
      <4>1. stage'[v] = stage[v] /\ attempt'[v] = attempt[v] /\ ver'[v] = ver[v]
        BY <1>2, <3>2 DEF Commit
      <4>2. attempt[v] <= version /\ attempt[v] \in Int
        <5>1. attempt[v] <= version
          BY DEF ConflictInv
        <5>2. attempt[v] \in Int
          OBVIOUS
        <5> QED BY <5>1, <5>2
      <4>3. version' = version + 1
        BY <1>2 DEF Commit, NextVersion
      <4>4. attempt'[v] <= version'
        BY <4>1, <4>2, <4>3
      <4>5. stage[v] \in {"committed", "gave up"} =>
              attempt[v] <= Cardinality(Committed \ {v})
        BY DEF ConflictInv
      <4>6. attempt[v] <= Cardinality(Committed \ {v}) =>
              attempt[v] <= Cardinality(Committed' \ {v})
        <5>1. /\ Cardinality(Committed \ {v}) \in Int
              /\ Cardinality((Committed \ {v})') \in Int
          BY <2>7, CommittedFinite
        <5>2. Cardinality(Committed \ {v}) <= Cardinality((Committed \ {v})')
          BY <2>6, <3>2
        <5> QED BY <4>2, <5>1, <5>2
      <4>7. attempt[v] < Cardinality(Committed) =>
              attempt[v] < Cardinality(Committed')
        BY <2>2, <4>2, CommittedFinite
      <4>8. stage[v] = "gave up" => attempt[v] < Cardinality(Committed)
                                 /\ attempt[v] = MaxRetries
        BY DEF ConflictInv
      <4>9. stage[v] = "committing" => attempt[v] <= ver[v]
        BY DEF ConflictInv
      <4> QED BY <4>1, <4>4, <4>5, <4>6, <4>7, <4>8, <4>9
    <3> QED BY <3>1, <3>2
  <2> QED BY <2>3, <2>8 DEF ConflictInv
<1>3. ASSUME NEW w \in Writers, Retry(w) PROVE ConflictInv'
  <2>1. Committed' = Committed /\ version' = version
    BY <1>3, CommittedStays
  <2>2. attempt[w] + 1 <= version
    BY <1>3, ConflictCounts DEF Retry
  <2> QED BY <1>3, <2>1, <2>2 DEF Retry, ConflictInv
<1>4. ASSUME NEW w \in Writers, GiveUp(w) PROVE ConflictInv'
  <2>1. Committed' = Committed /\ version' = version
    BY <1>4, CommittedStays
  <2>2. attempt[w] + 1 <= version /\ attempt[w] = MaxRetries
    BY <1>4, ConflictCounts DEF GiveUp, Exhausted
  <2>3. w \notin Committed
    BY <1>4 DEF GiveUp, Committed
  <2>4. Committed \ {w} = Committed
    BY <2>3
  <2>5. attempt[w] < Cardinality(Committed)
        /\ attempt[w] <= Cardinality(Committed \ {w})
    <3>1. version = Cardinality(Committed)
      BY DEF ConflictInv
    <3>2. attempt[w] \in Int /\ version \in Int
      OBVIOUS
    <3>3. attempt[w] < version /\ attempt[w] <= version
      BY <2>2, <3>2
    <3> QED BY <2>4, <3>1, <3>3
  <2> QED BY <1>4, <2>1, <2>2, <2>5 DEF GiveUp, ConflictInv
<1>5. ASSUME NEW w \in Writers, Wake(w) PROVE ConflictInv'
  <2>1. Committed' = Committed /\ version' = version
    BY <1>5, CommittedStays
  <2> QED BY <1>5, <2>1 DEF Wake, Resumes, ConflictInv
<1>6. CASE UNCHANGED lockVars
  BY <1>6 DEF lockVars, ConflictInv, Committed
<1> QED BY <1>1, <1>2, <1>3, <1>4, <1>5, <1>6 DEF LockNext, Write, AllEnded

\* The inductive invariant holds in every reachable state.
LEMMA ConflictInvariant == LockSpec => [](LockTypeOK /\ SeenInv /\ ConflictInv)
<1>1. LockInit => SeenInv
  BY DEF LockInit, SeenInv
<1>2. LockInit => ConflictInv
  <2> SUFFICES ASSUME LockInit PROVE ConflictInv
      OBVIOUS
  <2>1. Committed = {}
    BY DEF LockInit, Committed
  <2>2. Cardinality(Committed) = 0
    BY <2>1, FS_EmptySet
  <2> QED BY <2>2 DEF LockInit, ConflictInv
<1> QED BY <1>1, <1>2, LockInitTypeOK, LockNextTypeOK, NextSeenInv, NextConflictInv, PTL
        DEF LockSpec

\* A writer has had at most one conflict for each commit of another writer.
THEOREM ConflictsPayOff == LockSpec => []ConflictsAreProgress
<1>1. LockTypeOK /\ SeenInv /\ ConflictInv => ConflictsAreProgress
  <2> SUFFICES ASSUME LockTypeOK, ConflictInv, NEW w \in Writers
               PROVE  attempt[w] <= Cardinality(Committed \ {w})
      BY DEF ConflictsAreProgress
  <2>1. CASE stage[w] \in {"committed", "gave up"}
    BY <2>1 DEF ConflictInv
  <2>2. CASE stage[w] \notin {"committed", "gave up"}
    <3>1. Committed \ {w} = Committed
      BY <2>2 DEF Committed
    <3> QED BY <3>1 DEF ConflictInv
  <2> QED BY <2>1, <2>2
<1> QED BY <1>1, ConflictInvariant, PTL

\* A writer that gives up was beaten more often than it may retry.
THEOREM GivingUpIsJustified == LockSpec => []OnlyBeatenGiveUp
<1>1. LockTypeOK /\ ConflictInv => OnlyBeatenGiveUp
  <2> SUFFICES ASSUME ConflictInv, NEW w \in Writers, stage[w] = "gave up"
               PROVE  MaxRetries < Cardinality(Committed)
      BY CommittedFinite, RetryAssumption DEF OnlyBeatenGiveUp
  <2> QED BY DEF ConflictInv
<1> QED BY <1>1, ConflictInvariant, PTL

\* Up to MaxRetries + 1 writers never exhaust their retries: six with the
\* default of occ_retry.
THEOREM FewWritersSucceed ==
  LockSpec => [](Cardinality(Writers) <= MaxRetries + 1 =>
               \A w \in Writers : stage[w] # "gave up")
<1> DEFINE NoneGivesUp ==
             Cardinality(Writers) <= MaxRetries + 1 =>
               \A w \in Writers : stage[w] # "gave up"
<1>1. LockTypeOK /\ SeenInv /\ ConflictInv => NoneGivesUp
  <2>1. ASSUME ConflictInv, NEW w \in Writers, stage[w] = "gave up"
        PROVE  Committed \subseteq Writers \ {w} /\ MaxRetries < Cardinality(Committed)
    BY <2>1 DEF ConflictInv, Committed
  <2>2. ASSUME NEW w \in Writers, Committed \subseteq Writers \ {w},
               Cardinality(Writers) <= MaxRetries + 1
        PROVE  Cardinality(Committed) <= MaxRetries
    <3>1. /\ Cardinality(Writers \ {w}) = Cardinality(Writers) - 1
          /\ IsFiniteSet(Writers \ {w})
      BY WritersAssumption, FS_RemoveElement
    <3>2. Cardinality(Committed) <= Cardinality(Writers) - 1
      BY <2>2, <3>1, FS_Subset
    <3>3. Cardinality(Writers) \in Nat /\ Cardinality(Committed) \in Nat
      BY WritersAssumption, FS_CardinalityType, CommittedFinite
    <3> QED BY <2>2, <3>2, <3>3, RetryAssumption
  <2>3. ~(Cardinality(Committed) <= MaxRetries /\ MaxRetries < Cardinality(Committed))
    BY CommittedFinite, RetryAssumption
  <2> QED BY <2>1, <2>2, <2>3
<1> QED BY <1>1, ConflictInvariant, PTL

-----------------------------------------------------------------------------
(* The cached balances of BalanceCache.                                    *)

USE TimesAssumption

\* Actions of single readers, of the worker and of the environment.
ReaderStep(r) ==
  Hit(r) \/ Miss(r) \/ ComputeAndFill(r) \/ Compute(r) \/ Fill(r) \/ FillFails(r)

\* The steps of the cached balances.
LEMMA StepCases ==
  ASSUME Next
  PROVE  \/ AddExpense \/ Tick \/ Evict
         \/ SettleAtOnce \/ Settle \/ Invalidate \/ InvalidateFails
         \/ \E r \in Readers : ReaderStep(r)
BY DEF Next, Handle, ReaderStep

\* The ages of the expenses in a store are numbers of ticks.
LEMMA AgesAre ==
  ASSUME NEW s \in Expenses
  PROVE  Len(s) \in Nat /\ \A i \in 1 .. Len(s) : s[i] \in 0 .. Old
<1>1. Len(s) \in Nat
  BY DEF Expenses
<1>2. ASSUME NEW i \in 1 .. Len(s) PROVE s[i] \in 0 .. Old
  BY ElementOfSeq DEF Expenses
<1>. QED  BY <1>1, <1>2

\* Time keeps the expenses: each gets older by one unit at most.
LEMMA AgesGrow ==
  ASSUME TypeOK, Tick
  PROVE  /\ ages' \in Expenses /\ Len(ages') = Len(ages)
         /\ \A i \in 1 .. Len(ages) : ages'[i] <= ages[i] + 1
<1>. DEFINE older == [i \in 1 .. Len(ages) |-> IF ages[i] < Old THEN ages[i] + 1 ELSE Old]
<1>1. ages \in Seq(0 .. Old) /\ Len(ages) \in Nat /\ DOMAIN ages = 1 .. Len(ages)
  BY DEF TypeOK, Expenses
<1>2. Old \in Nat
  BY DEF Old
<1>3. \A i \in 1 .. Len(ages) : ages[i] \in 0 .. Old
  BY AgesAre DEF TypeOK
<1>4. older \in [1 .. Len(ages) -> 0 .. Old]
  BY <1>2, <1>3
<1>5. older \in Seq(0 .. Old) /\ Len(older) = Len(ages)
  BY <1>1, <1>4
<1>6. ages' = older
  BY <1>1 DEF Tick
<1>7. \A i \in 1 .. Len(ages) : older[i] <= ages[i] + 1
  BY <1>2, <1>3
<1>. QED  BY <1>5, <1>6, <1>7 DEF Expenses

\* A new expense is the last one and of age zero.
LEMMA AgesAppended ==
  ASSUME TypeOK, AddExpense
  PROVE  /\ ages' \in Expenses /\ Len(ages') = Len(ages) + 1
         /\ \A i \in 1 .. Len(ages) : ages'[i] = ages[i]
         /\ ages'[Len(ages) + 1] = 0
BY DEF TypeOK, Expenses, AddExpense, Old

\* Time can end the entry but not change what it shows.
LEMMA EntryAges ==
  ASSUME TypeOK, Tick
  PROVE  \/ entry' = Missing
         \/ /\ entry # Missing /\ entry.left > 0
            /\ entry'.shows = entry.shows /\ entry'.left = entry.left - 1
<1>1. CASE entry = Missing \/ entry.left <= 0
  BY <1>1 DEF Tick, Aged, Missing
<1>2. CASE entry # Missing /\ ~(entry.left <= 0)
  BY <1>2 DEF Tick, Aged, TypeOK
<1>. QED  BY <1>1, <1>2

\* A handler that is suspended has Redis to wait for.
LEMMA OnlyRedisSuspends ==
  ASSUME TypeOK, NEW r \in Readers, pc[r] # "idle"
  PROVE  remote
BY DEF TypeOK

-----------------------------------------------------------------------------

\* The type invariant at the start, and across a step.
LEMMA TypeInit == Init => TypeOK
BY DEF Init, TypeOK, Missing, Expenses

\* Each step writes values of the variables' types.
LEMMA TypeStep ==
  ASSUME TypeOK, [Next]_vars
  PROVE  TypeOK'
<1>1. Len(ages) \in Nat
  BY DEF TypeOK, Expenses
<1>2. CASE AddExpense
  <2>1. 0 .. Len(ages) \subseteq 0 .. Len(ages')
    BY <1>1, <1>2, AgesAppended
  <2>. QED  BY <1>2, <2>1, AgesAppended DEF TypeOK, AddExpense, readerVars, workerVars
<1>3. CASE Tick
  <2>1. entry' \in [shows : 0 .. Len(ages), left : -1 .. TTL]
    BY <1>1, <1>3 DEF TypeOK, Tick, Aged, Missing
  <2>2. waited' \in [Readers -> 0 .. Latency]
    BY <1>3 DEF TypeOK, Tick
  <2>. QED  BY <1>3, <2>1, <2>2, AgesGrow DEF TypeOK, Tick, workerVars
<1>4. CASE Evict \/ SettleAtOnce \/ Settle \/ Invalidate \/ InvalidateFails
  BY <1>1, <1>4
     DEF TypeOK, Evict, SettleAtOnce, Settle, Invalidate, InvalidateFails, Deleted,
         Missing, Suspends, readerVars, workerVars
<1>5. CASE \E r \in Readers : ReaderStep(r)
  <2>1. PICK r \in Readers : ReaderStep(r)
    BY <1>5
  <2>2. CASE Hit(r)
    BY <1>1, <2>2 DEF TypeOK, Hit, workerVars
  <2>3. CASE Miss(r)
    BY <2>3 DEF TypeOK, Miss, Suspends, workerVars
  <2>4. CASE Compute(r)
    BY <1>1, <2>4, OnlyRedisSuspends DEF TypeOK, Compute, Balances, workerVars
  <2>5. CASE ComputeAndFill(r)
    BY <1>1, <2>5 DEF TypeOK, ComputeAndFill, Filled, Balances, workerVars
  <2>6. CASE Fill(r) \/ FillFails(r)
    <3>1. /\ pc' \in [Readers -> {"idle", "missed", "computed"}]
          /\ found' \in [Readers -> 0 .. Len(ages)]
          /\ waited' \in [Readers -> 0 .. Latency]
      <4>1. HandlerEnds(r)
        BY <2>6 DEF Fill, FillFails
      <4>. QED  BY <1>1, <4>1 DEF TypeOK, HandlerEnds
    <3>2. Filled(found[r]) \in [shows : 0 .. Len(ages), left : -1 .. TTL]
      BY <1>1 DEF TypeOK, Filled
    <3>3. remote
      BY <2>6, OnlyRedisSuspends DEF Fill, FillFails
    <3>. QED  BY <1>1, <2>6, <3>1, <3>2, <3>3 DEF TypeOK, Fill, FillFails, workerVars
  <2>. QED  BY <2>1, <2>2, <2>5, <2>6, <2>3, <2>4 DEF ReaderStep
<1>6. CASE UNCHANGED vars
  BY <1>6 DEF TypeOK, vars, readerVars, workerVars
<1>. QED  BY <1>2, <1>3, <1>4, <1>5, <1>6, StepCases

\* The variables keep their types, and without Redis nobody is ever suspended
\* between the commands of a handler or of the worker.
THEOREM TypeCorrect == Spec => []TypeOK
<1>. QED  BY TypeInit, TypeStep, PTL DEF Spec

-----------------------------------------------------------------------------
(* What nobody has been shown yet is recent. *)

\* What a handler is about to write misses only expenses that came while its
\* SET was under way.
FoundInv ==
  \A r \in Readers : pc[r] = "computed" =>
    \A i \in found[r] + 1 .. Len(ages) : ages[i] <= waited[r]

Delay == IF remote THEN Latency ELSE 0

\* What the entry misses came after it was written, or while it was.
EntryInv ==
  \/ entry = Missing
  \/ /\ entry.left >= 0
     /\ \A i \in entry.shows + 1 .. Len(ages) : ages[i] <= Delay + TTL - entry.left

\* Every step keeps what readers have found recent.
LEMMA FoundStep ==
  ASSUME TypeOK, FoundInv, [Next]_vars
  PROVE  FoundInv'
<1>1. Len(ages) \in Nat /\ \A i \in 1 .. Len(ages) : ages[i] \in 0 .. Old
  BY AgesAre DEF TypeOK
<1>2. CASE AddExpense
  <2>1. SUFFICES ASSUME NEW r \in Readers, pc[r] = "computed",
                        NEW i \in found[r] + 1 .. Len(ages) + 1
                 PROVE  ages'[i] <= waited[r]
    BY <1>2, AgesAppended DEF FoundInv, AddExpense, readerVars
  <2>2. found[r] \in Nat /\ waited[r] \in Nat
    BY DEF TypeOK
  <2>3. CASE i = Len(ages) + 1
    BY <1>2, <2>2, <2>3, AgesAppended
  <2>4. CASE i # Len(ages) + 1
    <3>1. i \in found[r] + 1 .. Len(ages) /\ i \in 1 .. Len(ages)
      BY <1>1, <2>2, <2>4
    <3>. QED  BY <1>2, <2>1, <3>1, AgesAppended DEF FoundInv
  <2>. QED  BY <2>3, <2>4
<1>3. CASE Tick
  <2>1. SUFFICES ASSUME NEW r \in Readers, pc[r] = "computed",
                        NEW i \in found[r] + 1 .. Len(ages)
                 PROVE  ages'[i] <= waited'[r]
    BY <1>3, AgesGrow DEF FoundInv, Tick
  <2>2. found[r] \in Nat /\ waited[r] \in Nat
    BY DEF TypeOK
  <2>3. i \in 1 .. Len(ages) /\ ages[i] <= waited[r]
    BY <1>1, <2>1, <2>2 DEF FoundInv
  <2>4. waited'[r] = waited[r] + 1
    BY <1>3, <2>1 DEF Tick
  <2>5. ages'[i] <= ages[i] + 1 /\ ages'[i] \in 0 .. Old
    BY <1>3, <2>3, AgesGrow, AgesAre
  <2>. QED  BY <1>1, <2>2, <2>3, <2>4, <2>5 DEF Old
<1>4. CASE Evict \/ SettleAtOnce \/ Settle \/ Invalidate \/ InvalidateFails
  BY <1>4 DEF FoundInv, Evict, SettleAtOnce, Settle, Invalidate, InvalidateFails,
              readerVars
<1>5. CASE \E r \in Readers : ReaderStep(r)
  <2>1. PICK r \in Readers : ReaderStep(r)
    BY <1>5
  <2>2. CASE Hit(r) \/ ComputeAndFill(r)
    BY <2>2 DEF FoundInv, Hit, ComputeAndFill
  <2>3. CASE Miss(r)
    BY <2>3 DEF TypeOK, FoundInv, Miss
  <2>4. CASE Compute(r)
    BY <1>1, <2>4 DEF TypeOK, FoundInv, Compute, Balances
  <2>5. CASE Fill(r) \/ FillFails(r)
    BY <2>5 DEF TypeOK, FoundInv, Fill, FillFails, HandlerEnds
  <2>. QED  BY <2>1, <2>2, <2>3, <2>4, <2>5 DEF ReaderStep
<1>6. CASE UNCHANGED vars
  BY <1>6 DEF FoundInv, vars, readerVars
<1>. QED  BY <1>2, <1>3, <1>4, <1>5, <1>6, StepCases

\* What a SET that gets through leaves.
LEMMA FilledInv ==
  ASSUME TypeOK, FoundInv, NEW r \in Readers, pc[r] = "computed",
         ages' = ages, remote' = remote, entry' = Filled(found[r])
  PROVE  EntryInv'
<1>1. remote /\ waited[r] \in 0 .. Latency /\ found[r] \in Nat
  BY DEF TypeOK
<1>2. Len(ages) \in Nat /\ \A i \in 1 .. Len(ages) : ages[i] \in 0 .. Old
  BY AgesAre DEF TypeOK
<1>3. \A i \in found[r] + 1 .. Len(ages) : i \in 1 .. Len(ages) /\ ages[i] <= Latency
  BY <1>1, <1>2 DEF FoundInv, Old
<1>4. entry'.left = TTL /\ entry'.shows = found[r] /\ Delay' = Latency
  BY <1>1 DEF Filled, Delay
<1>. QED  BY <1>2, <1>3, <1>4 DEF EntryInv

\* Every step keeps what the entry misses recent.
LEMMA EntryStep ==
  ASSUME TypeOK, FoundInv, EntryInv, [Next]_vars
  PROVE  EntryInv'
<1>1. /\ Len(ages) \in Nat /\ \A i \in 1 .. Len(ages) : ages[i] \in 0 .. Old
      /\ entry.shows \in Nat /\ entry.left \in -1 .. TTL /\ Delay \in Nat
  BY AgesAre DEF TypeOK, Delay
<1>2. CASE AddExpense
  <2>1. SUFFICES ASSUME entry # Missing, NEW i \in entry.shows + 1 .. Len(ages) + 1
                 PROVE  ages'[i] <= Delay + TTL - entry.left
    BY <1>2, AgesAppended DEF AddExpense, EntryInv, Delay
  <2>2. CASE i = Len(ages) + 1
    BY <1>1, <1>2, <2>2, AgesAppended
  <2>3. CASE i # Len(ages) + 1
    <3>1. i \in entry.shows + 1 .. Len(ages) /\ i \in 1 .. Len(ages)
      BY <1>1, <2>3
    <3>. QED  BY <1>2, <2>1, <3>1, AgesAppended DEF EntryInv
  <2>. QED  BY <2>2, <2>3
<1>3. CASE Tick
  <2>1. CASE entry = Missing \/ entry.left <= 0
    BY <1>3, <2>1 DEF Tick, Aged, EntryInv, Missing
  <2>2. CASE entry # Missing /\ entry.left > 0
    <3>1. /\ entry'.shows = entry.shows /\ entry'.left = entry.left - 1
          /\ Delay' = Delay
      BY <1>3, <2>2 DEF Tick, Aged, Delay, TypeOK
    <3>2. \A i \in entry.shows + 1 .. Len(ages) :
            ages'[i] <= Delay + TTL - (entry.left - 1)
      <4>1. SUFFICES ASSUME NEW i \in entry.shows + 1 .. Len(ages)
                     PROVE  ages'[i] <= Delay + TTL - (entry.left - 1)
        OBVIOUS
      <4>2. i \in 1 .. Len(ages) /\ ages[i] <= Delay + TTL - entry.left
        BY <1>1, <2>2 DEF EntryInv
      <4>3. ages'[i] <= ages[i] + 1 /\ ages'[i] \in 0 .. Old
        BY <1>3, <4>2, AgesGrow, AgesAre
      <4>4. ages[i] \in Int /\ ages'[i] \in Int
        BY <1>1, <4>2, <4>3 DEF Old
      <4>5. Delay + TTL - entry.left \in Int /\ entry.left \in Int
            /\ Delay + TTL - (entry.left - 1) = Delay + TTL - entry.left + 1
        BY <1>1
      <4>6. \A a, b, m \in Int : a <= b + 1 /\ b <= m => a <= m + 1
        OBVIOUS
      <4>. QED  BY <4>2, <4>3, <4>4, <4>5, <4>6
    <3>3. Len(ages') = Len(ages)
      BY <1>3, AgesGrow
    <3>4. \A i \in entry'.shows + 1 .. Len(ages') :
            ages'[i] <= Delay' + TTL - entry'.left
      BY <3>1, <3>2, <3>3
    <3>5. entry'.left >= 0
      BY <1>1, <2>2, <3>1
    <3>. QED  BY <3>4, <3>5 DEF EntryInv
  <2>. QED  BY <1>1, <2>1, <2>2
<1>4. CASE Evict \/ SettleAtOnce \/ Settle \/ Invalidate \/ InvalidateFails
  BY <1>4 DEF EntryInv, Delay, Evict, SettleAtOnce, Settle, Invalidate,
              InvalidateFails, Deleted
<1>5. CASE \E r \in Readers : ReaderStep(r)
  <2>1. PICK r \in Readers : ReaderStep(r)
    BY <1>5
  <2>2. CASE Hit(r) \/ Miss(r) \/ Compute(r)
    BY <2>2 DEF EntryInv, Delay, Hit, Miss, Compute
  <2>3. CASE ComputeAndFill(r)
    BY <1>1, <2>3 DEF EntryInv, Delay, ComputeAndFill, Filled, Balances
  <2>4. CASE Fill(r)
    BY <2>4, FilledInv DEF Fill
  <2>5. CASE FillFails(r)
    <3>1. CASE entry' = entry
      BY <2>5, <3>1 DEF FillFails, EntryInv, Delay
    <3>2. CASE entry' = Filled(found[r])
      BY <2>5, <3>2, FilledInv DEF FillFails
    <3>. QED  BY <2>5, <3>1, <3>2 DEF FillFails
  <2>. QED  BY <2>1, <2>2, <2>3, <2>4, <2>5 DEF ReaderStep
<1>6. CASE UNCHANGED vars
  BY <1>6 DEF EntryInv, Delay, vars
<1>. QED  BY <1>2, <1>3, <1>4, <1>5, <1>6, StepCases

\* Cached balances never miss an expense for longer than the entry lives and,
\* with Redis, its SET takes, however readers, expenses, settlements, failures
\* and evictions are interleaved.
THEOREM StaleAtMostAMinute == Spec => []StaleForAMinute
<1>1. Init => FoundInv /\ EntryInv
  BY DEF Init, FoundInv, EntryInv
<1>2. TypeOK /\ EntryInv => StaleForAMinute
  <2>1. SUFFICES ASSUME TypeOK, EntryInv, entry # Missing,
                        NEW i \in entry.shows + 1 .. Len(ages)
                 PROVE  ages[i] <= Bound
    BY DEF StaleForAMinute
  <2>2. /\ entry.shows \in Nat /\ entry.left \in 0 .. TTL
        /\ Len(ages) \in Nat
    BY <2>1 DEF TypeOK, EntryInv, Expenses
  <2>3. i \in 1 .. Len(ages) /\ ages[i] \in 0 .. Old
    BY <2>1, <2>2, AgesAre DEF TypeOK
  <2>4. ages[i] <= Delay + TTL - entry.left
    BY <2>1 DEF EntryInv
  <2>. QED  BY <2>2, <2>3, <2>4 DEF Bound, Delay, Old
<1>. QED  BY <1>1, <1>2, TypeCorrect, FoundStep, EntryStep, PTL DEF Spec

-----------------------------------------------------------------------------
(* Without Redis. *)

\* Once a settlement is announced, cached balances show what it has settled.
THEOREM SettlementsShow == Spec => []SettledIsShown
<1>1. Init => SettledIsShown
  BY DEF Init, SettledIsShown
<1>2. TypeOK /\ SettledIsShown /\ [Next]_vars => SettledIsShown'
  <2>1. SUFFICES ASSUME TypeOK, SettledIsShown, [Next]_vars, ~remote
                 PROVE  SettledIsShown'
    BY DEF SettledIsShown, Next, vars, AddExpense, Tick, Evict, SettleAtOnce, Settle,
           Invalidate, InvalidateFails, Handle, Hit, Miss, ComputeAndFill, Compute,
           Fill, FillFails
  <2>2. Len(ages) \in Nat /\ announced \in 0 .. Len(ages) /\ hand = 0
    BY <2>1 DEF TypeOK, Expenses
  <2>3. CASE AddExpense \/ Evict \/ SettleAtOnce \/ Settle \/ Invalidate
               \/ InvalidateFails \/ UNCHANGED vars
    BY <2>1, <2>2, <2>3
       DEF SettledIsShown, AddExpense, Evict, SettleAtOnce, Settle, Invalidate,
           InvalidateFails, Deleted, workerVars, vars
  <2>4. CASE Tick
    BY <2>1, <2>4, EntryAges DEF SettledIsShown, Tick, workerVars
  <2>5. CASE \E r \in Readers : ReaderStep(r)
    <3>1. PICK r \in Readers : ReaderStep(r)
      BY <2>5
    <3>2. pc[r] = "idle"
      BY <2>1 DEF TypeOK
    <3>. QED  BY <2>1, <2>2, <3>1, <3>2
              DEF SettledIsShown, ReaderStep, Hit, Miss, ComputeAndFill, Compute, Fill,
                  FillFails, Filled, Balances, workerVars
  <2>. QED  BY <2>1, <2>3, <2>4, <2>5, StepCases
<1>. QED  BY <1>1, <1>2, TypeCorrect, PTL DEF Spec

\* The entry shows whatever anybody was shown before.
AnswersInv ==
  ~remote /\ entry # Missing => \A s \in Readers : entry.shows >= answer[s]

\* Every step keeps the entry up with the answers, unless the cache is remote.
LEMMA AnswersStep ==
  ASSUME TypeOK, AnswersInv, [Next]_vars
  PROVE  AnswersInv'
<1>1. SUFFICES ASSUME ~remote
               PROVE  AnswersInv'
  BY DEF AnswersInv, Next, vars, AddExpense, Tick, Evict, SettleAtOnce, Settle,
         Invalidate, InvalidateFails, Handle, Hit, Miss, ComputeAndFill, Compute,
         Fill, FillFails
<1>2. /\ Len(ages) \in Nat /\ answer \in [Readers -> 0 .. Len(ages)] /\ hand = 0
      /\ entry.shows \in Nat
  BY <1>1 DEF TypeOK, Expenses
<1>3. CASE AddExpense \/ Evict \/ SettleAtOnce \/ Settle \/ Invalidate
             \/ InvalidateFails \/ UNCHANGED vars
  BY <1>1, <1>2, <1>3
     DEF AnswersInv, AddExpense, Evict, SettleAtOnce, Settle, Invalidate,
         InvalidateFails, Deleted, readerVars, vars
<1>4. CASE Tick
  BY <1>1, <1>4, EntryAges DEF AnswersInv, Tick
<1>5. CASE \E r \in Readers : ReaderStep(r)
  <2>1. PICK r \in Readers : ReaderStep(r)
    BY <1>5
  <2>2. pc[r] = "idle"
    BY <1>1 DEF TypeOK
  <2>. QED  BY <1>1, <1>2, <2>1, <2>2
            DEF AnswersInv, ReaderStep, Hit, Miss, ComputeAndFill, Compute, Fill,
                FillFails, Filled, Balances
<1>. QED  BY <1>3, <1>4, <1>5, StepCases

\* No response shows less than one given before, to whomever.
THEOREM ReadsAreMonotonic == Spec => ReadsNeverGoBack
<1>. DEFINE Forward == ~remote => \A r, s \in Readers :
                         answer'[r] = answer[r] \/ answer'[r] >= answer[s]
<1>1. Init => AnswersInv
  BY DEF Init, AnswersInv
<1>2. TypeOK /\ AnswersInv /\ [Next]_vars => Forward \/ UNCHANGED vars
  <2>1. SUFFICES ASSUME TypeOK, AnswersInv, Next, ~remote,
                        NEW r \in Readers, NEW s \in Readers
                 PROVE  answer'[r] = answer[r] \/ answer'[r] >= answer[s]
    OBVIOUS
  <2>2. Len(ages) \in Nat /\ answer \in [Readers -> 0 .. Len(ages)]
    BY <2>1 DEF TypeOK, Expenses
  <2>3. CASE AddExpense \/ Evict \/ SettleAtOnce \/ Settle \/ Invalidate
               \/ InvalidateFails \/ Tick
    BY <2>3 DEF AddExpense, Evict, SettleAtOnce, Settle, Invalidate,
                InvalidateFails, Tick, readerVars
  <2>4. CASE \E q \in Readers : ReaderStep(q)
    <3>1. PICK q \in Readers : ReaderStep(q)
      BY <2>4
    <3>2. pc[q] = "idle"
      BY <2>1 DEF TypeOK
    <3>. QED  BY <2>1, <2>2, <3>1, <3>2
              DEF AnswersInv, ReaderStep, Hit, Miss, ComputeAndFill, Compute, Fill,
                  FillFails, Balances
  <2>. QED  BY <2>1, <2>3, <2>4, StepCases
<1>. QED  BY <1>1, <1>2, TypeCorrect, AnswersStep, PTL DEF Spec, ReadsNeverGoBack
=============================================================================
