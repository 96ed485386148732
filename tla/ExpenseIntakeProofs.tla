------------------------ MODULE ExpenseIntakeProofs ------------------------
(***************************************************************************)
(* Theorems about ExpenseIntake, for any requests, keys, bodies and        *)
(* members.                                                                *)
(***************************************************************************)
EXTENDS ExpenseIntake, BookkeepingProofs

-----------------------------------------------------------------------------
(* Type correctness. *)

\* A booking that is accepted has a roster of users.
LEMMA AcceptedRoster ==
  ASSUME TypeOK, NEW r \in Requests, Accepted(body[r])
  PROVE  /\ body[r] \in Bodies
         /\ members[body[r].group] \in Seq(Users)
BY DEF TypeOK, Accepted

\* The records the handlers write are of their types.
LEMMA RecordTypes ==
  /\ NoReply \in Replies
  /\ \A st \in Statuses, e, j \in Nat : Reply(st, e, j) \in Replies
  /\ Free \in CacheValues /\ Processing \in CacheValues
  /\ \A re \in Replies : Response(re) \in CacheValues
  /\ \A x \in Expenses, j \in Nat : WithJournal(x, j) \in Expenses
BY DEF NoReply, Reply, Replies, Statuses, Free, Processing, Response,
       CacheValues, WithJournal, Expenses

\* Commands on one key keep the cache well typed.
LEMMA CommandTypes ==
  ASSUME TypeOK, NEW k \in Keys, NEW re \in Replies
  PROVE  /\ Locked(k) \in [Keys -> CacheValues]
         /\ Deleted(k) \in [Keys -> CacheValues]
         /\ Stored(k, re) \in [Keys -> CacheValues]
BY RecordTypes DEF TypeOK, Locked, Deleted, Stored

\* The initial states are well typed.
LEMMA InitTypeOK == Init => TypeOK
<1> SUFFICES ASSUME Init PROVE TypeOK
    OBVIOUS
<1>1. members \in [Groups -> Seq(Users)]
  BY MembersAssumption DEF Init, Groups
<1> QED BY <1>1, RecordTypes DEF Init, TypeOK, Steps

\* Every step keeps the variables well typed.
LEMMA NextTypeOK == TypeOK /\ [Next]_vars => TypeOK'
<1> SUFFICES ASSUME TypeOK, [Next]_vars PROVE TypeOK'
    OBVIOUS
<1> USE DEF TypeOK, ledgerVars
<1>a. \A r \in Requests :
        key[r] # NoKey \/ pc[r] \notin {"arrived", "answered"} => key[r] \in Keys
  OBVIOUS
<1>b. /\ \A s \in Steps, r \in Requests :
            [pc EXCEPT ![r] = s] \in [Requests -> Steps]
      /\ {"locked", "duplicate", "answered", "created", "failed"} \subseteq Steps
  BY DEF Steps
<1>c. \A re \in Replies, r \in Requests :
        [reply EXCEPT ![r] = re] \in [Requests -> Replies]
  OBVIOUS
<1>1. ASSUME NEW r \in Requests, CheckAndLock(r) PROVE TypeOK'
  <2>1. cache' \in [Keys -> CacheValues]
    BY <1>1, <1>a, CommandTypes, RecordTypes DEF CheckAndLock
  <2>2. pc' \in [Requests -> Steps]
    BY <1>1, <1>b DEF CheckAndLock
  <2> QED BY <1>1, <2>1, <2>2 DEF CheckAndLock
<1>2. ASSUME NEW r \in Requests, ReadCached(r) PROVE TypeOK'
  <2>1. key[r] \in Keys
    BY <1>2, <1>a DEF ReadCached
  <2>2. reply' \in [Requests -> Replies]
    <3>1. cache[key[r]].expense \in Nat /\ cache[key[r]].journal \in Nat
      BY <2>1 DEF CacheValues
    <3>2. \A st \in {201, 409} : st \in Statuses
      BY DEF Statuses
    <3> QED BY <1>2, <1>c, <3>1, <3>2, RecordTypes DEF ReadCached
  <2>3. pc' \in [Requests -> Steps]
    BY <1>2, <1>b DEF ReadCached, AfterRead
  <2> QED BY <1>2, <2>2, <2>3 DEF ReadCached
<1>3. ASSUME NEW r \in Requests, BookExpense(r) PROVE TypeOK'
  <2> DEFINE e == ExpenseFor(r)
             j == Len(journals) + 1
             booking == [body |-> body[r], roster |-> members[body[r].group]]
  <2>1. booking \in Bookings
    BY <1>3, AcceptedRoster DEF BookExpense, Bookings
  <2>2. e \in Nat /\ j \in Nat
    BY DEF ExpenseFor
  <2>3. journals' \in Seq(Bookings)
    BY <1>3, <2>1 DEF BookExpense
  <2>4. expenses' \in Seq(Expenses)
    <3>1. CASE e \in DOMAIN expenses
      <4>1. expenses' = [expenses EXCEPT ![e] = WithJournal(expenses[e], j)]
        BY <1>3, <3>1 DEF BookExpense
      <4>2. WithJournal(expenses[e], j) \in Expenses
        BY <2>2, <3>1, RecordTypes
      <4> QED BY <3>1, <4>1, <4>2
    <3>2. CASE e \notin DOMAIN expenses
      <4> DEFINE x == [body |-> booking.body, roster |-> booking.roster,
                       key |-> key[r], journal |-> j]
      <4>1. x \in Expenses
        BY <2>1, <2>2 DEF Bookings, Expenses
      <4>2. expenses' = Append(expenses, x)
        BY <1>3, <3>2 DEF BookExpense
      <4> HIDE DEF x
      <4> QED BY <4>1, <4>2
    <3> QED BY <3>1, <3>2
  <2>5. outbox' \in Seq(Events)
    <3> DEFINE x == [expense |-> e, body |-> booking.body,
                     roster |-> booking.roster]
    <3>1. x \in Events
      BY <2>1, <2>2 DEF Bookings, Events
    <3>2. outbox' = Append(outbox, x)
      BY <1>3 DEF BookExpense
    <3> HIDE DEF x
    <3> QED BY <3>1, <3>2
  <2>6. idempotencyKeys' \in [Keys -> Nat]
    BY <1>3, <2>2 DEF BookExpense
  <2>7. reply' \in [Requests -> Replies]
    <3>1. Reply(201, e, j) \in Replies
      BY <2>2, RecordTypes DEF Statuses
    <3> QED BY <1>3, <1>c, <3>1 DEF BookExpense
  <2>8. pc' \in [Requests -> Steps]
    BY <1>3, <1>b DEF BookExpense
  <2>9. \A s \in Requests :
          pc'[s] \notin {"arrived", "answered"} => key'[s] # NoKey
    <3>1. pc' = [pc EXCEPT ![r] = IF key[r] = NoKey THEN "answered"
                                                    ELSE "created"]
          /\ key' = key
      BY <1>3 DEF BookExpense
    <3> QED BY <3>1
  <2>10. UNCHANGED <<key, body, cache, members>>
    BY <1>3 DEF BookExpense
  <2> QED BY <2>3, <2>4, <2>5, <2>6, <2>7, <2>8, <2>9, <2>10
<1>4. ASSUME NEW r \in Requests, RejectExpense(r) PROVE TypeOK'
  <2>1. Reply(400, 0, 0) \in Replies
    BY RecordTypes DEF Statuses
  <2>2. pc' \in [Requests -> Steps]
    BY <1>4, <1>b DEF RejectExpense, AfterReject
  <2>3. \A s \in Requests :
          pc'[s] \notin {"arrived", "answered"} => key'[s] # NoKey
    <3>1. /\ pc' = [pc EXCEPT ![r] = IF key[r] = NoKey THEN "answered"
                                                       ELSE "failed"]
          /\ key' = key
      BY <1>4 DEF RejectExpense, AfterReject
    <3> QED BY <3>1
  <2> QED BY <1>4, <1>c, <2>1, <2>2, <2>3 DEF RejectExpense
<1>5. ASSUME NEW r \in Requests, StoreResponse(r) PROVE TypeOK'
  <2>1. cache' \in [Keys -> CacheValues]
    <3>1. key[r] \in Keys
      BY <1>5, <1>a DEF StoreResponse
    <3> QED BY <1>5, <3>1, CommandTypes DEF StoreResponse
  <2> QED BY <1>5, <1>b, <2>1 DEF StoreResponse
<1>6. ASSUME NEW r \in Requests, Release(r) PROVE TypeOK'
  <2>1. cache' \in [Keys -> CacheValues]
    <3>1. key[r] \in Keys
      BY <1>6, <1>a DEF Release
    <3> QED BY <1>6, <3>1, CommandTypes, RecordTypes DEF Release
  <2> QED BY <1>6, <1>b, <2>1 DEF Release
<1>7. ASSUME NEW r \in Requests, CacheFails(r) PROVE TypeOK'
  <2>1. key[r] \in Keys
    BY <1>7, <1>a DEF CacheFails
  <2>2. CommandEffect(r) \in [Keys -> CacheValues]
    BY <2>1, CommandTypes DEF CommandEffect
  <2>3. Reply(500, 0, 0) \in Replies
    BY RecordTypes DEF Statuses
  <2> QED BY <1>7, <1>b, <1>c, <2>2, <2>3 DEF CacheFails
<1>8. ASSUME NEW k \in Keys, KeyLost(k) PROVE TypeOK'
  BY <1>8, CommandTypes, RecordTypes DEF KeyLost
<1>9. ASSUME NEW g \in Groups, NEW u \in Users, AddMember(g, u) PROVE TypeOK'
  BY <1>9 DEF AddMember
<1>10. CASE UNCHANGED vars
  BY <1>10 DEF vars
<1> QED
  BY <1>1, <1>2, <1>3, <1>4, <1>5, <1>6, <1>7, <1>8, <1>9, <1>10
     DEF Next, Handle, Idle

\* In every reachable state the handlers' steps, the cache, the store, the
\* ledger and the outbox hold values of their types.
THEOREM TypeCorrect == Spec => []TypeOK
BY InitTypeOK, NextTypeOK, PTL DEF Spec

-----------------------------------------------------------------------------
(* The store never books a key twice: no assumption on the cache. *)

\* The store's key map and its expenses point at each other.  The map is never
\* reset, so this survives lost keys and failed cache commands.
KeyMap ==
  /\ \A i \in DOMAIN expenses :
       expenses[i].key # NoKey => idempotencyKeys[expenses[i].key] = i
  /\ \A k \in Keys : idempotencyKeys[k] # 0 =>
       /\ idempotencyKeys[k] \in DOMAIN expenses
       /\ expenses[idempotencyKeys[k]].key = k

\* The two cases of BookExpense, without the parts the invariants below do not
\* speak of: a key booked before changes only the journal of its expense, any
\* other booking appends one expense, one journal and one event.
LEMMA BookExpenseCases ==
  ASSUME TypeOK, KeyMap, NEW r \in Requests, BookExpense(r)
  PROVE  \/ /\ key[r] \in Keys /\ idempotencyKeys[key[r]] # 0
            /\ idempotencyKeys[key[r]] \in DOMAIN expenses
            /\ expenses' =
                 [expenses EXCEPT ![idempotencyKeys[key[r]]] =
                    WithJournal(expenses[idempotencyKeys[key[r]]],
                                Len(journals) + 1)]
            /\ idempotencyKeys' = idempotencyKeys
         \/ /\ key[r] \in Keys => idempotencyKeys[key[r]] = 0
            /\ ExpenseFor(r) = Len(expenses) + 1
            /\ expenses' =
                 Append(expenses,
                   [body |-> body[r], roster |-> members[body[r].group],
                    key |-> key[r], journal |-> Len(journals) + 1])
            /\ idempotencyKeys' =
                 IF key[r] = NoKey THEN idempotencyKeys
                 ELSE [idempotencyKeys EXCEPT ![key[r]] = Len(expenses) + 1]
<1>1. key[r] \in Keys \cup {NoKey} /\ Len(expenses) + 1 \notin DOMAIN expenses
  BY DEF TypeOK
<1>2. CASE key[r] # NoKey /\ idempotencyKeys[key[r]] # 0
  <2>1. /\ ExpenseFor(r) = idempotencyKeys[key[r]]
        /\ key[r] \in Keys
        /\ idempotencyKeys[key[r]] \in DOMAIN expenses
    BY <1>1, <1>2 DEF ExpenseFor, KeyMap
  <2>2. idempotencyKeys' = [idempotencyKeys EXCEPT ![key[r]] = ExpenseFor(r)]
    BY <1>2 DEF BookExpense
  <2>3. idempotencyKeys' = idempotencyKeys
    BY <2>1, <2>2 DEF TypeOK
  <2> QED BY <1>2, <2>1, <2>3 DEF BookExpense
<1>3. CASE ~(key[r] # NoKey /\ idempotencyKeys[key[r]] # 0)
  <2>1. ExpenseFor(r) = Len(expenses) + 1
    BY <1>3 DEF ExpenseFor
  <2>2. key[r] \in Keys => idempotencyKeys[key[r]] = 0
    BY <1>3, NoKeyAssumption
  <2> QED BY <1>1, <2>1, <2>2 DEF BookExpense
<1> QED BY <1>2, <1>3

\* Only a booking touches the store's expenses and key map.
LEMMA LedgerUntouched ==
  ASSUME [Next]_vars, \A r \in Requests : ~BookExpense(r)
  PROVE  UNCHANGED ledgerVars
BY DEF Next, Handle, Idle, vars, ledgerVars, CheckAndLock, ReadCached,
       RejectExpense, StoreResponse, Release, CacheFails, KeyLost, AddMember

\* KeyMap is inductive.
LEMMA NextKeyMap == TypeOK /\ KeyMap /\ [Next]_vars => KeyMap'
<1> SUFFICES ASSUME TypeOK, KeyMap, [Next]_vars PROVE KeyMap'
    OBVIOUS
<1>1. CASE \A r \in Requests : ~BookExpense(r)
  BY <1>1, LedgerUntouched DEF KeyMap, ledgerVars
<1>2. ASSUME NEW r \in Requests, BookExpense(r) PROVE KeyMap'
  <2>1. CASE key[r] \in Keys /\ idempotencyKeys[key[r]] # 0
    <3> DEFINE e == idempotencyKeys[key[r]]
               x == WithJournal(expenses[e], Len(journals) + 1)
    <3>1. /\ e \in DOMAIN expenses
          /\ expenses' = [expenses EXCEPT ![e] = x]
          /\ idempotencyKeys' = idempotencyKeys
      BY <1>2, <2>1, BookExpenseCases
    <3>2. x.key = expenses[e].key
      BY DEF WithJournal
    <3>3. /\ DOMAIN expenses' = DOMAIN expenses
          /\ \A i \in DOMAIN expenses : expenses'[i].key = expenses[i].key
      BY <3>1, <3>2 DEF TypeOK
    <3> QED BY <3>1, <3>3 DEF KeyMap
  <2>2. CASE ~(key[r] \in Keys /\ idempotencyKeys[key[r]] # 0)
    <3> DEFINE n == Len(expenses) + 1
               x == [body |-> body[r], roster |-> members[body[r].group],
                     key |-> key[r], journal |-> Len(journals) + 1]
    <3>1. /\ key[r] \in Keys => idempotencyKeys[key[r]] = 0
          /\ expenses' = Append(expenses, x)
          /\ idempotencyKeys' =
               IF key[r] = NoKey THEN idempotencyKeys
               ELSE [idempotencyKeys EXCEPT ![key[r]] = n]
      BY <1>2, <2>2, BookExpenseCases
    <3>2. x.key = key[r]
      OBVIOUS
    <3> HIDE DEF x
    <3>3. /\ DOMAIN expenses' = 1 .. n
          /\ expenses'[n].key = key[r]
          /\ \A i \in DOMAIN expenses :
               i # n /\ i \in 1 .. n /\ expenses'[i] = expenses[i]
          /\ \A i \in 1 .. n : i = n \/ i \in DOMAIN expenses
      BY <3>1, <3>2 DEF TypeOK
    <3>4. n \in Nat /\ n # 0
      BY DEF TypeOK
    <3>5. ASSUME NEW i \in DOMAIN expenses', expenses'[i].key # NoKey
          PROVE  idempotencyKeys'[expenses'[i].key] = i
      <4>1. CASE i = n
        BY <3>1, <3>3, <3>5, <4>1, NoKeyAssumption DEF TypeOK
      <4>2. CASE i # n
        <5>1. i \in DOMAIN expenses /\ expenses'[i] = expenses[i]
          BY <3>3, <4>2
        <5>2. expenses[i].key \in Keys
          <6>1. expenses[i] \in Expenses
            BY <5>1 DEF TypeOK
          <6> QED BY <3>5, <5>1, <6>1 DEF Expenses
        <5>3. idempotencyKeys[expenses[i].key] = i /\ i # 0
          BY <3>5, <5>1 DEF KeyMap, TypeOK
        <5>4. expenses[i].key # key[r]
          BY <3>1, <5>2, <5>3
        <5> QED BY <3>1, <5>1, <5>2, <5>3, <5>4 DEF TypeOK
      <4> QED BY <4>1, <4>2
    <3>6. ASSUME NEW k \in Keys, idempotencyKeys'[k] # 0
          PROVE  /\ idempotencyKeys'[k] \in DOMAIN expenses'
                 /\ expenses'[idempotencyKeys'[k]].key = k
      <4>1. CASE k = key[r]
        <5>1. idempotencyKeys'[k] = n
          BY <3>1, <4>1, NoKeyAssumption DEF TypeOK
        <5> QED BY <3>3, <3>4, <4>1, <5>1
      <4>2. CASE k # key[r]
        <5>1. idempotencyKeys'[k] = idempotencyKeys[k]
          BY <3>1, <4>2 DEF TypeOK
        <5> QED BY <3>3, <3>6, <5>1 DEF KeyMap
      <4> QED BY <4>1, <4>2
    <3> QED BY <3>5, <3>6 DEF KeyMap
  <2> QED BY <2>1, <2>2
<1> QED BY <1>1, <1>2

\* The key map agrees with the expenses in every reachable state.
LEMMA KeyMapInvariant == Spec => [](TypeOK /\ KeyMap)
<1>1. Init => KeyMap
  BY DEF Init, KeyMap
<1> QED BY <1>1, InitTypeOK, NextTypeOK, NextKeyMap, PTL DEF Spec

\* However often a key is lost from the cache and whatever cache commands
\* fail, the store books at most one expense under an idempotency key.
THEOREM KeysBookOnce == Spec => []OneExpensePerKey
<1>1. TypeOK /\ KeyMap => OneExpensePerKey
  BY DEF KeyMap, OneExpensePerKey, TypeOK
<1> QED BY <1>1, KeyMapInvariant, PTL

-----------------------------------------------------------------------------
(* As long as no key is lost, a key is worked on by one handler at a time,  *)
(* and no handler works on a key the store has booked.                      *)

Busy(r) == pc[r] \in {"locked", "created", "failed"}

\* Why nothing is posted twice: a handler works under its own lock, alone, a
\* handler about to book or to release finds its key unbooked, and so does
\* whoever takes a free key.
LockInv ==
  /\ \A r \in Requests : Busy(r) => cache[key[r]] = Processing
  /\ \A r \in Requests :
       pc[r] \in {"locked", "failed"} => idempotencyKeys[key[r]] = 0
  /\ \A r, s \in Requests : Busy(r) /\ Busy(s) /\ key[r] = key[s] => r = s
  /\ \A k \in Keys : cache[k] = Free => idempotencyKeys[k] = 0

\* The three kinds of cache value are told apart.
LEMMA DistinctValues ==
  /\ Free # Processing
  /\ Free.tag = "free" /\ Processing.tag = "PROCESSING"
  /\ \A re : /\ Response(re) # Free /\ Response(re) # Processing
            /\ Response(re).tag = "response"
BY DEF Free, Processing, Response

\* A handler that waits for the cache has a key.
LEMMA WaitingHasKey ==
  ASSUME TypeOK, NEW r \in Requests,
         key[r] # NoKey \/ pc[r] \notin {"arrived", "answered"}
  PROVE  key[r] \in Keys
BY DEF TypeOK

\* The three things that can happen to the cache in a step of handler r, or in
\* a cache command of r that fails: nothing, r takes the free key, or r, at
\* work under the key, stores its response or deletes the key.
LEMMA CacheSteps ==
  ASSUME TypeOK, NEW r \in Requests, Handle(r) \/ CacheFails(r)
  PROVE  \/ cache' = cache
         \/ /\ key[r] \in Keys /\ cache[key[r]] = Free /\ pc[r] = "arrived"
            /\ cache' = [cache EXCEPT ![key[r]] = Processing]
            /\ UNCHANGED <<key, ledgerVars>>
            /\ \/ pc' = [pc EXCEPT ![r] = "locked"]
               \/ pc' = [pc EXCEPT ![r] = "answered"]
         \/ /\ key[r] \in Keys /\ pc[r] = "created"
            /\ cache' = [cache EXCEPT ![key[r]] = Response(reply[r])]
            /\ UNCHANGED <<key, ledgerVars>>
            /\ pc' = [pc EXCEPT ![r] = "answered"]
         \/ /\ key[r] \in Keys /\ pc[r] = "failed"
            /\ cache' = [cache EXCEPT ![key[r]] = Free]
            /\ UNCHANGED <<key, ledgerVars>>
            /\ pc' = [pc EXCEPT ![r] = "answered"]
<1>1. CASE CheckAndLock(r)
  BY <1>1, WaitingHasKey DEF CheckAndLock, Acquires, Locked
<1>2. CASE ReadCached(r) \/ BookExpense(r) \/ RejectExpense(r)
  BY <1>2 DEF ReadCached, BookExpense, RejectExpense
<1>3. CASE StoreResponse(r)
  BY <1>3, WaitingHasKey DEF StoreResponse, Stored
<1>4. CASE Release(r)
  BY <1>4, WaitingHasKey DEF Release, Deleted
<1>5. CASE CacheFails(r)
  <2>1. key[r] \in Keys /\ UNCHANGED <<key, ledgerVars>>
        /\ pc' = [pc EXCEPT ![r] = "answered"]
    BY <1>5, WaitingHasKey DEF CacheFails
  <2>2. cache' = cache \/ cache' = CommandEffect(r)
    BY <1>5 DEF CacheFails
  <2>3. \/ CommandEffect(r) = cache
        \/ /\ pc[r] = "arrived" /\ cache[key[r]] = Free
           /\ CommandEffect(r) = [cache EXCEPT ![key[r]] = Processing]
        \/ /\ pc[r] = "created"
           /\ CommandEffect(r) = [cache EXCEPT ![key[r]] = Response(reply[r])]
        \/ /\ pc[r] = "failed"
           /\ CommandEffect(r) = [cache EXCEPT ![key[r]] = Free]
    BY DEF CommandEffect, Acquires, Locked, Stored, Deleted
  <2> QED BY <2>1, <2>2, <2>3
<1> QED BY <1>1, <1>2, <1>3, <1>4, <1>5 DEF Handle

\* LockInv is inductive when no key is lost.
LEMMA NextLockInv ==
  ASSUME KeyLoss = FALSE, TypeOK, LockInv, [Next]_vars
  PROVE  LockInv'
<1>1. ASSUME NEW r \in Requests, Handle(r) \/ CacheFails(r), cache' # cache
      PROVE  LockInv'
  <2>1. /\ key[r] \in Keys
        /\ UNCHANGED <<key, idempotencyKeys>>
        /\ \A s \in Requests : s # r => pc'[s] = pc[s]
        /\ \A k \in Keys : k # key[r] => cache'[k] = cache[k]
    BY <1>1, CacheSteps DEF TypeOK, ledgerVars
  <2>2. \A s \in Requests : Busy(s) /\ key[s] = key[r] => s = r
    BY <1>1, CacheSteps, DistinctValues DEF LockInv, Busy
  <2>3. idempotencyKeys[key[r]] = 0 \/ cache'[key[r]] # Free
    BY <1>1, CacheSteps, DistinctValues DEF LockInv, TypeOK
  <2>4. Busy(r)' => /\ pc'[r] = "locked"
                    /\ cache'[key[r]] = Processing
                    /\ idempotencyKeys[key[r]] = 0
    BY <1>1, CacheSteps DEF LockInv, TypeOK, Busy
  <2>5. \A s \in Requests : Busy(s)' /\ s # r => Busy(s) /\ key[s] # key[r]
    BY <2>1, <2>2 DEF Busy
  <2>6. \A s \in Requests : Busy(s) => key[s] \in Keys
    BY WaitingHasKey DEF Busy
  <2>7. \A s \in Requests : Busy(s)' => cache'[key'[s]] = Processing
    BY <2>1, <2>4, <2>5, <2>6 DEF LockInv
  <2>8. \A s \in Requests :
          pc'[s] \in {"locked", "failed"} => idempotencyKeys'[key'[s]] = 0
    BY <2>1, <2>4 DEF LockInv, Busy
  <2>9. \A s, t \in Requests :
          Busy(s)' /\ Busy(t)' /\ key'[s] = key'[t] => s = t
    BY <2>1, <2>5 DEF LockInv
  <2>10. \A k \in Keys : cache'[k] = Free => idempotencyKeys'[k] = 0
    BY <2>1, <2>3 DEF LockInv
  <2>11. Processing' = Processing /\ Free' = Free
    BY DEF Processing, Free
  <2> QED BY <2>7, <2>8, <2>9, <2>10, <2>11 DEF LockInv
<1>2. ASSUME NEW r \in Requests, BookExpense(r) PROVE LockInv'
  <2>1. UNCHANGED <<key, cache>>
    BY <1>2 DEF BookExpense
  <2>2. pc' = [pc EXCEPT ![r] = IF key[r] = NoKey THEN "answered" ELSE "created"]
    BY <1>2 DEF BookExpense
  <2>3. key[r] # NoKey => /\ Busy(r) /\ key[r] \in Keys
                          /\ cache[key[r]] = Processing
    BY <1>2, WaitingHasKey DEF BookExpense, InService, LockInv, Busy
  <2>4. \A s \in Requests :
          key[s] # key[r] \/ key[r] = NoKey
            => idempotencyKeys'[key[s]] = idempotencyKeys[key[s]]
    BY <1>2 DEF BookExpense, TypeOK
  <2>5. \A s \in Requests : Busy(s)' => Busy(s)
    BY <2>2, <2>3 DEF Busy, TypeOK
  <2>6. \A s \in Requests : pc'[s] \in {"locked", "failed"} =>
          /\ s # r /\ pc[s] = pc'[s]
          /\ key[s] # key[r] \/ key[r] = NoKey
    BY <2>2, <2>3 DEF Busy, TypeOK, LockInv
  <2>7. \A s \in Requests :
          pc'[s] \in {"locked", "failed"} => idempotencyKeys'[key[s]] = 0
    BY <2>4, <2>6 DEF LockInv
  <2>8. \A k \in Keys : cache[k] = Free => idempotencyKeys'[k] = 0
    <3>1. \A k \in Keys : cache[k] = Free =>
            idempotencyKeys'[k] = idempotencyKeys[k]
      BY <1>2, <2>3, DistinctValues DEF BookExpense, TypeOK
    <3> QED BY <3>1 DEF LockInv
  <2>9. Processing' = Processing /\ Free' = Free
    BY DEF Processing, Free
  <2> QED BY <2>1, <2>5, <2>7, <2>8, <2>9 DEF LockInv
<1>3. ASSUME NEW r \in Requests, Handle(r) \/ CacheFails(r), cache' = cache,
             ~BookExpense(r)
      PROVE  LockInv'
  <2>1. UNCHANGED <<key, idempotencyKeys>>
    BY <1>3 DEF Handle, CheckAndLock, ReadCached, RejectExpense, StoreResponse,
                Release, CacheFails, ledgerVars
  <2>2. \A s \in Requests : s # r => pc'[s] = pc[s]
    BY <1>3 DEF Handle, CheckAndLock, ReadCached, RejectExpense, StoreResponse,
                Release, CacheFails, TypeOK
  <2>3. Busy(r)' => pc[r] = "locked" /\ pc'[r] = "failed"
    <3>1. CASE CheckAndLock(r)
      <4>1. CASE Acquires(key[r])
        <5>1. cache'[key[r]] = Processing /\ cache[key[r]] = Free
          BY <3>1, <4>1, WaitingHasKey
             DEF CheckAndLock, Acquires, Locked, TypeOK
        <5> QED BY <1>3, <5>1, DistinctValues
      <4>2. CASE ~Acquires(key[r])
        BY <3>1, <4>2 DEF CheckAndLock, TypeOK, Busy
      <4> QED BY <4>1, <4>2
    <3>2. CASE RejectExpense(r)
      BY <3>2 DEF RejectExpense, AfterReject, InService, TypeOK, Busy
    <3>3. CASE ReadCached(r) \/ StoreResponse(r) \/ Release(r) \/ CacheFails(r)
      BY <3>3 DEF ReadCached, AfterRead, StoreResponse, Release, CacheFails,
                  TypeOK, Busy
    <3> QED BY <1>3, <3>1, <3>2, <3>3 DEF Handle
  <2>4. \A s \in Requests : Busy(s)' => Busy(s)
    BY <2>2, <2>3 DEF Busy
  <2>5. \A s \in Requests :
          pc'[s] \in {"locked", "failed"} => pc[s] \in {"locked", "failed"}
    BY <2>2, <2>3 DEF Busy
  <2>6. Processing' = Processing /\ Free' = Free
    BY DEF Processing, Free
  <2> QED BY <1>3, <2>1, <2>4, <2>5, <2>6 DEF LockInv
<1>4. CASE UNCHANGED <<key, pc, cache, idempotencyKeys>>
  BY <1>4 DEF LockInv, Busy, Processing, Free
<1>5. ASSUME NEW k \in Keys PROVE ~KeyLost(k)
  BY DEF KeyLost
<1>6. ASSUME NEW g \in Groups, NEW u \in Users, AddMember(g, u)
      PROVE  UNCHANGED <<key, pc, cache, idempotencyKeys>>
  BY <1>6 DEF AddMember, ledgerVars
<1>7. UNCHANGED vars => UNCHANGED <<key, pc, cache, idempotencyKeys>>
  BY DEF vars, ledgerVars
<1> QED BY <1>1, <1>2, <1>3, <1>4, <1>5, <1>6, <1>7 DEF Next, Handle, Idle

-----------------------------------------------------------------------------
(* Ledger, store and outbox move together. *)

\* The i-th journal and the i-th event are those of the i-th expense.
Lockstep ==
  /\ Len(journals) = Len(expenses)
  /\ Len(outbox) = Len(expenses)
  /\ \A i \in DOMAIN expenses :
       /\ expenses[i].journal = i /\ Booking(expenses[i]) = journals[i]
       /\ outbox[i].expense = i   /\ Booking(outbox[i]) = journals[i]

\* Under LockInv a booking is always a new one, and appends to all three.
LEMMA BookExpenseAppends ==
  ASSUME TypeOK, LockInv, Lockstep, NEW r \in Requests, BookExpense(r)
  PROVE  LET n == Len(expenses) + 1
             b == [body |-> body[r], roster |-> members[body[r].group]]
         IN  /\ journals' = Append(journals, b)
             /\ expenses' = Append(expenses,
                              [body |-> b.body, roster |-> b.roster,
                               key |-> key[r], journal |-> n])
             /\ outbox' = Append(outbox, [expense |-> n, body |-> b.body,
                                         roster |-> b.roster])
             /\ reply' = [reply EXCEPT ![r] = Reply(201, n, n)]
<1>1. key[r] # NoKey => idempotencyKeys[key[r]] = 0
  BY DEF BookExpense, InService, LockInv
<1>2. ExpenseFor(r) = Len(expenses) + 1
  BY <1>1 DEF ExpenseFor
<1>3. Len(expenses) + 1 \notin DOMAIN expenses
  BY DEF TypeOK
<1> QED BY <1>2, <1>3 DEF BookExpense, Lockstep

\* Lockstep is inductive when no key is lost.
LEMMA NextLockstep ==
  ASSUME TypeOK, LockInv, Lockstep, [Next]_vars
  PROVE  Lockstep'
<1>1. CASE \A r \in Requests : ~BookExpense(r)
  BY <1>1, LedgerUntouched DEF Lockstep, Booking, ledgerVars
<1>2. ASSUME NEW r \in Requests, BookExpense(r) PROVE Lockstep'
  <2> DEFINE n == Len(expenses) + 1
             b == [body |-> body[r], roster |-> members[body[r].group]]
             x == [body |-> b.body, roster |-> b.roster,
                   key |-> key[r], journal |-> n]
             v == [expense |-> n, body |-> b.body, roster |-> b.roster]
  <2>1. /\ journals' = Append(journals, b)
        /\ expenses' = Append(expenses, x)
        /\ outbox' = Append(outbox, v)
    BY <1>2, BookExpenseAppends
  <2>2. /\ x.journal = n /\ Booking(x) = b
        /\ v.expense = n /\ Booking(v) = b
    BY DEF Booking
  <2> HIDE DEF x, v, b
  <2>3. /\ Len(journals') = n /\ Len(expenses') = n /\ Len(outbox') = n
        /\ DOMAIN expenses' = 1 .. n
        /\ journals'[n] = b /\ expenses'[n] = x /\ outbox'[n] = v
        /\ \A i \in DOMAIN expenses : /\ journals'[i] = journals[i]
                                      /\ expenses'[i] = expenses[i]
                                      /\ outbox'[i] = outbox[i]
        /\ \A i \in 1 .. n : i = n \/ i \in DOMAIN expenses
    <3>1. /\ journals \in Seq(Bookings) /\ expenses \in Seq(Expenses)
          /\ outbox \in Seq(Events)
          /\ Len(journals) = Len(expenses) /\ Len(outbox) = Len(expenses)
          /\ Len(expenses) \in Nat
      BY DEF TypeOK, Lockstep
    <3>2. /\ Len(journals') = n /\ journals'[n] = b
          /\ \A i \in 1 .. Len(expenses) : journals'[i] = journals[i]
      BY <2>1, <3>1
    <3>3. /\ Len(expenses') = n /\ expenses'[n] = x /\ DOMAIN expenses' = 1 .. n
          /\ \A i \in 1 .. Len(expenses) : expenses'[i] = expenses[i]
      BY <2>1, <3>1
    <3>4. /\ Len(outbox') = n /\ outbox'[n] = v
          /\ \A i \in 1 .. Len(expenses) : outbox'[i] = outbox[i]
      BY <2>1, <3>1
    <3>5. DOMAIN expenses = 1 .. Len(expenses)
      BY <3>1
    <3>6. \A i \in 1 .. n : i = n \/ i \in DOMAIN expenses
      BY <3>1, <3>5
    <3> QED BY <3>2, <3>3, <3>4, <3>5, <3>6
  <2>4. ASSUME NEW i \in DOMAIN expenses'
        PROVE  /\ expenses'[i].journal = i /\ Booking(expenses'[i]) = journals'[i]
               /\ outbox'[i].expense = i   /\ Booking(outbox'[i]) = journals'[i]
    BY <2>2, <2>3 DEF Lockstep
  <2> QED BY <2>3, <2>4 DEF Lockstep, Booking
<1> QED BY <1>1, <1>2

\* The inductive invariant of an intake whose keys are never lost.
IntakeInv == TypeOK /\ LockInv /\ Lockstep

\* The intake invariant holds throughout, as long as no key is lost.
LEMMA IntakeInvariant ==
  ASSUME KeyLoss = FALSE
  PROVE  Spec => []IntakeInv
<1>1. Init => LockInv /\ Lockstep
  BY DEF Init, LockInv, Lockstep, Busy
<1>2. IntakeInv /\ [Next]_vars => IntakeInv'
  BY NextTypeOK, NextLockInv, NextLockstep DEF IntakeInv
<1> QED BY <1>1, <1>2, InitTypeOK, PTL DEF Spec, IntakeInv

\* If no key is lost before its client stops retrying, the ledger has exactly
\* one journal for each expense, even when cache commands fail.
THEOREM NothingJournaledTwice ==
  ASSUME KeyLoss = FALSE
  PROVE  Spec => []OneJournalPerExpense
<1>1. IntakeInv => OneJournalPerExpense
  <2> SUFFICES ASSUME IntakeInv PROVE OneJournalPerExpense
      OBVIOUS
  <2>1. DOMAIN journals = DOMAIN expenses
    BY DEF IntakeInv, TypeOK, Lockstep
  <2> QED BY <2>1 DEF IntakeInv, Lockstep, OneJournalPerExpense
<1> QED BY <1>1, IntakeInvariant, PTL

\* Under the same assumption EXPENSE_CREATED is emitted once per expense.
THEOREM NothingEmittedTwice ==
  ASSUME KeyLoss = FALSE
  PROVE  Spec => []OneEventPerExpense
<1>1. IntakeInv => OneEventPerExpense
  <2> SUFFICES ASSUME IntakeInv PROVE OneEventPerExpense
      OBVIOUS
  <2>1. DOMAIN outbox = DOMAIN expenses
    BY DEF IntakeInv, TypeOK, Lockstep
  <2> QED BY <2>1 DEF IntakeInv, Lockstep, OneEventPerExpense
<1> QED BY <1>1, IntakeInvariant, PTL

\* Under the same assumption no two handlers work under one key at a time.
THEOREM OneHandlerPerKey ==
  ASSUME KeyLoss = FALSE
  PROVE  Spec => []LockIsExclusive
<1>1. IntakeInv => LockIsExclusive
  BY DEF IntakeInv, LockInv, LockIsExclusive, InFlight, Busy
<1> QED BY <1>1, IntakeInvariant, PTL

\* Under the same assumption a cached response is never replaced or deleted:
\* every retry is answered alike.
THEOREM ResponsesAreFinal ==
  ASSUME KeyLoss = FALSE
  PROVE  Spec => CachedResponseIsFinal
<1> DEFINE Final == \A k \in Keys : cache[k].tag = "response" => cache'[k] = cache[k]
<1>1. IntakeInv /\ [Next]_vars => [Final]_vars
  <2> SUFFICES ASSUME IntakeInv, [Next]_vars PROVE Final
      OBVIOUS
  <2>1. ASSUME NEW r \in Requests, Handle(r) \/ CacheFails(r) PROVE Final
    <3>1. \/ cache' = cache
          \/ /\ key[r] \in Keys
             /\ cache[key[r]] = Free \/ cache[key[r]] = Processing
             /\ \E c : cache' = [cache EXCEPT ![key[r]] = c]
      BY <2>1, CacheSteps DEF IntakeInv, LockInv, Busy
    <3> QED BY <3>1, DistinctValues DEF IntakeInv, TypeOK
  <2>2. ASSUME NEW k \in Keys PROVE ~KeyLost(k)
    BY DEF KeyLost
  <2>3. ASSUME NEW g \in Groups, NEW u \in Users, AddMember(g, u) PROVE Final
    BY <2>3 DEF AddMember
  <2>4. CASE UNCHANGED vars
    BY <2>4 DEF vars
  <2> QED BY <2>1, <2>2, <2>3, <2>4 DEF Next, Idle
<1>2. [Final]_vars <=> [\A k \in Keys : cache[k].tag = "response"
                                      => cache'[k] = cache[k]]_vars
  OBVIOUS
<1> HIDE DEF Final
<1> QED BY <1>1, <1>2, IntakeInvariant, PTL DEF Spec, CachedResponseIsFinal

-----------------------------------------------------------------------------
(* Ledger and store say the same of every user.                             *)

\* What a journal was posted for: shares of users, that the ledger accepted.
WellBooked(b) ==
  /\ b.body.payer \in Users
  /\ BookedSplits(b) \in Seq(Shares(Users))
  /\ \A i \in Others(BookedSplits(b), b.body.payer) :
       BookedSplits(b)[i].amount >= 1
BookedInv == \A j \in DOMAIN journals : WellBooked(journals[j])

\* No wallet is a clearing account.
LEMMA WalletsAreNotClearing == \A u, n : Wallet(u) # ExpenseClearing(n)
BY DEF Wallet, ExpenseClearing

\* An accepted body is split into shares of users, and the members are users.
LEMMA AcceptedSplits ==
  ASSUME NEW b \in Bodies, NEW roster \in Seq(Users),
         b.total >= 1, b.payer \in Range(roster), SplitAccepted(b)
  PROVE  b.payer \in Users /\ Splits(b, roster) \in Seq(Shares(Users))
<1>1. b.total \in Nat
  BY BodiesAssumption
<1>2. b.payer \in Users /\ roster # << >>
  BY DEF Range
<1>3. CASE b.type = "EQUAL"
  BY <1>1, <1>2, <1>3, EqualShares DEF Splits
<1>4. CASE b.type = "EXACT"
  BY <1>2, <1>4, BodiesAssumption DEF Splits, Shares
<1>5. CASE b.type = "PERCENTAGE"
  <2>1. b.given \in Seq(Percents(Users)) /\ b.given # << >>
    BY <1>5, BodiesAssumption DEF SplitAccepted, Percents
  <2>2. SplitPercentage(b.total, b.given) \in Seq(Shares(Users))
    BY <1>1, <2>1, PercentageShares
  <2>. QED  BY <1>2, <1>5, <2>2 DEF Splits
<1>. QED  BY <1>3, <1>4, <1>5 DEF SplitAccepted

\* A booking is well booked.
LEMMA AcceptedIsWellBooked ==
  ASSUME TypeOK, NEW r \in Requests, Accepted(body[r])
  PROVE  WellBooked([body |-> body[r], roster |-> members[body[r].group]])
<1>. DEFINE b == body[r]  roster == members[b.group]  s == Splits(b, roster)
<1>1. b \in Bodies /\ roster \in Seq(Users)
  BY AcceptedRoster
<1>2. /\ b.total >= 1 /\ b.payer \in Range(roster) /\ SplitAccepted(b)
      /\ AmountsValid(ExpenseLines(b.payer, s, ExpenseClearing(0)))
  BY DEF Accepted
<1>3. b.payer \in Users /\ s \in Seq(Shares(Users))
  BY <1>1, <1>2, AcceptedSplits
<1>4. \A i \in Others(s, b.payer) : s[i].amount >= 1
  <2>. HIDE DEF s, b
  <2>. QED  BY <1>2, <1>3, WalletsAreNotClearing, ExpenseBalances
<1>. QED  BY <1>3, <1>4 DEF WellBooked, BookedSplits

\* BookedInv is inductive.
LEMMA NextBookedInv ==
  ASSUME TypeOK, LockInv, Lockstep, BookedInv, [Next]_vars
  PROVE  BookedInv'
<1>1. CASE \A r \in Requests : ~BookExpense(r)
  BY <1>1, LedgerUntouched DEF BookedInv, WellBooked, BookedSplits, ledgerVars
<1>2. ASSUME NEW r \in Requests, BookExpense(r) PROVE BookedInv'
  <2>. DEFINE b == [body |-> body[r], roster |-> members[body[r].group]]
  <2>1. journals' = Append(journals, b)
    BY <1>2, BookExpenseAppends
  <2>2. WellBooked(b)
    BY <1>2, AcceptedIsWellBooked DEF BookExpense
  <2>. HIDE DEF b
  <2>3. \A j \in DOMAIN journals' :
          journals'[j] = b \/ (j \in DOMAIN journals /\ journals'[j] = journals[j])
    BY <2>1 DEF TypeOK
  <2>4. \A j \in DOMAIN journals' : WellBooked(journals'[j])
    BY <2>2, <2>3 DEF BookedInv
  <2>. QED  BY <2>4 DEF BookedInv, WellBooked, BookedSplits
<1>. QED  BY <1>1, <1>2

\* A well booked journal moves between the wallets what its expense says.
LEMMA JournalMatchesExpense ==
  ASSUME IntakeInv, BookedInv, NEW j \in DOMAIN journals, NEW u
  PROVE  /\ j \in DOMAIN expenses
         /\ Balance(LinesOf(j), Wallet(u))
              = NetOf([payer  |-> expenses[j].body.payer,
                       splits |-> BookedSplits(expenses[j])], u)
<1>. DEFINE b == journals[j]  s == BookedSplits(b)
            tx == [payer |-> b.body.payer, splits |-> s]
<1>1. j \in DOMAIN expenses /\ Booking(expenses[j]) = b
  BY DEF IntakeInv, TypeOK, Lockstep
<1>2. expenses[j].body = b.body /\ BookedSplits(expenses[j]) = s
  BY <1>1 DEF Booking, BookedSplits
<1>3. /\ b.body.payer \in Users /\ s \in Seq(Shares(Users))
      /\ \A i \in Others(s, b.body.payer) : s[i].amount >= 1
  BY DEF BookedInv, WellBooked
<1>. HIDE DEF b, s
<1>4. AmountsValid(ExpenseLines(b.body.payer, s, ExpenseClearing(j)))
  BY <1>3, WalletsAreNotClearing, ExpenseBalances
<1>5. Balance(ExpenseLines(tx.payer, tx.splits, ExpenseClearing(j)), Wallet(u)) = NetOf(tx, u)
  <2>. DEFINE c == ExpenseClearing(j)
  <2>1. tx.payer \in Users /\ tx.splits \in Seq(Shares(Users))
    BY <1>3
  <2>2. AmountsValid(ExpenseLines(tx.payer, tx.splits, c))
    BY <1>4
  <2>3. \A v : Wallet(v) # c
    BY WalletsAreNotClearing
  <2>. HIDE DEF tx, c
  <2>4. Balance(ExpenseLines(tx.payer, tx.splits, c), Wallet(u)) = NetOf(tx, u)
    BY <2>1, <2>2, <2>3, ExpenseWallets
  <2>. QED  BY <2>4 DEF c
<1>6. LinesOf(j) = ExpenseLines(tx.payer, tx.splits, ExpenseClearing(j))
  BY DEF LinesOf, b, s
<1>. QED  BY <1>1, <1>2, <1>5, <1>6

\* Under the same assumption the wallets of the ledger and the net balances of
\* the stored expenses agree, user by user, whatever was split in what way and
\* whoever joined in between.
THEOREM BooksAgree ==
  ASSUME KeyLoss = FALSE
  PROVE  Spec => []LedgerMatchesStore
<1>1. Init => BookedInv
  BY DEF Init, BookedInv
<1>2. IntakeInv /\ BookedInv /\ [Next]_vars => BookedInv'
  BY NextBookedInv DEF IntakeInv
<1>3. IntakeInv /\ BookedInv => LedgerMatchesStore
  <2>. SUFFICES ASSUME IntakeInv, BookedInv, NEW u \in Users
                PROVE  WalletBalance(u) = StoreBalance(u)
    BY DEF LedgerMatchesStore
  <2>. DEFINE tx(i) == [payer  |-> expenses[i].body.payer,
                        splits |-> BookedSplits(expenses[i])]
              txs == [i \in DOMAIN expenses |-> tx(i)]
              inLedger == [j \in DOMAIN journals |-> Balance(LinesOf(j), Wallet(u))]
              inStore  == [i \in DOMAIN txs |-> NetOf(txs[i], u)]
  <2>1. DOMAIN journals = DOMAIN expenses
    BY DEF IntakeInv, TypeOK, Lockstep
  <2>2. \A j \in DOMAIN journals : Balance(LinesOf(j), Wallet(u)) = NetOf(txs[j], u)
    BY <2>1, JournalMatchesExpense
  <2>3. inLedger = inStore
    BY <2>1, <2>2, Zenon
  <2>. QED  BY <2>3, Zenon DEF WalletBalance, StoreBalance, NetBalance
<1>. QED  BY <1>1, <1>2, <1>3, IntakeInvariant, PTL DEF Spec

-----------------------------------------------------------------------------
(* The intake implements BookingContract, whether or not keys are lost and  *)
(* cache commands fail.                                                     *)

OwnedBy(e, k) == e \in DOMAIN expenses /\ expenses[e].key = k

\* What the handlers and the cache say about expenses: a confirmation, sent or
\* on its way, and a cached response name an expense of their own key.
AnswerInv ==
  /\ \A r \in Requests : pc[r] = "created" => reply[r].status = 201
  /\ \A r \in Requests : pc[r] = "failed" => reply[r].status = 400
  /\ \A r \in Requests :
       reply[r].status = 201 => OwnedBy(reply[r].expense, key[r])
  /\ \A k \in Keys :
       cache[k].tag = "response" => OwnedBy(cache[k].expense, k)

\* Expenses are never removed and keep their key and body.
LEMMA ExpensesGrow ==
  ASSUME TypeOK, KeyMap, [Next]_vars
  PROVE  \A i \in DOMAIN expenses : /\ i \in DOMAIN expenses'
                                    /\ expenses'[i].key = expenses[i].key
                                    /\ expenses'[i].body = expenses[i].body
<1>1. CASE \A r \in Requests : ~BookExpense(r)
  BY <1>1, LedgerUntouched DEF ledgerVars
<1>2. ASSUME NEW r \in Requests, BookExpense(r), NEW i \in DOMAIN expenses
      PROVE  /\ i \in DOMAIN expenses'
             /\ expenses'[i].key = expenses[i].key
             /\ expenses'[i].body = expenses[i].body
  <2>1. ASSUME NEW e \in DOMAIN expenses, NEW j,
               expenses' = [expenses EXCEPT ![e] = WithJournal(expenses[e], j)]
        PROVE  /\ i \in DOMAIN expenses'
               /\ expenses'[i].key = expenses[i].key
               /\ expenses'[i].body = expenses[i].body
    BY <2>1 DEF WithJournal, TypeOK
  <2>2. ASSUME NEW x, expenses' = Append(expenses, x)
        PROVE  i \in DOMAIN expenses' /\ expenses'[i] = expenses[i]
    BY <2>2 DEF TypeOK
  <2> QED BY <1>2, <2>1, <2>2, BookExpenseCases
<1> QED BY <1>1, <1>2

\* A booking confirms an expense of the request's own key.
LEMMA BookedOwned ==
  ASSUME TypeOK, KeyMap, NEW r \in Requests, BookExpense(r)
  PROVE  /\ ExpenseFor(r) \in DOMAIN expenses'
         /\ expenses'[ExpenseFor(r)].key = key[r]
<1>1. [Next]_vars
  BY DEF Next, Handle
<1>2. CASE key[r] # NoKey /\ idempotencyKeys[key[r]] # 0
  <2>1. ExpenseFor(r) = idempotencyKeys[key[r]] /\ key[r] \in Keys
    BY <1>2 DEF ExpenseFor, TypeOK
  <2>2. OwnedBy(ExpenseFor(r), key[r])
    BY <1>2, <2>1 DEF KeyMap, OwnedBy
  <2> QED BY <1>1, <2>2, ExpensesGrow DEF OwnedBy
<1>3. CASE ~(key[r] # NoKey /\ idempotencyKeys[key[r]] # 0)
  <2> DEFINE n == Len(expenses) + 1
             x == [body |-> body[r], roster |-> members[body[r].group],
                   key |-> key[r], journal |-> Len(journals) + 1]
  <2>1. ExpenseFor(r) = n
    BY <1>3 DEF ExpenseFor
  <2>2. expenses' = Append(expenses, x)
    <3>1. key[r] \in Keys => key[r] # NoKey
      BY NoKeyAssumption
    <3> QED BY <1>3, <3>1, BookExpenseCases
  <2>3. x.key = key[r]
    OBVIOUS
  <2> HIDE DEF x
  <2> QED BY <2>1, <2>2, <2>3 DEF TypeOK
<1> QED BY <1>2, <1>3

\* A reply of a step, if it is a 201, is the one of a booking or of a cached
\* response; every other reply of the step is what it was.
LEMMA ReplySteps ==
  ASSUME TypeOK, [Next]_vars, NEW r \in Requests
  PROVE  \/ reply'[r] = reply[r]
         \/ BookExpense(r) /\ reply'[r].status = 201
                           /\ reply'[r].expense = ExpenseFor(r)
         \/ /\ ReadCached(r) /\ key[r] \in Keys
            /\ cache[key[r]].tag = "response" => 
                 reply'[r].status = 201 /\ reply'[r].expense = cache[key[r]].expense
            /\ cache[key[r]].tag # "response" => reply'[r].status = 409
         \/ RejectExpense(r) /\ reply'[r].status = 400
         \/ CacheFails(r) /\ reply'[r].status = 500
<1>1. ASSUME NEW s \in Requests, Handle(s) \/ CacheFails(s), s # r
      PROVE  reply'[r] = reply[r]
  BY <1>1 DEF Handle, CheckAndLock, ReadCached, BookExpense, RejectExpense,
              StoreResponse, Release, CacheFails, TypeOK
<1>2. CASE CheckAndLock(r) \/ StoreResponse(r) \/ Release(r)
  BY <1>2 DEF CheckAndLock, StoreResponse, Release
<1>3. CASE BookExpense(r)
  BY <1>3 DEF BookExpense, Reply, TypeOK
<1>4. CASE ReadCached(r)
  <2>1. key[r] \in Keys
    BY <1>4, WaitingHasKey DEF ReadCached
  <2> QED BY <1>4, <2>1 DEF ReadCached, Reply, TypeOK
<1>5. CASE RejectExpense(r)
  BY <1>5 DEF RejectExpense, Reply, TypeOK
<1>6. CASE CacheFails(r)
  BY <1>6 DEF CacheFails, Reply, TypeOK
<1>7. ASSUME NEW k \in Keys, KeyLost(k) PROVE reply' = reply
  BY <1>7 DEF KeyLost
<1>8. ASSUME NEW g \in Groups, NEW u \in Users, AddMember(g, u)
      PROVE  reply' = reply
  BY <1>8 DEF AddMember
<1>9. UNCHANGED vars => reply' = reply
  BY DEF vars
<1> QED BY <1>1, <1>2, <1>3, <1>4, <1>5, <1>6, <1>7, <1>8, <1>9
           DEF Next, Handle, Idle

\* AnswerInv is inductive.
LEMMA NextAnswerInv ==
  ASSUME TypeOK, KeyMap, AnswerInv, [Next]_vars
  PROVE  AnswerInv'
<1>1. key' = key
  BY DEF Next, Handle, Idle, vars, CheckAndLock, ReadCached, BookExpense,
         RejectExpense, StoreResponse, Release, CacheFails, KeyLost, AddMember
<1>2. ASSUME NEW r \in Requests
      PROVE  /\ pc'[r] = "created" => reply'[r].status = 201
             /\ pc'[r] = "failed" => reply'[r].status = 400
  <2>1. ASSUME NEW s \in Requests, Handle(s) \/ CacheFails(s), s # r
        PROVE  reply'[r] = reply[r] /\ pc'[r] = pc[r]
    BY <2>1 DEF Handle, CheckAndLock, ReadCached, BookExpense, RejectExpense,
                StoreResponse, Release, CacheFails, TypeOK
  <2>2. CASE BookExpense(r)
    BY <2>2 DEF BookExpense, Reply, TypeOK
  <2>3. CASE RejectExpense(r)
    BY <2>3 DEF RejectExpense, AfterReject, Reply, TypeOK
  <2>4. ASSUME CheckAndLock(r) \/ ReadCached(r) \/ StoreResponse(r)
                 \/ Release(r) \/ CacheFails(r)
        PROVE  pc'[r] \notin {"created", "failed"}
    BY <2>4 DEF CheckAndLock, ReadCached, AfterRead, StoreResponse, Release,
                CacheFails, TypeOK
  <2>5. ASSUME NEW k \in Keys, KeyLost(k) PROVE UNCHANGED <<pc, reply>>
    BY <2>5 DEF KeyLost
  <2>6. ASSUME NEW g \in Groups, NEW u \in Users, AddMember(g, u)
        PROVE  UNCHANGED <<pc, reply>>
    BY <2>6 DEF AddMember
  <2>7. UNCHANGED vars => UNCHANGED <<pc, reply>>
    BY DEF vars
  <2> QED BY <2>1, <2>2, <2>3, <2>4, <2>5, <2>6, <2>7
             DEF Next, Handle, Idle, AnswerInv
<1>3. ASSUME NEW r \in Requests, reply'[r].status = 201
      PROVE  OwnedBy(reply[r].expense, key[r])'
  <2>1. CASE reply'[r] = reply[r]
    BY <1>1, <1>3, <2>1, ExpensesGrow DEF AnswerInv, OwnedBy
  <2>2. CASE BookExpense(r) /\ reply'[r].expense = ExpenseFor(r)
    BY <1>1, <2>2, BookedOwned DEF OwnedBy
  <2>3. CASE /\ key[r] \in Keys /\ cache[key[r]].tag = "response"
             /\ reply'[r].expense = cache[key[r]].expense
    BY <1>1, <2>3, ExpensesGrow DEF AnswerInv, OwnedBy
  <2> QED BY <1>3, <2>1, <2>2, <2>3, ReplySteps
<1>4. ASSUME NEW k \in Keys, cache'[k].tag = "response"
      PROVE  OwnedBy(cache[k].expense, k)'
  <2>1. CASE cache'[k] = cache[k]
    BY <1>4, <2>1, ExpensesGrow DEF AnswerInv, OwnedBy
  <2>2. ASSUME NEW r \in Requests, Handle(r) \/ CacheFails(r),
               cache'[k] # cache[k]
        PROVE  OwnedBy(cache[k].expense, k)'
    <3>1. /\ pc[r] = "created" /\ k = key[r]
          /\ cache'[k].expense = reply[r].expense
      <4>1. \/ cache'[k] = Processing \/ cache'[k] = Free
            \/ /\ pc[r] = "created" /\ k = key[r]
               /\ cache'[k] = Response(reply[r])
        BY <2>2, CacheSteps DEF TypeOK
      <4> QED BY <1>4, <4>1, DistinctValues DEF Response
    <3> QED BY <3>1, ExpensesGrow DEF AnswerInv, OwnedBy
  <2>3. ASSUME NEW l \in Keys, KeyLost(l) PROVE cache'[k] = cache[k]
    <3>1. cache' = [cache EXCEPT ![l] = Free]
      BY <2>3 DEF KeyLost, Deleted
    <3> QED BY <1>4, <3>1, DistinctValues DEF TypeOK
  <2>4. ASSUME NEW g \in Groups, NEW u \in Users, AddMember(g, u)
        PROVE  cache' = cache
    BY <2>4 DEF AddMember
  <2>5. UNCHANGED vars => cache' = cache
    BY DEF vars
  <2> QED BY <2>1, <2>2, <2>3, <2>4, <2>5 DEF Next, Idle
<1> QED BY <1>2, <1>3, <1>4 DEF AnswerInv

\* The invariant the refinement needs.
LEMMA AnswerInvariant == Spec => [](TypeOK /\ KeyMap /\ AnswerInv)
<1>1. Init => AnswerInv
  BY DEF Init, AnswerInv, NoReply, Reply, Free
<1> QED BY <1>1, NextAnswerInv, KeyMapInvariant, PTL DEF Spec

-----------------------------------------------------------------------------
(* The refinement, step by step. *)

\* The bookings a client can see are a sequence as long as the store's.
LEMMA ViewIsSeq ==
  ASSUME TypeOK
  PROVE  /\ BookedView \in Seq([key : Keys \cup {NoKey}, body : Bodies])
         /\ Len(BookedView) = Len(expenses)
         /\ DOMAIN BookedView = DOMAIN expenses
<1>1. \A i \in DOMAIN expenses : expenses[i] \in Expenses
  BY DEF TypeOK
<1>2. \A i \in DOMAIN expenses :
        [key |-> expenses[i].key, body |-> expenses[i].body]
          \in [key : Keys \cup {NoKey}, body : Bodies]
  BY <1>1 DEF Expenses
<1>3. DOMAIN expenses = 1 .. Len(expenses) /\ Len(expenses) \in Nat
  BY DEF TypeOK
<1> QED BY <1>2, <1>3 DEF BookedView

\* An expense appended to the store is appended to what clients see.
LEMMA ViewAppends ==
  ASSUME TypeOK, NEW r \in Requests, NEW x,
         expenses' = Append(expenses, x), x.key = key[r], x.body = body[r]
  PROVE  BookedView' = Append(BookedView, [key |-> key[r], body |-> body[r]])
<1> DEFINE n == Len(expenses) + 1
           v == [key |-> key[r], body |-> body[r]]
<1>1. /\ DOMAIN expenses' = 1 .. n /\ expenses'[n] = x
      /\ \A i \in 1 .. n : i = n \/ (i \in DOMAIN expenses
                                     /\ expenses'[i] = expenses[i])
  BY DEF TypeOK
<1>2. /\ DOMAIN BookedView' = 1 .. n
      /\ BookedView'[n] = v
      /\ \A i \in 1 .. n : i = n \/ BookedView'[i] = BookedView[i]
  BY <1>1 DEF BookedView, TypeOK
<1>3. BookedView' = [i \in 1 .. n |-> BookedView'[i]]
  BY <1>2 DEF BookedView
<1>4. /\ DOMAIN Append(BookedView, v) = 1 .. n
      /\ Append(BookedView, v)[n] = v
      /\ \A i \in 1 .. n : i = n \/ Append(BookedView, v)[i] = BookedView[i]
      /\ Append(BookedView, v) = [i \in 1 .. n |-> Append(BookedView, v)[i]]
  <2> DEFINE S == [key : Keys \cup {NoKey}, body : Bodies]
  <2>1. v \in S
    BY DEF TypeOK
  <2>2. BookedView \in Seq(S) /\ Len(BookedView) = Len(expenses)
    BY ViewIsSeq
  <2> HIDE DEF v, S
  <2>3. /\ Append(BookedView, v) \in Seq(S)
        /\ Len(Append(BookedView, v)) = Len(BookedView) + 1
        /\ \A i \in 1 .. Len(BookedView) :
             Append(BookedView, v)[i] = BookedView[i]
        /\ Append(BookedView, v)[Len(BookedView) + 1] = v
    BY <2>1, <2>2, AppendProperties
  <2>4. Len(expenses) \in Nat
    BY DEF TypeOK
  <2>5. \A i \in 1 .. n : i = n \/ i \in 1 .. Len(BookedView)
    BY <2>2, <2>4
  <2>6. DOMAIN Append(BookedView, v) = 1 .. n
    BY <2>2, <2>3
  <2>7. \A q \in Seq(S) : q = [i \in DOMAIN q |-> q[i]]
    OBVIOUS
  <2> QED BY <2>2, <2>3, <2>5, <2>6, <2>7
<1> QED BY <1>2, <1>3, <1>4

\* Everything but a booking leaves the bookings clients see alone, and so does
\* the booking of a key that is booked already.
LEMMA ViewStays ==
  ASSUME TypeOK, KeyMap, [Next]_vars,
         \A r \in Requests : BookExpense(r) =>
           key[r] \in Keys /\ idempotencyKeys[key[r]] # 0
  PROVE  BookedView' = BookedView
<1>1. CASE \A r \in Requests : ~BookExpense(r)
  BY <1>1, LedgerUntouched DEF ledgerVars, BookedView
<1>2. ASSUME NEW r \in Requests, BookExpense(r) PROVE BookedView' = BookedView
  <2>1. DOMAIN expenses' = DOMAIN expenses
    BY <1>2, BookExpenseCases DEF TypeOK
  <2> QED BY <2>1, ExpensesGrow DEF BookedView
<1> QED BY <1>1, <1>2

\* A step that changes the answer of one request changes no other answer.
LEMMA AnswersMove ==
  ASSUME NEW r \in Requests, NEW a, AnswerOf(r)' = a,
         \A s \in Requests : s # r => pc'[s] = pc[s] /\ reply'[s] = reply[s]
  PROVE  AnsweredView' = [AnsweredView EXCEPT ![r] = a]
<1>1. \A s \in Requests : s # r => AnswerOf(s)' = AnswerOf(s)
  BY DEF AnswerOf
<1>2. \A s \in Requests : AnswerOf(s)' = IF s = r THEN a ELSE AnswerOf(s)
  BY <1>1
<1>3. AnsweredView' = [s \in Requests |-> IF s = r THEN a ELSE AnswerOf(s)]
  BY <1>2 DEF AnsweredView
<1>4. [AnsweredView EXCEPT ![r] = a]
        = [s \in Requests |-> IF s = r THEN a ELSE AnswerOf(s)]
  BY DEF AnsweredView
<1> QED BY <1>3, <1>4

\* Initial states of the intake are initial states of the contract.
LEMMA ContractInit == Init => Contract!Init
<1> SUFFICES ASSUME Init PROVE Contract!Init
    OBVIOUS
<1>1. BookedView = << >>
  BY DEF Init, BookedView
<1>2. AnsweredView = [r \in Requests |-> 0]
  BY DEF Init, AnsweredView, AnswerOf
<1> QED BY <1>1, <1>2 DEF Init, Contract!Init, Contract!Pending

\* Every step of the intake is a step of the contract or invisible to it.
LEMMA ContractNext ==
  TypeOK /\ KeyMap /\ AnswerInv /\ [Next]_vars
    => [Contract!Next]_(Contract!vars)
<1> SUFFICES ASSUME TypeOK, KeyMap, AnswerInv, [Next]_vars
             PROVE  [Contract!Next]_(Contract!vars)
    OBVIOUS
<1>1. UNCHANGED <<key, body>>
  BY DEF Next, Handle, Idle, vars, CheckAndLock, ReadCached, BookExpense,
         RejectExpense, StoreResponse, Release, CacheFails, KeyLost, AddMember
<1>2. ASSUME UNCHANGED <<pc, reply>>, BookedView' = BookedView
      PROVE  UNCHANGED Contract!vars
  BY <1>1, <1>2 DEF Contract!vars, AnsweredView, AnswerOf
<1>3. ASSUME NEW r \in Requests, \A s \in Requests : ~BookExpense(s),
             pc[r] # "answered", pc'[r] # "answered",
             \A s \in Requests : s # r => pc'[s] = pc[s] /\ reply'[s] = reply[s]
      PROVE  UNCHANGED Contract!vars
  <2>1. AnsweredView' = AnsweredView
    BY <1>3 DEF AnsweredView, AnswerOf
  <2> QED BY <1>1, <1>3, <2>1, ViewStays DEF Contract!vars
<1>4. ASSUME NEW r \in Requests, \A s \in Requests : ~BookExpense(s),
             pc[r] # "answered",
             pc' = [pc EXCEPT ![r] = "answered"],
             \A s \in Requests : s # r => reply'[s] = reply[s],
             reply'[r].status = 201 =>
               key[r] # NoKey /\ OwnedBy(reply'[r].expense, key[r])
      PROVE  Contract!Next
  <2> DEFINE a == IF reply'[r].status = 201 THEN reply'[r].expense ELSE -1
  <2>1. /\ AnsweredView' = [AnsweredView EXCEPT ![r] = a]
        /\ AnsweredView[r] = 0
    <3>1. AnswerOf(r)' = a
      BY <1>4 DEF AnswerOf, TypeOK
    <3>2. \A s \in Requests : s # r => pc'[s] = pc[s] /\ reply'[s] = reply[s]
      BY <1>4 DEF TypeOK
    <3>3. AnsweredView[r] = 0
      BY <1>4 DEF AnsweredView, AnswerOf
    <3> HIDE DEF a
    <3> QED BY <3>1, <3>2, <3>3, AnswersMove
  <2>2. BookedView' = BookedView
    BY <1>4, ViewStays
  <2>3. CASE reply'[r].status = 201
    <3>1. a \in DOMAIN BookedView /\ BookedView[a].key = key[r]
      BY <1>4, <2>3 DEF OwnedBy, BookedView
    <3>2. Contract!Confirm(r)
      BY <1>1, <1>4, <2>1, <2>2, <2>3, <3>1
         DEF Contract!Confirm, Contract!Pending
    <3> QED BY <3>2 DEF Contract!Next
  <2>4. CASE reply'[r].status # 201
    <3>1. Contract!Refuse(r)
      BY <1>1, <2>1, <2>2, <2>4
         DEF Contract!Refuse, Contract!Pending, Contract!Refused
    <3> QED BY <3>1 DEF Contract!Next
  <2> QED BY <2>3, <2>4
<1>5. ASSUME NEW r \in Requests, BookExpense(r)
      PROVE  Contract!Next \/ UNCHANGED Contract!vars
  <2> DEFINE x == [body |-> body[r], roster |-> members[body[r].group],
                   key |-> key[r], journal |-> Len(journals) + 1]
  <2>1. /\ pc[r] # "answered"
        /\ \A s \in Requests : s # r => pc'[s] = pc[s] /\ reply'[s] = reply[s]
        /\ pc'[r] = IF key[r] = NoKey THEN "answered" ELSE "created"
        /\ reply'[r].status = 201 /\ reply'[r].expense = ExpenseFor(r)
    BY <1>5 DEF BookExpense, InService, Reply, TypeOK
  <2>2. /\ AnsweredView[r] = 0
        /\ key[r] # NoKey => AnsweredView' = AnsweredView
        /\ key[r] = NoKey =>
             AnsweredView' = [AnsweredView EXCEPT ![r] = ExpenseFor(r)]
    <3>1. AnswerOf(r) = 0
      BY <2>1 DEF AnswerOf
    <3>2. AnswerOf(r)' = IF key[r] = NoKey THEN ExpenseFor(r) ELSE 0
      BY <2>1 DEF AnswerOf
    <3>3. AnsweredView' =
            [AnsweredView EXCEPT ![r] = IF key[r] = NoKey THEN ExpenseFor(r) ELSE 0]
      BY <2>1, <3>2, AnswersMove
    <3> QED BY <3>1, <3>3 DEF AnsweredView
  <2>3. CASE key[r] \in Keys /\ idempotencyKeys[key[r]] # 0
    <3>1. DOMAIN expenses' = DOMAIN expenses
      BY <1>5, <2>3, BookExpenseCases DEF TypeOK
    <3>2. BookedView' = BookedView
      BY <3>1, ExpensesGrow DEF BookedView
    <3>3. key[r] # NoKey
      BY <2>3, NoKeyAssumption
    <3> QED BY <1>1, <2>2, <3>2, <3>3 DEF Contract!vars
  <2>4. CASE ~(key[r] \in Keys /\ idempotencyKeys[key[r]] # 0)
    <3>1. /\ key[r] \in Keys => idempotencyKeys[key[r]] = 0
          /\ ExpenseFor(r) = Len(expenses) + 1
          /\ expenses' = Append(expenses, x)
      BY <1>5, <2>4, BookExpenseCases
    <3>2. x.key = key[r] /\ x.body = body[r]
      OBVIOUS
    <3> HIDE DEF x
    <3>3. BookedView' = Contract!NewBooking(r)
      BY <3>1, <3>2, ViewAppends DEF Contract!NewBooking
    <3>4. CASE key[r] = NoKey
      <4>1. Contract!BookWithoutKey(r)
        BY <1>1, <2>2, <3>1, <3>3, <3>4, ViewIsSeq
           DEF Contract!BookWithoutKey, Contract!Pending
      <4> QED BY <4>1 DEF Contract!Next
    <3>5. CASE key[r] # NoKey
      <4>1. key[r] \in Keys
        BY <3>5 DEF TypeOK
      <4>2. \A i \in DOMAIN BookedView : BookedView[i].key # key[r]
        <5>1. \A i \in DOMAIN expenses : i # 0
          BY DEF TypeOK
        <5> QED BY <3>1, <3>5, <4>1, <5>1 DEF BookedView, KeyMap
      <4>3. Contract!Book(r)
        BY <1>1, <2>2, <3>3, <3>5, <4>2 DEF Contract!Book, Contract!Pending
      <4> QED BY <4>3 DEF Contract!Next
    <3> QED BY <3>4, <3>5
  <2> QED BY <2>3, <2>4
<1>6. ASSUME NEW r \in Requests, \A s \in Requests : ~BookExpense(s),
             Handle(r) \/ CacheFails(r)
      PROVE  Contract!Next \/ UNCHANGED Contract!vars
  <2>1. \A s \in Requests : s # r => pc'[s] = pc[s] /\ reply'[s] = reply[s]
    BY <1>6 DEF Handle, CheckAndLock, ReadCached, RejectExpense, StoreResponse,
                Release, CacheFails, TypeOK
  <2>2. pc[r] # "answered"
    BY <1>6 DEF Handle, CheckAndLock, ReadCached, RejectExpense, InService,
                StoreResponse, Release, CacheFails
  <2>3. CASE pc'[r] # "answered"
    BY <1>3, <1>6, <2>1, <2>2, <2>3
  <2>4. CASE pc'[r] = "answered"
    <3>1. pc' = [pc EXCEPT ![r] = "answered"]
      BY <1>6, <2>1, <2>4 DEF Handle, CheckAndLock, ReadCached, RejectExpense,
         StoreResponse, Release, CacheFails, AfterRead, AfterReject, TypeOK
    <3>2. reply'[r].status = 201 => key[r] # NoKey /\ pc[r] # "arrived"
      <4>1. CASE StoreResponse(r) \/ Release(r) \/ ReadCached(r)
        BY <4>1 DEF StoreResponse, Release, ReadCached, TypeOK
      <4>2. CASE CheckAndLock(r)
        BY <2>4, <4>2 DEF CheckAndLock, TypeOK
      <4>3. CASE RejectExpense(r)
        BY <4>3 DEF RejectExpense, Reply, TypeOK
      <4>4. CASE CacheFails(r)
        BY <4>4 DEF CacheFails, Reply, TypeOK
      <4> QED BY <1>6, <4>1, <4>2, <4>3, <4>4 DEF Handle
    <3>3. reply'[r].status = 201 => OwnedBy(reply'[r].expense, key[r])
      BY <1>1, <1>6, ReplySteps DEF AnswerInv
    <3> QED BY <1>4, <1>6, <2>1, <2>2, <3>1, <3>2, <3>3
  <2> QED BY <2>3, <2>4
<1>7. ASSUME NEW k \in Keys, KeyLost(k)
      PROVE  UNCHANGED <<pc, reply>> /\ BookedView' = BookedView
  BY <1>7 DEF KeyLost, ledgerVars, BookedView
<1>8. ASSUME NEW g \in Groups, NEW u \in Users, AddMember(g, u)
      PROVE  UNCHANGED <<pc, reply>> /\ BookedView' = BookedView
  BY <1>8 DEF AddMember, ledgerVars, BookedView
<1>9. UNCHANGED vars => UNCHANGED <<pc, reply>> /\ BookedView' = BookedView
  BY DEF vars, ledgerVars, BookedView
<1> QED BY <1>2, <1>5, <1>6, <1>7, <1>8, <1>9 DEF Next, Idle

\* The intake implements the contract: a key books once, and every 201 names an
\* expense booked under the request's key.
THEOREM IntakeHonoursContract == Spec => HonoursContract
BY ContractInit, ContractNext, AnswerInvariant, PTL
   DEF Spec, HonoursContract, Contract!Spec

-----------------------------------------------------------------------------
(* As long as no key is lost, confirmations also name the right journal. *)

\* Expense and journal of an answer bear the same number, as they do in the
\* store while ledger and store move in lockstep.
JournalInv ==
  /\ \A r \in Requests :
       reply[r].status = 201 => reply[r].journal = reply[r].expense
  /\ \A k \in Keys :
       cache[k].tag = "response" => cache[k].journal = cache[k].expense

\* JournalInv is inductive when no key is lost.
LEMMA NextJournalInv ==
  ASSUME KeyLoss = FALSE, IntakeInv, AnswerInv, JournalInv, [Next]_vars
  PROVE  JournalInv'
<1> USE DEF IntakeInv
<1>1. ASSUME NEW r \in Requests, Handle(r) \/ CacheFails(r)
      PROVE  JournalInv'
  <2>1. ASSUME NEW s \in Requests, reply'[s].status = 201
        PROVE  reply'[s].journal = reply'[s].expense
    <3>1. CASE s # r
      <4>1. reply'[s] = reply[s]
        BY <1>1, <3>1 DEF Handle, CheckAndLock, ReadCached, BookExpense,
           RejectExpense, StoreResponse, Release, CacheFails, TypeOK
      <4> QED BY <2>1, <4>1 DEF JournalInv
    <3>2. CASE s = r /\ BookExpense(r)
      <4>1. reply' = [reply EXCEPT ![r] = Reply(201, Len(expenses) + 1,
                                                Len(expenses) + 1)]
        BY <3>2, BookExpenseAppends
      <4> QED BY <3>2, <4>1 DEF Reply, TypeOK
    <3>3. CASE s = r /\ ReadCached(r)
      <4>1. key[r] \in Keys
        BY <3>3, WaitingHasKey DEF ReadCached
      <4> QED BY <2>1, <3>3, <4>1 DEF ReadCached, Reply, TypeOK, JournalInv
    <3>4. CASE s = r /\ (RejectExpense(r) \/ CacheFails(r))
      BY <2>1, <3>4 DEF RejectExpense, CacheFails, Reply, TypeOK
    <3>5. CASE s = r /\ (CheckAndLock(r) \/ StoreResponse(r) \/ Release(r))
      BY <2>1, <3>5 DEF CheckAndLock, StoreResponse, Release, JournalInv
    <3> QED BY <1>1, <3>1, <3>2, <3>3, <3>4, <3>5 DEF Handle
  <2>2. ASSUME NEW k \in Keys, cache'[k].tag = "response"
        PROVE  cache'[k].journal = cache'[k].expense
    <3>1. \/ cache'[k] = cache[k]
          \/ cache'[k] = Processing \/ cache'[k] = Free
          \/ /\ pc[r] = "created" /\ cache'[k] = Response(reply[r])
      BY <1>1, CacheSteps DEF TypeOK
    <3>2. CASE pc[r] = "created" /\ cache'[k] = Response(reply[r])
      BY <3>2 DEF Response, AnswerInv, JournalInv
    <3> QED BY <2>2, <3>1, <3>2, DistinctValues DEF JournalInv
  <2> QED BY <2>1, <2>2 DEF JournalInv
<1>2. ASSUME NEW k \in Keys PROVE ~KeyLost(k)
  BY DEF KeyLost
<1>3. ASSUME UNCHANGED <<reply, cache>> PROVE JournalInv'
  BY <1>3 DEF JournalInv
<1>4. ASSUME NEW g \in Groups, NEW u \in Users, AddMember(g, u)
      PROVE  UNCHANGED <<reply, cache>>
  BY <1>4 DEF AddMember
<1>5. UNCHANGED vars => UNCHANGED <<reply, cache>>
  BY DEF vars
<1> QED BY <1>1, <1>2, <1>3, <1>4, <1>5 DEF Next, Idle

\* If no key is lost, every 201, first answer or replay, names an expense of
\* the request's key and the journal that expense is booked under.
THEOREM ConfirmationsStayCurrent ==
  ASSUME KeyLoss = FALSE
  PROVE  Spec => []ConfirmationsAreCurrent
<1>1. Init => JournalInv
  BY DEF Init, JournalInv, NoReply, Reply, Free
<1>2. IntakeInv /\ AnswerInv /\ JournalInv => ConfirmationsAreCurrent
  BY DEF IntakeInv, Lockstep, AnswerInv, JournalInv, OwnedBy,
         ConfirmationsAreCurrent
<1> QED BY <1>1, <1>2, NextJournalInv, IntakeInvariant, AnswerInvariant, PTL
           DEF Spec
=============================================================================
