------------------------- MODULE DeploymentProofs --------------------------
(***************************************************************************)
(* Theorems about Deployment, for any number of processes, requests, keys, *)
(* users and groups: with stores that are lost, keys that are forgotten    *)
(* and commands that fail the processes together still keep the contract   *)
(* of one.                                                                 *)
(***************************************************************************)
EXTENDS Deployment, SequenceTheorems, TLAPS

\* Everything a handler or the cache does.
Serve == \/ \E r \in Requests :
              \/ Handle(r) \/ CacheFails(r)
              \/ \E p \in Processes : CheckAndLock(r, p) \/ LockFails(r, p)
         \/ \E k \in Keys : KeyLost(k)

\* A step of the deployment, by what it is about.
LEMMA StepCases ==
  ASSUME [Next]_vars
  PROVE  Manage \/ Serve \/ (\E p \in Processes : Restart(p)) \/ UNCHANGED vars
BY DEF Next, Serve

\* Requests for expenses leave the directory alone.
LEMMA ServeKeepsDirectory == Serve => UNCHANGED directoryVars
BY DEF Serve, Handle, CheckAndLock, ReadCached, BookExpense, RejectExpense,
       StoreResponse, Release, ConnectionLost, LockFails, CacheFails, KeyLost

-----------------------------------------------------------------------------
(* The directory. *)

\* An id that was not issued is not used anywhere.
NewIds ==
  /\ \A p \in Processes : users[p] \subseteq issued /\ groups[p] \subseteq issued
  /\ \A g \in GroupIds : g \notin issued => members[g] = {}

DirInv == DirectoryTypeOK /\ MembersAreKnown /\ NewIds

\* The directory invariant at the start, and across each operation.
LEMMA DirInitInv == DirectoryInit => DirInv
BY DEF DirectoryInit, DirInv, DirectoryTypeOK, MembersAreKnown, NewIds

\* POST /users adds a user whose id is new.
LEMMA CreateUserInv ==
  ASSUME DirInv, NEW p \in Processes, NEW u \in UserIds, CreateUser(p, u)
  PROVE  DirInv'
<1>1. DirectoryTypeOK'
  BY DEF DirInv, DirectoryTypeOK, CreateUser, EmailFree
<1>2. MembersAreKnown' /\ NewIds'
  BY DEF DirInv, DirectoryTypeOK, CreateUser, MembersAreKnown, NewIds
<1>. QED  BY <1>1, <1>2 DEF DirInv

\* POST /groups adds a group whose id is new.
LEMMA CreateGroupInv ==
  ASSUME DirInv, NEW p \in Processes, NEW g \in GroupIds, CreateGroup(p, g)
  PROVE  DirInv'
<1>1. DirectoryTypeOK'
  BY DEF DirInv, DirectoryTypeOK, CreateGroup
<1>2. MembersAreKnown' /\ NewIds'
  BY DEF DirInv, DirectoryTypeOK, CreateGroup, MembersAreKnown, NewIds
<1>. QED  BY <1>1, <1>2 DEF DirInv

\* POST /groups/{id}/members adds a user that is known.
LEMMA AddMemberInv ==
  ASSUME DirInv, NEW p \in Processes, NEW g \in GroupIds, NEW u \in UserIds,
         AddMember(p, g, u)
  PROVE  DirInv'
<1>1. DirectoryTypeOK'
  BY DEF DirInv, DirectoryTypeOK, AddMember
<1>2. MembersAreKnown' /\ NewIds'
  BY DEF DirInv, DirectoryTypeOK, AddMember, BothKnown, MembersAreKnown, NewIds
<1>. QED  BY <1>1, <1>2 DEF DirInv

\* A restart empties the directory of the process, groups and users alike.
LEMMA StoreLostInv ==
  ASSUME DirInv, NEW p \in Processes, StoreLost(p)
  PROVE  DirInv'
<1>1. DirectoryTypeOK'
  BY DEF DirInv, DirectoryTypeOK, StoreLost
<1>2. MembersAreKnown' /\ NewIds'
  BY DEF DirInv, DirectoryTypeOK, StoreLost, MembersAreKnown, NewIds
<1>. QED  BY <1>1, <1>2 DEF DirInv

\* Every step keeps the directory invariant.
LEMMA DirNextInv ==
  ASSUME DirInv, [Next]_vars
  PROVE  DirInv'
<1>1. CASE Manage
  BY <1>1, CreateUserInv, CreateGroupInv, AddMemberInv DEF Manage, DirectoryStep
<1>2. CASE UNCHANGED directoryVars
  BY <1>2 DEF directoryVars, DirInv, DirectoryTypeOK, MembersAreKnown, NewIds
<1>3. CASE \E p \in Processes : Restart(p)
  BY <1>3, StoreLostInv DEF Restart
<1>. QED  BY <1>1, <1>2, <1>3, StepCases, ServeKeepsDirectory DEF vars

\* Wherever groups and users were created and processes stopped, the members of
\* a group are known to its process, and processes share neither.
THEOREM MembersKnown == Spec => []MembersAreKnown
<1>1. Init => DirInv
  BY DirInitInv DEF Init
<1>. QED  BY <1>1, DirNextInv, PTL DEF Spec, DirInv

-----------------------------------------------------------------------------
(* Bookings. *)

Bookings == [key : Keys, body : GroupIds]

\* What a booking changes.
LEMMA BookCases ==
  ASSUME TypeOK, NEW r \in Requests, BookExpense(r)
  PROVE  \E p \in at[r] :
           /\ p \in Processes /\ Accepted(r, p)
           /\ \/ /\ kept[p][key[r]] # 0
                 /\ UNCHANGED <<bookings, kept>>
                 /\ reply' = [reply EXCEPT ![r] = Reply(201, kept[p][key[r]])]
              \/ /\ kept[p][key[r]] = 0
                 /\ bookings' = Append(bookings, [key |-> key[r],
                                                  body |-> GroupOf[key[r]]])
                 /\ kept' = [kept EXCEPT ![p][key[r]] = Len(bookings) + 1]
                 /\ reply' = [reply EXCEPT ![r] = Reply(201, Len(bookings) + 1)]
<1>1. PICK p \in at[r] :
        /\ Accepted(r, p)
        /\ LET k == key[r]
               e == IF kept[p][k] # 0 THEN kept[p][k] ELSE Len(bookings) + 1
           IN  /\ bookings' = IF kept[p][k] # 0 THEN bookings
                              ELSE Append(bookings, [key |-> k, body |-> GroupOf[k]])
               /\ kept' = [kept EXCEPT ![p][k] = e]
               /\ reply' = [reply EXCEPT ![r] = Reply(201, e)]
  BY DEF BookExpense
<1>2. p \in Processes /\ key[r] \in Keys
  BY DEF TypeOK
<1>3. CASE kept[p][key[r]] # 0
  <2>1. kept' = kept
    BY <1>1, <1>2, <1>3 DEF TypeOK
  <2>. QED  BY <1>1, <1>2, <1>3, <2>1
<1>4. CASE kept[p][key[r]] = 0
  BY <1>1, <1>2, <1>4
<1>. QED  BY <1>3, <1>4

\* A booking adds one to the history.
LEMMA BookingsAppend ==
  ASSUME TypeOK, NEW r \in Requests,
         bookings' = Append(bookings, [key |-> key[r], body |-> GroupOf[key[r]]])
  PROVE  /\ bookings' \in Seq(Bookings) /\ Len(bookings) \in Nat
         /\ Len(bookings') = Len(bookings) + 1
         /\ \A i \in 1 .. Len(bookings) : bookings'[i] = bookings[i]
         /\ bookings'[Len(bookings')] = [key |-> key[r], body |-> GroupOf[key[r]]]
<1>1. /\ [key |-> key[r], body |-> GroupOf[key[r]]] \in Bookings
      /\ bookings \in Seq(Bookings)
  BY BodiesAssumption DEF TypeOK, Bookings
<1>. QED  BY <1>1

\* Bookings are never changed or taken back.
LEMMA BookingsStay ==
  ASSUME TypeOK, [Next]_vars
  PROVE  /\ Len(bookings) \in Nat /\ Len(bookings') \in Nat
         /\ Len(bookings) <= Len(bookings')
         /\ bookings' \in Seq(Bookings)
         /\ \A i \in 1 .. Len(bookings) : bookings'[i] = bookings[i]
<1>1. bookings \in Seq(Bookings) /\ Len(bookings) \in Nat
  BY DEF TypeOK, Bookings
<1>2. CASE UNCHANGED bookings
  BY <1>1, <1>2
<1>3. ASSUME NEW r \in Requests, BookExpense(r), bookings' # bookings
      PROVE  /\ bookings' \in Seq(Bookings) /\ Len(bookings') = Len(bookings) + 1
             /\ \A i \in 1 .. Len(bookings) : bookings'[i] = bookings[i]
  <2>1. [key |-> key[r], body |-> GroupOf[key[r]]] \in Bookings
    BY BodiesAssumption DEF TypeOK, Bookings
  <2>2. bookings' = Append(bookings, [key |-> key[r], body |-> GroupOf[key[r]]])
    BY <1>3, BookCases
  <2>. QED  BY <1>1, <2>1, <2>2
<1>4. CASE \A r \in Requests : ~BookExpense(r)
  <2>1. UNCHANGED bookings
    BY <1>4, StepCases
       DEF Serve, Handle, CheckAndLock, ReadCached, RejectExpense, StoreResponse,
           Release, ConnectionLost, LockFails, CacheFails, KeyLost, Manage, Restart,
           vars
  <2>. QED  BY <1>2, <2>1
<1>. QED  BY <1>1, <1>2, <1>3, <1>4

-----------------------------------------------------------------------------
(* Types. *)

\* The types at the start.
LEMMA TypeInit == Init => TypeOK
BY DirInitInv DEF Init, TypeOK, DirInv, Reply, Free, Entry

Steps    == {"new", "duplicate", "locked", "created", "failed", "cut", "answered"}
Statuses == {0, 201, 400, 409, 500}
Tags     == {"free", "PROCESSING", "response"}

\* The types of the variables when N is the set of the expenses, and 0.
Replies(N) == [status : Statuses, expense : N]
Entries(N) == [tag : Tags, expense : N, by : SUBSET Requests]
Typed(N) ==
  /\ key \in [Requests -> Keys] /\ pc \in [Requests -> Steps]
  /\ at \in [Requests -> SUBSET Processes]
  /\ reply \in [Requests -> Replies(N)] /\ cache \in [Keys -> Entries(N)]
  /\ kept \in [Processes -> [Keys -> N]]

\* The type invariant, with the bookings that replies may name as a parameter.
LEMMA TypeOKTyped ==
  TypeOK <=> /\ DirectoryTypeOK /\ bookings \in Seq(Bookings)
             /\ Typed(0 .. Len(bookings))
BY DEF TypeOK, Typed, Replies, Entries, Bookings, Steps, Statuses, Tags

\* What is typed stays typed while bookings are added.
LEMMA TypedGrows ==
  ASSUME NEW M, NEW N, M \subseteq N, Typed(M)
  PROVE  Typed(N)
<1>1. Replies(M) \subseteq Replies(N) /\ Entries(M) \subseteq Entries(N)
  BY DEF Replies, Entries
<1>2. [Keys -> M] \subseteq [Keys -> N]
  OBVIOUS
<1>. QED  BY <1>1, <1>2 DEF Typed

\* The handlers and the cache, when every expense they meet is in N.
LEMMA ServeTyped ==
  ASSUME NEW N, 0 \in N, Len(bookings) \in N, Len(bookings') \in N, Typed(N),
         TypeOK, Serve
  PROVE  Typed(N)'
<1>1. ASSUME NEW s \in Statuses, NEW e \in N PROVE Reply(s, e) \in Replies(N)
  BY DEF Reply, Replies
<1>2. ASSUME NEW t \in Tags, NEW e \in N, NEW by \in SUBSET Requests
      PROVE  Entry(t, e, by) \in Entries(N)
  BY DEF Entry, Entries
<1>3. /\ \A r \in Requests : key[r] \in Keys /\ reply[r].expense \in N
      /\ \A k \in Keys : cache[k].expense \in N
  BY DEF Typed, Replies, Entries
<1>4. /\ Free \in Entries(N) /\ \A r \in Requests : Processing(r) \in Entries(N)
      /\ \A e \in N : /\ Reply(201, e) \in Replies(N)
                      /\ Entry("response", e, {}) \in Entries(N)
      /\ \A st \in {400, 409, 500} : Reply(st, 0) \in Replies(N)
  BY <1>1, <1>2 DEF Free, Processing, Statuses, Tags
<1>. DEFINE R == Replies(N)  C == Entries(N)
<1>5. /\ key \in [Requests -> Keys] /\ pc \in [Requests -> Steps]
      /\ at \in [Requests -> SUBSET Processes]
      /\ reply \in [Requests -> R] /\ cache \in [Keys -> C]
      /\ kept \in [Processes -> [Keys -> N]]
  BY DEF Typed
<1>6. SUFFICES /\ key' \in [Requests -> Keys] /\ pc' \in [Requests -> Steps]
               /\ at' \in [Requests -> SUBSET Processes]
               /\ reply' \in [Requests -> R] /\ cache' \in [Keys -> C]
               /\ kept' \in [Processes -> [Keys -> N]]
  BY DEF Typed, Replies, Entries
<1>. HIDE DEF R, C
<1>7. ASSUME NEW r \in Requests
      PROVE  /\ Locked(r) \in [Keys -> C] /\ Stored(r) \in [Keys -> C]
             /\ Released(r) \in [Keys -> C]
  <2>1. /\ Processing(r) \in C /\ Free \in C
        /\ Entry("response", reply[r].expense, {}) \in C
    BY <1>3, <1>4 DEF C
  <2>. QED  BY <1>5, <2>1 DEF Locked, Stored, Released
<1>8. ASSUME NEW r \in Requests, NEW p \in Processes, CheckAndLock(r, p)
      PROVE  /\ UNCHANGED <<key, reply, kept>> /\ pc' \in [Requests -> Steps]
             /\ at' \in [Requests -> SUBSET Processes] /\ cache' \in [Keys -> C]
  BY <1>5, <1>7, <1>8 DEF CheckAndLock, Arrives, Goes, Steps
<1>9. ASSUME NEW r \in Requests,
             CacheFails(r) \/ \E p \in Processes : LockFails(r, p)
      PROVE  /\ UNCHANGED <<key, kept>> /\ pc' \in [Requests -> Steps]
             /\ at' \in [Requests -> SUBSET Processes]
             /\ reply' \in [Requests -> R] /\ cache' \in [Keys -> C]
  <2>1. Reply(500, 0) \in R
    BY <1>4 DEF R
  <2>2. at' \in [Requests -> SUBSET Processes]
    BY <1>5, <1>9 DEF CacheFails, LockFails, Arrives
  <2>3. cache' \in [Keys -> C]
    BY <1>5, <1>7, <1>9 DEF CacheFails, LockFails
  <2>. QED  BY <1>5, <1>9, <2>1, <2>2, <2>3
            DEF CacheFails, LockFails, Answers, Goes, Steps
<1>10. ASSUME NEW r \in Requests, ReadCached(r) \/ RejectExpense(r) \/ ConnectionLost(r)
      PROVE  /\ UNCHANGED <<key, at, kept, cache>> /\ pc' \in [Requests -> Steps]
             /\ reply' \in [Requests -> R]
  <2>1. PICK st \in Statuses, e \in N : reply' = [reply EXCEPT ![r] = Reply(st, e)]
    BY <1>3, <1>10 DEF ReadCached, RejectExpense, ConnectionLost, Answers, Statuses
  <2>2. reply' \in [Requests -> R]
    BY <1>1, <1>5, <2>1 DEF R
  <2>3. PICK next \in Steps : pc' = [pc EXCEPT ![r] = next]
    BY <1>10 DEF ReadCached, RejectExpense, ConnectionLost, Answers, Goes,
                AfterReject, Steps
  <2>. QED  BY <1>5, <1>10, <2>2, <2>3 DEF ReadCached, RejectExpense, ConnectionLost
<1>11. ASSUME NEW r \in Requests, BookExpense(r)
      PROVE  /\ UNCHANGED <<key, at, cache>> /\ pc' \in [Requests -> Steps]
             /\ reply' \in [Requests -> R] /\ kept' \in [Processes -> [Keys -> N]]
  <2>1. PICK p \in Processes, e \in N :
          /\ reply' = [reply EXCEPT ![r] = Reply(201, e)]
          /\ kept' = kept \/ kept' = [kept EXCEPT ![p][key[r]] = e]
    <3>1. PICK p \in Processes :
            \/ /\ kept' = kept
               /\ reply' = [reply EXCEPT ![r] = Reply(201, kept[p][key[r]])]
            \/ /\ bookings' = Append(bookings, [key |-> key[r],
                                                body |-> GroupOf[key[r]]])
               /\ kept' = [kept EXCEPT ![p][key[r]] = Len(bookings) + 1]
               /\ reply' = [reply EXCEPT ![r] = Reply(201, Len(bookings) + 1)]
      BY <1>11, BookCases
    <3>2. kept[p][key[r]] \in N
      BY <1>3, <1>5
    <3>3. bookings' = Append(bookings, [key |-> key[r], body |-> GroupOf[key[r]]])
            => Len(bookings') = Len(bookings) + 1
      BY BookingsAppend
    <3>. QED  BY <3>1, <3>2, <3>3
  <2>2. reply' \in [Requests -> R]
    BY <1>1, <1>5, <2>1 DEF R, Statuses
  <2>3. kept' \in [Processes -> [Keys -> N]]
    <3>1. key[r] \in Keys /\ kept[p] \in [Keys -> N]
      BY <1>3, <1>5
    <3>2. [kept[p] EXCEPT ![key[r]] = e] \in [Keys -> N]
      BY <3>1
    <3>. QED  BY <1>5, <2>1, <3>1, <3>2
  <2>. QED  BY <1>5, <1>11, <2>2, <2>3 DEF BookExpense, Goes, Steps
<1>12. ASSUME NEW r \in Requests, StoreResponse(r) \/ Release(r)
       PROVE  /\ UNCHANGED <<key, at, reply, kept>> /\ pc' \in [Requests -> Steps]
              /\ cache' \in [Keys -> C]
  <2>. QED  BY <1>5, <1>7, <1>12 DEF StoreResponse, Release, Goes, Steps
<1>13. ASSUME NEW k \in Keys, KeyLost(k)
       PROVE  UNCHANGED <<key, pc, at, reply, kept>> /\ cache' \in [Keys -> C]
  <2>1. Free \in C
    BY <1>4 DEF C
  <2>. QED  BY <1>5, <1>13, <2>1 DEF KeyLost, requestVars
<1>. QED  BY <1>5, <1>8, <1>9, <1>10, <1>11, <1>12, <1>13 DEF Serve, Handle

\* Each step writes values of the variables' types.
LEMMA TypeStep ==
  ASSUME TypeOK, DirInv, [Next]_vars
  PROVE  TypeOK'
<1>1. DirectoryTypeOK'
  BY DirNextInv DEF DirInv
<1>2. /\ bookings' \in Seq(Bookings)
      /\ Len(bookings) \in Nat /\ Len(bookings') \in Nat
      /\ Len(bookings) <= Len(bookings')
  BY BookingsStay
<1>. SUFFICES ASSUME NEW N, N = 0 .. Len(bookings') PROVE TypeOK'
  OBVIOUS
<1>3. /\ 0 .. Len(bookings) \subseteq N
      /\ 0 \in N /\ Len(bookings) \in N /\ Len(bookings') \in N
  BY <1>2
<1>4. Typed(N)
  BY <1>3, TypeOKTyped, TypedGrows
<1>5. SUFFICES Typed(N)'
  BY <1>1, <1>2, <1>5
     DEF TypeOK, Typed, Replies, Entries, Bookings, Steps, Statuses, Tags
<1>6. ASSUME UNCHANGED <<key, pc, at, reply, cache, kept>> PROVE Typed(N)'
  BY <1>4, <1>6 DEF Typed, Replies, Entries
<1>7. CASE Manage
  BY <1>6, <1>7 DEF Manage, requestVars
<1>8. ASSUME NEW p \in Processes, Restart(p) PROVE Typed(N)'
  <2>1. kept' \in [Processes -> [Keys -> N]]
    BY <1>3, <1>4, <1>8 DEF Restart, Typed
  <2>2. pc' \in [Requests -> Steps]
    BY <1>4, <1>8 DEF Restart, Typed, Steps
  <2>. QED  BY <1>4, <1>8, <2>1, <2>2 DEF Restart, Typed, Replies, Entries
<1>9. CASE Serve
  BY <1>3, <1>4, <1>9, ServeTyped
<1>10. CASE UNCHANGED vars
  BY <1>6, <1>10 DEF vars, requestVars
<1>. QED  BY <1>7, <1>8, <1>9, <1>10, StepCases

\* The variables keep their types, and no process ever has two users with one
\* e-mail.
THEOREM TypeCorrect == Spec => []TypeOK
<1>1. Init => TypeOK /\ DirInv
  BY TypeInit, DirInitInv DEF Init
<1>. QED  BY <1>1, TypeStep, DirNextInv, PTL DEF Spec

-----------------------------------------------------------------------------
(* What the stores know of the bookings. *)

\* Number e is an expense booked under key k.
Names(e, k) == e \in 1 .. Len(bookings) /\ bookings[e].key = k

\* A booking is for a group that was issued; what a store keeps for a key is an
\* expense of that key; and no key is booked twice.
BookedInv ==
  /\ \A i \in 1 .. Len(bookings) : GroupOf[bookings[i].key] \in issued
  /\ \A p \in Processes, k \in Keys : kept[p][k] # 0 => Names(kept[p][k], k)
  /\ \A i, j \in 1 .. Len(bookings) : bookings[i].key = bookings[j].key => i = j

Remembers ==
  \A i \in 1 .. Len(bookings), p \in Processes :
    GroupOf[bookings[i].key] \in groups[p] => kept[p][bookings[i].key] = i

Inv == TypeOK /\ DirInv /\ BookedInv /\ Remembers

\* The bookings, and the groups they are for.
LEMMA BookingsAreTyped ==
  ASSUME TypeOK
  PROVE  /\ Len(bookings) \in Nat /\ bookings \in Seq(Bookings)
         /\ DOMAIN bookings = 1 .. Len(bookings)
         /\ \A i \in 1 .. Len(bookings) :
              bookings[i].key \in Keys /\ GroupOf[bookings[i].key] \in GroupIds
<1>1. bookings \in Seq(Bookings) /\ Len(bookings) \in Nat
  BY DEF TypeOK, Bookings
<1>2. \A i \in 1 .. Len(bookings) : bookings[i] \in Bookings
  BY <1>1
<1>. QED  BY <1>1, <1>2, BodiesAssumption DEF Bookings

\* Remembers is the property, written with the keys of the bookings.
LEMMA RemembersIs ==
  ASSUME TypeOK
  PROVE  Remembers <=> StoreRemembersBookings
BY BookingsAreTyped DEF Remembers, StoreRemembersBookings

\* An id that names a booking goes on naming it.
LEMMA NamesStay ==
  ASSUME TypeOK, [Next]_vars, NEW e, NEW k, Names(e, k)
  PROVE  Names(e, k)'
BY BookingsStay DEF Names

\* A request that gets past the lock, but books what its store has booked
\* before, changes neither the store nor the history; a first one adds to both.
LEMMA BookingInv ==
  ASSUME Inv, TypeOK', NEW r \in Requests, BookExpense(r)
  PROVE  (BookedInv /\ Remembers)'
<1>1. PICK p \in Processes :
        /\ Accepted(r, p)
        /\ \/ UNCHANGED <<bookings, kept>>
           \/ /\ kept[p][key[r]] = 0
              /\ bookings' = Append(bookings, [key |-> key[r],
                                               body |-> GroupOf[key[r]]])
              /\ kept' = [kept EXCEPT ![p][key[r]] = Len(bookings) + 1]
  BY BookCases DEF Inv
<1>2. UNCHANGED <<groups, issued>>
  BY DEF BookExpense, directoryVars
<1>3. CASE UNCHANGED <<bookings, kept>>
  BY <1>2, <1>3 DEF Inv, BookedInv, Remembers, Names
<1>4. ASSUME kept[p][key[r]] = 0,
             bookings' = Append(bookings, [key |-> key[r], body |-> GroupOf[key[r]]]),
             kept' = [kept EXCEPT ![p][key[r]] = Len(bookings) + 1]
      PROVE  (BookedInv /\ Remembers)'
  <2>. DEFINE k == key[r]  n == Len(bookings) + 1
  <2>1. /\ n \in Nat /\ Len(bookings') = n /\ k \in Keys
        /\ bookings'[n].key = k
        /\ 1 .. n = 1 .. Len(bookings) \cup {n} /\ n # 0
        /\ \A i \in 1 .. Len(bookings) : /\ bookings'[i] = bookings[i] /\ i # n
                                         /\ bookings[i].key \in Keys
    <3>1. key[r] \in Keys /\ Len(bookings) \in Nat /\ TypeOK
      <4>1. TypeOK
        BY DEF Inv
      <4>2. key[r] \in Keys
        BY <4>1 DEF TypeOK
      <4>. QED  BY <4>1, <4>2, BookingsAreTyped
    <3>2. /\ Len(bookings') = n
          /\ \A i \in 1 .. Len(bookings) : bookings'[i] = bookings[i]
          /\ bookings'[Len(bookings')] = [key |-> k, body |-> GroupOf[k]]
      BY <1>4, <3>1, BookingsAppend
    <3>3. \A i \in 1 .. Len(bookings) : bookings[i].key \in Keys
      BY <3>1, BookingsAreTyped
    <3>. QED  BY <3>1, <3>2, <3>3
  <2>2. GroupOf[k] \in groups[p] /\ GroupOf[k] \in issued
    BY <1>1 DEF Accepted, Inv, DirInv, NewIds
  <2>3. \A i \in 1 .. Len(bookings) : bookings[i].key # k
    BY <1>4, <2>2 DEF Inv, Remembers
  <2>4. \A q \in Processes : GroupOf[k] \in groups[q] => q = p
    BY <2>2 DEF Inv, DirInv, MembersAreKnown
  <2>5. \A q \in Processes, l \in Keys :
          kept'[q][l] = IF q = p /\ l = k THEN n ELSE kept[q][l]
    BY <1>4, <2>1 DEF Inv, TypeOK
  <2>. HIDE DEF k, n
  <2>6. Remembers'
    BY <1>2, <2>1, <2>3, <2>4, <2>5 DEF Inv, Remembers
  <2>7. \A i \in 1 .. n : GroupOf[bookings'[i].key] \in issued
    BY <2>1, <2>2 DEF Inv, BookedInv
  <2>8. \A i, j \in 1 .. n : bookings'[i].key = bookings'[j].key => i = j
    BY <2>1, <2>3 DEF Inv, BookedInv
  <2>9. ASSUME NEW q \in Processes, NEW l \in Keys, kept'[q][l] # 0
        PROVE  kept'[q][l] \in 1 .. n /\ bookings'[kept'[q][l]].key = l
    BY <2>1, <2>5, <2>9 DEF Inv, BookedInv, Names
  <2>. QED  BY <1>2, <2>1, <2>6, <2>7, <2>8, <2>9 DEF BookedInv, Names
<1>. QED  BY <1>1, <1>3, <1>4

\* Every other step leaves the bookings alone; a group is new when it is
\* created, and a process that stops takes its groups with it.
LEMMA OthersInv ==
  ASSUME Inv, UNCHANGED bookings, issued \subseteq issued',
         \A q \in Processes :
           \/ kept'[q] = kept[q] /\ groups'[q] \subseteq groups[q] \cup (GroupIds \ issued)
           \/ groups'[q] = {} /\ kept'[q] = [k \in Keys |-> 0]
  PROVE  (BookedInv /\ Remembers)'
<1>1. Remembers'
  BY BookingsAreTyped DEF Inv, Remembers, BookedInv
<1>2. BookedInv'
  <2>1. \A q \in Processes, k \in Keys : kept'[q][k] \in {0, kept[q][k]}
    OBVIOUS
  <2>. QED  BY <2>1 DEF Inv, BookedInv, Names
<1>. QED  BY <1>1, <1>2

\* Every step keeps the invariant.
LEMMA InvStep ==
  ASSUME Inv, [Next]_vars
  PROVE  Inv'
<1>1. TypeOK' /\ DirInv'
  BY TypeStep, DirNextInv DEF Inv
<1>. SUFFICES (BookedInv /\ Remembers)'
  BY <1>1 DEF Inv
<1>2. ASSUME NEW r \in Requests, BookExpense(r) PROVE (BookedInv /\ Remembers)'
  BY <1>1, <1>2, BookingInv
<1>3. CASE Manage
  <2>1. UNCHANGED <<bookings, kept>>
    BY <1>3 DEF Manage
  <2>2. \/ UNCHANGED groups /\ issued \subseteq issued'
        \/ \E p \in Processes, g \in GroupIds \ issued :
             groups' = [groups EXCEPT ![p] = @ \cup {g}] /\ issued \subseteq issued'
    BY <1>3 DEF Manage, DirectoryStep, CreateUser, CreateGroup, AddMember
  <2>3. \A q \in Processes : groups'[q] \subseteq groups[q] \cup (GroupIds \ issued)
    <3>1. groups \in [Processes -> SUBSET GroupIds]
      BY DEF Inv, TypeOK, DirectoryTypeOK
    <3>. QED  BY <2>2, <3>1
  <2>4. issued \subseteq issued'
    BY <2>2
  <2>. QED  BY <2>1, <2>3, <2>4, OthersInv
<1>4. ASSUME NEW p \in Processes, Restart(p) PROVE (BookedInv /\ Remembers)'
  <2>1. UNCHANGED <<bookings, issued>>
    BY <1>4 DEF Restart, StoreLost
  <2>2. \A q \in Processes :
          IF q = p THEN groups'[q] = {} /\ kept'[q] = [k \in Keys |-> 0]
                   ELSE groups'[q] = groups[q] /\ kept'[q] = kept[q]
    BY <1>4 DEF Restart, StoreLost, Inv, TypeOK, DirectoryTypeOK
  <2>. QED  BY <2>1, <2>2, OthersInv
<1>5. CASE Serve /\ \A r \in Requests : ~BookExpense(r)
  <2>1. UNCHANGED <<groups, issued, bookings, kept>>
    BY <1>5 DEF Serve, Handle, CheckAndLock, ReadCached, RejectExpense,
                StoreResponse, Release, ConnectionLost, LockFails, CacheFails,
                KeyLost, directoryVars
  <2>. QED  BY <2>1, OthersInv
<1>6. CASE UNCHANGED vars
  <2>1. UNCHANGED <<groups, issued, bookings, kept>>
    BY <1>6 DEF vars, directoryVars
  <2>. QED  BY <2>1, OthersInv
<1>. QED  BY <1>1, <1>2, <1>3, <1>4, <1>5, <1>6, StepCases DEF Inv

\* The invariant at the start.
LEMMA InvInit == Init => Inv
<1>. SUFFICES ASSUME Init PROVE Inv
  OBVIOUS
<1>1. Len(bookings) = 0 /\ bookings = << >>
  BY DEF Init
<1>2. \A p \in Processes, k \in Keys : kept[p][k] = 0
  BY DEF Init
<1>. QED  BY <1>1, <1>2, TypeInit, DirInitInv DEF Init, Inv, BookedInv, Remembers

\* The invariant holds throughout.
LEMMA Invariance == Spec => []Inv
<1>. QED  BY InvInit, InvStep, PTL DEF Spec

\* The store a group lives in knows every expense ever booked for it, so that a
\* retry finds it whatever has become of its key in Redis.
THEOREM BookingsRemembered == Spec => []StoreRemembersBookings
<1>1. Inv => StoreRemembersBookings
  BY RemembersIs DEF Inv
<1>. QED  BY <1>1, Invariance, PTL

-----------------------------------------------------------------------------
(* Locks. *)

\* What a request's key is does not change.
LEMMA KeyFixed == [Next]_vars => key' = key
BY StepCases DEF Serve, Handle, CheckAndLock, ReadCached, BookExpense,
   RejectExpense, StoreResponse, Release, ConnectionLost, LockFails, CacheFails,
   KeyLost, Manage, Restart, vars

\* A lock, a response and a free key are told apart, and so are the locks of two
\* requests.
LEMMA TagsDiffer ==
  /\ Free.tag = "free"
  /\ \A r : Processing(r).tag = "PROCESSING" /\ Processing(r).by = {r}
  /\ \A e : Entry("response", e, {}).tag = "response"
BY DEF Processing, Free, Entry

\* Request r may still hold a lock.
MayHold(r) == AtWork(r) \/ Aborted(r)

\* Every lock there is after a step was there before it, or is that of a request
\* that locked the key in this step.
LEMMA LockSteps ==
  ASSUME TypeOK, [Next]_vars, NEW k \in Keys, cache'[k].tag = "PROCESSING"
  PROVE  \/ cache'[k] = cache[k]
         \/ \E r \in Requests, p \in Processes :
              /\ CheckAndLock(r, p) \/ LockFails(r, p)
              /\ cache[key[r]] = Free /\ key[r] = k /\ cache'[k] = Processing(r)
<1>1. ASSUME NEW r \in Requests
      PROVE  /\ Stored(r)[k].tag = "PROCESSING" => Stored(r)[k] = cache[k]
             /\ Released(r)[k].tag = "PROCESSING" => Released(r)[k] = cache[k]
             /\ \/ Locked(r)[k] = cache[k]
                \/ cache[key[r]] = Free /\ key[r] = k /\ Locked(r)[k] = Processing(r)
  BY <1>1, TagsDiffer DEF Stored, Released, Locked, TypeOK
<1>2. ASSUME NEW r \in Requests, NEW p \in Processes,
             CheckAndLock(r, p) \/ LockFails(r, p)
      PROVE  \/ cache'[k] = cache[k]
             \/ cache[key[r]] = Free /\ key[r] = k /\ cache'[k] = Processing(r)
  <2>1. cache' \in {cache, Locked(r)}
    BY <1>2 DEF CheckAndLock, LockFails
  <2>. QED  BY <1>1, <2>1
<1>3. ASSUME NEW r \in Requests, Handle(r) \/ CacheFails(r) PROVE cache'[k] = cache[k]
  <2>1. cache' \in {cache, Stored(r), Released(r)}
    BY <1>3 DEF Handle, CacheFails, ReadCached, BookExpense, RejectExpense,
                StoreResponse, Release, ConnectionLost
  <2>. QED  BY <1>1, <2>1
<1>4. ASSUME NEW l \in Keys, KeyLost(l) PROVE cache'[k] = cache[k]
  BY <1>4, TagsDiffer DEF KeyLost, TypeOK
<1>5. CASE Manage \/ (\E p \in Processes : Restart(p)) \/ UNCHANGED vars
  BY <1>5 DEF Manage, Restart, vars
<1>. QED  BY <1>2, <1>3, <1>4, <1>5, StepCases DEF Serve

\* A request that may hold a lock goes on so, unless it stores its response or
\* releases its key.
LEMMA HoldersStay ==
  ASSUME TypeOK, [Next]_vars, NEW r \in Requests, MayHold(r),
         ~StoreResponse(r), ~Release(r)
  PROVE  MayHold(r)'
<1>1. CASE BookExpense(r) \/ RejectExpense(r)
  BY <1>1 DEF BookExpense, RejectExpense, Goes, AfterReject, MayHold, AtWork, TypeOK
<1>2. ASSUME ConnectionLost(r) \/ CacheFails(r) PROVE MayHold(r)'
  BY <1>2 DEF ConnectionLost, CacheFails, Answers, Goes, Reply, MayHold, Aborted,
              TypeOK
<1>3. ~ReadCached(r) /\ \A p \in Processes : ~CheckAndLock(r, p) /\ ~LockFails(r, p)
  BY DEF ReadCached, CheckAndLock, LockFails, Arrives, MayHold, AtWork, Aborted
<1>4. ASSUME NEW s \in Requests, s # r,
             \/ Handle(s) \/ CacheFails(s)
             \/ \E p \in Processes : CheckAndLock(s, p) \/ LockFails(s, p)
      PROVE  pc'[r] = pc[r] /\ reply'[r] = reply[r]
  BY <1>4 DEF Handle, CacheFails, LockFails, CheckAndLock, ReadCached, BookExpense,
     RejectExpense, StoreResponse, Release, ConnectionLost, Goes, Answers, TypeOK
<1>5. CASE Manage \/ UNCHANGED vars \/ \E k \in Keys : KeyLost(k)
  BY <1>5 DEF Manage, KeyLost, requestVars, vars, MayHold, AtWork, Aborted
<1>6. ASSUME NEW p \in Processes, Restart(p) PROVE MayHold(r)'
  BY <1>6 DEF Restart, MayHold, AtWork, Aborted, TypeOK
<1>. QED  BY <1>1, <1>2, <1>3, <1>4, <1>5, <1>6, StepCases
          DEF Serve, Handle, MayHold, AtWork, Aborted

\* A request that stores its response or releases its key leaves no lock on it.
LEMMA LockEnds ==
  ASSUME TypeOK, NEW r \in Requests, StoreResponse(r) \/ Release(r)
  PROVE  cache'[key[r]].tag # "PROCESSING"
BY TagsDiffer DEF StoreResponse, Release, Stored, Released, TypeOK

\* Every step keeps the property.
LEMMA LocksStep ==
  ASSUME TypeOK, OnlyTheAbortedLeaveLocks, [Next]_vars
  PROVE  OnlyTheAbortedLeaveLocks'
<1>. SUFFICES ASSUME NEW k \in Keys, cache'[k].tag = "PROCESSING"
              PROVE  \E r \in Requests :
                       cache'[k] = Processing(r) /\ key'[r] = k /\ MayHold(r)'
  BY DEF OnlyTheAbortedLeaveLocks, MayHold, Processing, Entry
<1>1. key' = key
  BY KeyFixed
<1>2. CASE cache'[k] = cache[k]
  <2>1. PICK r \in Requests : cache[k] = Processing(r) /\ key[r] = k /\ MayHold(r)
    BY <1>2 DEF OnlyTheAbortedLeaveLocks, MayHold
  <2>2. ~StoreResponse(r) /\ ~Release(r)
    BY <2>1, LockEnds
  <2>. QED  BY <1>1, <1>2, <2>1, <2>2, HoldersStay
<1>3. ASSUME NEW r \in Requests, NEW p \in Processes,
             CheckAndLock(r, p) \/ LockFails(r, p),
             cache[key[r]] = Free, key[r] = k, cache'[k] = Processing(r)
      PROVE  MayHold(r)'
  BY <1>3 DEF CheckAndLock, LockFails, Answers, Goes, Reply, MayHold, AtWork,
              Aborted, TypeOK
<1>. QED  BY <1>1, <1>2, <1>3, LockSteps

\* In any number of processes that stop and start, with any keys lost and any
\* command to Redis failing, a key that is locked is the lock of a request that
\* is at work or was aborted: no confirmation and no refusal leaves one behind.
THEOREM LocksAreReleased == Spec => []OnlyTheAbortedLeaveLocks
<1>1. Init => OnlyTheAbortedLeaveLocks
  BY TagsDiffer DEF Init, OnlyTheAbortedLeaveLocks
<1>2. Inv /\ OnlyTheAbortedLeaveLocks /\ [Next]_vars => OnlyTheAbortedLeaveLocks'
  BY LocksStep DEF Inv
<1>. QED  BY <1>1, <1>2, Invariance, PTL DEF Spec

-----------------------------------------------------------------------------
(* The contract. *)

\* What the handlers and Redis say of expenses: a confirmation, sent or on its
\* way, and a stored response name an expense of their own key.
AnswersInv ==
  /\ \A r \in Requests : pc[r] = "created" => reply[r].status = 201
  /\ \A r \in Requests : pc[r] = "failed" => reply[r].status = 400
  /\ \A r \in Requests :
       reply[r].status = 201 => Names(reply[r].expense, key[r])
  /\ \A k \in Keys :
       cache[k].tag = "response" => Names(cache[k].expense, k)

\* A booking confirms an expense of the request's own key.
LEMMA BookedNamed ==
  ASSUME Inv, NEW r \in Requests, BookExpense(r)
  PROVE  \E e : reply' = [reply EXCEPT ![r] = Reply(201, e)] /\ Names(e, key[r])'
<1>1. [Next]_vars /\ TypeOK
  BY DEF Next, Handle, Inv
<1>2. key[r] \in Keys /\ key' = key
  BY <1>1, KeyFixed DEF TypeOK
<1>3. PICK p \in Processes :
        \/ /\ kept[p][key[r]] # 0
           /\ reply' = [reply EXCEPT ![r] = Reply(201, kept[p][key[r]])]
        \/ /\ bookings' = Append(bookings, [key |-> key[r], body |-> GroupOf[key[r]]])
           /\ reply' = [reply EXCEPT ![r] = Reply(201, Len(bookings) + 1)]
  BY <1>1, BookCases
<1>4. PICK e : e = kept[p][key[r]]
  OBVIOUS
<1>5. e # 0 => Names(e, key[r])'
  <2>1. e # 0 => Names(e, key[r])
    BY <1>2, <1>4 DEF Inv, BookedInv
  <2>. QED  BY <1>1, <1>2, <2>1, NamesStay DEF Names
<1>6. bookings' = Append(bookings, [key |-> key[r], body |-> GroupOf[key[r]]])
        => /\ Len(bookings) + 1 \in 1 .. Len(bookings')
           /\ bookings'[Len(bookings) + 1].key = key'[r]
  <2>1. SUFFICES ASSUME bookings' = Append(bookings, [key |-> key[r],
                                                      body |-> GroupOf[key[r]]])
                 PROVE  /\ Len(bookings) + 1 \in 1 .. Len(bookings')
                        /\ bookings'[Len(bookings) + 1].key = key'[r]
    OBVIOUS
  <2>2. /\ Len(bookings) \in Nat /\ Len(bookings') = Len(bookings) + 1
        /\ bookings'[Len(bookings')] = [key |-> key[r], body |-> GroupOf[key[r]]]
    BY <1>1, <2>1, BookingsAppend
  <2>. QED  BY <1>2, <2>2
<1>. QED  BY <1>3, <1>4, <1>5, <1>6 DEF Names

\* Where a request's reply comes from.
LEMMA ReplySteps ==
  ASSUME Inv, [Next]_vars, NEW r \in Requests
  PROVE  \/ reply'[r] = reply[r]
         \/ BookExpense(r) /\ reply'[r].status = 201
                           /\ Names(reply[r].expense, key[r])'
         \/ /\ pc[r] = "duplicate" /\ cache[key[r]].tag = "response"
            /\ reply'[r].status = 201 /\ reply'[r].expense = cache[key[r]].expense
         \/ reply'[r].status \in {400, 409, 500}
<1>1. TypeOK
  BY DEF Inv
<1>2. ASSUME NEW s \in Requests, Handle(s), s # r PROVE reply'[r] = reply[r]
  BY <1>1, <1>2 DEF Handle, ReadCached, BookExpense, RejectExpense, StoreResponse,
     Release, ConnectionLost, Answers, TypeOK
<1>3. CASE BookExpense(r)
  BY <1>1, <1>3, BookedNamed DEF TypeOK, Reply, Names
<1>4. CASE ReadCached(r)
  BY <1>1, <1>4 DEF ReadCached, Answers, TypeOK, Reply
<1>5. CASE RejectExpense(r) \/ ConnectionLost(r)
  BY <1>1, <1>5 DEF RejectExpense, ConnectionLost, Answers, TypeOK, Reply
<1>6. CASE StoreResponse(r) \/ Release(r)
  BY <1>6 DEF StoreResponse, Release
<1>7. ASSUME NEW s \in Requests, NEW p \in Processes, CheckAndLock(s, p)
      PROVE  reply' = reply
  BY <1>7 DEF CheckAndLock
<1>8. CASE Manage \/ (\E p \in Processes : Restart(p)) \/ UNCHANGED vars
           \/ \E k \in Keys : KeyLost(k)
  BY <1>8 DEF Manage, Restart, KeyLost, vars, requestVars
<1>9. ASSUME NEW s \in Requests, CacheFails(s) \/ \E p \in Processes : LockFails(s, p)
      PROVE  IF s = r THEN reply'[r].status = 500 ELSE reply'[r] = reply[r]
  BY <1>1, <1>9 DEF CacheFails, LockFails, Answers, TypeOK, Reply
<1>. QED  BY <1>2, <1>3, <1>4, <1>5, <1>6, <1>7, <1>8, <1>9, StepCases
          DEF Serve, Handle

\* Where a response in Redis comes from.
LEMMA CacheSteps ==
  ASSUME TypeOK, [Next]_vars, NEW k \in Keys, cache'[k].tag = "response"
  PROVE  \/ cache'[k] = cache[k]
         \/ \E r \in Requests : /\ pc[r] = "created" /\ key[r] = k
                                /\ cache'[k].expense = reply[r].expense
<1>1. ASSUME NEW r \in Requests
      PROVE  /\ Locked(r)[k].tag = "response" => Locked(r)[k] = cache[k]
             /\ Released(r)[k].tag = "response" => Released(r)[k] = cache[k]
             /\ \/ Stored(r)[k] = cache[k]
                \/ key[r] = k /\ Stored(r)[k].expense = reply[r].expense
  BY <1>1, TagsDiffer DEF Stored, Released, Locked, TypeOK, Entry
<1>2. ASSUME NEW r \in Requests, NEW p \in Processes,
             CheckAndLock(r, p) \/ LockFails(r, p)
      PROVE  cache'[k] = cache[k]
  <2>1. cache' \in {cache, Locked(r)}
    BY <1>2 DEF CheckAndLock, LockFails
  <2>. QED  BY <1>1, <2>1
<1>3. ASSUME NEW r \in Requests, StoreResponse(r) \/ Release(r) \/ CacheFails(r)
      PROVE  cache'[k] = cache[k] \/ /\ pc[r] = "created" /\ key[r] = k
                                     /\ cache'[k].expense = reply[r].expense
  <2>1. \/ cache' \in {cache, Released(r)}
        \/ pc[r] = "created" /\ cache' = Stored(r)
    BY <1>3 DEF StoreResponse, Release, CacheFails
  <2>. QED  BY <1>1, <2>1
<1>5. ASSUME NEW l \in Keys, KeyLost(l) PROVE cache'[k] = cache[k]
  BY <1>5, TagsDiffer DEF KeyLost, TypeOK
<1>6. ASSUME NEW r \in Requests, ReadCached(r) \/ BookExpense(r) \/ RejectExpense(r)
                                   \/ ConnectionLost(r)
      PROVE  cache' = cache
  BY <1>6 DEF ReadCached, BookExpense, RejectExpense, ConnectionLost
<1>7. CASE Manage \/ (\E p \in Processes : Restart(p)) \/ UNCHANGED vars
  BY <1>7 DEF Manage, Restart, vars
<1>. QED  BY <1>2, <1>3, <1>5, <1>6, <1>7, StepCases DEF Serve, Handle

\* Every step keeps what is known of the answers.
LEMMA AnswersStep ==
  ASSUME Inv, AnswersInv, [Next]_vars
  PROVE  AnswersInv'
<1>1. key' = key /\ TypeOK
  BY KeyFixed DEF Inv
<1>2. \A e, k : Names(e, k) => Names(e, k)'
  BY <1>1, NamesStay
<1>3. ASSUME NEW r \in Requests
      PROVE  /\ pc'[r] = "created" => reply'[r].status = 201
             /\ pc'[r] = "failed" => reply'[r].status = 400
  <2>1. ASSUME NEW s \in Requests, s # r,
               \/ Handle(s) \/ CacheFails(s)
               \/ \E p \in Processes : CheckAndLock(s, p) \/ LockFails(s, p)
        PROVE  pc'[r] = pc[r] /\ reply'[r] = reply[r]
    BY <1>1, <2>1 DEF Handle, CacheFails, LockFails, CheckAndLock, ReadCached,
       BookExpense, RejectExpense, StoreResponse, Release, ConnectionLost, Goes,
       Answers, TypeOK
  <2>2. CASE BookExpense(r)
    BY <1>1, <2>2, BookedNamed DEF BookExpense, Goes, Reply, TypeOK
  <2>3. CASE RejectExpense(r)
    BY <1>1, <2>3 DEF RejectExpense, Goes, AfterReject, Reply, TypeOK
  <2>4. ASSUME \/ ReadCached(r) \/ StoreResponse(r) \/ Release(r) \/ ConnectionLost(r)
               \/ CacheFails(r)
               \/ \E p \in Processes : CheckAndLock(r, p) \/ LockFails(r, p)
        PROVE  pc'[r] \notin {"created", "failed"}
    BY <1>1, <2>4 DEF ReadCached, StoreResponse, Release, ConnectionLost,
       CacheFails, LockFails, CheckAndLock, Goes, Answers, TypeOK
  <2>5. CASE Manage \/ UNCHANGED vars \/ \E k \in Keys : KeyLost(k)
    BY <2>5 DEF Manage, KeyLost, vars, requestVars, AnswersInv
  <2>6. ASSUME NEW p \in Processes, Restart(p)
        PROVE  reply' = reply /\ pc'[r] \in {pc[r], "cut"}
    BY <2>6 DEF Restart
  <2>. QED  BY <2>1, <2>2, <2>3, <2>4, <2>5, <2>6, StepCases
            DEF Serve, Handle, AnswersInv
<1>4. ASSUME NEW r \in Requests, reply'[r].status = 201
      PROVE  Names(reply[r].expense, key[r])'
  <2>1. key[r] \in Keys
    BY <1>1 DEF TypeOK
  <2>2. CASE reply'[r] = reply[r]
    <3>1. Names(reply[r].expense, key[r])
      BY <1>4, <2>2 DEF AnswersInv
    <3>. QED  BY <1>1, <1>2, <2>2, <3>1 DEF Names
  <2>3. CASE cache[key[r]].tag = "response" /\ reply'[r].expense = cache[key[r]].expense
    <3>1. Names(cache[key[r]].expense, key[r])
      BY <2>1, <2>3 DEF AnswersInv
    <3>. QED  BY <1>1, <1>2, <2>3, <3>1 DEF Names
  <2>. QED  BY <1>4, <2>2, <2>3, ReplySteps
<1>5. ASSUME NEW k \in Keys, cache'[k].tag = "response"
      PROVE  Names(cache[k].expense, k)'
  <2>1. PICK e : e = cache'[k].expense /\ Names(e, k)
    <3>1. CASE cache'[k] = cache[k]
      BY <1>5, <3>1 DEF AnswersInv
    <3>2. CASE \E r \in Requests : /\ pc[r] = "created" /\ key[r] = k
                                   /\ cache'[k].expense = reply[r].expense
      BY <3>2 DEF AnswersInv
    <3>. QED  BY <1>1, <1>5, <3>1, <3>2, CacheSteps
  <2>. QED  BY <1>2, <2>1 DEF Names
<1>. QED  BY <1>1, <1>3, <1>4, <1>5 DEF AnswersInv, Names

AnsweredView == [r \in Requests |-> AnswerOf(r)]
BodyView     == [r \in Requests |-> GroupOf[key[r]]]

\* The initial states are initial states of the contract.
LEMMA ContractInit == Init => Contract!Init
<1>. SUFFICES ASSUME Init PROVE Contract!Init
  OBVIOUS
<1>1. AnsweredView = [r \in Requests |-> 0]
  BY DEF Init, AnsweredView, AnswerOf
<1>2. BodyView \in [Requests -> GroupIds]
  BY BodiesAssumption DEF Init, BodyView
<1>. QED  BY <1>1, <1>2
          DEF Init, Contract!Init, Contract!Pending, AnsweredView, BodyView

\* The step that answers a request is a confirmation or a refusal.
LEMMA AnswerStep ==
  ASSUME Inv, AnswersInv, [Next]_vars, bookings' = bookings,
         NEW r \in Requests, pc[r] # "answered",
         pc' = [pc EXCEPT ![r] = "answered"],
         \A s \in Requests \ {r} : reply'[s] = reply[s]
  PROVE  Contract!Next
<1>1. key' = key /\ key[r] \in Keys /\ key[r] # NoKey /\ TypeOK
  BY KeyFixed, BodiesAssumption DEF Inv, TypeOK
<1>2. PICK a : a = IF reply'[r].status = 201 THEN reply'[r].expense ELSE -1
  OBVIOUS
<1>3. AnswerOf(r) = 0 /\ AnswerOf(r)' = a
  BY <1>1, <1>2 DEF AnswerOf, TypeOK
<1>4. \A s \in Requests \ {r} : AnswerOf(s)' = AnswerOf(s)
  BY <1>1 DEF AnswerOf, TypeOK
<1>5. AnsweredView' = [AnsweredView EXCEPT ![r] = a] /\ AnsweredView[r] = 0
  BY <1>3, <1>4 DEF AnsweredView
<1>6. BodyView' = BodyView
  BY <1>1 DEF BodyView
<1>7. CASE reply'[r].status = 201
  <2>1. Names(a, key[r])'
    BY <1>2, <1>7, AnswersStep DEF AnswersInv, Names
  <2>2. a \in DOMAIN bookings /\ bookings[a].key = key[r]
    BY <1>1, <2>1, BookingsAreTyped DEF Names
  <2>3. Contract!Confirm(r)
    BY <1>1, <1>5, <1>6, <2>2
       DEF Contract!Confirm, Contract!Pending, AnsweredView, BodyView
  <2>. QED  BY <2>3 DEF Contract!Next
<1>8. CASE reply'[r].status # 201
  <2>1. Contract!Refuse(r)
    BY <1>1, <1>2, <1>5, <1>6, <1>8
       DEF Contract!Refuse, Contract!Pending, Contract!Refused, AnsweredView, BodyView
  <2>. QED  BY <2>1 DEF Contract!Next
<1>. QED  BY <1>7, <1>8

\* A booking of the service is one of the contract, or the store's answer to a
\* retry, which the contract does not see.
LEMMA BookStep ==
  ASSUME Inv, NEW r \in Requests, BookExpense(r)
  PROVE  Contract!Next \/ UNCHANGED Contract!vars
<1>1. key' = key /\ key[r] \in Keys /\ key[r] # NoKey /\ TypeOK
  BY BodiesAssumption DEF Inv, TypeOK, BookExpense
<1>2. \A s \in Requests : pc'[s] = "answered" <=> pc[s] = "answered"
  BY <1>1 DEF BookExpense, Goes, TypeOK
<1>3. \A s \in Requests : pc[s] = "answered" => reply'[s] = reply[s]
  BY <1>1, BookedNamed DEF BookExpense, TypeOK
<1>4. AnsweredView' = AnsweredView
  BY <1>2, <1>3 DEF AnsweredView, AnswerOf
<1>5. AnswerOf(r) = 0
  BY <1>1 DEF BookExpense, AnswerOf
<1>6. BodyView' = BodyView
  BY <1>1 DEF BodyView
<1>7. PICK p \in Processes :
        /\ Accepted(r, p)
        /\ \/ UNCHANGED <<bookings, kept>>
           \/ /\ kept[p][key[r]] = 0
              /\ bookings' = Append(bookings, [key |-> key[r],
                                               body |-> GroupOf[key[r]]])
  BY <1>1, BookCases
<1>8. CASE bookings' = bookings
  BY <1>1, <1>4, <1>6, <1>8 DEF Contract!vars, AnsweredView, BodyView
<1>9. CASE /\ kept[p][key[r]] = 0
           /\ bookings' = Append(bookings, [key |-> key[r],
                                            body |-> GroupOf[key[r]]])
  <2>1. GroupOf[key[r]] \in groups[p]
    BY <1>7 DEF Accepted
  <2>2. \A i \in DOMAIN bookings : bookings[i].key # key[r]
    BY <1>1, <1>9, <2>1, BookingsAreTyped DEF Inv, Remembers
  <2>3. bookings' = Contract!NewBooking(r)
    BY <1>9 DEF Contract!NewBooking
  <2>4. Contract!Book(r)
    BY <1>1, <1>4, <1>5, <1>6, <2>2, <2>3
       DEF Contract!Book, Contract!Pending, AnsweredView, BodyView
  <2>. QED  BY <2>4 DEF Contract!Next
<1>. QED  BY <1>7, <1>8, <1>9

\* A step is one of the contract or leaves what it is about unchanged.
LEMMA ContractStep ==
  ASSUME Inv, AnswersInv, [Next]_vars
  PROVE  [Contract!Next]_(Contract!vars)
<1>1. key' = key /\ TypeOK
  BY KeyFixed DEF Inv
<1>2. ASSUME UNCHANGED <<bookings, reply>>,
             \A s \in Requests : pc'[s] = "answered" <=> pc[s] = "answered"
      PROVE  UNCHANGED Contract!vars
  <2>1. AnsweredView' = AnsweredView /\ BodyView' = BodyView
    BY <1>1, <1>2 DEF AnsweredView, BodyView, AnswerOf
  <2>. QED  BY <1>1, <1>2, <2>1 DEF Contract!vars, AnsweredView, BodyView
<1>3. CASE Manage \/ UNCHANGED vars
  BY <1>2, <1>3 DEF Manage, requestVars, vars
<1>4. ASSUME NEW p \in Processes, Restart(p) PROVE UNCHANGED Contract!vars
  BY <1>2, <1>4 DEF Restart
<1>5. ASSUME NEW k \in Keys, KeyLost(k) PROVE UNCHANGED Contract!vars
  BY <1>2, <1>5 DEF KeyLost, requestVars
<1>6. ASSUME NEW r \in Requests, NEW p \in Processes, CheckAndLock(r, p)
      PROVE  UNCHANGED Contract!vars
  BY <1>1, <1>2, <1>6 DEF CheckAndLock, Arrives, Goes, TypeOK
<1>7. ASSUME NEW r \in Requests, RejectExpense(r) PROVE UNCHANGED Contract!vars
  <2>1. /\ \A s \in Requests : pc'[s] = "answered" <=> pc[s] = "answered"
        /\ \A s \in Requests : pc[s] = "answered" => reply'[s] = reply[s]
    BY <1>1, <1>7 DEF RejectExpense, Goes, AfterReject, TypeOK
  <2>2. AnsweredView' = AnsweredView /\ BodyView' = BodyView
    BY <1>1, <2>1 DEF AnsweredView, BodyView, AnswerOf
  <2>. QED  BY <1>1, <1>7, <2>2
            DEF RejectExpense, Contract!vars, AnsweredView, BodyView
<1>8. ASSUME NEW r \in Requests,
             \/ ReadCached(r) \/ StoreResponse(r) \/ Release(r) \/ ConnectionLost(r)
             \/ CacheFails(r) \/ \E p \in Processes : LockFails(r, p)
      PROVE  Contract!Next
  <2>1. pc[r] # "answered" /\ bookings' = bookings
    BY <1>8 DEF ReadCached, StoreResponse, Release, ConnectionLost, CacheFails,
                LockFails, Arrives
  <2>2. pc' = [pc EXCEPT ![r] = "answered"]
    BY <1>8 DEF ReadCached, StoreResponse, Release, ConnectionLost, CacheFails,
                LockFails, Answers, Goes
  <2>3. \A s \in Requests \ {r} : reply'[s] = reply[s]
    BY <1>1, <1>8 DEF ReadCached, StoreResponse, Release, ConnectionLost, CacheFails,
                      LockFails, Answers, TypeOK
  <2>. QED  BY <2>1, <2>2, <2>3, AnswerStep
<1>. QED  BY <1>3, <1>4, <1>5, <1>6, <1>7, <1>8, BookStep, StepCases
          DEF Serve, Handle

\* Any number of processes, stopped and started at any time, behind a Redis that
\* may forget keys, keep the contract of POST expenses: a key books at most one
\* expense, and a confirmation names an expense of its own key.
THEOREM ContractKept == Spec => HonoursContract
<1>1. Init => AnswersInv
  BY DEF Init, AnswersInv, Reply, Free, Entry
<1>2. Inv /\ AnswersInv /\ [Next]_vars => AnswersInv'
  BY AnswersStep
<1>3. Inv /\ AnswersInv /\ [Next]_vars => [Contract!Next]_(Contract!vars)
  BY ContractStep
<1>. QED  BY <1>1, <1>2, <1>3, Invariance, ContractInit, PTL
          DEF Spec, HonoursContract, Contract!Spec
=============================================================================
