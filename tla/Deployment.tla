----------------------------- MODULE Deployment ----------------------------
(***************************************************************************)
(* The deployment of docker-compose.yml: several processes of the API      *)
(* behind one port and one Redis.  POST expenses, see ExpenseIntake, now   *)
(* reaches any of them.  The idempotency keys are shared and outlive a     *)
(* process; its directory (see Directory), its expenses and its own map of *)
(* keys end with it.                                                       *)
(*                                                                         *)
(* A client uses a key for one expense: requests with the same key have    *)
(* the same group and payer.  Expenses are numbers, their places in the    *)
(* history of all that were ever booked.                                   *)
(***************************************************************************)
EXTENDS Directory

CONSTANTS
  Requests, Keys,
  NoKey,        \* for the contract; requests without a key share nothing
  GroupOf,      \* key -> the group its requests post to
  PayerOf       \* key -> the payer they name

ASSUME BodiesAssumption ==
  /\ GroupOf \in [Keys -> GroupIds] /\ PayerOf \in [Keys -> UserIds]
  /\ NoKey \notin Keys

VARIABLES
  key,       \* request -> its idempotency key, fixed
  pc,        \* request -> where its handler stands
  at,        \* request -> the processes it was routed to: none or one
  reply,     \* request -> [status, expense]
  cache,     \* key -> [tag, expense], in Redis, and by, the request that locked it
  kept,      \* process -> key -> its store's expense, 0 if none
  bookings   \* all expenses ever stored, in any process

requestVars == <<pc, at, reply>>
vars == <<directoryVars, key, requestVars, cache, kept, bookings>>

Reply(status, e) == [status |-> status, expense |-> e]
Entry(tag, e, by) == [tag |-> tag, expense |-> e, by |-> by]
Free              == Entry("free", 0, {})
Processing(r)     == Entry("PROCESSING", 0, {r})

\* What Redis holds after SET NX, SET and DEL of a handler.
Locked(r)   == IF cache[key[r]] = Free THEN [cache EXCEPT ![key[r]] = Processing(r)]
                                       ELSE cache
Stored(r)   == [cache EXCEPT ![key[r]] = Entry("response", reply[r].expense, {})]
Released(r) == [cache EXCEPT ![key[r]] = Free]

Init ==
  /\ DirectoryInit
  /\ key \in [Requests -> Keys]
  /\ pc = [r \in Requests |-> "new"]
  /\ at = [r \in Requests |-> {}]
  /\ reply = [r \in Requests |-> Reply(0, 0)]
  /\ cache = [k \in Keys |-> Free]
  /\ kept = [p \in Processes |-> [k \in Keys |-> 0]]
  /\ bookings = << >>

Goes(r, step) == pc' = [pc EXCEPT ![r] = step]
Answers(r, status, e) ==
  /\ Goes(r, "answered")
  /\ reply' = [reply EXCEPT ![r] = Reply(status, e)]

\* A client knows a group's id once it was issued.
Arrives(r, p) ==
  /\ pc[r] = "new" /\ GroupOf[key[r]] \in issued
  /\ at' = [at EXCEPT ![r] = {p}]

\* SET NX.
CheckAndLock(r, p) ==
  /\ Arrives(r, p)
  /\ cache' = Locked(r)
  /\ Goes(r, IF cache[key[r]] = Free THEN "locked" ELSE "duplicate")
  /\ UNCHANGED <<directoryVars, key, reply, kept, bookings>>

\* GET: a response, whichever process stored it, or 409.
ReadCached(r) ==
  /\ pc[r] = "duplicate"
  /\ LET c == cache[key[r]] IN
     IF c.tag = "response" THEN Answers(r, 201, c.expense) ELSE Answers(r, 409, 0)
  /\ UNCHANGED <<directoryVars, key, at, cache, kept, bookings>>

\* What create_expense asks of the store of its process.  Mutant: the group is
\* taken for granted.
AcceptedAnywhere(r, p) == TRUE
Accepted(r, p) ==
  /\ GroupOf[key[r]] \in groups[p]
  /\ PayerOf[key[r]] \in members[GroupOf[key[r]]]

BookExpense(r) ==
  /\ pc[r] = "locked"
  /\ \E p \in at[r] :
       /\ Accepted(r, p)
       /\ LET k == key[r]
              e == IF kept[p][k] # 0 THEN kept[p][k] ELSE Len(bookings) + 1
          IN  /\ bookings' = IF kept[p][k] # 0 THEN bookings
                             ELSE Append(bookings, [key |-> k, body |-> GroupOf[k]])
              /\ kept' = [kept EXCEPT ![p][k] = e]
              /\ reply' = [reply EXCEPT ![r] = Reply(201, e)]
  /\ Goes(r, "created")
  /\ UNCHANGED <<directoryVars, key, at, cache>>

\* Where a refused request goes.  Mutants: it does not release the key; the
\* service is called again.
AnsweredAtOnce == "answered"
TriedAgain     == "locked"
AfterReject    == "failed"

RejectExpense(r) ==
  /\ pc[r] = "locked"
  /\ \E p \in at[r] : ~Accepted(r, p)
  /\ reply' = [reply EXCEPT ![r] = Reply(400, 0)]
  /\ Goes(r, AfterReject)
  /\ UNCHANGED <<directoryVars, key, at, cache, kept, bookings>>

StoreResponse(r) ==
  /\ pc[r] = "created"
  /\ cache' = Stored(r)
  /\ Goes(r, "answered")
  /\ UNCHANGED <<directoryVars, key, at, reply, kept, bookings>>

Release(r) ==
  /\ pc[r] = "failed"
  /\ cache' = Released(r)
  /\ Goes(r, "answered")
  /\ UNCHANGED <<directoryVars, key, at, reply, kept, bookings>>

\* SET NX, or a later command, raises; Redis may have executed it.  No handler
\* catches that: the client gets a 500.
LockFails(r, p) ==
  /\ Arrives(r, p)
  /\ cache' \in {cache, Locked(r)}
  /\ Answers(r, 500, 0)
  /\ UNCHANGED <<directoryVars, key, kept, bookings>>

CacheFails(r) ==
  /\ \/ pc[r] = "duplicate" /\ UNCHANGED cache
     \/ pc[r] = "created"   /\ cache' \in {cache, Stored(r)}
     \/ pc[r] = "failed"    /\ cache' \in {cache, Released(r)}
  /\ Answers(r, 500, 0)
  /\ UNCHANGED <<directoryVars, key, at, kept, bookings>>

\* The client of a handler that is no more sees its connection closed.
ConnectionLost(r) ==
  /\ pc[r] = "cut"
  /\ Answers(r, 500, 0)
  /\ UNCHANGED <<directoryVars, key, at, cache, kept, bookings>>

\* Process p stops, with all it keeps in memory, and is started again.
Restart(p) ==
  /\ StoreLost(p)
  /\ kept' = [kept EXCEPT ![p] = [k \in Keys |-> 0]]
  /\ pc' = [r \in Requests |->
              IF p \in at[r] /\ pc[r] \notin {"new", "answered"} THEN "cut" ELSE pc[r]]
  /\ UNCHANGED <<key, at, reply, cache, bookings>>

\* A key expires or is evicted.
KeyLost(k) ==
  /\ cache[k] # Free
  /\ cache' = [cache EXCEPT ![k] = Free]
  /\ UNCHANGED <<directoryVars, key, requestVars, kept, bookings>>

Manage ==
  /\ \E p \in Processes : DirectoryStep(p)
  /\ UNCHANGED <<key, requestVars, cache, kept, bookings>>

Handle(r) ==
  \/ ReadCached(r)    \/ BookExpense(r) \/ RejectExpense(r)
  \/ StoreResponse(r) \/ Release(r)     \/ ConnectionLost(r)

Next ==
  \/ Manage
  \/ \E r \in Requests :
       \/ Handle(r) \/ CacheFails(r)
       \/ \E p \in Processes : CheckAndLock(r, p) \/ LockFails(r, p)
  \/ \E p \in Processes : Restart(p)
  \/ \E k \in Keys : KeyLost(k)

Spec == Init /\ [][Next]_vars
\* Every handler that can go on goes on.
FairSpec == Spec /\ \A r \in Requests : WF_vars(Handle(r))

-----------------------------------------------------------------------------
(* What is true of the deployment. *)

\* Type invariant, with that of the directory.
TypeOK ==
  /\ DirectoryTypeOK
  /\ key \in [Requests -> Keys]
  /\ pc \in [Requests -> {"new", "duplicate", "locked", "created", "failed",
                          "cut", "answered"}]
  /\ at \in [Requests -> SUBSET Processes]
  /\ reply \in [Requests -> [status : {0, 201, 400, 409, 500},
                             expense : 0 .. Len(bookings)]]
  /\ cache \in [Keys -> [tag : {"free", "PROCESSING", "response"},
                         expense : 0 .. Len(bookings), by : SUBSET Requests]]
  /\ kept \in [Processes -> [Keys -> 0 .. Len(bookings)]]
  /\ bookings \in Seq([key : Keys, body : GroupIds])

\* As long as a group exists, the store it lives in remembers each booking made
\* for it, in whichever process the request was handled and whatever Redis has
\* forgotten: a retry that gets past the lock finds it.
StoreRemembersBookings ==
  \A i \in DOMAIN bookings, p \in Processes :
    GroupOf[bookings[i].key] \in groups[p] => kept[p][bookings[i].key] = i

\* The handler of r is at work, or it ended with its process or in an error of
\* the cache.
AtWork(r)  == pc[r] \in {"locked", "created", "failed"}
Aborted(r) == pc[r] = "cut" \/ (pc[r] = "answered" /\ reply[r].status = 500)

\* A key that is locked was locked by a handler that is still at work or was
\* aborted, which is how a key stays locked for 24 hours (expenses.py:71,102,109):
\* a request that was confirmed or refused leaves no lock of its own behind,
\* whoever else used the key and whatever Redis had forgotten in between.
OnlyTheAbortedLeaveLocks ==
  \A k \in Keys : cache[k].tag = "PROCESSING" =>
    \E r \in Requests :
      cache[k] = Processing(r) /\ key[r] = k /\ (AtWork(r) \/ Aborted(r))

\* What the contract knows of an answer: the expense confirmed, or a refusal.
AnswerOf(r) == IF pc[r] # "answered" THEN 0
               ELSE IF reply[r].status = 201 THEN reply[r].expense ELSE -1
Contract == INSTANCE BookingContract WITH
  Bodies <- GroupIds,
  body   <- [r \in Requests |-> GroupOf[key[r]]],
  answer <- [r \in Requests |-> AnswerOf(r)]

\* Several processes that stop and start, and a Redis that forgets, still book
\* a key at most once and confirm nothing else: a group ends with the process
\* that knows its keys, and no other process accepts an expense for it.
HonoursContract == Contract!Spec

\* Every request that reached a process is answered, be it by a connection that
\* closes or an error.
EveryRequestAnswered ==
  \A r \in Requests : pc[r] # "new" ~> pc[r] = "answered"
=============================================================================
