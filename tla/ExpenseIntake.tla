--------------------------- MODULE ExpenseIntake ---------------------------
(***************************************************************************)
(* POST /groups/{group_id}/expenses: concurrent requests, each running     *)
(* api/routes/expenses.py create_expense, against the idempotency keys in  *)
(* the cache (cache/idempotency.py) and the service, store, ledger and     *)
(* outbox of one API process (services/expense_service.py).                *)
(*                                                                         *)
(* A handler can be suspended only where it awaits the cache: the store's, *)
(* the outbox's and the in-memory cache's locks are never contended and    *)
(* the ledger is synchronous.  So each cache command is a step, and the    *)
(* whole of ExpenseService.create_expense is one step.  With the in-memory *)
(* cache a handler runs its steps without a break, which is one of the     *)
(* interleavings here.                                                     *)
(*                                                                         *)
(* Expense, journal and event ids are indices.  A list of splits is        *)
(* represented by the body and the roster (the group's members at that     *)
(* moment) it is computed from, see BookedSplits.                          *)
(***************************************************************************)
EXTENDS Bookkeeping, FiniteSets

CONSTANTS
  Requests,        \* the HTTP requests; a client's retry is another request
  Keys,            \* idempotency keys
  NoKey,           \* the request carries no idempotency key
  Bodies,          \* validated request bodies, see Bookkeeping
  Users,
  InitialMembers,  \* group -> sequence of users
  KeyLoss,         \* may a cached key expire (24 h) or be evicted?
  CacheFaults      \* may a cache command fail?

ASSUME NoKeyAssumption  == NoKey \notin Keys
ASSUME SwitchAssumption == KeyLoss \in BOOLEAN /\ CacheFaults \in BOOLEAN
ASSUME MembersAssumption ==
  InitialMembers \in [DOMAIN InitialMembers -> Seq(Users)]
\* The request schema: given shares name users, in whole cents or percentages.
ASSUME BodiesAssumption ==
  \A b \in Bodies :
    /\ b.total \in Int
    /\ b.type = "EXACT" => b.given \in Seq([user : Users, amount : Int])
    /\ b.type = "PERCENTAGE" => b.given \in Seq([user : Users, pct : Int])

Groups == DOMAIN InitialMembers

VARIABLES
  key,              \* request -> its idempotency key, fixed
  body,             \* request -> its body, fixed
  pc,               \* request -> where its handler stands
  reply,            \* request -> the response built so far
  cache,            \* key -> value of "idempotency:{key}" in the cache
  members,          \* group -> its member_ids, in the order they joined
  expenses,         \* the store's expenses
  idempotencyKeys,  \* the store's key -> expense map, 0 when absent
  journals,         \* the ledger's journals
  outbox            \* the outbox's events

ledgerVars == <<expenses, idempotencyKeys, journals, outbox>>
vars == <<key, body, pc, reply, cache, members, ledgerVars>>

Steps == {"arrived", "duplicate", "locked", "created", "failed", "answered"}
Statuses == {0, 201, 400, 409, 500}

Reply(status, e, j) == [status |-> status, expense |-> e, journal |-> j]
NoReply == Reply(0, 0, 0)

Free == [tag |-> "free", expense |-> 0, journal |-> 0]
Processing == [tag |-> "PROCESSING", expense |-> 0, journal |-> 0]
\* Mutants: the response is formatted before journal_id is set; the sentinel
\* is left where the response should be.
ResponseWithoutJournal(re) ==
  [tag |-> "response", expense |-> re.expense, journal |-> 0]
SentinelKept(re) == Processing
Response(re) ==
  [tag |-> "response", expense |-> re.expense, journal |-> re.journal]

\* The commands on one key: SET NX (does it succeed, what does it do), SET, DEL.
\* Mutants: SET without NX; DEL instead of SET; a mark instead of DEL.
AcquiresAlways(k) == TRUE
Acquires(k)       == cache[k] = Free
Locked(k)         == [cache EXCEPT ![k] = Processing]
DeletedNotStored(k, re) == [cache EXCEPT ![k] = Free]
Stored(k, re)     == [cache EXCEPT ![k] = Response(re)]
MarkedFailed(k)   == [cache EXCEPT ![k].tag = "FAILED"]
Deleted(k)        == [cache EXCEPT ![k] = Free]

WithJournal(x, j) ==
  [body |-> x.body, roster |-> x.roster, key |-> x.key, journal |-> j]
Booking(x)      == [body |-> x.body, roster |-> x.roster]
BookedSplits(x) == Splits(x.body, x.roster)

-----------------------------------------------------------------------------

\* Everything create_expense checks before it touches any state, and the
\* ledger's check of the amounts it is asked to post.
Accepted(b) ==
  /\ b.total >= 1
  /\ b.group \in Groups
  /\ b.payer \in Range(members[b.group])
  /\ SplitAccepted(b)
  /\ AmountsValid(ExpenseLines(b.payer, Splits(b, members[b.group]),
                               ExpenseClearing(0)))

Init ==
  /\ key  \in [Requests -> Keys \cup {NoKey}]
  /\ body \in [Requests -> Bodies]
  /\ pc    = [r \in Requests |-> "arrived"]
  /\ reply = [r \in Requests |-> NoReply]
  /\ cache = [k \in Keys |-> Free]
  /\ members = InitialMembers
  /\ expenses = << >>
  /\ idempotencyKeys = [k \in Keys |-> 0]
  /\ journals = << >>
  /\ outbox = << >>

\* SET key "PROCESSING" NX: the first request holds the key.
CheckAndLock(r) ==
  /\ pc[r] = "arrived" /\ key[r] # NoKey
  /\ \/ /\ Acquires(key[r])
        /\ cache' = Locked(key[r])
        /\ pc' = [pc EXCEPT ![r] = "locked"]
     \/ /\ ~Acquires(key[r])
        /\ pc' = [pc EXCEPT ![r] = "duplicate"]
        /\ UNCHANGED cache
  /\ UNCHANGED <<key, body, reply, members, ledgerVars>>

\* Where a handler goes after the GET.  Mutants: a duplicate that finds no
\* response waits for one; its 409 takes the failure path, which releases.
ReadUntilResponse(r) ==
  IF cache[key[r]].tag = "response" THEN "answered" ELSE "duplicate"
ReadThenRelease(r) ==
  IF cache[key[r]].tag = "response" THEN "answered" ELSE "failed"
AfterRead(r) == "answered"

\* GET key, a command of its own: the stored response is returned as it is,
\* a key in progress (or released since) is refused with 409.
ReadCached(r) ==
  /\ pc[r] = "duplicate"
  /\ LET c == cache[key[r]] IN
     reply' = [reply EXCEPT ![r] =
                 IF c.tag = "response" THEN Reply(201, c.expense, c.journal)
                                       ELSE Reply(409, 0, 0)]
  /\ pc' = [pc EXCEPT ![r] = AfterRead(r)]
  /\ UNCHANGED <<key, body, cache, members, ledgerVars>>

\* The handler calls the service: at once without a key, else under the lock.
\* Mutant: occ_retry runs the service again after it has booked.
RetriedInService(r) ==
  pc[r] \in {"locked", "created"} \/ (pc[r] = "arrived" /\ key[r] = NoKey)
InService(r) == pc[r] = "locked" \/ (pc[r] = "arrived" /\ key[r] = NoKey)

\* The store's answer to create_expense: the expense already booked under the
\* key, or else the next one.
\* Mutant: the store does not look the key up.
NewExpenseFor(r) == Len(expenses) + 1
ExpenseFor(r) ==
  IF key[r] # NoKey /\ idempotencyKeys[key[r]] # 0
  THEN idempotencyKeys[key[r]]
  ELSE Len(expenses) + 1

\* ExpenseService.create_expense: ledger first, then store, then outbox.  The
\* expense returned by the store gets the new journal's id, even an old one.
BookExpense(r) ==
  /\ InService(r) /\ Accepted(body[r])
  /\ LET e == ExpenseFor(r)
         j == Len(journals) + 1
         booking == [body |-> body[r], roster |-> members[body[r].group]]
     IN  /\ journals' = Append(journals, booking)
         /\ expenses' =
              IF e \in DOMAIN expenses
              THEN [expenses EXCEPT ![e] = WithJournal(expenses[e], j)]
              ELSE Append(expenses,
                     [body |-> booking.body, roster |-> booking.roster,
                      key |-> key[r], journal |-> j])
         /\ idempotencyKeys' =
              IF key[r] = NoKey THEN idempotencyKeys
                                ELSE [idempotencyKeys EXCEPT ![key[r]] = e]
         /\ outbox' = Append(outbox, [expense |-> e, body |-> booking.body,
                                      roster |-> booking.roster])
         /\ reply' = [reply EXCEPT ![r] = Reply(201, e, j)]
  /\ pc' = [pc EXCEPT ![r] = IF key[r] = NoKey THEN "answered" ELSE "created"]
  /\ UNCHANGED <<key, body, cache, members>>

\* The except branch releases the key.
AfterReject(r) == IF key[r] = NoKey THEN "answered" ELSE "failed"

\* The service raises before it changed anything.
RejectExpense(r) ==
  /\ InService(r) /\ ~Accepted(body[r])
  /\ reply' = [reply EXCEPT ![r] = Reply(400, 0, 0)]
  /\ pc' = [pc EXCEPT ![r] = AfterReject(r)]
  /\ UNCHANGED <<key, body, cache, members, ledgerVars>>

\* SET key <response>, whatever the key holds by now.
StoreResponse(r) ==
  /\ pc[r] = "created"
  /\ cache' = Stored(key[r], reply[r])
  /\ pc' = [pc EXCEPT ![r] = "answered"]
  /\ UNCHANGED <<key, body, reply, members, ledgerVars>>

\* DEL key, whatever the key holds by now.
Release(r) ==
  /\ pc[r] = "failed"
  /\ cache' = Deleted(key[r])
  /\ pc' = [pc EXCEPT ![r] = "answered"]
  /\ UNCHANGED <<key, body, reply, members, ledgerVars>>

\* What the cache holds after the command the handler of r is waiting for.
CommandEffect(r) ==
  CASE pc[r] = "arrived" /\ Acquires(key[r]) -> Locked(key[r])
    [] pc[r] = "created" -> Stored(key[r], reply[r])
    [] pc[r] = "failed"  -> Deleted(key[r])
    [] OTHER -> cache

\* The connection fails during a cache command, which the cache may or may
\* not have executed.  No handler catches that: the client gets a 500.
CacheFails(r) ==
  /\ CacheFaults
  /\ key[r] # NoKey
  /\ pc[r] \in {"arrived", "duplicate", "created", "failed"}
  /\ cache' \in {cache, CommandEffect(r)}
  /\ reply' = [reply EXCEPT ![r] = Reply(500, 0, 0)]
  /\ pc' = [pc EXCEPT ![r] = "answered"]
  /\ UNCHANGED <<key, body, members, ledgerVars>>

\* The key's 24 hours are over, or Redis evicts it (maxmemory allkeys-lru).
KeyLost(k) ==
  /\ KeyLoss
  /\ cache[k] # Free
  /\ cache' = Deleted(k)
  /\ UNCHANGED <<key, body, pc, reply, members, ledgerVars>>

\* POST /groups/{id}/members of an existing group and user.
AddMember(g, u) ==
  /\ u \notin Range(members[g])
  /\ members' = [members EXCEPT ![g] = Append(@, u)]
  /\ UNCHANGED <<key, body, pc, reply, cache, ledgerVars>>

\* Nothing is left to do for the requests of this run.
Idle ==
  /\ \A r \in Requests : pc[r] = "answered"
  /\ UNCHANGED vars

Handle(r) ==
  \/ CheckAndLock(r)  \/ ReadCached(r)
  \/ BookExpense(r)   \/ RejectExpense(r)
  \/ StoreResponse(r) \/ Release(r)

Next ==
  \/ \E r \in Requests : Handle(r) \/ CacheFails(r)
  \/ \E k \in Keys : KeyLost(k)
  \/ \E g \in Groups, u \in Users : AddMember(g, u)
  \/ Idle

Spec     == Init /\ [][Next]_vars
\* The event loop runs every ready handler and the cache answers: each
\* request's own steps are weakly fair.  Losses and joins are not.
FairSpec == Spec /\ \A r \in Requests : WF_vars(Handle(r))

-----------------------------------------------------------------------------
(* What is true of the intake. *)

Replies     == [status : Statuses, expense : Nat, journal : Nat]
CacheValues == [tag : {"free", "PROCESSING", "response"},
                expense : Nat, journal : Nat]
Bookings    == [body : Bodies, roster : Seq(Users)]
Expenses    == [body : Bodies, roster : Seq(Users),
                key : Keys \cup {NoKey}, journal : Nat]
Events      == [expense : Nat, body : Bodies, roster : Seq(Users)]

\* Type invariant of the ten variables; a request without a key is answered
\* in one step and never waits for the cache.
TypeOK ==
  /\ key  \in [Requests -> Keys \cup {NoKey}]
  /\ body \in [Requests -> Bodies]
  /\ pc   \in [Requests -> Steps]
  /\ reply \in [Requests -> Replies]
  /\ cache \in [Keys -> CacheValues]
  /\ members \in [Groups -> Seq(Users)]
  /\ expenses \in Seq(Expenses)
  /\ idempotencyKeys \in [Keys -> Nat]
  /\ journals \in Seq(Bookings)
  /\ outbox \in Seq(Events)
  /\ \A r \in Requests : pc[r] \notin {"arrived", "answered"} => key[r] # NoKey

\* An idempotency key never gets two expenses, whatever happens to the cache:
\* the store's own key map (store.create_expense) is the last line of defence.
OneExpensePerKey ==
  \A i, j \in DOMAIN expenses :
    expenses[i].key = expenses[j].key /\ expenses[i].key # NoKey => i = j

\* The ledger, which ExpenseService.create_expense posts to before it asks the
\* store, holds exactly one journal for each expense, with its splits: a retry
\* posts nothing a second time.
OneJournalPerExpense ==
  /\ \A j \in DOMAIN journals : \E i \in DOMAIN expenses :
       expenses[i].journal = j /\ Booking(expenses[i]) = journals[j]
  /\ \A i, j \in DOMAIN expenses :
       expenses[i].journal = expenses[j].journal => i = j

\* EXPENSE_CREATED is appended to the outbox once for each expense, and carries
\* the splits the expense was stored with.
OneEventPerExpense ==
  /\ \A i \in DOMAIN expenses : \E n \in DOMAIN outbox :
       outbox[n].expense = i /\ Booking(outbox[n]) = Booking(expenses[i])
  /\ \A m, n \in DOMAIN outbox :
       outbox[m].expense = outbox[n].expense => m = n

LinesOf(j) == ExpenseLines(journals[j].body.payer, BookedSplits(journals[j]),
                           ExpenseClearing(j))
WalletBalance(u) ==
  SumFunction([j \in DOMAIN journals |-> Balance(LinesOf(j), Wallet(u))])
StoreBalance(u) ==
  NetBalance([i \in DOMAIN expenses |->
                [payer  |-> expenses[i].body.payer,
                 splits |-> BookedSplits(expenses[i])]], u)

\* The two books agree: the balance of every user's wallet in the ledger is the
\* net balance GET /balances computes from the stored expenses of all groups.
LedgerMatchesStore == \A u \in Users : WalletBalance(u) = StoreBalance(u)

\* A 201 that is sent, or on its way, names an expense of the request's own key
\* and the journal that expense is booked under: the replay of a cached
\* response never contradicts the store.
ConfirmationsAreCurrent ==
  \A r \in Requests : reply[r].status = 201 =>
    /\ reply[r].expense \in DOMAIN expenses
    /\ expenses[reply[r].expense].key = key[r]
    /\ expenses[reply[r].expense].journal = reply[r].journal

InFlight(r, k) == key[r] = k /\ pc[r] \in {"locked", "created", "failed"}

\* Two handlers never work under the same key at the same time.
LockIsExclusive ==
  \A r, s \in Requests, k \in Keys : InFlight(r, k) /\ InFlight(s, k) => r = s

\* A response, once cached, is what every later request of the key gets: no
\* handler replaces or deletes it.
CachedResponseIsFinal ==
  [][\A k \in Keys : cache[k].tag = "response" => cache'[k] = cache[k]]_vars

\* A locked key does not stay locked: the client can retry or gets the response.
LocksAreTransient ==
  \A k \in Keys : cache[k] = Processing ~> cache[k] # Processing

\* The intake implements the contract of BookingContract, also when keys are
\* lost and cache commands fail.
AnswerOf(r) == IF pc[r] # "answered" THEN 0
               ELSE IF reply[r].status = 201 THEN reply[r].expense ELSE -1
BookedView   == [i \in DOMAIN expenses |->
                   [key |-> expenses[i].key, body |-> expenses[i].body]]
AnsweredView == [r \in Requests |-> AnswerOf(r)]
Contract == INSTANCE BookingContract
            WITH bookings <- BookedView, answer <- AnsweredView
HonoursContract == Contract!Spec
=============================================================================
