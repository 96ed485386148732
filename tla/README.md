# Verification of the expense settlement engine

TLA+ models of the engine in `src/`, TLC runs that check them on small instances,
and TLAPS proofs of what matters most for every instance. Line numbers are those of
the Python sources.

## 1. The system

| Component | State it keeps | Operations | Source |
|---|---|---|---|
| Expense intake | idempotency keys in the cache | POST expenses: gate, service call, release, store the response | `api/routes/expenses.py`, `cache/idempotency.py` |
| Expense service | none; a ledger of its own | validate, split, post the journal, store the expense, append the event; net balances; simplified debts | `services/expense_service.py` |
| Store | users, groups with members, expenses, settlements, key → expense | create and look up, `save_settlements` | `database/store.py` |
| Ledger engine | entries, account heads, journals | post a journal, an expense, a settlement; verify the chain; account balance; audit | `core/ledger_engine.py` |
| Debt simplifier | none | net balances; greedy matching of creditors and debtors | `core/debt_simplifier.py` |
| Optimistic locking | value and version of an entity | read, compare-and-swap, apply a delta; retry with backoff | `core/occ.py` |
| Outbox | events, pending events | append, relay | `messaging/outbox.py` |
| Queue | bounded queue, dead letters | publish, consume, ack, nack; a Redis Streams variant nothing wires in | `messaging/queue.py` |
| Settlement worker | a ledger of its own, the request in hand | consume, settle, delete cached balances, announce | `worker/worker.py` |
| Cached balances | one entry per group, 60 s | GET balances fills it, the worker deletes it | `api/routes/groups.py` |
| Directory | users, groups, members | create, join, list | `services/group_service.py`, `database/store.py` |
| Cache | keys with expiry | SET (NX, EX), GET, DEL; Redis or in-memory | `cache/redis_client.py` |
| Application | lifespan | start relay and worker, stop both | `api/main.py` |
| Deployment | one store, ledger and outbox per process | several API processes behind one Redis, each may stop and start | `docker-compose.yml` |

How they interact: a handler calls the expense service under the lock of its
idempotency key; the service writes ledger, store and outbox one after the other; the
relay task moves events from the outbox to the queue; the worker takes them from the
queue, reads the store, writes its own ledger, the store, the cache and again the
outbox. GET balances reads the store and fills a cache entry that the worker deletes.
All of it is one asyncio process, so that tasks are interleaved only where they wait;
`docker-compose.yml` runs four of these processes, which share Redis and nothing else.
What makes it hard:

* the cache may be Redis: each command is a suspension point, keys expire or are
  evicted (`allkeys-lru`), a connection fails before or after the command took effect;
* ledger, store and outbox are not written in a transaction;
* the queue is bounded, the relay waits at it with an event in hand, and the worker
  feeds the outbox it is fed from;
* the worker's loop drops a request whose handler failed halfway;
* the shutdown cancels both tasks wherever they wait;
* the Redis queue acks and re-adds in separate commands, and its consumers stop between them;
* cached balances are read and written around suspension points, and expenses do not
  invalidate them;
* a process that stops takes its store with it and leaves its keys in Redis;
* remainders, truncation and zero or negative shares in the money functions;
* a chain of hashes in posting order that is audited in wall-clock order.

`PROJECT.json` lists these as hazards, each at its line with the properties that cover it.

## 2. Modules

| Module | Models | Notes |
|---|---|---|
| `Bookkeeping` | splits, journal lines, net balances | pure operators, shared by the others |
| `DebtSimplifier` | the loop of `simplify` | one step per turn |
| `MoneyPath` | one expense from split to plan | extends both of the above |
| `ExpenseIntake` | POST expenses in one process | the core |
| `BookingContract` | what POST expenses promises | abstract specification of `ExpenseIntake` and `Deployment` |
| `Directory` | users, groups and members in several processes | part of `Deployment` |
| `Deployment` | POST expenses in several processes that stop and start | extends `Directory` |
| `BalanceCache` | GET balances and its cache entry, with time | |
| `LedgerEngine` | posting, chains, audit | uses `Bookkeeping` for the lines |
| `SettlementPipeline` | outbox, relay, queue, worker, shutdown | composes the event path |
| `MessageQueue` | both queues with retries and dead letters | |
| `RetryQueue` | what a queue with retries promises | abstract specification of `MessageQueue` |
| `OptimisticLocking` | `core/occ.py` | |
| `AtomicUpdates` | what optimistic locking promises | abstract specification of `OptimisticLocking` |
| `MC...` | instances for TLC | constants only; modules whose constants a cfg can write have none |
| `...Proofs` | theorems | see section 4 |

### Bookkeeping and MoneyPath

A body is a validated payload, a share `[user, amount]`, a ledger line
`[account, side, amount]`. `SplitEqual`, `SplitPercentage` and `SplitAccepted` are the
three split functions and their checks, `ExpenseLines` and `SettlementLines` what the
ledger is asked to post, `NetBalance` what the simplifier reads off the stored expenses.
`MoneyPath` runs one accepted expense through all of them and then through
`DebtSimplifier`, turn by turn: `PlanSettlesLedger` compares what the plan makes everybody
pay with the wallets of the ledger, two computations that share nothing but the splits.
It also starts from vectors of balances of any sum, as the benchmark and the tests do.

Percentages are thousandths of a percent, the tolerance of 0.01 included. The code
computes a share as `int(total * percentage / 100)` and adds percentages up, both with
floats. Their error changes two things, which depend on the very numbers and are therefore
constants: `ShortProducts` are the totals and percentages whose exact share is a whole number
of cents and whose float share is a cent short (10000 cents at 0.57% are 56), and
`PassingLists` the percentages that miss a hundred by exactly the tolerance and pass
(100.01 does in some orders of its parts and not in others). The run `money` has the values
that Python computes for its totals and percentages; the theorems hold for any. The last
share absorbs what is lost, so that `SharesAddUp` does not depend on floats;
`PercentageSharesAreClose` says a share is the exact one or nearer zero by a cent at most.

### ExpenseIntake

Each request is a process with a program counter:

| Step | Code |
|---|---|
| `CheckAndLock` | SET NX in `check_and_lock` (66) |
| `ReadCached` | the GET after a failed SET NX (73) and the route's answer (72-80) |
| `BookExpense`, `RejectExpense` | the whole of `ExpenseService.create_expense` (100-170) |
| `StoreResponse` | `store_response` (route 107-109) |
| `Release` | `release` (route 101-102) |
| `CacheFails` | any of these commands raises, having taken effect or not: the client gets a 500 |
| `KeyLost` | expiry or eviction |
| `AddMember` | POST members |

The service is one step because nothing in it waits: the locks of store and outbox are
never contended, the pending queue is unbounded, the ledger is synchronous. A list of
splits is represented by the body and the roster it is computed from, so that a retry
after somebody joined books other splits, as it does in the code. With the in-memory
cache a handler runs without a break, which is one of the interleavings.

`BookingContract` has no cache, store, ledger or outbox: a key books at most once, a
confirmation names a booking of the request's key. `HonoursContract` is the refinement;
bookings are the store's expenses, an answer is given when the handler has ended.

### Directory and Deployment

A process has its own users, groups and members; ids are random, so that none is issued
twice. `DirectoryStep` is POST users, POST groups and POST members, each one step because
the store does not wait. `StoreLost` is the end of a process: what it had is gone.

`Deployment` routes each request to any process. The steps of its handlers are those of
`ExpenseIntake`, with the store of the process that has the request and the keys of all.
What a service accepts is reduced to what depends on the process: is the group there, is
the payer a member. `LockFails` and `CacheFails` are the cache commands that raise, having
been executed or not. `Restart` cuts off the requests in hand, whose clients see the
connection close; `KeyLost` is expiry and eviction. A locked key has the request that locked
it (`by`), which Redis does not know: with it `OnlyTheAbortedLeaveLocks` can say whose lock a
key has kept, and that no request leaves one which was confirmed or refused. `bookings` is the history of all
expenses, also of those a stopped process had. The contract is that of `ExpenseIntake`,
with another refinement mapping. It holds because of something no line of the code
says: a group exists in one process only and ends with it, so that every other process
answers 400 and the one that has the group has its keys as well. Which of the requests
finds the group is luck, and the contract does not promise otherwise.

### BalanceCache

One group's entry. What a response shows is the number of expenses it was computed from;
`ages` says how old each of them is, `entry.left` how long the entry lives. With the
in-memory cache (`remote = FALSE`) a handler is one step; with Redis it is suspended at
GET and at SET, and the SET takes up to `Latency`. `Tick` is a unit of time for all of
them. The worker is what of `SettlementPipeline` concerns the entry: it reads the store,
deletes the entry, announces. The properties say how long an expense may be missing,
and, for the in-memory cache, that responses never go back and that a settlement shows
once it is announced. With Redis the last two are false: a handler that read the store
before the deletion, or before another handler, may write after it.

### LedgerEngine

`Post` builds all entries, moves the heads and only then asserts the balance, in the
order of `post_journal` (146-181). A hash is a number that is never used twice, counted
also for entries that are thrown away: it stands for SHA-256 over a fresh entry id.
`ExpectedPrev` is the audit: a stable sort by `created_at`, entry by entry. The clock is
the time of day and may be set back at any call. `ChainHolds` says exactly when the
audit of an untouched ledger passes: if and only if the clock did not go back between two
entries of an account, and no entry followed a rejected journal on its account, whose hashes
the heads keep. For that, `rejected` records the accounts of rejected journals, which the
code does not.

### DebtSimplifier

A heap is a function from users to amounts, 0 meaning absent: nobody is on a heap twice.
`MatchPair` is one turn of the loop (123-148). Its branch for a settlement of less than
a cent is not modelled, since it is never taken (`OnlyDebtorsPay`).

### SettlementPipeline

Events are numbers, their places in the outbox; `pending`, `held`, `queue`, `hand` and
`gone` say where each of them is. `Relay` is a turn of `relay_all_pending`, which waits
with one event in `held` when the queue is full. The worker waits at the queue, at two
cache deletions and in its pause after an error; what lies between is one step. A
group's plan is known by the balances it settles, and the balance of one user stands for
those of the group. `StopWorker` and `StopRelay` are the shutdown.

### MessageQueue

`redis` chooses the queue. `log` has every copy of a message that was put or added and
`cursor` how many were delivered: what is behind the cursor is the content of the
`asyncio.Queue`, or the part of the stream its group has not read. `hand` and `step` say
which copies a consumer has and what it does with the first. `Put`, `Get`, `Handled` and
`Nack` are `InMemoryQueue`; `Publish`, `ConsumeBatch`, `StreamHandled`, `StreamNack` and
`Ack` are `RedisStreamQueue`, whose `nack` is two commands; each command may raise, having
been executed or not, and a consumer may stop. The consumers are not part of the program,
whose worker never calls `nack`: they do what the methods ask for.

`RetryQueue` says what either promises: one consumer at a time has a message, it is
attempted a limited number of times, and once it is handled or given up it stays so.
`KeepsPromise` is the refinement. The limit is part of the mapping: the two queues count
differently. A message whose consumer stopped is `taken` for ever, which the promise allows;
`EveryMessageSettled` says that this, and a worker that waits for itself in `nack`, are
the only ways not to be settled.

### OptimisticLocking

Writers read value and version, are suspended, and commit with `compare_and_swap` or
`apply_delta`. A sleeping writer may wake at any time. `UpdatesAreAtomic` says the writers implement
`AtomicUpdates`.

## 3. Runs

| Run | Instance | Shows |
|---|---|---|
| `money` | up to 3 members, totals 1 to 10000 cents, exact shares around zero, 18 percentages around the rounding, floats and the tolerance; all vectors of 5 balances in -3..3 | shares add up, percentage ones are as close as rounding, floats and tolerance allow; the plan pays what the ledger says, settles everyone within N-1 payments, and no pair pays twice |
| `intake` | 3 requests, 2 keys, 4 bodies, cache commands fail, no key is lost | store, ledger, outbox and responses agree; one handler per key; cached responses are final |
| `intake_lost` | 3 requests, 1 key, a body that is refused until Cem joins, keys are lost, fair | `BookingContract` is implemented; no key stays locked |
| `intake_key_lost` | 2 requests, 1 key | finding |
| `deployment` | 2 processes, 2 requests, 1 key, 2 users, 1 group, restarts, lost keys and commands that fail, fair | `BookingContract` is implemented by both together; stores remember bookings; only aborted handlers leave locks; members are known; every request is answered |
| `balances` | 2 readers, 2 expenses, lifetime 2, latency 1, both caches, fair | how stale balances get; responses do not go back, settlements show (in memory); every expense shows up and stays |
| `ledger` | 4 calls of 7 kinds, one of them unbalanced, at times 0..2 in any order | when the audit passes; clearing accounts close |
| `pipeline` | 2 groups, 3 posts, queue for 1, failing deletions, shutdown at any point, fair | events keep their place and order; completions announce what was settled; every event is handled unless the process stops |
| `pipeline_balances` | 2 posts | finding |
| `queues` | 2 messages, 2 consumers, 2 retries, batches of 2, queue for 1, both queues, fair | no message is forgotten; `RetryQueue` is implemented; every message is settled, but for orphans and the worker that waits for itself |
| `occ` | 4 writers, 2 retries, both ways to commit, fair | atomic updates; only the beaten give up and enough commit |
| `simplify_minimal` | 5 balances in -4..4 | finding |

**Bounds.** Three requests are a holder, a duplicate and a retry; with two keys and
requests without a key they include requests that do not interfere. Cem, who may join
while requests run, makes a body valid that was not and changes equal splits. Two
processes are the one that has the group and one that has not, and after a restart
either may be either; one group is enough because processes share none. With two
readers one SET can overtake another; a lifetime of two is longer than the latency of
one, so that an entry can be filled late and still live; two expenses are one that is
shown and one that is not. A queue for one event is full as soon as the relay is one
event ahead of the worker; three posts and the completion event of one of them fill
queue, relay, outbox and the worker's hand at once. Two groups separate what is settled
for each. Expenses of +1 and -1 include a group whose balances cancel and for which the
plan is empty. Two messages are one that is sent back and one that overtakes it; with
two retries it is sent back once or twice, as the queue counts, and then given up. Five parties are the least for which the
greedy plan is not minimal. Four ledger calls let three journals meet on one wallet,
with a settlement or a rejected journal between them. Four writers with two retries are
one more than can always succeed.

The bounds are `MaxPosts`, `MaxCalls`, `MaxTime`, `MaxExpenses`, `Events`, `TTL`,
`Latency`, the parameters of the code (`MaxRetries`, `Batch`, `Capacity`) and the sets in
the cfgs and the `MC` modules; no run has a state constraint. `Latency` is an assumption
about the environment: `redis.asyncio` has no timeout by default, and without one a SET
may restore balances of any age. The model's single ledger takes the calls that in the
program go to two instances, the service's and the worker's.

**Fairness.** `intake_lost` and `deployment` have weak fairness of each handler's own
steps: the event loop runs every task that is ready, and a cache command returns.
`balances` adds that time passes. `pipeline` has weak fairness of the relay task and of
the worker task. `queues` has weak fairness of each consumer, whose commands succeed
now and then, since a consumer is a loop over `consume_batch`. `occ` has weak fairness of
each writer: `asyncio.sleep` ends. Clients, failures, lost keys, evictions, restarts,
shutdowns, posts and the relay of new events in `queues` are never fair.

**Deadlock** is checked in every run. The end of a run's work is an explicit stuttering
step (`Idle`, `Finished`, `Returned`).

## 4. Proofs

TLAPS proves the following for all values of the constants that satisfy the named
assumptions, so for any number of requests, users, writers or retries.

* **`BookkeepingProofs`** has only lemmas, about the money functions for every input, which
  four of the modules below use. All are about sums over finite sets, which the library
  defines by a recursive function on subsets. `TableDef` shows that this function exists;
  it rests on induction, stated for sets instead of predicates (`Induction`,
  `SetInduction`) and derived from least elements (`WFMin`). From there: sums of parts and
  of sums (`SumUnion`, `SumAdd`, `SumByParts`); an expense's journal balances and empties its
  clearing account (`ExpenseJournal`) and moves the wallets by the net balances
  (`ExpenseBalances`), which cancel (`NetsCancel`); equal and percentage shares add up, the
  latter within the bounds of rounding and floats (`EqualShares`, `PercentageShareBounds`,
  `PercentageShares`).
* **`ExpenseIntakeProofs`.** `TypeCorrect`; `KeysBookOnce`: a key books once, whatever
  happens to the cache. The invariant is `KeyMap`: the store's map points to the
  expense of the key and every expense with a key is pointed to. Under
  `KeyLoss = FALSE`: `NothingJournaledTwice`, `NothingEmittedTwice`, `OneHandlerPerKey`,
  `ResponsesAreFinal`. None of these is inductive by itself. `LockInv` relates the
  cache entry of a key to the handlers under it (free: nobody, and no booking;
  processing: one at most; a response: nobody in flight), and `Lockstep` says that expense,
  journal and event number *n* are of one booking. Without loss a handler can book only
  under a lock it got while no booking existed. Cache failures are allowed throughout.
  `IntakeHonoursContract` is the refinement of `BookingContract`, with every fault.
  `AnswerInv` says a reply of 201 names a booking of the request's key before it is sent.
  `ConfirmationsStayCurrent` (without key loss) adds that journal ids are not overwritten.
  `BooksAgree` (without key loss): the wallets of the ledger are the net balances of the stored
  expenses. By `Lockstep` both have the same bookings, and `BookedInv` says each of them has
  shares the ledger accepted, for which `ExpenseBalances` holds.
* **`MoneyPathProofs`.** Of the simplifier: `TypeCorrect`, `OnlyDebtorsPay`,
  `PairsSettleOnce`, `TurnsRetire`, `AtMostNMinusOnePayments` and `EveryoneSettled`. The
  fifth counts: payments so far plus the users on the heaps are at most the parties, and the
  last turn empties both sides; the proof is about cardinalities of finite sets. The last
  one needs `FlowInv`: a user's net balance is what the heaps still hold of it plus what the
  plan has moved, and both heaps hold the same, so that they become empty together. Of
  the path of an expense: `SharesSumToTotal`, `PercentagesRoundTowardsZero`,
  `PlanMatchesLedger` and `ExpensePlansSettle`, for expenses that pass validation. `PathInv`
  says that shares, lines and balances are those of the expense. Then the wallets of the
  journal are the net balances, which the plan moves, and the balances cancel.
* **`ConcurrentBalanceProofs`.** Two components that share no state. Of `OptimisticLocking`
  (whose `LockInit`, `LockNext` and so on have a prefix for that): `LockTypeCorrect`,
  `LockingIsAtomic` (with `SeenInv`: a writer whose version is current read the current
  value), `ConflictsPayOff`, `GivingUpIsJustified` and `FewWritersSucceed` (with
  `ConflictInv`: the version counts the commits, and the version a writer read is at least the
  number of its conflicts). Of `BalanceCache`: `TypeCorrect`, `StaleAtMostAMinute`,
  `SettlementsShow` and `ReadsAreMonotonic`, for every lifetime and latency. The bound on
  staleness needs the entry's remaining life (`EntryInv`: what an entry misses is at most as
  old as the entry, plus the delay of its SET) and the time a SET has been under way
  (`FoundInv`: what a handler has not found is at most as old as its SET). Without Redis,
  what anybody was shown is at most what the entry shows, or what a new one would.
* **`DeploymentProofs`.** `TypeCorrect`, `MembersKnown`, `BookingsRemembered`,
  `LocksAreReleased` and `ContractKept`, the refinement for any number of processes, with
  every fault of the model. `LocksAreReleased` states `OnlyTheAbortedLeaveLocks`. That
  a store remembers the bookings of its groups is not inductive: a group might turn up
  in a process that never heard of it. `NewIds` says that what is not issued has no
  members and that groups and users have been issued, `BookedInv` that bookings are for
  issued groups, that `kept` names bookings of its keys and that no key is booked twice;
  with these, `CreateGroup` cannot bring back a group that has bookings. `AnswersInv` adds
  that a reply or a cached response of 201 names a booking of the request's key.
* **`LedgerEngineProofs`.** `TypeCorrect` and `AuditIsTheClock`: the audit of an untouched
  ledger passes if and only if the clock did not go back between two entries of an
  account and nothing followed a rejected journal on its account. `Linked` says that each entry
  links to the entry before it on its account and each head is its last entry, also within a
  journal that touches an account several times, unless the link is `Lost`: a hash that was
  computed and thrown away. `Blamed` says that only a rejected journal makes a head or a link
  lost, `Spoiled` that each of them has, and `Hashed` that no two entries have a hash in
  common; so links are lost if and only if an entry followed a rejected journal
  (`LostLinksAre`), and a lost link is no entry's hash, which the audit finds. From there
  the argument is about the sort: in the order of the clock the last
  entry the audit expects is the linked one; conversely, if the audit passes no link
  goes back in time, and the first entry older than some entry before it would be
  linked to another one. Least elements replace induction (`Least`, from `WFMin`).
  `ClearingCloses`: every clearing account has balance 0 between two calls. `ClearInv` adds
  that only the journal a clearing account is named after touches it.
* **`SettlementPipelineProofs`.** `TypeCorrect`, `InOrder`, `Bounded` and `AnnouncementsAreTrue`. The invariant `Places` types the
  five places and bounds queue, relay and hand; given that, every action moves an event
  along the line or appends one at its end, which is a fact about concatenations.
  `SettledInv` says what the announcement is about: while nothing failed and nobody shut down,
  what was settled for a group is what was announced and what the request in hand has settled.
* **`MessageQueueProofs`.** `TypeCorrect`, `NothingIsForgotten` and `PromiseKept`, for both queues. `Types`
  includes that only an in-memory consumer waits for room and only when there is none.
  `RetryInv` says the retries in the copies stay within the limit and that a message has
  one live copy; `Accounts` says where the last copy of each message is. `PromiseKept` is the refinement
  of `RetryQueue`, for any number of messages, consumers and retries. `WorkInv` says that no
  two consumers deal with the same copy and none with a copy twice, and that a copy which
  waits or is to be dealt with is the last one of a message that is not settled and has
  been attempted as often as the copy says. Then each action of a queue is a stutter,
  a step of the promise for the message of one copy, or, when a batch is read, the step that
  takes several messages at once.

Assumptions are those named in the modules; TLC evaluates them in every run. Those about
data say what the code has validated when the modelled part begins: an expense passed the
schema and the checks of its split, and payer and sharers are users
(`ExpensesAssumption` of `MoneyPath`, `schemas.py:59-85`); a body has whole cents
(`BodiesAssumption`, its splits are still to be checked); a float share is short only
where the exact one is a whole number of cents and not zero (`FloatsAssumption`); a call of the ledger names users
and whole cents, and a journal of other origin touches wallets only
(`CallsAssumption`). None of them says that anything balances or adds up.

Some theorems state what no run checks: `KeysBookOnce`, `ConflictsPayOff`,
`FewWritersSucceed`, `OnlyDebtorsPay`, `TurnsRetire` and `Bounded` are strengthenings or
consequences of properties that are checked, of interest on their own.

Every invariant, action property and refinement that a run shows to hold is proved. Only
model-checked is what is out of the prover's reach, liveness under fairness:
`LocksAreTransient`, `EveryRequestAnswered`, `EveryExpenseShows`, `EveryEventHandled`,
`EveryMessageSettled` and `EnoughCommit`. The runs of section 5 are counterexamples.

## 5. Disagreements found

Three of them are runs that expect a violation, with the quoted promise in `PROJECT.json`:

1. `intake_key_lost`: a retry after the key was lost journals and emits a second time.
2. `simplify_minimal`: the plan is not always minimal.
3. `pipeline_balances`: executed settlements do not count in balances, so that the next
   request settles the same debts again.

Others show in the definitions themselves; the properties are stated so that they hold
in spite of them:

* `Aborted` in `OnlyTheAbortedLeaveLocks`: a cache command that fails, or a process that
  stops, leaves the key locked for up to 24 hours, and retries get a 409
  (`expenses.py:71,77,102,109`).
* `ShortProducts`: a percentage share may lose a cent to a float, although "All monetary math
  is done in integer cents. No floating-point" (`expense_service.py:12,65`).
* `HonoursContract` of `Deployment`: a response of 201 may name an expense that was lost
  with its process (`idempotency.py:73`), and a request finds its group only in the process
  that has it. E-mails are unique per process (`DirectoryTypeOK`; `group_service.py`).
* `ReadsNeverGoBack`, `SettledIsShown`: with Redis a late SET may restore older balances,
  also after the deletion by the worker (`groups.py:130`).
* `PublishFails`: an event whose publish raises is never relayed again, although the
  outbox speaks of at-least-once delivery (`outbox.py:7,65`).
* `Limit`: a message of the Redis queue is attempted once more than one of the in-memory
  queue (`queue.py:58,114`).
* `Orphaned`: consumers read new messages only, so that what a stopped consumer had is
  never delivered again (`queue.py:95`).
* `Stuck`: `nack` waits for room in a full queue, which only its caller could make
  (`queue.py:62`).
* `InClockOrder` in `ChainHolds`: the audit sorts by wall-clock time, so that a clock set
  back breaks the chain of an untouched ledger (`ledger_engine.py:256`).
* `NothingAfterRejected` in `ChainHolds`: `post_journal` moves the heads before it rejects an
  unbalanced journal (`ledger_engine.py:170,178`), and the chain of each of its accounts is
  broken from the next entry on. No caller in the program posts such a journal.
* `SplitEqual`: the remainder is spread over the first users; the docstring gives it to
  the first (`expense_service.py:32`).
* `Accepted`: participants other than the payer need not be members
  (`expense_service.py:6`).
* `failed = 0` in `AnnouncedIsSettled`: a settlement whose cache deletion failed is saved
  and never announced (`worker.py:159`).
* `phase` in `EveryEventHandled`: the shutdown drains nothing (`main.py:13,76`).
* The jitter of the backoff is added after the cap (`occ.py:62-64`); pauses are
  arbitrary in the model.

## 6. Not modelled

* Request validation, schemas, formatting of responses, logging, timing, checksums: no state.
* `scripts/` and `tests/`: clients of the engine, read for how it is used.
* The ledger and health routes: read-only; what the audit computes is in `LedgerEngine`.
* Tampering with ledger entries: hashes are injective and entries frozen in the model.
* Durability: store, ledgers and outbox live in memory and end with the process, which
  `Deployment` models; nothing is recovered.
* `mark_settlement_executed`, `get_cached_response`, `exists`, `expire`, `ttl` and `keys`
  of the cache: no callers.

## 7. Plan

Done, in this order: `Bookkeeping`, `ExpenseIntake` with its contract and proofs,
`DebtSimplifier` with proofs, `LedgerEngine`, `SettlementPipeline`, `OptimisticLocking`
with its contract and proofs; then `BalanceCache`, `MessageQueue` with `RetryQueue`,
`Directory`, `Deployment`, `MoneyPath`, and proofs of `BalanceCache`, `Deployment`,
`LedgerEngine`, `SettlementPipeline` and `MessageQueue`.

`BookkeepingProofs` and with it the theorems about amounts, the type and the announcements
of the pipeline, and the refinement of `RetryQueue` came last.

What is left: one composition of intake, pipeline and both ledgers, which would show a
request, its expense, its event and its settlement in one behaviour. Its parts meet only in
the outbox and in the store, and each is checked with all the other may do to it.
