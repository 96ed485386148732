---------------------------- MODULE BalanceCache ---------------------------
(***************************************************************************)
(* GET /groups/{group_id}/balances of api/routes/groups.py around the one  *)
(* cache entry "group:{id}:balances", with what else touches it: POST      *)
(* expenses, which leaves it alone, the settlement worker, which deletes   *)
(* it, its expiry and Redis's eviction.                                    *)
(*                                                                         *)
(* The cache of cache/redis_client.py is Redis or a dictionary, for as     *)
(* long as the process runs.  With the dictionary a handler is never       *)
(* suspended and is one step; with Redis each command is.                  *)
(*                                                                         *)
(* What a response or the entry shows is the number of expenses it was     *)
(* computed from: expenses are only added.  Time is relative: the age of   *)
(* each expense, what is left of the entry's life.                         *)
(***************************************************************************)
EXTENDS Integers, Sequences

CONSTANTS
  Readers,      \* clients, each sending one GET after the other
  TTL,          \* lifetime of the entry, 60 seconds in the code
  Latency,      \* how long Redis may take to execute a SET
  MaxExpenses   \* bound on the expenses

ASSUME TimesAssumption == TTL \in Nat /\ Latency \in Nat /\ MaxExpenses \in Nat

VARIABLES
  remote,     \* is the cache Redis?  Chosen at startup
  ages,       \* the age of each stored expense, in order, up to Old
  entry,      \* the cache entry: [shows, left]
  pc,         \* reader -> "idle", "missed" or "computed"
  found,      \* reader -> what the handler's response will show
  waited,     \* reader -> how long its SET has been under way
  answer,     \* reader -> what its last response showed
  hand,       \* what the worker settles, 0 when it is idle
  announced   \* what the last announced settlement settled

readerVars == <<pc, found, waited, answer>>
workerVars == <<hand, announced>>
vars == <<remote, ages, entry, readerVars, workerVars>>

Missing == [shows |-> 0, left |-> -1]
Old     == TTL + Latency + 1

\* SET ex=60.  Mutant: a unit longer.
FilledLonger(n) == [shows |-> n, left |-> TTL + 1]
Filled(n)       == [shows |-> n, left |-> TTL]

\* Is a task suspended while a command runs?  The dictionary's lock is never
\* contended.  Mutant: it suspends its caller all the same.
SuspendsAlways == TRUE
Suspends       == remote

Init ==
  /\ remote \in BOOLEAN
  /\ ages = << >>
  /\ entry = Missing
  /\ pc = [r \in Readers |-> "idle"]
  /\ found  = [r \in Readers |-> 0]
  /\ waited = [r \in Readers |-> 0]
  /\ answer = [r \in Readers |-> 0]
  /\ hand = 0 /\ announced = 0

\* POST expenses does not touch the entry.
AddExpense ==
  /\ Len(ages) < MaxExpenses
  /\ ages' = Append(ages, 0)
  /\ UNCHANGED <<remote, entry, readerVars, workerVars>>

-----------------------------------------------------------------------------
(* The handler. *)

\* The entry is found and returned as it is.
Hit(r) ==
  /\ pc[r] = "idle" /\ entry # Missing
  /\ answer' = [answer EXCEPT ![r] = entry.shows]
  /\ UNCHANGED <<remote, ages, entry, pc, found, waited, workerVars>>

\* What an uncached response shows.
Balances == Len(ages)

\* Without Redis the handler reads the store and fills the cache at once.
ComputeAndFill(r) ==
  /\ ~remote /\ pc[r] = "idle" /\ entry = Missing
  /\ entry' = Filled(Balances)
  /\ answer' = [answer EXCEPT ![r] = Balances]
  /\ UNCHANGED <<remote, ages, pc, found, waited, workerVars>>

Miss(r) ==
  /\ Suspends /\ pc[r] = "idle" /\ entry = Missing
  /\ pc' = [pc EXCEPT ![r] = "missed"]
  /\ UNCHANGED <<remote, ages, entry, found, waited, answer, workerVars>>

Compute(r) ==
  /\ pc[r] = "missed"
  /\ pc' = [pc EXCEPT ![r] = "computed"]
  /\ found' = [found EXCEPT ![r] = Balances]
  /\ UNCHANGED <<remote, ages, entry, waited, answer, workerVars>>

HandlerEnds(r) ==
  /\ pc' = [pc EXCEPT ![r] = "idle"]
  /\ found' = [found EXCEPT ![r] = 0]
  /\ waited' = [waited EXCEPT ![r] = 0]

\* SET, whatever the entry is by now.
Fill(r) ==
  /\ pc[r] = "computed"
  /\ HandlerEnds(r)
  /\ entry' = Filled(found[r])
  /\ answer' = [answer EXCEPT ![r] = found[r]]
  /\ UNCHANGED <<remote, ages, workerVars>>

\* The connection fails before or after the SET took effect: a 500.
FillFails(r) ==
  /\ pc[r] = "computed"
  /\ HandlerEnds(r)
  /\ entry' \in {entry, Filled(found[r])}
  /\ UNCHANGED <<remote, ages, answer, workerVars>>

-----------------------------------------------------------------------------
(* The worker, see SettlementPipeline. *)

\* What the deletion leaves.  Mutant: only the debts entry is deleted.
NotDeleted == entry
Deleted    == Missing

\* _handle_settlement without Redis; it returns early without expenses.
SettleAtOnce ==
  /\ ~remote /\ ages # << >>
  /\ entry' = Deleted
  /\ announced' = Len(ages)
  /\ UNCHANGED <<remote, ages, readerVars, hand>>

Settle ==
  /\ Suspends /\ hand = 0 /\ ages # << >>
  /\ hand' = Len(ages)
  /\ UNCHANGED <<remote, ages, entry, readerVars, announced>>

Invalidate ==
  /\ hand # 0
  /\ entry' = Deleted
  /\ announced' = hand
  /\ hand' = 0
  /\ UNCHANGED <<remote, ages, readerVars>>

InvalidateFails ==
  /\ hand # 0
  /\ entry' \in {entry, Deleted}
  /\ hand' = 0
  /\ UNCHANGED <<remote, ages, readerVars, announced>>

-----------------------------------------------------------------------------
(* Time and Redis. *)

\* An entry is served up to and including the moment it expires.  Mutant: the
\* SET had no expiry.
NeverAged(e) == e
Aged(e)      == IF e.left <= 0 THEN Missing ELSE [e EXCEPT !.left = @ - 1]

\* One unit of time.  Without a bound on the time of a SET nothing could be
\* said of Redis; redis.asyncio has none by default.
Tick ==
  /\ \A r \in Readers : pc[r] = "computed" => waited[r] < Latency
  /\ ages' = [i \in DOMAIN ages |-> IF ages[i] < Old THEN ages[i] + 1 ELSE Old]
  /\ entry' = Aged(entry)
  /\ waited' = [r \in Readers |-> IF pc[r] = "computed" THEN waited[r] + 1
                                                        ELSE waited[r]]
  /\ UNCHANGED <<remote, pc, found, answer, workerVars>>

\* Redis needs the memory (maxmemory-policy allkeys-lru).
Evict ==
  /\ remote /\ entry # Missing
  /\ entry' = Missing
  /\ UNCHANGED <<remote, ages, readerVars, workerVars>>

Handle(r) == Compute(r) \/ Fill(r)

Next ==
  \/ AddExpense \/ Tick \/ Evict
  \/ SettleAtOnce \/ Settle \/ Invalidate \/ InvalidateFails
  \/ \E r \in Readers :
       Hit(r) \/ Miss(r) \/ ComputeAndFill(r) \/ Handle(r) \/ FillFails(r)

Spec == Init /\ [][Next]_vars
\* Time passes, and a handler whose command returned goes on.  Nobody has to
\* read, to post or to settle.
FairSpec == Spec /\ WF_vars(Tick) /\ \A r \in Readers : WF_vars(Handle(r))

-----------------------------------------------------------------------------
(* What is true of the cached balances. *)

Expenses == Seq(0 .. Old)

\* Type invariant; only with Redis is anybody ever in the middle of something.
TypeOK ==
  /\ remote \in BOOLEAN
  /\ ages \in Expenses
  /\ entry \in [shows : 0 .. Len(ages), left : -1 .. TTL]
  /\ pc \in [Readers -> {"idle", "missed", "computed"}]
  /\ found \in [Readers -> 0 .. Len(ages)]
  /\ waited \in [Readers -> 0 .. Latency]
  /\ answer \in [Readers -> 0 .. Len(ages)]
  /\ hand \in 0 .. Len(ages) /\ announced \in 0 .. Len(ages)
  /\ ~remote => hand = 0 /\ \A r \in Readers : pc[r] = "idle"

\* How long an expense may be missing from cached balances.
Bound == IF remote THEN TTL + Latency ELSE TTL

\* "Results are cached in Redis for 60 seconds" (get_balances): no cached
\* response misses an expense that is older than the entry may get, plus, with
\* Redis, the time the handler's SET took to arrive.
StaleForAMinute ==
  entry # Missing =>
    \A i \in entry.shows + 1 .. Len(ages) : ages[i] <= Bound

\* Without Redis no response shows less than one that was given before, to
\* anybody.  With Redis a slow SET can replace a newer entry.
ReadsNeverGoBack ==
  [][~remote => \A r, s \in Readers :
       answer'[r] = answer[r] \/ answer'[r] >= answer[s]]_vars

\* "5. Invalidates the group's cached balance" (worker.py): without Redis, once
\* a settlement is announced, balances show every expense it has settled.  With
\* Redis a handler that read the store before can still fill the entry.
SettledIsShown == ~remote /\ entry # Missing => entry.shows >= announced

\* Every expense shows up in the cached balances and stays there, though no
\* POST ever deletes the entry: an entry is not refreshed by being read.
EveryExpenseShows ==
  \A n \in 1 .. MaxExpenses :
    Len(ages) >= n ~> [](entry # Missing => entry.shows >= n)
=============================================================================
