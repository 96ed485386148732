------------------------- MODULE SettlementPipeline ------------------------
(***************************************************************************)
(* How events travel in one API process: the outbox (messaging/outbox.py), *)
(* its relay daemon, the bounded in-memory queue (messaging/queue.py) and  *)
(* the settlement worker (worker/worker.py), from POST expenses and POST   *)
(* settle to the stored settlements, up to the shutdown of api/main.py.    *)
(*                                                                         *)
(* Tasks are suspended only where they wait: the relay at a full queue,    *)
(* the worker at an empty one, at the two cache deletions and in its pause *)
(* after an error.  What a task does in between is one step.               *)
(*                                                                         *)
(* Events are numbers, their places in the outbox.  A plan that settles    *)
(* everyone (see DebtSimplifier) is known by the balances it settles; the  *)
(* balance of one user, an integer, stands for those of the group.         *)
(***************************************************************************)
EXTENDS Integers, Sequences, FiniteSets, Functions

CONSTANTS
  Groups,       \* the existing groups
  Amounts,      \* what an expense adds to the balance
  MaxPosts,     \* bound on the events the API posts
  Capacity,     \* maxsize of the queue, 10,000 in the code
  CacheFaults,  \* may a cache deletion fail?
  Shutdowns     \* may the process be shut down?

ASSUME AmountsAssumption  == Amounts \subseteq Int
ASSUME CapacityAssumption == Capacity \in Nat \ {0} /\ MaxPosts \in Nat
ASSUME SwitchAssumption   == CacheFaults \in BOOLEAN /\ Shutdowns \in BOOLEAN

VARIABLES
  expenses,     \* store: group -> its expenses, in order
  settlements,  \* store: [group, amount, request], all executed
  outbox,       \* _events: [type, group, amount]
  pending,      \* _pending: events to relay
  held,         \* the event the relay could not put yet, if any
  queue,        \* _queue: published events
  worker,       \* where the worker stands
  hand,         \* the request the worker is handling, if any
  gone,         \* the events the worker is done with, in one way or another
  failed,       \* _failed: how many handlers raised
  phase         \* of the process

storeVars == <<expenses, settlements>>
busVars   == <<outbox, pending, held, queue>>
vars == <<storeVars, busVars, worker, hand, gone, failed, phase>>

Init ==
  /\ expenses = [g \in Groups |-> << >>]
  /\ settlements = << >>
  /\ outbox = << >> /\ pending = << >> /\ held = << >> /\ queue = << >>
  /\ worker = "waiting" /\ hand = << >> /\ gone = << >> /\ failed = 0
  /\ phase = "up"

Event(type, g, n) == [type |-> type, group |-> g, amount |-> n]

\* outbox.append: the event is recorded and pending.
Emit(event) ==
  /\ outbox' = Append(outbox, event)
  /\ pending' = Append(pending, Len(outbox) + 1)

Posted == SelectSeq(outbox, LAMBDA e : e.type # "SETTLEMENT_COMPLETED")

-----------------------------------------------------------------------------

\* POST expenses, see ExpenseIntake.
CreateExpense(g, n) ==
  /\ phase = "up" /\ Len(Posted) < MaxPosts
  /\ expenses' = [expenses EXCEPT ![g] = Append(@, n)]
  /\ Emit(Event("EXPENSE_CREATED", g, n))
  /\ UNCHANGED <<settlements, held, queue, worker, hand, gone, failed, phase>>

\* compute_net_balances over all expenses of the group; settlements that were
\* executed before do not count.
Net(g) == SumFunction(expenses[g])

\* POST settle; the balance in the event is not read by the worker.
SettleGroup(g) ==
  /\ phase = "up" /\ Len(Posted) < MaxPosts
  /\ Emit(Event("SETTLEMENT_REQUESTED", g, Net(g)))
  /\ UNCHANGED <<storeVars, held, queue, worker, hand, gone, failed, phase>>

\* Mutant: the queue has no maxsize.
Unlimited == TRUE
HasRoom   == Len(queue) < Capacity

\* What the relay keeps of an event when the queue is full.  Mutant: nothing.
DroppedWhenFull(e) == << >>
Blocked(e)         == <<e>>

\* relay_all_pending takes an event; put waits while the queue is full.
Relay ==
  /\ phase # "down"
  /\ held = << >> /\ pending # << >>
  /\ pending' = Tail(pending)
  /\ \/ /\ HasRoom
        /\ queue' = Append(queue, Head(pending))
        /\ UNCHANGED held
     \/ /\ ~HasRoom
        /\ held' = Blocked(Head(pending))
        /\ UNCHANGED queue
  /\ UNCHANGED <<storeVars, outbox, worker, hand, gone, failed, phase>>

\* The put that waited goes through.
RelayPut ==
  /\ phase # "down"
  /\ held # << >> /\ HasRoom
  /\ queue' = Append(queue, Head(held))
  /\ held' = << >>
  /\ UNCHANGED <<storeVars, outbox, pending, worker, hand, gone, failed, phase>>

\* Only a request for a group that has expenses makes the worker do something.
Settles(e) == /\ outbox[e].type = "SETTLEMENT_REQUESTED"
              /\ expenses[outbox[e].group] # << >>

\* An event the worker logs or ignores.
Skip ==
  /\ worker = "waiting" /\ queue # << >> /\ ~Settles(Head(queue))
  /\ queue' = Tail(queue)
  /\ gone' = Append(gone, Head(queue))
  /\ UNCHANGED <<storeVars, outbox, pending, held, worker, hand, failed, phase>>

\* _handle_settlement up to the first cache deletion: journals are posted and
\* the payments saved; there are none when everybody's balance is zero.
SettleAndSave ==
  /\ worker = "waiting" /\ queue # << >> /\ Settles(Head(queue))
  /\ LET e == Head(queue)
         g == outbox[e].group
     IN  settlements' = IF Net(g) = 0 THEN settlements
                        ELSE Append(settlements, [group |-> g, amount |-> Net(g),
                                                  request |-> e])
  /\ queue' = Tail(queue)
  /\ hand' = <<Head(queue)>>
  /\ worker' = "balances"
  /\ UNCHANGED <<expenses, outbox, pending, held, gone, failed, phase>>

DeleteBalances ==
  /\ worker = "balances"
  /\ worker' = "debts"
  /\ UNCHANGED <<storeVars, busVars, hand, gone, failed, phase>>

\* What the completion event of a request announces as total_settled_cents.
\* Mutant: the balances of the request.
AmountRequested(e) == outbox[e].amount
AmountSettled(e) ==
  SumFunction([i \in {k \in DOMAIN settlements : settlements[k].request = e} |->
                 settlements[i].amount])

\* The second deletion, and the event that the settlement is complete.
DeleteDebts ==
  /\ worker = "debts"
  /\ LET e == Head(hand) IN
     Emit(Event("SETTLEMENT_COMPLETED", outbox[e].group, AmountSettled(e)))
  /\ gone' = gone \o hand
  /\ hand' = << >>
  /\ worker' = "waiting"
  /\ UNCHANGED <<storeVars, held, queue, failed, phase>>

\* Where the loop goes.  Mutant: it does not catch the exception.
LoopLeft   == "stopped"
AfterError == "pause"

\* A cache deletion raises: the loop counts a failure and pauses.  It neither
\* acks nor nacks the request.
CacheFails ==
  /\ CacheFaults
  /\ worker \in {"balances", "debts"}
  /\ worker' = AfterError
  /\ gone' = gone \o hand
  /\ hand' = << >>
  /\ failed' = failed + 1
  /\ UNCHANGED <<storeVars, busVars, phase>>

PauseEnds ==
  /\ worker = "pause"
  /\ worker' = "waiting"
  /\ UNCHANGED <<storeVars, busVars, hand, gone, failed, phase>>

\* lifespan after yield: the worker is cancelled where it waits ...
StopWorker ==
  /\ Shutdowns /\ phase = "up"
  /\ phase' = "stopping"
  /\ worker' = "stopped"
  /\ gone' = gone \o hand
  /\ hand' = << >>
  /\ UNCHANGED <<storeVars, busVars, failed>>

\* ... and then the relay, with whatever is pending.
StopRelay ==
  /\ phase = "stopping"
  /\ phase' = "down"
  /\ UNCHANGED <<storeVars, busVars, worker, hand, gone, failed>>

\* The process is down, or nobody posts any more and nothing is on its way.
Idle ==
  /\ \/ phase = "down"
     \/ /\ Len(Posted) = MaxPosts /\ worker = "waiting"
        /\ pending = << >> /\ held = << >> /\ queue = << >>
  /\ UNCHANGED vars

RelayStep  == Relay \/ RelayPut
WorkerStep == Skip \/ SettleAndSave \/ DeleteBalances \/ DeleteDebts \/ PauseEnds

Next ==
  \/ \E g \in Groups : SettleGroup(g) \/ \E n \in Amounts : CreateExpense(g, n)
  \/ RelayStep \/ WorkerStep
  \/ CacheFails \/ StopWorker \/ StopRelay
  \/ Idle

Spec == Init /\ [][Next]_vars
\* The event loop runs every task that can go on.  The clients, the faults and
\* the shutdown are not fair.
FairSpec == Spec /\ WF_vars(RelayStep) /\ WF_vars(WorkerStep)

-----------------------------------------------------------------------------
(* What is true of the pipeline. *)

Types == {"EXPENSE_CREATED", "SETTLEMENT_REQUESTED", "SETTLEMENT_COMPLETED"}
Events == [type : Types, group : Groups, amount : Int]
Payments == [group : Groups, amount : Int, request : Nat]

\* Type invariant; the queue never outgrows its capacity, the relay holds one
\* event at most, and the worker has a request in hand exactly while it
\* deletes cached balances.
TypeOK ==
  /\ expenses \in [Groups -> Seq(Amounts)]
  /\ settlements \in Seq(Payments)
  /\ outbox \in Seq(Events)
  /\ pending \in Seq(Nat) /\ queue \in Seq(Nat) /\ gone \in Seq(Nat)
  /\ held \in Seq(Nat) /\ Len(held) <= 1
  /\ hand \in Seq(Nat) /\ Len(hand) = IF worker \in {"balances", "debts"} THEN 1 ELSE 0
  /\ Len(queue) <= Capacity
  /\ worker \in {"waiting", "balances", "debts", "pause", "stopped"}
  /\ failed \in Nat
  /\ phase \in {"up", "stopping", "down"}

\* Every event is in one place, and events keep their order from the outbox to
\* the worker: none is lost on the way, doubled or overtaken, whether or not
\* the queue was full, a handler failed or the process stopped.
InOrderOnce ==
  gone \o hand \o queue \o held \o pending = [e \in DOMAIN outbox |-> e]

Sums(f, S) == SumFunctionOnSet([i \in DOMAIN f |-> f[i].amount], S)
Settled(g)   == Sums(settlements, {i \in DOMAIN settlements :
                                     settlements[i].group = g})
Announced(g) == Sums(outbox, {i \in DOMAIN outbox :
                                /\ outbox[i].type = "SETTLEMENT_COMPLETED"
                                /\ outbox[i].group = g})

\* As long as no handler failed: while no request is in hand,
\* SETTLEMENT_COMPLETED events have announced what the store says was settled
\* ("5. Invalidate cache. 6. Emit completion event").  The settlements of a
\* handler that failed are saved and never announced.
AnnouncedIsSettled ==
  hand = << >> /\ failed = 0 /\ phase = "up" =>
    \A g \in Groups : Announced(g) = Settled(g)

\* Every event the API or the worker emits reaches the worker in the end, unless
\* the process is shut down, which drains nothing.
EveryEventHandled ==
  \A e \in 1 .. 2 * MaxPosts :
    e \in DOMAIN outbox ~> e \in Range(gone) \/ phase # "up"

\* "Return net balances ... Positive = creditor (is owed money)" (groups.py:88):
\* what GET balances shows, Net, is what is still owed: the expenses less the
\* settlements executed, none of which is under way.
StillOwed(g) == SumFunction(expenses[g]) - Settled(g)
BalancesShowWhatIsOwed == hand = << >> => \A g \in Groups : Net(g) = StillOwed(g)
=============================================================================
