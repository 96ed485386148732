---------------------------- MODULE MessageQueue ---------------------------
(***************************************************************************)
(* The two queues of messaging/queue.py, with retries and dead letters:    *)
(* InMemoryQueue, a bounded asyncio.Queue, and RedisStreamQueue, a stream  *)
(* read through a consumer group.  Which one a process uses is chosen at   *)
(* startup.                                                                *)
(*                                                                         *)
(* log holds every copy of a message that was ever put or XADDed, in       *)
(* order, and cursor how many of them were delivered, so that what is      *)
(* behind the cursor is the asyncio.Queue, or the part of the stream the   *)
(* group has not read (">").  The pending entries list of the group holds  *)
(* delivered copies without an XACK.                                       *)
(*                                                                         *)
(* Consumers are not part of the program: its worker never calls nack.     *)
(* They do what the methods ask for: take the copies in turn, ack a        *)
(* message they have handled and nack one they could not handle, with the  *)
(* retry count of its payload.  One that fails or stops is replaced.       *)
(***************************************************************************)
EXTENDS Integers, Sequences, FiniteSets, Functions

CONSTANTS
  Events,      \* how many messages the relay publishes
  Consumers,
  Worker,      \* the consumer in the process of an asyncio.Queue, its only one
  MaxRetries,  \* MAX_RETRIES, 3 in the code
  Batch,       \* count of consume_batch, 10 in the code
  Capacity     \* maxsize of the asyncio.Queue, 10,000 in the code

ASSUME WorkerAssumption == Worker \in Consumers
ASSUME LimitsAssumption ==
  /\ Events \in Nat /\ MaxRetries \in Nat \ {0}
  /\ Batch \in Nat \ {0} /\ Capacity \in Nat \ {0}

VARIABLES
  redis,      \* is it a RedisStreamQueue?
  relayed,    \* how many messages the relay has published, or tried to
  log,        \* copies of messages: [msg, retries]
  cursor,     \* how many of them were delivered
  hand,       \* consumer -> copies it has to deal with, by index
  step,       \* consumer -> what it does with the first: "handle", "put", "ack"
  pending,    \* the pending entries list
  retries,    \* _retry_counts of the asyncio.Queue
  dlq,        \* dead letters
  handled     \* messages a consumer was done with

logVars      == <<log, cursor>>
consumerVars == <<hand, step>>
vars == <<redis, relayed, logVars, consumerVars, pending, retries, dlq, handled>>

Messages == 1 .. Events

\* XGROUP CREATE id=0: the group reads the stream from its beginning.
Init ==
  /\ redis \in BOOLEAN
  /\ relayed = 0
  /\ log = << >> /\ cursor = 0
  /\ hand = [c \in Consumers |-> << >>]
  /\ step = [c \in Consumers |-> "handle"]
  /\ pending = {}
  /\ retries = [m \in Messages |-> 0]
  /\ dlq = << >> /\ handled = {}

Copy(m, n) == [msg |-> m, retries |-> n]
Waiting    == Len(log) - cursor
HasRoom    == Waiting < Capacity
First(c)   == Head(hand[c])
Message(c) == log[First(c)].msg

\* The first copy is dealt with.
OnToNext(c) ==
  /\ hand' = [hand EXCEPT ![c] = Tail(@)]
  /\ step' = [step EXCEPT ![c] = "handle"]

Goes(c, s) == step' = [step EXCEPT ![c] = s] /\ UNCHANGED hand

-----------------------------------------------------------------------------
(* InMemoryQueue. *)

Put ==
  /\ ~redis /\ relayed < Events /\ HasRoom
  /\ relayed' = relayed + 1
  /\ log' = Append(log, Copy(relayed', 0))
  /\ UNCHANGED <<redis, cursor, consumerVars, pending, retries, dlq, handled>>

\* consume_one.
Get(c) ==
  /\ ~redis /\ c = Worker /\ hand[c] = << >> /\ Waiting > 0
  /\ cursor' = cursor + 1
  /\ hand' = [hand EXCEPT ![c] = <<cursor'>>]
  /\ UNCHANGED <<redis, relayed, log, step, pending, retries, dlq, handled>>

\* The consumer is done; ack has nothing to do.
Handled(c) ==
  /\ ~redis /\ hand[c] # << >> /\ step[c] = "handle"
  /\ handled' = handled \cup {Message(c)}
  /\ OnToNext(c)
  /\ UNCHANGED <<redis, relayed, logVars, pending, retries, dlq>>

\* Mutant: one attempt more.
Exceeds(count)   == count > MaxRetries
Exhausted(count) == count >= MaxRetries

\* nack.  The put waits while the queue is full: for good, as nobody else takes
\* from the queue.
Nack(c) ==
  /\ ~redis /\ hand[c] # << >> /\ step[c] = "handle"
  /\ LET m == Message(c) IN
     /\ retries' = [retries EXCEPT ![m] = @ + 1]
     /\ \/ /\ Exhausted(retries'[m])
           /\ dlq' = Append(dlq, m)
           /\ OnToNext(c)
           /\ UNCHANGED log
        \/ /\ ~Exhausted(retries'[m]) /\ HasRoom
           /\ log' = Append(log, Copy(m, 0))
           /\ OnToNext(c)
           /\ UNCHANGED dlq
        \/ /\ ~Exhausted(retries'[m]) /\ ~HasRoom
           /\ Goes(c, "put")
           /\ UNCHANGED <<log, dlq>>
  /\ UNCHANGED <<redis, relayed, cursor, pending, handled>>

-----------------------------------------------------------------------------
(* RedisStreamQueue.  A command that fails may have been executed. *)

Publish ==
  /\ redis /\ relayed < Events
  /\ relayed' = relayed + 1
  /\ log' = Append(log, Copy(relayed', 0))
  /\ UNCHANGED <<redis, cursor, consumerVars, pending, retries, dlq, handled>>

\* relay_all_pending logs the error; the event is no longer pending.
PublishFails ==
  /\ redis /\ relayed < Events
  /\ relayed' = relayed + 1
  /\ log' \in {log, Append(log, Copy(relayed', 0))}
  /\ UNCHANGED <<redis, cursor, consumerVars, pending, retries, dlq, handled>>

\* What XREADGROUP delivers.  Mutant: it waits until a batch is full.
FullBatch == IF Waiting < Batch THEN {} ELSE cursor + 1 .. cursor + Batch
Delivery  == IF Waiting < Batch THEN cursor + 1 .. Len(log)
                                ELSE cursor + 1 .. cursor + Batch

\* consume_batch.  A reply that does not arrive leaves the copies pending.
ConsumeBatch(c) ==
  /\ redis /\ hand[c] = << >> /\ Delivery # {}
  /\ cursor' = cursor + Cardinality(Delivery)
  /\ pending' = pending \cup Delivery
  /\ hand' = [hand EXCEPT ![c] = [i \in 1 .. Cardinality(Delivery) |-> cursor + i]]
  /\ UNCHANGED <<redis, relayed, log, step, retries, dlq, handled>>

ConsumeFails ==
  /\ redis /\ Delivery # {}
  /\ cursor' = cursor + Cardinality(Delivery)
  /\ pending' = pending \cup Delivery
  /\ UNCHANGED <<redis, relayed, log, consumerVars, retries, dlq, handled>>

StreamHandled(c) ==
  /\ redis /\ hand[c] # << >> /\ step[c] = "handle"
  /\ handled' = handled \cup {Message(c)}
  /\ Goes(c, "ack")
  /\ UNCHANGED <<redis, relayed, logVars, pending, retries, dlq>>

\* XADD of nack: to the dead letters, or back to the stream with a count that
\* is one higher.  Mutant: an exhausted message is only acked.
AddBackOrDrop(c) ==
  LET n == log[First(c)].retries IN
  /\ log' = IF Exhausted(n) THEN log ELSE Append(log, Copy(Message(c), n + 1))
  /\ UNCHANGED dlq
AddBack(c) ==
  LET n == log[First(c)].retries IN
  \/ /\ Exhausted(n)
     /\ dlq' = Append(dlq, Message(c))
     /\ UNCHANGED log
  \/ /\ ~Exhausted(n)
     /\ log' = Append(log, Copy(Message(c), n + 1))
     /\ UNCHANGED dlq

StreamNack(c) ==
  /\ redis /\ hand[c] # << >> /\ step[c] = "handle"
  /\ AddBack(c)
  /\ Goes(c, "ack")
  /\ UNCHANGED <<redis, relayed, cursor, pending, retries, handled>>

StreamNackFails(c) ==
  /\ redis /\ hand[c] # << >> /\ step[c] = "handle"
  /\ AddBack(c) \/ UNCHANGED <<log, dlq>>
  /\ OnToNext(c)
  /\ UNCHANGED <<redis, relayed, cursor, pending, retries, handled>>

\* XACK, of what was handled as of what was sent back.
Ack(c) ==
  /\ step[c] = "ack"
  /\ pending' = pending \ {First(c)}
  /\ OnToNext(c)
  /\ UNCHANGED <<redis, relayed, logVars, retries, dlq, handled>>

AckFails(c) ==
  /\ step[c] = "ack"
  /\ pending' \in {pending, pending \ {First(c)}}
  /\ OnToNext(c)
  /\ UNCHANGED <<redis, relayed, logVars, retries, dlq, handled>>

\* The consumer stops.  Its successor has another id and reads new copies only.
Crash(c) ==
  /\ redis /\ hand[c] # << >>
  /\ hand' = [hand EXCEPT ![c] = << >>]
  /\ step' = [step EXCEPT ![c] = "handle"]
  /\ UNCHANGED <<redis, relayed, logVars, pending, retries, dlq, handled>>

-----------------------------------------------------------------------------

\* The only consumer waits for room in the queue nobody else takes from.
Stuck == step[Worker] = "put"

Idle ==
  /\ \/ Stuck
     \/ /\ relayed = Events /\ Waiting = 0
        /\ \A c \in Consumers : hand[c] = << >>
  /\ UNCHANGED vars

RelayStep == Put \/ Publish
ConsumerStep(c) ==
  \/ Get(c) \/ Handled(c) \/ Nack(c)
  \/ ConsumeBatch(c) \/ StreamHandled(c) \/ StreamNack(c) \/ Ack(c)

Next ==
  \/ RelayStep \/ PublishFails \/ ConsumeFails
  \/ \E c \in Consumers :
       ConsumerStep(c) \/ StreamNackFails(c) \/ AckFails(c) \/ Crash(c)
  \/ Idle

Spec == Init /\ [][Next]_vars
\* Every consumer that can go on goes on.  The relay may stop, and nothing has
\* to fail, or to be handled rather than sent back.
FairSpec == Spec /\ \A c \in Consumers : WF_vars(ConsumerStep(c))

-----------------------------------------------------------------------------
(* What is true of both queues. *)

InHand(i) == \E c \in Consumers : i \in Range(hand[c])
Settled(m) == m \in handled \/ m \in Range(dlq)

\* Type invariant; only Redis knows pending entries and XACK, only the other
\* queue waits for room, with a full queue in front of it.
TypeOK ==
  /\ redis \in BOOLEAN
  /\ relayed \in 0 .. Events
  /\ log \in Seq([msg : 1 .. relayed, retries : 0 .. MaxRetries])
  /\ cursor \in 0 .. Len(log)
  /\ hand \in [Consumers -> Seq(1 .. cursor)]
  /\ step \in [Consumers -> {"handle", "put", "ack"}]
  /\ pending \subseteq 1 .. cursor
  /\ retries \in [Messages -> 0 .. MaxRetries]
  /\ dlq \in Seq(1 .. relayed)
  /\ handled \subseteq 1 .. relayed
  /\ ~redis => pending = {}
  /\ \A c \in Consumers :
       /\ step[c] = "ack" => redis
       /\ step[c] = "put" => ~redis /\ ~HasRoom
       /\ step[c] # "handle" => hand[c] # << >>

\* A message in the queue is never forgotten: each of its copies is waiting, in
\* a consumer's hands, on record as pending, settled or followed by another
\* copy.  nack must add before it acks.
NothingForgotten ==
  \A i \in DOMAIN log :
    \/ i > cursor \/ InHand(i) \/ i \in pending
    \/ Settled(log[i].msg)
    \/ \E k \in i + 1 .. Len(log) : log[k].msg = log[i].msg

\* How often a message is delivered before it is given up: RedisStreamQueue
\* compares the count before it adds one to it.
Limit == IF redis THEN MaxRetries + 1 ELSE MaxRetries

Attempts(m) == Cardinality({i \in 1 .. cursor : log[i].msg = m})
Copies(m)   == {i \in DOMAIN log : log[i].msg = m}
Burials(m)  == Cardinality({i \in DOMAIN dlq : dlq[i] = m})
State(m) ==
  IF Burials(m) = 1 THEN "dead"
  ELSE IF Burials(m) > 1 THEN "dead twice"
  ELSE IF m \in handled THEN "done"
  ELSE IF m > relayed THEN "unsent"
  ELSE IF Copies(m) = {} THEN "lost"
  ELSE IF \E i \in Copies(m) : i > cursor THEN "queued" ELSE "taken"

Promise == INSTANCE RetryQueue WITH
  limit    <- Limit,
  state    <- [m \in Messages |-> State(m)],
  attempts <- [m \in Messages |-> Attempts(m)]

\* Both queues keep the promise of RetryQueue, each with its limit, whatever
\* fails: a message is handled or given up after so many attempts, one consumer
\* at a time attempts it, and one that was handled or given up is never seen
\* again, nor given up twice.
KeepsPromise == Promise!Spec

\* Delivered, but its consumer failed or stopped: the group never reads it again.
Orphaned(m) ==
  \E i \in pending : /\ log[i].msg = m /\ ~InHand(i)
                     /\ \A k \in Copies(m) : k <= i

\* Every message in the queue is settled, unless it is pending without a
\* consumer or the only consumer waits for room.
EveryMessageSettled ==
  \A m \in Messages :
    Copies(m) # {} ~> Settled(m) \/ Orphaned(m) \/ Stuck
=============================================================================
