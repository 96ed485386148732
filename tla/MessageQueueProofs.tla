------------------------- MODULE MessageQueueProofs ------------------------
(***************************************************************************)
(* Theorems about MessageQueue, for any number of messages, consumers and  *)
(* retries, any batch and any capacity: both queues forget nothing and     *)
(* keep the promise of RetryQueue, whichever command fails and whichever   *)
(* consumer stops.                                                         *)
(***************************************************************************)
EXTENDS MessageQueue, SequenceTheorems, FiniteSetTheorems, TLAPS

-----------------------------------------------------------------------------
(* Sequences. *)

\* A sequence with one more element.
LEMMA Appended ==
  ASSUME NEW S, NEW s \in Seq(S), NEW x \in S
  PROVE  /\ Append(s, x) \in Seq(S) /\ Len(s) \in Nat /\ Len(Append(s, x)) = Len(s) + 1
         /\ \A i \in 1 .. Len(s) : Append(s, x)[i] = s[i]
         /\ Append(s, x)[Len(s) + 1] = x
         /\ Range(Append(s, x)) = Range(s) \cup {x}
<1>1. /\ Append(s, x) \in Seq(S) /\ Len(s) \in Nat /\ Len(Append(s, x)) = Len(s) + 1
      /\ \A i \in 1 .. Len(s) : Append(s, x)[i] = s[i]
      /\ Append(s, x)[Len(s) + 1] = x
  BY AppendProperties, LenProperties
<1>2. /\ DOMAIN s = 1 .. Len(s) /\ DOMAIN Append(s, x) = 1 .. Len(s) + 1
      /\ 1 .. Len(s) + 1 = 1 .. Len(s) \cup {Len(s) + 1}
  BY <1>1, LenProperties
<1>3. Range(Append(s, x)) = Range(s) \cup {x}
  BY <1>1, <1>2 DEF Range
<1>. QED  BY <1>1, <1>3

\* A sequence without its first element.
LEMMA Tailed ==
  ASSUME NEW S, NEW s \in Seq(S), s # << >>
  PROVE  /\ Head(s) \in S /\ Tail(s) \in Seq(S) /\ Len(s) \in Nat
         /\ Len(Tail(s)) = Len(s) - 1
         /\ Range(s) \subseteq Range(Tail(s)) \cup {Head(s)}
         /\ Range(Tail(s)) \subseteq Range(s) /\ Head(s) \in Range(s)
<1>1. /\ Head(s) \in S /\ Tail(s) \in Seq(S) /\ Len(s) \in Nat \ {0}
      /\ Len(Tail(s)) = Len(s) - 1 /\ Head(s) = s[1]
      /\ \A i \in 1 .. Len(Tail(s)) : Tail(s)[i] = s[i + 1]
  BY HeadTailProperties, EmptySeq
<1>2. DOMAIN s = 1 .. Len(s) /\ DOMAIN Tail(s) = 1 .. Len(s) - 1
  BY <1>1, LenProperties
<1>3. \A i \in 1 .. Len(s) : i = 1 \/ (i - 1 \in 1 .. Len(s) - 1 /\ s[i] = Tail(s)[i - 1])
  <2>1. ASSUME NEW i \in 1 .. Len(s), i # 1
        PROVE  i - 1 \in 1 .. Len(s) - 1 /\ s[i] = Tail(s)[i - 1]
    <3>1. PICK j \in 1 .. Len(Tail(s)) : j = i - 1 /\ j + 1 = i
      BY <1>1, <2>1
    <3>2. Tail(s)[j] = s[j + 1]
      BY <1>1
    <3>. QED  BY <1>1, <3>1, <3>2
  <2>. QED  BY <2>1
<1>4. Range(s) \subseteq Range(Tail(s)) \cup {Head(s)}
  <2>1. ASSUME NEW i \in 1 .. Len(s) PROVE s[i] \in Range(Tail(s)) \cup {Head(s)}
    <3>1. CASE i = 1
      BY <1>1, <3>1
    <3>2. CASE i - 1 \in 1 .. Len(s) - 1 /\ s[i] = Tail(s)[i - 1]
      BY <1>2, <3>2 DEF Range
    <3>. QED  BY <1>3, <3>1, <3>2
  <2>. QED  BY <1>2, <2>1 DEF Range
<1>5. Range(Tail(s)) \subseteq Range(s) /\ Head(s) \in Range(s)
  <2>1. 1 \in DOMAIN s /\ Head(s) = s[1]
    BY <1>1, <1>2
  <2>2. ASSUME NEW i \in 1 .. Len(s) - 1 PROVE Tail(s)[i] \in Range(s)
    <3>1. i + 1 \in DOMAIN s /\ Tail(s)[i] = s[i + 1]
      BY <1>1, <1>2
    <3>. QED  BY <3>1 DEF Range
  <2>. QED  BY <1>2, <2>1, <2>2 DEF Range
<1>. QED  BY <1>1, <1>4, <1>5

\* The values of a sequence are in its set, and an empty one has none.
LEMMA InRange ==
  ASSUME NEW S, NEW s \in Seq(S)
  PROVE  Range(s) \subseteq S /\ Range(<< >>) = {}
BY RangeOfSeq, LenProperties DEF Range

-----------------------------------------------------------------------------
(* Types. *)

Entries(R) == [msg : R, retries : 0 .. MaxRetries]
Steps      == {"handle", "put", "ack"}

\* The types of the log and of what became of its messages, those of consumers
\* and of the pending entries.
LogTypes ==
  /\ redis \in BOOLEAN
  /\ relayed \in 0 .. Events
  /\ log \in Seq(Entries(1 .. relayed))
  /\ dlq \in Seq(1 .. relayed) /\ handled \subseteq 1 .. relayed
HandTypes ==
  /\ cursor \in 0 .. Len(log)
  /\ hand \in [Consumers -> Seq(1 .. cursor)] /\ step \in [Consumers -> Steps]
  /\ pending \subseteq 1 .. cursor /\ (~redis => pending = {})
StepTypes ==
  \A c \in Consumers : /\ step[c] = "ack" => redis
                       /\ step[c] = "put" => ~redis /\ ~HasRoom
                       /\ step[c] # "handle" => hand[c] # << >>
RetryTypes == retries \in [Messages -> 0 .. MaxRetries]

\* The parts are the type invariant.
LEMMA TypeParts == TypeOK <=> LogTypes /\ HandTypes /\ StepTypes /\ RetryTypes
BY DEF TypeOK, LogTypes, HandTypes, StepTypes, RetryTypes, Entries, Steps

\* The consumer c deals with a copy: of a message that was sent.
LEMMA FirstTyped ==
  ASSUME LogTypes, HandTypes, NEW c \in Consumers, hand[c] # << >>
  PROVE  /\ First(c) \in 1 .. cursor /\ First(c) \in 1 .. Len(log)
         /\ Message(c) \in 1 .. relayed /\ Message(c) \in Messages
         /\ log[First(c)].retries \in 0 .. MaxRetries
         /\ cursor \in Nat /\ Len(log) \in Nat /\ cursor <= Len(log)
         /\ Tail(hand[c]) \in Seq(1 .. cursor) /\ InHand(First(c))
<1>1. /\ First(c) \in 1 .. cursor /\ Tail(hand[c]) \in Seq(1 .. cursor)
      /\ First(c) \in Range(hand[c])
  BY Tailed DEF HandTypes, First
<1>2. Len(log) \in Nat /\ cursor \in Nat /\ cursor <= Len(log) /\ relayed \in Nat
  BY LenProperties, LimitsAssumption DEF LogTypes, HandTypes
<1>3. First(c) \in 1 .. Len(log)
  BY <1>1, <1>2
<1>4. log[First(c)] \in Entries(1 .. relayed)
  BY <1>3, ElementOfSeq DEF LogTypes
<1>5. Message(c) \in 1 .. relayed /\ log[First(c)].retries \in 0 .. MaxRetries
  BY <1>4 DEF Message, Entries
<1>6. Message(c) \in Messages
  BY <1>2, <1>5, LimitsAssumption DEF Messages, LogTypes
<1>7. InHand(First(c))
  BY <1>1 DEF InHand
<1>. QED  BY <1>1, <1>2, <1>3, <1>5, <1>6, <1>7

\* A copy is appended to the log, or is not.
LEMMA LogAppended ==
  ASSUME LogTypes, NEW m, NEW n \in 0 .. MaxRetries, NEW R \in Nat,
         relayed <= R, m \in 1 .. R, log' = Append(log, Copy(m, n))
  PROVE  /\ log' \in Seq(Entries(1 .. R)) /\ Len(log) \in Nat
         /\ Len(log') = Len(log) + 1
         /\ \A i \in 1 .. Len(log) : log'[i] = log[i]
         /\ log'[Len(log) + 1].msg = m
<1>1. relayed \in Nat /\ 1 .. relayed \subseteq 1 .. R
  BY LimitsAssumption DEF LogTypes
<1>2. Entries(1 .. relayed) \subseteq Entries(1 .. R)
  BY <1>1 DEF Entries
<1>3. log \in Seq(Entries(1 .. R))
  BY <1>2, SeqMonotonic DEF LogTypes
<1>4. Copy(m, n) \in Entries(1 .. R) /\ Copy(m, n).msg = m
  BY DEF Copy, Entries
<1>. QED  BY <1>3, <1>4, Appended

\* What a step may do to the log and to what became of the messages.
Grows ==
  /\ Len(log) \in Nat /\ Len(log') \in Nat /\ Len(log) <= Len(log')
  /\ \A i \in 1 .. Len(log) : log'[i] = log[i]
  /\ Range(dlq) \subseteq Range(dlq') /\ handled \subseteq handled'

\* The steps of the relay and of the redelivery, a consumer's steps that deal
\* with a copy, and the others.
Send(copies) ==
  /\ relayed < Events /\ relayed' = relayed + 1
  /\ log' \in copies
  /\ UNCHANGED <<redis, cursor, consumerVars, pending, retries, dlq, handled>>
Sending == Send({log, Append(log, Copy(relayed + 1, 0))})
Deal(c) == \/ Handled(c) \/ Nack(c) \/ StreamHandled(c) \/ StreamNack(c)
           \/ StreamNackFails(c)
Other   == \/ ConsumeFails \/ UNCHANGED vars
           \/ \E c \in Consumers : \/ Get(c) \/ ConsumeBatch(c)
                                   \/ Ack(c) \/ AckFails(c) \/ Crash(c)

\* Every step is one of these.
LEMMA StepCases ==
  ASSUME [Next]_vars
  PROVE  Sending \/ (\E c \in Consumers : Deal(c)) \/ Other
BY DEF Next, RelayStep, ConsumerStep, Put, Publish, PublishFails, Sending, Send,
       Deal, Other, Idle

\* Sending adds one copy of the next message at most.
LEMMA SendLog ==
  ASSUME LogTypes, Sending
  PROVE  /\ LogTypes' /\ Grows
         /\ log' # log => /\ Len(log') = Len(log) + 1
                          /\ log'[Len(log) + 1].msg = relayed + 1
<1>1. /\ relayed \in Nat /\ relayed + 1 \in 0 .. Events /\ relayed' = relayed + 1
      /\ 1 .. relayed \subseteq 1 .. relayed' /\ relayed + 1 \in 1 .. relayed'
      /\ relayed' \in Nat /\ relayed <= relayed' /\ 0 \in 0 .. MaxRetries
  BY LimitsAssumption DEF LogTypes, Sending, Send
<1>2. UNCHANGED <<dlq, handled, redis>>
  BY DEF Sending, Send
<1>3. dlq' \in Seq(1 .. relayed') /\ handled' \subseteq 1 .. relayed'
  BY <1>1, <1>2, SeqMonotonic DEF LogTypes
<1>4. CASE log' = log
  <2>1. Entries(1 .. relayed) \subseteq Entries(1 .. relayed')
    BY <1>1 DEF Entries
  <2>2. log' \in Seq(Entries(1 .. relayed')) /\ Len(log) \in Nat
    BY <1>4, <2>1, SeqMonotonic, LenProperties DEF LogTypes
  <2>. QED  BY <1>1, <1>2, <1>3, <1>4, <2>2 DEF LogTypes, Grows, Entries
<1>5. CASE log' = Append(log, Copy(relayed + 1, 0))
  <2>1. /\ log' \in Seq(Entries(1 .. relayed')) /\ Len(log) \in Nat
        /\ Len(log') = Len(log) + 1 /\ \A i \in 1 .. Len(log) : log'[i] = log[i]
        /\ log'[Len(log) + 1].msg = relayed + 1
    BY <1>1, <1>5, LogAppended
  <2>. QED  BY <1>1, <1>2, <1>3, <2>1 DEF LogTypes, Grows, Entries
<1>. QED  BY <1>4, <1>5 DEF Sending, Send

\* What a consumer does with a copy of message m: it may send m back, bury it
\* or be done with it.
LEMMA DealCases ==
  ASSUME LogTypes, HandTypes, NEW c \in Consumers, Deal(c)
  PROVE  /\ hand[c] # << >> /\ step[c] = "handle"
         /\ UNCHANGED <<redis, relayed, cursor, pending>>
         /\ \/ log' = log
            \/ \E n \in 0 .. MaxRetries : log' = Append(log, Copy(Message(c), n))
         /\ dlq' = dlq \/ dlq' = Append(dlq, Message(c))
         /\ handled' = handled \/ handled' = handled \cup {Message(c)}
<1>1. CASE Handled(c) \/ StreamHandled(c)
  BY <1>1 DEF Handled, StreamHandled, logVars
<1>2. CASE Nack(c)
  <2>1. 0 \in 0 .. MaxRetries
    BY LimitsAssumption
  <2>. QED  BY <1>2, <2>1 DEF Nack
<1>3. ASSUME hand[c] # << >>, AddBack(c)
      PROVE  /\ \/ log' = log
                \/ \E n \in 0 .. MaxRetries : log' = Append(log, Copy(Message(c), n))
             /\ dlq' = dlq \/ dlq' = Append(dlq, Message(c))
  <2>1. PICK n \in 0 .. MaxRetries : n = log[First(c)].retries
    BY <1>3, FirstTyped
  <2>2. ~Exhausted(n) => n + 1 \in 0 .. MaxRetries
    BY <2>1, LimitsAssumption DEF Exhausted
  <2>. QED  BY <1>3, <2>1, <2>2 DEF AddBack
<1>4. CASE StreamNack(c)
  BY <1>3, <1>4 DEF StreamNack
<1>5. CASE StreamNackFails(c)
  BY <1>3, <1>5 DEF StreamNackFails
<1>. QED  BY <1>1, <1>2, <1>4, <1>5 DEF Deal

\* Dealing with a copy adds one copy of its message at most.
LEMMA DealLog ==
  ASSUME LogTypes, HandTypes, NEW c \in Consumers, Deal(c)
  PROVE  /\ LogTypes' /\ Grows
         /\ log' # log => /\ Len(log') = Len(log) + 1
                          /\ log'[Len(log) + 1].msg = Message(c)
<1>1. Message(c) \in 1 .. relayed /\ relayed \in Nat /\ relayed' = relayed
  BY DealCases, FirstTyped, LimitsAssumption DEF LogTypes
<1>2. dlq' \in Seq(1 .. relayed) /\ Range(dlq) \subseteq Range(dlq')
  <2>1. dlq \in Seq(1 .. relayed)
    BY DEF LogTypes
  <2>2. /\ Append(dlq, Message(c)) \in Seq(1 .. relayed)
        /\ Range(Append(dlq, Message(c))) = Range(dlq) \cup {Message(c)}
    BY <1>1, <2>1, Appended
  <2>. QED  BY <2>1, <2>2, DealCases
<1>3. handled' \subseteq 1 .. relayed /\ handled \subseteq handled'
  BY <1>1, DealCases DEF LogTypes
<1>4. CASE log' = log
  <2>1. Len(log) \in Nat
    BY LenProperties DEF LogTypes
  <2>. QED  BY <1>1, <1>2, <1>3, <1>4, <2>1, DealCases DEF LogTypes, Grows
<1>5. CASE \E n \in 0 .. MaxRetries : log' = Append(log, Copy(Message(c), n))
  <2>1. /\ log' \in Seq(Entries(1 .. relayed)) /\ Len(log) \in Nat
        /\ Len(log') = Len(log) + 1 /\ \A i \in 1 .. Len(log) : log'[i] = log[i]
        /\ log'[Len(log) + 1].msg = Message(c)
    BY <1>1, <1>5, LogAppended
  <2>. QED  BY <1>1, <1>2, <1>3, <2>1, DealCases DEF LogTypes, Grows, Entries
<1>. QED  BY <1>4, <1>5, DealCases

\* The other steps leave the log and the messages' fates alone.
LEMMA OtherLog ==
  ASSUME LogTypes, Other
  PROVE  LogTypes' /\ Grows /\ UNCHANGED <<redis, relayed, log, dlq, handled>>
<1>1. UNCHANGED <<redis, relayed, log, dlq, handled>>
  BY DEF Other, ConsumeFails, vars, logVars, Get, ConsumeBatch, Ack, AckFails, Crash
<1>2. Len(log) \in Nat
  BY LenProperties DEF LogTypes
<1>. QED  BY <1>1, <1>2 DEF LogTypes, Grows, Entries

\* Every step keeps the types of the log, which grows.
LEMMA LogStep ==
  ASSUME LogTypes, HandTypes, [Next]_vars
  PROVE  LogTypes' /\ Grows /\ redis' = redis
<1>1. Sending => redis' = redis
  BY DEF Sending, Send
<1>. QED  BY <1>1, StepCases, SendLog, DealLog, DealCases, OtherLog

-----------------------------------------------------------------------------
(* Consumers. *)

\* Going on to the next copy takes one out of one consumer's hands.
LEMMA OnToNextHands ==
  ASSUME HandTypes, LogTypes, NEW c \in Consumers, hand[c] # << >>,
         OnToNext(c), cursor' = cursor
  PROVE  /\ hand' \in [Consumers -> Seq(1 .. cursor)]
         /\ step' \in [Consumers -> Steps]
         /\ hand'[c] = Tail(hand[c]) /\ step'[c] = "handle"
         /\ \A d \in Consumers \ {c} : hand'[d] = hand[d] /\ step'[d] = step[d]
         /\ \A d \in Consumers : Range(hand'[d]) \subseteq Range(hand[d])
         /\ \A i : InHand(i) => InHand(i)' \/ i = First(c)
<1>1. /\ hand \in [Consumers -> Seq(1 .. cursor)] /\ step \in [Consumers -> Steps]
      /\ Tail(hand[c]) \in Seq(1 .. cursor)
      /\ hand' = [hand EXCEPT ![c] = Tail(hand[c])]
      /\ step' = [step EXCEPT ![c] = "handle"] /\ "handle" \in Steps
  BY FirstTyped DEF HandTypes, OnToNext, Steps
<1>2. /\ Range(hand[c]) \subseteq Range(Tail(hand[c])) \cup {First(c)}
      /\ Range(Tail(hand[c])) \subseteq Range(hand[c])
  BY <1>1, Tailed DEF First
<1>3. /\ hand'[c] = Tail(hand[c]) /\ step'[c] = "handle"
      /\ \A d \in Consumers \ {c} : hand'[d] = hand[d] /\ step'[d] = step[d]
  BY <1>1
<1>4. \A d \in Consumers : Range(hand'[d]) \subseteq Range(hand[d])
  BY <1>2, <1>3
<1>5. ASSUME NEW i, InHand(i) PROVE InHand(i)' \/ i = First(c)
  BY <1>2, <1>3, <1>5 DEF InHand
<1>. QED  BY <1>1, <1>3, <1>4, <1>5

\* A consumer that goes on with its copy keeps its hands full.
LEMMA GoesHands ==
  ASSUME HandTypes, NEW c \in Consumers, NEW s \in Steps, Goes(c, s)
  PROVE  /\ hand' = hand /\ step' \in [Consumers -> Steps] /\ step'[c] = s
         /\ \A d \in Consumers \ {c} : step'[d] = step[d]
BY DEF Goes, HandTypes

\* What a consumer does next when it has dealt with a copy.
LEMMA DealHands ==
  ASSUME NEW c \in Consumers, Deal(c)
  PROVE  \/ OnToNext(c)
         \/ redis /\ Goes(c, "ack")
         \/ ~redis /\ Goes(c, "put") /\ ~HasRoom /\ log' = log
BY DEF Deal, Handled, Nack, StreamHandled, StreamNack, StreamNackFails

\* A delivery hands out the copies behind the cursor, in order.
LEMMA Delivered ==
  ASSUME LogTypes, HandTypes
  PROVE  \E n \in Nat : /\ Delivery = cursor + 1 .. cursor + n
                        /\ Cardinality(Delivery) = n
                        /\ cursor + n <= Len(log) /\ cursor \in Nat
<1>1. Len(log) \in Nat /\ cursor \in Nat /\ cursor <= Len(log) /\ Batch \in Nat
  BY LenProperties, LimitsAssumption DEF LogTypes, HandTypes
<1>2. ASSUME NEW n \in Nat, Delivery = cursor + 1 .. cursor + n
      PROVE  Cardinality(Delivery) = n
  BY <1>1, <1>2, FS_Interval
<1>3. CASE Waiting < Batch
  <2>1. PICK n \in Nat : n = Len(log) - cursor /\ cursor + n = Len(log)
    BY <1>1
  <2>2. Delivery = cursor + 1 .. cursor + n
    BY <1>3, <2>1 DEF Delivery
  <2>. QED  BY <1>1, <1>2, <2>1, <2>2
<1>4. CASE ~(Waiting < Batch)
  BY <1>1, <1>2, <1>4 DEF Delivery, Waiting
<1>. QED  BY <1>3, <1>4

\* What the other steps do to the consumers' hands.
LEMMA OtherCases ==
  ASSUME LogTypes, HandTypes, Other
  PROVE  \/ UNCHANGED <<cursor, pending, hand, step, retries>>
         \/ \E c \in Consumers : Get(c) \/ Ack(c) \/ AckFails(c) \/ Crash(c)
         \/ \E n \in Nat : 
              /\ redis /\ UNCHANGED <<step, retries>>
              /\ cursor' = cursor + n /\ cursor' <= Len(log) /\ cursor \in Nat
              /\ pending' = pending \cup (cursor + 1 .. cursor + n)
              /\ \/ hand' = hand
                 \/ \E c \in Consumers :
                      /\ hand[c] = << >>
                      /\ hand' = [hand EXCEPT ![c] = [i \in 1 .. n |-> cursor + i]]
<1>1. PICK n \in Nat : /\ Delivery = cursor + 1 .. cursor + n
                       /\ Cardinality(Delivery) = n
                       /\ cursor + n <= Len(log) /\ cursor \in Nat
  BY Delivered
<1>2. CASE UNCHANGED vars
  BY <1>2 DEF vars, logVars, consumerVars
<1>3. CASE ConsumeFails
  BY <1>1, <1>3 DEF ConsumeFails, consumerVars
<1>4. ASSUME NEW c \in Consumers, ConsumeBatch(c)
      PROVE  /\ redis /\ UNCHANGED <<step, retries>>
             /\ cursor' = cursor + n /\ cursor' <= Len(log) /\ cursor \in Nat
             /\ pending' = pending \cup (cursor + 1 .. cursor + n)
             /\ hand[c] = << >>
             /\ hand' = [hand EXCEPT ![c] = [i \in 1 .. n |-> cursor + i]]
  BY <1>1, <1>4 DEF ConsumeBatch
<1>. QED  BY <1>2, <1>3, <1>4 DEF Other

\* Every step keeps the types of the consumers.
LEMMA HandStep ==
  ASSUME LogTypes, HandTypes, StepTypes, [Next]_vars
  PROVE  HandTypes'
<1>1. /\ Len(log) \in Nat /\ Len(log') \in Nat /\ Len(log) <= Len(log')
      /\ redis' = redis
  BY LogStep DEF Grows
<1>2. /\ cursor \in Nat /\ cursor <= Len(log) /\ pending \subseteq 1 .. cursor
      /\ hand \in [Consumers -> Seq(1 .. cursor)] /\ step \in [Consumers -> Steps]
      /\ ~redis => pending = {}
  BY <1>1 DEF HandTypes
<1>3. ASSUME UNCHANGED <<cursor, pending>>, hand' \in [Consumers -> Seq(1 .. cursor)],
             step' \in [Consumers -> Steps]
      PROVE  HandTypes'
  BY <1>1, <1>2, <1>3 DEF HandTypes
<1>4. CASE Sending
  BY <1>2, <1>3, <1>4 DEF Sending, Send, consumerVars
<1>5. ASSUME NEW c \in Consumers, Deal(c) PROVE HandTypes'
  <2>1. hand[c] # << >> /\ UNCHANGED <<cursor, pending>>
    BY <1>5, DealCases
  <2>2. CASE OnToNext(c)
    BY <1>3, <2>1, <2>2, OnToNextHands
  <2>3. CASE Goes(c, "ack") \/ Goes(c, "put")
    BY <1>2, <1>3, <2>1, <2>3, GoesHands DEF Steps
  <2>. QED  BY <1>5, <2>2, <2>3, DealHands
<1>6. CASE Other
  <2>1. CASE UNCHANGED <<cursor, pending, hand, step>>
    BY <1>2, <1>3, <2>1
  <2>2. ASSUME NEW c \in Consumers, Get(c) PROVE HandTypes'
    <3>1. /\ cursor' = cursor + 1 /\ cursor' <= Len(log)
          /\ hand' = [hand EXCEPT ![c] = <<cursor'>>]
          /\ UNCHANGED <<redis, log, step, pending>>
      BY <1>1, <1>2, <2>2 DEF Get, Waiting
    <3>2. <<cursor'>> \in Seq(1 .. cursor') /\ 1 .. cursor \subseteq 1 .. cursor'
      BY <1>2, <3>1
    <3>3. \A d \in Consumers : hand[d] \in Seq(1 .. cursor')
      BY <1>2, <3>2, SeqMonotonic
    <3>4. hand' \in [Consumers -> Seq(1 .. cursor')]
      BY <1>2, <3>1, <3>2, <3>3
    <3>. QED  BY <1>1, <1>2, <3>1, <3>2, <3>4 DEF HandTypes
  <2>3. ASSUME NEW c \in Consumers, Ack(c) \/ AckFails(c)
        PROVE  HandTypes'
    <3>1. /\ OnToNext(c) /\ UNCHANGED <<redis, cursor, log>>
          /\ pending' \subseteq pending
      BY <2>3 DEF Ack, AckFails, logVars
    <3>2. CASE hand[c] # << >>
      <4>1. /\ hand' \in [Consumers -> Seq(1 .. cursor)]
            /\ step' \in [Consumers -> Steps]
        BY <3>1, <3>2, OnToNextHands
      <4>. QED  BY <1>1, <1>2, <3>1, <4>1 DEF HandTypes
    <3>3. CASE hand[c] = << >>
      <4>1. FALSE
        BY <2>3, <3>3 DEF Ack, AckFails, StepTypes
      <4>. QED  BY <4>1
    <3>. QED  BY <3>2, <3>3
  <2>4. ASSUME NEW c \in Consumers, Crash(c) PROVE HandTypes'
    <3>1. << >> \in Seq(1 .. cursor)
      BY EmptySeq
    <3>. QED  BY <1>2, <1>3, <2>4, <3>1 DEF Crash, logVars, Steps
  <2>5. ASSUME NEW n \in Nat, redis, step' = step,
               cursor' = cursor + n, cursor' <= Len(log),
               pending' = pending \cup (cursor + 1 .. cursor + n),
               \/ hand' = hand
               \/ \E c \in Consumers :
                    hand' = [hand EXCEPT ![c] = [i \in 1 .. n |-> cursor + i]]
        PROVE  HandTypes'
    <3>1. /\ [i \in 1 .. n |-> cursor + i] \in Seq(1 .. cursor')
          /\ 1 .. cursor \subseteq 1 .. cursor'
          /\ pending' \subseteq 1 .. cursor' /\ cursor' \in 0 .. Len(log')
      BY <1>1, <1>2, <2>5
    <3>2. \A d \in Consumers : hand[d] \in Seq(1 .. cursor')
      BY <1>2, <3>1, SeqMonotonic
    <3>3. hand' \in [Consumers -> Seq(1 .. cursor')]
      BY <1>2, <2>5, <3>1, <3>2
    <3>. QED  BY <1>1, <1>2, <2>5, <3>1, <3>3 DEF HandTypes
  <2>. QED  BY <1>6, <2>1, <2>2, <2>3, <2>4, <2>5, OtherCases
<1>. QED  BY <1>4, <1>5, <1>6, StepCases

-----------------------------------------------------------------------------
(* Retries of the queue in memory. *)

\* A copy that may still be attempted.
Live(i) == i \in 1 .. Len(log) /\ (i > cursor \/ hand[Worker] = <<i>>)

\* The asyncio.Queue has one consumer, which holds one copy at most; of each
\* message at most one copy is live, and then there are attempts left.
RetryInv ==
  ~redis =>
    /\ \A c \in Consumers : c # Worker => hand[c] = << >>
    /\ Len(hand[Worker]) <= 1
    /\ \A i : Live(i) => retries[log[i].msg] < MaxRetries
    /\ \A i, j : Live(i) /\ Live(j) /\ log[i].msg = log[j].msg => i = j
    /\ \A m \in Messages : m > relayed => retries[m] = 0

\* A sequence that is neither empty nor longer than one.
LEMMA OneInHand ==
  ASSUME NEW S, NEW s \in Seq(S), Len(s) <= 1, s # << >>
  PROVE  s = <<Head(s)>> /\ Tail(s) = << >>
<1>1. Len(s) \in Nat \ {0}
  BY EmptySeq
<1>2. Len(s) = 1 /\ Head(s) \in S /\ Head(s) = s[1]
  <2>1. \A n \in Nat \ {0} : n <= 1 => n = 1
    OBVIOUS
  <2>2. Len(s) = 1
    BY <1>1, <2>1
  <2>. QED  BY <2>2
<1>3. /\ <<Head(s)>> \in Seq(S) /\ Len(<<Head(s)>>) = 1
      /\ <<Head(s)>>[1] = Head(s)
  BY <1>2
<1>4. s = <<Head(s)>>
  BY <1>2, <1>3, SeqEqual
<1>5. Tail(s) \in Seq(S) /\ Len(Tail(s)) = 0
  BY <1>2, HeadTailProperties
<1>. QED  BY <1>4, <1>5, EmptySeq

Types == LogTypes /\ HandTypes /\ StepTypes /\ RetryTypes

\* A message that is put is live for the first time.
LEMMA MemorySends ==
  ASSUME Types, RetryInv, ~redis, Sending
  PROVE  RetryTypes' /\ RetryInv' /\ StepTypes'
<1>1. /\ LogTypes' /\ Grows
      /\ log' # log => /\ Len(log') = Len(log) + 1
                       /\ log'[Len(log) + 1].msg = relayed + 1
  BY SendLog DEF Types
<1>2. UNCHANGED <<redis, cursor, hand, step, retries>> /\ relayed' = relayed + 1
  BY DEF Sending, Send, consumerVars
<1>3. /\ Len(log) \in Nat /\ Len(log') \in Nat /\ Len(log) <= Len(log')
      /\ \A i \in 1 .. Len(log) : log'[i] = log[i]
      /\ relayed \in Nat /\ relayed + 1 \in Messages /\ cursor \in Nat
      /\ cursor <= Len(log)
  BY <1>1, LimitsAssumption
     DEF Grows, Types, LogTypes, HandTypes, Sending, Send, Messages
<1>4. \A i \in 1 .. Len(log) : log[i].msg \in 1 .. relayed
  <2>1. \A i \in 1 .. Len(log) : log[i] \in Entries(1 .. relayed)
    BY ElementOfSeq DEF Types, LogTypes
  <2>. QED  BY <2>1 DEF Entries
<1>5. ASSUME NEW i, Live(i)'
      PROVE  \/ Live(i) /\ log'[i] = log[i]
             \/ i = Len(log) + 1 /\ log'[i].msg = relayed + 1
  <2>1. i \in 1 .. Len(log') /\ (i > cursor \/ hand[Worker] = <<i>>)
    BY <1>2, <1>5 DEF Live
  <2>2. CASE i \in 1 .. Len(log)
    BY <1>3, <2>1, <2>2 DEF Live
  <2>3. CASE i \notin 1 .. Len(log)
    BY <1>1, <1>3, <2>1, <2>3
  <2>. QED  BY <2>2, <2>3
<1>6. retries[relayed + 1] = 0 /\ 0 < MaxRetries
  BY <1>3, LimitsAssumption DEF RetryInv
<1>7. \A i : Live(i)' => retries[log'[i].msg] < MaxRetries
  BY <1>5, <1>6 DEF RetryInv
<1>8. \A i, j : Live(i)' /\ Live(j)' /\ log'[i].msg = log'[j].msg => i = j
  <2>1. \A i : Live(i) => log[i].msg # relayed + 1
    BY <1>3, <1>4 DEF Live
  <2>. QED  BY <1>5, <2>1 DEF RetryInv
<1>9. \A m \in Messages : m > relayed + 1 => retries[m] = 0
  BY <1>3 DEF RetryInv, Messages
<1>10. RetryInv'
  <2>1. /\ \A c \in Consumers : c # Worker => hand'[c] = << >>
        /\ Len(hand'[Worker]) <= 1
    BY <1>2 DEF RetryInv
  <2>2. \A i : Live(i)' => retries'[log'[i].msg] < MaxRetries
    BY <1>2, <1>7
  <2>3. \A m \in Messages : m > relayed' => retries'[m] = 0
    BY <1>2, <1>9
  <2>. QED  BY <1>8, <2>1, <2>2, <2>3 DEF RetryInv
<1>11. StepTypes'
  <2>1. ~HasRoom => ~HasRoom'
    BY <1>2, <1>3, LimitsAssumption DEF HasRoom, Waiting
  <2>. QED  BY <1>2, <2>1 DEF Types, StepTypes
<1>. QED  BY <1>2, <1>10, <1>11 DEF RetryTypes, Types

\* A copy that is taken from the queue stays live.
LEMMA MemoryGets ==
  ASSUME Types, RetryInv, ~redis, NEW c \in Consumers, Get(c)
  PROVE  RetryTypes' /\ RetryInv' /\ StepTypes'
<1>1. /\ c = Worker /\ hand[c] = << >> /\ hand' = [hand EXCEPT ![c] = <<cursor + 1>>]
      /\ cursor' = cursor + 1 /\ UNCHANGED <<redis, relayed, log, step, retries>>
  BY DEF Get
<1>2. /\ hand'[Worker] = <<cursor + 1>> /\ cursor \in Nat /\ Len(log) \in Nat
      /\ \A d \in Consumers : d # Worker => hand'[d] = hand[d]
  BY <1>1, LenProperties DEF Types, HandTypes, LogTypes
<1>3. \A i : Live(i)' => Live(i)
  <2>1. ASSUME NEW i, Live(i)' PROVE i > cursor /\ i \in 1 .. Len(log)
    <3>1. i \in 1 .. Len(log) /\ (i > cursor + 1 \/ <<cursor + 1>> = <<i>>)
      BY <1>1, <1>2, <2>1 DEF Live
    <3>2. <<cursor + 1>> = <<i>> => cursor + 1 = i
      OBVIOUS
    <3>. QED  BY <1>2, <3>1, <3>2
  <2>. QED  BY <2>1 DEF Live
<1>4. RetryInv'
  BY <1>1, <1>2, <1>3 DEF RetryInv
<1>5. \A d \in Consumers : step[d] = "handle"
  BY <1>1 DEF Types, HandTypes, StepTypes, RetryInv, Steps
<1>6. StepTypes'
  BY <1>1, <1>5 DEF StepTypes
<1>. QED  BY <1>1, <1>4, <1>6 DEF RetryTypes, Types

\* A copy that was dealt with is no longer live; nack puts one back only while
\* there are attempts left.
LEMMA MemoryDeals ==
  ASSUME Types, RetryInv, ~redis, NEW c \in Consumers, Deal(c)
  PROVE  RetryTypes' /\ RetryInv' /\ StepTypes'
<1>. DEFINE m == Message(c)  f == First(c)
<1>1. /\ hand[c] # << >> /\ step[c] = "handle"
      /\ UNCHANGED <<redis, relayed, cursor>>
      /\ LogTypes' /\ Grows
      /\ log' # log => /\ Len(log') = Len(log) + 1 /\ log'[Len(log) + 1].msg = m
  BY DealCases, DealLog DEF Types
<1>2. /\ f \in 1 .. cursor /\ f \in 1 .. Len(log) /\ m \in 1 .. relayed
      /\ m \in Messages /\ m = log[f].msg
      /\ Len(log) \in Nat /\ Len(log') \in Nat /\ Len(log) <= Len(log')
      /\ \A i \in 1 .. Len(log) : log'[i] = log[i]
      /\ cursor \in Nat /\ cursor <= Len(log) /\ relayed \in Nat
  BY <1>1, FirstTyped, LimitsAssumption DEF Types, Grows, Message, LogTypes
<1>3. c = Worker /\ hand[Worker] = <<f>> /\ Tail(hand[c]) = << >>
  <2>1. c = Worker
    BY <1>1 DEF RetryInv
  <2>2. hand[c] \in Seq(1 .. cursor) /\ Len(hand[c]) <= 1
    BY <2>1 DEF Types, HandTypes, RetryInv
  <2>. QED  BY <1>1, <2>1, <2>2, OneInHand DEF First
<1>4. Live(f) /\ retries[m] < MaxRetries /\ retries[m] \in Nat
  <2>1. Live(f)
    BY <1>2, <1>3 DEF Live
  <2>. QED  BY <1>2, <2>1 DEF RetryInv, Types, RetryTypes
<1>5. ASSUME NEW i, Live(i), i # f
      PROVE  i > cursor /\ i \in 1 .. Len(log) /\ log[i].msg # m /\ log[i].msg \in Messages
  <2>1. i \in 1 .. Len(log) /\ (i > cursor \/ <<f>> = <<i>>)
    BY <1>3, <1>5 DEF Live
  <2>2. <<f>> = <<i>> => f = i
    OBVIOUS
  <2>3. log[i] \in Entries(1 .. relayed)
    BY <2>1, ElementOfSeq DEF Types, LogTypes
  <2>4. log[i].msg \in Messages
    <3>1. log[i].msg \in 1 .. relayed
      BY <2>3 DEF Entries
    <3>2. relayed <= Events /\ relayed \in Nat
      BY <1>2, LimitsAssumption DEF Types, LogTypes
    <3>. QED  BY <3>1, <3>2, LimitsAssumption DEF Messages
  <2>5. log[i].msg # m
    BY <1>2, <1>4, <1>5 DEF RetryInv
  <2>. QED  BY <1>5, <2>1, <2>2, <2>4, <2>5
<1>. HIDE DEF m, f
<1>6. CASE OnToNext(c)
  <2>1. /\ hand'[Worker] = << >> /\ step'[Worker] = "handle"
        /\ \A d \in Consumers \ {Worker} : hand'[d] = << >> /\ step'[d] = step[d]
    BY <1>1, <1>3, <1>6, OnToNextHands DEF Types, RetryInv
  <2>2. ASSUME NEW i, Live(i)'
        PROVE  \/ i # f /\ Live(i) /\ log'[i] = log[i]
               \/ i = Len(log) + 1 /\ log'[i].msg = m /\ log' # log
    <3>1. i \in 1 .. Len(log') /\ i > cursor
      BY <1>1, <2>1, <2>2 DEF Live
    <3>2. CASE i \in 1 .. Len(log)
      BY <1>2, <3>1, <3>2 DEF Live
    <3>3. CASE i \notin 1 .. Len(log)
      BY <1>1, <1>2, <3>1, <3>3
    <3>. QED  BY <3>2, <3>3
  <2>3. \A i, j : Live(i)' /\ Live(j)' /\ log'[i].msg = log'[j].msg => i = j
    BY <1>5, <2>2 DEF RetryInv
  <2>4. /\ \A n \in Messages : n # m => retries'[n] = retries[n]
        /\ log' # log => retries'[m] < MaxRetries
        /\ RetryTypes'
    <3>1. CASE Handled(c)
      BY <3>1 DEF Handled, logVars, Types, RetryTypes
    <3>2. CASE Nack(c)
      <4>1. retries' = [retries EXCEPT ![m] = retries[m] + 1]
        BY <3>2 DEF Nack, m
      <4>2. retries[m] + 1 \in 0 .. MaxRetries
        BY <1>4, LimitsAssumption
      <4>3. RetryTypes'
        BY <4>1, <4>2 DEF RetryTypes, Types
      <4>4. retries'[m] = retries[m] + 1 /\ \A n \in Messages : n # m => retries'[n] = retries[n]
        BY <1>2, <4>1 DEF RetryTypes, Types
      <4>5. log' # log => ~Exhausted(retries'[m])
        BY <3>2 DEF Nack, m
      <4>6. ~Exhausted(retries'[m]) => retries'[m] < MaxRetries
        BY <4>2, <4>4, LimitsAssumption DEF Exhausted
      <4>. QED  BY <4>3, <4>4, <4>5, <4>6
    <3>. QED  BY <3>1, <3>2 DEF Deal, StreamHandled, StreamNack, StreamNackFails
  <2>5. \A i : Live(i)' => retries'[log'[i].msg] < MaxRetries
    BY <1>5, <2>2, <2>4 DEF RetryInv
  <2>6. \A n \in Messages : n > relayed => retries'[n] = 0
    <3>1. \A n \in Messages : n > relayed => n # m
      BY <1>2
    <3>. QED  BY <2>4, <3>1 DEF RetryInv
  <2>7. RetryInv'
    <3>1. Len(<< >>) <= 1
      OBVIOUS
    <3>. QED  BY <1>1, <2>1, <2>3, <2>5, <2>6, <3>1 DEF RetryInv
  <2>8. \A d \in Consumers \ {Worker} : step[d] = "handle"
    BY DEF Types, HandTypes, StepTypes, RetryInv, Steps
  <2>. QED  BY <2>1, <2>4, <2>7, <2>8 DEF StepTypes
<1>7. CASE ~redis /\ Goes(c, "put") /\ ~HasRoom /\ log' = log
  <2>1. /\ hand' = hand /\ step'[c] = "put"
        /\ \A d \in Consumers \ {c} : step'[d] = step[d]
    BY <1>7, GoesHands DEF Types, Steps
  <2>2. CASE Handled(c)
    <3>1. step'[c] = "handle"
      BY <1>1, <2>2, OnToNextHands DEF Handled, logVars, Types
    <3>. QED  BY <2>1, <3>1
  <2>3. CASE Nack(c) /\ ~Exhausted(retries'[m])
    <3>1. retries' = [retries EXCEPT ![m] = retries[m] + 1]
      BY <2>3 DEF Nack, m
    <3>2. retries[m] + 1 \in 0 .. MaxRetries
      BY <1>4, LimitsAssumption
    <3>3. RetryTypes'
      BY <3>1, <3>2 DEF RetryTypes, Types
    <3>4. /\ retries'[m] = retries[m] + 1
          /\ \A n \in Messages : n # m => retries'[n] = retries[n]
      BY <1>2, <3>1 DEF RetryTypes, Types
    <3>5. retries'[m] < MaxRetries
      BY <2>3, <3>2, <3>4, LimitsAssumption DEF Exhausted
    <3>6. \A i : Live(i)' <=> Live(i)
      BY <1>1, <1>7, <2>1 DEF Live
    <3>7. \A i : Live(i) => retries'[log[i].msg] < MaxRetries
      BY <1>2, <1>5, <3>4, <3>5 DEF RetryInv
    <3>8. \A n \in Messages : n > relayed => retries'[n] = 0
      <4>1. \A n \in Messages : n > relayed => n # m
        BY <1>2
      <4>. QED  BY <3>4, <4>1 DEF RetryInv
    <3>9. RetryInv'
      BY <1>1, <1>7, <2>1, <3>6, <3>7, <3>8 DEF RetryInv
    <3>10. StepTypes'
      BY <1>1, <1>7, <2>1 DEF StepTypes, Types, HasRoom, Waiting
    <3>. QED  BY <3>3, <3>9, <3>10
  <2>4. CASE Nack(c) /\ Exhausted(retries'[m])
    <3>1. step'[c] = "handle"
      BY <1>1, <2>4, OnToNextHands DEF Nack, m, Types
    <3>. QED  BY <2>1, <3>1
  <2>. QED  BY <2>2, <2>3, <2>4 DEF Deal, StreamHandled, StreamNack, StreamNackFails
<1>. QED  BY <1>6, <1>7, DealHands

\* In Redis a retry count is in the message, and nobody waits for room.
LEMMA RedisSteps ==
  ASSUME Types, redis, [Next]_vars
  PROVE  RetryTypes' /\ RetryInv' /\ StepTypes'
<1>1. redis' = redis /\ \A c \in Consumers : step[c] \in {"handle", "ack"}
  BY LogStep DEF Types, HandTypes, StepTypes, Steps
<1>2. RetryInv'
  BY <1>1 DEF RetryInv
<1>3. CASE Sending
  BY <1>1, <1>2, <1>3 DEF Sending, Send, consumerVars, Types, RetryTypes, StepTypes
<1>4. ASSUME NEW c \in Consumers, Deal(c) PROVE RetryTypes' /\ StepTypes'
  <2>1. hand[c] # << >> /\ step[c] = "handle" /\ UNCHANGED <<redis, cursor>>
    BY <1>4, DealCases DEF Types
  <2>2. retries' = retries
    BY <1>4 DEF Deal, Handled, Nack, StreamHandled, StreamNack, StreamNackFails
  <2>3. CASE OnToNext(c)
    BY <1>1, <2>1, <2>2, <2>3, OnToNextHands DEF Types, RetryTypes, StepTypes
  <2>4. CASE Goes(c, "ack")
    BY <1>1, <2>1, <2>2, <2>4, GoesHands DEF Types, RetryTypes, StepTypes, Steps
  <2>. QED  BY <1>4, <2>3, <2>4, DealHands
<1>5. CASE Other
  <2>1. ASSUME NEW c \in Consumers, hand[c] = << >>
        PROVE  step[c] = "handle"
    BY <1>1, <2>1 DEF Types, StepTypes
  <2>2. ASSUME UNCHANGED <<step, retries>>,
               \A c \in Consumers : hand[c] # << >> => hand'[c] # << >>
        PROVE  RetryTypes' /\ StepTypes'
    <3>1. RetryTypes'
      BY <2>2 DEF Types, RetryTypes
    <3>2. \A c \in Consumers : step'[c] # "handle" => hand'[c] # << >>
      BY <2>1, <2>2
    <3>3. \A c \in Consumers : step'[c] # "put"
      BY <1>1, <2>2
    <3>. QED  BY <1>1, <3>1, <3>2, <3>3 DEF StepTypes, Types
  <2>3. ASSUME NEW c \in Consumers, Ack(c) \/ AckFails(c)
        PROVE  RetryTypes' /\ StepTypes'
    <3>1. /\ hand[c] # << >> /\ OnToNext(c) /\ UNCHANGED <<cursor, retries>>
      BY <2>3 DEF Ack, AckFails, logVars, Types, StepTypes
    <3>. QED  BY <1>1, <3>1, OnToNextHands DEF Types, RetryTypes, StepTypes
  <2>4. ASSUME NEW c \in Consumers, Crash(c) PROVE RetryTypes' /\ StepTypes'
    BY <1>1, <2>4 DEF Crash, Types, HandTypes, RetryTypes, StepTypes
  <2>5. ASSUME NEW n \in Nat, NEW c \in Consumers, hand[c] = << >>,
               hand' = [hand EXCEPT ![c] = [i \in 1 .. n |-> cursor + i]],
               UNCHANGED <<step, retries>>
        PROVE  RetryTypes' /\ StepTypes'
    <3>1. \A d \in Consumers : d # c => hand'[d] = hand[d]
      BY <2>5 DEF Types, HandTypes
    <3>. QED  BY <2>2, <2>5, <3>1
  <2>6. ASSUME NEW c \in Consumers PROVE ~Get(c)
    BY DEF Get
  <2>7. CASE hand' = hand /\ UNCHANGED <<step, retries>>
    BY <1>2, <2>2, <2>7
  <2>. QED  BY <1>2, <1>5, <2>3, <2>4, <2>5, <2>6, <2>7, OtherCases DEF Types
<1>. QED  BY <1>2, <1>3, <1>4, <1>5, StepCases

\* Every step keeps the types and the retry counts.
LEMMA TypesStep ==
  ASSUME Types, RetryInv, [Next]_vars
  PROVE  (Types /\ RetryInv)'
<1>1. LogTypes' /\ HandTypes'
  BY LogStep, HandStep DEF Types
<1>2. CASE ~redis /\ Other
  <2>1. \A c \in Consumers : ~ConsumeBatch(c) /\ ~Crash(c) /\ ~Ack(c) /\ ~AckFails(c)
    BY <1>2 DEF ConsumeBatch, Crash, Ack, AckFails, Types, StepTypes
  <2>2. CASE UNCHANGED vars
    <3>1. UNCHANGED <<redis, relayed, log, cursor, hand, step, retries>>
      BY <2>2 DEF vars, logVars, consumerVars
    <3>2. StepTypes' /\ RetryTypes'
      BY <3>1 DEF Types, StepTypes, RetryTypes, HasRoom, Waiting
    <3>3. RetryInv'
      BY <3>1 DEF RetryInv, Live
    <3>. QED  BY <1>1, <3>2, <3>3 DEF Types
  <2>3. (\E c \in Consumers : Get(c)) \/ UNCHANGED vars
    BY <1>2, <2>1 DEF Other, ConsumeFails
  <2>. QED  BY <1>1, <1>2, <2>2, <2>3, MemoryGets DEF Types
<1>3. redis \in BOOLEAN
  BY DEF Types, LogTypes
<1>. QED  BY <1>1, <1>2, <1>3, StepCases, MemorySends, MemoryDeals, RedisSteps
          DEF Types

\* The types and the retry counts at the start.
LEMMA TypesInit == Init => Types /\ RetryInv
<1>. SUFFICES ASSUME Init PROVE Types /\ RetryInv
  OBVIOUS
<1>1. /\ redis \in BOOLEAN /\ relayed = 0 /\ log = << >> /\ cursor = 0 /\ dlq = << >>
      /\ hand = [c \in Consumers |-> << >>] /\ step = [c \in Consumers |-> "handle"]
      /\ pending = {} /\ retries = [m \in Messages |-> 0] /\ handled = {}
  BY DEF Init
<1>2. \A S : << >> \in Seq(S) /\ Len(<< >>) = 0
  BY EmptySeq
<1>3. LogTypes
  BY <1>1, <1>2, LimitsAssumption DEF LogTypes
<1>4. HandTypes
  BY <1>1, <1>2 DEF HandTypes, Steps
<1>5. StepTypes /\ RetryTypes
  BY <1>1, LimitsAssumption DEF StepTypes, RetryTypes
<1>6. RetryInv
  <2>1. \A i : ~Live(i)
    BY <1>1, <1>2 DEF Live
  <2>. QED  BY <1>1, <1>2, <2>1, WorkerAssumption DEF RetryInv
<1>. QED  BY <1>3, <1>4, <1>5, <1>6 DEF Types

\* The variables keep their types, with the retry counts within MAX_RETRIES, and
\* the only consumer waits for room only where the queue is full.
THEOREM TypeCorrect == Spec => []TypeOK
<1>1. Types => TypeOK
  BY TypeParts DEF Types
<1>. QED  BY <1>1, TypesInit, TypesStep, PTL DEF Spec

-----------------------------------------------------------------------------
(* Nothing is forgotten. *)

\* The message of copy i is settled, or there is a later copy of it.
Accounted(i) ==
  \/ Settled(log[i].msg)
  \/ \E k \in i + 1 .. Len(log) : log[k].msg = log[i].msg

\* NothingForgotten; in Redis a copy in a consumer's hands is pending as long
\* as it is not accounted for, and it is acked only when it is.
Accounts ==
  /\ \A i \in 1 .. Len(log) :
       i > cursor \/ InHand(i) \/ i \in pending \/ Accounted(i)
  /\ redis => \A c \in Consumers : \A i \in Range(hand[c]) :
                i \in pending \/ Accounted(i)
  /\ \A c \in Consumers : step[c] = "ack" => Accounted(First(c))

\* A copy that is accounted for stays so, as nothing is taken from the log.
LEMMA AccountedStays ==
  ASSUME Grows, NEW i \in 1 .. Len(log), Accounted(i)
  PROVE  Accounted(i)'
<1>1. log'[i] = log[i]
  BY DEF Grows
<1>2. CASE Settled(log[i].msg)
  BY <1>1, <1>2 DEF Grows, Settled, Accounted
<1>3. ASSUME NEW k \in i + 1 .. Len(log), log[k].msg = log[i].msg
      PROVE  Accounted(i)'
  <2>1. k \in i + 1 .. Len(log') /\ k \in 1 .. Len(log)
    BY <1>3 DEF Grows
  <2>2. log'[k] = log[k]
    BY <2>1 DEF Grows
  <2>. QED  BY <1>1, <1>3, <2>1, <2>2 DEF Accounted
<1>. QED  BY <1>2, <1>3 DEF Accounted

\* A step that takes from hands and from the pending entries only what is
\* accounted for, and delivers nothing.
LEMMA KeepsAccounts ==
  ASSUME Types, Accounts, Grows, UNCHANGED <<redis, cursor>>,
         \A i \in 1 .. Len(log) : InHand(i) => \/ InHand(i)' \/ i \in pending'
                                               \/ Accounted(i)',
         \A i \in 1 .. Len(log) : i \in pending => i \in pending' \/ Accounted(i)',
         \A c \in Consumers : Range(hand'[c]) \subseteq Range(hand[c]),
         \A c \in Consumers : step'[c] = "ack" =>
             First(c) \in 1 .. Len(log) /\ First(c)' = First(c) /\ Accounted(First(c))'
  PROVE  Accounts'
<1>1. Len(log) \in Nat /\ Len(log') \in Nat /\ cursor \in Nat /\ cursor <= Len(log)
  BY DEF Grows, Types, HandTypes
<1>2. \A i \in 1 .. Len(log) : Accounted(i) => Accounted(i)'
  BY AccountedStays
<1>3. \A i \in 1 .. Len(log') : i > cursor' \/ InHand(i)' \/ i \in pending' \/ Accounted(i)'
  <2>1. ASSUME NEW i \in 1 .. Len(log'), ~(i > cursor)
        PROVE  InHand(i)' \/ i \in pending' \/ Accounted(i)'
    <3>1. i \in 1 .. Len(log)
      BY <1>1, <2>1
    <3>. QED  BY <1>2, <2>1, <3>1 DEF Accounts
  <2>. QED  BY <2>1
<1>4. ASSUME redis, NEW c \in Consumers, NEW i \in Range(hand'[c])
      PROVE  i \in pending' \/ Accounted(i)'
  <2>1. i \in Range(hand[c])
    BY <1>4
  <2>2. hand[c] \in Seq(1 .. cursor)
    BY DEF Types, HandTypes
  <2>3. i \in 1 .. Len(log)
    BY <1>1, <2>1, <2>2, InRange
  <2>. QED  BY <1>2, <1>4, <2>1, <2>3 DEF Accounts
<1>5. \A c \in Consumers : step'[c] = "ack" => Accounted(First(c))'
  OBVIOUS
<1>. QED  BY <1>3, <1>4, <1>5 DEF Accounts

\* A copy whose message is now settled, or has a later copy, is accounted for.
LEMMA NowAccounted ==
  ASSUME Grows, NEW f \in 1 .. Len(log), NEW m, m = log[f].msg,
         \/ m \in handled' \/ m \in Range(dlq')
         \/ \E k \in f + 1 .. Len(log') : log'[k].msg = m
  PROVE  Accounted(f)'
<1>1. log'[f].msg = m
  BY DEF Grows
<1>. QED  BY <1>1 DEF Accounted, Settled

\* A consumer is done with a copy, buries its message or sends it back, unless
\* the command that sends it back fails or has to wait for room.
LEMMA DealAccounts ==
  ASSUME Types, NEW c \in Consumers, Deal(c), NEW f, f = First(c)
  PROVE  Accounted(f)' \/ (redis /\ OnToNext(c)) \/ Goes(c, "put")
<1>1. PICK m : m = Message(c)
  OBVIOUS
<1>2. /\ hand[c] # << >> /\ LogTypes' /\ Grows
      /\ f \in 1 .. Len(log) /\ m = log[f].msg /\ m \in 1 .. relayed
      /\ Len(log) \in Nat /\ relayed \in Nat
  BY <1>1, DealCases, DealLog, FirstTyped, LimitsAssumption
     DEF Types, Message, LogTypes
<1>3. ASSUME dlq' = Append(dlq, m) PROVE Accounted(f)'
  <2>1. m \in Range(dlq')
    <3>1. dlq \in Seq(1 .. relayed)
      BY DEF Types, LogTypes
    <3>2. Range(Append(dlq, m)) = Range(dlq) \cup {m}
      BY <1>2, <3>1, Appended
    <3>. QED  BY <1>3, <3>2
  <2>. QED  BY <1>2, <2>1, NowAccounted
<1>4. ASSUME NEW n \in 0 .. MaxRetries, log' = Append(log, Copy(m, n))
      PROVE  Accounted(f)'
  <2>1. Len(log') = Len(log) + 1 /\ log'[Len(log) + 1].msg = m
    BY <1>2, <1>4, LogAppended DEF Types
  <2>2. Len(log) + 1 \in f + 1 .. Len(log')
    BY <1>2, <2>1
  <2>. QED  BY <1>2, <2>1, <2>2, NowAccounted
<1>5. ASSUME handled' = handled \cup {m} PROVE Accounted(f)'
  <2>1. m \in handled'
    BY <1>5
  <2>. QED  BY <1>2, <2>1, NowAccounted
<1>6. CASE Handled(c) \/ StreamHandled(c)
  BY <1>1, <1>5, <1>6 DEF Handled, StreamHandled
<1>7. CASE Nack(c)
  <2>1. 0 \in 0 .. MaxRetries
    BY LimitsAssumption
  <2>. QED  BY <1>1, <1>3, <1>4, <1>7, <2>1 DEF Nack
<1>8. CASE StreamNack(c)
  <2>1. PICK n \in 0 .. MaxRetries : n = log[First(c)].retries
    BY <1>2, FirstTyped DEF Types
  <2>2. ~Exhausted(n) => n + 1 \in 0 .. MaxRetries
    BY <2>1, LimitsAssumption DEF Exhausted
  <2>. QED  BY <1>1, <1>3, <1>4, <1>8, <2>1, <2>2 DEF StreamNack, AddBack
<1>9. CASE StreamNackFails(c)
  BY <1>9 DEF StreamNackFails
<1>. QED  BY <1>6, <1>7, <1>8, <1>9 DEF Deal

\* Every step keeps the accounts.
LEMMA AccountsStep ==
  ASSUME Types, Accounts, [Next]_vars
  PROVE  Accounts'
<1>1. /\ Grows /\ redis' = redis /\ cursor \in Nat /\ Len(log) \in Nat
      /\ cursor <= Len(log)
  BY LogStep DEF Types, HandTypes, Grows
<1>2. \A i \in 1 .. Len(log) : Accounted(i) => Accounted(i)'
  BY <1>1, AccountedStays
<1>3. ASSUME NEW c \in Consumers, step[c] = "ack"
      PROVE  First(c) \in 1 .. Len(log) /\ Accounted(First(c))
  <2>1. hand[c] # << >>
    BY <1>3 DEF Types, StepTypes
  <2>. QED  BY <1>3, <2>1, FirstTyped DEF Types, Accounts
<1>4. ASSUME UNCHANGED hand, NEW c \in Consumers, step[c] = "ack"
      PROVE  /\ First(c) \in 1 .. Len(log) /\ First(c)' = First(c)
             /\ Accounted(First(c))'
  <2>1. PICK f : f = First(c) /\ f \in 1 .. Len(log) /\ Accounted(f)
    BY <1>3, <1>4
  <2>2. Accounted(f)' /\ First(c)' = f
    BY <1>2, <1>4, <2>1 DEF First
  <2>. QED  BY <2>1, <2>2 DEF Accounted
<1>5. ASSUME UNCHANGED <<cursor, hand, step, pending>> PROVE Accounts'
  <2>1. \A i : InHand(i)' <=> InHand(i)
    BY <1>5 DEF InHand
  <2>. QED  BY <1>1, <1>4, <1>5, <2>1, KeepsAccounts
<1>6. CASE Sending
  BY <1>5, <1>6 DEF Sending, Send, consumerVars
<1>7. ASSUME NEW c \in Consumers, Deal(c) PROVE Accounts'
  <2>1. /\ hand[c] # << >> /\ step[c] = "handle" /\ UNCHANGED <<cursor, pending>>
    BY <1>7, DealCases DEF Types
  <2>2. PICK f : f = First(c) /\ f \in 1 .. Len(log)
    BY <2>1, FirstTyped DEF Types
  <2>3. \A d \in Consumers : hand'[d] = hand[d] => First(d)' = First(d)
    BY DEF First
  <2>4. \A g : \A d \in Consumers : g = First(d) /\ First(d)' = g /\ Accounted(g)'
                                  => Accounted(First(d))'
    BY DEF Accounted
  <2>5. CASE OnToNext(c)
    <3>1. /\ \A i : InHand(i) => InHand(i)' \/ i = f
          /\ \A d \in Consumers : Range(hand'[d]) \subseteq Range(hand[d])
          /\ step'[c] = "handle"
          /\ \A d \in Consumers \ {c} : hand'[d] = hand[d] /\ step'[d] = step[d]
      BY <2>1, <2>2, <2>5, OnToNextHands DEF Types
    <3>2. f \in pending \/ Accounted(f)'
      <4>1. CASE redis
        <5>1. f \in Range(hand[c])
          BY <2>1, <2>2, Tailed DEF Types, HandTypes, First
        <5>. QED  BY <1>2, <2>2, <4>1, <5>1 DEF Accounts
      <4>2. CASE ~redis
        <5>1. ~Goes(c, "put")
          BY <2>1, <3>1, GoesHands DEF Types, Steps
        <5>. QED  BY <1>7, <2>2, <4>2, <5>1, DealAccounts
      <4>. QED  BY <4>1, <4>2
    <3>3. \A d \in Consumers : step'[d] = "ack" =>
            First(d) \in 1 .. Len(log) /\ First(d)' = First(d) /\ Accounted(First(d))'
      BY <1>2, <1>3, <2>3, <2>4, <3>1
    <3>. QED  BY <1>1, <2>1, <3>1, <3>2, <3>3, KeepsAccounts
  <2>6. ASSUME NEW s \in Steps, Goes(c, s), s = "ack" => Accounted(f)' PROVE Accounts'
    <3>1. /\ hand' = hand /\ step'[c] = s
          /\ \A d \in Consumers \ {c} : step'[d] = step[d]
      BY <2>6, GoesHands DEF Types
    <3>2. \A i : InHand(i)' <=> InHand(i)
      BY <3>1 DEF InHand
    <3>3. s = "ack" => First(c) \in 1 .. Len(log) /\ First(c)' = First(c)
                         /\ Accounted(First(c))'
      BY <2>2, <2>3, <2>4, <2>6, <3>1
    <3>4. \A d \in Consumers : step'[d] = "ack" =>
            First(d) \in 1 .. Len(log) /\ First(d)' = First(d) /\ Accounted(First(d))'
      BY <1>2, <1>3, <2>3, <2>4, <3>1, <3>3
    <3>. QED  BY <1>1, <2>1, <3>1, <3>2, <3>4, KeepsAccounts
  <2>7. CASE Goes(c, "put")
    BY <2>6, <2>7 DEF Steps
  <2>8. CASE Goes(c, "ack")
    <3>1. step'[c] = "ack"
      BY <2>8, GoesHands DEF Types, Steps
    <3>2. ~OnToNext(c) /\ ~Goes(c, "put")
      BY <2>1, <3>1, OnToNextHands, GoesHands DEF Types, Steps
    <3>3. Accounted(f)'
      BY <1>7, <2>2, <3>2, DealAccounts
    <3>. QED  BY <2>6, <2>8, <3>3 DEF Steps
  <2>. QED  BY <1>7, <2>5, <2>7, <2>8, DealHands
<1>8. CASE Other
  <2>1. /\ UNCHANGED <<redis, log, dlq, handled>>
        /\ \A i : Accounted(i)' <=> Accounted(i)
    BY <1>8, OtherLog DEF Types, Accounted, Settled
  <2>2. CASE UNCHANGED <<cursor, pending, hand, step>>
    BY <1>5, <2>2
  <2>3. ASSUME NEW c \in Consumers, Get(c) PROVE Accounts'
    <3>1. /\ ~redis /\ hand[c] = << >> /\ UNCHANGED <<step, pending>>
          /\ cursor' = cursor + 1 /\ hand' = [hand EXCEPT ![c] = <<cursor + 1>>]
      BY <2>3 DEF Get
    <3>2. /\ hand'[c] = <<cursor + 1>>
          /\ \A d \in Consumers \ {c} : hand'[d] = hand[d]
      BY <3>1 DEF Types, HandTypes
    <3>3. cursor + 1 \in Range(hand'[c]) /\ Range(hand[c]) = {}
      <4>1. <<cursor + 1>>[1] = cursor + 1 /\ 1 \in DOMAIN <<cursor + 1>>
        OBVIOUS
      <4>2. Range(<< >>) = {}
        BY DEF Range
      <4>. QED  BY <3>1, <3>2, <4>1, <4>2 DEF Range
    <3>4. \A i : InHand(i) => InHand(i)'
      BY <3>2, <3>3 DEF InHand
    <3>5. \A i : i = cursor + 1 => InHand(i)'
      BY <3>3 DEF InHand
    <3>6. \A i \in 1 .. Len(log) : i > cursor => i = cursor + 1 \/ i > cursor + 1
      BY <1>1
    <3>7. \A i \in 1 .. Len(log') :
            i > cursor' \/ InHand(i)' \/ i \in pending' \/ Accounted(i)'
      BY <2>1, <3>1, <3>4, <3>5, <3>6 DEF Accounts
    <3>8. \A d \in Consumers : step'[d] # "ack"
      BY <3>1 DEF Types, StepTypes
    <3>. QED  BY <2>1, <3>1, <3>7, <3>8 DEF Accounts
  <2>4. ASSUME NEW c \in Consumers, Ack(c) \/ AckFails(c) PROVE Accounts'
    <3>1. /\ step[c] = "ack" /\ OnToNext(c) /\ cursor' = cursor
          /\ pending \subseteq pending' \cup {First(c)}
      BY <2>4 DEF Ack, AckFails, logVars
    <3>2. hand[c] # << >> /\ First(c) \in 1 .. Len(log) /\ Accounted(First(c))
      BY <1>3, <3>1 DEF Types, StepTypes
    <3>3. /\ \A i : InHand(i) => InHand(i)' \/ i = First(c)
          /\ \A d \in Consumers : Range(hand'[d]) \subseteq Range(hand[d])
          /\ step'[c] = "handle"
          /\ \A d \in Consumers \ {c} : hand'[d] = hand[d] /\ step'[d] = step[d]
      BY <3>1, <3>2, OnToNextHands DEF Types
    <3>4. \A d \in Consumers : step'[d] = "ack" =>
            First(d) \in 1 .. Len(log) /\ First(d)' = First(d) /\ Accounted(First(d))'
      <4>1. ASSUME NEW d \in Consumers, step'[d] = "ack"
            PROVE  First(d) \in 1 .. Len(log) /\ First(d)' = First(d)
                     /\ Accounted(First(d))'
        <5>1. d # c /\ step[d] = "ack" /\ hand'[d] = hand[d]
          BY <3>3, <4>1
        <5>2. PICK g : g = First(d) /\ g \in 1 .. Len(log) /\ Accounted(g)
          BY <1>3, <5>1
        <5>3. First(d)' = g /\ Accounted(g)'
          BY <2>1, <5>1, <5>2 DEF First
        <5>. QED  BY <5>2, <5>3 DEF Accounted
      <4>. QED  BY <4>1
    <3>5. PICK f : f = First(c) /\ Accounted(f)'
      BY <2>1, <3>2
    <3>. QED  BY <1>1, <2>1, <3>1, <3>3, <3>4, <3>5, KeepsAccounts
  <2>5. ASSUME NEW c \in Consumers, Crash(c) PROVE Accounts'
    <3>1. /\ redis /\ UNCHANGED <<cursor, pending>>
          /\ hand' = [hand EXCEPT ![c] = << >>]
          /\ step' = [step EXCEPT ![c] = "handle"]
      BY <2>5 DEF Crash, logVars
    <3>2. /\ hand'[c] = << >> /\ step'[c] = "handle"
          /\ \A d \in Consumers \ {c} : hand'[d] = hand[d] /\ step'[d] = step[d]
      BY <3>1 DEF Types, HandTypes
    <3>3. \A d \in Consumers : Range(hand'[d]) \subseteq Range(hand[d])
      BY <3>2 DEF Range
    <3>4. \A i : InHand(i) => InHand(i)' \/ i \in pending' \/ Accounted(i)'
      <4>1. \A i : InHand(i) => InHand(i)' \/ i \in Range(hand[c])
        BY <3>2 DEF InHand
      <4>2. \A i \in Range(hand[c]) : i \in pending \/ Accounted(i)
        BY <3>1 DEF Accounts
      <4>. QED  BY <2>1, <3>1, <4>1, <4>2
    <3>5. \A d \in Consumers : step'[d] = "ack" =>
            First(d) \in 1 .. Len(log) /\ First(d)' = First(d) /\ Accounted(First(d))'
      <4>1. ASSUME NEW d \in Consumers, step'[d] = "ack"
            PROVE  First(d) \in 1 .. Len(log) /\ First(d)' = First(d)
                     /\ Accounted(First(d))'
        <5>1. d # c /\ step[d] = "ack" /\ hand'[d] = hand[d]
          BY <3>2, <4>1
        <5>2. PICK g : g = First(d) /\ g \in 1 .. Len(log) /\ Accounted(g)
          BY <1>3, <5>1
        <5>3. First(d)' = g /\ Accounted(g)'
          BY <2>1, <5>1, <5>2 DEF First
        <5>. QED  BY <5>2, <5>3 DEF Accounted
      <4>. QED  BY <4>1
    <3>. QED  BY <1>1, <2>1, <3>1, <3>3, <3>4, <3>5, KeepsAccounts
  <2>6. ASSUME NEW n \in Nat, redis, step' = step, cursor' = cursor + n,
               pending' = pending \cup (cursor + 1 .. cursor + n),
               \A d \in Consumers :
                 \/ hand'[d] = hand[d]
                 \/ hand[d] = << >> /\ hand'[d] = [i \in 1 .. n |-> cursor + i]
        PROVE  Accounts'
    <3>1. \A i : InHand(i) => InHand(i)'
      <4>1. Range(<< >>) = {}
        BY DEF Range
      <4>. QED  BY <2>6, <4>1 DEF InHand
    <3>2. \A i \in 1 .. Len(log') :
            i > cursor' \/ InHand(i)' \/ i \in pending' \/ Accounted(i)'
      <4>1. ASSUME NEW i \in 1 .. Len(log)
            PROVE  i > cursor + n \/ InHand(i)' \/ i \in pending' \/ Accounted(i)
        <5>1. i > cursor => i > cursor + n \/ i \in cursor + 1 .. cursor + n
          BY <1>1
        <5>. QED  BY <2>6, <3>1, <5>1 DEF Accounts
      <4>. QED  BY <2>1, <2>6, <4>1
    <3>3. ASSUME NEW d \in Consumers, NEW i \in Range(hand'[d])
          PROVE  i \in pending' \/ Accounted(i)'
      <4>1. CASE hand'[d] = hand[d]
        BY <2>1, <2>6, <3>3, <4>1 DEF Accounts
      <4>2. CASE hand'[d] = [k \in 1 .. n |-> cursor + k]
        <5>1. i \in cursor + 1 .. cursor + n
          BY <1>1, <3>3, <4>2 DEF Range
        <5>. QED  BY <2>6, <5>1
      <4>. QED  BY <2>6, <4>1, <4>2
    <3>4. ASSUME NEW d \in Consumers, step'[d] = "ack" PROVE Accounted(First(d))'
      <4>1. step[d] = "ack" /\ hand[d] # << >> /\ hand'[d] = hand[d]
        BY <2>6, <3>4 DEF Types, StepTypes
      <4>2. PICK g : g = First(d) /\ Accounted(g)
        BY <1>3, <4>1
      <4>3. First(d)' = g /\ Accounted(g)'
        BY <2>1, <4>1, <4>2 DEF First
      <4>. QED  BY <4>2, <4>3 DEF Accounted
    <3>. QED  BY <3>2, <3>3, <3>4 DEF Accounts
  <2>7. ASSUME NEW n \in Nat, redis, step' = step, cursor' = cursor + n,
               pending' = pending \cup (cursor + 1 .. cursor + n),
               \/ hand' = hand
               \/ \E c \in Consumers :
                    /\ hand[c] = << >>
                    /\ hand' = [hand EXCEPT ![c] = [i \in 1 .. n |-> cursor + i]]
        PROVE  Accounts'
    <3>1. \A d \in Consumers :
            \/ hand'[d] = hand[d]
            \/ hand[d] = << >> /\ hand'[d] = [i \in 1 .. n |-> cursor + i]
      BY <2>7 DEF Types, HandTypes
    <3>. QED  BY <2>6, <2>7, <3>1
  <2>. QED  BY <1>8, <2>2, <2>3, <2>4, <2>5, <2>7, OtherCases DEF Types
<1>. QED  BY <1>6, <1>7, <1>8, StepCases

\* In either queue, whichever command fails and whichever consumer stops, every
\* copy of a message is still to be delivered, in a consumer's hands, on record
\* as pending, settled, or followed by another.
THEOREM NothingIsForgotten == Spec => []NothingForgotten
<1>1. Init => Accounts
  <2>. SUFFICES ASSUME Init PROVE Accounts
    OBVIOUS
  <2>1. /\ log = << >> /\ Len(<< >>) = 0
        /\ \A c \in Consumers : hand[c] = << >> /\ step[c] = "handle"
    BY DEF Init
  <2>2. Range(<< >>) = {}
    BY DEF Range
  <2>. QED  BY <2>1, <2>2 DEF Accounts
<1>2. Types /\ Accounts => NothingForgotten
  <2>. SUFFICES ASSUME Types, Accounts PROVE NothingForgotten
    OBVIOUS
  <2>1. DOMAIN log = 1 .. Len(log)
    BY LenProperties DEF Types, LogTypes
  <2>. QED  BY <2>1 DEF Accounts, Accounted, NothingForgotten
<1>. QED  BY <1>1, <1>2, TypesInit, TypesStep, AccountsStep, PTL DEF Spec

-----------------------------------------------------------------------------
(* The promise of RetryQueue. *)

\* What a consumer has not dealt with yet.
Work(c) == IF step[c] = "ack" THEN Tail(hand[c]) ELSE hand[c]

\* The copies of a message before copy i, how often the queue counts that it was
\* delivered before, and when the message may be attempted with copy i: it is
\* not settled, and i is its last copy.
Earlier(i) == {k \in 1 .. i - 1 : log[k].msg = log[i].msg}
Count(i)   == IF redis THEN log[i].retries ELSE retries[log[i].msg]
Latest(i)  ==
  /\ ~Settled(log[i].msg)
  /\ \A k \in 1 .. Len(log) : log[k].msg = log[i].msg => k <= i
Ready(i)   == Latest(i) /\ Cardinality(Earlier(i)) = Count(i)

\* Nobody has a copy twice or one that somebody else has, and a copy that is
\* waiting or to be dealt with is its message's next attempt.
WorkInv ==
  /\ \A c \in Consumers : IsInjective(Work(c))
  /\ \A c, d \in Consumers : c # d => Range(Work(c)) \cap Range(Work(d)) = {}
  /\ \A i \in 1 .. Len(log) : i > cursor => Ready(i)
  /\ \A c \in Consumers : step[c] # "put" => \A i \in Range(Work(c)) : Ready(i)

\* The head of a sequence without repetitions is not in its tail.
LEMMA TailInjective ==
  ASSUME NEW S, NEW s \in Seq(S), s # << >>, IsInjective(s)
  PROVE  IsInjective(Tail(s)) /\ Range(Tail(s)) = Range(s) \ {Head(s)}
<1>1. /\ Tail(s) \in Seq(S) /\ Len(s) \in Nat \ {0}
      /\ Len(Tail(s)) = Len(s) - 1 /\ Head(s) = s[1]
      /\ \A i \in 1 .. Len(Tail(s)) : Tail(s)[i] = s[i + 1]
  BY HeadTailProperties, EmptySeq
<1>2. DOMAIN s = 1 .. Len(s) /\ DOMAIN Tail(s) = 1 .. Len(s) - 1
  BY <1>1, LenProperties
<1>3. \A i \in DOMAIN Tail(s) : i + 1 \in DOMAIN s /\ i + 1 # 1 /\ Tail(s)[i] = s[i + 1]
  BY <1>1, <1>2
<1>4. 1 \in DOMAIN s
  BY <1>1, <1>2
<1>5. \A i, j \in DOMAIN s : s[i] = s[j] => i = j
  BY DEF IsInjective
<1>6. IsInjective(Tail(s))
  <2>1. ASSUME NEW i \in DOMAIN Tail(s), NEW j \in DOMAIN Tail(s), Tail(s)[i] = Tail(s)[j]
        PROVE  i = j
    <3>1. i + 1 = j + 1
      BY <1>3, <1>5, <2>1
    <3>. QED  BY <1>2, <3>1
  <2>. QED  BY <2>1 DEF IsInjective
<1>7. Head(s) \notin Range(Tail(s))
  BY <1>1, <1>3, <1>4, <1>5 DEF Range
<1>. QED  BY <1>6, <1>7, Tailed

\* The indices in a consumer's work are those of delivered copies.
LEMMA WorkTyped ==
  ASSUME Types, NEW c \in Consumers
  PROVE  /\ Work(c) \in Seq(1 .. cursor) /\ Range(Work(c)) \subseteq 1 .. cursor
         /\ cursor \in Nat /\ Len(log) \in Nat /\ cursor <= Len(log)
         /\ Range(Work(c)) \subseteq 1 .. Len(log)
<1>1. Work(c) \in Seq(1 .. cursor)
  <2>1. hand[c] \in Seq(1 .. cursor) /\ (step[c] = "ack" => hand[c] # << >>)
    BY DEF Types, HandTypes, StepTypes
  <2>2. CASE step[c] = "ack"
    <3>1. Tail(hand[c]) \in Seq(1 .. cursor)
      BY <2>1, <2>2, Tailed
    <3>. QED  BY <2>2, <3>1 DEF Work
  <2>3. CASE step[c] # "ack"
    BY <2>1, <2>3 DEF Work
  <2>. QED  BY <2>2, <2>3
<1>2. Range(Work(c)) \subseteq 1 .. cursor
  BY <1>1, InRange
<1>3. cursor \in Nat /\ Len(log) \in Nat /\ cursor <= Len(log)
  BY LenProperties DEF Types, LogTypes, HandTypes
<1>. QED  BY <1>1, <1>2, <1>3

\* A step about message m leaves the attempts of the others as they are.
OnlyAbout(m) ==
  /\ handled' \subseteq handled \cup {m} /\ Range(dlq') \subseteq Range(dlq) \cup {m}
  /\ \A k \in Len(log) + 1 .. Len(log') : log'[k].msg = m
  /\ \A n \in Messages : n # m => retries'[n] = retries[n]

\* A step about message m leaves the copies of other messages ready.
LEMMA OthersStayReady ==
  ASSUME Types, Grows, redis' = redis, NEW m, OnlyAbout(m),
         NEW i \in 1 .. Len(log), log[i].msg # m, Ready(i)
  PROVE  Ready(i)'
<1>1. /\ Len(log) \in Nat /\ Len(log') \in Nat /\ Len(log) <= Len(log')
      /\ \A k \in 1 .. Len(log) : log'[k] = log[k]
  BY DEF Grows
<1>2. log[i].msg \in Messages
  <2>1. log[i] \in Entries(1 .. relayed)
    BY ElementOfSeq DEF Types, LogTypes
  <2>2. relayed \in 0 .. Events
    BY DEF Types, LogTypes
  <2>. QED  BY <2>1, <2>2, LimitsAssumption DEF Entries, Messages
<1>3. log'[i] = log[i]
  BY <1>1
<1>4. Earlier(i)' = Earlier(i)
  <2>1. \A k \in 1 .. i - 1 : log'[k] = log[k]
    BY <1>1
  <2>. QED  BY <1>3, <2>1 DEF Earlier
<1>5. Count(i)' = Count(i)
  BY <1>2, <1>3 DEF Count, OnlyAbout
<1>6. Latest(i)'
  <2>1. ASSUME NEW k \in 1 .. Len(log'), log'[k].msg = log[i].msg PROVE k <= i
    <3>1. CASE k \in 1 .. Len(log)
      <4>1. log[k].msg = log[i].msg
        BY <1>1, <2>1, <3>1
      <4>. QED  BY <3>1, <4>1 DEF Ready, Latest
    <3>2. CASE k \notin 1 .. Len(log)
      <4>1. k \in Len(log) + 1 .. Len(log')
        BY <1>1, <3>2
      <4>. QED  BY <2>1, <4>1 DEF OnlyAbout
    <3>. QED  BY <3>1, <3>2
  <2>2. ~(log[i].msg \in handled') /\ ~(log[i].msg \in Range(dlq'))
    BY DEF Ready, Latest, Settled, OnlyAbout
  <2>. QED  BY <1>3, <2>1, <2>2 DEF Latest, Settled
<1>. QED  BY <1>4, <1>5, <1>6 DEF Ready

\* A message has one last copy.
LEMMA OneLatest ==
  ASSUME Types, NEW i \in 1 .. Len(log), NEW j \in 1 .. Len(log),
         Latest(i), Latest(j), log[i].msg = log[j].msg
  PROVE  i = j
<1>1. i <= j /\ j <= i
  BY DEF Latest
<1>. QED  BY <1>1

\* What a consumer makes of a copy f of message m: it is done with it, buries it
\* or sends it back, or nothing comes of it.
DoneWith(m)   == handled' = handled \cup {m} /\ UNCHANGED <<log, dlq, retries>>
Buries(m, f)  == /\ dlq' = Append(dlq, m) /\ UNCHANGED <<log, handled>>
                 /\ Count(f) + 1 >= Limit
SendsBack(m, f) ==
  \E n \in 0 .. MaxRetries :
    /\ log' = Append(log, Copy(m, n)) /\ UNCHANGED <<dlq, handled>>
    /\ (IF redis THEN n ELSE retries'[m]) = Count(f) + 1
    /\ Count(f) + 1 < Limit

\* What dealing with a copy does to its message, its consumer and the counts.
LEMMA DealEffects ==
  ASSUME Types, NEW c \in Consumers, Deal(c), NEW f, f = First(c), NEW m, m = Message(c)
  PROVE  /\ hand[c] # << >> /\ step[c] = "handle"
         /\ UNCHANGED <<redis, relayed, cursor, pending>>
         /\ \A n \in Messages : n # m => retries'[n] = retries[n]
         /\ \/ DoneWith(m) \/ Buries(m, f) \/ SendsBack(m, f)
            \/ UNCHANGED <<log, dlq, handled>>
         /\ \/ OnToNext(c) \/ Goes(c, "ack")
            \/ Goes(c, "put") /\ UNCHANGED <<log, dlq, handled>>
<1>1. /\ hand[c] # << >> /\ step[c] = "handle" /\ UNCHANGED <<redis, relayed, cursor, pending>>
      /\ m = log[f].msg /\ m \in Messages /\ log[f].retries \in 0 .. MaxRetries
      /\ retries \in [Messages -> 0 .. MaxRetries]
  BY DealCases, FirstTyped DEF Types, Message, RetryTypes
<1>2. CASE Handled(c)
  BY <1>1, <1>2 DEF Handled, DoneWith, logVars
<1>3. CASE StreamHandled(c)
  BY <1>1, <1>3 DEF StreamHandled, DoneWith, logVars
<1>4. CASE Nack(c)
  <2>1. ~redis /\ Count(f) = retries[m] /\ Limit = MaxRetries /\ 0 \in 0 .. MaxRetries
    BY <1>1, <1>4, LimitsAssumption DEF Nack, Count, Limit
  <2>2. retries' = [retries EXCEPT ![m] = retries[m] + 1]
    BY <1>4 DEF Nack
  <2>3. retries'[m] = Count(f) + 1 /\ \A n \in Messages : n # m => retries'[n] = retries[n]
    BY <1>1, <2>1, <2>2
  <2>4. \/ /\ Count(f) + 1 >= MaxRetries /\ dlq' = Append(dlq, m)
           /\ OnToNext(c) /\ UNCHANGED log
        \/ /\ ~(Count(f) + 1 >= MaxRetries)
           /\ log' = Append(log, Copy(m, 0)) /\ OnToNext(c) /\ UNCHANGED dlq
        \/ Goes(c, "put") /\ UNCHANGED <<log, dlq>>
    BY <1>4, <2>3 DEF Nack, Exhausted
  <2>5. UNCHANGED handled
    BY <1>4 DEF Nack
  <2>6. Count(f) + 1 \in Nat /\ MaxRetries \in Nat
    BY <1>1, <2>1, LimitsAssumption
  <2>. QED  BY <1>1, <2>1, <2>3, <2>4, <2>5, <2>6 DEF Buries, SendsBack
<1>5. ASSUME redis, AddBack(c), UNCHANGED handled
      PROVE  Buries(m, f) \/ SendsBack(m, f)
  <2>1. PICK n \in 0 .. MaxRetries : n = log[f].retries
    BY <1>1
  <2>2. Count(f) = n /\ Limit = MaxRetries + 1 /\ MaxRetries \in Nat
    BY <1>5, <2>1, LimitsAssumption DEF Count, Limit
  <2>3. \/ n >= MaxRetries /\ dlq' = Append(dlq, m) /\ UNCHANGED log
        \/ /\ ~(n >= MaxRetries) /\ log' = Append(log, Copy(m, n + 1))
           /\ UNCHANGED dlq
    BY <1>5, <2>1 DEF AddBack, Exhausted
  <2>4. CASE n >= MaxRetries /\ dlq' = Append(dlq, m) /\ UNCHANGED log
    BY <1>5, <2>2, <2>4 DEF Buries
  <2>5. CASE ~(n >= MaxRetries) /\ log' = Append(log, Copy(m, n + 1)) /\ UNCHANGED dlq
    <3>1. n + 1 \in 0 .. MaxRetries /\ Count(f) + 1 = n + 1 /\ n + 1 < Limit
      BY <2>2, <2>5
    <3>. QED  BY <1>5, <2>5, <3>1 DEF SendsBack
  <2>. QED  BY <2>3, <2>4, <2>5
<1>6. CASE StreamNack(c)
  <2>1. /\ redis /\ AddBack(c) /\ Goes(c, "ack") /\ UNCHANGED <<handled, retries>>
    BY <1>6 DEF StreamNack
  <2>. QED  BY <1>1, <1>5, <2>1
<1>7. CASE StreamNackFails(c)
  <2>1. /\ redis /\ (AddBack(c) \/ UNCHANGED <<log, dlq>>)
        /\ OnToNext(c) /\ UNCHANGED <<handled, retries>>
    BY <1>7 DEF StreamNackFails
  <2>. QED  BY <1>1, <1>5, <2>1
<1>. QED  BY <1>2, <1>3, <1>4, <1>6, <1>7 DEF Deal

\* The first copy a consumer deals with is taken from its work, and nobody
\* else's work changes.
LEMMA DealWork ==
  ASSUME Types, WorkInv, NEW c \in Consumers, hand[c] # << >>, step[c] = "handle",
         OnToNext(c) \/ Goes(c, "ack") \/ Goes(c, "put"),
         UNCHANGED cursor
  PROVE  /\ First(c) \in Range(Work(c))
         /\ \A d \in Consumers \ {c} : Work(d)' = Work(d) /\ step'[d] = step[d]
         /\ \/ /\ IsInjective(Work(c))' /\ step'[c] # "put"
               /\ Range(Work(c))' = Range(Work(c)) \ {First(c)}
            \/ Goes(c, "put") /\ Work(c)' = Work(c) /\ step'[c] = "put"
<1>1. /\ Work(c) = hand[c] /\ IsInjective(hand[c]) /\ hand[c] \in Seq(1 .. cursor)
      /\ hand \in [Consumers -> Seq(1 .. cursor)] /\ step \in [Consumers -> Steps]
  BY DEF Work, WorkInv, Types, HandTypes
<1>2. /\ First(c) \in Range(hand[c]) /\ IsInjective(Tail(hand[c]))
      /\ Range(Tail(hand[c])) = Range(hand[c]) \ {First(c)}
  BY <1>1, Tailed, TailInjective DEF First
<1>3. CASE OnToNext(c)
  <2>1. /\ hand'[c] = Tail(hand[c]) /\ step'[c] = "handle"
        /\ \A d \in Consumers \ {c} : hand'[d] = hand[d] /\ step'[d] = step[d]
    BY <1>1, <1>3 DEF OnToNext
  <2>2. Work(c)' = Tail(hand[c])
    BY <2>1 DEF Work
  <2>. QED  BY <1>1, <1>2, <2>1, <2>2 DEF Work
<1>4. CASE Goes(c, "ack")
  <2>1. /\ hand' = hand /\ step'[c] = "ack"
        /\ \A d \in Consumers \ {c} : step'[d] = step[d]
    BY <1>1, <1>4 DEF Goes
  <2>2. Work(c)' = Tail(hand[c])
    BY <2>1 DEF Work
  <2>. QED  BY <1>1, <1>2, <2>1, <2>2 DEF Work
<1>5. CASE Goes(c, "put")
  <2>1. /\ hand' = hand /\ step'[c] = "put"
        /\ \A d \in Consumers \ {c} : step'[d] = step[d]
    BY <1>1, <1>5 DEF Goes
  <2>2. Work(c)' = hand[c]
    BY <2>1 DEF Work
  <2>. QED  BY <1>1, <1>2, <1>5, <2>1, <2>2 DEF Work
<1>. QED  BY <1>3, <1>4, <1>5

\* A copy that is added to the log is the next attempt of its message.
LEMMA AddedIsReady ==
  ASSUME Types, Grows, redis' = redis, NEW m, NEW n \in Nat, NEW l, l = Len(log) + 1,
         Len(log') = l, log'[l] = Copy(m, n),
         ~(m \in handled'), ~(m \in Range(dlq')),
         Cardinality({i \in 1 .. Len(log) : log[i].msg = m})
           = IF redis THEN n ELSE retries'[m]
  PROVE  Ready(l)'
<1>1. /\ Len(log) \in Nat /\ l - 1 = Len(log) /\ \A i \in 1 .. Len(log) : log'[i] = log[i]
  BY DEF Grows
<1>2. log'[l].msg = m /\ log'[l].retries = n
  BY DEF Copy
<1>3. Earlier(l)' = {i \in 1 .. Len(log) : log[i].msg = m}
  BY <1>1, <1>2 DEF Earlier
<1>4. Cardinality(Earlier(l))' = Count(l)'
  BY <1>2, <1>3 DEF Count
<1>5. Latest(l)'
  BY <1>1, <1>2 DEF Latest, Settled
<1>. QED  BY <1>4, <1>5 DEF Ready

\* A step about message m keeps WorkInv if new copies are ready, and if it takes
\* copies of m out of the queue and of everybody's work.
LEMMA WorkKept ==
  ASSUME Types, WorkInv, Grows, redis' = redis, NEW m, OnlyAbout(m),
         cursor' >= cursor, cursor' \in Nat,
         \A i \in 1 .. Len(log) : i > cursor' => log[i].msg # m,
         \A i \in Len(log) + 1 .. Len(log') : Ready(i)',
         \A c \in Consumers : IsInjective(Work(c))',
         \A c, d \in Consumers : c # d => Range(Work(c))' \cap Range(Work(d))' = {},
         \A c \in Consumers : step'[c] # "put" =>
           \A i \in Range(Work(c))' : i \in 1 .. Len(log) /\ Ready(i) /\ log[i].msg # m
  PROVE  WorkInv'
<1>1. /\ Len(log) \in Nat /\ Len(log') \in Nat /\ cursor \in Nat
  BY WorkTyped DEF Grows, Types, HandTypes
<1>2. ASSUME NEW i \in 1 .. Len(log'), i > cursor' PROVE Ready(i)'
  <2>1. CASE i \in 1 .. Len(log)
    <3>1. Ready(i) /\ log[i].msg # m
      BY <1>1, <1>2, <2>1 DEF WorkInv
    <3>. QED  BY <2>1, <3>1, OthersStayReady
  <2>2. CASE i \notin 1 .. Len(log)
    <3>1. i \in Len(log) + 1 .. Len(log')
      BY <1>1, <2>2
    <3>. QED  BY <3>1
  <2>. QED  BY <2>1, <2>2
<1>3. ASSUME NEW c \in Consumers, step'[c] # "put", NEW i \in Range(Work(c))'
      PROVE  Ready(i)'
  <2>1. i \in 1 .. Len(log) /\ Ready(i) /\ log[i].msg # m
    BY <1>3
  <2>. QED  BY <2>1, OthersStayReady
<1>4. \A c \in Consumers : step'[c] # "put" => \A i \in Range(Work(c))' : Ready(i)'
  BY <1>3
<1>. QED  BY <1>2, <1>4 DEF WorkInv

\* Copies are of messages that were relayed.
LEMMA SentBefore ==
  ASSUME Types
  PROVE  /\ \A i \in 1 .. Len(log) : log[i].msg \in 1 .. relayed /\ log[i].msg \in Messages
         /\ relayed \in Nat /\ relayed <= Events
         /\ \A i \in 1 .. Len(log) : log[i].msg # relayed + 1
         /\ handled \subseteq 1 .. relayed /\ Range(dlq) \subseteq 1 .. relayed
<1>1. relayed \in Nat /\ relayed <= Events
  BY LimitsAssumption DEF Types, LogTypes
<1>2. ASSUME NEW i \in 1 .. Len(log)
      PROVE  log[i].msg \in 1 .. relayed /\ log[i].msg \in Messages /\ log[i].msg # relayed + 1
  <2>1. log[i] \in Entries(1 .. relayed)
    BY ElementOfSeq DEF Types, LogTypes
  <2>2. log[i].msg \in 1 .. relayed
    BY <2>1 DEF Entries
  <2>. QED  BY <1>1, <2>2, LimitsAssumption DEF Messages
<1>3. handled \subseteq 1 .. relayed /\ Range(dlq) \subseteq 1 .. relayed
  BY InRange DEF Types, LogTypes
<1>. QED  BY <1>1, <1>2, <1>3

\* A message that is sent is ready.
LEMMA SendWork ==
  ASSUME Types, RetryInv, WorkInv, Sending
  PROVE  WorkInv'
<1>. DEFINE m == relayed + 1
<1>1. /\ Grows /\ UNCHANGED <<redis, cursor, hand, step, retries, dlq, handled>>
      /\ log' = log \/ log' = Append(log, Copy(m, 0))
      /\ relayed < Events
  BY SendLog DEF Types, Sending, Send, consumerVars
<1>2. /\ Len(log) \in Nat /\ Len(log') \in Nat /\ cursor \in Nat
      /\ \A i \in 1 .. Len(log) : log[i].msg # m
      /\ m \notin handled /\ m \notin Range(dlq) /\ m \in Messages /\ relayed \in Nat
  <2>1. Len(log) \in Nat /\ Len(log') \in Nat /\ cursor \in Nat
    BY <1>1, LenProperties DEF Grows, Types, LogTypes, HandTypes
  <2>2. m \in Messages /\ relayed \in Nat
    BY <1>1, SentBefore, LimitsAssumption DEF Messages
  <2>3. m \notin 1 .. relayed
    BY <2>2
  <2>. QED  BY <2>1, <2>2, <2>3, SentBefore
<1>3. ASSUME log' # log
      PROVE  Len(log') = Len(log) + 1 /\ log'[Len(log) + 1] = Copy(m, 0)
  <2>1. log' = Append(log, Copy(m, 0)) /\ 0 \in 0 .. MaxRetries
    BY <1>1, <1>3, LimitsAssumption
  <2>2. log \in Seq(Entries(Messages))
    <3>1. 1 .. relayed \subseteq Messages
      BY SentBefore, LimitsAssumption DEF Messages
    <3>2. Entries(1 .. relayed) \subseteq Entries(Messages)
      BY <3>1 DEF Entries
    <3>. QED  BY <3>2, SeqMonotonic DEF Types, LogTypes
  <2>3. Copy(m, 0) \in Entries(Messages)
    BY <1>2, <2>1 DEF Copy, Entries
  <2>. QED  BY <2>1, <2>2, <2>3, Appended
<1>4. OnlyAbout(m)
  <2>1. log' = log => Len(log') = Len(log)
    OBVIOUS
  <2>2. \A k \in Len(log) + 1 .. Len(log') : log'[k].msg = m
    <3>1. CASE log' = log
      BY <1>2, <2>1, <3>1
    <3>2. CASE log' # log
      <4>1. \A k \in Len(log) + 1 .. Len(log') : k = Len(log) + 1
        BY <1>2, <1>3, <3>2
      <4>. QED  BY <1>3, <3>2, <4>1 DEF Copy
    <3>. QED  BY <3>1, <3>2
  <2>. QED  BY <1>1, <2>2 DEF OnlyAbout
<1>5. ASSUME NEW i \in Len(log) + 1 .. Len(log') PROVE Ready(i)'
  <2>1. log' # log
    BY <1>2, <1>5
  <2>2. i = Len(log) + 1 /\ Len(log') = i /\ log'[i] = Copy(m, 0)
    BY <1>2, <1>3, <1>5, <2>1
  <2>3. {k \in 1 .. Len(log) : log[k].msg = m} = {}
    BY <1>2
  <2>4. Cardinality({k \in 1 .. Len(log) : log[k].msg = m}) = IF redis THEN 0 ELSE retries'[m]
    <3>1. Cardinality({}) = 0
      BY FS_EmptySet
    <3>2. ~redis => retries[m] = 0
      BY <1>2 DEF RetryInv
    <3>. QED  BY <1>1, <2>3, <3>1, <3>2
  <2>5. ~(m \in handled') /\ ~(m \in Range(dlq')) /\ redis' = redis
    BY <1>1, <1>2
  <2>. HIDE DEF m
  <2>. QED  BY <1>1, <2>2, <2>4, <2>5, AddedIsReady
<1>6. \A c \in Consumers : Work(c)' = Work(c) /\ step'[c] = step[c]
  BY <1>1 DEF Work
<1>7. /\ \A c \in Consumers : IsInjective(Work(c))'
      /\ \A c, d \in Consumers : c # d => Range(Work(c))' \cap Range(Work(d))' = {}
  BY <1>6 DEF WorkInv
<1>8. ASSUME NEW c \in Consumers, step'[c] # "put", NEW i \in Range(Work(c))'
      PROVE  i \in 1 .. Len(log) /\ Ready(i) /\ log[i].msg # m
  <2>1. step[c] # "put" /\ i \in Range(Work(c))
    BY <1>6, <1>8
  <2>. QED  BY <1>2, <2>1, WorkTyped DEF WorkInv
<1>9. cursor' >= cursor /\ cursor' \in Nat /\ redis' = redis
  BY <1>1, <1>2
<1>10. \A c \in Consumers : step'[c] # "put" =>
         \A i \in Range(Work(c))' : i \in 1 .. Len(log) /\ Ready(i) /\ log[i].msg # m
  BY <1>8
<1>. HIDE DEF m
<1>. QED  BY <1>1, <1>2, <1>4, <1>5, <1>7, <1>9, <1>10, WorkKept

\* The copies up to a last one are that one and the earlier ones.
LEMMA CopiesUpTo ==
  ASSUME Types, NEW i \in 1 .. Len(log), Latest(i), NEW j \in i .. Len(log)
  PROVE  /\ Cardinality(Earlier(i)) \in Nat
         /\ Cardinality({k \in 1 .. j : log[k].msg = log[i].msg})
              = Cardinality(Earlier(i)) + 1
<1>1. Len(log) \in Nat /\ i \in Nat /\ j \in Nat
  BY LenProperties DEF Types, LogTypes
<1>2. IsFiniteSet(Earlier(i)) /\ Cardinality(Earlier(i)) \in Nat
  <2>1. IsFiniteSet(1 .. i - 1)
    BY <1>1, FS_Interval
  <2>2. Earlier(i) \in SUBSET (1 .. i - 1)
    BY DEF Earlier
  <2>. QED  BY <2>1, <2>2, FS_Subset, FS_CardinalityType
<1>3. i \notin Earlier(i)
  BY <1>1 DEF Earlier
<1>4. {k \in 1 .. j : log[k].msg = log[i].msg} = Earlier(i) \cup {i}
  <2>1. ASSUME NEW k \in 1 .. j, log[k].msg = log[i].msg PROVE k \in Earlier(i) \cup {i}
    <3>1. k <= i
      BY <1>1, <2>1 DEF Latest
    <3>2. k \in 1 .. i - 1 \/ k = i
      BY <1>1, <3>1
    <3>. QED  BY <2>1, <3>2 DEF Earlier
  <2>2. Earlier(i) \cup {i} \subseteq {k \in 1 .. j : log[k].msg = log[i].msg}
    <3>1. 1 .. i - 1 \subseteq 1 .. j /\ i \in 1 .. j
      BY <1>1
    <3>. QED  BY <3>1 DEF Earlier
  <2>. QED  BY <2>1, <2>2
<1>. QED  BY <1>2, <1>3, <1>4, FS_AddElement

\* What a consumer deals with is its message's next attempt, and nobody else's
\* copy nor one in the queue is of that message.
LEMMA DealtWith ==
  ASSUME Types, WorkInv, NEW c \in Consumers, hand[c] # << >>, step[c] = "handle",
         NEW f, f = First(c), NEW m, m = Message(c)
  PROVE  /\ f \in Range(Work(c)) /\ f \in 1 .. cursor /\ f \in 1 .. Len(log)
         /\ m = log[f].msg /\ m \in Messages /\ m \in 1 .. relayed /\ Ready(f)
         /\ \A i \in 1 .. Len(log) : i > cursor => log[i].msg # m
         /\ \A d \in Consumers : step[d] # "put" =>
              \A i \in Range(Work(d)) : i # f => log[i].msg # m
<1>1. /\ f \in 1 .. cursor /\ f \in 1 .. Len(log) /\ m = log[f].msg
      /\ m \in Messages /\ m \in 1 .. relayed /\ cursor \in Nat
  BY FirstTyped DEF Types, Message
<1>2. f \in Range(Work(c))
  BY Tailed DEF Types, HandTypes, First, Work
<1>3. Ready(f)
  BY <1>2 DEF WorkInv
<1>4. ASSUME NEW i \in 1 .. Len(log), Ready(i), i # f PROVE log[i].msg # m
  BY <1>1, <1>3, <1>4, OneLatest DEF Ready
<1>5. \A i \in 1 .. Len(log) : i > cursor => i # f /\ Ready(i)
  BY <1>1 DEF WorkInv
<1>6. \A d \in Consumers : step[d] # "put" =>
        \A i \in Range(Work(d)) : i \in 1 .. Len(log) /\ Ready(i)
  BY WorkTyped DEF WorkInv
<1>. QED  BY <1>1, <1>2, <1>3, <1>4, <1>5, <1>6

\* A message that is sent back is ready again.
LEMMA BackIsReady ==
  ASSUME Types, Grows, redis' = redis, NEW f \in 1 .. Len(log), NEW m, m = log[f].msg,
         m \in Messages, m \in 1 .. relayed, Ready(f), SendsBack(m, f)
  PROVE  /\ Len(log') = Len(log) + 1 /\ log'[Len(log) + 1].msg = m
         /\ \A i \in Len(log) + 1 .. Len(log') : Ready(i)'
<1>1. PICK n \in 0 .. MaxRetries :
        /\ log' = Append(log, Copy(m, n)) /\ UNCHANGED <<dlq, handled>>
        /\ (IF redis THEN n ELSE retries'[m]) = Count(f) + 1
  BY DEF SendsBack
<1>2. Len(log) \in Nat /\ n \in Nat /\ Len(log) + 1 \in Nat
  BY LimitsAssumption DEF Grows
<1>3. Len(log') = Len(log) + 1 /\ log'[Len(log) + 1] = Copy(m, n)
  <2>1. log \in Seq(Entries(1 .. relayed)) /\ Copy(m, n) \in Entries(1 .. relayed)
    BY DEF Types, LogTypes, Entries, Copy
  <2>. QED  BY <1>1, <2>1, Appended
<1>4. Cardinality({k \in 1 .. Len(log) : log[k].msg = m}) = Count(f) + 1
  <2>1. Len(log) \in f .. Len(log)
    BY <1>2
  <2>. QED  BY <2>1, CopiesUpTo DEF Ready
<1>5. ~(m \in handled') /\ ~(m \in Range(dlq'))
  BY <1>1 DEF Ready, Latest, Settled
<1>6. PICK l : l = Len(log) + 1
  OBVIOUS
<1>7. Ready(l)'
  BY <1>1, <1>2, <1>3, <1>4, <1>5, <1>6, AddedIsReady
<1>8. \A i \in Len(log) + 1 .. Len(log') : i = l
  BY <1>2, <1>3, <1>6
<1>. QED  BY <1>3, <1>7, <1>8 DEF Copy

\* Dealing with a copy of message m is about m.
LEMMA DealAbout ==
  ASSUME Types, Grows, NEW f, NEW m, m \in 1 .. relayed,
         \A n \in Messages : n # m => retries'[n] = retries[n],
         \/ DoneWith(m) \/ Buries(m, f) \/ UNCHANGED <<log, dlq, handled>>
         \/ /\ SendsBack(m, f)
            /\ Len(log') = Len(log) + 1 /\ log'[Len(log) + 1].msg = m
  PROVE  OnlyAbout(m)
<1>1. Len(log) \in Nat /\ (log' = log => \A k \in Len(log) + 1 .. Len(log') : FALSE)
  BY DEF Grows
<1>2. CASE DoneWith(m) \/ UNCHANGED <<log, dlq, handled>>
  BY <1>1, <1>2 DEF DoneWith, OnlyAbout
<1>3. CASE Buries(m, f)
  <2>1. Range(Append(dlq, m)) = Range(dlq) \cup {m}
    BY Appended DEF Types, LogTypes
  <2>. QED  BY <1>1, <1>3, <2>1 DEF Buries, OnlyAbout
<1>4. CASE SendsBack(m, f) /\ Len(log') = Len(log) + 1 /\ log'[Len(log) + 1].msg = m
  <2>1. \A k \in Len(log) + 1 .. Len(log') : k = Len(log) + 1
    BY <1>1, <1>4
  <2>. QED  BY <1>4, <2>1 DEF SendsBack, OnlyAbout
<1>. QED  BY <1>2, <1>3, <1>4

\* Dealing with a copy keeps WorkInv.
LEMMA DealsWork ==
  ASSUME Types, WorkInv, NEW c \in Consumers, Deal(c)
  PROVE  WorkInv'
<1>1. PICK f, m : f = First(c) /\ m = Message(c)
  OBVIOUS
<1>2. /\ hand[c] # << >> /\ step[c] = "handle" /\ redis' = redis /\ cursor' = cursor
      /\ \A n \in Messages : n # m => retries'[n] = retries[n]
      /\ \/ DoneWith(m) \/ Buries(m, f) \/ SendsBack(m, f)
         \/ UNCHANGED <<log, dlq, handled>>
      /\ \/ OnToNext(c) \/ Goes(c, "ack")
         \/ Goes(c, "put") /\ UNCHANGED <<log, dlq, handled>>
  BY <1>1, DealEffects
<1>3. /\ f \in 1 .. cursor /\ f \in 1 .. Len(log)
      /\ m = log[f].msg /\ m \in Messages /\ m \in 1 .. relayed /\ Ready(f)
      /\ \A i \in 1 .. Len(log) : i > cursor => log[i].msg # m
      /\ \A d \in Consumers : step[d] # "put" =>
           \A i \in Range(Work(d)) : i # f => log[i].msg # m
  BY <1>1, <1>2, DealtWith
<1>4. /\ f \in Range(Work(c))
      /\ \A d \in Consumers \ {c} : Work(d)' = Work(d) /\ step'[d] = step[d]
      /\ \/ /\ IsInjective(Work(c))' /\ step'[c] # "put"
            /\ Range(Work(c))' = Range(Work(c)) \ {f}
         \/ Goes(c, "put") /\ Work(c)' = Work(c) /\ step'[c] = "put"
  BY <1>1, <1>2, DealWork
<1>5. Grows /\ Len(log) \in Nat /\ cursor \in Nat
  BY DealLog, WorkTyped DEF Types
<1>6. SendsBack(m, f) => /\ Len(log') = Len(log) + 1 /\ log'[Len(log) + 1].msg = m
                         /\ \A i \in Len(log) + 1 .. Len(log') : Ready(i)'
  BY <1>2, <1>3, <1>5, BackIsReady
<1>7. OnlyAbout(m)
  BY <1>2, <1>3, <1>5, <1>6, DealAbout
<1>8. ASSUME NEW i \in Len(log) + 1 .. Len(log') PROVE Ready(i)'
  <2>1. log' # log
    BY <1>5, <1>8
  <2>2. SendsBack(m, f)
    BY <1>2, <2>1 DEF DoneWith, Buries
  <2>. QED  BY <1>6, <1>8, <2>2
<1>9. \A d \in Consumers : IsInjective(Work(d))' /\ Range(Work(d))' \subseteq Range(Work(d))
  BY <1>4 DEF WorkInv
<1>10. \A d, e \in Consumers : d # e => Range(Work(d))' \cap Range(Work(e))' = {}
  BY <1>9 DEF WorkInv
<1>11. ASSUME NEW d \in Consumers, step'[d] # "put", NEW i \in Range(Work(d))'
       PROVE  i \in 1 .. Len(log) /\ Ready(i) /\ log[i].msg # m
  <2>1. i \in Range(Work(d)) /\ i # f /\ step[d] # "put"
    <3>1. CASE d = c
      BY <1>2, <1>4, <1>11, <3>1
    <3>2. CASE d # c
      BY <1>4, <1>11, <3>2 DEF WorkInv
    <3>. QED  BY <3>1, <3>2
  <2>. QED  BY <1>3, <2>1, WorkTyped DEF WorkInv
<1>12. cursor' >= cursor /\ cursor' \in Nat
  BY <1>2, <1>5
<1>13. \A i \in 1 .. Len(log) : i > cursor' => log[i].msg # m
  BY <1>2, <1>3
<1>14. \A d \in Consumers : step'[d] # "put" =>
         \A i \in Range(Work(d))' : i \in 1 .. Len(log) /\ Ready(i) /\ log[i].msg # m
  BY <1>11
<1>. QED  BY <1>2, <1>5, <1>7, <1>8, <1>9, <1>10, <1>12, <1>13, <1>14, WorkKept

\* The other steps deal with nothing: they deliver copies, ack, or stop.
LEMMA OtherWork ==
  ASSUME Types, WorkInv, Other
  PROVE  WorkInv'
<1>. DEFINE m == relayed + 1
<1>1. /\ Grows /\ UNCHANGED <<redis, relayed, log, dlq, handled>>
      /\ Len(log') = Len(log) /\ Len(log) \in Nat /\ cursor \in Nat
      /\ \A i \in 1 .. Len(log) : log[i].msg # m
      /\ hand \in [Consumers -> Seq(1 .. cursor)] /\ step \in [Consumers -> Steps]
  BY OtherLog, SentBefore DEF Types, HandTypes, Grows
<1>2. ASSUME UNCHANGED retries, cursor' >= cursor, cursor' \in Nat,
             \A c \in Consumers : IsInjective(Work(c))',
             \A c, d \in Consumers : c # d => Range(Work(c))' \cap Range(Work(d))' = {},
             \A c \in Consumers : step'[c] # "put" =>
               \A i \in Range(Work(c))' : i \in 1 .. Len(log) /\ Ready(i)
      PROVE  WorkInv'
  <2>1. OnlyAbout(m)
    BY <1>1, <1>2 DEF OnlyAbout
  <2>2. \A i \in Len(log) + 1 .. Len(log') : Ready(i)'
    BY <1>1
  <2>3. /\ \A i \in 1 .. Len(log) : i > cursor' => log[i].msg # m
        /\ \A c \in Consumers : step'[c] # "put" =>
             \A i \in Range(Work(c))' : i \in 1 .. Len(log) /\ Ready(i) /\ log[i].msg # m
    BY <1>1, <1>2
  <2>. HIDE DEF m
  <2>. QED  BY <1>1, <1>2, <2>1, <2>2, <2>3, WorkKept
\* A step that gives nobody anything new.
<1>3. ASSUME UNCHANGED <<retries, cursor>>,
             \A c \in Consumers : /\ IsInjective(Work(c))'
                                  /\ Range(Work(c))' \subseteq Range(Work(c))
                                  /\ step'[c] # "put" => step[c] # "put"
      PROVE  WorkInv'
  <2>1. \A c, d \in Consumers : c # d => Range(Work(c))' \cap Range(Work(d))' = {}
    BY <1>3 DEF WorkInv
  <2>2. \A c \in Consumers : step'[c] # "put" =>
          \A i \in Range(Work(c))' : i \in 1 .. Len(log) /\ Ready(i)
    BY <1>3, WorkTyped DEF WorkInv
  <2>3. cursor' >= cursor /\ cursor' \in Nat
    BY <1>1, <1>3
  <2>. QED  BY <1>2, <1>3, <2>1, <2>2, <2>3
\* A delivery of n copies.
<1>4. ASSUME NEW n \in Nat, UNCHANGED <<step, retries>>,
             cursor' = cursor + n, cursor + n <= Len(log),
             \/ hand' = hand
             \/ \E c \in Consumers :
                  /\ hand[c] = << >>
                  /\ hand' = [hand EXCEPT ![c] = [i \in 1 .. n |-> cursor + i]]
      PROVE  WorkInv'
  <2>. DEFINE s == [i \in 1 .. n |-> cursor + i]
  <2>1. /\ IsInjective(s) /\ Range(s) \subseteq 1 .. Len(log)
        /\ \A i \in Range(s) : i > cursor
    BY <1>1, <1>4 DEF IsInjective, Range
  <2>. HIDE DEF s
  <2>2. \A d \in Consumers : hand'[d] = hand[d] => Work(d)' = Work(d)
    BY <1>4 DEF Work
  <2>3. \A c \in Consumers : Range(Work(c)) \subseteq 1 .. cursor
    BY WorkTyped
  <2>4. CASE hand' = hand
    <3>1. \A c \in Consumers : Work(c)' = Work(c)
      BY <2>2, <2>4
    <3>. QED  BY <1>1, <1>2, <1>4, <3>1, WorkTyped DEF WorkInv
  <2>5. ASSUME NEW c \in Consumers, hand[c] = << >>, hand' = [hand EXCEPT ![c] = s]
        PROVE  WorkInv'
    <3>1. hand'[c] = s /\ \A d \in Consumers \ {c} : hand'[d] = hand[d]
      BY <1>1, <2>5
    <3>2. step[c] = "handle"
      BY <1>1, <2>5 DEF Types, StepTypes, Steps
    <3>3. Work(c)' = s /\ \A d \in Consumers \ {c} : Work(d)' = Work(d)
      BY <1>4, <2>2, <3>1, <3>2 DEF Work
    <3>4. \A d \in Consumers : IsInjective(Work(d))'
      BY <2>1, <3>3 DEF WorkInv
    <3>5. \A i \in Range(s) : i \notin 1 .. cursor
      BY <1>1, <2>1
    <3>6. \A d, e \in Consumers : d # e => Range(Work(d))' \cap Range(Work(e))' = {}
      BY <2>3, <3>3, <3>5 DEF WorkInv
    <3>7. \A d \in Consumers : step'[d] # "put" =>
            \A i \in Range(Work(d))' : i \in 1 .. Len(log) /\ Ready(i)
      BY <1>4, <2>1, <3>3, WorkTyped DEF WorkInv
    <3>8. cursor' >= cursor /\ cursor' \in Nat
      BY <1>1, <1>4
    <3>. QED  BY <1>2, <1>4, <3>4, <3>6, <3>7, <3>8
  <2>. QED  BY <1>4, <2>4, <2>5 DEF s
<1>5. CASE UNCHANGED <<cursor, pending, hand, step, retries>>
  <2>1. \A c \in Consumers : Work(c)' = Work(c) /\ step'[c] = step[c]
    BY <1>5 DEF Work
  <2>. QED  BY <1>3, <1>5, <2>1 DEF WorkInv
<1>6. ASSUME NEW c \in Consumers, Get(c) PROVE WorkInv'
  <2>1. /\ hand[c] = << >> /\ Waiting > 0 /\ cursor' = cursor + 1
        /\ hand' = [hand EXCEPT ![c] = <<cursor + 1>>] /\ UNCHANGED <<step, retries>>
    BY <1>6 DEF Get
  <2>2. cursor + 1 <= Len(log)
    BY <1>1, <2>1 DEF Waiting
  <2>3. <<cursor + 1>> = [i \in 1 .. 1 |-> cursor + i]
    BY <1>1
  <2>. QED  BY <1>4, <2>1, <2>2, <2>3
<1>7. ASSUME NEW c \in Consumers, Ack(c) \/ AckFails(c) PROVE WorkInv'
  <2>1. step[c] = "ack" /\ OnToNext(c) /\ UNCHANGED <<retries, cursor>>
    BY <1>7 DEF Ack, AckFails, logVars
  <2>2. /\ hand'[c] = Tail(hand[c]) /\ step'[c] = "handle"
        /\ \A d \in Consumers \ {c} : hand'[d] = hand[d] /\ step'[d] = step[d]
    BY <1>1, <2>1 DEF OnToNext
  <2>3. \A d \in Consumers : Work(d)' = Work(d) /\ (step'[d] # "put" => step[d] # "put")
    BY <2>1, <2>2 DEF Work
  <2>. QED  BY <1>3, <2>1, <2>3 DEF WorkInv
<1>8. ASSUME NEW c \in Consumers, Crash(c) PROVE WorkInv'
  <2>1. /\ redis /\ UNCHANGED <<retries, cursor>>
        /\ hand' = [hand EXCEPT ![c] = << >>] /\ step' = [step EXCEPT ![c] = "handle"]
    BY <1>8 DEF Crash, logVars
  <2>2. /\ hand'[c] = << >> /\ step'[c] = "handle"
        /\ \A d \in Consumers \ {c} : hand'[d] = hand[d] /\ step'[d] = step[d]
    BY <1>1, <2>1
  <2>3. Work(c)' = << >> /\ \A d \in Consumers \ {c} : Work(d)' = Work(d)
    BY <2>2 DEF Work
  <2>4. IsInjective(<< >>) /\ Range(<< >>) = {}
    BY DEF IsInjective, Range
  <2>5. \A d \in Consumers : step[d] # "put"
    BY <2>1 DEF Types, StepTypes
  <2>. QED  BY <1>3, <2>1, <2>3, <2>4, <2>5 DEF WorkInv
<1>. QED  BY <1>1, <1>4, <1>5, <1>6, <1>7, <1>8, OtherCases DEF Types

\* Every step keeps WorkInv.
LEMMA WorkStep ==
  ASSUME Types, RetryInv, WorkInv, [Next]_vars
  PROVE  WorkInv'
BY StepCases, SendWork, DealsWork, OtherWork

\* WorkInv at the start, when there is no copy.
LEMMA WorkInit == Init => WorkInv
<1>. SUFFICES ASSUME Init PROVE WorkInv
  OBVIOUS
<1>1. /\ log = << >> /\ Len(<< >>) = 0
      /\ \A c \in Consumers : hand[c] = << >> /\ step[c] = "handle"
  BY DEF Init
<1>2. \A c \in Consumers : Work(c) = << >>
  BY <1>1 DEF Work
<1>3. IsInjective(<< >>) /\ Range(<< >>) = {}
  BY DEF IsInjective, Range
<1>. QED  BY <1>1, <1>2, <1>3 DEF WorkInv

StateView    == [m \in Messages |-> State(m)]
AttemptsView == [m \in Messages |-> Attempts(m)]

\* The dead letters of a message.
Tombs(q, m) == {i \in DOMAIN q : q[i] = m}

\* A message that was never buried has no dead letter, and one that is buried has
\* one.
LEMMA BurialsCounted ==
  ASSUME NEW S, NEW q \in Seq(S), NEW m \in S
  PROVE  /\ m \notin Range(q) => Cardinality(Tombs(q, m)) = 0
         /\ m \notin Range(q) => Cardinality(Tombs(Append(q, m), m)) = 1
         /\ \A x : x # m => Tombs(Append(q, m), x) = Tombs(q, x)
<1>. DEFINE r == Append(q, m)
<1>1. /\ Len(q) \in Nat /\ DOMAIN q = 1 .. Len(q) /\ DOMAIN r = 1 .. Len(q) + 1
      /\ r[Len(q) + 1] = m /\ \A i \in 1 .. Len(q) : r[i] = q[i]
  <2>1. r \in Seq(S) /\ Len(r) = Len(q) + 1 /\ Len(q) \in Nat
        /\ r[Len(q) + 1] = m /\ \A i \in 1 .. Len(q) : r[i] = q[i]
    BY Appended
  <2>. HIDE DEF r
  <2>. QED  BY <2>1, LenProperties
<1>. HIDE DEF r
<1>2. \A i \in DOMAIN r : i = Len(q) + 1 \/ i \in DOMAIN q
  BY <1>1
<1>3. Len(q) + 1 \in DOMAIN r /\ \A i \in DOMAIN q : i \in DOMAIN r /\ r[i] = q[i]
  BY <1>1
<1>4. m \notin Range(q) => Tombs(q, m) = {}
  BY DEF Range, Tombs
<1>5. m \notin Range(q) => Tombs(r, m) = {Len(q) + 1}
  BY <1>1, <1>2, <1>3 DEF Range, Tombs
<1>6. \A x : x # m => Tombs(r, x) = Tombs(q, x)
  BY <1>1, <1>2, <1>3 DEF Tombs
<1>7. Cardinality({}) = 0 /\ Cardinality({Len(q) + 1}) = 1
  BY FS_EmptySet, FS_Singleton
<1>. QED  BY <1>4, <1>5, <1>6, <1>7 DEF r

\* What is queued and what is taken.
LEMMA StateOfReady ==
  ASSUME Types, NEW i \in 1 .. Len(log), Ready(i), NEW m, m = log[i].msg
  PROVE  /\ i > cursor => State(m) = "queued"
         /\ i <= cursor => State(m) = "taken" /\ Attempts(m) = Count(i) + 1
<1>1. /\ m \in 1 .. relayed /\ relayed \in Nat /\ m \notin handled /\ m \notin Range(dlq)
      /\ DOMAIN log = 1 .. Len(log) /\ Len(log) \in Nat /\ cursor \in Nat /\ cursor <= Len(log)
      /\ \A k \in 1 .. Len(log) : log[k].msg = m => k <= i
  BY SentBefore, LenProperties DEF Ready, Latest, Settled, Types, LogTypes, HandTypes
<1>2. Burials(m) = 0
  <2>1. dlq \in Seq(1 .. relayed)
    BY DEF Types, LogTypes
  <2>2. Cardinality(Tombs(dlq, m)) = 0
    BY <1>1, <2>1, BurialsCounted
  <2>. QED  BY <2>2 DEF Burials, Tombs
<1>3. ~(m > relayed) /\ i \in Copies(m) /\ \A k \in Copies(m) : k <= i
  BY <1>1 DEF Copies
<1>4. State(m) = IF \E k \in Copies(m) : k > cursor THEN "queued" ELSE "taken"
  BY <1>1, <1>2, <1>3 DEF State
<1>5. i <= cursor => \A k \in Copies(m) : ~(k > cursor)
  BY <1>1, <1>3 DEF Copies
<1>6. ASSUME i <= cursor PROVE Attempts(m) = Count(i) + 1
  <2>1. cursor \in i .. Len(log)
    BY <1>1, <1>6
  <2>. QED  BY <2>1, CopiesUpTo DEF Ready, Attempts
<1>. QED  BY <1>3, <1>4, <1>5, <1>6

\* What a message's state depends on.
LEMMA StateStays ==
  ASSUME NEW m, (m \in handled') <=> (m \in handled), Burials(m)' = Burials(m),
         (m > relayed') <=> (m > relayed), Copies(m)' = Copies(m),
         (\E i \in Copies(m) : i > cursor') <=> (\E i \in Copies(m) : i > cursor)
  PROVE  State(m)' = State(m)
<1>1. Burials(m)' = 1 <=> Burials(m) = 1
  OBVIOUS
<1>2. Burials(m)' > 1 <=> Burials(m) > 1
  OBVIOUS
<1>. QED  BY <1>1, <1>2 DEF State

\* One message's state changes, and no attempt is made.
LEMMA Becomes ==
  ASSUME redis' = redis, NEW m \in Messages, NEW from, NEW to,
         State(m) = from, State(m)' = to,
         \A n \in Messages : n # m => State(n)' = State(n),
         \A n \in Messages : Attempts(n)' = Attempts(n)
  PROVE  Promise!Become(m, from, to)
<1>1. StateView' = [StateView EXCEPT ![m] = to]
  BY DEF StateView
<1>2. AttemptsView' = AttemptsView
  BY DEF AttemptsView
<1>3. Limit' = Limit
  BY DEF Limit
<1>. QED  BY <1>1, <1>2, <1>3 DEF Promise!Become, StateView, AttemptsView

\* A step that adds to the log, at most, makes no attempt.
LEMMA AttemptsStay ==
  ASSUME Types, Grows, UNCHANGED cursor
  PROVE  \A m : Attempts(m)' = Attempts(m)
<1>1. Len(log) \in Nat /\ cursor \in Nat /\ cursor <= Len(log)
      /\ \A i \in 1 .. Len(log) : log'[i] = log[i]
  BY DEF Grows, Types, HandTypes
<1>2. \A i \in 1 .. cursor : log'[i] = log[i]
  BY <1>1
<1>. QED  BY <1>2 DEF Attempts

\* A step about message m leaves the states of the others as they are.
LEMMA OtherStatesStay ==
  ASSUME Types, Types', Grows, UNCHANGED cursor, NEW m, NEW n \in Messages, n # m,
         handled' = handled \/ handled' = handled \cup {m},
         dlq' = dlq \/ (m \in 1 .. relayed /\ dlq' = Append(dlq, m)),
         relayed' = relayed \/ (relayed' = relayed + 1 /\ m = relayed + 1),
         \A k \in Len(log) + 1 .. Len(log') : log'[k].msg = m
  PROVE  State(n)' = State(n)
<1>1. (n \in handled') <=> (n \in handled)
  OBVIOUS
<1>2. Burials(n)' = Burials(n)
  <2>1. CASE dlq' = dlq
    BY <2>1 DEF Burials
  <2>2. CASE m \in 1 .. relayed /\ dlq' = Append(dlq, m)
    <3>1. Tombs(Append(dlq, m), n) = Tombs(dlq, n)
      BY <2>2, BurialsCounted DEF Types, LogTypes
    <3>2. Burials(n) = Cardinality(Tombs(dlq, n)) /\ Burials(n)' = Cardinality(Tombs(dlq', n))
      BY DEF Burials, Tombs
    <3>. QED  BY <2>2, <3>1, <3>2
  <2>. QED  BY <2>1, <2>2
<1>3. (n > relayed') <=> (n > relayed)
  <2>1. relayed \in Nat /\ n \in Nat
    BY SentBefore DEF Messages
  <2>. QED  BY <2>1
<1>4. Copies(n)' = Copies(n)
  <2>1. /\ DOMAIN log = 1 .. Len(log) /\ DOMAIN log' = 1 .. Len(log')
        /\ Len(log) \in Nat /\ Len(log') \in Nat /\ Len(log) <= Len(log')
        /\ \A i \in 1 .. Len(log) : log'[i] = log[i]
    BY LenProperties DEF Grows, Types, LogTypes
  <2>2. \A i \in 1 .. Len(log') : i \in 1 .. Len(log) \/ i \in Len(log) + 1 .. Len(log')
    BY <2>1
  <2>3. \A i \in 1 .. Len(log) : i \in 1 .. Len(log')
    BY <2>1
  <2>. QED  BY <2>1, <2>2, <2>3 DEF Copies
<1>. QED  BY <1>1, <1>2, <1>3, <1>4, StateStays

\* A message that may be attempted is not settled.
LEMMA NotBuried ==
  ASSUME Types, NEW m, m \in 1 .. relayed, m \notin Range(dlq)
  PROVE  /\ Burials(m) = 0 /\ m \in Nat /\ relayed \in Nat
         /\ dlq' = dlq => Burials(m)' = 0
         /\ dlq' = Append(dlq, m) => Burials(m)' = 1
<1>1. dlq \in Seq(1 .. relayed) /\ relayed \in Nat /\ m \in Nat
  BY SentBefore DEF Types, LogTypes
<1>2. Cardinality(Tombs(dlq, m)) = 0 /\ Cardinality(Tombs(Append(dlq, m), m)) = 1
  BY <1>1, BurialsCounted
<1>3. Burials(m) = Cardinality(Tombs(dlq, m)) /\ Burials(m)' = Cardinality(Tombs(dlq', m))
  BY DEF Burials, Tombs
<1>. QED  BY <1>1, <1>2, <1>3

\* What becomes of a message that was dealt with.
LEMMA DealtStates ==
  ASSUME Types, Types', Grows, UNCHANGED <<relayed, cursor>>, NEW m \in 1 .. relayed,
         NEW f \in 1 .. cursor, f \in 1 .. Len(log), m = log[f].msg, Ready(f)
  PROVE  /\ State(m) = "taken" /\ Attempts(m) = Count(f) + 1
         /\ DoneWith(m) => State(m)' = "done"
         /\ Buries(m, f) => State(m)' = "dead"
         /\ SendsBack(m, f) /\ Len(log') = Len(log) + 1 /\ log'[Len(log) + 1].msg = m
              => State(m)' = "queued"
<1>1. m \notin Range(dlq) /\ m \notin handled
  BY DEF Ready, Latest, Settled
<1>2. State(m) = "taken" /\ Attempts(m) = Count(f) + 1
  <2>1. f <= cursor
    OBVIOUS
  <2>. QED  BY <2>1, StateOfReady
<1>3. DoneWith(m) => State(m)' = "done"
  <2>. SUFFICES ASSUME DoneWith(m) PROVE State(m)' = "done"
    OBVIOUS
  <2>1. Burials(m)' = 0 /\ m \in handled'
    BY <1>1, NotBuried DEF DoneWith
  <2>. QED  BY <2>1 DEF State
<1>4. Buries(m, f) => State(m)' = "dead"
  <2>. SUFFICES ASSUME Buries(m, f) PROVE State(m)' = "dead"
    OBVIOUS
  <2>1. Burials(m)' = 1
    BY <1>1, NotBuried DEF Buries
  <2>. QED  BY <2>1 DEF State
<1>5. ASSUME SendsBack(m, f), Len(log') = Len(log) + 1, log'[Len(log) + 1].msg = m
      PROVE  State(m)' = "queued"
  <2>1. Burials(m)' = 0 /\ m \notin handled'
    BY <1>1, <1>5, NotBuried DEF SendsBack
  <2>2. ~(m > relayed')
    BY <1>1, NotBuried
  <2>3. Len(log) \in Nat /\ cursor' \in Nat /\ cursor' <= Len(log)
    BY SentBefore DEF Grows, Types, HandTypes
  <2>4. DOMAIN log' = 1 .. Len(log')
    BY LenProperties DEF Types, LogTypes
  <2>5. Len(log) + 1 \in Copies(m)'
    BY <1>5, <2>3, <2>4 DEF Copies
  <2>6. Len(log) + 1 > cursor'
    BY <2>3
  <2>. QED  BY <2>1, <2>2, <2>5, <2>6 DEF State
<1>. QED  BY <1>2, <1>3, <1>4, <1>5

\* A step that leaves the log and the messages' fates alone is none of the promise.
LEMMA Stutters ==
  ASSUME UNCHANGED <<redis, relayed, log, cursor, dlq, handled>>
  PROVE  UNCHANGED Promise!vars
<1>1. \A m : Burials(m)' = Burials(m) /\ Copies(m)' = Copies(m)
  BY DEF Burials, Copies
<1>2. \A m : State(m)' = State(m)
  BY <1>1 DEF State
<1>3. \A m : Attempts(m)' = Attempts(m)
  BY DEF Attempts
<1>4. Limit' = Limit
  BY DEF Limit
<1>. QED  BY <1>2, <1>3, <1>4 DEF Promise!vars

\* Dealing with a message handles it, gives it up or sends it back.
LEMMA DealsAsPromised ==
  ASSUME Types, Types', WorkInv, NEW c \in Consumers, Deal(c)
  PROVE  Promise!Next \/ UNCHANGED Promise!vars
<1>1. PICK f, m : f = First(c) /\ m = Message(c)
  OBVIOUS
<1>2. /\ hand[c] # << >> /\ step[c] = "handle"
      /\ UNCHANGED <<redis, relayed, cursor, pending>>
      /\ \A n \in Messages : n # m => retries'[n] = retries[n]
      /\ \/ DoneWith(m) \/ Buries(m, f) \/ SendsBack(m, f)
         \/ UNCHANGED <<log, dlq, handled>>
  BY <1>1, DealEffects
<1>3. /\ f \in 1 .. cursor /\ f \in 1 .. Len(log)
      /\ m = log[f].msg /\ m \in Messages /\ m \in 1 .. relayed /\ Ready(f)
  BY <1>1, <1>2, DealtWith
<1>4. Grows
  BY DealLog DEF Types
<1>5. SendsBack(m, f) => Len(log') = Len(log) + 1 /\ log'[Len(log) + 1].msg = m
  BY <1>2, <1>3, <1>4, BackIsReady
<1>6. /\ State(m) = "taken" /\ Attempts(m) = Count(f) + 1
      /\ DoneWith(m) => State(m)' = "done"
      /\ Buries(m, f) => State(m)' = "dead"
      /\ SendsBack(m, f) => State(m)' = "queued"
  BY <1>2, <1>3, <1>4, <1>5, DealtStates
<1>7. ASSUME NEW n \in Messages, n # m PROVE State(n)' = State(n)
  <2>1. OnlyAbout(m)
    BY <1>2, <1>3, <1>4, <1>5, DealAbout
  <2>2. \A k \in Len(log) + 1 .. Len(log') : log'[k].msg = m
    BY <2>1 DEF OnlyAbout
  <2>3. handled' = handled \/ handled' = handled \cup {m}
    BY <1>2 DEF DoneWith, Buries, SendsBack
  <2>4. dlq' = dlq \/ (m \in 1 .. relayed /\ dlq' = Append(dlq, m))
    BY <1>2, <1>3 DEF DoneWith, Buries, SendsBack
  <2>. QED  BY <1>2, <1>4, <1>7, <2>2, <2>3, <2>4, OtherStatesStay
<1>8. \A n \in Messages : Attempts(n)' = Attempts(n)
  BY <1>2, <1>4, AttemptsStay
<1>9. \A from, to : State(m) = from /\ State(m)' = to => Promise!Become(m, from, to)
  BY <1>2, <1>3, <1>7, <1>8, Becomes
<1>10. CASE DoneWith(m)
  BY <1>3, <1>6, <1>9, <1>10 DEF Promise!Next, Promise!Finish
<1>11. CASE Buries(m, f)
  <2>1. [n \in Messages |-> Attempts(n)][m] >= Limit
    BY <1>3, <1>6, <1>11 DEF Buries
  <2>. QED  BY <1>3, <1>6, <1>9, <1>11, <2>1 DEF Promise!Next, Promise!Bury
<1>12. CASE SendsBack(m, f)
  <2>1. [n \in Messages |-> Attempts(n)][m] < Limit
    BY <1>3, <1>6, <1>12 DEF SendsBack
  <2>. QED  BY <1>3, <1>6, <1>9, <1>12, <2>1 DEF Promise!Next, Promise!Retry
<1>13. CASE UNCHANGED <<log, dlq, handled>>
  BY <1>2, <1>13, Stutters
<1>. QED  BY <1>2, <1>10, <1>11, <1>12, <1>13

\* The relay sends a message, or loses it.
LEMMA SendsAsPromised ==
  ASSUME Types, Types', Sending
  PROVE  Promise!Next
<1>1. PICK m : m = relayed + 1
  OBVIOUS
<1>2. /\ relayed' = m /\ UNCHANGED <<redis, cursor, dlq, handled>>
      /\ log' = log \/ log' = Append(log, Copy(m, 0))
      /\ relayed < Events
  BY <1>1 DEF Sending, Send, consumerVars
<1>3. /\ relayed \in Nat /\ m \in Nat /\ m > relayed /\ m \in Messages
      /\ \A i \in 1 .. Len(log) : log[i].msg # m
      /\ m \notin handled /\ m \notin Range(dlq)
  BY <1>1, <1>2, SentBefore, LimitsAssumption DEF Messages
<1>4. /\ Grows
      /\ log' # log => Len(log') = Len(log) + 1 /\ log'[Len(log) + 1].msg = m
  BY <1>1, SendLog DEF Types
<1>5. DOMAIN log = 1 .. Len(log) /\ DOMAIN log' = 1 .. Len(log')
  BY LenProperties DEF Types, LogTypes
<1>6. Burials(m) = 0 /\ Burials(m)' = 0
  <2>1. 1 .. relayed \subseteq Messages
    BY SentBefore, LimitsAssumption DEF Messages
  <2>2. dlq \in Seq(Messages)
    BY <2>1, SeqMonotonic DEF Types, LogTypes
  <2>3. Cardinality(Tombs(dlq, m)) = 0
    BY <1>3, <2>2, BurialsCounted
  <2>4. Burials(m) = Cardinality(Tombs(dlq, m)) /\ Burials(m)' = Cardinality(Tombs(dlq', m))
    BY DEF Burials, Tombs
  <2>. QED  BY <1>2, <2>3, <2>4
<1>7. State(m) = "unsent"
  BY <1>3, <1>6 DEF State
<1>8. ~(m > relayed') /\ m \notin handled'
  BY <1>2, <1>3
<1>9. \A n \in Messages : n # m => State(n)' = State(n)
  <2>1. ASSUME NEW k \in Len(log) + 1 .. Len(log') PROVE log'[k].msg = m
    <3>1. log' # log
      BY <1>4 DEF Grows
    <3>2. k = Len(log) + 1
      BY <1>4, <3>1 DEF Grows
    <3>. QED  BY <1>4, <3>1, <3>2
  <2>2. relayed' = relayed + 1 /\ m = relayed + 1
    BY <1>1, <1>2
  <2>. QED  BY <1>2, <1>4, <2>1, <2>2, OtherStatesStay
<1>10. \A n \in Messages : Attempts(n)' = Attempts(n)
  BY <1>2, <1>4, AttemptsStay
<1>11. CASE log' = log
  <2>1. Copies(m)' = {}
    BY <1>3, <1>5, <1>11 DEF Copies
  <2>2. State(m)' = "lost"
    BY <1>6, <1>8, <2>1 DEF State
  <2>3. Promise!Become(m, "unsent", "lost")
    BY <1>2, <1>3, <1>7, <1>9, <1>10, <2>2, Becomes
  <2>. QED  BY <1>3, <2>3 DEF Promise!Next, Promise!Lose
<1>12. CASE log' # log
  <2>1. Len(log) + 1 > cursor' /\ Len(log) \in Nat
    BY <1>2 DEF Grows, Types, HandTypes, LogTypes
  <2>2. Len(log) + 1 \in Copies(m)'
    BY <1>4, <1>5, <1>12, <2>1 DEF Copies
  <2>3. State(m)' = "queued"
    BY <1>6, <1>8, <2>1, <2>2 DEF State
  <2>4. Promise!Become(m, "unsent", "queued")
    BY <1>2, <1>3, <1>7, <1>9, <1>10, <2>3, Becomes
  <2>. QED  BY <1>3, <2>4 DEF Promise!Next, Promise!Send
<1>. QED  BY <1>11, <1>12

\* The messages in a delivery of n copies are taken.
Batched(n) == {log[i].msg : i \in cursor + 1 .. cursor + n}

\* A message in a delivery was queued, is taken and was attempted once more.
LEMMA Delivers ==
  ASSUME Types, WorkInv, UNCHANGED <<redis, relayed, log, dlq, handled>>,
         NEW n \in Nat, cursor' = cursor + n, cursor + n <= Len(log),
         NEW i \in cursor + 1 .. cursor + n, NEW m, m = log[i].msg
  PROVE  /\ State(m) = "queued" /\ State(m)' = "taken"
         /\ Attempts(m)' = Attempts(m) + 1
<1>1. /\ Len(log) \in Nat /\ cursor \in Nat /\ i \in 1 .. Len(log) /\ i > cursor
      /\ i <= cursor + n /\ DOMAIN log = 1 .. Len(log)
  BY LenProperties DEF Types, LogTypes, HandTypes
<1>2. Ready(i)
  BY <1>1 DEF WorkInv
<1>3. State(m) = "queued"
  BY <1>1, <1>2, StateOfReady
<1>4. /\ m \in 1 .. relayed /\ relayed \in Nat /\ m \notin handled /\ m \notin Range(dlq)
      /\ \A k \in 1 .. Len(log) : log[k].msg = m => k <= i
  BY <1>1, <1>2, SentBefore DEF Ready, Latest, Settled
<1>5. Copies(m)' = Copies(m) /\ i \in Copies(m)
      /\ \A k \in Copies(m) : ~(k > cursor')
  BY <1>1, <1>4 DEF Copies
<1>6. Burials(m)' = 0 /\ ~(m > relayed') /\ m \notin handled'
  BY <1>4, NotBuried
<1>7. State(m)' = "taken"
  <2>1. Copies(m)' # {} /\ ~(\E k \in Copies(m)' : k > cursor')
    BY <1>5
  <2>. QED  BY <1>6, <2>1 DEF State
<1>8. Earlier(i) = {k \in 1 .. cursor : log[k].msg = m}
  <2>1. ASSUME NEW k \in 1 .. i - 1, log[k].msg = m PROVE k \in 1 .. cursor
    <3>1. k \in 1 .. Len(log) /\ k # i
      BY <1>1
    <3>2. SUFFICES ASSUME k > cursor PROVE FALSE
      BY <1>1
    <3>3. Ready(k)
      BY <3>1, <3>2 DEF WorkInv
    <3>. QED  BY <1>1, <1>2, <2>1, <3>1, <3>3, OneLatest DEF Ready
  <2>2. 1 .. cursor \subseteq 1 .. i - 1
    BY <1>1
  <2>. QED  BY <2>1, <2>2 DEF Earlier
<1>9. /\ Cardinality(Earlier(i)) \in Nat
      /\ Cardinality({k \in 1 .. cursor + n : log[k].msg = m}) = Cardinality(Earlier(i)) + 1
  <2>1. PICK j : j = cursor + n
    OBVIOUS
  <2>2. j \in i .. Len(log)
    BY <1>1, <2>1
  <2>3. /\ Cardinality(Earlier(i)) \in Nat
        /\ Cardinality({k \in 1 .. j : log[k].msg = log[i].msg}) = Cardinality(Earlier(i)) + 1
    BY <1>1, <1>2, <2>2, CopiesUpTo DEF Ready
  <2>. QED  BY <2>1, <2>3
<1>10. Attempts(m)' = Attempts(m) + 1
  BY <1>8, <1>9 DEF Attempts
<1>. QED  BY <1>3, <1>7, <1>10

\* A delivery takes its messages at once; an empty one takes nothing.
LEMMA TakesAsPromised ==
  ASSUME Types, WorkInv, UNCHANGED <<redis, relayed, log, dlq, handled>>,
         NEW n \in Nat, cursor' = cursor + n, cursor + n <= Len(log)
  PROVE  Promise!Next \/ UNCHANGED Promise!vars
<1>1. CASE n = 0
  <2>1. cursor' = cursor
    BY <1>1 DEF Types, HandTypes, LogTypes
  <2>. QED  BY <2>1, Stutters
<1>2. CASE n # 0
  <2>. DEFINE batch == Batched(n)
  <2>1. Len(log) \in Nat /\ cursor \in Nat /\ DOMAIN log = 1 .. Len(log)
    BY LenProperties DEF Types, LogTypes, HandTypes
  <2>2. batch # {} /\ batch \in SUBSET Messages
    <3>1. cursor + 1 \in cursor + 1 .. cursor + n
      BY <1>2, <2>1
    <3>2. log[cursor + 1].msg \in batch
      BY <3>1 DEF Batched
    <3>3. \A i \in cursor + 1 .. cursor + n : i \in 1 .. Len(log)
      BY <2>1
    <3>4. \A i \in cursor + 1 .. cursor + n : log[i].msg \in Messages
      BY <3>3, SentBefore
    <3>. QED  BY <3>2, <3>4 DEF Batched
  <2>3. \A m \in batch : /\ State(m) = "queued" /\ State(m)' = "taken"
                         /\ Attempts(m)' = Attempts(m) + 1
    BY Delivers DEF Batched
  <2>4. ASSUME NEW m \in Messages, m \notin batch
        PROVE  State(m)' = State(m) /\ Attempts(m)' = Attempts(m)
    <3>1. \A i \in Copies(m) : i > cursor' <=> i > cursor
      <4>1. ASSUME NEW i \in Copies(m), i > cursor, ~(i > cursor + n) PROVE FALSE
        <5>1. i \in cursor + 1 .. cursor + n /\ log[i].msg = m
          BY <2>1, <4>1 DEF Copies
        <5>. QED  BY <2>4, <5>1 DEF Batched
      <4>2. \A i \in Copies(m) : i \in Nat
        BY <2>1 DEF Copies
      <4>. QED  BY <2>1, <4>1, <4>2
    <3>2. Burials(m)' = Burials(m) /\ Copies(m)' = Copies(m)
      BY DEF Burials, Copies
    <3>3. State(m)' = State(m)
      BY <3>1, <3>2, StateStays
    <3>4. {i \in 1 .. cursor + n : log[i].msg = m} = {i \in 1 .. cursor : log[i].msg = m}
      <4>1. \A i \in 1 .. cursor + n : i \in 1 .. cursor \/ i \in cursor + 1 .. cursor + n
        BY <2>1
      <4>2. \A i \in 1 .. cursor : i \in 1 .. cursor + n
        BY <2>1
      <4>. QED  BY <2>4, <4>1, <4>2 DEF Batched
    <3>. QED  BY <3>3, <3>4 DEF Attempts
  <2>5. Limit' = Limit
    BY DEF Limit
  <2>6. StateView' = [m \in Messages |-> IF m \in batch THEN "taken" ELSE StateView[m]]
    BY <2>3, <2>4 DEF StateView
  <2>7. AttemptsView' = [m \in Messages |-> IF m \in batch THEN AttemptsView[m] + 1
                                                           ELSE AttemptsView[m]]
    BY <2>3, <2>4 DEF AttemptsView
  <2>8. \A m \in batch : StateView[m] = "queued"
    BY <2>2, <2>3 DEF StateView
  <2>. HIDE DEF batch
  <2>9. Promise!Take(batch)
    BY <2>2, <2>5, <2>6, <2>7, <2>8 DEF Promise!Take, StateView, AttemptsView
  <2>. QED  BY <2>2, <2>9 DEF Promise!Next
<1>. QED  BY <1>1, <1>2

\* The steps that deal with nothing deliver, or are none of the promise.
LEMMA OthersAsPromised ==
  ASSUME Types, WorkInv, Other
  PROVE  Promise!Next \/ UNCHANGED Promise!vars
<1>1. UNCHANGED <<redis, relayed, log, dlq, handled>>
  BY OtherLog DEF Types
<1>2. Len(log) \in Nat /\ cursor \in Nat
  BY LenProperties DEF Types, LogTypes, HandTypes
<1>3. cursor' = cursor => UNCHANGED Promise!vars
  BY <1>1, Stutters
<1>4. \A n \in Nat : cursor' = cursor + n /\ cursor + n <= Len(log)
                       => Promise!Next \/ UNCHANGED Promise!vars
  BY <1>1, TakesAsPromised
<1>5. ASSUME NEW c \in Consumers, Get(c) \/ Ack(c) \/ AckFails(c) \/ Crash(c)
      PROVE  \/ cursor' = cursor
             \/ 1 \in Nat /\ cursor' = cursor + 1 /\ cursor + 1 <= Len(log)
  BY <1>2, <1>5 DEF Get, Ack, AckFails, Crash, logVars, Waiting
<1>. QED  BY <1>3, <1>4, <1>5, OtherCases DEF Types

\* At the start nothing was sent or attempted.
LEMMA PromiseInit == Init => Promise!Init
<1>. SUFFICES ASSUME Init PROVE Promise!Init
  OBVIOUS
<1>1. redis \in BOOLEAN /\ relayed = 0 /\ log = << >> /\ cursor = 0 /\ dlq = << >>
      /\ handled = {} /\ DOMAIN << >> = {}
  BY DEF Init
<1>2. Cardinality({}) = 0
  BY FS_EmptySet
<1>3. Limit \in Nat
  BY LimitsAssumption DEF Limit
<1>4. ASSUME NEW m \in Messages PROVE State(m) = "unsent" /\ Attempts(m) = 0
  <2>1. m > relayed /\ m \notin handled
    BY <1>1, LimitsAssumption DEF Messages
  <2>2. {i \in DOMAIN dlq : dlq[i] = m} = {} /\ {i \in 1 .. cursor : log[i].msg = m} = {}
    BY <1>1
  <2>3. Burials(m) = 0 /\ Attempts(m) = 0
    BY <1>2, <2>2 DEF Burials, Attempts
  <2>. QED  BY <2>1, <2>3 DEF State
<1>. QED  BY <1>3, <1>4 DEF Promise!Init

\* Both queues keep the promise of RetryQueue, each with its limit, whichever
\* command fails and whichever consumer stops (messaging/queue.py): a message is
\* handled or given up after so many attempts, by one consumer at a time, and one
\* that was handled or given up is never seen again, nor given up twice.
THEOREM PromiseKept == Spec => KeepsPromise
<1>1. ASSUME Types, RetryInv, WorkInv, Types', [Next]_vars
      PROVE  Promise!Next \/ UNCHANGED Promise!vars
  BY <1>1, StepCases, SendsAsPromised, DealsAsPromised, OthersAsPromised
<1>2. Types /\ RetryInv /\ WorkInv /\ [Next]_vars => (Types /\ RetryInv /\ WorkInv)'
  BY TypesStep, WorkStep
<1>3. Types /\ RetryInv /\ WorkInv /\ Types' /\ [Next]_vars => [Promise!Next]_Promise!vars
  BY <1>1
<1>4. Init => Types /\ RetryInv /\ WorkInv /\ Promise!Init
  BY TypesInit, WorkInit, PromiseInit
<1>. QED  BY <1>2, <1>3, <1>4, PTL DEF Spec, KeepsPromise, Promise!Spec
=============================================================================
