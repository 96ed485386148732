---------------------- MODULE SettlementPipelineProofs ---------------------
(***************************************************************************)
(* Theorems about SettlementPipeline, for any groups, amounts and capacity *)
(* of the queue, and however long the API keeps posting.                   *)
(***************************************************************************)
EXTENDS SettlementPipeline, BookkeepingProofs

-----------------------------------------------------------------------------
(* Sequences of events. *)

\* The first of a sequence may as well stand at the end of the one before it.
LEMMA HeadMoves ==
  ASSUME NEW s \in Seq(Nat), NEW t \in Seq(Nat), t # << >>
  PROVE  /\ Head(t) \in Nat /\ Tail(t) \in Seq(Nat) /\ <<Head(t)>> \in Seq(Nat)
         /\ <<Head(t)>> \o Tail(t) = t
         /\ s \o <<Head(t)>> = Append(s, Head(t))
         /\ Append(s, Head(t)) \o Tail(t) = s \o t
<1>1. /\ Head(t) \in Nat /\ Tail(t) \in Seq(Nat) /\ Len(Tail(t)) = Len(t) - 1
      /\ \A i \in 1 .. Len(Tail(t)) : Tail(t)[i] = t[i + 1]
      /\ Len(t) \in Nat \ {0}
  BY HeadTailProperties, EmptySeq
<1>2. <<Head(t)>> \in Seq(Nat)
  BY <1>1
<1>3. <<Head(t)>> \o Tail(t) = t
  <2>1. /\ <<Head(t)>> \o Tail(t) \in Seq(Nat)
        /\ Len(<<Head(t)>> \o Tail(t)) = Len(t)
        /\ \A i \in 1 .. Len(t) : (<<Head(t)>> \o Tail(t))[i] =
             IF i <= 1 THEN <<Head(t)>>[i] ELSE Tail(t)[i - 1]
    BY <1>1, <1>2, ConcatProperties
  <2>2. \A i \in 1 .. Len(t) : (<<Head(t)>> \o Tail(t))[i] = t[i]
    BY <1>1, <2>1
  <2>. QED  BY <2>1, <2>2, SeqEqual
<1>4. s \o <<Head(t)>> = Append(s, Head(t))
  BY <1>1, AppendIsConcat
<1>5. (s \o <<Head(t)>>) \o Tail(t) = s \o t
  <2>1. (s \o <<Head(t)>>) \o Tail(t) = s \o (<<Head(t)>> \o Tail(t))
    <3>. DEFINE h == <<Head(t)>>
               r == Tail(t)
    <3>1. h \in Seq(Nat) /\ r \in Seq(Nat)
      BY <1>1, <1>2
    <3>. HIDE DEF h, r
    <3>2. (s \o h) \o r = s \o (h \o r)
      BY <3>1, ConcatAssociative, SMTT(30)
    <3>. QED  BY <3>2 DEF h, r
  <2>. QED  BY <1>3, <2>1, Zenon
<1>6. Append(s, Head(t)) \o Tail(t) = s \o t
  BY <1>4, <1>5, Zenon
<1>. QED  BY <1>1, <1>2, <1>3, <1>4, <1>6, Zenon

\* Appending to the second of two sequences.
LEMMA AppendAfter ==
  ASSUME NEW s \in Seq(Nat), NEW t \in Seq(Nat), NEW n \in Nat
  PROVE  s \o Append(t, n) = Append(s \o t, n)
<1>1. <<n>> \in Seq(Nat) /\ s \o t \in Seq(Nat)
  BY ConcatProperties
<1>2. Append(t, n) = t \o <<n>> /\ Append(s \o t, n) = (s \o t) \o <<n>>
  BY <1>1, AppendIsConcat
<1>. QED  BY <1>1, <1>2, ConcatAssociative

\* A sequence of at most one event is empty or is its first.
LEMMA AtMostOne ==
  ASSUME NEW s \in Seq(Nat), Len(s) <= 1, s # << >>
  PROVE  s = <<Head(s)>>
<1>1. Len(s) = 1
  <2>1. \A n \in Nat \ {0} : n <= 1 => n = 1
    OBVIOUS
  <2>2. Len(s) \in Nat \ {0}
    BY EmptySeq
  <2>. QED  BY <2>1, <2>2
<1>2. Head(s) \in Nat /\ Head(s) = s[1]
  BY <1>1
<1>3. /\ <<Head(s)>> \in Seq(Nat) /\ Len(<<Head(s)>>) = 1
      /\ <<Head(s)>>[1] = Head(s)
  BY <1>2
<1>4. \A i \in 1 .. Len(s) : s[i] = <<Head(s)>>[i]
  BY <1>1, <1>2, <1>3
<1>. QED  BY <1>1, <1>3, <1>4, SeqEqual

-----------------------------------------------------------------------------
(* Where the events are. *)

\* Of the types, what the way of the events depends on.
Places ==
  /\ pending \in Seq(Nat) /\ queue \in Seq(Nat) /\ gone \in Seq(Nat)
  /\ held \in Seq(Nat) /\ Len(held) <= 1
  /\ hand \in Seq(Nat) /\ Len(hand) <= 1
  /\ worker \notin {"balances", "debts"} => hand = << >>
  /\ Len(queue) <= Capacity
  /\ \E S : outbox \in Seq(S)

Line     == gone \o hand \o queue \o held \o pending
Numbered == [e \in DOMAIN outbox |-> e]
Inv      == Places /\ InOrderOnce

\* An event that is written to the outbox has the next number.
LEMMA NumberedGrows ==
  ASSUME NEW S, outbox \in Seq(S), NEW e, outbox' = Append(outbox, e)
  PROVE  /\ Len(outbox) + 1 \in Nat
         /\ Numbered' = Append(Numbered, Len(outbox) + 1)
         /\ \E T : outbox' \in Seq(T)
<1>1. /\ Len(outbox) \in Nat /\ DOMAIN outbox = 1 .. Len(outbox)
      /\ outbox \in Seq(S \cup {e})
  BY LenProperties, SeqMonotonic
<1>2. outbox' \in Seq(S \cup {e}) /\ Len(outbox') = Len(outbox) + 1
  BY <1>1, AppendProperties
<1>3. DOMAIN outbox' = 1 .. Len(outbox) + 1
  BY <1>2, LenProperties
<1>4. Numbered \in Seq(Nat) /\ Numbered' \in Seq(Nat)
      /\ Len(Numbered) = Len(outbox) /\ Len(Numbered') = Len(outbox) + 1
  BY <1>1, <1>3 DEF Numbered
<1>5. /\ Append(Numbered, Len(outbox) + 1) \in Seq(Nat)
      /\ Len(Append(Numbered, Len(outbox) + 1)) = Len(outbox) + 1
      /\ \A i \in 1 .. Len(outbox) : Append(Numbered, Len(outbox) + 1)[i] = Numbered[i]
      /\ Append(Numbered, Len(outbox) + 1)[Len(outbox) + 1] = Len(outbox) + 1
  BY <1>1, <1>4, AppendProperties
<1>6. \A i \in 1 .. Len(outbox) + 1 :
        Numbered'[i] = Append(Numbered, Len(outbox) + 1)[i]
  BY <1>1, <1>3, <1>5 DEF Numbered
<1>7. Numbered' = Append(Numbered, Len(outbox) + 1)
  BY <1>4, <1>5, <1>6, SeqEqual
<1>. QED  BY <1>1, <1>2, <1>7

\* The line up to the worker's hand, to the queue, and to the relay.
LEMMA LineParts ==
  ASSUME Places
  PROVE  /\ gone \o hand \in Seq(Nat)
         /\ gone \o hand \o queue \in Seq(Nat)
         /\ gone \o hand \o queue \o held \in Seq(Nat)
BY ConcatProperties DEF Places

\* An event that is emitted joins the line at its end.
LEMMA EmitInv ==
  ASSUME Inv, NEW e, Emit(e), UNCHANGED <<held, queue>>,
         \/ UNCHANGED <<gone, hand, worker>>
         \/ gone' = gone \o hand /\ hand' = << >>
  PROVE  Inv'
<1>1. PICK S : outbox \in Seq(S)
  BY DEF Inv, Places
<1>2. /\ Len(outbox) + 1 \in Nat
      /\ Numbered' = Append(Numbered, Len(outbox) + 1)
      /\ \E T : outbox' \in Seq(T)
  BY <1>1, NumberedGrows DEF Emit
<1>3. pending' = Append(pending, Len(outbox) + 1) /\ pending' \in Seq(Nat)
  BY <1>2, AppendProperties DEF Emit, Inv, Places
<1>4. gone' \o hand' = gone \o hand /\ gone' \in Seq(Nat) /\ hand' \in Seq(Nat)
      /\ Len(hand') <= 1 /\ (worker' \notin {"balances", "debts"} => hand' = << >>)
  <2>1. gone \in Seq(Nat) /\ hand \in Seq(Nat) /\ gone \o hand \in Seq(Nat)
    BY LineParts DEF Inv, Places
  <2>2. (gone \o hand) \o << >> = gone \o hand /\ << >> \in Seq(Nat) /\ Len(<< >>) = 0
    BY <2>1, ConcatEmptySeq, EmptySeq
  <2>3. CASE UNCHANGED <<gone, hand, worker>>
    BY <2>1, <2>3 DEF Inv, Places
  <2>4. CASE gone' = gone \o hand /\ hand' = << >>
    BY <2>1, <2>2, <2>4
  <2>. QED  BY <2>3, <2>4
<1>5. Places'
  BY <1>2, <1>3, <1>4 DEF Inv, Places
<1>6. Line' = Append(Line, Len(outbox) + 1)
  <2>1. gone \o hand \o queue \o held \in Seq(Nat) /\ pending \in Seq(Nat)
    BY LineParts DEF Inv, Places
  <2>2. Line' = (gone \o hand \o queue \o held) \o pending'
    BY <1>4 DEF Line
  <2>. QED  BY <1>2, <1>3, <2>1, <2>2, AppendAfter DEF Line
<1>. QED  BY <1>2, <1>5, <1>6 DEF Inv, InOrderOnce, Line, Numbered

\* A step that emits nothing and leaves the line what it was.
LEMMA LineInv ==
  ASSUME Inv, outbox' = outbox, Line' = Line, Places' PROVE Inv'
BY DEF Inv, InOrderOnce, Line

\* The relay puts the first pending event into the queue, or holds it while the
\* queue is full.
LEMMA RelayInv ==
  ASSUME Inv, Relay
  PROVE  Inv'
<1>. DEFINE X == gone \o hand
<1>1. /\ X \in Seq(Nat) /\ X \o queue \in Seq(Nat) /\ queue \in Seq(Nat)
      /\ pending \in Seq(Nat) /\ pending # << >> /\ held = << >>
  BY LineParts DEF Inv, Places, Relay
<1>2. /\ Head(pending) \in Nat /\ Tail(pending) \in Seq(Nat)
      /\ Append(X \o queue, Head(pending)) \o Tail(pending) = (X \o queue) \o pending
      /\ (X \o queue) \o <<Head(pending)>> = Append(X \o queue, Head(pending))
      /\ <<Head(pending)>> \in Seq(Nat)
  BY <1>1, HeadMoves
<1>3. Line = (X \o queue) \o pending
  <2>1. (X \o queue) \o << >> = X \o queue
    BY <1>1, ConcatEmptySeq
  <2>. QED  BY <1>1, <2>1 DEF Line
<1>4. UNCHANGED <<gone, hand, worker, outbox>> /\ pending' = Tail(pending)
  BY DEF Relay
<1>5. CASE HasRoom /\ queue' = Append(queue, Head(pending)) /\ held' = held
  <2>1. /\ X \o Append(queue, Head(pending)) = Append(X \o queue, Head(pending))
        /\ Append(queue, Head(pending)) \in Seq(Nat)
        /\ Len(Append(queue, Head(pending))) = Len(queue) + 1
        /\ X \o Append(queue, Head(pending)) \in Seq(Nat)
    <3>. HIDE DEF X
    <3>1. /\ Append(queue, Head(pending)) \in Seq(Nat)
          /\ Len(Append(queue, Head(pending))) = Len(queue) + 1
      BY <1>1, <1>2, AppendProperties
    <3>. QED  BY <1>1, <1>2, <3>1, AppendAfter, ConcatProperties
  <2>2. (X \o Append(queue, Head(pending))) \o << >>
          = X \o Append(queue, Head(pending))
    BY <2>1, ConcatEmptySeq
  <2>3. Line' = Line
    BY <1>1, <1>2, <1>3, <1>4, <1>5, <2>1, <2>2 DEF Line
  <2>4. queue' \in Seq(Nat) /\ Len(queue') <= Capacity
    <3>1. Len(queue) \in Nat /\ Len(queue) < Capacity /\ Capacity \in Nat
      BY <1>1, <1>5, CapacityAssumption, LenProperties DEF HasRoom
    <3>. QED  BY <1>5, <2>1, <3>1
  <2>5. Places'
    BY <1>2, <1>4, <1>5, <2>4 DEF Inv, Places
  <2>. QED  BY <1>4, <2>3, <2>5, LineInv
<1>6. CASE held' = Blocked(Head(pending)) /\ queue' = queue
  <2>1. Line' = Line
    BY <1>2, <1>3, <1>4, <1>6 DEF Line, Blocked
  <2>2. Places'
    BY <1>2, <1>4, <1>6 DEF Inv, Places, Blocked
  <2>. QED  BY <1>4, <2>1, <2>2, LineInv
<1>. QED  BY <1>5, <1>6 DEF Relay

\* The put that waited goes through.
LEMMA RelayPutInv ==
  ASSUME Inv, RelayPut
  PROVE  Inv'
<1>. DEFINE X == gone \o hand
<1>1. /\ X \in Seq(Nat) /\ X \o queue \in Seq(Nat) /\ queue \in Seq(Nat)
      /\ held \in Seq(Nat) /\ Len(held) <= 1 /\ held # << >>
  BY LineParts DEF Inv, Places, RelayPut
<1>2. held = <<Head(held)>>
  BY <1>1, AtMostOne
<1>3. /\ Head(held) \in Nat
      /\ (X \o queue) \o held = Append(X \o queue, Head(held))
  <2>1. /\ Head(held) \in Nat
        /\ (X \o queue) \o <<Head(held)>> = Append(X \o queue, Head(held))
    BY <1>1, HeadMoves
  <2>. QED  BY <1>2, <2>1
<1>4. /\ X \o Append(queue, Head(held)) = Append(X \o queue, Head(held))
      /\ Append(queue, Head(held)) \in Seq(Nat)
      /\ Len(Append(queue, Head(held))) = Len(queue) + 1
      /\ X \o Append(queue, Head(held)) \in Seq(Nat)
  <2>. HIDE DEF X
  <2>1. /\ Append(queue, Head(held)) \in Seq(Nat)
        /\ Len(Append(queue, Head(held))) = Len(queue) + 1
    BY <1>1, <1>3, AppendProperties
  <2>. QED  BY <1>1, <1>3, <2>1, AppendAfter, ConcatProperties
<1>5. (X \o Append(queue, Head(held))) \o << >> = (X \o queue) \o held
  BY <1>3, <1>4, ConcatEmptySeq
<1>6. /\ UNCHANGED <<gone, hand, worker, outbox, pending>> /\ held' = << >>
      /\ queue' = Append(queue, Head(held)) /\ HasRoom
  BY DEF RelayPut
<1>7. Line' = Line
  BY <1>5, <1>6 DEF Line
<1>8. queue' \in Seq(Nat) /\ Len(queue') <= Capacity
  <2>1. Len(queue) \in Nat /\ Len(queue) < Capacity /\ Capacity \in Nat
    BY <1>1, <1>6, CapacityAssumption, LenProperties DEF HasRoom
  <2>. QED  BY <1>4, <1>6, <2>1
<1>9. held' \in Seq(Nat) /\ Len(held') = 0
  BY <1>6, EmptySeq
<1>10. Places'
  BY <1>6, <1>8, <1>9 DEF Inv, Places
<1>. QED  BY <1>6, <1>7, <1>10, LineInv

\* The worker takes the first event of the queue, and is done with it or not.
LEMMA TakeInv ==
  ASSUME Inv, UNCHANGED <<outbox, pending, held>>, hand = << >>, queue # << >>,
         queue' = Tail(queue),
         \/ gone' = Append(gone, Head(queue)) /\ hand' = hand
         \/ gone' = gone /\ hand' = <<Head(queue)>> /\ worker' \in {"balances", "debts"}
  PROVE  Inv'
<1>1. gone \in Seq(Nat) /\ queue \in Seq(Nat)
  BY DEF Inv, Places
<1>2. /\ Head(queue) \in Nat /\ Tail(queue) \in Seq(Nat) /\ <<Head(queue)>> \in Seq(Nat)
      /\ gone \o <<Head(queue)>> = Append(gone, Head(queue))
      /\ Append(gone, Head(queue)) \o Tail(queue) = gone \o queue
      /\ Append(gone, Head(queue)) \in Seq(Nat)
      /\ Len(Tail(queue)) = Len(queue) - 1 /\ Len(queue) \in Nat
  BY <1>1, HeadMoves, AppendProperties, HeadTailProperties, LenProperties
<1>3. /\ gone \o << >> = gone
      /\ Append(gone, Head(queue)) \o << >> = Append(gone, Head(queue))
  BY <1>1, <1>2, ConcatEmptySeq
<1>4. gone' \o hand' \o queue' = gone \o hand \o queue
  BY <1>2, <1>3
<1>5. Line' = Line
  BY <1>4 DEF Line
<1>6. Places'
  <2>1. gone' \in Seq(Nat) /\ queue' \in Seq(Nat) /\ hand' \in Seq(Nat)
    BY <1>1, <1>2 DEF Inv, Places
  <2>2. Len(hand') <= 1 /\ (worker' \notin {"balances", "debts"} => hand' = << >>)
    <3>1. CASE gone' = Append(gone, Head(queue)) /\ hand' = hand
      <4>1. hand' = << >> /\ Len(<< >>) <= 1
        BY <3>1, EmptySeq
      <4>. QED  BY <4>1
    <3>2. CASE hand' = <<Head(queue)>> /\ worker' \in {"balances", "debts"}
      <4>1. Len(<<Head(queue)>>) <= 1
        OBVIOUS
      <4>. QED  BY <3>2, <4>1
    <3>. QED  BY <3>1, <3>2
  <2>3. Len(queue') <= Capacity
    BY <1>2, CapacityAssumption DEF Inv, Places
  <2>. QED  BY <2>1, <2>2, <2>3 DEF Inv, Places
<1>. QED  BY <1>5, <1>6, LineInv

\* The worker gives up the request in its hand.
LEMMA GiveUpInv ==
  ASSUME Inv, UNCHANGED busVars, gone' = gone \o hand, hand' = << >>
  PROVE  Inv'
<1>1. gone \o hand \in Seq(Nat)
  BY LineParts DEF Inv
<1>2. (gone \o hand) \o << >> = gone \o hand
  BY <1>1, ConcatEmptySeq
<1>3. Line' = Line
  BY <1>2 DEF Line, busVars
<1>4. Places'
  BY <1>1, EmptySeq DEF Inv, Places, busVars
<1>. QED  BY <1>3, <1>4, LineInv DEF busVars

\* Every step keeps the order.
LEMMA InvStep ==
  ASSUME Inv, [Next]_vars
  PROVE  Inv'
<1>1. ASSUME NEW g \in Groups, SettleGroup(g) PROVE Inv'
  BY <1>1, EmitInv DEF SettleGroup
<1>2. ASSUME NEW g \in Groups, NEW n \in Amounts, CreateExpense(g, n) PROVE Inv'
  BY <1>2, EmitInv DEF CreateExpense
<1>3. CASE RelayStep
  BY <1>3, RelayInv, RelayPutInv DEF RelayStep
<1>4. CASE Skip
  <2>1. hand = << >>
    BY <1>4 DEF Skip, Inv, Places
  <2>. QED  BY <1>4, <2>1, TakeInv DEF Skip
<1>5. CASE SettleAndSave
  <2>1. hand = << >>
    BY <1>5 DEF SettleAndSave, Inv, Places
  <2>. QED  BY <1>5, <2>1, TakeInv DEF SettleAndSave
<1>6. CASE DeleteDebts
  BY <1>6, EmitInv DEF DeleteDebts
<1>7. CASE CacheFails \/ StopWorker
  BY <1>7, GiveUpInv DEF CacheFails, StopWorker
<1>8. CASE DeleteBalances \/ PauseEnds
  <2>1. /\ UNCHANGED <<busVars, gone, hand>>
        /\ worker \notin {"balances", "debts"} \/ worker' \in {"balances", "debts"}
    BY <1>8 DEF DeleteBalances, PauseEnds
  <2>. QED  BY <2>1 DEF Inv, Places, InOrderOnce, busVars
<1>9. CASE StopRelay \/ Idle \/ UNCHANGED vars
  <2>1. UNCHANGED <<busVars, worker, gone, hand>>
    BY <1>9 DEF StopRelay, Idle, vars, busVars
  <2>. QED  BY <2>1 DEF Inv, Places, InOrderOnce, busVars
<1>. QED  BY <1>1, <1>2, <1>3, <1>4, <1>5, <1>6, <1>7, <1>8, <1>9
          DEF Next, WorkerStep

\* The order at the start, when there is no event.
LEMMA InvInit == Init => Inv
<1>. SUFFICES ASSUME Init PROVE Inv
  OBVIOUS
<1>1. /\ gone = << >> /\ hand = << >> /\ queue = << >> /\ held = << >>
      /\ pending = << >> /\ outbox = << >> /\ worker = "waiting"
  BY DEF Init
<1>2. \A S : << >> \in Seq(S) /\ Len(<< >>) = 0
  BY EmptySeq
<1>3. << >> \o << >> = << >>
  BY <1>2, ConcatEmptySeq
<1>4. << >> = [e \in DOMAIN outbox |-> e]
  BY <1>1
<1>5. Places
  BY <1>1, <1>2, CapacityAssumption DEF Places
<1>. QED  BY <1>1, <1>3, <1>4, <1>5 DEF Inv, InOrderOnce

\* However full the queue, whichever handlers fail and whenever the process is
\* stopped, every event is in one place and in the order of the outbox.
THEOREM InOrder == Spec => []InOrderOnce
<1>. QED  BY InvInit, InvStep, PTL DEF Spec, Inv

\* The queue never outgrows its maxsize; one event at most waits in a blocked
\* put, and one at most is in the worker's hand.
THEOREM Bounded ==
  Spec => [](Len(queue) <= Capacity /\ Len(held) <= 1 /\ Len(hand) <= 1)
<1>1. Inv => Len(queue) <= Capacity /\ Len(held) <= 1 /\ Len(hand) <= 1
  BY DEF Inv, Places
<1>. QED  BY <1>1, InvInit, InvStep, PTL DEF Spec

-----------------------------------------------------------------------------
(* The numbers of the events at hand. *)

\* The beginning of a sequence stays where it is.
LEMMA Beginning ==
  ASSUME NEW x \in Seq(Nat), NEW y \in Seq(Nat), NEW i \in 1 .. Len(x)
  PROVE  (x \o y)[i] = x[i] /\ i \in 1 .. Len(x \o y) /\ x \o y \in Seq(Nat)
<1>1. /\ Len(x) \in Nat /\ Len(y) \in Nat /\ Len(x \o y) = Len(x) + Len(y)
      /\ x \o y \in Seq(Nat)
      /\ \A k \in 1 .. Len(x) + Len(y) :
           (x \o y)[k] = IF k <= Len(x) THEN x[k] ELSE y[k - Len(x)]
  BY ConcatProperties
<1>2. i \in 1 .. Len(x) + Len(y) /\ i <= Len(x)
  BY <1>1
<1>. QED  BY <1>1, <1>2

\* So many events are done with; the next one is in the worker's hand, or else
\* it is the first in the queue.
LEMMA NextEvent ==
  ASSUME Inv
  PROVE  /\ hand # << >> => /\ Head(hand) = Len(gone) + 1
                            /\ Head(hand) \in DOMAIN outbox /\ Len(hand) = 1
         /\ hand = << >> /\ queue # << >> => /\ Head(queue) = Len(gone) + 1
                                             /\ Head(queue) \in DOMAIN outbox
<1>. DEFINE X == gone \o hand  Y == X \o queue  Z == Y \o held
<1>1. /\ gone \in Seq(Nat) /\ hand \in Seq(Nat) /\ queue \in Seq(Nat)
      /\ held \in Seq(Nat) /\ pending \in Seq(Nat) /\ Len(hand) <= 1
      /\ X \in Seq(Nat) /\ Y \in Seq(Nat) /\ Z \in Seq(Nat)
      /\ Len(gone) \in Nat
  BY LineParts DEF Inv, Places
<1>2. Z \o pending = [e \in DOMAIN outbox |-> e]
  BY DEF Inv, InOrderOnce
<1>3. DOMAIN (Z \o pending) = 1 .. Len(Z \o pending)
  <2>. HIDE DEF Z
  <2>. QED  BY <1>1
<1>. HIDE DEF X, Y, Z
<1>4. ASSUME NEW i \in 1 .. Len(Y) PROVE Y[i] = i /\ i \in DOMAIN outbox
  <2>1. Z[i] = Y[i] /\ i \in 1 .. Len(Z)
    BY <1>1, Beginning DEF Z
  <2>2. (Z \o pending)[i] = Z[i] /\ i \in 1 .. Len(Z \o pending)
    BY <1>1, <2>1, Beginning
  <2>. QED  BY <1>2, <1>3, <2>1, <2>2
<1>5. ASSUME hand # << >>
      PROVE  Head(hand) = Len(gone) + 1 /\ Head(hand) \in DOMAIN outbox /\ Len(hand) = 1
  <2>1. Len(hand) = 1 /\ Head(hand) = hand[1]
    <3>1. hand = <<Head(hand)>>
      BY <1>1, <1>5, AtMostOne
    <3>. QED  BY <1>1, <1>5, <3>1, EmptySeq
  <2>2. Len(X) = Len(gone) + 1 /\ X[Len(gone) + 1] = hand[1]
    <3>1. /\ Len(gone \o hand) = Len(gone) + Len(hand)
          /\ \A i \in 1 .. Len(gone) + Len(hand) : (gone \o hand)[i] =
               IF i <= Len(gone) THEN gone[i] ELSE hand[i - Len(gone)]
      BY <1>1, ConcatProperties
    <3>2. /\ Len(gone) + 1 \in 1 .. Len(gone) + 1 /\ ~(Len(gone) + 1 <= Len(gone))
          /\ (Len(gone) + 1) - Len(gone) = 1
      BY <1>1
    <3>. QED  BY <2>1, <3>1, <3>2 DEF X
  <2>3. Len(gone) + 1 \in 1 .. Len(X)
    BY <1>1, <2>2
  <2>4. Y[Len(gone) + 1] = X[Len(gone) + 1] /\ Len(gone) + 1 \in 1 .. Len(Y)
    BY <1>1, <2>3, Beginning DEF Y
  <2>. QED  BY <1>4, <2>1, <2>2, <2>4
<1>6. ASSUME hand = << >>, queue # << >>
      PROVE  Head(queue) = Len(gone) + 1 /\ Head(queue) \in DOMAIN outbox
  <2>1. X = gone
    BY <1>1, <1>6, ConcatEmptySeq DEF X
  <2>2. Len(queue) \in Nat \ {0} /\ Head(queue) = queue[1]
    BY <1>1, <1>6, EmptySeq
  <2>3. /\ Len(Y) = Len(gone) + Len(queue) /\ Len(gone) + 1 \in 1 .. Len(Y)
        /\ Y[Len(gone) + 1] = queue[1]
    BY <1>1, <2>1, <2>2, ConcatProperties DEF Y
  <2>. QED  BY <1>4, <2>2, <2>3
<1>. QED  BY <1>5, <1>6

-----------------------------------------------------------------------------
(* Types. *)

\* A balance is a whole number of cents.
LEMMA NetIsWhole ==
  ASSUME NEW g \in Groups, expenses \in [Groups -> Seq(Amounts)]
  PROVE  Net(g) \in Int
<1>. DEFINE f == expenses[g]
<1>1. f \in Seq(Amounts) /\ DOMAIN f = 1 .. Len(f) /\ Len(f) \in Nat
  OBVIOUS
<1>. HIDE DEF f
<1>2. \A i \in DOMAIN f : f[i] \in Int
  <2>1. \A i \in 1 .. Len(f) : f[i] \in Amounts
    BY <1>1, ElementOfSeq
  <2>. QED  BY <1>1, <2>1, AmountsAssumption
<1>3. IsFiniteSet(DOMAIN f)
  BY <1>1, FS_Interval
<1>4. Sum(f, DOMAIN f) \in Int
  BY <1>2, <1>3, SumInt
<1>. QED  BY <1>4, SumOfFunction DEF Net, f

\* The settlements of a request.
Of(e) == {i \in DOMAIN settlements : settlements[i].request = e}

\* What is announced is the sum of the settlements of the request.
LEMMA AmountSettledIs ==
  ASSUME NEW e, settlements \in Seq(Payments)
  PROVE  AmountSettled(e) = AmountSum(settlements, Of(e)) /\ AmountSettled(e) \in Int
<1>. DEFINE f == [i \in Of(e) |-> settlements[i].amount]  g == AmountsOf(settlements)
<1>1. AmountSettled(e) = Sum(f, DOMAIN f)
  BY SumOfFunction DEF AmountSettled, Of
<1>2. DOMAIN f = Of(e) /\ Of(e) \in SUBSET (DOMAIN settlements)
  BY DEF Of
<1>3. \A x \in Payments : x.amount \in Int
  BY DEF Payments
<1>4. /\ IsFiniteSet(Of(e)) /\ \A i \in Of(e) : g[i] \in Int
      /\ AmountSum(settlements, Of(e)) = Sum(g, Of(e))
      /\ AmountSum(settlements, Of(e)) \in Int
  BY <1>2, <1>3, RowsSum
<1>5. \A i \in Of(e) : f[i] = g[i]
  BY <1>2 DEF AmountsOf
<1>. HIDE DEF f, g
<1>6. Sum(f, Of(e)) = Sum(g, Of(e))
  BY <1>4, <1>5, SumEqual
<1>. QED  BY <1>1, <1>2, <1>4, <1>6

\* Every step keeps the variables well typed.
LEMMA TypeStep ==
  ASSUME Inv, TypeOK, [Next]_vars
  PROVE  TypeOK'
<1>1. Inv' /\ (Places')
  BY InvStep DEF Inv
<1>2. ASSUME NEW g \in Groups, SettleGroup(g) PROVE TypeOK'
  <2>1. Event("SETTLEMENT_REQUESTED", g, Net(g)) \in Events
    BY NetIsWhole DEF Event, Events, Types, TypeOK
  <2>2. outbox' \in Seq(Events)
    BY <1>2, <2>1, AppendProperties DEF SettleGroup, Emit, TypeOK
  <2>. QED  BY <1>1, <1>2, <2>2 DEF SettleGroup, TypeOK, Places, storeVars
<1>3. ASSUME NEW g \in Groups, NEW n \in Amounts, CreateExpense(g, n) PROVE TypeOK'
  <2>1. Event("EXPENSE_CREATED", g, n) \in Events
    BY AmountsAssumption DEF Event, Events, Types
  <2>2. outbox' \in Seq(Events)
    BY <1>3, <2>1, AppendProperties DEF CreateExpense, Emit, TypeOK
  <2>3. expenses' \in [Groups -> Seq(Amounts)]
    <3>1. Append(expenses[g], n) \in Seq(Amounts)
      BY AppendProperties DEF TypeOK
    <3>. QED  BY <1>3, <3>1 DEF CreateExpense, TypeOK
  <2>. QED  BY <1>1, <1>3, <2>2, <2>3 DEF CreateExpense, TypeOK, Places
<1>4. CASE RelayStep
  <2>1. UNCHANGED <<storeVars, outbox, worker, hand, gone, failed, phase>>
    BY <1>4 DEF RelayStep, Relay, RelayPut
  <2>. QED  BY <1>1, <2>1 DEF TypeOK, Places, storeVars
<1>5. CASE Skip
  BY <1>1, <1>5 DEF Skip, TypeOK, Places, storeVars
<1>6. CASE SettleAndSave
  <2>. DEFINE e == Head(queue)  g == outbox[e].group
              p == [group |-> g, amount |-> Net(g), request |-> e]
  <2>1. hand = << >> /\ queue # << >>
    BY <1>6 DEF SettleAndSave, Inv, Places
  <2>2. e \in DOMAIN outbox /\ e \in Nat /\ g \in Groups
    <3>1. e \in DOMAIN outbox
      BY <2>1, NextEvent
    <3>2. DOMAIN outbox = 1 .. Len(outbox) /\ outbox[e] \in Events
      BY <3>1 DEF TypeOK
    <3>. QED  BY <3>1, <3>2 DEF Events
  <2>3. p \in Payments
    BY <2>2, NetIsWhole DEF Payments, TypeOK
  <2>. HIDE DEF p
  <2>4. Append(settlements, p) \in Seq(Payments)
    BY <2>3, AppendProperties DEF TypeOK
  <2>5. settlements' \in Seq(Payments)
    BY <1>6, <2>4 DEF SettleAndSave, TypeOK, p
  <2>6. hand' = <<e>> /\ Len(hand') = 1
    BY <1>6 DEF SettleAndSave
  <2>7. worker' = "balances" /\ UNCHANGED <<expenses, outbox, failed, phase>>
    BY <1>6 DEF SettleAndSave
  <2>. HIDE DEF e
  <2>. QED  BY <1>1, <2>5, <2>6, <2>7 DEF TypeOK, Places
<1>7. CASE DeleteDebts
  <2>. DEFINE e == Head(hand)  x == Event("SETTLEMENT_COMPLETED", outbox[e].group,
                                          AmountSettled(e))
  <2>1. hand # << >>
    <3>1. Len(hand) = 1 /\ Len(<< >>) = 0
      BY <1>7, EmptySeq DEF DeleteDebts, TypeOK
    <3>. QED  BY <3>1
  <2>2. e \in DOMAIN outbox
    BY <2>1, NextEvent
  <2>3. outbox[e] \in Events
    BY <2>2 DEF TypeOK
  <2>4. x \in Events
    <3>1. AmountSettled(e) \in Int
      BY AmountSettledIs DEF TypeOK
    <3>. QED  BY <2>3, <3>1 DEF Event, Events, Types
  <2>5. outbox' = Append(outbox, x)
    BY <1>7 DEF DeleteDebts, Emit
  <2>. HIDE DEF x
  <2>6. outbox' \in Seq(Events)
    BY <2>4, <2>5, AppendProperties DEF TypeOK
  <2>7. worker' = "waiting" /\ hand' = << >> /\ Len(hand') = 0
        /\ UNCHANGED <<storeVars, failed, phase>>
    BY <1>7, EmptySeq DEF DeleteDebts
  <2>. QED  BY <1>1, <2>6, <2>7 DEF TypeOK, Places, storeVars
<1>8. CASE CacheFails \/ StopWorker
  <2>1. hand' = << >> /\ Len(hand') = 0 /\ worker' \in {"pause", "stopped"}
    BY <1>8, EmptySeq DEF CacheFails, StopWorker, AfterError
  <2>2. failed' \in Nat /\ phase' \in {"up", "stopping", "down"}
    BY <1>8 DEF CacheFails, StopWorker, TypeOK
  <2>3. UNCHANGED <<storeVars, outbox>>
    BY <1>8 DEF CacheFails, StopWorker, busVars
  <2>. QED  BY <1>1, <2>1, <2>2, <2>3 DEF TypeOK, Places, storeVars
<1>9. CASE DeleteBalances \/ PauseEnds
  <2>1. /\ UNCHANGED <<storeVars, outbox, hand, failed, phase>>
        /\ \/ worker = "balances" /\ worker' = "debts"
           \/ worker = "pause" /\ worker' = "waiting"
    BY <1>9 DEF DeleteBalances, PauseEnds, busVars
  <2>. QED  BY <1>1, <2>1 DEF TypeOK, Places, storeVars
<1>10. CASE StopRelay \/ Idle \/ UNCHANGED vars
  <2>1. /\ UNCHANGED <<storeVars, outbox, worker, hand, failed>>
        /\ phase' \in {"up", "stopping", "down"}
    BY <1>10 DEF StopRelay, Idle, vars, busVars, TypeOK
  <2>. QED  BY <1>1, <2>1 DEF TypeOK, Places, storeVars
<1>. QED  BY <1>2, <1>3, <1>4, <1>5, <1>6, <1>7, <1>8, <1>9, <1>10
          DEF Next, WorkerStep

\* The initial state is well typed.
LEMMA TypeInit == Init => TypeOK
<1>. SUFFICES ASSUME Init PROVE TypeOK
  OBVIOUS
<1>1. \A S : << >> \in Seq(S) /\ Len(<< >>) = 0
  BY EmptySeq
<1>. QED  BY <1>1, CapacityAssumption DEF Init, TypeOK

\* The variables keep their types, for any groups and amounts.
THEOREM TypeCorrect == Spec => []TypeOK
<1>. QED  BY InvInit, InvStep, TypeInit, TypeStep, PTL DEF Spec

-----------------------------------------------------------------------------
(* What is announced and what was settled. *)

\* The settlements of the request in hand, not announced yet.
InHand(g) ==
  IF hand # << >> /\ outbox[Head(hand)].group = g THEN AmountSettled(Head(hand)) ELSE 0

\* Settlements belong to requests the worker has taken.  As long as no handler
\* failed, whatever was settled is announced or the request is still in hand.
SettledInv ==
  /\ \A i \in DOMAIN settlements : settlements[i].request \in 1 .. Len(gone) + Len(hand)
  /\ failed = 0 /\ phase = "up" =>
       \A g \in Groups : Settled(g) = Announced(g) + InHand(g)

\* The completion events of a group, and its settlements.
Completions(g) == {i \in DOMAIN outbox : /\ outbox[i].type = "SETTLEMENT_COMPLETED"
                                         /\ outbox[i].group = g}
SettledOf(g)   == {i \in DOMAIN settlements : settlements[i].group = g}

\* Both are sums over chosen rows.
LEMMA SumsAre ==
  \A g : /\ Announced(g) = AmountSum(outbox, Completions(g))
         /\ Settled(g) = AmountSum(settlements, SettledOf(g))
BY DEF Announced, Settled, Sums, AmountSum, Completions, SettledOf

\* Sums of well-typed rows are whole cents.
LEMMA SumsWhole ==
  ASSUME TypeOK, NEW g
  PROVE  Announced(g) \in Int /\ Settled(g) \in Int
<1>1. Completions(g) \in SUBSET (DOMAIN outbox) /\ SettledOf(g) \in SUBSET (DOMAIN settlements)
  BY DEF Completions, SettledOf
<1>2. (\A x \in Events : x.amount \in Int) /\ \A x \in Payments : x.amount \in Int
  BY DEF Events, Payments
<1>3. outbox \in Seq(Events) /\ settlements \in Seq(Payments)
  BY DEF TypeOK
<1>. QED  BY <1>1, <1>2, <1>3, RowsSum, SumsAre

\* An event that is emitted announces its amount if it is a completion.
LEMMA AnnouncedGrows ==
  ASSUME TypeOK, NEW x \in Events, outbox' = Append(outbox, x), NEW g
  PROVE  (Announced(g))' = Announced(g)
           + (IF x.type = "SETTLEMENT_COMPLETED" /\ x.group = g THEN x.amount ELSE 0)
<1>. DEFINE n == Len(outbox)
<1>1. /\ outbox \in Seq(Events) /\ n \in Nat /\ DOMAIN outbox = 1 .. n
      /\ DOMAIN outbox' = 1 .. n + 1 /\ outbox'[n + 1] = x
      /\ \A i \in 1 .. n : outbox'[i] = outbox[i]
  BY AppendProperties, LenProperties DEF TypeOK
<1>2. \A y \in Events : y.amount \in Int
  BY DEF Events
<1>3. (Completions(g))' \in SUBSET (1 .. n + 1)
  BY <1>1 DEF Completions
<1>4. (Completions(g))' \cap 1 .. n = Completions(g)
  <2>1. \A i \in 1 .. n : i \in 1 .. n + 1
    BY <1>1
  <2>. QED  BY <1>1, <2>1 DEF Completions
<1>5. n + 1 \in (Completions(g))' <=> x.type = "SETTLEMENT_COMPLETED" /\ x.group = g
  <2>1. n + 1 \in 1 .. n + 1
    BY <1>1
  <2>. QED  BY <1>1, <2>1 DEF Completions
<1>6. AmountSum(Append(outbox, x), (Completions(g))')
        = AmountSum(outbox, (Completions(g))' \cap 1 .. n)
            + (IF n + 1 \in (Completions(g))' THEN x.amount ELSE 0)
  BY <1>1, <1>2, <1>3, AppendSum
<1>7. /\ Announced(g) = AmountSum(outbox, Completions(g))
      /\ (Announced(g))' = AmountSum(Append(outbox, x), (Completions(g))')
  BY SumsAre DEF Announced, Completions, Sums, AmountSum
<1>. QED  BY <1>4, <1>5, <1>6, <1>7

\* A payment that is saved counts for its group and for its request.
LEMMA SettledGrows ==
  ASSUME TypeOK, NEW p \in Payments, settlements' = Append(settlements, p), NEW g, NEW e
  PROVE  /\ (Settled(g))' = Settled(g) + (IF p.group = g THEN p.amount ELSE 0)
         /\ (AmountSettled(e))'
              = AmountSettled(e) + (IF p.request = e THEN p.amount ELSE 0)
<1>. DEFINE n == Len(settlements)
<1>1. /\ settlements \in Seq(Payments) /\ n \in Nat /\ DOMAIN settlements = 1 .. n
      /\ settlements' \in Seq(Payments)
      /\ DOMAIN settlements' = 1 .. n + 1 /\ settlements'[n + 1] = p
      /\ \A i \in 1 .. n : settlements'[i] = settlements[i]
  BY AppendProperties, LenProperties DEF TypeOK
<1>2. \A y \in Payments : y.amount \in Int
  BY DEF Payments
<1>3. \A at \in SUBSET (1 .. n + 1) :
        AmountSum(Append(settlements, p), at)
          = AmountSum(settlements, at \cap 1 .. n) + (IF n + 1 \in at THEN p.amount ELSE 0)
  BY <1>1, <1>2, AppendSum
<1>4. n + 1 \in 1 .. n + 1 /\ \A i \in 1 .. n : i \in 1 .. n + 1
  BY <1>1
<1>5. (Settled(g))' = Settled(g) + (IF p.group = g THEN p.amount ELSE 0)
  <2>1. /\ (SettledOf(g))' \in SUBSET (1 .. n + 1)
        /\ (SettledOf(g))' \cap 1 .. n = SettledOf(g)
        /\ n + 1 \in (SettledOf(g))' <=> p.group = g
    BY <1>1, <1>4 DEF SettledOf
  <2>2. /\ Settled(g) = AmountSum(settlements, SettledOf(g))
        /\ (Settled(g))' = AmountSum(Append(settlements, p), (SettledOf(g))')
    BY SumsAre DEF Settled, SettledOf, Sums, AmountSum
  <2>. QED  BY <1>3, <2>1, <2>2
<1>6. (AmountSettled(e))' = AmountSettled(e) + (IF p.request = e THEN p.amount ELSE 0)
  <2>1. /\ (Of(e))' \in SUBSET (1 .. n + 1)
        /\ (Of(e))' \cap 1 .. n = Of(e)
        /\ n + 1 \in (Of(e))' <=> p.request = e
    BY <1>1, <1>4 DEF Of
  <2>2. AmountSettled(e) = AmountSum(settlements, Of(e))
    BY <1>1, AmountSettledIs
  <2>3. (AmountSettled(e))' = AmountSum(Append(settlements, p), (Of(e))')
    <3>1. (settlements \in Seq(Payments))'
      BY <1>1
    <3>2. (AmountSettled(e) = AmountSum(settlements, Of(e)))'
      BY <3>1, AmountSettledIs, PTL
    <3>. QED  BY <3>2
  <2>. QED  BY <1>3, <2>1, <2>2, <2>3
<1>. QED  BY <1>5, <1>6

\* A request the worker has not taken yet has no settlements.
LEMMA NothingSettled ==
  ASSUME TypeOK, SettledInv, hand = << >>, NEW e, e = Len(gone) + 1
  PROVE  AmountSettled(e) = 0
<1>1. Of(e) = {}
  <2>1. Len(hand) = 0 /\ Len(gone) \in Nat
    BY EmptySeq, LenProperties DEF TypeOK
  <2>2. e \notin 1 .. Len(gone) + Len(hand)
    BY <2>1
  <2>. QED  BY <2>2 DEF SettledInv, Of
<1>2. AmountSettled(e) = AmountSum(settlements, {})
  BY <1>1, AmountSettledIs DEF TypeOK
<1>. QED  BY <1>2, SumEmpty DEF AmountSum, Sum

\* A step that settles and announces nothing, and leaves the worker's hand alone
\* unless the accounts are closed.
LEMMA QuietInv ==
  ASSUME SettledInv, UNCHANGED settlements,
         gone \in Seq(Nat), gone' \in Seq(Nat), hand \in Seq(Nat), hand' \in Seq(Nat),
         Len(gone) + Len(hand) <= Len(gone') + Len(hand'),
         failed' = 0 /\ phase' = "up" =>
           /\ failed = 0 /\ phase = "up" /\ UNCHANGED hand
           /\ hand # << >> => outbox'[Head(hand)] = outbox[Head(hand)]
           /\ \A g \in Groups : (Announced(g))' = Announced(g)
  PROVE  SettledInv'
<1>1. 1 .. Len(gone) + Len(hand) \subseteq 1 .. Len(gone') + Len(hand')
  BY LenProperties
<1>2. \A i \in DOMAIN settlements' :
        settlements'[i].request \in 1 .. Len(gone') + Len(hand')
  BY <1>1 DEF SettledInv
<1>3. ASSUME failed' = 0, phase' = "up", NEW g \in Groups
      PROVE  (Settled(g))' = (Announced(g))' + (InHand(g))'
  <2>1. Settled(g) = Announced(g) + InHand(g)
    BY <1>3 DEF SettledInv
  <2>2. (Settled(g))' = Settled(g) /\ \A e : (AmountSettled(e))' = AmountSettled(e)
    BY DEF Settled, Sums, AmountSettled
  <2>3. hand' = hand /\ (hand # << >> => outbox'[Head(hand)] = outbox[Head(hand)])
        /\ (Announced(g))' = Announced(g)
    BY <1>3
  <2>4. (InHand(g))' = InHand(g)
    BY <2>2, <2>3 DEF InHand
  <2>. QED  BY <2>1, <2>2, <2>3, <2>4
<1>. QED  BY <1>2, <1>3 DEF SettledInv

\* The API's events complete nothing.
LEMMA PostedInv ==
  ASSUME Inv, TypeOK, SettledInv, NEW x \in Events, x.type # "SETTLEMENT_COMPLETED",
         outbox' = Append(outbox, x), UNCHANGED <<settlements, gone, hand, failed, phase>>
  PROVE  SettledInv'
<1>1. \A g : (Announced(g))' = Announced(g)
  <2>. TAKE g
  <2>1. (Announced(g))' = Announced(g) + 0
    BY AnnouncedGrows
  <2>. QED  BY <2>1, SumsWhole
<1>2. ASSUME hand # << >> PROVE outbox'[Head(hand)] = outbox[Head(hand)]
  <2>1. Head(hand) \in 1 .. Len(outbox)
    BY <1>2, NextEvent DEF TypeOK
  <2>. QED  BY <2>1, AppendProperties DEF TypeOK
<1>3. /\ gone \in Seq(Nat) /\ hand \in Seq(Nat) /\ gone' = gone /\ hand' = hand
  BY DEF TypeOK
<1>4. Len(gone) + Len(hand) <= Len(gone') + Len(hand')
  <2>1. Len(gone) \in Nat /\ Len(hand) \in Nat
    BY <1>3, LenProperties
  <2>. QED  BY <1>3, <2>1
<1>. QED  BY <1>1, <1>2, <1>3, <1>4, QuietInv

\* The payments of a request are saved when the worker takes it in hand.
LEMMA SaveInv ==
  ASSUME Inv, TypeOK, SettledInv, SettleAndSave
  PROVE  SettledInv'
<1>. PICK e, g, n : e = Head(queue) /\ g = outbox[e].group /\ n = Net(g)
  OBVIOUS
<1>. DEFINE p == [group |-> g, amount |-> n, request |-> e]
<1>1. hand = << >> /\ queue # << >>
  BY DEF SettleAndSave, Inv, Places
<1>2. e = Len(gone) + 1 /\ g \in Groups /\ e \in Nat
  <2>1. e = Len(gone) + 1 /\ e \in DOMAIN outbox
    BY <1>1, NextEvent
  <2>2. outbox[e] \in Events /\ Len(gone) \in Nat
    BY <2>1, LenProperties DEF TypeOK
  <2>. QED  BY <2>1, <2>2 DEF Events
<1>3. n \in Int /\ p \in Payments
  BY <1>2, NetIsWhole DEF Payments, TypeOK
<1>4. AmountSettled(e) = 0
  BY <1>1, <1>2, NothingSettled
<1>5. /\ settlements' = IF n = 0 THEN settlements ELSE Append(settlements, p)
      /\ hand' = <<e>> /\ UNCHANGED <<outbox, gone, failed, phase>>
  BY DEF SettleAndSave
<1>. HIDE DEF p
<1>6. /\ \A h : (Settled(h))' = Settled(h) + (IF g = h THEN n ELSE 0)
      /\ (AmountSettled(e))' = n
  <2>1. CASE n = 0
    <3>1. /\ \A h : (Settled(h))' = Settled(h)
          /\ (AmountSettled(e))' = AmountSettled(e)
      BY <1>5, <2>1 DEF Settled, Sums, AmountSettled
    <3>2. \A h : Settled(h) \in Int
      BY SumsWhole
    <3>. QED  BY <1>4, <2>1, <3>1, <3>2
  <2>2. CASE n # 0
    <3>1. /\ \A h : (Settled(h))' = Settled(h) + (IF p.group = h THEN p.amount ELSE 0)
          /\ (AmountSettled(e))'
               = AmountSettled(e) + (IF p.request = e THEN p.amount ELSE 0)
      BY <1>3, <1>5, <2>2, SettledGrows
    <3>2. p.group = g /\ p.amount = n /\ p.request = e
      BY DEF p
    <3>. QED  BY <1>3, <1>4, <3>1, <3>2
  <2>. QED  BY <2>1, <2>2
<1>7. Len(gone) \in Nat /\ Len(hand) = 0 /\ Len(hand') = 1 /\ hand' # << >>
      /\ Head(hand') = e
  BY <1>1, <1>5, EmptySeq, LenProperties DEF TypeOK
<1>8. \A i \in DOMAIN settlements' :
        settlements'[i].request \in 1 .. Len(gone') + Len(hand')
  <2>1. \A i \in DOMAIN settlements : settlements[i].request \in 1 .. Len(gone)
    BY <1>7 DEF SettledInv
  <2>2. /\ 1 .. Len(gone) \subseteq 1 .. Len(gone') + Len(hand')
        /\ e \in 1 .. Len(gone') + Len(hand')
    BY <1>2, <1>5, <1>7
  <2>3. CASE settlements' = settlements
    BY <2>1, <2>2, <2>3
  <2>4. CASE settlements' = Append(settlements, p)
    <3>1. \A i \in DOMAIN settlements' :
            settlements'[i] = p \/ (i \in DOMAIN settlements /\ settlements'[i] = settlements[i])
      <4>1. /\ settlements \in Seq(Payments) /\ Len(settlements) \in Nat
            /\ DOMAIN settlements = 1 .. Len(settlements)
        BY LenProperties DEF TypeOK
      <4>. DEFINE r == Append(settlements, p)
      <4>2. /\ DOMAIN r = 1 .. Len(settlements) + 1 /\ r[Len(settlements) + 1] = p
            /\ \A i \in 1 .. Len(settlements) : r[i] = settlements[i]
        BY <1>3, <4>1, AppendProperties, LenProperties
      <4>3. settlements' = r
        BY <2>4
      <4>. HIDE DEF r
      <4>4. \A i \in 1 .. Len(settlements) + 1 :
              i \in 1 .. Len(settlements) \/ i = Len(settlements) + 1
        BY <4>1
      <4>5. ASSUME NEW i \in DOMAIN r
            PROVE  r[i] = p \/ (i \in DOMAIN settlements /\ r[i] = settlements[i])
        <5>1. i \in 1 .. Len(settlements) \/ i = Len(settlements) + 1
          BY <4>2, <4>4
        <5>2. CASE i \in 1 .. Len(settlements)
          BY <4>1, <4>2, <5>2
        <5>3. CASE i = Len(settlements) + 1
          BY <4>2, <5>3
        <5>. QED  BY <5>1, <5>2, <5>3
      <4>. QED  BY <4>3, <4>5
    <3>2. p.request = e
      BY DEF p
    <3>. QED  BY <2>1, <2>2, <3>1, <3>2
  <2>. QED  BY <1>5, <2>3, <2>4
<1>9. ASSUME failed' = 0, phase' = "up", NEW h \in Groups
      PROVE  (Settled(h))' = (Announced(h))' + (InHand(h))'
  <2>1. Settled(h) = Announced(h) + InHand(h) /\ InHand(h) = 0
    BY <1>1, <1>5, <1>9 DEF SettledInv, InHand
  <2>2. (Announced(h))' = Announced(h)
    BY <1>5 DEF Announced, Sums
  <2>3. (InHand(h))' = IF g = h THEN n ELSE 0
    <3>1. (InHand(h))' = IF outbox'[e].group = h THEN (AmountSettled(e))' ELSE 0
      BY <1>7 DEF InHand
    <3>. QED  BY <1>5, <1>6, <3>1
  <2>4. Announced(h) \in Int
    BY SumsWhole
  <2>. QED  BY <1>3, <1>6, <2>1, <2>2, <2>3, <2>4
<1>. QED  BY <1>8, <1>9 DEF SettledInv

\* The completion event announces what was settled for the request in hand.
LEMMA CompleteInv ==
  ASSUME Inv, TypeOK, SettledInv, DeleteDebts
  PROVE  SettledInv'
<1>. DEFINE e == Head(hand)
            x == Event("SETTLEMENT_COMPLETED", outbox[e].group, AmountSettled(e))
<1>1. hand # << >>
  <2>1. Len(hand) = 1 /\ Len(<< >>) = 0
    BY EmptySeq DEF DeleteDebts, TypeOK
  <2>. QED  BY <2>1
<1>2. outbox[e] \in Events
  BY <1>1, NextEvent DEF TypeOK
<1>3. AmountSettled(e) \in Int
  BY AmountSettledIs DEF TypeOK
<1>4. /\ x \in Events /\ x.type = "SETTLEMENT_COMPLETED" /\ x.group = outbox[e].group
      /\ x.amount = AmountSettled(e)
  BY <1>2, <1>3 DEF Event, Events, Types
<1>5. outbox' = Append(outbox, x)
  BY DEF DeleteDebts, Emit
<1>6. gone' = gone \o hand /\ hand' = << >> /\ UNCHANGED <<settlements, failed, phase>>
  BY DEF DeleteDebts, storeVars
<1>. HIDE DEF x, e
<1>7. Len(gone') + Len(hand') = Len(gone) + Len(hand)
  <2>1. Len(gone \o hand) = Len(gone) + Len(hand) /\ Len(<< >>) = 0
        /\ Len(gone) \in Nat /\ Len(hand) \in Nat
    BY ConcatProperties, EmptySeq, LenProperties DEF TypeOK
  <2>. QED  BY <1>6, <2>1
<1>8. ASSUME failed' = 0, phase' = "up", NEW g \in Groups
      PROVE  (Settled(g))' = (Announced(g))' + (InHand(g))'
  <2>1. Settled(g) = Announced(g) + InHand(g)
    BY <1>6, <1>8 DEF SettledInv
  <2>2. (Settled(g))' = Settled(g)
    BY <1>6 DEF Settled, Sums
  <2>3. (Announced(g))' = Announced(g) + (IF outbox[e].group = g THEN AmountSettled(e) ELSE 0)
    BY <1>4, <1>5, AnnouncedGrows
  <2>4. InHand(g) = IF outbox[e].group = g THEN AmountSettled(e) ELSE 0
    BY <1>1 DEF InHand, e
  <2>5. (InHand(g))' = 0
    BY <1>6 DEF InHand
  <2>6. Settled(g) \in Int
    BY SumsWhole
  <2>. QED  BY <2>1, <2>2, <2>3, <2>4, <2>5, <2>6
<1>. QED  BY <1>6, <1>7, <1>8 DEF SettledInv

\* Every step keeps the account of what was settled.
LEMMA SettledStep ==
  ASSUME Inv, TypeOK, SettledInv, [Next]_vars
  PROVE  SettledInv'
<1>1. /\ gone \in Seq(Nat) /\ hand \in Seq(Nat) /\ gone' \in Seq(Nat) /\ hand' \in Seq(Nat)
      /\ Len(gone) \in Nat /\ Len(hand) \in Nat
  BY TypeStep, LenProperties DEF TypeOK
<1>2. ASSUME NEW g \in Groups, SettleGroup(g) PROVE SettledInv'
  <2>. DEFINE x == Event("SETTLEMENT_REQUESTED", g, Net(g))
  <2>1. x \in Events /\ x.type # "SETTLEMENT_COMPLETED"
    BY NetIsWhole DEF Event, Events, Types, TypeOK
  <2>2. outbox' = Append(outbox, x) /\ UNCHANGED <<settlements, gone, hand, failed, phase>>
    BY <1>2 DEF SettleGroup, Emit, storeVars
  <2>. HIDE DEF x
  <2>. QED  BY <2>1, <2>2, PostedInv
<1>3. ASSUME NEW g \in Groups, NEW n \in Amounts, CreateExpense(g, n) PROVE SettledInv'
  <2>. DEFINE x == Event("EXPENSE_CREATED", g, n)
  <2>1. x \in Events /\ x.type # "SETTLEMENT_COMPLETED"
    BY AmountsAssumption DEF Event, Events, Types
  <2>2. outbox' = Append(outbox, x) /\ UNCHANGED <<settlements, gone, hand, failed, phase>>
    BY <1>3 DEF CreateExpense, Emit
  <2>. HIDE DEF x
  <2>. QED  BY <2>1, <2>2, PostedInv
<1>4. CASE UNCHANGED <<settlements, outbox, hand, failed, phase>>
           /\ \/ gone' = gone
              \/ gone' = Append(gone, Head(queue)) /\ queue # << >>
  <2>1. Len(gone) + Len(hand) <= Len(gone') + Len(hand')
    <3>1. CASE gone' = gone
      BY <1>1, <1>4, <3>1
    <3>2. CASE gone' = Append(gone, Head(queue)) /\ queue # << >>
      <4>1. Head(queue) \in Nat
        BY <3>2 DEF TypeOK
      <4>2. Len(gone') = Len(gone) + 1
        BY <1>1, <3>2, <4>1, AppendProperties
      <4>. QED  BY <1>1, <1>4, <4>2
    <3>. QED  BY <1>4, <3>1, <3>2
  <2>2. \A g : (Announced(g))' = Announced(g)
    BY <1>4 DEF Announced, Sums
  <2>. QED  BY <1>1, <1>4, <2>1, <2>2, QuietInv
<1>5. CASE RelayStep \/ Skip \/ DeleteBalances \/ PauseEnds \/ Idle \/ UNCHANGED vars
  <2>1. CASE RelayStep
    <3>1. UNCHANGED <<settlements, outbox, hand, failed, phase>> /\ gone' = gone
      BY <2>1 DEF RelayStep, Relay, RelayPut, storeVars
    <3>. QED  BY <1>4, <3>1
  <2>2. CASE Skip
    BY <1>4, <2>2 DEF Skip, storeVars
  <2>3. CASE DeleteBalances \/ PauseEnds
    <3>1. UNCHANGED <<settlements, outbox, hand, failed, phase>> /\ gone' = gone
      BY <2>3 DEF DeleteBalances, PauseEnds, storeVars, busVars
    <3>. QED  BY <1>4, <3>1
  <2>4. CASE Idle \/ UNCHANGED vars
    <3>1. UNCHANGED <<settlements, outbox, hand, failed, phase>> /\ gone' = gone
      BY <2>4 DEF Idle, vars, storeVars, busVars
    <3>. QED  BY <1>4, <3>1
  <2>. QED  BY <1>5, <2>1, <2>2, <2>3, <2>4
<1>6. CASE SettleAndSave
  BY <1>6, SaveInv
<1>7. CASE DeleteDebts
  BY <1>7, CompleteInv
<1>8. CASE CacheFails \/ StopWorker \/ StopRelay
  <2>1. UNCHANGED settlements /\ ~(failed' = 0 /\ phase' = "up")
    <3>1. failed \in Nat /\ failed + 1 # 0
      BY DEF TypeOK
    <3>. QED  BY <1>8, <3>1 DEF CacheFails, StopWorker, StopRelay, storeVars
  <2>2. \/ gone' = gone \o hand /\ hand' = << >>
        \/ UNCHANGED <<gone, hand>>
    BY <1>8 DEF CacheFails, StopWorker, StopRelay
  <2>3. Len(gone) + Len(hand) <= Len(gone') + Len(hand')
    <3>1. Len(gone \o hand) = Len(gone) + Len(hand) /\ Len(<< >>) = 0
      BY <1>1, ConcatProperties, EmptySeq
    <3>. QED  BY <1>1, <2>2, <3>1
  <2>. QED  BY <1>1, <2>1, <2>3, QuietInv
<1>. QED  BY <1>2, <1>3, <1>5, <1>6, <1>7, <1>8 DEF Next, WorkerStep

\* As long as no handler failed, and whenever no request is in hand, the
\* completion events have announced exactly what the store says was settled:
\* for any groups, amounts and interleaving of API, relay and worker.
THEOREM AnnouncementsAreTrue == Spec => []AnnouncedIsSettled
<1>1. Init => SettledInv
  <2>. SUFFICES ASSUME Init PROVE SettledInv
    OBVIOUS
  <2>1. settlements = << >> /\ outbox = << >> /\ hand = << >>
    BY DEF Init
  <2>2. \A g : Completions(g) = {} /\ SettledOf(g) = {}
    BY <2>1 DEF Completions, SettledOf
  <2>3. \A g : Announced(g) = 0 /\ Settled(g) = 0
    <3>. TAKE g
    <3>1. Announced(g) = AmountSum(outbox, {}) /\ Settled(g) = AmountSum(settlements, {})
      BY <2>2, SumsAre
    <3>. QED  BY <3>1, SumEmpty DEF AmountSum, Sum
  <2>4. \A g : InHand(g) = 0
    BY <2>1 DEF InHand
  <2>5. DOMAIN settlements = {}
    BY <2>1
  <2>. QED  BY <2>3, <2>4, <2>5 DEF SettledInv
<1>2. TypeOK /\ SettledInv => AnnouncedIsSettled
  <2>. SUFFICES ASSUME TypeOK, SettledInv, hand = << >>, failed = 0, phase = "up",
                       NEW g \in Groups
                PROVE  Announced(g) = Settled(g)
    BY DEF AnnouncedIsSettled
  <2>1. Settled(g) = Announced(g) + InHand(g) /\ InHand(g) = 0
    BY DEF SettledInv, InHand
  <2>. QED  BY <2>1, SumsWhole
<1>. QED  BY <1>1, <1>2, InvInit, InvStep, TypeInit, TypeStep, SettledStep, PTL DEF Spec
=============================================================================
