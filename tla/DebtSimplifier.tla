--------------------------- MODULE DebtSimplifier --------------------------
(***************************************************************************)
(* DebtSimplifier.simplify of core/debt_simplifier.py, one step per turn   *)
(* of its loop: the largest creditor and the largest debtor settle as much *)
(* as both can, and whoever is left with a rest goes back on its heap.     *)
(*                                                                         *)
(* A heap holds a user at most once, so it is a function from users to     *)
(* amounts, 0 when the user is not on it.  User ids compare as numbers.    *)
(***************************************************************************)
EXTENDS Integers, Sequences, FiniteSets, Functions

CONSTANTS
  Users,   \* the user ids
  Nets     \* the net balances simplify may be called with

ASSUME UsersAssumption == Users \subseteq Nat /\ IsFiniteSet(Users)
ASSUME NetsAssumption  == Nets \subseteq [Users -> Int]

VARIABLES
  net,          \* the argument, net balances in cents
  pc,           \* "start", "matching", "done" or "raised"
  creditors,    \* heap of what each creditor is still owed
  debtors,      \* heap of what each debtor still owes
  settlements   \* the payments emitted so far

vars == <<net, pc, creditors, debtors, settlements>>

Nobody == [u \in Users |-> 0]

Init ==
  /\ net \in Nets
  /\ pc = "start"
  /\ creditors = Nobody /\ debtors = Nobody
  /\ settlements = << >>

OnHeap(heap) == {u \in Users : heap[u] > 0}

\* u is popped first: the largest amount, and the least id among equals.
Pops(heap, u) ==
  /\ u \in OnHeap(heap)
  /\ \A v \in OnHeap(heap) : heap[v] < heap[u] \/ (heap[v] = heap[u] /\ u <= v)

Lesser(a, b) == IF a <= b THEN a ELSE b

\* What is left of a popped amount; 0 takes the user off the heap.
\* Mutants: the rest is dropped; the whole amount is pushed back.
RestDropped(amount, settled) == 0
RestWhole(amount, settled)   == amount
Rest(amount, settled)        == amount - settled

\* ZeroSumViolationError.
Raise ==
  /\ pc = "start"
  /\ SumFunction(net) # 0
  /\ pc' = "raised"
  /\ UNCHANGED <<net, creditors, debtors, settlements>>

PushAll ==
  /\ pc = "start"
  /\ SumFunction(net) = 0
  /\ creditors' = [u \in Users |-> IF net[u] > 0 THEN net[u] ELSE 0]
  /\ debtors'   = [u \in Users |-> IF net[u] < 0 THEN -net[u] ELSE 0]
  /\ pc' = "matching"
  /\ UNCHANGED <<net, settlements>>

Payment(d, c, amount) == [payer |-> d, payee |-> c, amount |-> amount]

\* One turn of the loop.  Both amounts are at least 1, so that the branch of
\* the code that discards a settlement of less than one cent is never taken
\* (PaymentsAreReal shows it).
MatchPair(c, d) ==
  LET settled == Lesser(creditors[c], debtors[d]) IN
  /\ pc = "matching"
  /\ Pops(creditors, c) /\ Pops(debtors, d)
  /\ settlements' = Append(settlements, Payment(d, c, settled))
  /\ creditors' = [creditors EXCEPT ![c] = Rest(@, settled)]
  /\ debtors'   = [debtors   EXCEPT ![d] = Rest(@, settled)]
  /\ UNCHANGED <<net, pc>>

Finish ==
  /\ pc = "matching"
  /\ OnHeap(creditors) = {} \/ OnHeap(debtors) = {}
  /\ pc' = "done"
  /\ UNCHANGED <<net, creditors, debtors, settlements>>

Returned == pc \in {"done", "raised"} /\ UNCHANGED vars

Next ==
  \/ Raise \/ PushAll \/ Finish \/ Returned
  \/ \E c, d \in Users : MatchPair(c, d)

Spec == Init /\ [][Next]_vars

-----------------------------------------------------------------------------
(* What is true of a simplification. *)

Payments == [payer : Users, payee : Users, amount : Int]

\* Type invariant; amounts on the heaps are never negative.
TypeOK ==
  /\ net \in [Users -> Int]
  /\ pc \in {"start", "matching", "done", "raised"}
  /\ creditors \in [Users -> Nat]
  /\ debtors \in [Users -> Nat]
  /\ settlements \in Seq(Payments)

Sent(u)     == SumFunctionOnSet([i \in DOMAIN settlements |-> settlements[i].amount],
                 {i \in DOMAIN settlements : settlements[i].payer = u})
Received(u) == SumFunctionOnSet([i \in DOMAIN settlements |-> settlements[i].amount],
                 {i \in DOMAIN settlements : settlements[i].payee = u})

\* The finished plan pays every creditor and clears every debtor exactly: both
\* heaps run empty together, and no cent is lost in a rest.
PlanSettlesEveryone ==
  pc = "done" => \A u \in Users : net[u] = Received(u) - Sent(u)

\* Those with a balance; simplify leaves out everyone else.
Parties == {u \in Users : net[u] # 0}

\* A plan has at most one payment less than there are parties.
AtMostNMinusOne ==
  settlements # << >> => Len(settlements) <= Cardinality(Parties) - 1

\* Only debtors pay, only creditors are paid, at least one cent each time: no
\* one passes money through or pays to themselves, and the code's branch for a
\* settlement below one cent is dead.
PaymentsAreReal ==
  \A i \in DOMAIN settlements :
    /\ net[settlements[i].payer] < 0
    /\ net[settlements[i].payee] > 0
    /\ settlements[i].amount >= 1

\* No debtor pays the same creditor twice; the checksum, which sorts payments
\* by payer and payee only, depends on that.
NoPairTwice ==
  \A i, j \in DOMAIN settlements :
    /\ settlements[i].payer = settlements[j].payer
    /\ settlements[i].payee = settlements[j].payee
    => i = j

\* Every turn of the loop takes someone off a heap for good, so that the loop
\* ends: the heaps only shrink, and one of the two does.
EveryTurnRetiresSomeone ==
  [][pc = "matching" /\ pc' = "matching" =>
       /\ OnHeap(creditors') \subseteq OnHeap(creditors)
       /\ OnHeap(debtors') \subseteq OnHeap(debtors)
       /\ <<OnHeap(creditors'), OnHeap(debtors')>>
            # <<OnHeap(creditors), OnHeap(debtors)>>]_vars

\* The least number of payments that settles the parties: one less for each
\* group in a partition of them into groups that balance among themselves.
Splittable(n) ==
  \E group \in [Parties -> 1 .. n] : \A k \in 1 .. n :
    LET members == {u \in Parties : group[u] = k}
    IN  members # {} /\ SumFunctionOnSet(net, members) = 0
FewestPayments ==
  Cardinality(Parties)
    - (CHOOSE n \in 0 .. Cardinality(Parties) :
         /\ n = 0 \/ Splittable(n)
         /\ \A m \in n + 1 .. Cardinality(Parties) : ~Splittable(m))

\* "Reduces an arbitrary debt graph ... down to at most (N-1) transactions —
\* optimal minimum" (module doc): no plan has fewer payments.
PlanIsMinimal == pc = "done" => Len(settlements) = FewestPayments
=============================================================================
