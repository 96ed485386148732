--------------------------- MODULE MoneyPathProofs --------------------------
(***************************************************************************)
(* Theorems about DebtSimplifier, for any users and net balances, those    *)
(* that do not add up to zero included, and about MoneyPath, for any       *)
(* expenses the service accepts.                                           *)
(***************************************************************************)
EXTENDS MoneyPath, BookkeepingProofs

\* Both heads of a turn are on their heaps and settle at least one cent; one of
\* the two is off its heap after it.
LEMMA TurnSettles ==
  ASSUME TypeOK, NEW c \in Users, NEW d \in Users, MatchPair(c, d)
  PROVE  LET settled == Lesser(creditors[c], debtors[d]) IN
         /\ c \in OnHeap(creditors) /\ d \in OnHeap(debtors)
         /\ settled \in Nat /\ settled >= 1
         /\ settlements' = Append(settlements,
                             [payer |-> d, payee |-> c, amount |-> settled])
         /\ creditors' = [creditors EXCEPT ![c] = creditors[c] - settled]
         /\ debtors' = [debtors EXCEPT ![d] = debtors[d] - settled]
         /\ creditors[c] - settled \in Nat /\ debtors[d] - settled \in Nat
         /\ creditors[c] - settled = 0 \/ debtors[d] - settled = 0
<1>1. /\ creditors[c] \in Nat /\ creditors[c] > 0
      /\ debtors[d] \in Nat /\ debtors[d] > 0
      /\ c \in OnHeap(creditors) /\ d \in OnHeap(debtors)
  BY DEF TypeOK, MatchPair, Pops, OnHeap
<1> QED BY <1>1 DEF MatchPair, Lesser, Rest, Payment

\* The initial states are well typed.
LEMMA InitTypeOK == Init => TypeOK
BY NetsAssumption DEF Init, TypeOK, Nobody

\* Every step keeps the variables well typed.
LEMMA NextTypeOK == TypeOK /\ [Next]_vars => TypeOK'
<1> SUFFICES ASSUME TypeOK, [Next]_vars PROVE TypeOK'
    OBVIOUS
<1>1. CASE Raise
  BY <1>1 DEF Raise, TypeOK
<1>2. CASE PushAll
  <2>1. \A u \in Users : net[u] \in Int
    BY DEF TypeOK
  <2>2. creditors' \in [Users -> Nat] /\ debtors' \in [Users -> Nat]
    BY <1>2, <2>1 DEF PushAll
  <2> QED BY <1>2, <2>2 DEF PushAll, TypeOK
<1>3. CASE Finish
  BY <1>3 DEF Finish, TypeOK
<1>4. ASSUME NEW c \in Users, NEW d \in Users, MatchPair(c, d) PROVE TypeOK'
  <2> DEFINE settled == Lesser(creditors[c], debtors[d])
             p == [payer |-> d, payee |-> c, amount |-> settled]
  <2>1. p \in Payments
    <3>1. settled \in Nat
      BY <1>4, TurnSettles
    <3> HIDE DEF settled
    <3> QED BY <3>1 DEF Payments
  <2>2. settlements' = Append(settlements, p)
    BY <1>4, TurnSettles
  <2>3. creditors' \in [Users -> Nat] /\ debtors' \in [Users -> Nat]
    <3>1. /\ creditors' = [creditors EXCEPT ![c] = creditors[c] - settled]
          /\ debtors' = [debtors EXCEPT ![d] = debtors[d] - settled]
          /\ creditors[c] - settled \in Nat /\ debtors[d] - settled \in Nat
      BY <1>4, TurnSettles
    <3> HIDE DEF settled
    <3> QED BY <3>1 DEF TypeOK
  <2>4. UNCHANGED <<net, pc>>
    BY <1>4 DEF MatchPair
  <2> HIDE DEF p
  <2> QED BY <2>1, <2>2, <2>3, <2>4 DEF TypeOK
<1>5. CASE UNCHANGED vars
  BY <1>5 DEF vars, TypeOK
<1> QED BY <1>1, <1>2, <1>3, <1>4, <1>5 DEF Next, Returned

\* The heaps and the plan are of their types in every reachable state.
THEOREM TypeCorrect == Spec => []TypeOK
BY InitTypeOK, NextTypeOK, PTL DEF Spec

-----------------------------------------------------------------------------
(* Who pays whom. *)

\* Users stay on the side of their balance, and of each pair that has settled
\* one is off its heap.
RolesInv ==
  /\ pc = "start" => settlements = << >>
  /\ \A u \in Users : /\ creditors[u] > 0 => net[u] > 0
                      /\ debtors[u] > 0 => net[u] < 0
  /\ pc = "start" => creditors = Nobody /\ debtors = Nobody
  /\ \A i \in DOMAIN settlements :
       \/ creditors[settlements[i].payee] = 0
       \/ debtors[settlements[i].payer] = 0

\* What a turn does to the plan and to the heaps, entry by entry.
LEMMA TurnAppends ==
  ASSUME TypeOK, NEW c \in Users, NEW d \in Users, MatchPair(c, d)
  PROVE  LET n == Len(settlements) + 1 IN
         /\ DOMAIN settlements' = 1 .. n /\ n \in Nat
         /\ settlements'[n].payer = d /\ settlements'[n].payee = c
         /\ settlements'[n].amount >= 1
         /\ \A i \in 1 .. n : i = n \/ (/\ i \in DOMAIN settlements
                                        /\ settlements'[i] = settlements[i])
         /\ \A u \in Users : /\ creditors'[u] <= creditors[u]
                             /\ debtors'[u] <= debtors[u]
                             /\ creditors'[u] \in Nat /\ debtors'[u] \in Nat
         /\ creditors[c] > 0 /\ debtors[d] > 0
         /\ creditors'[c] = 0 \/ debtors'[d] = 0
         /\ UNCHANGED <<net, pc>>
<1> DEFINE settled == Lesser(creditors[c], debtors[d])
           p == [payer |-> d, payee |-> c, amount |-> settled]
<1>1. /\ settlements' = Append(settlements, p)
      /\ p.payer = d /\ p.payee = c /\ p.amount >= 1
  BY TurnSettles
<1>2. /\ creditors' = [creditors EXCEPT ![c] = creditors[c] - settled]
      /\ debtors' = [debtors EXCEPT ![d] = debtors[d] - settled]
      /\ creditors[c] - settled \in Nat /\ debtors[d] - settled \in Nat
      /\ creditors[c] - settled = 0 \/ debtors[d] - settled = 0
      /\ settled \in Nat
      /\ c \in OnHeap(creditors) /\ d \in OnHeap(debtors)
  BY TurnSettles
<1>3. UNCHANGED <<net, pc>>
  BY DEF MatchPair
<1> HIDE DEF p, settled
<1>4. \A u \in Users : /\ creditors'[u] <= creditors[u]
                       /\ debtors'[u] <= debtors[u]
                       /\ creditors'[u] \in Nat /\ debtors'[u] \in Nat
  <2> SUFFICES ASSUME NEW u \in Users
               PROVE  /\ creditors'[u] <= creditors[u] /\ creditors'[u] \in Nat
                      /\ debtors'[u] <= debtors[u] /\ debtors'[u] \in Nat
      OBVIOUS
  <2>1. /\ creditors \in [Users -> Nat] /\ debtors \in [Users -> Nat]
        /\ creditors[c] - settled <= creditors[c]
        /\ debtors[d] - settled <= debtors[d]
    <3>1. /\ creditors \in [Users -> Nat] /\ debtors \in [Users -> Nat]
          /\ creditors[c] \in Nat /\ debtors[d] \in Nat /\ settled \in Nat
      BY <1>2 DEF TypeOK
    <3> QED BY <3>1
  <2>2. creditors'[u] <= creditors[u] /\ creditors'[u] \in Nat
    BY <1>2, <2>1, SMTT(30)
  <2>3. debtors'[u] <= debtors[u] /\ debtors'[u] \in Nat
    BY <1>2, <2>1, SMTT(30)
  <2> QED BY <2>2, <2>3
<1>5. /\ creditors'[c] = 0 \/ debtors'[d] = 0
      /\ creditors[c] > 0 /\ debtors[d] > 0
  BY <1>2 DEF TypeOK, OnHeap
<1>6. /\ DOMAIN settlements' = 1 .. (Len(settlements) + 1)
      /\ Len(settlements) + 1 \in Nat
      /\ settlements'[Len(settlements) + 1] = p
      /\ \A i \in 1 .. (Len(settlements) + 1) :
           i = Len(settlements) + 1
             \/ (i \in DOMAIN settlements /\ settlements'[i] = settlements[i])
  BY <1>1 DEF TypeOK
<1> QED BY <1>1, <1>3, <1>4, <1>5, <1>6

\* The two properties and RolesInv are inductive together.
LEMMA NextRoles ==
  ASSUME TypeOK, RolesInv, PaymentsAreReal, NoPairTwice, [Next]_vars
  PROVE  RolesInv' /\ PaymentsAreReal' /\ NoPairTwice'
<1>1. ASSUME NEW c \in Users, NEW d \in Users, MatchPair(c, d)
      PROVE  RolesInv' /\ PaymentsAreReal' /\ NoPairTwice'
  <2> DEFINE n == Len(settlements) + 1
  <2>1. pc' # "start"
    BY <1>1 DEF MatchPair
  <2>2. net[d] < 0 /\ net[c] > 0
    BY <1>1, TurnAppends DEF RolesInv
  <2>3. PaymentsAreReal'
    BY <1>1, <2>2, TurnAppends DEF PaymentsAreReal
  <2>4. ASSUME NEW i \in DOMAIN settlements
        PROVE  /\ settlements[i].payee \in Users /\ settlements[i].payer \in Users
               /\ ~(settlements[i].payee = c /\ settlements[i].payer = d)
    <3>1. settlements[i] \in Payments
      BY DEF TypeOK
    <3>2. creditors[settlements[i].payee] = 0 \/ debtors[settlements[i].payer] = 0
      BY DEF RolesInv
    <3>3. creditors[c] > 0 /\ debtors[d] > 0
      BY <1>1, TurnAppends
    <3> QED BY <3>1, <3>2, <3>3 DEF Payments
  <2>5. NoPairTwice'
    BY <1>1, <2>4, TurnAppends DEF NoPairTwice
  <2>6. ASSUME NEW i \in DOMAIN settlements'
        PROVE  \/ creditors'[settlements'[i].payee] = 0
               \/ debtors'[settlements'[i].payer] = 0
    <3>1. CASE i = n
      BY <1>1, <3>1, TurnAppends
    <3>2. CASE i # n
      <4>1. i \in DOMAIN settlements /\ settlements'[i] = settlements[i]
        BY <1>1, <3>2, TurnAppends
      <4>2. creditors[settlements[i].payee] = 0 \/ debtors[settlements[i].payer] = 0
        BY <4>1 DEF RolesInv
      <4>3. \A u \in Users : /\ creditors'[u] <= creditors[u] /\ creditors'[u] \in Nat
                             /\ debtors'[u] <= debtors[u] /\ debtors'[u] \in Nat
        BY <1>1, TurnAppends
      <4>4. /\ settlements[i].payee \in Users /\ settlements[i].payer \in Users
            /\ \A u \in Users : creditors[u] \in Nat /\ debtors[u] \in Nat
        BY <2>4, <4>1 DEF TypeOK
      <4> QED BY <4>1, <4>2, <4>3, <4>4
    <3> QED BY <3>1, <3>2
  <2>7. \A u \in Users : /\ creditors'[u] > 0 => net'[u] > 0
                         /\ debtors'[u] > 0 => net'[u] < 0
    <3>1. \A u \in Users : /\ creditors'[u] <= creditors[u] /\ creditors'[u] \in Nat
                           /\ debtors'[u] <= debtors[u] /\ debtors'[u] \in Nat
                           /\ net' = net
      BY <1>1, TurnAppends
    <3> QED BY <3>1 DEF RolesInv, TypeOK
  <2> QED BY <2>1, <2>3, <2>5, <2>6, <2>7 DEF RolesInv
<1>2. CASE PushAll
  BY <1>2 DEF PushAll, RolesInv, PaymentsAreReal, NoPairTwice, TypeOK
<1>3. CASE Raise \/ Finish \/ UNCHANGED vars
  BY <1>3 DEF Raise, Finish, vars, RolesInv, PaymentsAreReal, NoPairTwice, Nobody
<1> QED BY <1>1, <1>2, <1>3 DEF Next, Returned

\* Roles and payments, throughout.
LEMMA RolesInvariant ==
  Spec => [](TypeOK /\ RolesInv /\ PaymentsAreReal /\ NoPairTwice)
<1>1. Init => RolesInv /\ PaymentsAreReal /\ NoPairTwice
  BY DEF Init, Nobody, RolesInv, PaymentsAreReal, NoPairTwice
<1> QED BY <1>1, InitTypeOK, NextTypeOK, NextRoles, PTL DEF Spec

\* Only debtors pay and only creditors are paid, at least a cent each time.
THEOREM OnlyDebtorsPay == Spec => []PaymentsAreReal
BY RolesInvariant, PTL

\* No debtor pays the same creditor twice.
THEOREM PairsSettleOnce == Spec => []NoPairTwice
BY RolesInvariant, PTL

-----------------------------------------------------------------------------
(* How many payments there are. *)

\* Each payment retires one of those still on the heaps, and the last payment
\* retires two: payments made and users still on a heap never outnumber the
\* parties, and once a payment is made there is one to spare.
CountInv ==
  pc # "start" =>
    /\ Len(settlements) + Cardinality(OnHeap(creditors))
         + Cardinality(OnHeap(debtors)) <= Cardinality(Parties)
    /\ settlements # << >> => Len(settlements) + 1 <= Cardinality(Parties)

\* There are finitely many parties and finitely many users on the heaps.
LEMMA FiniteSides ==
  /\ IsFiniteSet(Parties)
  /\ \A heap : /\ IsFiniteSet(OnHeap(heap))
               /\ Cardinality(OnHeap(heap)) \in Nat
  /\ Cardinality(Parties) \in Nat
<1>1. \A heap : OnHeap(heap) \subseteq Users
  BY DEF OnHeap
<1>2. Parties \subseteq Users
  BY DEF Parties
<1> QED BY <1>1, <1>2, UsersAssumption, FS_Subset, FS_CardinalityType

\* Heaps only shrink in a turn, and one of them does.
LEMMA TurnShrinks ==
  ASSUME TypeOK, NEW c \in Users, NEW d \in Users, MatchPair(c, d)
  PROVE  /\ OnHeap(creditors') \subseteq OnHeap(creditors)
         /\ OnHeap(debtors') \subseteq OnHeap(debtors)
         /\ c \in OnHeap(creditors) /\ d \in OnHeap(debtors)
         /\ c \notin OnHeap(creditors') \/ d \notin OnHeap(debtors')
<1>1. \A u \in Users : /\ creditors'[u] <= creditors[u] /\ creditors'[u] \in Nat
                       /\ debtors'[u] <= debtors[u] /\ debtors'[u] \in Nat
                       /\ creditors[u] \in Nat /\ debtors[u] \in Nat
  BY TurnAppends DEF TypeOK
<1>2. /\ creditors[c] > 0 /\ debtors[d] > 0
      /\ creditors'[c] = 0 \/ debtors'[d] = 0
  BY TurnAppends
<1> QED BY <1>1, <1>2 DEF OnHeap

\* A finite set loses at least one element when it shrinks.
LEMMA Shrinks ==
  ASSUME NEW S, NEW T, IsFiniteSet(T), S \subseteq T
  PROVE  /\ Cardinality(S) \in Nat /\ Cardinality(T) \in Nat
         /\ Cardinality(S) <= Cardinality(T)
         /\ S # T => Cardinality(S) + 1 <= Cardinality(T)
<1>1. /\ IsFiniteSet(S) /\ Cardinality(S) <= Cardinality(T)
      /\ Cardinality(S) = Cardinality(T) => S = T
  BY FS_Subset
<1>2. Cardinality(S) \in Nat /\ Cardinality(T) \in Nat
  BY <1>1, FS_CardinalityType
<1> QED BY <1>1, <1>2

\* Every step keeps the count of payments and of retired users.
LEMMA NextCountInv ==
  ASSUME TypeOK, CountInv, RolesInv, [Next]_vars
  PROVE  CountInv'
<1>1. ASSUME NEW c \in Users, NEW d \in Users, MatchPair(c, d) PROVE CountInv'
  <2> DEFINE C == Cardinality(OnHeap(creditors))
             D == Cardinality(OnHeap(debtors))
             C1 == Cardinality(OnHeap(creditors'))
             D1 == Cardinality(OnHeap(debtors'))
  <2>1. /\ C \in Nat /\ D \in Nat /\ C1 \in Nat /\ D1 \in Nat
        /\ C1 <= C /\ D1 <= D
        /\ C1 + 1 <= C \/ D1 + 1 <= D
    BY <1>1, TurnShrinks, Shrinks, FiniteSides
  <2>2. C >= 1 /\ D >= 1
    <3>1. OnHeap(creditors) # {} /\ OnHeap(debtors) # {}
      BY <1>1, TurnShrinks
    <3>2. {} \subseteq OnHeap(creditors) /\ {} \subseteq OnHeap(debtors)
      OBVIOUS
    <3>3. Cardinality({}) = 0
      BY FS_EmptySet
    <3> QED BY <3>1, <3>2, <3>3, Shrinks, FiniteSides
  <2>3. Parties' = Parties
    BY <1>1, TurnAppends DEF Parties
  <2>4. Len(settlements') = Len(settlements) + 1 /\ Len(settlements) \in Nat
    <3>1. \E p : settlements' = Append(settlements, p)
      BY <1>1, TurnSettles
    <3> QED BY <3>1 DEF TypeOK
  <2>5. /\ OnHeap(creditors)' = OnHeap(creditors')
        /\ OnHeap(debtors)' = OnHeap(debtors')
    BY DEF OnHeap
  <2>6. Len(settlements) + C + D <= Cardinality(Parties)
    BY <1>1 DEF CountInv, MatchPair
  <2> HIDE DEF C, D, C1, D1
  <2>7. Cardinality(Parties) \in Nat
    BY FiniteSides
  <2>8. /\ Len(settlements') + C1 + D1 <= Cardinality(Parties)
        /\ Len(settlements') + 1 <= Cardinality(Parties)
    BY <2>1, <2>2, <2>4, <2>6, <2>7
  <2> QED BY <2>3, <2>5, <2>8 DEF CountInv, C1, D1
<1>2. CASE PushAll
  <2> DEFINE C == OnHeap(creditors')
             D == OnHeap(debtors')
  <2>1. /\ C \subseteq Parties /\ D \subseteq Parties /\ C \cap D = {}
    <3>1. \A u \in Users : net[u] \in Int
      BY DEF TypeOK
    <3>2. /\ \A u \in Users : creditors'[u] = IF net[u] > 0 THEN net[u] ELSE 0
          /\ \A u \in Users : debtors'[u] = IF net[u] < 0 THEN -net[u] ELSE 0
      BY <1>2 DEF PushAll
    <3> QED BY <3>1, <3>2 DEF OnHeap, Parties
  <2> HIDE DEF C, D
  <2>2. Cardinality(C) + Cardinality(D) <= Cardinality(Parties)
    <3>1. IsFiniteSet(C) /\ IsFiniteSet(D) /\ C \cup D \subseteq Parties
      BY <2>1, FiniteSides, FS_Subset
    <3>2. /\ Cardinality(C \cup D) =
               Cardinality(C) + Cardinality(D) - Cardinality(C \cap D)
      BY <3>1, FS_Union
    <3>3. Cardinality(C \cap D) = 0
      BY <2>1, FS_EmptySet
    <3>4. Cardinality(C \cup D) <= Cardinality(Parties)
      BY <3>1, FiniteSides, Shrinks
    <3>5. Cardinality(C) \in Nat /\ Cardinality(D) \in Nat
      BY <3>1, FS_CardinalityType
    <3> QED BY <3>2, <3>3, <3>4, <3>5
  <2>3. settlements' = << >> /\ Parties' = Parties
    BY <1>2 DEF PushAll, RolesInv, Parties
  <2>4. Cardinality(C) \in Nat /\ Cardinality(D) \in Nat
    BY FiniteSides DEF C, D
  <2>5. Len(settlements') = 0
    BY <2>3
  <2>6. OnHeap(creditors)' = C /\ OnHeap(debtors)' = D
    BY DEF OnHeap, C, D
  <2> QED BY <2>2, <2>3, <2>4, <2>5, <2>6 DEF CountInv
<1>3. CASE Raise
  <2>1. /\ settlements' = << >>
        /\ creditors' = Nobody /\ debtors' = Nobody /\ net' = net
    BY <1>3 DEF Raise, RolesInv
  <2>2. OnHeap(creditors)' = {} /\ OnHeap(debtors)' = {}
    BY <2>1 DEF OnHeap, Nobody
  <2>3. Parties' = Parties
    BY <2>1 DEF Parties
  <2>4. Cardinality({}) = 0 /\ Cardinality(Parties) \in Nat
    BY FS_EmptySet, FiniteSides
  <2>5. Len(settlements') = 0
    BY <2>1
  <2> QED BY <2>1, <2>2, <2>3, <2>4, <2>5 DEF CountInv
<1>4. CASE Finish \/ UNCHANGED vars
  BY <1>4 DEF Finish, vars, CountInv, OnHeap, Parties
<1> QED BY <1>1, <1>2, <1>3, <1>4 DEF Next, Returned

\* A plan for N parties has at most N - 1 payments, whatever their balances.
THEOREM AtMostNMinusOnePayments == Spec => []AtMostNMinusOne
<1>1. Init => CountInv
  BY DEF Init, CountInv
<1>2. TypeOK /\ RolesInv /\ CountInv => AtMostNMinusOne
  <2>1. Cardinality(Parties) \in Nat
    BY FiniteSides
  <2> QED BY <2>1 DEF RolesInv, CountInv, AtMostNMinusOne, TypeOK
<1> QED BY <1>1, <1>2, NextCountInv, RolesInvariant, PTL DEF Spec

\* The heaps only shrink and one of them does, turn by turn: the loop is over
\* after at most as many turns as there are parties.
THEOREM TurnsRetire == Spec => EveryTurnRetiresSomeone
<1> DEFINE Retires ==
      pc = "matching" /\ pc' = "matching" =>
        /\ OnHeap(creditors') \subseteq OnHeap(creditors)
        /\ OnHeap(debtors') \subseteq OnHeap(debtors)
        /\ <<OnHeap(creditors'), OnHeap(debtors')>>
             # <<OnHeap(creditors), OnHeap(debtors)>>
<1>1. TypeOK /\ [Next]_vars => [Retires]_vars
  <2> SUFFICES ASSUME TypeOK, Next PROVE Retires \/ UNCHANGED vars
      OBVIOUS
  <2>1. ASSUME NEW c \in Users, NEW d \in Users, MatchPair(c, d) PROVE Retires
    BY <2>1, TurnShrinks
  <2>2. CASE Raise \/ PushAll \/ Finish
    BY <2>2 DEF Raise, PushAll, Finish
  <2> QED BY <2>1, <2>2 DEF Next, Returned
<1> QED BY <1>1, TypeCorrect, PTL DEF Spec, EveryTurnRetiresSomeone

-----------------------------------------------------------------------------
(* What a plan pays. *)

Paying(u) == {i \in DOMAIN settlements : settlements[i].payer = u}
Paid(u)   == {i \in DOMAIN settlements : settlements[i].payee = u}

\* What the heaps still hold is what the plan has not moved yet, and both heaps
\* hold the same.
FlowInv ==
  pc \in {"matching", "done"} =>
    /\ \A u \in Users : net[u] = creditors[u] - debtors[u] + Received(u) - Sent(u)
    /\ Sum(creditors, Users) = Sum(debtors, Users)
    /\ pc = "done" => OnHeap(creditors) = {} \/ OnHeap(debtors) = {}

\* Sent and received are sums of rows.
LEMMA FlowSums ==
  ASSUME TypeOK
  PROVE  \A u : /\ Sent(u) = AmountSum(settlements, Paying(u)) /\ Sent(u) \in Int
                /\ Received(u) = AmountSum(settlements, Paid(u)) /\ Received(u) \in Int
<1>1. \A x \in Payments : x.amount \in Int
  BY DEF Payments
<1>2. settlements \in Seq(Payments)
  BY DEF TypeOK
<1>3. \A u : Paying(u) \in SUBSET (DOMAIN settlements) /\ Paid(u) \in SUBSET (DOMAIN settlements)
  BY DEF Paying, Paid
<1>4. \A u : /\ Sent(u) = AmountSum(settlements, Paying(u))
             /\ Received(u) = AmountSum(settlements, Paid(u))
  BY DEF Sent, Received, Paying, Paid, AmountSum
<1> QED BY <1>1, <1>2, <1>3, <1>4, RowsSum

\* A payment adds its amount to what its payer has sent and its payee received.
LEMMA TurnFlows ==
  ASSUME TypeOK, NEW c \in Users, NEW d \in Users, MatchPair(c, d), NEW u
  PROVE  LET settled == Lesser(creditors[c], debtors[d]) IN
         /\ Sent(u)' = Sent(u) + (IF u = d THEN settled ELSE 0)
         /\ Received(u)' = Received(u) + (IF u = c THEN settled ELSE 0)
<1> DEFINE settled == Lesser(creditors[c], debtors[d])
           p == [payer |-> d, payee |-> c, amount |-> settled]
           s == settlements  n == Len(s) + 1  t == settlements'
<1>1. t = Append(s, p) /\ settled \in Int
  BY TurnSettles
<1>2. TypeOK'
  BY NextTypeOK DEF Next
<1>3. s \in Seq(Payments) /\ t \in Seq(Payments) /\ \A x \in Payments : x.amount \in Int
  BY <1>2 DEF TypeOK, Payments
<1>4. p.payer = d /\ p.payee = c /\ p.amount = settled
  OBVIOUS
<1> HIDE DEF p, settled
<1>5. /\ DOMAIN s = 1 .. Len(s) /\ DOMAIN t = 1 .. n /\ n \notin DOMAIN s /\ n \in DOMAIN t
      /\ DOMAIN t = DOMAIN s \cup {n} /\ t[n] = p
      /\ \A i \in DOMAIN s : t[i] = s[i]
  BY <1>1, <1>3
<1>6. ASSUME NEW at \in SUBSET (DOMAIN s)
      PROVE  /\ AmountSum(t, at) = AmountSum(s, at)
             /\ AmountSum(t, at \cup {n}) = AmountSum(s, at) + settled
             /\ AmountSum(s, at) \in Int
  <2>1. at \in SUBSET (DOMAIN t) /\ n \in DOMAIN t \ at
    BY <1>5
  <2>2. /\ IsFiniteSet(at) /\ \A i \in at : AmountsOf(s)[i] \in Int
        /\ AmountSum(s, at) = Sum(AmountsOf(s), at) /\ AmountSum(s, at) \in Int
    BY <1>3, RowsSum
  <2>3. AmountSum(t, at) = Sum(AmountsOf(t), at)
    BY <1>3, <2>1, RowsSum
  <2>4. \A i \in at : AmountsOf(t)[i] = AmountsOf(s)[i]
    BY <1>5 DEF AmountsOf
  <2>5. Sum(AmountsOf(t), at) = Sum(AmountsOf(s), at)
    BY <2>2, <2>4, SumEqual
  <2>6. AmountSum(t, at \cup {n}) = AmountSum(t, at) + t[n].amount
    BY <1>3, <2>1, AddRow
  <2> QED BY <1>4, <1>5, <2>2, <2>3, <2>5, <2>6
<1>7. /\ Paying(u) \in SUBSET (DOMAIN s) /\ Paid(u) \in SUBSET (DOMAIN s)
      /\ Paying(u)' = IF u = d THEN Paying(u) \cup {n} ELSE Paying(u)
      /\ Paid(u)' = IF u = c THEN Paid(u) \cup {n} ELSE Paid(u)
  BY <1>4, <1>5 DEF Paying, Paid
<1>8. /\ Sent(u) = AmountSum(s, Paying(u)) /\ Received(u) = AmountSum(s, Paid(u))
      /\ Sent(u) \in Int /\ Received(u) \in Int
  BY FlowSums
<1>9. Sent(u)' = AmountSum(t, Paying(u)') /\ Received(u)' = AmountSum(t, Paid(u)')
  BY DEF Sent, Received, Paying, Paid, AmountSum
<1>10. Sent(u)' = Sent(u) + (IF u = d THEN settled ELSE 0)
  <2> DEFINE at == Paying(u)
  <2>1. /\ AmountSum(t, at) = AmountSum(s, at)
        /\ AmountSum(t, at \cup {n}) = AmountSum(s, at) + settled
    BY <1>6, <1>7
  <2>2. Sent(u)' = AmountSum(t, IF u = d THEN at \cup {n} ELSE at)
    BY <1>7, <1>9
  <2>3. Sent(u) = AmountSum(s, at) /\ Sent(u) \in Int
    BY <1>8
  <2> HIDE DEF at, n, t, s
  <2> QED BY <1>1, <2>1, <2>2, <2>3
<1>11. Received(u)' = Received(u) + (IF u = c THEN settled ELSE 0)
  <2> DEFINE at == Paid(u)
  <2>1. /\ AmountSum(t, at) = AmountSum(s, at)
        /\ AmountSum(t, at \cup {n}) = AmountSum(s, at) + settled
    BY <1>6, <1>7
  <2>2. Received(u)' = AmountSum(t, IF u = c THEN at \cup {n} ELSE at)
    BY <1>7, <1>9
  <2>3. Received(u) = AmountSum(s, at) /\ Received(u) \in Int
    BY <1>8
  <2> HIDE DEF at, n, t, s
  <2> QED BY <1>1, <2>1, <2>2, <2>3
<1> QED BY <1>10, <1>11 DEF settled

\* Every step keeps what is paid and what is left equal to the balances.
LEMMA NextFlowInv ==
  ASSUME TypeOK, RolesInv, FlowInv, [Next]_vars
  PROVE  FlowInv'
<1>1. ASSUME NEW c \in Users, NEW d \in Users, MatchPair(c, d) PROVE FlowInv'
  <2> DEFINE x == Lesser(creditors[c], debtors[d])
  <2>1. /\ creditors' = [creditors EXCEPT ![c] = creditors[c] - x]
        /\ debtors' = [debtors EXCEPT ![d] = debtors[d] - x]
        /\ x \in Nat
    BY <1>1, TurnSettles
  <2>2. \A u : /\ Sent(u)' = Sent(u) + (IF u = d THEN x ELSE 0)
               /\ Received(u)' = Received(u) + (IF u = c THEN x ELSE 0)
               /\ Sent(u) \in Int /\ Received(u) \in Int
    BY <1>1, TurnFlows, FlowSums
  <2> HIDE DEF x
  <2>3. /\ creditors \in [Users -> Nat] /\ debtors \in [Users -> Nat]
        /\ creditors' \in [Users -> Nat] /\ debtors' \in [Users -> Nat]
        /\ net \in [Users -> Int]
    <3>1. TypeOK'
      BY <1>1, NextTypeOK DEF Next
    <3> QED BY <3>1 DEF TypeOK
  <2>4. pc = "matching" /\ pc' = "matching" /\ net' = net
    BY <1>1 DEF MatchPair
  <2>5. /\ \A u \in Users : net[u] = creditors[u] - debtors[u] + Received(u) - Sent(u)
        /\ Sum(creditors, Users) = Sum(debtors, Users)
    BY <2>4 DEF FlowInv
  <2>6. ASSUME NEW u \in Users
        PROVE  net'[u] = creditors'[u] - debtors'[u] + Received(u)' - Sent(u)'
    <3>1. /\ creditors'[u] = IF u = c THEN creditors[u] - x ELSE creditors[u]
          /\ debtors'[u] = IF u = d THEN debtors[u] - x ELSE debtors[u]
      BY <2>1, <2>3
    <3>2. creditors[u] \in Int /\ debtors[u] \in Int /\ x \in Int
      BY <2>1, <2>3
    <3> QED BY <2>2, <2>4, <2>5, <3>1, <3>2
  <2>7. Sum(creditors', Users) = Sum(debtors', Users)
    <3>1. Sum(creditors', Users) = Sum(creditors, Users) - creditors[c] + creditors'[c]
      <4>1. \A u \in Users : creditors[u] \in Int /\ creditors'[u] \in Int
        BY <2>3
      <4>2. \A u \in Users \ {c} : creditors'[u] = creditors[u]
        BY <2>1, <2>3
      <4>3. IsFiniteSet(Users)
        BY UsersAssumption
      <4> DEFINE f == creditors  g == creditors'
      <4>4. /\ \A u \in Users : f[u] \in Int /\ g[u] \in Int
            /\ \A u \in Users \ {c} : g[u] = f[u]
        BY <4>1, <4>2
      <4> HIDE DEF f, g
      <4>5. Sum(g, Users) = Sum(f, Users) - f[c] + g[c]
        BY <4>3, <4>4, SumExcept
      <4> QED BY <4>5 DEF f, g
    <3>2. Sum(debtors', Users) = Sum(debtors, Users) - debtors[d] + debtors'[d]
      <4>1. \A u \in Users : debtors[u] \in Int /\ debtors'[u] \in Int
        BY <2>3
      <4>2. \A u \in Users \ {d} : debtors'[u] = debtors[u]
        BY <2>1, <2>3
      <4>3. IsFiniteSet(Users)
        BY UsersAssumption
      <4> DEFINE f == debtors  g == debtors'
      <4>4. /\ \A u \in Users : f[u] \in Int /\ g[u] \in Int
            /\ \A u \in Users \ {d} : g[u] = f[u]
        BY <4>1, <4>2
      <4> HIDE DEF f, g
      <4>5. Sum(g, Users) = Sum(f, Users) - f[d] + g[d]
        BY <4>3, <4>4, SumExcept
      <4> QED BY <4>5 DEF f, g
    <3>3. /\ creditors'[c] = creditors[c] - x /\ creditors[c] \in Int
          /\ debtors'[d] = debtors[d] - x /\ debtors[d] \in Int /\ x \in Int
      BY <2>1, <2>3
    <3>4. Sum(creditors, Users) \in Int
      <4>1. \A u \in Users : creditors[u] \in Int
        BY <2>3
      <4> QED BY <4>1, UsersAssumption, SumInt
    <3> QED BY <2>5, <3>1, <3>2, <3>3, <3>4
  <2> QED BY <2>4, <2>6, <2>7 DEF FlowInv
<1>2. CASE PushAll
  <2>1. /\ creditors' = [u \in Users |-> IF net[u] > 0 THEN net[u] ELSE 0]
        /\ debtors' = [u \in Users |-> IF net[u] < 0 THEN -net[u] ELSE 0]
        /\ settlements = << >> /\ settlements' = << >> /\ net' = net
        /\ pc' = "matching" /\ SumFunction(net) = 0
    BY <1>2 DEF PushAll, RolesInv
  <2>2. net \in [Users -> Int] /\ Sum(net, Users) = 0
    BY <2>1 DEF TypeOK, SumFunction, SumFunctionOnSet, FoldFunction, FoldFunctionOnSet, Sum
  <2>3. \A u \in Users : /\ creditors'[u] \in Int /\ debtors'[u] \in Int
                         /\ net[u] = creditors'[u] - debtors'[u]
    BY <2>1, <2>2
  <2>4. Sum(net, Users) = Sum(creditors', Users) - Sum(debtors', Users)
    BY <2>3, UsersAssumption, SumMinus
  <2>5. Sum(creditors', Users) \in Int /\ Sum(debtors', Users) \in Int
    BY <2>3, UsersAssumption, SumInt
  <2>6. \A u : Sent(u)' = 0 /\ Received(u)' = 0
    <3>1. \A u : Paying(u)' = {} /\ Paid(u)' = {}
      BY <2>1 DEF Paying, Paid
    <3>2. \A u : /\ Sent(u)' = AmountSum(settlements', Paying(u)')
                 /\ Received(u)' = AmountSum(settlements', Paid(u)')
      BY DEF Sent, Received, Paying, Paid, AmountSum
    <3>3. AmountSum(settlements', {}) = 0
      BY SumEmpty DEF AmountSum, Sum
    <3> QED BY <3>1, <3>2, <3>3
  <2>7. \A u \in Users : net'[u] = creditors'[u] - debtors'[u] + Received(u)' - Sent(u)'
    BY <2>1, <2>3, <2>6
  <2> QED BY <2>1, <2>2, <2>4, <2>5, <2>7 DEF FlowInv
<1>3. CASE Finish
  <2>1. UNCHANGED <<net, creditors, debtors, settlements>> /\ pc = "matching"
        /\ (OnHeap(creditors) = {} \/ OnHeap(debtors) = {})
    BY <1>3 DEF Finish
  <2> QED BY <2>1 DEF FlowInv, OnHeap, Sent, Received
<1>4. CASE Raise
  BY <1>4 DEF Raise, FlowInv
<1>5. CASE UNCHANGED vars
  BY <1>5 DEF vars, FlowInv, OnHeap, Sent, Received
<1> QED BY <1>1, <1>2, <1>3, <1>4, <1>5 DEF Next, Returned

\* An empty heap empties the other: nothing is left to move.
LEMMA FlowSettles ==
  ASSUME TypeOK, FlowInv, pc = "done"
  PROVE  \A u \in Users : net[u] = Received(u) - Sent(u)
<1>1. /\ \A u \in Users : creditors[u] \in Nat /\ debtors[u] \in Nat
      /\ Sum(creditors, Users) = Sum(debtors, Users)
      /\ OnHeap(creditors) = {} \/ OnHeap(debtors) = {}
      /\ \A u \in Users : net[u] = creditors[u] - debtors[u] + Received(u) - Sent(u)
  BY DEF TypeOK, FlowInv
<1>2. ASSUME NEW h, NEW g, \A u \in Users : h[u] \in Nat /\ g[u] \in Nat,
             OnHeap(h) = {}, Sum(h, Users) = Sum(g, Users)
      PROVE  \A u \in Users : h[u] = 0 /\ g[u] = 0
  <2>1. \A u \in Users : h[u] = 0
    BY <1>2 DEF OnHeap
  <2>2. Sum(h, Users) = 0
    <3>1. \A u \in Users \ {} : h[u] = 0 /\ h[u] \in Int
      BY <2>1
    <3>2. Sum(h, Users) = Sum(h, {})
      BY <3>1, UsersAssumption, SumNonzero
    <3> QED BY <3>2, SumEmpty
  <2>3. \A u \in Users : g[u] <= 0
    BY <1>2, <2>2, UsersAssumption, SumNat
  <2> QED BY <1>2, <2>1, <2>3
<1>3. \A u \in Users : creditors[u] = 0 /\ debtors[u] = 0
  BY <1>1, <1>2
<1> QED BY <1>1, <1>3, FlowSums

\* The inductive invariant of a simplification.
SimplifyInv == TypeOK /\ RolesInv /\ PaymentsAreReal /\ NoPairTwice /\ CountInv /\ FlowInv

\* It is kept, and gives the properties.
LEMMA SimplifyInductive ==
  /\ SimplifyInv /\ [Next]_vars => SimplifyInv'
  /\ SimplifyInv => PlanSettlesEveryone /\ AtMostNMinusOne
<1>1. SimplifyInv /\ [Next]_vars => SimplifyInv'
  BY NextTypeOK, NextRoles, NextCountInv, NextFlowInv DEF SimplifyInv
<1>2. SimplifyInv => PlanSettlesEveryone
  BY FlowSettles DEF SimplifyInv, PlanSettlesEveryone
<1>3. SimplifyInv => AtMostNMinusOne
  <2>1. Cardinality(Parties) \in Nat
    BY FiniteSides
  <2> QED BY <2>1 DEF SimplifyInv, RolesInv, CountInv, AtMostNMinusOne, TypeOK
<1> QED BY <1>1, <1>2, <1>3

\* The plan pays every creditor and clears every debtor to the cent.
THEOREM EveryoneSettled == Spec => []PlanSettlesEveryone
<1>1. Init => SimplifyInv
  <2>1. Init => TypeOK
    BY InitTypeOK
  <2> QED BY <2>1 DEF Init, SimplifyInv, Nobody, RolesInv, PaymentsAreReal, NoPairTwice,
                      CountInv, FlowInv
<1> QED BY <1>1, SimplifyInductive, PTL DEF Spec

-----------------------------------------------------------------------------
(* The way of an expense. *)

\* Whatever the split, there are shares, all of users, and they add up.
LEMMA SplitsAddUp ==
  ASSUME NEW x, Acceptable(x)
  PROVE  /\ Splits(x.body, x.roster) \in Seq(Shares(Users))
         /\ Splits(x.body, x.roster) # << >>
         /\ Total(Splits(x.body, x.roster)) = x.body.total
<1> DEFINE b == x.body
<1>1. /\ x.roster \in Seq(Users) /\ x.roster # << >> /\ b.total \in Nat
      /\ SplitAccepted(b)
  BY DEF Acceptable
<1>2. CASE b.type = "EQUAL"
  <2>1. Splits(b, x.roster) = SplitEqual(b.total, x.roster)
    BY <1>2 DEF Splits
  <2>2. /\ SplitEqual(b.total, x.roster) \in Seq(Shares(Users))
        /\ SplitEqual(b.total, x.roster) # << >>
        /\ Total(SplitEqual(b.total, x.roster)) = b.total
    BY <1>1, EqualShares
  <2> QED BY <2>1, <2>2
<1>3. CASE b.type = "EXACT"
  <2>1. Splits(b, x.roster) = b.given
    BY <1>3 DEF Splits
  <2>2. b.given \in Seq(Shares(Users)) /\ b.given # << >> /\ Total(b.given) = b.total
    BY <1>3 DEF Acceptable, SplitAccepted, Shares
  <2> QED BY <2>1, <2>2
<1>4. CASE b.type = "PERCENTAGE"
  <2>1. Splits(b, x.roster) = SplitPercentage(b.total, b.given)
    BY <1>4 DEF Splits
  <2>2. b.given \in Seq(Percents(Users)) /\ b.given # << >>
    BY <1>4 DEF Acceptable, SplitAccepted, Percents
  <2> QED BY <1>1, <2>1, <2>2, PercentageShares
<1>5. b.type \in {"EQUAL", "EXACT", "PERCENTAGE"}
  BY <1>1 DEF SplitAccepted
<1> QED BY <1>2, <1>3, <1>4, <1>5

Booked == [payer |-> Asked.payer, splits |-> shares]

\* An expense stays what it was asked to be, it is split before it is simplified,
\* and its net balances cancel.
PathInv ==
  /\ expense = << >> \/ \E x \in Expenses : expense = <<x>>
  /\ expense = << >> => ~Computed
  /\ expense # << >> /\ ~Computed => pc = "start"
  /\ Computed =>
       /\ shares = Splits(Asked, Head(expense).roster)
       /\ lines = ExpenseLines(Asked.payer, shares, Clearing)
       /\ \A u \in Users : net[u] = NetOf(Booked, u)
  /\ expense # << >> => pc # "raised"

\* What is known of an expense once it is split.
LEMMA AskedFacts ==
  ASSUME PathInv, Computed
  PROVE  /\ Acceptable(Head(expense)) /\ Asked.payer \in Users
         /\ shares \in Seq(Shares(Users)) /\ Total(shares) = Asked.total
<1>1. Acceptable(Head(expense))
  BY ExpensesAssumption DEF PathInv
<1>2. Asked.payer \in Users
  BY <1>1 DEF Acceptable, Asked
<1> QED BY <1>1, <1>2, SplitsAddUp DEF PathInv, Asked

\* Net balances of an expense that is split.
LEMMA SplitNets ==
  ASSUME NEW payer \in Users, NEW s \in Seq(Shares(Users)), NEW n,
         n = [u \in Users |-> NetBalance(<<[payer |-> payer, splits |-> s]>>, u)]
  PROVE  /\ n \in [Users -> Int] /\ Sum(n, Users) = 0
         /\ \A u \in Users : n[u] = NetOf([payer |-> payer, splits |-> s], u)
<1> DEFINE tx == [payer |-> payer, splits |-> s]
           g == [u \in Users |-> NetOf(tx, u)]
<1>1. tx.payer \in Users /\ tx.splits \in Seq(Shares(Users)) /\ IsFiniteSet(Users)
  BY UsersAssumption
<1> HIDE DEF tx
<1>2. (\A u \in Users : g[u] \in Int) /\ Sum(g, Users) = 0
  <2>1. \A u \in Users : g[u] = NetOf(tx, u)
    OBVIOUS
  <2> HIDE DEF g
  <2> QED BY <1>1, <2>1, NetsCancel
<1>3. \A u \in Users : NetBalance(<<tx>>, u) = NetOf(tx, u)
  BY <1>2, OneTransaction
<1>4. n = g
  BY <1>3 DEF tx
<1> QED BY <1>2, <1>4 DEF tx

\* Every step on the path keeps the books and the transactions in agreement.
LEMMA NextPathInv ==
  ASSUME SimplifyInv, PathInv, [PathNext]_pathVars
  PROVE  SimplifyInv' /\ PathInv'
<1>1. CASE SplitAndPost
  <2> DEFINE x == Head(expense)
  <2>1. expense # << >> /\ ~Computed /\ pc = "start"
    BY <1>1 DEF SplitAndPost, PathInv
  <2>2. /\ shares' = Splits(x.body, x.roster)
        /\ lines' = ExpenseLines(x.body.payer, shares', Clearing)
        /\ net' = [u \in Users |->
                     NetBalance(<<[payer |-> x.body.payer, splits |-> shares']>>, u)]
        /\ UNCHANGED <<expense, pc, creditors, debtors, settlements>>
    BY <1>1 DEF SplitAndPost
  <2>3. Acceptable(x)
    BY <2>1, ExpensesAssumption DEF PathInv
  <2>4. x.body.payer \in Users
    BY <2>3 DEF Acceptable
  <2> HIDE DEF x
  <2>5. shares' \in Seq(Shares(Users)) /\ shares' # << >>
    BY <2>2, <2>3, SplitsAddUp
  <2>6. /\ net' \in [Users -> Int]
        /\ \A u \in Users : net'[u] = NetOf([payer |-> x.body.payer, splits |-> shares'], u)
    <3> DEFINE n == net'  s == shares'
    <3>1. /\ s \in Seq(Shares(Users))
          /\ n = [u \in Users |-> NetBalance(<<[payer |-> x.body.payer, splits |-> s]>>, u)]
      BY <2>2, <2>5
    <3> HIDE DEF n, s
    <3>2. /\ n \in [Users -> Int]
          /\ \A u \in Users : n[u] = NetOf([payer |-> x.body.payer, splits |-> s], u)
      BY <2>4, <3>1, SplitNets
    <3> QED BY <3>2 DEF n, s
  <2>7. creditors = Nobody /\ debtors = Nobody /\ settlements = << >>
    BY <2>1 DEF SimplifyInv, RolesInv
  <2>8. TypeOK'
    BY <2>2, <2>6 DEF SimplifyInv, TypeOK
  <2>9. RolesInv' /\ PaymentsAreReal' /\ NoPairTwice' /\ CountInv' /\ FlowInv'
    <3>1. \A u \in Users : ~(creditors'[u] > 0) /\ ~(debtors'[u] > 0)
      BY <2>2, <2>7 DEF Nobody
    <3>2. settlements' = << >> /\ creditors' = Nobody /\ debtors' = Nobody /\ pc' = "start"
      BY <2>1, <2>2, <2>7
    <3>3. RolesInv'
      BY <3>1, <3>2 DEF RolesInv, Nobody
    <3>4. PaymentsAreReal' /\ NoPairTwice'
      BY <3>2 DEF PaymentsAreReal, NoPairTwice
    <3> QED BY <3>2, <3>3, <3>4 DEF CountInv, FlowInv
  <2>10. PathInv'
    <3>1. Computed'
      BY <2>5 DEF Computed
    <3>2. Asked' = x.body /\ Head(expense)' = x /\ Booked' = [payer |-> x.body.payer, splits |-> shares']
      BY <2>2 DEF Asked, Booked, x
    <3>3. Clearing' = Clearing
      BY DEF Clearing
    <3>4. \E y \in Expenses : expense' = <<y>>
      BY <2>1, <2>2 DEF PathInv
    <3>5. pc' = "start" /\ expense' = expense
      BY <2>1, <2>2
    <3> QED BY <2>1, <2>2, <2>6, <3>1, <3>2, <3>3, <3>4, <3>5 DEF PathInv
  <2> QED BY <2>8, <2>9, <2>10 DEF SimplifyInv
<1>2. CASE Simplify
  <2>1. Next /\ UNCHANGED <<expense, shares, lines>> /\ (expense = << >> \/ Computed)
    BY <1>2 DEF Simplify
  <2>2. SimplifyInv'
    BY <2>1, SimplifyInductive
  <2>3. net' = net
    BY <2>1 DEF Next, Raise, PushAll, Finish, Returned, MatchPair, vars
  <2>4. Asked' = Asked /\ Booked' = Booked /\ Computed' = Computed /\ Clearing' = Clearing
    BY <2>1 DEF Asked, Booked, Computed, Clearing
  <2>5. expense # << >> => pc' # "raised"
    <3>1. SUFFICES ASSUME expense # << >>, pc' = "raised" PROVE FALSE
      OBVIOUS
    <3>2. Computed /\ pc # "raised"
      BY <2>1, <3>1 DEF PathInv
    <3>3. SumFunction(net) # 0
      BY <2>1, <3>1, <3>2 DEF Next, Raise, PushAll, Finish, Returned, MatchPair, vars
    <3>4. Booked.payer \in Users /\ Booked.splits \in Seq(Shares(Users))
      BY <3>2, AskedFacts DEF Booked
    <3>5. Sum(net, Users) = 0
      <4> DEFINE tx == Booked  n == net
      <4>1. tx.payer \in Users /\ tx.splits \in Seq(Shares(Users)) /\ IsFiniteSet(Users)
        BY <3>4, UsersAssumption
      <4>2. \A u \in Users : n[u] = NetOf(tx, u)
        BY <3>2 DEF PathInv
      <4> HIDE DEF tx, n
      <4>3. Sum(n, Users) = 0
        BY <4>1, <4>2, NetsCancel
      <4> QED BY <4>3 DEF n
    <3>6. SumFunction(net) = Sum(net, Users)
      BY DEF SimplifyInv, TypeOK, SumFunction, SumFunctionOnSet, FoldFunction,
             FoldFunctionOnSet, Sum
    <3> QED BY <3>3, <3>5, <3>6
  <2>6. PathInv'
    <3>1. expense' = expense /\ shares' = shares /\ lines' = lines
      BY <2>1
    <3>2. expense # << >> /\ ~Computed => FALSE
      BY <2>1
    <3> QED BY <2>3, <2>4, <2>5, <3>1, <3>2 DEF PathInv
  <2> QED BY <2>2, <2>6
<1>3. CASE UNCHANGED pathVars
  <2>1. UNCHANGED vars /\ UNCHANGED <<expense, shares, lines>>
    BY <1>3 DEF pathVars
  <2>2. SimplifyInv'
    BY <2>1, SimplifyInductive
  <2>3. Asked' = Asked /\ Booked' = Booked /\ Computed' = Computed /\ Clearing' = Clearing
    BY <2>1 DEF Asked, Booked, Computed, Clearing
  <2>4. net' = net /\ pc' = pc
    BY <2>1 DEF vars
  <2> QED BY <2>1, <2>2, <2>3, <2>4 DEF PathInv
<1> QED BY <1>1, <1>2, <1>3 DEF PathNext

\* The invariant of the path holds throughout.
LEMMA PathInvariant == PathSpec => [](SimplifyInv /\ PathInv)
<1>1. PathInit => SimplifyInv /\ PathInv
  <2> SUFFICES ASSUME PathInit PROVE SimplifyInv /\ PathInv
      OBVIOUS
  <2>1. TypeOK
    BY NetsAssumption DEF PathInit, TypeOK, Nobody
  <2>2. RolesInv /\ PaymentsAreReal /\ NoPairTwice /\ CountInv /\ FlowInv
    BY DEF PathInit, Nobody, RolesInv, PaymentsAreReal, NoPairTwice, CountInv, FlowInv
  <2>3. PathInv
    BY DEF PathInit, PathInv, Computed
  <2> QED BY <2>1, <2>2, <2>3 DEF SimplifyInv
<1> QED BY <1>1, NextPathInv, PTL DEF PathSpec

\* However an expense is split, its shares add up to the total to the cent.
THEOREM SharesSumToTotal == PathSpec => []SharesAddUp
<1>1. PathInv => SharesAddUp
  BY AskedFacts DEF SharesAddUp
<1> QED BY <1>1, PathInvariant, PTL

\* Percentage shares stay within the bounds of floats, rounding and tolerance,
\* whichever products a float makes too short.
THEOREM PercentagesRoundTowardsZero == PathSpec => []PercentageSharesAreClose
<1>1. PathInv => PercentageSharesAreClose
  <2> SUFFICES ASSUME PathInv, Computed, Asked.type = "PERCENTAGE"
               PROVE  PercentageSharesAreClose
      BY DEF PercentageSharesAreClose
  <2> DEFINE total == Asked.total  given == Asked.given  n == Len(given)
             raised == {i \in 1 .. n - 1 : given[i].pct < 0}  k == Cardinality(raised)
             over == PctTotal(given) - Hundred  slack == PctTolerance * total
             off == Off(total, given, shares, n)
  <2>1. Acceptable(Head(expense))
    BY AskedFacts
  <2>2. /\ total \in Nat /\ given \in Seq(Percents(Users)) /\ SplitAccepted(Asked)
        /\ given # << >>
    BY <2>1 DEF Acceptable, Asked, Percents, SplitAccepted
  <2>3. over \in -PctTolerance .. PctTolerance
    <3> DEFINE pct == [i \in DOMAIN given |-> given[i].pct]
               miss == SumFunction(pct) - Hundred
    <3>1. \/ miss \in 1 - PctTolerance .. PctTolerance - 1
          \/ miss \in {-PctTolerance, PctTolerance}
      BY <2>2 DEF SplitAccepted
    <3>2. over = miss
      BY DEF PctTotal
    <3>3. PctTolerance \in Nat
      BY SMT DEF PctTolerance
    <3> HIDE DEF over, miss
    <3> QED BY <3>1, <3>2, <3>3
  <2>4. shares = SplitPercentage(total, given)
    BY DEF PathInv, Splits
  <2> HIDE DEF total, given
  <2>5. /\ Len(shares) = n
        /\ \A i \in 1 .. n - 1 :
             Off(total, given, shares, i)
               \in IF given[i].pct < 0 THEN -Hundred .. 0 ELSE 0 .. Hundred
        /\ PctTotal(given) \in Int /\ off \in Int /\ k \in Nat
        /\ off >= total * over - (n - 1 - k) * Hundred
        /\ off <= total * over + k * Hundred
    BY <2>2, <2>4, PercentageShares
  <2>6. Hundred \in Nat /\ PctTolerance \in Nat /\ n \in Nat /\ over \in Int
    <3>1. Hundred \in Nat /\ PctTolerance \in Nat
      BY SMT DEF Hundred, PctTolerance
    <3> QED BY <2>2, <2>5, <3>1
  <2>7. -slack <= total * over /\ total * over <= slack /\ slack \in Int /\ total * over \in Int
    <3> HIDE DEF over
    <3>1. \A p \in Nat : \A o \in -p .. p :
            /\ -(p * total) <= total * o /\ total * o <= p * total
            /\ p * total \in Int /\ total * o \in Int
      BY <2>2, SMT
    <3> QED BY <2>3, <2>6, <3>1
  <2>8. k * Hundred \in Int /\ (n - 1 - k) * Hundred \in Int
    <3>1. \A i, h \in Int : i * h \in Int
      OBVIOUS
    <3>2. k \in Int /\ n - 1 - k \in Int /\ Hundred \in Int
      <4> HIDE DEF k, n
      <4> QED BY <2>5, <2>6
    <3> QED BY <3>1, <3>2
  <2> HIDE DEF off, k, slack, over, n
  <2>9. -((n - 1 - k) * Hundred + slack) <= off /\ off <= k * Hundred + slack
    <3> DEFINE low == (n - 1 - k) * Hundred  high == k * Hundred  d == total * over
    <3>1. off >= d - low /\ off <= d + high /\ -slack <= d /\ d <= slack
      BY <2>5, <2>7
    <3>2. low \in Int /\ high \in Int /\ d \in Int /\ off \in Int /\ slack \in Int
      BY <2>5, <2>7, <2>8
    <3> HIDE DEF low, high, d
    <3>3. -(low + slack) <= off /\ off <= high + slack
      BY <3>1, <3>2
    <3> QED BY <3>3 DEF low, high
  <2>10. \A i \in 1 .. n - 1 :
           Off(total, given, shares, i)
             \in IF i \in raised THEN -Hundred .. 0 ELSE 0 .. Hundred
    BY <2>5 DEF n
  <2>11. Len(shares) = n
    BY <2>5
  <2> QED BY <2>9, <2>10, <2>11, Zenon
          DEF PercentageSharesAreClose, Off, off, k, slack, total, given
<1> QED BY <1>1, PathInvariant, PTL

\* The plan for an expense is as good as any: it settles everyone, within one
\* payment less than there are parties, and no pair pays twice.
THEOREM ExpensePlansSettle ==
  PathSpec => [](PlanSettlesEveryone /\ AtMostNMinusOne /\ NoPairTwice)
<1>1. SimplifyInv => NoPairTwice
  BY DEF SimplifyInv
<1> QED BY <1>1, SimplifyInductive, PathInvariant, PTL

\* The plan for an expense moves what its journal booked.
THEOREM PlanMatchesLedger == PathSpec => []PlanSettlesLedger
<1>1. SimplifyInv /\ PathInv => PlanSettlesLedger
  <2> SUFFICES ASSUME SimplifyInv, PathInv, expense # << >>, pc = "done", AmountsValid(lines),
                      NEW u \in Users
               PROVE  Balance(lines, Wallet(u)) = Received(u) - Sent(u)
      BY DEF PlanSettlesLedger, PathInv
  <2>1. Computed
    BY DEF PathInv
  <2>2. /\ Asked.payer \in Users /\ shares \in Seq(Shares(Users))
    BY <2>1, AskedFacts
  <2>3. lines = ExpenseLines(Asked.payer, shares, Clearing) /\ net[u] = NetOf(Booked, u)
    BY <2>1 DEF PathInv
  <2>4. Balance(lines, Wallet(u)) = NetOf(Booked, u)
    <3> DEFINE tx == Booked
    <3>1. tx.payer \in Users /\ tx.splits \in Seq(Shares(Users))
      BY <2>2 DEF Booked
    <3>2. lines = ExpenseLines(tx.payer, tx.splits, Clearing)
      BY <2>3 DEF Booked
    <3>3. \A v : Wallet(v) # Clearing
      BY DEF Wallet, Clearing, ExpenseClearing
    <3> HIDE DEF tx
    <3>4. AmountsValid(ExpenseLines(tx.payer, tx.splits, Clearing))
      BY <3>2, Zenon
    <3>5. Balance(ExpenseLines(tx.payer, tx.splits, Clearing), Wallet(u)) = NetOf(tx, u)
      BY <3>1, <3>3, <3>4, ExpenseWallets
    <3> QED BY <3>2, <3>5, Zenon DEF tx
  <2>5. net[u] = Received(u) - Sent(u)
    BY FlowSettles DEF SimplifyInv
  <2> QED BY <2>3, <2>4, <2>5
<1> QED BY <1>1, PathInvariant, PTL
=============================================================================
