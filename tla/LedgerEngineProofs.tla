------------------------- MODULE LedgerEngineProofs ------------------------
(***************************************************************************)
(* Theorems about LedgerEngine, for any calls, owners, number of calls and *)
(* times of the clock.                                                     *)
(***************************************************************************)
EXTENDS LedgerEngine, BookkeepingProofs

-----------------------------------------------------------------------------
(* Least and greatest elements. *)

\* A bounded set of numbers has a greatest element.
LEMMA Greatest ==
  ASSUME NEW n \in Nat, NEW T, T \subseteq 0 .. n, T # {}
  PROVE  \E x \in T : \A y \in T : x >= y
<1>. DEFINE D == {n - x : x \in T}
<1>1. D \subseteq Nat /\ D # {}
  <2>1. \A x \in T : n - x \in Nat
    OBVIOUS
  <2>2. D \subseteq Nat
    BY <2>1
  <2>3. PICK x \in T : TRUE
    OBVIOUS
  <2>4. n - x \in D
    OBVIOUS
  <2>. QED  BY <2>2, <2>4
<1>2. PICK d \in D : \A e \in D : d <= e
  <2>. HIDE DEF D
  <2>. QED  BY <1>1, Least
<1>3. PICK x \in T : d = n - x
  OBVIOUS
<1>4. \A y \in T : n - x <= n - y
  BY <1>2, <1>3
<1>. QED  BY <1>4

\* What Max chooses is that element.
LEMMA MaxIs ==
  ASSUME NEW n \in Nat, NEW T, T \subseteq 1 .. n, T # {}
  PROVE  Max(T) \in T /\ \A y \in T : Max(T) >= y
<1>1. T \subseteq 0 .. n
  OBVIOUS
<1>2. \E x \in T : \A y \in T : x >= y
  BY <1>1, Greatest
<1>. QED  BY <1>2 DEF Max

-----------------------------------------------------------------------------
(* Type correctness. *)

\* Any line that a call can post.
Lines == LinesOn(Accounts)

\* Wallets are not clearing accounts, and one clearing account is not another.
LEMMA AccountsDiffer ==
  /\ \A u, n : Wallet(u) # ExpenseClearing(n) /\ Wallet(u) # SettlementClearing(n)
  /\ \A u : Wallet(u)[1] = "USER_WALLET" /\ Wallet(u)[2] = u
  /\ \A n : /\ ExpenseClearing(n)[1] # "USER_WALLET" /\ ExpenseClearing(n)[2] = n
            /\ SettlementClearing(n)[1] # "USER_WALLET" /\ SettlementClearing(n)[2] = n
BY DEF Wallet, ExpenseClearing, SettlementClearing

\* The lines of call number n are on wallets and on a clearing account of its
\* own, and leave nothing on any clearing account.
LEMMA LinesOfCall ==
  ASSUME NEW call \in Calls, NEW n \in CallIds
  PROVE  /\ LinesOf(call, n) \in Seq(Lines)
         /\ \A i \in DOMAIN LinesOf(call, n) :
              LET a == LinesOf(call, n)[i].account IN a[1] # "USER_WALLET" => a[2] = n
         /\ AmountsValid(LinesOf(call, n)) =>
              \A a : a[1] # "USER_WALLET" => Balance(LinesOf(call, n), a) = 0
<1>. DEFINE l == LinesOf(call, n)
            own(c) == {Wallet(u) : u \in Owners} \cup {c}
<1>1. \A A \in SUBSET Accounts : Seq(LinesOn(A)) \subseteq Seq(Lines)
  <2>1. \A A \in SUBSET Accounts : LinesOn(A) \subseteq Lines
    BY DEF LinesOn, Lines
  <2>. QED  BY <2>1
<1>2. \A c, i : l \in Seq(LinesOn(own(c))) /\ i \in DOMAIN l =>
        l[i].account = c \/ \E u \in Owners : l[i].account = Wallet(u)
  <2>. SUFFICES ASSUME NEW c, NEW i \in DOMAIN l, l \in Seq(LinesOn(own(c)))
                PROVE  l[i].account \in own(c)
    OBVIOUS
  <2>1. l[i] \in LinesOn(own(c))
    <3>. HIDE DEF l
    <3>. QED  OBVIOUS
  <2>. QED  BY <2>1 DEF LinesOn
<1>3. CASE /\ call.op = "expense" /\ call.payer \in Owners
           /\ call.splits \in Seq([user : Owners, amount : Int])
  <2>. DEFINE c == ExpenseClearing(n)
  <2>1. l = ExpenseLines(call.payer, call.splits, c)
    BY <1>3 DEF LinesOf
  <2>2. c \in Accounts /\ own(c) \in SUBSET Accounts /\ c[2] = n
    BY AccountsDiffer DEF Accounts
  <2>3. call.splits \in Seq(Shares(Owners)) /\ call.payer \in Owners
    BY <1>3 DEF Shares
  <2>4. (\A u : Wallet(u) # c) /\ \A u \in Owners : Wallet(u) \in own(c)
    BY AccountsDiffer
  <2>5. \A a : a[1] # "USER_WALLET" => \A u : a # Wallet(u)
    BY AccountsDiffer
  <2>. HIDE DEF c, l
  <2>6. l \in Seq(LinesOn(own(c)))
    <3>. DEFINE A == own(c)
    <3>1. c \in A /\ \A u \in Owners : Wallet(u) \in A
      BY <2>4
    <3>. HIDE DEF A
    <3>2. l \in Seq(LinesOn(A))
      BY <2>1, <2>3, <2>4, <3>1, ExpenseJournal
    <3>. QED  BY <3>2 DEF A
  <2>7. AmountsValid(l) => \A a : a[1] # "USER_WALLET" => Balance(l, a) = 0
    BY <2>1, <2>3, <2>4, <2>5, ExpenseBalances
  <2>8. ASSUME NEW i \in DOMAIN l, l[i].account[1] # "USER_WALLET"
        PROVE  l[i].account[2] = n
    <3>1. l[i].account = c \/ \E u \in Owners : l[i].account = Wallet(u)
      BY <1>2, <2>6
    <3>2. \A u \in Owners : l[i].account # Wallet(u)
      BY <2>8, AccountsDiffer
    <3>. QED  BY <2>2, <3>1, <3>2
  <2>9. l \in Seq(Lines)
    BY <1>1, <2>2, <2>6
  <2>. QED  BY <2>7, <2>8, <2>9 DEF l
<1>4. CASE /\ call.op = "settlement" /\ {call.payer, call.payee} \subseteq Owners
           /\ call.amount \in Int
  <2>. DEFINE c == SettlementClearing(n)
  <2>1. l = SettlementLines(call.payer, call.payee, call.amount, c)
    BY <1>4 DEF LinesOf
  <2>2. c \in Accounts /\ own(c) \in SUBSET Accounts /\ c[2] = n
    BY AccountsDiffer DEF Accounts
  <2>3. (\A u : Wallet(u) # c) /\ \A u \in Owners : Wallet(u) \in own(c)
    BY AccountsDiffer
  <2>4. \A a : a[1] # "USER_WALLET" => \A u : a # Wallet(u)
    BY AccountsDiffer
  <2>. HIDE DEF c, l
  <2>. DEFINE A == own(c)
  <2>5. c \in A /\ Wallet(call.payer) \in A /\ Wallet(call.payee) \in A
    BY <1>4, <2>3
  <2>. HIDE DEF A
  <2>6. l \in Seq(LinesOn(A))
    BY <1>4, <2>1, <2>5, <2>3, SettlementJournal
  <2>7. \A a : a[1] # "USER_WALLET" => Balance(l, a) = 0
    BY <1>4, <2>1, <2>5, <2>3, <2>4, <2>6, SettlementJournal
  <2>8. ASSUME NEW i \in DOMAIN l, l[i].account[1] # "USER_WALLET"
        PROVE  l[i].account[2] = n
    <3>1. l[i].account = c \/ \E u \in Owners : l[i].account = Wallet(u)
      BY <1>2, <2>6 DEF A
    <3>2. \A u \in Owners : l[i].account # Wallet(u)
      BY <2>8, AccountsDiffer
    <3>. QED  BY <2>2, <3>1, <3>2
  <2>9. l \in Seq(Lines)
    BY <1>1, <2>2, <2>6 DEF A
  <2>. QED  BY <2>7, <2>8, <2>9 DEF l
<1>5. CASE call.op = "journal" /\ call.lines \in Seq(WalletLines)
  <2>. DEFINE W == {Wallet(u) : u \in Owners}
  <2>1. l = call.lines
    BY <1>5 DEF LinesOf
  <2>2. l \in Seq(LinesOn(W)) /\ W \in SUBSET Accounts
    BY <1>5, <2>1 DEF WalletLines, LinesOn, Accounts
  <2>. HIDE DEF l
  <2>3. \A i \in DOMAIN l : l[i].account[1] = "USER_WALLET"
    <3>1. ASSUME NEW i \in DOMAIN l PROVE l[i].account \in W
      <4>. HIDE DEF W
      <4>1. l[i] \in LinesOn(W)
        BY <2>2
      <4>. QED  BY <4>1 DEF LinesOn
    <3>. QED  BY <3>1, AccountsDiffer
  <2>4. \A a : a[1] # "USER_WALLET" => Balance(l, a) = 0
    <3>1. \A a : a[1] # "USER_WALLET" => On(l, a) = {}
      BY <2>3 DEF On
    <3>. QED  BY <3>1, NoneOn
  <2>5. l \in Seq(Lines)
    BY <1>1, <2>2
  <2>. QED  BY <2>3, <2>4, <2>5 DEF l
<1>. QED  BY <1>3, <1>4, <1>5, CallsAssumption

\* The lines of the next call.
LEMMA LinesAre ==
  ASSUME NEW call \in Calls, TypeOK, calls < MaxCalls
  PROVE  /\ calls + 1 \in CallIds
         /\ LinesOf(call, calls + 1) \in Seq(Lines)
<1>1. calls + 1 \in CallIds
  BY BoundsAssumption DEF TypeOK, CallIds
<1>. QED  BY <1>1, LinesOfCall

\* What a line is turned into, its links aside.
LEMMA BuiltAre ==
  ASSUME TypeOK, NEW lines \in Seq(Lines), NEW t \in 0 .. MaxTime
  PROVE  /\ DOMAIN Built(lines, t) = 1 .. Len(lines) /\ Len(lines) \in Nat
         /\ \A i \in 1 .. Len(lines) :
              /\ lines[i] \in Lines
              /\ Built(lines, t)[i].account = lines[i].account
              /\ Built(lines, t)[i].at = t
              /\ Built(lines, t)[i].hash = hashes + i
              /\ Built(lines, t)[i].prev = PrevHash(lines, i)
<1>1. Len(lines) \in Nat /\ DOMAIN lines = 1 .. Len(lines)
  OBVIOUS
<1>2. \A i \in 1 .. Len(lines) : lines[i] \in Lines
  BY ElementOfSeq
<1>. QED  BY <1>1, <1>2 DEF Built

\* The hash a line is chained to: that of the line before it on its account, or
\* the head of the account's chain.
LEMMA PrevIs ==
  ASSUME TypeOK, NEW lines \in Seq(Lines), NEW i \in 1 .. Len(lines)
  PROVE  /\ PrevHash(lines, i) \in Nat
         /\ Before(lines, i) = {} => PrevHash(lines, i) = heads[lines[i].account]
         /\ Before(lines, i) # {} =>
              \E m \in Before(lines, i) : /\ PrevHash(lines, i) = hashes + m
                                          /\ \A k \in Before(lines, i) : m >= k
<1>1. i \in Nat /\ Before(lines, i) \subseteq 1 .. i /\ hashes \in Nat
      /\ Before(lines, i) \subseteq Nat
  BY DEF Before, TypeOK
<1>2. heads[lines[i].account] \in Nat
  <2>1. lines[i] \in Lines
    BY ElementOfSeq
  <2>. QED  BY <2>1 DEF TypeOK, Lines, LinesOn
<1>3. CASE Before(lines, i) = {}
  BY <1>2, <1>3 DEF PrevHash
<1>4. CASE Before(lines, i) # {}
  <2>1. /\ Max(Before(lines, i)) \in Before(lines, i)
        /\ \A k \in Before(lines, i) : Max(Before(lines, i)) >= k
    BY <1>1, <1>4, MaxIs
  <2>2. PrevHash(lines, i) = hashes + Max(Before(lines, i))
    BY <1>4 DEF PrevHash
  <2>. QED  BY <1>1, <1>4, <2>1, <2>2
<1>. QED  BY <1>3, <1>4

\* The head of an account's chain becomes the hash of its last line.
LEMMA HeadsAre ==
  ASSUME TypeOK, NEW lines \in Seq(Lines)
  PROVE  /\ HeadsAfter(lines) \in [Accounts -> Nat]
         /\ \A a \in Accounts :
              /\ On(lines, a) = {} => HeadsAfter(lines)[a] = heads[a]
              /\ On(lines, a) # {} =>
                   \E m \in On(lines, a) : /\ HeadsAfter(lines)[a] = hashes + m
                                           /\ \A k \in On(lines, a) : m >= k
<1>1. Len(lines) \in Nat /\ DOMAIN lines = 1 .. Len(lines) /\ hashes \in Nat
  BY DEF TypeOK
<1>2. ASSUME NEW a \in Accounts, On(lines, a) # {}
      PROVE  /\ Max(On(lines, a)) \in On(lines, a)
             /\ \A k \in On(lines, a) : Max(On(lines, a)) >= k
             /\ Max(On(lines, a)) \in Nat
  <2>1. On(lines, a) \subseteq 1 .. Len(lines)
    BY <1>1 DEF On
  <2>2. /\ Max(On(lines, a)) \in On(lines, a)
        /\ \A k \in On(lines, a) : Max(On(lines, a)) >= k
    BY <1>1, <1>2, <2>1, MaxIs
  <2>. QED  BY <2>1, <2>2
<1>3. \A a \in Accounts : HeadsAfter(lines)[a] =
        IF On(lines, a) = {} THEN heads[a] ELSE hashes + Max(On(lines, a))
  BY DEF HeadsAfter
<1>4. HeadsAfter(lines) \in [Accounts -> Nat]
  <2>1. ASSUME NEW a \in Accounts
        PROVE  (IF On(lines, a) = {} THEN heads[a]
                                     ELSE hashes + Max(On(lines, a))) \in Nat
    BY <1>1, <1>2 DEF TypeOK
  <2>. QED  BY <2>1 DEF HeadsAfter
<1>. QED  BY <1>2, <1>3, <1>4

\* The entries built from lines with valid amounts.
LEMMA BuiltTyped ==
  ASSUME TypeOK, NEW lines \in Seq(Lines), NEW t \in 0 .. MaxTime,
         AmountsValid(lines)
  PROVE  Built(lines, t) \in Seq(Entries) /\ Len(Built(lines, t)) = Len(lines)
<1>1. Len(lines) \in Nat /\ DOMAIN lines = 1 .. Len(lines)
  OBVIOUS
<1>2. ASSUME NEW i \in 1 .. Len(lines)
      PROVE  [journal |-> calls + 1, account |-> lines[i].account,
              side |-> lines[i].side, amount |-> lines[i].amount,
              at |-> t, prev |-> PrevHash(lines, i), hash |-> hashes + i] \in Entries
  <2>1. lines[i] \in Lines /\ lines[i].amount >= 1
    BY <1>1, ElementOfSeq DEF AmountsValid
  <2>2. /\ lines[i].account \in Accounts /\ lines[i].side \in {"DEBIT", "CREDIT"}
        /\ lines[i].amount \in Nat \ {0}
    BY <2>1 DEF Lines, LinesOn
  <2>3. /\ t \in Nat /\ calls + 1 \in Nat /\ hashes + i \in Nat \ {0}
        /\ PrevHash(lines, i) \in Nat
    BY BoundsAssumption, PrevIs DEF TypeOK
  <2>. QED  BY <2>2, <2>3 DEF Entries
<1>3. Built(lines, t) \in [1 .. Len(lines) -> Entries]
  BY <1>1, <1>2 DEF Built
<1>. QED  BY <1>1, <1>3, LenProperties, IsASeq

\* The variables keep their types: in particular every recorded amount is a
\* whole number of cents, at least one.
LEMMA TypeStep ==
  ASSUME TypeOK, [Next]_vars
  PROVE  TypeOK'
<1>1. ASSUME NEW call \in Calls, Refuse(call) PROVE TypeOK'
  BY <1>1, BoundsAssumption DEF Refuse, TypeOK, Outcomes
<1>2. ASSUME NEW call \in Calls, Post(call) PROVE TypeOK'
  <2>. DEFINE lines == LinesOf(call, calls + 1)
  <2>1. lines \in Seq(Lines) /\ calls + 1 \in CallIds /\ AmountsValid(lines)
    BY <1>2, LinesAre DEF Post, PostAllowed
  <2>2. /\ \/ /\ \E t \in 0 .. MaxTime : entries' = entries \o Built(lines, t)
              /\ journals' = Append(journals, calls + 1)
           \/ UNCHANGED <<entries, journals>>
        /\ outcome' \in Outcomes
        /\ heads' = HeadsAfter(lines) /\ hashes' = hashes + Len(lines)
        /\ calls' = calls + 1 /\ calls < MaxCalls
        /\ \/ UNCHANGED rejected
           \/ rejected' = rejected
                \cup {<<calls + 1, lines[i].account>> : i \in DOMAIN lines}
    BY <1>2 DEF Post, Outcomes
  <2>. HIDE DEF lines
  <2>3. entries' \in Seq(Entries)
    BY <2>1, <2>2, BuiltTyped, ConcatProperties DEF TypeOK
  <2>4. journals' \in Seq(CallIds)
    <3>1. Append(journals, calls + 1) \in Seq(CallIds)
      BY <2>1, AppendProperties DEF TypeOK
    <3>. QED  BY <2>2, <3>1 DEF TypeOK
  <2>5. heads' \in [Accounts -> Nat]
    BY <2>1, <2>2, HeadsAre
  <2>6. hashes' \in Nat /\ calls' \in 0 .. MaxCalls
    BY <2>1, <2>2, LenProperties, BoundsAssumption DEF TypeOK
  <2>7. rejected' \subseteq CallIds \X Accounts
    <3>1. \A i \in 1 .. Len(lines) : lines[i] \in Lines
      BY <2>1, ElementOfSeq
    <3>2. \A i \in DOMAIN lines : lines[i].account \in Accounts
      BY <2>1, <3>1, LenProperties DEF Lines, LinesOn
    <3>. QED  BY <2>1, <2>2, <3>2 DEF TypeOK
  <2>. QED  BY <2>2, <2>3, <2>4, <2>5, <2>6, <2>7 DEF TypeOK
<1>3. CASE UNCHANGED vars
  BY <1>3 DEF vars, TypeOK
<1>. QED  BY <1>1, <1>2, <1>3 DEF Next, Finished

\* The types at the start.
LEMMA TypeInit == Init => TypeOK
<1>. SUFFICES ASSUME Init PROVE TypeOK
  OBVIOUS
<1>1. << >> \in Seq(Entries) /\ << >> \in Seq(CallIds)
  BY EmptySeq
<1>. QED  BY <1>1, BoundsAssumption DEF Init, TypeOK, Outcomes

\* The variables keep their types: every entry in the ledger has a positive
\* amount, an account and a time of its call (core/ledger_engine.py, post_journal).
THEOREM TypeCorrect == Spec => []TypeOK
<1>. QED  BY TypeInit, TypeStep, PTL DEF Spec

-----------------------------------------------------------------------------
(* The chains. *)

\* Among the first n entries, number h is the last one of account a; 0 if there
\* is none.
LatestOn(s, a, n, h) ==
  /\ h \in 0 .. n
  /\ h # 0 => s[h].account = a
  /\ \A j \in h + 1 .. n : s[j].account # a

\* x is the hash of the last one of account a among the first n entries.
Follows(s, a, n, x) ==
  \E h \in 0 .. n : LatestOn(s, a, n, h) /\ x = IF h = 0 THEN 0 ELSE s[h].hash

\* x is a hash of an entry that was thrown away.
LostIn(s, n, x) == x \in 1 .. n /\ \A i \in 1 .. Len(s) : s[i].hash # x
Lost(x) == LostIn(entries, hashes, x)

\* No two entries have the same hash; an entry is of a call that was made.
Hashed ==
  /\ \A i \in 1 .. Len(entries) : /\ entries[i].hash \in 1 .. hashes
                                  /\ entries[i].journal \in 1 .. calls
                                  /\ entries[i].at \in 0 .. MaxTime
  /\ \A i, k \in 1 .. Len(entries) : entries[i].hash = entries[k].hash => i = k

\* An entry links to the entry before it on its account, and the head is the
\* last one, unless these are lost.
Linked ==
  /\ \A i \in 1 .. Len(entries) :
       \/ Follows(entries, entries[i].account, i - 1, entries[i].prev)
       \/ Lost(entries[i].prev)
  /\ \A a \in Accounts :
       Follows(entries, a, Len(entries), heads[a]) \/ Lost(heads[a])

\* Only a rejected journal makes a head, or a link after it, a lost one.
Blamed ==
  /\ \A i \in 1 .. Len(entries) : Lost(entries[i].prev) =>
       \E r \in rejected : r[2] = entries[i].account /\ r[1] < entries[i].journal
  /\ \A a \in Accounts : Lost(heads[a]) => \E r \in rejected : r[2] = a

\* A rejected journal has made the head of its account a lost one, and if there
\* is an entry after it also a link.
Spoiled ==
  \A r \in rejected :
    /\ r[1] \in 1 .. calls /\ r[2] \in Accounts
    /\ \/ /\ Lost(heads[r[2]])
          /\ \A i \in 1 .. Len(entries) :
               entries[i].account = r[2] => entries[i].journal < r[1]
       \/ \E i \in 1 .. Len(entries) :
            entries[i].account = r[2] /\ Lost(entries[i].prev)

ChainInv == TypeOK /\ Hashed /\ Linked /\ Blamed /\ Spoiled

\* k entries more, those of the set W on account a: its last entry is the last
\* of these, or if there are none the one it was.
LEMMA LatestMoves ==
  ASSUME NEW n \in Nat, NEW k \in Nat, NEW s, NEW r, NEW a, NEW h, NEW W,
         \A i \in 1 .. n : r[i] = s[i],
         W \subseteq 1 .. k, \A j \in 1 .. k : r[n + j].account = a <=> j \in W,
         \/ W = {} /\ LatestOn(s, a, n, h)
         \/ \E q \in W : h = n + q /\ \A j \in W : q >= j
  PROVE  LatestOn(r, a, n + k, h)
<1>1. ASSUME NEW j \in n + 1 .. n + k
      PROVE  j - n \in 1 .. k /\ n + (j - n) = j
  OBVIOUS
<1>2. CASE W = {} /\ LatestOn(s, a, n, h)
  <2>1. h \in 0 .. n + k /\ (h # 0 => r[h].account = a)
    BY <1>2 DEF LatestOn
  <2>2. ASSUME NEW j \in h + 1 .. n + k PROVE r[j].account # a
    <3>1. CASE j \in 1 .. n
      BY <1>2, <2>1, <3>1 DEF LatestOn
    <3>2. CASE j \in n + 1 .. n + k
      <4>1. r[n + (j - n)].account # a
        BY <1>1, <1>2, <3>2
      <4>. QED  BY <1>1, <3>2, <4>1
    <3>. QED  BY <2>1, <3>1, <3>2
  <2>. QED  BY <2>1, <2>2 DEF LatestOn
<1>3. CASE \E q \in W : h = n + q /\ \A j \in W : q >= j
  <2>1. PICK q \in W : h = n + q /\ \A j \in W : q >= j
    BY <1>3
  <2>2. q \in 1 .. k /\ h \in 0 .. n + k /\ r[h].account = a
    BY <2>1
  <2>3. ASSUME NEW j \in h + 1 .. n + k PROVE r[j].account # a
    <3>1. j \in n + 1 .. n + k /\ ~(q >= j - n)
      BY <2>1, <2>2
    <3>2. r[n + (j - n)].account # a
      BY <1>1, <2>1, <3>1
    <3>. QED  BY <1>1, <3>1, <3>2
  <2>. QED  BY <2>2, <2>3 DEF LatestOn
<1>. QED  BY <1>2, <1>3

\* The entries of a ledger that is extended.
LEMMA Joined ==
  ASSUME NEW s \in Seq(Entries), NEW r \in Seq(Entries)
  PROVE  /\ Len(s \o r) = Len(s) + Len(r)
         /\ \A i \in 1 .. Len(s) : (s \o r)[i] = s[i]
         /\ \A k \in 1 .. Len(r) : (s \o r)[Len(s) + k] = r[k]
<1>1. Len(s) \in Nat /\ Len(r) \in Nat
  OBVIOUS
<1>2. /\ Len(s \o r) = Len(s) + Len(r)
      /\ \A i \in 1 .. Len(s) + Len(r) :
           (s \o r)[i] = IF i <= Len(s) THEN s[i] ELSE r[i - Len(s)]
  BY ConcatProperties
<1>3. ASSUME NEW i \in 1 .. Len(s) PROVE (s \o r)[i] = s[i]
  <2>1. i \in 1 .. Len(s) + Len(r) /\ i <= Len(s)
    BY <1>1
  <2>. QED  BY <1>2, <2>1
<1>4. ASSUME NEW k \in 1 .. Len(r) PROVE (s \o r)[Len(s) + k] = r[k]
  <2>1. /\ Len(s) + k \in 1 .. Len(s) + Len(r) /\ ~(Len(s) + k <= Len(s))
        /\ (Len(s) + k) - Len(s) = k
    BY <1>1
  <2>. QED  BY <1>2, <2>1
<1>. QED  BY <1>2, <1>3, <1>4

\* Entries stay as they are when others are added, and so do chains.
LEMMA FollowsStays ==
  ASSUME NEW s, NEW r, NEW n \in Nat, NEW a, NEW x,
         \A i \in 1 .. n : r[i] = s[i], Follows(s, a, n, x)
  PROVE  Follows(r, a, n, x)
<1>1. PICK h \in 0 .. n : LatestOn(s, a, n, h) /\ x = IF h = 0 THEN 0 ELSE s[h].hash
  BY DEF Follows
<1>2. h # 0 => h \in 1 .. n
  OBVIOUS
<1>3. \A j \in h + 1 .. n : j \in 1 .. n
  OBVIOUS
<1>4. LatestOn(r, a, n, h)
  BY <1>1, <1>2, <1>3 DEF LatestOn
<1>. QED  BY <1>1, <1>2, <1>4 DEF Follows

\* The lines that are posted as entries.
PostsLines(lines, t) ==
  /\ entries' = entries \o Built(lines, t) /\ AmountsValid(lines)
  /\ heads' = HeadsAfter(lines) /\ hashes' = hashes + Len(lines)
  /\ calls' = calls + 1 /\ rejected' = rejected

\* What the ledger has after it, the links aside.
LEMMA PostedAre ==
  ASSUME ChainInv, NEW lines \in Seq(Lines), NEW t \in 0 .. MaxTime,
         PostsLines(lines, t)
  PROVE  LET n == Len(entries)  m == Len(lines) IN
         /\ n \in Nat /\ m \in Nat /\ hashes \in Nat /\ calls \in Nat
         /\ Len(entries') = n + m /\ DOMAIN lines = 1 .. m
         /\ hashes' = hashes + m /\ calls' = calls + 1 /\ rejected' = rejected
         /\ heads' = HeadsAfter(lines)
         /\ \A i \in 1 .. n : entries'[i] = entries[i] /\ i \in 1 .. n + m
         /\ \A k \in 1 .. m :
              /\ n + k \in 1 .. n + m
              /\ lines[k].account \in Accounts
              /\ entries'[n + k].account = lines[k].account
              /\ entries'[n + k].at = t
              /\ entries'[n + k].hash = hashes + k
              /\ entries'[n + k].prev = PrevHash(lines, k)
              /\ entries'[n + k].journal = calls + 1
         /\ \A i \in 1 .. n + m : i \in 1 .. n \/ \E k \in 1 .. m : i = n + k
<1>. DEFINE n == Len(entries)  m == Len(lines)  b == Built(lines, t)
<1>1. /\ n \in Nat /\ m \in Nat /\ hashes \in Nat /\ calls \in Nat
      /\ entries \in Seq(Entries) /\ b \in Seq(Entries) /\ Len(b) = m
      /\ DOMAIN lines = 1 .. m
  BY BuiltTyped, LenProperties, BoundsAssumption DEF ChainInv, TypeOK, PostsLines
<1>2. /\ Len(entries') = n + m
      /\ \A i \in 1 .. n : entries'[i] = entries[i]
      /\ \A k \in 1 .. m : entries'[n + k] = b[k]
  <2>. HIDE DEF b
  <2>1. entries \in Seq(Entries) /\ b \in Seq(Entries)
    BY <1>1
  <2>2. entries' = entries \o b
    BY DEF b, PostsLines
  <2>3. /\ Len(entries \o b) = Len(entries) + Len(b)
        /\ \A i \in 1 .. Len(entries) : (entries \o b)[i] = entries[i]
        /\ \A k \in 1 .. Len(b) : (entries \o b)[Len(entries) + k] = b[k]
    BY <2>1, Joined, Zenon
  <2>4. Len(b) = m /\ n = Len(entries)
    BY <1>1
  <2>. HIDE DEF m, n
  <2>. QED  BY <2>2, <2>3, <2>4
<1>3. \A k \in 1 .. m :
        /\ lines[k].account \in Accounts
        /\ b[k].account = lines[k].account /\ b[k].at = t
        /\ b[k].hash = hashes + k /\ b[k].prev = PrevHash(lines, k)
        /\ b[k].journal = calls + 1
  <2>1. \A k \in 1 .. m :
          /\ lines[k] \in Lines
          /\ b[k].account = lines[k].account /\ b[k].at = t
          /\ b[k].hash = hashes + k /\ b[k].prev = PrevHash(lines, k)
    BY BuiltAre DEF ChainInv
  <2>2. \A k \in 1 .. m : b[k].journal = calls + 1
    BY <1>1 DEF Built
  <2>. HIDE DEF b
  <2>. QED  BY <2>1, <2>2 DEF Lines, LinesOn
<1>4. \A i \in 1 .. n + m : i \in 1 .. n \/ \E k \in 1 .. m : i = n + k
  <2>. HIDE DEF n, m
  <2>1. \A i \in 1 .. n + m : i \in 1 .. n \/ (i - n \in 1 .. m /\ i = n + (i - n))
    BY <1>1
  <2>. QED  BY <2>1
<1>5. /\ hashes' = hashes + m /\ calls' = calls + 1 /\ rejected' = rejected
      /\ heads' = HeadsAfter(lines)
  BY DEF PostsLines
<1>6. /\ \A i \in 1 .. n : i \in 1 .. n + m
      /\ \A k \in 1 .. m : n + k \in 1 .. n + m
  <2>. HIDE DEF n, m
  <2>. QED  BY <1>1
<1>. HIDE DEF b, n, m
<1>7. \A i \in 1 .. n : entries'[i] = entries[i] /\ i \in 1 .. n + m
  BY <1>2, <1>6
<1>8. \A k \in 1 .. m :
        /\ n + k \in 1 .. n + m
        /\ lines[k].account \in Accounts
        /\ entries'[n + k].account = lines[k].account
        /\ entries'[n + k].at = t
        /\ entries'[n + k].hash = hashes + k
        /\ entries'[n + k].prev = PrevHash(lines, k)
        /\ entries'[n + k].journal = calls + 1
  BY <1>2, <1>3, <1>6
<1>. QED  BY <1>1, <1>2, <1>4, <1>5, <1>7, <1>8 DEF n, m

\* What was lost stays lost, and what is lost then and was there before was lost
\* before.
LEMMA LostStays ==
  ASSUME ChainInv, NEW lines \in Seq(Lines), NEW t \in 0 .. MaxTime,
         PostsLines(lines, t), NEW x
  PROVE  /\ Lost(x) => LostIn(entries', hashes', x)
         /\ LostIn(entries', hashes', x) /\ x \in 0 .. hashes => Lost(x)
<1>. DEFINE n == Len(entries)  m == Len(lines)
<1>1. /\ n \in Nat /\ m \in Nat /\ hashes \in Nat
      /\ Len(entries') = n + m /\ hashes' = hashes + m
      /\ \A i \in 1 .. n : entries'[i] = entries[i] /\ i \in 1 .. n + m
      /\ \A k \in 1 .. m : entries'[n + k].hash = hashes + k
      /\ \A i \in 1 .. n + m : i \in 1 .. n \/ \E k \in 1 .. m : i = n + k
  BY PostedAre
<1>. HIDE DEF n, m
<1>2. ASSUME Lost(x) PROVE LostIn(entries', hashes', x)
  <2>1. x \in 1 .. hashes /\ \A i \in 1 .. n : entries[i].hash # x
    BY <1>2 DEF Lost, LostIn, n
  <2>2. ASSUME NEW i \in 1 .. n + m PROVE entries'[i].hash # x
    <3>1. CASE i \in 1 .. n
      BY <1>1, <2>1, <3>1
    <3>2. ASSUME NEW k \in 1 .. m, i = n + k PROVE entries'[i].hash # x
      <4>1. entries'[i].hash = hashes + k
        BY <1>1, <3>2
      <4>. QED  BY <1>1, <2>1, <4>1
    <3>. QED  BY <1>1, <3>1, <3>2
  <2>3. x \in 1 .. hashes'
    BY <1>1, <2>1
  <2>. QED  BY <1>1, <2>2, <2>3 DEF Lost, LostIn
<1>3. ASSUME LostIn(entries', hashes', x), x \in 0 .. hashes PROVE Lost(x)
  <2>1. x # 0 /\ \A i \in 1 .. n + m : entries'[i].hash # x
    <3>1. Len(entries') = n + m /\ hashes' \in Int
      BY <1>1
    <3>. QED  BY <1>3, <3>1 DEF LostIn
  <2>2. \A i \in 1 .. n : entries[i].hash # x
    BY <1>1, <2>1
  <2>. QED  BY <1>1, <1>3, <2>1, <2>2 DEF Lost, LostIn, n
<1>. QED  BY <1>2, <1>3

\* A link or head is a hash that was computed, or 0.
LEMMA LinksAreHashes ==
  ASSUME ChainInv
  PROVE  /\ \A i \in 1 .. Len(entries) : entries[i].prev \in 0 .. hashes
         /\ \A a \in Accounts : heads[a] \in 0 .. hashes
<1>1. Len(entries) \in Nat /\ hashes \in Nat
  BY LenProperties DEF ChainInv, TypeOK
<1>2. ASSUME NEW x, Lost(x) PROVE x \in 0 .. hashes
  BY <1>1, <1>2 DEF Lost, LostIn
<1>3. ASSUME NEW x, NEW a, NEW n \in 0 .. Len(entries), Follows(entries, a, n, x)
      PROVE  x \in 0 .. hashes
  <2>1. PICK h \in 0 .. n : x = IF h = 0 THEN 0 ELSE entries[h].hash
    BY <1>3 DEF Follows
  <2>2. h # 0 => h \in 1 .. Len(entries)
    BY <1>1
  <2>3. h # 0 => entries[h].hash \in 1 .. hashes
    BY <2>2 DEF ChainInv, Hashed
  <2>. QED  BY <1>1, <2>1, <2>3
<1>4. Len(entries) \in 0 .. Len(entries)
      /\ \A i \in 1 .. Len(entries) : i - 1 \in 0 .. Len(entries)
  BY <1>1
<1>. QED  BY <1>2, <1>3, <1>4 DEF ChainInv, Linked

\* A new link, or head, that is lost is the head that was, and that was lost.
LEMMA NewLost ==
  ASSUME ChainInv, NEW lines \in Seq(Lines), NEW t \in 0 .. MaxTime,
         PostsLines(lines, t), NEW a \in Accounts, NEW x,
         x = heads[a] \/ \E q \in 1 .. Len(lines) : x = hashes + q,
         LostIn(entries', hashes', x)
  PROVE  Lost(heads[a])
<1>1. CASE x = heads[a]
  BY <1>1, LostStays, LinksAreHashes
<1>2. ASSUME NEW q \in 1 .. Len(lines), x = hashes + q PROVE FALSE
  <2>1. /\ entries'[Len(entries) + q].hash = x
        /\ Len(entries) + q \in 1 .. Len(entries')
    BY <1>2, PostedAre
  <2>. QED  BY <2>1 DEF LostIn
<1>. QED  BY <1>1, <1>2

\* Where the links of new entries and the new heads come from: W are the lines on
\* account a among the first c, and x is the head that was, or the hash of the
\* last of these.
LEMMA NewLink ==
  ASSUME ChainInv, NEW lines \in Seq(Lines), NEW t \in 0 .. MaxTime,
         PostsLines(lines, t), NEW a \in Accounts, NEW c \in 0 .. Len(lines),
         NEW x, NEW W, W = {j \in 1 .. c : lines[j].account = a},
         \/ W = {} /\ x = heads[a]
         \/ \E q \in W : x = hashes + q /\ \A j \in W : q >= j
  PROVE  Follows(entries', a, Len(entries) + c, x) \/ LostIn(entries', hashes', x)
<1>. DEFINE n == Len(entries)  m == Len(lines)  r == entries'
<1>1. /\ n \in Nat /\ m \in Nat /\ hashes \in Nat /\ c \in Nat
      /\ Len(r) = n + m /\ \A i \in 1 .. n : r[i] = entries[i]
      /\ \A k \in 1 .. m : /\ r[n + k].account = lines[k].account
                           /\ r[n + k].hash = hashes + k
                           /\ n + k \in 1 .. Len(r)
  BY PostedAre
<1>0. \A j \in 1 .. c : j \in 1 .. m
  <2>. HIDE DEF m
  <2>1. c \in 0 .. m
    BY DEF m
  <2>. QED  BY <1>1, <2>1
<1>2. W \subseteq 1 .. c /\ \A j \in 1 .. c : r[n + j].account = a <=> j \in W
  <2>. HIDE DEF r, n, m
  <2>. QED  BY <1>0, <1>1
<1>. HIDE DEF r, n, m
<1>3. CASE \E q \in W : x = hashes + q /\ \A j \in W : q >= j
  <2>1. PICK q \in W : x = hashes + q /\ \A j \in W : q >= j
    BY <1>3
  <2>2. q \in 1 .. c /\ q \in 1 .. m
    BY <1>0, <1>2, <2>1
  <2>3. LatestOn(r, a, n + c, n + q)
    BY <1>0, <1>1, <1>2, <2>1, <2>2, LatestMoves
  <2>4. n + q \in 0 .. n + c /\ n + q # 0 /\ r[n + q].hash = x
    BY <1>1, <2>1, <2>2
  <2>5. Follows(r, a, n + c, x)
    BY <2>3, <2>4 DEF Follows
  <2>. QED  BY <2>5 DEF r, n
<1>4. CASE W = {} /\ x = heads[a]
  <2>1. CASE Lost(heads[a])
    BY <1>4, <2>1, LostStays
  <2>2. CASE Follows(entries, a, n, heads[a])
    <3>1. PICK h \in 0 .. n : /\ LatestOn(entries, a, n, h)
                              /\ x = IF h = 0 THEN 0 ELSE entries[h].hash
      BY <1>4, <2>2 DEF Follows
    <3>2. LatestOn(r, a, n + c, h)
      BY <1>1, <1>2, <1>4, <3>1, LatestMoves
    <3>3. h \in 0 .. n + c /\ (h # 0 => r[h] = entries[h])
      BY <1>1
    <3>4. Follows(r, a, n + c, x)
      BY <3>1, <3>2, <3>3 DEF Follows
    <3>. QED  BY <3>4 DEF r, n
  <2>3. Follows(entries, a, n, heads[a]) \/ Lost(heads[a])
    BY DEF ChainInv, Linked, n
  <2>. QED  BY <2>1, <2>2, <2>3
<1>. QED  BY <1>3, <1>4

\* The links of the entries that were there before are as they were.
LEMMA OldLinks ==
  ASSUME ChainInv, NEW lines \in Seq(Lines), NEW t \in 0 .. MaxTime,
         PostsLines(lines, t), NEW i \in 1 .. Len(entries)
  PROVE  /\ Follows(entries', entries[i].account, i - 1, entries[i].prev)
            \/ LostIn(entries', hashes', entries[i].prev)
         /\ LostIn(entries', hashes', entries[i].prev) => Lost(entries[i].prev)
<1>1. Len(entries) \in Nat /\ \A j \in 1 .. Len(entries) : entries'[j] = entries[j]
  BY PostedAre
<1>2. i - 1 \in Nat /\ \A j \in 1 .. i - 1 : entries'[j] = entries[j]
  BY <1>1
<1>. DEFINE a == entries[i].account  x == entries[i].prev  r == entries'
<1>3. Follows(entries, a, i - 1, x) \/ Lost(x)
  BY DEF ChainInv, Linked
<1>4. x \in 0 .. hashes
  BY LinksAreHashes
<1>. HIDE DEF a, x, r
<1>5. Follows(entries, a, i - 1, x) => Follows(r, a, i - 1, x)
  BY <1>2, FollowsStays DEF r
<1>. QED  BY <1>3, <1>4, <1>5, LostStays DEF a, x, r

\* Posting lines keeps the chains.
LEMMA PostChain ==
  ASSUME ChainInv, NEW lines \in Seq(Lines), NEW t \in 0 .. MaxTime,
         PostsLines(lines, t)
  PROVE  Hashed' /\ Linked' /\ Blamed' /\ Spoiled'
<1>. DEFINE n == Len(entries)  m == Len(lines)  r == entries'
<1>1. /\ n \in Nat /\ m \in Nat /\ hashes \in Nat /\ calls \in Nat
      /\ Len(r) = n + m /\ DOMAIN lines = 1 .. m
      /\ \A i \in 1 .. n : r[i] = entries[i] /\ i \in 1 .. n + m
      /\ \A k \in 1 .. m :
           /\ lines[k].account \in Accounts /\ r[n + k].account = lines[k].account
           /\ r[n + k].at = t /\ r[n + k].hash = hashes + k
           /\ r[n + k].prev = PrevHash(lines, k) /\ r[n + k].journal = calls + 1
           /\ n + k \in 1 .. n + m
      /\ \A i \in 1 .. n + m : i \in 1 .. n \/ \E k \in 1 .. m : i = n + k
      /\ hashes' = hashes + m /\ calls' = calls + 1 /\ rejected' = rejected
      /\ heads' = HeadsAfter(lines)
  BY PostedAre
<1>2. \A i \in 1 .. n :
        /\ \/ Follows(r, entries[i].account, i - 1, entries[i].prev)
           \/ LostIn(entries', hashes', entries[i].prev)
        /\ LostIn(entries', hashes', entries[i].prev) => Lost(entries[i].prev)
  BY OldLinks
<1>. HIDE DEF n, m, r
<1>3. ASSUME NEW k \in 1 .. m
      PROVE  LET a == lines[k].account  x == PrevHash(lines, k) IN
             /\ Follows(r, a, (n + k) - 1, x) \/ LostIn(entries', hashes', x)
             /\ LostIn(entries', hashes', x) => Lost(heads[a])
             /\ (\A j \in 1 .. k - 1 : lines[j].account # a) => x = heads[a]
  <2>. DEFINE a == lines[k].account  x == PrevHash(lines, k)  W == Before(lines, k)
              c == k - 1
  <2>1. a \in Accounts /\ c \in 0 .. m /\ n + c = (n + k) - 1
    BY <1>1
  <2>0. c \in 0 .. Len(lines)
    BY <2>1 DEF m
  <2>2. W = {j \in 1 .. c : lines[j].account = a}
    BY DEF Before
  <2>3. \/ W = {} /\ x = heads[a]
        \/ \E q \in W : x = hashes + q /\ \A j \in W : q >= j
    BY PrevIs DEF ChainInv, m
  <2>. HIDE DEF a, x, W, c
  <2>4. Follows(r, a, n + c, x) \/ LostIn(entries', hashes', x)
    BY <2>0, <2>1, <2>2, <2>3, NewLink DEF r, n
  <2>5. LostIn(entries', hashes', x) => Lost(heads[a])
    <3>1. W \subseteq 1 .. m
      BY <1>1, <2>1, <2>2
    <3>2. x = heads[a] \/ \E q \in 1 .. Len(lines) : x = hashes + q
      BY <2>3, <3>1 DEF m
    <3>. QED  BY <2>1, <3>2, NewLost
  <2>6. (\A j \in 1 .. c : lines[j].account # a) => x = heads[a]
    BY <2>2, <2>3
  <2>. QED  BY <2>1, <2>4, <2>5, <2>6 DEF a, x, c
<1>4. ASSUME NEW a \in Accounts
      PROVE  /\ Follows(r, a, n + m, heads'[a]) \/ LostIn(entries', hashes', heads'[a])
             /\ LostIn(entries', hashes', heads'[a]) => Lost(heads[a])
             /\ On(lines, a) = {} => heads'[a] = heads[a]
  <2>. DEFINE x == heads'[a]  W == On(lines, a)  c == m
  <2>1. c \in 0 .. Len(lines)
    BY <1>1 DEF m
  <2>2. W = {j \in 1 .. c : lines[j].account = a}
    BY <1>1 DEF On
  <2>3. /\ \/ W = {} /\ x = heads[a]
           \/ \E q \in W : x = hashes + q /\ \A j \in W : q >= j
        /\ W = {} => x = heads[a]
    BY <1>1, HeadsAre DEF ChainInv
  <2>. HIDE DEF x, W, c
  <2>4. Follows(r, a, n + c, x) \/ LostIn(entries', hashes', x)
    BY <2>1, <2>2, <2>3, NewLink DEF r, n
  <2>5. LostIn(entries', hashes', x) => Lost(heads[a])
    <3>1. x = heads[a] \/ \E q \in 1 .. Len(lines) : x = hashes + q
      BY <2>2, <2>3 DEF m, c
    <3>. QED  BY <3>1, NewLost
  <2>. QED  BY <2>3, <2>4, <2>5 DEF x, W, c
<1>5. Hashed'
  <2>1. /\ \A i \in 1 .. n : /\ entries[i].hash \in 1 .. hashes
                             /\ entries[i].journal \in 1 .. calls
                             /\ entries[i].at \in 0 .. MaxTime
        /\ \A i, k \in 1 .. n : entries[i].hash = entries[k].hash => i = k
    BY DEF ChainInv, Hashed, n
  <2>2. ASSUME NEW i \in 1 .. n + m
        PROVE  /\ r[i].hash \in 1 .. hashes' /\ r[i].journal \in 1 .. calls'
               /\ r[i].at \in 0 .. MaxTime
    <3>1. CASE i \in 1 .. n
      <4>1. /\ r[i].hash \in 1 .. hashes /\ r[i].journal \in 1 .. calls
            /\ r[i].at \in 0 .. MaxTime
        BY <1>1, <2>1, <3>1
      <4>2. 1 .. hashes \subseteq 1 .. hashes' /\ 1 .. calls \subseteq 1 .. calls'
        BY <1>1
      <4>. QED  BY <4>1, <4>2
    <3>2. ASSUME NEW k \in 1 .. m, i = n + k
          PROVE  /\ r[i].hash \in 1 .. hashes' /\ r[i].journal \in 1 .. calls'
                 /\ r[i].at \in 0 .. MaxTime
      <4>1. r[i].hash = hashes + k /\ r[i].journal = calls + 1 /\ r[i].at = t
        BY <1>1, <3>2
      <4>2. hashes + k \in 1 .. hashes' /\ calls + 1 \in 1 .. calls' /\ t \in 0 .. MaxTime
        BY <1>1
      <4>. QED  BY <4>1, <4>2, Zenon
    <3>. QED  BY <1>1, <3>1, <3>2
  <2>3. ASSUME NEW i \in 1 .. n + m, NEW k \in 1 .. n + m, r[i].hash = r[k].hash
        PROVE  i = k
    <3>1. CASE i \in 1 .. n
      <4>1. CASE k \in 1 .. n
        BY <1>1, <2>1, <2>3, <3>1, <4>1
      <4>2. CASE \E q \in 1 .. m : k = n + q
        <5>1. r[i].hash \in 1 .. hashes
          BY <1>1, <2>1, <3>1
        <5>. QED  BY <1>1, <2>3, <4>2, <5>1
      <4>. QED  BY <1>1, <4>1, <4>2
    <3>2. CASE \E q \in 1 .. m : i = n + q
      <4>1. CASE k \in 1 .. n
        <5>1. r[k].hash \in 1 .. hashes
          BY <1>1, <2>1, <4>1
        <5>. QED  BY <1>1, <2>3, <3>2, <5>1
      <4>2. CASE \E q \in 1 .. m : k = n + q
        <5>1. PICK p \in 1 .. m : i = n + p
          BY <3>2
        <5>2. PICK q \in 1 .. m : k = n + q
          BY <4>2
        <5>3. hashes + p = hashes + q
          BY <1>1, <2>3, <5>1, <5>2
        <5>. QED  BY <1>1, <5>1, <5>2, <5>3
      <4>. QED  BY <1>1, <4>1, <4>2
    <3>. QED  BY <1>1, <3>1, <3>2
  <2>. QED  BY <1>1, <2>2, <2>3 DEF Hashed, r
<1>6. Linked'
  <2>1. ASSUME NEW i \in 1 .. n + m
        PROVE  \/ Follows(r, r[i].account, i - 1, r[i].prev)
               \/ LostIn(entries', hashes', r[i].prev)
    <3>1. CASE i \in 1 .. n
      BY <1>1, <1>2, <3>1
    <3>2. ASSUME NEW k \in 1 .. m, i = n + k
          PROVE  \/ Follows(r, r[i].account, i - 1, r[i].prev)
                 \/ LostIn(entries', hashes', r[i].prev)
      <4>1. /\ r[i].account = lines[k].account /\ r[i].prev = PrevHash(lines, k)
            /\ i - 1 = (n + k) - 1
        BY <1>1, <3>2
      <4>. QED  BY <1>3, <4>1
    <3>. QED  BY <1>1, <3>1, <3>2
  <2>. QED  BY <1>1, <1>4, <2>1 DEF Linked, Lost, r
<1>7. Blamed'
  <2>1. \A a \in Accounts : Lost(heads[a]) => \E b \in rejected : b[2] = a
    BY DEF ChainInv, Blamed
  <2>2. ASSUME NEW i \in 1 .. n + m, LostIn(entries', hashes', r[i].prev)
        PROVE  \E b \in rejected : b[2] = r[i].account /\ b[1] < r[i].journal
    <3>1. CASE i \in 1 .. n
      <4>1. Lost(entries[i].prev)
        BY <1>1, <1>2, <2>2, <3>1
      <4>. QED  BY <1>1, <3>1, <4>1 DEF ChainInv, Blamed, n
    <3>2. ASSUME NEW k \in 1 .. m, i = n + k
          PROVE  \E b \in rejected : b[2] = r[i].account /\ b[1] < r[i].journal
      <4>1. /\ r[i].account = lines[k].account /\ r[i].journal = calls + 1
            /\ r[i].prev = PrevHash(lines, k) /\ lines[k].account \in Accounts
        BY <1>1, <3>2
      <4>2. Lost(heads[lines[k].account])
        BY <1>3, <2>2, <4>1
      <4>3. PICK b \in rejected : b[2] = lines[k].account
        BY <2>1, <4>1, <4>2
      <4>4. b[1] \in 1 .. calls
        BY <4>3 DEF ChainInv, Spoiled
      <4>. QED  BY <1>1, <4>1, <4>3, <4>4
    <3>. QED  BY <1>1, <3>1, <3>2
  <2>. QED  BY <1>1, <1>4, <2>1, <2>2 DEF Blamed, Lost, r
<1>8. Spoiled'
  <2>. SUFFICES ASSUME NEW b \in rejected
                PROVE  /\ b[1] \in 1 .. calls' /\ b[2] \in Accounts
                       /\ \/ /\ LostIn(entries', hashes', heads'[b[2]])
                             /\ \A i \in 1 .. n + m :
                                  r[i].account = b[2] => r[i].journal < b[1]
                          \/ \E i \in 1 .. n + m :
                               r[i].account = b[2] /\ LostIn(entries', hashes', r[i].prev)
    BY <1>1 DEF Spoiled, Lost, r
  <2>1. /\ b[1] \in 1 .. calls /\ b[2] \in Accounts
        /\ \/ /\ Lost(heads[b[2]])
              /\ \A i \in 1 .. n :
                   entries[i].account = b[2] => entries[i].journal < b[1]
           \/ \E i \in 1 .. n : entries[i].account = b[2] /\ Lost(entries[i].prev)
    BY DEF ChainInv, Spoiled, n
  <2>2. CASE \E i \in 1 .. n : entries[i].account = b[2] /\ Lost(entries[i].prev)
    <3>1. PICK i \in 1 .. n : entries[i].account = b[2] /\ Lost(entries[i].prev)
      BY <2>2
    <3>2. LostIn(entries', hashes', entries[i].prev)
      BY <3>1, LostStays
    <3>3. b[1] \in 1 .. calls'
      BY <1>1, <2>1
    <3>. QED  BY <1>1, <2>1, <3>1, <3>2, <3>3
  <2>3. CASE /\ Lost(heads[b[2]])
             /\ \A i \in 1 .. n :
                  entries[i].account = b[2] => entries[i].journal < b[1]
    <3>1. CASE On(lines, b[2]) = {}
      <4>1. heads'[b[2]] = heads[b[2]]
        BY <1>4, <2>1, <3>1
      <4>2. LostIn(entries', hashes', heads'[b[2]])
        BY <2>3, <4>1, LostStays
      <4>3. ASSUME NEW i \in 1 .. n + m, r[i].account = b[2] PROVE i \in 1 .. n
        <5>1. \A k \in 1 .. m : lines[k].account # b[2]
          BY <1>1, <3>1 DEF On
        <5>2. \A k \in 1 .. m : r[n + k].account = lines[k].account
          BY <1>1
        <5>3. i \in 1 .. n \/ \E k \in 1 .. m : i = n + k
          BY <1>1
        <5>. QED  BY <4>3, <5>1, <5>2, <5>3
      <4>4. b[1] \in 1 .. calls'
        BY <1>1, <2>1
      <4>. QED  BY <1>1, <2>1, <2>3, <4>2, <4>3, <4>4
    <3>2. CASE On(lines, b[2]) # {}
      <4>. DEFINE L == On(lines, b[2])
      <4>1. L \subseteq Nat /\ \A j \in 1 .. m : j \in L <=> lines[j].account = b[2]
        BY <1>1 DEF On
      <4>2. PICK k \in L : \A j \in L : k <= j
        <5>. HIDE DEF L
        <5>. QED  BY <3>2, <4>1, Least DEF L
      <4>3. k \in 1 .. m /\ lines[k].account = b[2]
        BY <1>1 DEF On
      <4>4. \A j \in 1 .. k - 1 : lines[j].account # b[2]
        BY <1>1, <4>1, <4>2, <4>3
      <4>5. PrevHash(lines, k) = heads[b[2]]
        BY <1>3, <4>3, <4>4
      <4>6. r[n + k].account = b[2] /\ r[n + k].prev = heads[b[2]] /\ n + k \in 1 .. n + m
        BY <1>1, <4>3, <4>5
      <4>7. LostIn(entries', hashes', r[n + k].prev)
        BY <2>3, <4>6, LostStays
      <4>8. b[1] \in 1 .. calls'
        BY <1>1, <2>1
      <4>. QED  BY <2>1, <4>6, <4>7, <4>8
    <3>. QED  BY <3>1, <3>2
  <2>. QED  BY <2>1, <2>2, <2>3
<1>. QED  BY <1>5, <1>6, <1>7, <1>8

\* Rejecting a journal keeps them too: the entries stay, the heads of its accounts
\* are lost.
LEMMA RejectChain ==
  ASSUME ChainInv, NEW lines \in Seq(Lines), UNCHANGED entries,
         heads' = HeadsAfter(lines), hashes' = hashes + Len(lines), calls' = calls + 1,
         rejected' = rejected \cup {<<calls + 1, lines[i].account>> : i \in DOMAIN lines}
  PROVE  Hashed' /\ Linked' /\ Blamed' /\ Spoiled'
<1>. DEFINE n == Len(entries)  m == Len(lines)
<1>1. /\ n \in Nat /\ m \in Nat /\ hashes \in Nat /\ calls \in Nat
      /\ DOMAIN lines = 1 .. m
      /\ \A i \in DOMAIN lines : lines[i].account \in Accounts
  <2>1. \A i \in DOMAIN lines : lines[i] \in Lines
    BY ElementOfSeq
  <2>. QED  BY <2>1, LenProperties, BoundsAssumption
            DEF ChainInv, TypeOK, Lines, LinesOn
<1>2. /\ \A i \in 1 .. n : /\ entries[i].hash \in 1 .. hashes
                           /\ entries[i].journal \in 1 .. calls
                           /\ entries[i].at \in 0 .. MaxTime
      /\ \A i, k \in 1 .. n : entries[i].hash = entries[k].hash => i = k
  BY DEF ChainInv, Hashed
<1>3. /\ \A x : Lost(x) => LostIn(entries', hashes', x)
      /\ \A x \in 0 .. hashes : LostIn(entries', hashes', x) => Lost(x)
      /\ \A q \in 1 .. m : LostIn(entries', hashes', hashes + q)
  <2>1. \A x : Lost(x) <=> x \in 1 .. hashes /\ \A i \in 1 .. n : entries[i].hash # x
    BY DEF Lost, LostIn
  <2>2. \A x : LostIn(entries', hashes', x) <=> /\ x \in 1 .. hashes + m
                                               /\ \A i \in 1 .. n : entries[i].hash # x
    BY DEF Lost, LostIn
  <2>. HIDE DEF n, m
  <2>. QED  BY <1>1, <1>2, <2>1, <2>2
<1>. HIDE DEF m
<1>4. ASSUME NEW a \in Accounts
      PROVE  \/ On(lines, a) = {} /\ heads'[a] = heads[a]
             \/ On(lines, a) # {} /\ LostIn(entries', hashes', heads'[a])
  <2>1. /\ On(lines, a) = {} => heads'[a] = heads[a]
        /\ On(lines, a) # {} => \E q \in On(lines, a) : heads'[a] = hashes + q
    BY HeadsAre DEF ChainInv
  <2>2. On(lines, a) \subseteq 1 .. m
    BY <1>1 DEF On
  <2>. QED  BY <1>3, <2>1, <2>2
<1>5. /\ \A i \in 1 .. n : entries[i].prev \in 0 .. hashes
      /\ \A a \in Accounts : heads[a] \in 0 .. hashes
  BY LinksAreHashes
<1>6. Hashed'
  <2>1. \A i \in 1 .. n : /\ entries[i].hash \in 1 .. hashes + m
                          /\ entries[i].journal \in 1 .. calls + 1
    <3>. HIDE DEF n
    <3>. QED  BY <1>1, <1>2
  <2>. QED  BY <1>2, <2>1 DEF Hashed, m
<1>7. Linked'
  <2>1. \A i \in 1 .. n :
          \/ Follows(entries, entries[i].account, i - 1, entries[i].prev)
          \/ LostIn(entries', hashes', entries[i].prev)
    BY <1>3 DEF ChainInv, Linked
  <2>2. \A a \in Accounts :
          Follows(entries, a, n, heads'[a]) \/ LostIn(entries', hashes', heads'[a])
    <3>1. \A a \in Accounts : Follows(entries, a, n, heads[a]) \/ Lost(heads[a])
      BY DEF ChainInv, Linked
    <3>. HIDE DEF n
    <3>. QED  BY <1>3, <1>4, <3>1
  <2>. QED  BY <2>1, <2>2 DEF Linked, Lost
<1>8. Blamed'
  <2>1. ASSUME NEW i \in 1 .. n, LostIn(entries', hashes', entries[i].prev)
        PROVE  \E b \in rejected' : b[2] = entries[i].account /\ b[1] < entries[i].journal
    <3>1. Lost(entries[i].prev)
      BY <1>3, <1>5, <2>1
    <3>. QED  BY <3>1 DEF ChainInv, Blamed
  <2>2. ASSUME NEW a \in Accounts, LostIn(entries', hashes', heads'[a])
        PROVE  \E b \in rejected' : b[2] = a
    <3>1. CASE On(lines, a) = {} /\ heads'[a] = heads[a]
      <4>1. Lost(heads[a])
        BY <1>3, <1>5, <2>2, <3>1
      <4>. QED  BY <4>1 DEF ChainInv, Blamed
    <3>2. CASE On(lines, a) # {}
      <4>1. PICK i \in DOMAIN lines : lines[i].account = a
        BY <3>2 DEF On
      <4>2. <<calls + 1, a>> \in rejected'
        BY <4>1
      <4>. QED  BY <4>2
    <3>. QED  BY <1>4, <3>1, <3>2
  <2>. QED  BY <2>1, <2>2 DEF Blamed, Lost
<1>9. Spoiled'
  <2>1. ASSUME NEW b \in rejected' \ rejected
        PROVE  /\ b[1] = calls + 1 /\ b[2] \in Accounts
               /\ LostIn(entries', hashes', heads'[b[2]])
    <3>1. PICK i \in DOMAIN lines : b = <<calls + 1, lines[i].account>>
      BY <2>1
    <3>2. b[1] = calls + 1 /\ b[2] = lines[i].account /\ b[2] \in Accounts
      BY <1>1, <3>1
    <3>3. On(lines, b[2]) # {}
      BY <3>2 DEF On
    <3>. QED  BY <1>4, <3>2, <3>3
  <2>2. ASSUME NEW b \in rejected
        PROVE  /\ b[1] \in 1 .. calls /\ b[2] \in Accounts
               /\ \/ /\ LostIn(entries', hashes', heads'[b[2]])
                     /\ \A i \in 1 .. n :
                          entries[i].account = b[2] => entries[i].journal < b[1]
                  \/ \E i \in 1 .. n :
                       /\ entries[i].account = b[2]
                       /\ LostIn(entries', hashes', entries[i].prev)
    <3>1. /\ b[1] \in 1 .. calls /\ b[2] \in Accounts
          /\ \/ /\ Lost(heads[b[2]])
                /\ \A i \in 1 .. n :
                     entries[i].account = b[2] => entries[i].journal < b[1]
             \/ \E i \in 1 .. n :
                  entries[i].account = b[2] /\ Lost(entries[i].prev)
      BY DEF ChainInv, Spoiled
    <3>2. Lost(heads[b[2]]) => LostIn(entries', hashes', heads'[b[2]])
      BY <1>3, <1>4, <3>1
    <3>. HIDE DEF n
    <3>. QED  BY <1>3, <3>1, <3>2
  <2>3. ASSUME NEW b \in rejected'
        PROVE  /\ b[1] \in 1 .. calls + 1 /\ b[2] \in Accounts
               /\ \/ /\ LostIn(entries', hashes', heads'[b[2]])
                     /\ \A i \in 1 .. n :
                          entries[i].account = b[2] => entries[i].journal < b[1]
                  \/ \E i \in 1 .. n :
                       /\ entries[i].account = b[2]
                       /\ LostIn(entries', hashes', entries[i].prev)
    <3>1. CASE b \in rejected
      <4>1. \A c \in 1 .. calls : c \in 1 .. calls + 1
        BY <1>1
      <4>. QED  BY <2>2, <3>1, <4>1
    <3>2. CASE b \notin rejected
      <4>1. /\ b[1] = calls + 1 /\ b[2] \in Accounts
            /\ LostIn(entries', hashes', heads'[b[2]])
        BY <2>1, <3>2
      <4>2. \A i \in 1 .. n : entries[i].journal < b[1]
        <5>. HIDE DEF n
        <5>. QED  BY <1>1, <1>2, <4>1
      <4>3. b[1] \in 1 .. calls + 1
        BY <1>1, <4>1
      <4>. QED  BY <4>1, <4>2, <4>3
    <3>. QED  BY <3>1, <3>2
  <2>. QED  BY <2>3 DEF Spoiled, Lost
<1>. QED  BY <1>6, <1>7, <1>8, <1>9

\* Every step keeps the chain invariant.
LEMMA ChainStep ==
  ASSUME ChainInv, [Next]_vars
  PROVE  ChainInv'
<1>1. TypeOK'
  BY TypeStep DEF ChainInv
<1>2. ASSUME NEW call \in Calls, Post(call)
      PROVE  Hashed' /\ Linked' /\ Blamed' /\ Spoiled'
  <2>. DEFINE lines == LinesOf(call, calls + 1)
  <2>1. /\ lines \in Seq(Lines) /\ AmountsValid(lines)
        /\ heads' = HeadsAfter(lines) /\ hashes' = hashes + Len(lines)
        /\ calls' = calls + 1
        /\ \/ /\ \E t \in 0 .. MaxTime : entries' = entries \o Built(lines, t)
              /\ rejected' = rejected
           \/ /\ entries' = entries
              /\ rejected' = rejected
                   \cup {<<calls + 1, lines[i].account>> : i \in DOMAIN lines}
    BY <1>2, LinesAre DEF ChainInv, Post, PostAllowed
  <2>. HIDE DEF lines
  <2>. QED  BY <2>1, PostChain, RejectChain DEF PostsLines
<1>3. CASE UNCHANGED <<entries, heads, hashes, rejected>> /\ calls' \in {calls, calls + 1}
  <2>1. calls \in Nat
    BY BoundsAssumption DEF ChainInv, TypeOK
  <2>2. \A c \in 1 .. calls : c \in 1 .. calls'
    BY <1>3, <2>1
  <2>3. \A x : LostIn(entries', hashes', x) <=> Lost(x)
    BY <1>3 DEF Lost, LostIn
  <2>4. Hashed'
    BY <1>3, <2>2 DEF ChainInv, Hashed
  <2>5. Linked' /\ Blamed' /\ Spoiled'
    BY <1>3, <2>2, <2>3 DEF ChainInv, Linked, Blamed, Spoiled, Lost, LostIn
  <2>. QED  BY <1>1, <2>4, <2>5 DEF ChainInv
<1>4. \/ \E call \in Calls : Post(call)
      \/ UNCHANGED <<entries, heads, hashes, rejected>> /\ calls' \in {calls, calls + 1}
  BY DEF Next, Refuse, Finished, vars
<1>. QED  BY <1>1, <1>2, <1>3, <1>4 DEF ChainInv

-----------------------------------------------------------------------------
(* The audit. *)

\* The entries, their accounts and their times.
LEMMA EntriesAre ==
  ASSUME ChainInv
  PROVE  /\ Len(entries) \in Nat /\ DOMAIN entries = 1 .. Len(entries)
         /\ \A i \in DOMAIN entries : /\ entries[i].account \in Accounts
                                      /\ entries[i].at \in 0 .. MaxTime
                                      /\ i \in Nat
<1>1. entries \in Seq(Entries)
  BY DEF ChainInv, TypeOK
<1>2. \A i \in 1 .. Len(entries) : entries[i] \in Entries
  BY <1>1, ElementOfSeq
<1>. QED  BY <1>1, <1>2, LenProperties DEF ChainInv, Hashed, Entries

NoLostLinks == \A i \in DOMAIN entries : ~Lost(entries[i].prev)

\* Entry i links to p, the entry before it on its account; 0 if there is none.
LinksTo(i, p) ==
  /\ p \in 0 .. i - 1
  /\ entries[i].prev = IF p = 0 THEN 0 ELSE entries[p].hash
  /\ p # 0 => /\ p \in DOMAIN entries /\ p < i
              /\ entries[p].account = entries[i].account
  /\ \A j \in DOMAIN entries :
       j < i /\ entries[j].account = entries[i].account => j <= p

\* An entry's link, if none is lost.
LEMMA LinksAre ==
  ASSUME ChainInv, NoLostLinks, NEW i \in DOMAIN entries
  PROVE  \E p : LinksTo(i, p)
<1>1. PICK p \in 0 .. i - 1 :
        /\ LatestOn(entries, entries[i].account, i - 1, p)
        /\ entries[i].prev = IF p = 0 THEN 0 ELSE entries[p].hash
  BY EntriesAre DEF ChainInv, Linked, NoLostLinks, Follows
<1>2. i \in 1 .. Len(entries) /\ Len(entries) \in Nat /\ DOMAIN entries = 1 .. Len(entries)
  BY EntriesAre
<1>3. p # 0 => p \in DOMAIN entries /\ p < i
  BY <1>2
<1>4. \A j \in DOMAIN entries :
        j < i /\ entries[j].account = entries[i].account => j <= p
  <2>1. \A j \in 1 .. Len(entries) : j < i => j <= p \/ j \in p + 1 .. i - 1
    BY <1>2
  <2>. QED  BY <1>1, <1>2, <2>1 DEF LatestOn
<1>. QED  BY <1>1, <1>3, <1>4 DEF LatestOn, LinksTo

\* The entries the audit expects before entry k have a last one, in the order
\* of the audit.
LEMMA LastAudited ==
  ASSUME ChainInv, NEW k \in DOMAIN entries, AuditedBefore(k) # {}
  PROVE  \E l \in AuditedBefore(k) : AuditedBefore(k) \ {l} = AuditedBefore(l)
<1>. DEFINE A == AuditedBefore(k)
            times == {entries[j].at : j \in A}
<1>1. A \subseteq DOMAIN entries /\ A # {}
  BY DEF AuditedBefore
<1>2. PICK top \in times : \A x \in times : top >= x
  <2>1. times \subseteq 0 .. MaxTime /\ times # {}
    BY <1>1, EntriesAre
  <2>. HIDE DEF times
  <2>. QED  BY <2>1, Greatest, BoundsAssumption
<1>. DEFINE late == {j \in A : entries[j].at = top}
<1>3. PICK l \in late : \A j \in late : l >= j
  <2>1. late \subseteq 0 .. Len(entries)
    BY <1>1, EntriesAre
  <2>2. late # {}
    BY <1>2
  <2>. HIDE DEF late
  <2>. QED  BY <2>1, <2>2, Greatest, EntriesAre
<1>4. /\ l \in A /\ l \in DOMAIN entries
      /\ \A j \in A : /\ entries[l].at >= entries[j].at
                      /\ entries[l].at = entries[j].at => l >= j
  BY <1>1, <1>2, <1>3
<1>5. ASSUME NEW j \in DOMAIN entries
      PROVE  j \in A /\ j # l <=> j \in AuditedBefore(l)
  <2>1. j \in A <=> /\ entries[j].account = entries[k].account
                    /\ \/ entries[j].at < entries[k].at
                       \/ entries[j].at = entries[k].at /\ j < k
    BY DEF AuditedBefore
  <2>2. /\ entries[l].account = entries[k].account
        /\ \/ entries[l].at < entries[k].at
           \/ entries[l].at = entries[k].at /\ l < k
    BY <1>4 DEF AuditedBefore
  <2>3. j \in AuditedBefore(l) <=> /\ entries[j].account = entries[l].account
                                   /\ \/ entries[j].at < entries[l].at
                                      \/ entries[j].at = entries[l].at /\ j < l
    BY <1>4 DEF AuditedBefore
  <2>4. /\ entries[j].at \in Int /\ entries[k].at \in Int /\ entries[l].at \in Int
        /\ j \in Int /\ k \in Int /\ l \in Int
    BY <1>4, EntriesAre
  <2>. QED  BY <1>4, <2>1, <2>2, <2>3, <2>4
<1>6. AuditedBefore(l) \subseteq DOMAIN entries
  BY DEF AuditedBefore
<1>. HIDE DEF A
<1>7. A \ {l} = AuditedBefore(l)
  BY <1>1, <1>5, <1>6
<1>. QED  BY <1>4, <1>7 DEF A

\* If the audit passes no link is lost: it is 0 or the hash of an entry.
LEMMA IntactLosesNothing ==
  ASSUME ChainInv, ChainIntact
  PROVE  NoLostLinks
<1>. SUFFICES ASSUME NEW i \in DOMAIN entries PROVE ~Lost(entries[i].prev)
  BY DEF NoLostLinks
<1>1. entries[i].prev = ExpectedPrev(i)
  BY DEF ChainIntact
<1>2. CASE AuditedBefore(i) = {}
  BY <1>1, <1>2 DEF ExpectedPrev, Lost, LostIn
<1>3. CASE AuditedBefore(i) # {}
  <2>. DEFINE l == CHOOSE j \in AuditedBefore(i) :
                     AuditedBefore(i) \ {j} = AuditedBefore(j)
  <2>1. l \in AuditedBefore(i)
    BY <1>3, LastAudited
  <2>2. entries[i].prev = entries[l].hash
    BY <1>1, <1>3 DEF ExpectedPrev
  <2>. HIDE DEF l
  <2>3. l \in 1 .. Len(entries)
    BY <2>1, EntriesAre DEF AuditedBefore
  <2>. QED  BY <2>2, <2>3 DEF Lost, LostIn
<1>. QED  BY <1>2, <1>3

\* In the order of the clock, the audit expects what the ledger has linked.
LEMMA OrderedIsIntact ==
  ASSUME ChainInv, NoLostLinks, InClockOrder
  PROVE  ChainIntact
<1>. SUFFICES ASSUME NEW i \in DOMAIN entries
              PROVE  entries[i].prev = ExpectedPrev(i)
  BY DEF ChainIntact
<1>1. ASSUME NEW j \in DOMAIN entries, NEW k \in DOMAIN entries
      PROVE  k \in AuditedBefore(j) <=> /\ k < j
                                        /\ entries[k].account = entries[j].account
  <2>1. /\ entries[j].at \in Int /\ entries[k].at \in Int
        /\ j \in Int /\ k \in Int
    BY EntriesAre
  <2>2. /\ j < k /\ entries[j].account = entries[k].account =>
             entries[j].at <= entries[k].at
        /\ k < j /\ entries[k].account = entries[j].account =>
             entries[k].at <= entries[j].at
    BY DEF InClockOrder
  <2>3. k \in AuditedBefore(j) <=> /\ entries[k].account = entries[j].account
                                   /\ \/ entries[k].at < entries[j].at
                                      \/ entries[k].at = entries[j].at /\ k < j
    BY DEF AuditedBefore
  <2>. QED  BY <2>1, <2>2, <2>3
<1>2. AuditedBefore(i) \subseteq DOMAIN entries
  BY DEF AuditedBefore
<1>0. PICK p : LinksTo(i, p)
  BY LinksAre
<1>3. CASE p = 0
  <2>1. AuditedBefore(i) = {}
    <3>1. \A k \in DOMAIN entries : k \notin AuditedBefore(i)
      <4>1. SUFFICES ASSUME NEW k \in DOMAIN entries, k < i,
                            entries[k].account = entries[i].account
                     PROVE  FALSE
        BY <1>1
      <4>2. k <= 0
        BY <1>0, <1>3, <4>1 DEF LinksTo
      <4>. QED  BY <4>2, EntriesAre
    <3>. QED  BY <1>2, <3>1
  <2>. QED  BY <1>0, <1>3, <2>1 DEF ExpectedPrev, LinksTo
<1>4. CASE p # 0
  <2>1. /\ p \in DOMAIN entries /\ p < i /\ entries[i].prev = entries[p].hash
        /\ entries[p].account = entries[i].account
        /\ p \in AuditedBefore(i)
    BY <1>0, <1>1, <1>4 DEF LinksTo
  <2>2. PICK l \in AuditedBefore(i) : AuditedBefore(i) \ {l} = AuditedBefore(l)
    BY <2>1, LastAudited
  <2>3. ASSUME NEW k \in AuditedBefore(i), AuditedBefore(i) \ {k} = AuditedBefore(k)
        PROVE  k = p
    <3>1. k \in DOMAIN entries /\ k <= p
      BY <1>0, <1>1, <1>2 DEF LinksTo
    <3>2. CASE k # p
      <4>1. p \in AuditedBefore(k)
        BY <2>1, <2>3, <3>2
      <4>2. p < k
        BY <1>1, <2>1, <3>1, <4>1
      <4>. QED  BY <2>1, <3>1, <4>2, EntriesAre
    <3>. QED  BY <3>2
  <2>4. (CHOOSE k \in AuditedBefore(i) : AuditedBefore(i) \ {k} = AuditedBefore(k)) = p
    <3>1. \E k \in AuditedBefore(i) : AuditedBefore(i) \ {k} = AuditedBefore(k)
      BY <2>2
    <3>. QED  BY <2>3, <3>1
  <2>5. AuditedBefore(i) # {}
    BY <2>1
  <2>. QED  BY <2>1, <2>4, <2>5 DEF ExpectedPrev
<1>. QED  BY <1>3, <1>4

\* If the audit passes, no entry is older than the one it links to.
LEMMA LinksAreInOrder ==
  ASSUME ChainInv, ChainIntact, NEW k \in DOMAIN entries,
         NEW p \in DOMAIN entries, entries[k].prev = entries[p].hash
  PROVE  entries[p].at <= entries[k].at
<1>1. entries[k].prev = ExpectedPrev(k) /\ entries[p].hash # 0
  BY EntriesAre DEF ChainIntact, ChainInv, Hashed
<1>2. AuditedBefore(k) # {}
  BY <1>1 DEF ExpectedPrev
<1>. DEFINE l == CHOOSE j \in AuditedBefore(k) :
                   AuditedBefore(k) \ {j} = AuditedBefore(j)
<1>3. l \in AuditedBefore(k)
  BY <1>2, LastAudited
<1>4. entries[k].prev = entries[l].hash
  BY <1>1, <1>2 DEF ExpectedPrev
<1>. HIDE DEF l
<1>5. l \in DOMAIN entries /\ entries[l].at <= entries[k].at
  <2>1. l \in DOMAIN entries
    BY <1>3 DEF AuditedBefore
  <2>2. entries[l].at < entries[k].at \/ entries[l].at = entries[k].at
    BY <1>3 DEF AuditedBefore
  <2>. QED  BY <2>1, <2>2, EntriesAre
<1>6. l = p
  BY <1>4, <1>5, EntriesAre DEF ChainInv, Hashed
<1>. QED  BY <1>5, <1>6

\* Link by link, the entries of an account are in the order of the clock.
LEMMA IntactIsOrdered ==
  ASSUME ChainInv, ChainIntact
  PROVE  InClockOrder
<1>. DEFINE Late(k) == \E i \in DOMAIN entries :
                         /\ i < k /\ entries[i].account = entries[k].account
                         /\ ~(entries[i].at <= entries[k].at)
            T == {k \in DOMAIN entries : Late(k)}
<1>1. CASE T = {}
  BY <1>1 DEF InClockOrder
<1>2. CASE T # {}
  <2>1. T \subseteq Nat
    BY EntriesAre
  <2>2. PICK k \in T : \A j \in T : k <= j
    <3>. HIDE DEF T
    <3>. QED  BY <1>2, <2>1, Least
  <2>3. PICK i \in DOMAIN entries : /\ i < k /\ entries[i].account = entries[k].account
                                    /\ ~(entries[i].at <= entries[k].at)
    BY <2>2
  <2>0. PICK p : LinksTo(k, p)
    BY <2>2, IntactLosesNothing, LinksAre
  <2>4. k \in DOMAIN entries /\ i <= p /\ p # 0
    <3>1. k \in DOMAIN entries
      BY <2>2
    <3>2. i <= p
      BY <2>0, <2>3, <3>1 DEF LinksTo
    <3>3. i # 0 /\ i \in Nat /\ p \in Int
      BY <2>0, <3>1, EntriesAre DEF LinksTo
    <3>. QED  BY <3>1, <3>2, <3>3
  <2>5. /\ p \in DOMAIN entries /\ p < k
        /\ entries[p].account = entries[k].account
        /\ entries[k].prev = entries[p].hash
    BY <2>0, <2>4 DEF LinksTo
  <2>6. entries[p].at <= entries[k].at
    BY <2>4, <2>5, LinksAreInOrder
  <2>7. /\ entries[i].at \in Int /\ entries[k].at \in Int /\ entries[p].at \in Int
        /\ p \in Int /\ k \in Int /\ i \in Int
    BY <2>4, <2>5, EntriesAre
  <2>8. i # p /\ i < p
    BY <2>3, <2>4, <2>6, <2>7
  <2>9. ~(entries[i].at <= entries[p].at)
    BY <2>3, <2>6, <2>7
  <2>10. p \in T
    BY <2>3, <2>5, <2>8, <2>9
  <2>11. k <= p
    BY <2>2, <2>10
  <2>. QED  BY <2>5, <2>7, <2>11
<1>. QED  BY <1>1, <1>2

\* A link is lost if and only if an entry followed a rejected journal.
LEMMA LostLinksAre ==
  ASSUME ChainInv
  PROVE  NoLostLinks <=> NothingAfterRejected
<1>1. ASSUME NoLostLinks PROVE NothingAfterRejected
  BY <1>1, EntriesAre DEF ChainInv, Spoiled, NoLostLinks, NothingAfterRejected
<1>2. ASSUME NothingAfterRejected, NEW i \in DOMAIN entries, Lost(entries[i].prev)
      PROVE  FALSE
  <2>1. i \in 1 .. Len(entries)
    BY EntriesAre
  <2>2. PICK r \in rejected : r[2] = entries[i].account /\ r[1] < entries[i].journal
    BY <1>2, <2>1 DEF ChainInv, Blamed
  <2>3. entries[i].journal < r[1]
    BY <1>2, <2>2 DEF NothingAfterRejected
  <2>4. r[1] \in Int /\ entries[i].journal \in Int
    BY <2>1 DEF ChainInv, Spoiled, Hashed
  <2>. QED  BY <2>2, <2>3, <2>4
<1>. QED  BY <1>1, <1>2 DEF NoLostLinks

\* For any calls at any times, balanced or not: the audit of an untouched ledger
\* passes if and only if the clock did not go back between two entries of an
\* account and no entry followed a rejected journal on its account.
THEOREM AuditIsTheClock == Spec => []ChainHolds
<1>1. Init => ChainInv
  <2>. SUFFICES ASSUME Init PROVE ChainInv
    OBVIOUS
  <2>1. Len(entries) = 0 /\ rejected = {} /\ \A a \in Accounts : heads[a] = 0
    BY EmptySeq DEF Init
  <2>2. 1 .. 0 = {} /\ 0 + 1 .. 0 = {} /\ 0 \in 0 .. 0 /\ \A n : 0 \notin 1 .. n
    OBVIOUS
  <2>3. \A a \in Accounts : Follows(entries, a, 0, 0)
    BY <2>2 DEF Follows, LatestOn
  <2>4. Hashed /\ Linked /\ Blamed /\ Spoiled
    BY <2>1, <2>2, <2>3 DEF Hashed, Linked, Blamed, Spoiled, Lost, LostIn
  <2>. QED  BY <2>4, TypeInit DEF ChainInv
<1>2. ChainInv => ChainHolds
  BY OrderedIsIntact, IntactIsOrdered, IntactLosesNothing, LostLinksAre DEF ChainHolds
<1>. QED  BY <1>1, <1>2, ChainStep, PTL DEF Spec

-----------------------------------------------------------------------------
(* The clearing accounts. *)

\* A clearing account is only touched by the journal it is named after, and
\* has no balance between two calls.
ClearInv ==
  /\ \A i \in DOMAIN entries :
       entries[i].account[1] # "USER_WALLET" =>
         entries[i].account[2] = entries[i].journal
  /\ \A a \in Accounts : a[1] # "USER_WALLET" => Balance(entries, a) = 0

\* An entry has the account, side and amount of its line.
LEMMA BuiltLines ==
  ASSUME NEW lines \in Seq(Lines), NEW t
  PROVE  /\ DOMAIN Built(lines, t) = DOMAIN lines
         /\ \A i \in DOMAIN lines :
              /\ Built(lines, t)[i].account = lines[i].account
              /\ Built(lines, t)[i].side = lines[i].side
              /\ Built(lines, t)[i].amount = lines[i].amount
              /\ Built(lines, t)[i].journal = calls + 1
BY DEF Built

\* Posting a journal adds the balances of its lines.
LEMMA PostBalances ==
  ASSUME TypeOK, NEW lines \in Seq(Lines), NEW t \in 0 .. MaxTime,
         AmountsValid(lines), NEW a
  PROVE  Balance(entries \o Built(lines, t), a) = Balance(entries, a) + Balance(lines, a)
<1>. DEFINE b == Built(lines, t)
<1>1. b \in Seq(Entries) /\ entries \in Seq(Entries)
  BY BuiltTyped DEF TypeOK
<1>2. WholeCents(Entries)
  BY DEF WholeCents, Entries
<1>3. Balance(b, a) = Balance(lines, a)
  BY BuiltLines, SameBalance
<1>. HIDE DEF b
<1>4. Balance(entries \o b, a) = Balance(entries, a) + Balance(b, a)
  BY <1>1, <1>2, BalanceOfJoin
<1>. QED  BY <1>3, <1>4 DEF b

\* Every step keeps the clearing accounts closed.
LEMMA ClearStep ==
  ASSUME TypeOK, ClearInv, [Next]_vars
  PROVE  ClearInv'
<1>1. CASE UNCHANGED entries
  BY <1>1 DEF ClearInv
<1>2. ASSUME NEW call \in Calls, Post(call), ~UNCHANGED entries PROVE ClearInv'
  <2>. DEFINE n == calls + 1  lines == LinesOf(call, n)
  <2>1. PICK t \in 0 .. MaxTime : entries' = entries \o Built(lines, t)
    BY <1>2 DEF Post
  <2>2. /\ lines \in Seq(Lines) /\ AmountsValid(lines) /\ n \in CallIds
        /\ \A i \in DOMAIN lines :
             lines[i].account[1] # "USER_WALLET" => lines[i].account[2] = n
        /\ \A a : a[1] # "USER_WALLET" => Balance(lines, a) = 0
    <3>1. AmountsValid(lines) /\ n \in CallIds
      BY <1>2, LinesAre DEF Post, PostAllowed
    <3>2. call \in Calls /\ n \in CallIds
      BY <3>1
    <3>. HIDE DEF n
    <3>. QED  BY <3>1, <3>2, LinesOfCall
  <2>. HIDE DEF lines
  <2>. DEFINE b == Built(lines, t)
  <2>3. /\ b \in Seq(Entries) /\ entries \in Seq(Entries)
        /\ DOMAIN b = DOMAIN lines
        /\ \A k \in DOMAIN lines : b[k].account = lines[k].account /\ b[k].journal = n
    BY <2>2, BuiltTyped, BuiltLines DEF TypeOK
  <2>. HIDE DEF b, n
  <2>4. ASSUME NEW i \in DOMAIN entries', entries'[i].account[1] # "USER_WALLET"
        PROVE  entries'[i].account[2] = entries'[i].journal
    <3>1. entries' = entries \o b
      BY <2>1 DEF b, n
    <3>2. \/ i \in DOMAIN entries /\ entries'[i] = entries[i]
          \/ \E k \in DOMAIN b : entries'[i] = b[k]
      <4>1. i \in 1 .. Len(entries) + Len(b) /\ Len(entries) \in Nat /\ Len(b) \in Nat
        BY <2>3, <3>1
      <4>2. CASE i <= Len(entries)
        BY <2>3, <3>1, <4>1, <4>2
      <4>3. CASE i > Len(entries)
        <5>1. i - Len(entries) \in DOMAIN b /\ Len(entries) + (i - Len(entries)) = i
          BY <2>3, <4>1, <4>3
        <5>2. (entries \o b)[i] = b[i - Len(entries)]
          BY <2>3, <4>1, <4>3
        <5>. QED  BY <3>1, <5>1, <5>2
      <4>. QED  BY <4>1, <4>2, <4>3
    <3>3. CASE i \in DOMAIN entries /\ entries'[i] = entries[i]
      BY <2>4, <3>3 DEF ClearInv
    <3>4. CASE \E k \in DOMAIN b : entries'[i] = b[k]
      BY <2>2, <2>3, <2>4, <3>4
    <3>. QED  BY <3>2, <3>3, <3>4
  <2>5. ASSUME NEW a \in Accounts, a[1] # "USER_WALLET" PROVE Balance(entries', a) = 0
    <3>1. Balance(entries', a) = Balance(entries, a) + Balance(lines, a)
      BY <2>1, <2>2, PostBalances DEF n
    <3>2. Balance(entries, a) = 0 /\ Balance(lines, a) = 0
      BY <2>2, <2>5 DEF ClearInv
    <3>. QED  BY <3>1, <3>2
  <2>. QED  BY <2>4, <2>5 DEF ClearInv
<1>. QED  BY <1>1, <1>2 DEF Next, Refuse, Finished, vars

\* For any calls: every clearing account is opened and closed within one
\* journal, and keeps no balance.
THEOREM ClearingCloses == Spec => []ClearingAccountsClose
<1>1. Init => ClearInv
  <2>. SUFFICES ASSUME Init PROVE ClearInv
    OBVIOUS
  <2>1. entries = << >>
    BY DEF Init
  <2>2. \A a : Balance(entries, a) = 0
    BY <2>1, NoLines
  <2>. QED  BY <2>1, <2>2 DEF ClearInv
<1>2. ClearInv => ClearingAccountsClose
  <2>. SUFFICES ASSUME ClearInv, NEW a \in Accounts, a[1] # "USER_WALLET"
                PROVE  /\ Balance(entries, a) = 0
                       /\ \A i, k \in On(entries, a) :
                            entries[i].journal = entries[k].journal
    BY DEF ClearingAccountsClose
  <2>1. \A i \in On(entries, a) : entries[i].journal = a[2]
    BY DEF ClearInv, On
  <2>. QED  BY <2>1 DEF ClearInv
<1>. QED  BY <1>1, <1>2, TypeInit, TypeStep, ClearStep, PTL DEF Spec
=============================================================================
