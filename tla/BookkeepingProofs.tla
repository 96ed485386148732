-------------------------- MODULE BookkeepingProofs ------------------------
(***************************************************************************)
(* What is true of the money functions of Bookkeeping for every input: an  *)
(* expense's journal balances and empties its clearing account, its net    *)
(* balances are those of its journal, and each way to split an expense     *)
(* shares its total.  All rest on sums over finite sets, which the code    *)
(* takes with loops.                                                       *)
(***************************************************************************)
EXTENDS Bookkeeping, SequenceTheorems, FiniteSetTheorems, WellFoundedInduction,
        TLAPS

-----------------------------------------------------------------------------
(* Induction, over sets of numbers and of subsets. *)

\* One number is below another.
Below == {p \in Nat \X Nat : p[1] < p[2]}

\* A set of natural numbers has a least element.
LEMMA Least ==
  ASSUME NEW T, T \subseteq Nat, T # {}
  PROVE  \E x \in T : \A y \in T : x <= y
<1>1. IsWellFoundedOn(Below, Nat)
  BY NatLessThanWellFounded DEF OpToRel, Below
<1>2. \E x \in T : \A y \in T : <<y, x>> \notin Below
  BY <1>1, WFMin
<1>3. \A x, y \in Nat : <<y, x>> \notin Below => x <= y
  BY DEF Below
<1>. QED  BY <1>2, <1>3

\* Induction over the natural numbers, for a set of them.
LEMMA Induction ==
  ASSUME NEW P, 0 \in P, \A n \in Nat : n \in P => n + 1 \in P
  PROVE  \A n \in Nat : n \in P
<1>. DEFINE W == Nat \ P
<1>1. SUFFICES ASSUME W # {} PROVE FALSE
  OBVIOUS
<1>2. PICK n \in W : \A m \in W : n <= m
  BY <1>1, Least
<1>3. n # 0 /\ n - 1 \in Nat /\ (n - 1) + 1 = n /\ ~(n <= n - 1)
  BY <1>2
<1>4. n - 1 \in P
  BY <1>2, <1>3
<1>. QED  BY <1>2, <1>3, <1>4

\* Induction over the subsets of a finite set, for a set of them.
LEMMA SetInduction ==
  ASSUME NEW S, IsFiniteSet(S), NEW P, {} \in P,
         \A T \in SUBSET S : T \in P => \A x \in S \ T : T \cup {x} \in P
  PROVE  \A T \in SUBSET S : T \in P
<1>. DEFINE N == {n \in Nat : \A T \in SUBSET S : Cardinality(T) = n => T \in P}
<1>1. \A T \in SUBSET S : IsFiniteSet(T) /\ Cardinality(T) \in Nat
  BY FS_Subset, FS_CardinalityType
<1>2. 0 \in N
  BY <1>1, FS_EmptySet
<1>3. ASSUME NEW n \in Nat, n \in N PROVE n + 1 \in N
  <2>1. ASSUME NEW T \in SUBSET S, Cardinality(T) = n + 1 PROVE T \in P
    <3>1. T # {}
      <4>1. Cardinality({}) = 0 /\ n + 1 # 0
        BY FS_EmptySet
      <4>. QED  BY <2>1, <4>1
    <3>2. PICK x : x \in T
      BY <3>1
    <3>3. Cardinality(T \ {x}) = n /\ T \ {x} \in SUBSET S
      BY <1>1, <2>1, <3>2, FS_RemoveElement
    <3>4. T \ {x} \in P /\ x \in S \ (T \ {x}) /\ T = (T \ {x}) \cup {x}
      BY <1>3, <3>2, <3>3
    <3>. QED  BY <3>3, <3>4
  <2>. QED  BY <2>1
<1>. HIDE DEF N
<1>4. \A n \in Nat : n \in N
  BY <1>2, <1>3, Induction
<1>. QED  BY <1>1, <1>4 DEF N

-----------------------------------------------------------------------------
(* Sums.  SumFunctionOnSet(f, S) adds up f over S through a function on the  *)
(* subsets of S, which CHOOSE takes from the equation it has to satisfy.     *)

Pick(s) == CHOOSE x \in s : TRUE
Entry(f, g, s) == IF s = {} THEN 0 ELSE f[Pick(s)] + g[s \ {Pick(s)}]
Table(f, S) == CHOOSE g : g = [s \in SUBSET S |-> Entry(f, g, s)]
Sum(f, S) == SumFunctionOnSet(f, S)

\* Sum is the entry of its table, the function that FoldFunctionOnSet defines.
LEMMA SumIsTable == ASSUME NEW f, NEW S PROVE Sum(f, S) = Table(f, S)[S]
BY DEF Sum, SumFunctionOnSet, FoldFunctionOnSet, MapThenFoldSet, Table, Entry, Pick

\* What is left of a finite set without the element the fold takes first.
LEMMA Removal ==
  ASSUME NEW S, IsFiniteSet(S), S # {}
  PROVE  /\ Pick(S) \in S
         /\ Cardinality(S) \in Nat \ {0}
         /\ IsFiniteSet(S \ {Pick(S)})
         /\ Cardinality(S \ {Pick(S)}) = Cardinality(S) - 1
<1>1. Pick(S) \in S
  BY DEF Pick
<1>. QED  BY <1>1, FS_RemoveElement, FS_CardinalityType, FS_EmptySet

\* The table of sums exists: it satisfies the recursion that defines it.
LEMMA TableDef ==
  ASSUME NEW f, NEW S, IsFiniteSet(S)
  PROVE  \A s \in SUBSET S : Table(f, S)[s] = Entry(f, Table(f, S), s)
<1>. DEFINE Upto(g, n) == \A s \in SUBSET S : Cardinality(s) <= n => g[s] = Entry(f, g, s)
            N == {n \in Nat : \E g : Upto(g, n)}
<1>1. \A T \in SUBSET S : IsFiniteSet(T) /\ Cardinality(T) \in Nat
  BY FS_Subset, FS_CardinalityType
<1>2. 0 \in N
  <2>. DEFINE g == [s \in SUBSET S |-> 0]
  <2>1. ASSUME NEW s \in SUBSET S, Cardinality(s) <= 0 PROVE g[s] = Entry(f, g, s)
    <3>1. s = {}
      BY <1>1, <2>1, FS_EmptySet
    <3>. QED  BY <3>1 DEF Entry
  <2>. HIDE DEF g
  <2>. QED  BY <2>1
<1>3. ASSUME NEW n \in Nat, n \in N PROVE n + 1 \in N
  <2>1. PICK g : Upto(g, n)
    BY <1>3
  <2>. DEFINE h == [s \in SUBSET S |-> Entry(f, g, s)]
  <2>2. ASSUME NEW s \in SUBSET S, Cardinality(s) <= n + 1
        PROVE  h[s] = Entry(f, h, s)
    <3>1. CASE s = {}
      BY <3>1 DEF Entry
    <3>2. CASE s # {}
      <4>. DEFINE t == s \ {Pick(s)}
      <4>1. t \in SUBSET S /\ Cardinality(t) <= n
        BY <1>1, <2>2, <3>2, Removal
      <4>2. h[t] = g[t]
        BY <2>1, <4>1
      <4>. QED  BY <3>2, <4>2 DEF Entry
    <3>. QED  BY <3>1, <3>2
  <2>. HIDE DEF h
  <2>3. Upto(h, n + 1)
    BY <2>2
  <2>. QED  BY <2>3
<1>. HIDE DEF N
<1>4. \A n \in Nat : n \in N
  BY <1>2, <1>3, Induction
<1>5. PICK g : Upto(g, Cardinality(S))
  BY <1>1, <1>4 DEF N
<1>6. \A s \in SUBSET S : g[s] = Entry(f, g, s)
  BY <1>1, <1>5, FS_Subset
<1>. DEFINE h == [s \in SUBSET S |-> g[s]]
<1>7. h = [s \in SUBSET S |-> Entry(f, h, s)]
  <2>1. ASSUME NEW s \in SUBSET S PROVE Entry(f, g, s) = Entry(f, h, s)
    BY DEF Entry
  <2>. QED  BY <1>6, <2>1
<1>8. Table(f, S) = [s \in SUBSET S |-> Entry(f, Table(f, S), s)]
  <2>. HIDE DEF h
  <2>. QED  BY <1>7 DEF Table
<1>. QED  BY <1>8

\* The table of a set holds the sums over its parts.
LEMMA TableOfPart ==
  ASSUME NEW f, NEW S, IsFiniteSet(S), NEW T \in SUBSET S
  PROVE  Table(f, S)[T] = Sum(f, T)
<1>. DEFINE N == {n \in Nat : \A s \in SUBSET T :
                    Cardinality(s) <= n => Table(f, S)[s] = Table(f, T)[s]}
<1>1. /\ IsFiniteSet(T)
      /\ \A s \in SUBSET T : IsFiniteSet(s) /\ Cardinality(s) \in Nat
  BY FS_Subset, FS_CardinalityType
<1>2. \A s \in SUBSET T : /\ Table(f, S)[s] = Entry(f, Table(f, S), s)
                          /\ Table(f, T)[s] = Entry(f, Table(f, T), s)
  BY <1>1, TableDef
<1>3. 0 \in N
  BY <1>1, <1>2, FS_EmptySet DEF Entry
<1>4. ASSUME NEW n \in Nat, n \in N PROVE n + 1 \in N
  <2>1. ASSUME NEW s \in SUBSET T, Cardinality(s) <= n + 1
        PROVE  Table(f, S)[s] = Table(f, T)[s]
    <3>1. CASE s = {}
      BY <1>2, <3>1 DEF Entry
    <3>2. CASE s # {}
      <4>. DEFINE t == s \ {Pick(s)}
      <4>1. t \in SUBSET T /\ Cardinality(t) <= n
        BY <1>1, <2>1, <3>2, Removal
      <4>2. Table(f, S)[t] = Table(f, T)[t]
        BY <1>4, <4>1
      <4>. QED  BY <1>2, <3>2, <4>2 DEF Entry
    <3>. QED  BY <3>1, <3>2
  <2>. QED  BY <2>1
<1>. HIDE DEF N
<1>5. \A n \in Nat : n \in N
  BY <1>3, <1>4, Induction
<1>6. Table(f, S)[T] = Table(f, T)[T]
  BY <1>1, <1>5 DEF N
<1>. QED  BY <1>6, SumIsTable

\* The sum over the empty set, and the sum one element at a time, in the order
\* in which the fold takes them.
LEMMA SumUnfolds ==
  ASSUME NEW f, NEW S, IsFiniteSet(S)
  PROVE  Sum(f, S) = IF S = {} THEN 0 ELSE f[Pick(S)] + Sum(f, S \ {Pick(S)})
<1>1. Table(f, S)[S] = Entry(f, Table(f, S), S)
  BY TableDef
<1>2. S \ {Pick(S)} \in SUBSET S
  OBVIOUS
<1>3. Table(f, S)[S \ {Pick(S)}] = Sum(f, S \ {Pick(S)})
  BY <1>2, TableOfPart
<1>. QED  BY <1>1, <1>3, SumIsTable DEF Entry

\* The sum of a function is that over its domain.
LEMMA SumOfFunction == ASSUME NEW f PROVE SumFunction(f) = Sum(f, DOMAIN f)
BY DEF SumFunction, SumFunctionOnSet, FoldFunction, FoldFunctionOnSet, Sum

\* The sum over nothing.
LEMMA SumEmpty == ASSUME NEW f PROVE Sum(f, {}) = 0
BY SumUnfolds, FS_EmptySet

\* A sum of integers is an integer.
LEMMA SumInt ==
  ASSUME NEW f, NEW S, IsFiniteSet(S), \A x \in S : f[x] \in Int
  PROVE  Sum(f, S) \in Int
<1>. DEFINE N == {n \in Nat : \A s \in SUBSET S : Cardinality(s) = n => Sum(f, s) \in Int}
<1>1. \A s \in SUBSET S : IsFiniteSet(s) /\ Cardinality(s) \in Nat
  BY FS_Subset, FS_CardinalityType
<1>2. 0 \in N
  BY <1>1, FS_EmptySet, SumEmpty
<1>3. ASSUME NEW n \in Nat, n \in N PROVE n + 1 \in N
  <2>1. ASSUME NEW s \in SUBSET S, Cardinality(s) = n + 1 PROVE Sum(f, s) \in Int
    <3>1. s # {}
      BY <2>1, FS_EmptySet
    <3>2. /\ Pick(s) \in s /\ s \ {Pick(s)} \in SUBSET S
          /\ Cardinality(s \ {Pick(s)}) = n
      BY <1>1, <2>1, <3>1, Removal
    <3>3. Sum(f, s \ {Pick(s)}) \in Int /\ f[Pick(s)] \in Int
      BY <1>3, <3>2
    <3>. QED  BY <1>1, <3>1, <3>3, SumUnfolds
  <2>. QED  BY <2>1
<1>. HIDE DEF N
<1>4. \A n \in Nat : n \in N
  BY <1>2, <1>3, Induction
<1>. QED  BY <1>1, <1>4 DEF N

\* Any element can be taken first.
LEMMA SumRemove ==
  ASSUME NEW f, NEW S, IsFiniteSet(S), \A x \in S : f[x] \in Int, NEW e \in S
  PROVE  Sum(f, S) = f[e] + Sum(f, S \ {e})
<1>. DEFINE N == {n \in Nat : \A s \in SUBSET S : Cardinality(s) = n =>
                    \A x \in s : Sum(f, s) = f[x] + Sum(f, s \ {x})}
<1>1. \A s \in SUBSET S : IsFiniteSet(s) /\ Cardinality(s) \in Nat
  BY FS_Subset, FS_CardinalityType
<1>2. 0 \in N
  BY <1>1, FS_EmptySet
<1>3. ASSUME NEW n \in Nat, n \in N PROVE n + 1 \in N
  <2>1. ASSUME NEW s \in SUBSET S, Cardinality(s) = n + 1, NEW x \in s
        PROVE  Sum(f, s) = f[x] + Sum(f, s \ {x})
    <3>. DEFINE y == Pick(s)  both == (s \ {x}) \ {y}
    <3>1. /\ y \in s
          /\ Cardinality(s \ {x}) = n /\ Cardinality(s \ {y}) = n
          /\ s \ {x} \in SUBSET S /\ s \ {y} \in SUBSET S
      BY <1>1, <2>1, Removal, FS_RemoveElement
    <3>2. Sum(f, s) = f[y] + Sum(f, s \ {y})
      BY <1>1, SumUnfolds
    <3>3. CASE x = y
      BY <3>2, <3>3
    <3>4. CASE x # y
      <4>1. x \in s \ {y} /\ y \in s \ {x} /\ (s \ {y}) \ {x} = both
        BY <3>1, <3>4
      <4>. HIDE DEF y
      <4>2. Sum(f, s \ {y}) = f[x] + Sum(f, both)
        BY <1>3, <3>1, <4>1
      <4>3. Sum(f, s \ {x}) = f[y] + Sum(f, both)
        BY <1>3, <3>1, <4>1
      <4>4. Sum(f, both) \in Int /\ f[x] \in Int /\ f[y] \in Int
        <5>1. both \in SUBSET S
          OBVIOUS
        <5>2. IsFiniteSet(both) /\ \A z \in both : f[z] \in Int
          BY <1>1, <5>1
        <5>. QED  BY <3>1, <5>2, SumInt
      <4>. HIDE DEF both
      <4>. QED  BY <3>2, <4>2, <4>3, <4>4
    <3>. QED  BY <3>3, <3>4
  <2>. QED  BY <2>1
<1>. HIDE DEF N
<1>4. \A n \in Nat : n \in N
  BY <1>2, <1>3, Induction
<1>. QED  BY <1>1, <1>4 DEF N

\* One more element adds its value, in whichever order the fold takes them.
LEMMA SumAdd ==
  ASSUME NEW f, NEW S, IsFiniteSet(S), NEW e, e \notin S,
         \A x \in S \cup {e} : f[x] \in Int
  PROVE  /\ Sum(f, S \cup {e}) = Sum(f, S) + f[e]
         /\ Sum(f, S) \in Int
<1>1. IsFiniteSet(S \cup {e}) /\ (S \cup {e}) \ {e} = S /\ e \in S \cup {e}
  BY FS_AddElement
<1>2. Sum(f, S \cup {e}) = f[e] + Sum(f, S)
  BY <1>1, SumRemove
<1>3. Sum(f, S) \in Int /\ f[e] \in Int
  BY SumInt
<1>. QED  BY <1>2, <1>3

\* Equal values have equal sums.
LEMMA SumEqual ==
  ASSUME NEW S, IsFiniteSet(S), NEW f, NEW g,
         \A x \in S : f[x] \in Int /\ g[x] = f[x]
  PROVE  Sum(g, S) = Sum(f, S)
<1>. DEFINE P == {T \in SUBSET S : Sum(g, T) = Sum(f, T)}
<1>1. {} \in P
  BY SumEmpty
<1>2. ASSUME NEW T \in SUBSET S, T \in P, NEW x \in S \ T PROVE T \cup {x} \in P
  <2>1. IsFiniteSet(T)
    BY FS_Subset
  <2>2. \A y \in T \cup {x} : f[y] \in Int /\ g[y] \in Int
    OBVIOUS
  <2>3. /\ Sum(g, T \cup {x}) = Sum(g, T) + g[x]
        /\ Sum(f, T \cup {x}) = Sum(f, T) + f[x]
    BY <2>1, <2>2, SumAdd
  <2>. QED  BY <1>2, <2>3
<1>. HIDE DEF P
<1>3. \A T \in SUBSET S : T \in P
  BY <1>1, <1>2, SetInduction
<1>. QED  BY <1>3 DEF P

\* The sum over two disjoint sets.
LEMMA SumUnion ==
  ASSUME NEW S, IsFiniteSet(S), NEW R, IsFiniteSet(R), S \cap R = {},
         NEW f, \A x \in S \cup R : f[x] \in Int
  PROVE  Sum(f, S \cup R) = Sum(f, S) + Sum(f, R)
<1>. DEFINE P == {T \in SUBSET R : Sum(f, S \cup T) = Sum(f, S) + Sum(f, T)}
<1>1. {} \in P
  <2>1. S \cup {} = S /\ Sum(f, {}) = 0 /\ Sum(f, S) \in Int
    BY SumEmpty, SumInt
  <2>. QED  BY <2>1
<1>2. ASSUME NEW T \in SUBSET R, T \in P, NEW x \in R \ T PROVE T \cup {x} \in P
  <2>1. /\ IsFiniteSet(T) /\ IsFiniteSet(S \cup T)
        /\ x \notin S \cup T /\ S \cup (T \cup {x}) = (S \cup T) \cup {x}
    BY FS_Subset, FS_Union
  <2>2. \A y \in (S \cup T) \cup {x} : f[y] \in Int
    OBVIOUS
  <2>3. Sum(f, (S \cup T) \cup {x}) = Sum(f, S \cup T) + f[x]
    BY <2>1, <2>2, SumAdd
  <2>4. Sum(f, T \cup {x}) = Sum(f, T) + f[x]
    BY <2>1, <2>2, SumAdd
  <2>5. Sum(f, S) \in Int /\ Sum(f, T) \in Int /\ f[x] \in Int
    BY <2>1, SumInt
  <2>6. Sum(f, S \cup T) = Sum(f, S) + Sum(f, T)
    BY <1>2
  <2>. HIDE DEF P
  <2>7. Sum(f, (S \cup T) \cup {x}) = Sum(f, S) + Sum(f, T \cup {x})
    BY <2>3, <2>4, <2>5, <2>6
  <2>. QED  BY <2>1, <2>7 DEF P
<1>. HIDE DEF P
<1>3. \A T \in SUBSET R : T \in P
  BY <1>1, <1>2, SetInduction
<1>. QED  BY <1>3 DEF P

\* A sum of differences.
LEMMA SumMinus ==
  ASSUME NEW S, IsFiniteSet(S), NEW f, NEW g, NEW h,
         \A x \in S : f[x] \in Int /\ g[x] \in Int /\ h[x] = f[x] - g[x]
  PROVE  Sum(h, S) = Sum(f, S) - Sum(g, S)
<1>. DEFINE P == {T \in SUBSET S : Sum(h, T) = Sum(f, T) - Sum(g, T)}
<1>1. {} \in P
  BY SumEmpty
<1>2. ASSUME NEW T \in SUBSET S, T \in P, NEW x \in S \ T PROVE T \cup {x} \in P
  <2>1. IsFiniteSet(T)
    BY FS_Subset
  <2>2. \A y \in T \cup {x} : f[y] \in Int /\ g[y] \in Int /\ h[y] \in Int
    OBVIOUS
  <2>3. /\ Sum(f, T \cup {x}) = Sum(f, T) + f[x]
        /\ Sum(g, T \cup {x}) = Sum(g, T) + g[x]
        /\ Sum(h, T \cup {x}) = Sum(h, T) + h[x]
        /\ Sum(f, T) \in Int /\ Sum(g, T) \in Int
    BY <2>1, <2>2, SumAdd
  <2>. HIDE DEF P
  <2>4. Sum(h, T) = Sum(f, T) - Sum(g, T)
    BY <1>2 DEF P
  <2>5. h[x] = f[x] - g[x] /\ f[x] \in Int /\ g[x] \in Int
    OBVIOUS
  <2>6. Sum(h, T \cup {x}) = Sum(f, T \cup {x}) - Sum(g, T \cup {x})
    BY <2>3, <2>4, <2>5
  <2>. QED  BY <2>6 DEF P
<1>. HIDE DEF P
<1>3. \A T \in SUBSET S : T \in P
  BY <1>1, <1>2, SetInduction
<1>. QED  BY <1>3 DEF P

\* A sum of multiples.
LEMMA SumTimes ==
  ASSUME NEW S, IsFiniteSet(S), NEW f, NEW g, NEW k \in Int,
         \A x \in S : f[x] \in Int /\ g[x] = k * f[x]
  PROVE  Sum(g, S) = k * Sum(f, S)
<1>. DEFINE P == {T \in SUBSET S : Sum(g, T) = k * Sum(f, T)}
<1>1. {} \in P
  BY SumEmpty
<1>2. ASSUME NEW T \in SUBSET S, T \in P, NEW x \in S \ T PROVE T \cup {x} \in P
  <2>1. IsFiniteSet(T)
    BY FS_Subset
  <2>2. \A y \in T \cup {x} : f[y] \in Int /\ g[y] \in Int
    OBVIOUS
  <2>3. /\ Sum(f, T \cup {x}) = Sum(f, T) + f[x]
        /\ Sum(g, T \cup {x}) = Sum(g, T) + g[x]
        /\ Sum(f, T) \in Int
    BY <2>1, <2>2, SumAdd
  <2>. HIDE DEF P
  <2>4. Sum(g, T) = k * Sum(f, T) /\ g[x] = k * f[x] /\ f[x] \in Int
    BY <1>2 DEF P
  <2>5. \A a, b \in Int : k * (a + b) = k * a + k * b
    OBVIOUS
  <2>6. Sum(g, T \cup {x}) = k * Sum(f, T \cup {x})
    BY <2>3, <2>4, <2>5
  <2>. QED  BY <2>6 DEF P
<1>. HIDE DEF P
<1>3. \A T \in SUBSET S : T \in P
  BY <1>1, <1>2, SetInduction
<1>. QED  BY <1>3 DEF P

\* A sum of numbers that are not negative is not negative, and zero only if all
\* of them are.
LEMMA SumNat ==
  ASSUME NEW S, IsFiniteSet(S), NEW f, \A x \in S : f[x] \in Nat
  PROVE  /\ Sum(f, S) \in Nat
         /\ \A x \in S : f[x] <= Sum(f, S)
<1>. DEFINE P == {T \in SUBSET S : Sum(f, T) \in Nat}
<1>1. {} \in P
  BY SumEmpty
<1>2. ASSUME NEW T \in SUBSET S, T \in P, NEW x \in S \ T PROVE T \cup {x} \in P
  <2>1. IsFiniteSet(T)
    BY FS_Subset
  <2>2. \A y \in T \cup {x} : f[y] \in Int
    OBVIOUS
  <2>3. Sum(f, T \cup {x}) = Sum(f, T) + f[x]
    BY <2>1, <2>2, SumAdd
  <2>. QED  BY <1>2, <2>3
<1>. HIDE DEF P
<1>3. \A T \in SUBSET S : T \in P
  BY <1>1, <1>2, SetInduction
<1>4. \A T \in SUBSET S : Sum(f, T) \in Nat
  BY <1>3 DEF P
<1>5. ASSUME NEW x \in S PROVE f[x] <= Sum(f, S)
  <2>1. \A y \in S : f[y] \in Int
    OBVIOUS
  <2>2. Sum(f, S) = f[x] + Sum(f, S \ {x})
    BY <2>1, SumRemove
  <2>3. Sum(f, S \ {x}) \in Nat /\ f[x] \in Nat
    BY <1>4
  <2>. QED  BY <2>2, <2>3
<1>. QED  BY <1>4, <1>5

\* Renumbering: the sum over the images is the sum over what they are of.
LEMMA SumImage ==
  ASSUME NEW S, IsFiniteSet(S), NEW f, NEW g, NEW h, NEW R,
         \A x \in S : f[x] \in Int /\ g[h[x]] = f[x],
         \A x, y \in S : h[x] = h[y] => x = y,
         R = {h[x] : x \in S}
  PROVE  IsFiniteSet(R) /\ Sum(g, R) = Sum(f, S)
<1>. DEFINE image(T) == {h[x] : x \in T}
            P == {T \in SUBSET S : IsFiniteSet(image(T)) /\ Sum(g, image(T)) = Sum(f, T)}
<1>1. {} \in P
  <2>1. image({}) = {}
    OBVIOUS
  <2>. QED  BY <2>1, SumEmpty, FS_EmptySet
<1>2. ASSUME NEW T \in SUBSET S, T \in P, NEW x \in S \ T PROVE T \cup {x} \in P
  <2>1. IsFiniteSet(T) /\ IsFiniteSet(image(T))
    BY <1>2, FS_Subset
  <2>2. image(T \cup {x}) = image(T) \cup {h[x]} /\ h[x] \notin image(T)
    OBVIOUS
  <2>3. /\ \A y \in T \cup {x} : f[y] \in Int
        /\ \A z \in image(T) \cup {h[x]} : g[z] \in Int
    OBVIOUS
  <2>4. Sum(f, T \cup {x}) = Sum(f, T) + f[x]
    BY <2>1, <2>3, SumAdd
  <2>. HIDE DEF image
  <2>5. Sum(g, image(T) \cup {h[x]}) = Sum(g, image(T)) + g[h[x]]
    BY <2>1, <2>2, <2>3, SumAdd
  <2>6. IsFiniteSet(image(T) \cup {h[x]})
    BY <2>1, FS_AddElement
  <2>. QED  BY <1>2, <2>2, <2>4, <2>5, <2>6
<1>. HIDE DEF P
<1>3. \A T \in SUBSET S : T \in P
  BY <1>1, <1>2, SetInduction
<1>. QED  BY <1>3 DEF P

\* Sorting the summands into parts: the sums of the parts add up to the sum.
LEMMA SumByParts ==
  ASSUME NEW S, IsFiniteSet(S), NEW f, \A x \in S : f[x] \in Int,
         NEW K, IsFiniteSet(K), NEW part, NEW g,
         \A u \in K : part[u] \subseteq S /\ g[u] = Sum(f, part[u]),
         \A x \in S : \E u \in K : x \in part[u],
         \A u, v \in K : u # v => part[u] \cap part[v] = {}
  PROVE  (\A u \in K : g[u] \in Int) /\ Sum(g, K) = Sum(f, S)
<1>. DEFINE parts(A) == UNION {part[u] : u \in A}
            P == {A \in SUBSET K : Sum(g, A) = Sum(f, parts(A))}
<1>1. ASSUME NEW A \in SUBSET S
      PROVE  IsFiniteSet(A) /\ (\A x \in A : f[x] \in Int) /\ Sum(f, A) \in Int
  <2>1. IsFiniteSet(A) /\ \A x \in A : f[x] \in Int
    BY FS_Subset
  <2>. QED  BY <2>1, SumInt
<1>2. \A u \in K : g[u] \in Int
  BY <1>1
<1>3. {} \in P
  <2>1. parts({}) = {}
    OBVIOUS
  <2>. QED  BY <2>1, SumEmpty
<1>4. ASSUME NEW A \in SUBSET K, A \in P, NEW u \in K \ A PROVE A \cup {u} \in P
  <2>1. parts(A \cup {u}) = parts(A) \cup part[u]
    OBVIOUS
  <2>2. parts(A) \cap part[u] = {}
    OBVIOUS
  <2>3. parts(A) \in SUBSET S /\ part[u] \in SUBSET S
    OBVIOUS
  <2>4. IsFiniteSet(A) /\ \A v \in A \cup {u} : g[v] \in Int
    BY <1>2, FS_Subset
  <2>5. Sum(g, A \cup {u}) = Sum(g, A) + g[u]
    BY <2>4, SumAdd
  <2>. HIDE DEF parts
  <2>6. /\ IsFiniteSet(parts(A)) /\ IsFiniteSet(part[u])
        /\ \A x \in parts(A) \cup part[u] : f[x] \in Int
    BY <1>1, <2>3
  <2>7. Sum(f, parts(A) \cup part[u]) = Sum(f, parts(A)) + Sum(f, part[u])
    BY <2>2, <2>6, SumUnion
  <2>. QED  BY <1>4, <2>1, <2>5, <2>7
<1>. HIDE DEF P
<1>5. \A A \in SUBSET K : A \in P
  BY <1>3, <1>4, SetInduction
<1>6. parts(K) = S
  OBVIOUS
<1>. QED  BY <1>2, <1>5, <1>6 DEF P

\* One summand changes.
LEMMA SumExcept ==
  ASSUME NEW S, IsFiniteSet(S), NEW f, NEW g, NEW e \in S,
         \A x \in S : f[x] \in Int /\ g[x] \in Int,
         \A x \in S \ {e} : g[x] = f[x]
  PROVE  Sum(g, S) = Sum(f, S) - f[e] + g[e]
<1>1. IsFiniteSet(S \ {e})
  BY FS_RemoveElement
<1>2. Sum(f, S) = f[e] + Sum(f, S \ {e}) /\ Sum(g, S) = g[e] + Sum(g, S \ {e})
  BY SumRemove
<1>3. Sum(g, S \ {e}) = Sum(f, S \ {e}) /\ Sum(f, S \ {e}) \in Int
  <2>1. \A x \in S \ {e} : f[x] \in Int /\ g[x] = f[x]
    OBVIOUS
  <2>. QED  BY <1>1, <2>1, SumEqual, SumInt
<1>4. f[e] \in Int /\ g[e] \in Int
  OBVIOUS
<1>. QED  BY <1>2, <1>3, <1>4

\* Summands of zero do not count.
LEMMA SumNonzero ==
  ASSUME NEW S, IsFiniteSet(S), NEW f, \A x \in S : f[x] \in Int,
         NEW T \in SUBSET S, \A x \in S \ T : f[x] = 0
  PROVE  Sum(f, S) = Sum(f, T)
<1>. DEFINE Q == S \ T
            P == {A \in SUBSET Q : Sum(f, A) = 0}
<1>1. IsFiniteSet(T) /\ IsFiniteSet(Q) /\ T \cup Q = S /\ T \cap Q = {}
  BY FS_Subset
<1>2. {} \in P
  BY SumEmpty
<1>3. ASSUME NEW A \in SUBSET Q, A \in P, NEW x \in Q \ A PROVE A \cup {x} \in P
  <2>1. IsFiniteSet(A)
    BY <1>1, FS_Subset
  <2>2. \A y \in A \cup {x} : f[y] \in Int
    OBVIOUS
  <2>3. Sum(f, A \cup {x}) = Sum(f, A) + f[x] /\ f[x] = 0
    BY <2>1, <2>2, SumAdd
  <2>. QED  BY <1>3, <2>3
<1>4. \A A \in SUBSET Q : A \in P
  <2>. HIDE DEF P, Q
  <2>. QED  BY <1>1, <1>2, <1>3, SetInduction
<1>5. Sum(f, Q) = 0
  BY <1>4
<1>6. \A x \in T \cup Q : f[x] \in Int
  OBVIOUS
<1>. HIDE DEF Q, P
<1>7. Sum(f, T \cup Q) = Sum(f, T) + Sum(f, Q) /\ Sum(f, T) \in Int
  BY <1>1, <1>6, SumUnion, SumInt
<1>8. Sum(f, T) + Sum(f, Q) = Sum(f, T)
  BY <1>5, <1>7
<1>. QED  BY <1>1, <1>7, <1>8, Zenon

-----------------------------------------------------------------------------
(* Sequences of rows. *)

AmountsOf(rows) == [i \in DOMAIN rows |-> rows[i].amount]

\* Rows of any kind, as long as their amounts are numbers.
LEMMA RowsSum ==
  ASSUME NEW R, \A x \in R : x.amount \in Int, NEW s \in Seq(R),
         NEW at \in SUBSET (DOMAIN s)
  PROVE  /\ IsFiniteSet(at)
         /\ \A i \in at : AmountsOf(s)[i] \in Int
         /\ AmountSum(s, at) = Sum(AmountsOf(s), at)
         /\ AmountSum(s, at) \in Int
<1>1. DOMAIN s = 1 .. Len(s) /\ Len(s) \in Nat /\ \A i \in DOMAIN s : s[i] \in R
  OBVIOUS
<1>2. IsFiniteSet(at)
  <2>1. IsFiniteSet(1 .. Len(s))
    BY <1>1, FS_Interval
  <2>. QED  BY <1>1, <2>1, FS_Subset
<1>3. \A i \in at : AmountsOf(s)[i] \in Int
  BY <1>1 DEF AmountsOf
<1>4. AmountSum(s, at) = Sum(AmountsOf(s), at)
  BY DEF AmountSum, Sum, AmountsOf
<1>. QED  BY <1>2, <1>3, <1>4, SumInt

\* The sum over chosen rows of two sequences joined.
LEMMA JoinSum ==
  ASSUME NEW R, \A x \in R : x.amount \in Int, NEW s \in Seq(R), NEW r \in Seq(R),
         NEW at \in SUBSET (DOMAIN (s \o r))
  PROVE  AmountSum(s \o r, at)
           = AmountSum(s, at \cap DOMAIN s)
               + AmountSum(r, {k \in DOMAIN r : Len(s) + k \in at})
<1>. DEFINE n == Len(s)  A == at \cap DOMAIN s  B == {k \in DOMAIN r : n + k \in at}
            C == at \ DOMAIN s  f == AmountsOf(s)  g == AmountsOf(r)  h == AmountsOf(s \o r)
<1>1. /\ s \o r \in Seq(R) /\ n \in Nat /\ Len(r) \in Nat
      /\ DOMAIN s = 1 .. n /\ DOMAIN r = 1 .. Len(r) /\ DOMAIN (s \o r) = 1 .. n + Len(r)
      /\ \A i \in 1 .. n : (s \o r)[i] = s[i]
      /\ \A k \in 1 .. Len(r) : (s \o r)[n + k] = r[k]
  OBVIOUS
<1>2. A \in SUBSET (DOMAIN s) /\ B \in SUBSET (DOMAIN r)
  OBVIOUS
<1>3. /\ IsFiniteSet(A) /\ \A i \in A : f[i] \in Int
      /\ AmountSum(s, A) = Sum(f, A) /\ Sum(f, A) \in Int
  BY <1>2, RowsSum
<1>4. /\ IsFiniteSet(B) /\ \A k \in B : g[k] \in Int
      /\ AmountSum(r, B) = Sum(g, B) /\ Sum(g, B) \in Int
  BY <1>2, RowsSum
<1>5. /\ IsFiniteSet(at) /\ \A i \in at : h[i] \in Int
      /\ AmountSum(s \o r, at) = Sum(h, at)
  BY <1>1, RowsSum
<1>6. A \cup C = at /\ A \cap C = {} /\ IsFiniteSet(C)
  BY <1>5, FS_Subset
<1>7. Sum(h, at) = Sum(h, A) + Sum(h, C)
  <2>. HIDE DEF A, C, h
  <2>1. \A i \in A \cup C : h[i] \in Int
    BY <1>5, <1>6
  <2>2. Sum(h, A \cup C) = Sum(h, A) + Sum(h, C)
    BY <1>3, <1>6, <2>1, SumUnion
  <2>. QED  BY <1>6, <2>2
<1>8. Sum(h, A) = Sum(f, A)
  <2>1. \A i \in A : h[i] = f[i]
    BY <1>1 DEF AmountsOf
  <2>. HIDE DEF A, h, f
  <2>. QED  BY <1>3, <2>1, SumEqual
<1>9. Sum(h, C) = Sum(g, B)
  <2>. DEFINE m == [k \in B |-> n + k]
  <2>1. \A k \in B : g[k] \in Int /\ h[m[k]] = g[k]
    <3>1. ASSUME NEW k \in B PROVE h[n + k] = g[k]
      <4>1. n + k \in 1 .. n + Len(r) /\ k \in 1 .. Len(r)
        BY <1>1
      <4>. QED  BY <1>1, <4>1 DEF AmountsOf
    <3>. QED  BY <1>4, <3>1
  <2>2. \A x, y \in B : m[x] = m[y] => x = y
    BY <1>1
  <2>3. C = {m[k] : k \in B}
    <3>1. ASSUME NEW i \in C PROVE \E k \in B : i = n + k
      <4>1. i \in Int /\ n < i /\ i <= n + Len(r)
        BY <1>1
      <4>2. i - n \in 1 .. Len(r) /\ n + (i - n) = i
        BY <1>1, <4>1
      <4>. QED  BY <1>1, <4>2
    <3>2. ASSUME NEW k \in B PROVE n + k \in C
      BY <1>1
    <3>. QED  BY <3>1, <3>2
  <2>. HIDE DEF B, C, m, g, h
  <2>. QED  BY <1>4, <2>1, <2>2, <2>3, SumImage
<1>. HIDE DEF A, B, C, f, g, h
<1>10. AmountSum(s \o r, at) = AmountSum(s, A) + AmountSum(r, B)
  BY <1>3, <1>4, <1>5, <1>7, <1>8, <1>9
<1>. QED  BY <1>10 DEF A, B

\* The sum over chosen rows of two.
LEMMA PairSum ==
  ASSUME NEW R, \A x \in R : x.amount \in Int, NEW x \in R, NEW y \in R,
         NEW at \in SUBSET {1, 2}
  PROVE  AmountSum(<<x, y>>, at)
           = (IF 1 \in at THEN x.amount ELSE 0) + (IF 2 \in at THEN y.amount ELSE 0)
<1>. DEFINE s == <<x, y>>  f == AmountsOf(s)
<1>1. s \in Seq(R) /\ DOMAIN s = {1, 2} /\ f[1] = x.amount /\ f[2] = y.amount
  BY DEF AmountsOf
<1>2. AmountSum(s, at) = Sum(f, at)
  BY <1>1, RowsSum
<1>3. f[1] \in Int /\ f[2] \in Int /\ x.amount \in Int /\ y.amount \in Int
  BY <1>1
<1>. HIDE DEF f
<1>4. Sum(f, {}) = 0
  BY SumEmpty
<1>5. Sum(f, {} \cup {1}) = Sum(f, {}) + f[1] /\ Sum(f, {} \cup {2}) = Sum(f, {}) + f[2]
  <2>1. IsFiniteSet({}) /\ 1 \notin {} /\ 2 \notin {}
        /\ (\A i \in {} \cup {1} : f[i] \in Int) /\ (\A i \in {} \cup {2} : f[i] \in Int)
    BY <1>3, FS_EmptySet
  <2>. QED  BY <2>1, SumAdd
<1>6. Sum(f, {1} \cup {2}) = Sum(f, {1}) + f[2]
  <2>1. 2 \notin {1} /\ \A i \in {1} \cup {2} : f[i] \in Int
    BY <1>3
  <2>2. IsFiniteSet({1})
    BY FS_Singleton
  <2>. QED  BY <2>1, <2>2, SumAdd
<1>7. {} \cup {1} = {1} /\ {} \cup {2} = {2} /\ {1} \cup {2} = {1, 2}
  OBVIOUS
<1>8. /\ Sum(f, {1}) = x.amount /\ Sum(f, {2}) = y.amount
      /\ Sum(f, {1, 2}) = x.amount + y.amount
  BY <1>1, <1>3, <1>4, <1>5, <1>6, <1>7
<1>9. CASE at = {}
  BY <1>2, <1>4, <1>9
<1>10. CASE at = {1}
  BY <1>2, <1>3, <1>8, <1>10
<1>11. CASE at = {2}
  BY <1>2, <1>3, <1>8, <1>11
<1>12. CASE at = {1, 2}
  BY <1>2, <1>8, <1>12
<1>. QED  BY <1>9, <1>10, <1>11, <1>12

\* The sum over chosen rows of a sequence that got one row more.
LEMMA AppendSum ==
  ASSUME NEW R, \A x \in R : x.amount \in Int, NEW s \in Seq(R), NEW x \in R,
         NEW at \in SUBSET (1 .. Len(s) + 1)
  PROVE  AmountSum(Append(s, x), at)
           = AmountSum(s, at \cap 1 .. Len(s))
               + (IF Len(s) + 1 \in at THEN x.amount ELSE 0)
<1>. DEFINE n == Len(s)  A == at \cap 1 .. n  r == Append(s, x)
            f == AmountsOf(s)  g == AmountsOf(r)
<1>1. /\ n \in Nat /\ DOMAIN s = 1 .. n /\ DOMAIN r = 1 .. n + 1
      /\ r \in Seq(R) /\ r[n + 1] = x /\ \A i \in 1 .. n : r[i] = s[i]
  OBVIOUS
<1>2. A \subseteq at /\ \A i \in at : i \in A \/ i = n + 1
  <2>1. \A i \in 1 .. n + 1 : i \in 1 .. n \/ i = n + 1
    BY <1>1
  <2>. QED  BY <2>1
<1>. HIDE DEF n, r
<1>3. /\ at \in SUBSET (DOMAIN r) /\ A \in SUBSET (DOMAIN s)
      /\ A \in SUBSET (DOMAIN r) /\ n + 1 \notin A
  BY <1>1 DEF n
<1>4. /\ AmountSum(s, A) = Sum(f, A) /\ IsFiniteSet(A) /\ AmountSum(s, A) \in Int
      /\ \A i \in A : f[i] \in Int
  BY <1>1, <1>3, RowsSum
<1>5. AmountSum(r, at) = Sum(g, at) /\ \A i \in at : g[i] \in Int
  BY <1>1, <1>3, RowsSum
<1>6. /\ \A i \in A : g[i] = f[i]
      /\ g[n + 1] = x.amount
  BY <1>1, <1>3 DEF AmountsOf
<1>. HIDE DEF f, g, A
<1>7. Sum(g, A) = Sum(f, A)
  BY <1>4, <1>6, SumEqual
<1>8. CASE n + 1 \in at
  <2>1. at = A \cup {n + 1}
    BY <1>2, <1>8
  <2>2. Sum(g, A \cup {n + 1}) = Sum(g, A) + g[n + 1]
    BY <1>3, <1>4, <1>5, <2>1, SumAdd
  <2>. QED  BY <1>4, <1>5, <1>6, <1>7, <1>8, <2>1, <2>2 DEF n, A, r
<1>9. CASE n + 1 \notin at
  <2>1. at = A
    BY <1>2, <1>9
  <2>2. AmountSum(r, at) = AmountSum(s, A)
    BY <1>4, <1>5, <1>7, <2>1
  <2>3. AmountSum(s, A) = AmountSum(s, A) + 0
    BY <1>4
  <2>. QED  BY <1>9, <2>2, <2>3 DEF n, A, r
<1>. QED  BY <1>8, <1>9

-----------------------------------------------------------------------------
(* Balances of lines. *)

\* Lines on accounts of any set.
LinesOn(A) == [account : A, side : {"DEBIT", "CREDIT"}, amount : Int]

\* Rows, lines or entries, whose amounts are whole cents.
WholeCents(R) == \A x \in R : x.amount \in Int

\* Lines are such rows.
LEMMA LinesWhole == \A A : WholeCents(LinesOn(A))
BY DEF WholeCents, LinesOn

\* Sides add up when journals are joined.
LEMMA SideOfJoin ==
  ASSUME NEW R, WholeCents(R), NEW s \in Seq(R), NEW r \in Seq(R), NEW side
  PROVE  SideTotal(s \o r, DOMAIN (s \o r), side)
           = SideTotal(s, DOMAIN s, side) + SideTotal(r, DOMAIN r, side)
<1>. DEFINE j == s \o r  n == Len(s)
            at == {i \in DOMAIN j : j[i].side = side}
<1>1. /\ DOMAIN j = 1 .. n + Len(r) /\ n \in Nat /\ Len(r) \in Nat
      /\ DOMAIN s = 1 .. n /\ DOMAIN r = 1 .. Len(r)
      /\ \A i \in DOMAIN s : i \in DOMAIN j /\ j[i] = s[i]
      /\ \A k \in DOMAIN r : n + k \in DOMAIN j /\ j[n + k] = r[k]
  OBVIOUS
<1>. HIDE DEF j, n
<1>2. /\ at \cap DOMAIN s = {i \in DOMAIN s : s[i].side = side}
      /\ {k \in DOMAIN r : n + k \in at} = {k \in DOMAIN r : r[k].side = side}
  BY <1>1
<1>3. AmountSum(j, at) = AmountSum(s, at \cap DOMAIN s)
                           + AmountSum(r, {k \in DOMAIN r : n + k \in at})
  BY JoinSum DEF WholeCents, j, n
<1>. QED  BY <1>2, <1>3 DEF SideTotal, j

\* Balances of journals add up.
LEMMA BalanceOfJoin ==
  ASSUME NEW R, WholeCents(R), NEW s \in Seq(R), NEW r \in Seq(R), NEW a
  PROVE  /\ Balance(s \o r, a) = Balance(s, a) + Balance(r, a)
         /\ Balance(s, a) \in Int
<1>. DEFINE j == s \o r  n == Len(s)
            Of(x, side) == SideTotal(x, On(x, a), side)
<1>1. /\ DOMAIN j = 1 .. n + Len(r) /\ n \in Nat /\ Len(r) \in Nat
      /\ DOMAIN s = 1 .. n /\ DOMAIN r = 1 .. Len(r)
      /\ \A i \in DOMAIN s : i \in DOMAIN j /\ j[i] = s[i]
      /\ \A k \in DOMAIN r : n + k \in DOMAIN j /\ j[n + k] = r[k]
  OBVIOUS
<1>. HIDE DEF j, n
<1>2. ASSUME NEW at \in SUBSET (DOMAIN j)
      PROVE  AmountSum(j, at) = AmountSum(s, at \cap DOMAIN s)
                                  + AmountSum(r, {k \in DOMAIN r : n + k \in at})
  BY JoinSum DEF WholeCents, j, n
<1>3. ASSUME NEW side PROVE Of(j, side) = Of(s, side) + Of(r, side)
  <2>. DEFINE at == {i \in On(j, a) : j[i].side = side}
  <2>1. /\ at \cap DOMAIN s = {i \in On(s, a) : s[i].side = side}
        /\ {k \in DOMAIN r : n + k \in at} = {k \in On(r, a) : r[k].side = side}
        /\ at \in SUBSET (DOMAIN j)
    BY <1>1 DEF On
  <2>2. AmountSum(j, at) = AmountSum(s, at \cap DOMAIN s)
                             + AmountSum(r, {k \in DOMAIN r : n + k \in at})
    BY <2>1, <1>2
  <2>. QED  BY <2>1, <2>2 DEF SideTotal
<1>4. ASSUME NEW x \in Seq(R), NEW side PROVE Of(x, side) \in Int
  <2>1. {i \in On(x, a) : x[i].side = side} \in SUBSET (DOMAIN x)
    BY DEF On
  <2>. QED  BY <2>1, RowsSum DEF SideTotal, WholeCents
<1>5. \A x : Balance(x, a) = Of(x, "CREDIT") - Of(x, "DEBIT")
  BY DEF Balance
<1>. HIDE DEF Of
<1>6. Balance(j, a) = Balance(s, a) + Balance(r, a) /\ Balance(s, a) \in Int
  <2>1. /\ Of(s, "CREDIT") \in Int /\ Of(s, "DEBIT") \in Int
        /\ Of(r, "CREDIT") \in Int /\ Of(r, "DEBIT") \in Int
    BY <1>4
  <2>2. /\ Of(j, "CREDIT") = Of(s, "CREDIT") + Of(r, "CREDIT")
        /\ Of(j, "DEBIT") = Of(s, "DEBIT") + Of(r, "DEBIT")
    BY <1>3
  <2>. QED  BY <1>5, <2>1, <2>2
<1>. QED  BY <1>6 DEF j

\* The balance of an account reads nothing but accounts, sides and amounts.
LEMMA SameBalance ==
  ASSUME NEW s, NEW r, DOMAIN s = DOMAIN r,
         \A i \in DOMAIN s : /\ s[i].account = r[i].account /\ s[i].side = r[i].side
                             /\ s[i].amount = r[i].amount
  PROVE  \A a : Balance(s, a) = Balance(r, a)
<1>. TAKE a
<1>1. [i \in DOMAIN s |-> s[i].amount] = [i \in DOMAIN r |-> r[i].amount]
  OBVIOUS
<1>2. \A at : AmountSum(s, at) = AmountSum(r, at)
  BY <1>1, Zenon DEF AmountSum
<1>3. On(s, a) = On(r, a)
  BY DEF On
<1>4. \A side : {i \in On(s, a) : s[i].side = side} = {i \in On(r, a) : r[i].side = side}
  BY <1>3 DEF On
<1>5. \A side : SideTotal(s, On(s, a), side) = SideTotal(r, On(r, a), side)
  BY <1>2, <1>4, Zenon DEF SideTotal
<1>6. /\ SideTotal(s, On(s, a), "CREDIT") = SideTotal(r, On(r, a), "CREDIT")
      /\ SideTotal(s, On(s, a), "DEBIT") = SideTotal(r, On(r, a), "DEBIT")
  BY <1>5
<1>. QED  BY <1>6 DEF Balance

\* An account nobody posted to has no balance.
LEMMA NoneOn ==
  ASSUME NEW s, NEW a, On(s, a) = {}
  PROVE  Balance(s, a) = 0
<1>1. AmountSum(s, {}) = 0
  BY SumEmpty DEF AmountSum, Sum
<1>2. \A side : {i \in {} : s[i].side = side} = {}
  OBVIOUS
<1>3. \A side : SideTotal(s, {}, side) = 0
  BY <1>1, <1>2, Zenon DEF SideTotal
<1>4. Balance(s, a) = SideTotal(s, {}, "CREDIT") - SideTotal(s, {}, "DEBIT")
  BY Zenon DEF Balance
<1>. QED  BY <1>3, <1>4

\* Without lines nothing is moved.
LEMMA NoLines ==
  /\ \A a : Balance(<< >>, a) = 0
  /\ \A side : SideTotal(<< >>, {}, side) = 0
  /\ DOMAIN << >> = {}
<1>1. AmountSum(<< >>, {}) = 0
  BY SumEmpty DEF AmountSum, Sum
<1>2. DOMAIN << >> = {} /\ \A a : On(<< >>, a) = {}
  BY DEF On
<1>3. \A side : SideTotal(<< >>, {}, side) = 0
  <2>1. \A side : {i \in {} : << >>[i].side = side} = {}
    OBVIOUS
  <2>. QED  BY <1>1, <2>1, Zenon DEF SideTotal
<1>4. ASSUME NEW a PROVE Balance(<< >>, a) = 0
  <2>1. Balance(<< >>, a)
          = SideTotal(<< >>, {}, "CREDIT") - SideTotal(<< >>, {}, "DEBIT")
    BY <1>2, Zenon DEF Balance
  <2>. QED  BY <1>3, <2>1
<1>. QED  BY <1>2, <1>3, <1>4

\* A debit and a credit of the same amount: the two lines all journals of the
\* engine are made of.
Transfer(from, to, amount) == <<Debit(from, amount), Credit(to, amount)>>

\* Two lines that debit one account and credit another.
LEMMA TransferBalance ==
  ASSUME NEW from, NEW to, NEW amount \in Int
  PROVE  /\ \A A : from \in A /\ to \in A => Transfer(from, to, amount) \in Seq(LinesOn(A))
         /\ \A a : Balance(Transfer(from, to, amount), a)
                     = (IF to = a THEN amount ELSE 0) - (IF from = a THEN amount ELSE 0)
         /\ SideTotal(Transfer(from, to, amount), {1, 2}, "DEBIT") = amount
         /\ SideTotal(Transfer(from, to, amount), {1, 2}, "CREDIT") = amount
         /\ DOMAIN Transfer(from, to, amount) = {1, 2}
         /\ AmountsValid(Transfer(from, to, amount)) <=> amount >= 1
<1>. DEFINE x == Debit(from, amount)  y == Credit(to, amount)  s == <<x, y>>
            A == {from, to}  R == LinesOn(A)
<1>1. /\ x.account = from /\ x.side = "DEBIT" /\ x.amount = amount
      /\ y.account = to /\ y.side = "CREDIT" /\ y.amount = amount
      /\ \A B : from \in B /\ to \in B => x \in LinesOn(B) /\ y \in LinesOn(B)
  BY DEF Debit, Credit, LinesOn
<1>2. DOMAIN s = {1, 2} /\ s[1] = x /\ s[2] = y /\ s = Transfer(from, to, amount)
  BY DEF Transfer
<1>3. \A B : x \in LinesOn(B) /\ y \in LinesOn(B) => s \in Seq(LinesOn(B))
  OBVIOUS
<1>. HIDE DEF x, y
<1>4. x \in R /\ y \in R /\ \A z \in R : z.amount \in Int
  <2>1. from \in A /\ to \in A
    OBVIOUS
  <2>2. \A z \in R : z.amount \in Int
    BY DEF LinesOn
  <2>. QED  BY <1>1, <2>1, <2>2
<1>. HIDE DEF R
<1>5. \A at \in SUBSET {1, 2} :
        AmountSum(s, at) = (IF 1 \in at THEN amount ELSE 0) + (IF 2 \in at THEN amount ELSE 0)
  BY <1>1, <1>4, PairSum
<1>. HIDE DEF s
<1>6. ASSUME NEW a
      PROVE  Balance(s, a) = (IF to = a THEN amount ELSE 0) - (IF from = a THEN amount ELSE 0)
  <2>1. /\ {i \in On(s, a) : s[i].side = "DEBIT"} = IF from = a THEN {1} ELSE {}
        /\ {i \in On(s, a) : s[i].side = "CREDIT"} = IF to = a THEN {2} ELSE {}
    BY <1>1, <1>2 DEF On
  <2>2. AmountSum(s, {1}) = amount /\ AmountSum(s, {2}) = amount /\ AmountSum(s, {}) = 0
    BY <1>5
  <2>. QED  BY <2>1, <2>2 DEF Balance, SideTotal
<1>7. SideTotal(s, {1, 2}, "DEBIT") = amount /\ SideTotal(s, {1, 2}, "CREDIT") = amount
  <2>1. /\ {i \in {1, 2} : s[i].side = "DEBIT"} = {1}
        /\ {i \in {1, 2} : s[i].side = "CREDIT"} = {2}
    BY <1>1, <1>2
  <2>2. AmountSum(s, {1}) = amount /\ AmountSum(s, {2}) = amount
    BY <1>5
  <2>. QED  BY <2>1, <2>2 DEF SideTotal
<1>8. AmountsValid(s) <=> amount >= 1
  BY <1>1, <1>2 DEF AmountsValid
<1>. QED  BY <1>1, <1>2, <1>3, <1>6, <1>7, <1>8

-----------------------------------------------------------------------------
(* The lines of an expense. *)

\* One turn of the loop over the splits, and the loop itself.
Turn(payer, splits, clearing, f, n) ==
  IF n = 0 THEN << >>
  ELSE IF splits[n].user = payer THEN f[n - 1]
  ELSE f[n - 1] \o Owes(splits[n], clearing)
Loop(payer, splits, clearing) ==
  CHOOSE f : f = [n \in 0 .. Len(splits) |-> Turn(payer, splits, clearing, f, n)]

\* The loop over the splits, turn by turn.
LEMMA LoopTurns ==
  ASSUME NEW payer, NEW splits, NEW clearing, Len(splits) \in Nat
  PROVE  /\ OwedLines(payer, splits, clearing) = Loop(payer, splits, clearing)[Len(splits)]
         /\ \A n \in 0 .. Len(splits) :
              Loop(payer, splits, clearing)[n]
                = Turn(payer, splits, clearing, Loop(payer, splits, clearing), n)
<1>. DEFINE T(f, n) == Turn(payer, splits, clearing, f, n)
            Upto(f, k) == \A n \in 0 .. k : f[n] = T(f, n)
            P == {k \in Nat : \E f : Upto(f, k)}
<1>1. 0 \in P
  <2>. DEFINE f == [n \in 0 .. 0 |-> << >>]
  <2>1. Upto(f, 0)
    BY DEF Turn
  <2>. HIDE DEF f
  <2>. QED  BY <2>1
<1>2. ASSUME NEW k \in Nat, k \in P PROVE k + 1 \in P
  <2>1. PICK f : Upto(f, k)
    BY <1>2
  <2>. DEFINE g == [n \in 0 .. k + 1 |-> T(f, n)]
  <2>2. ASSUME NEW n \in 0 .. k + 1 PROVE g[n] = T(g, n)
    <3>1. CASE n = 0
      BY <3>1 DEF Turn
    <3>2. CASE n # 0
      <4>1. n - 1 \in 0 .. k /\ n - 1 \in 0 .. k + 1
        BY <3>2
      <4>2. g[n - 1] = f[n - 1]
        BY <2>1, <4>1
      <4>. QED  BY <3>2, <4>2 DEF Turn
    <3>. QED  BY <3>1, <3>2
  <2>. HIDE DEF g
  <2>3. Upto(g, k + 1)
    BY <2>2
  <2>. QED  BY <2>3
<1>. HIDE DEF P
<1>3. \A k \in Nat : k \in P
  BY <1>1, <1>2, Induction
<1>4. PICK f : Upto(f, Len(splits))
  BY <1>3 DEF P
<1>. DEFINE g == [n \in 0 .. Len(splits) |-> f[n]]
<1>5. g = [n \in 0 .. Len(splits) |-> T(g, n)]
  <2>1. ASSUME NEW n \in 0 .. Len(splits) PROVE T(f, n) = T(g, n)
    <3>1. n = 0 \/ n - 1 \in 0 .. Len(splits)
      OBVIOUS
    <3>. QED  BY <3>1 DEF Turn
  <2>. QED  BY <1>4, <2>1
<1>6. Loop(payer, splits, clearing)
        = [n \in 0 .. Len(splits) |-> T(Loop(payer, splits, clearing), n)]
  <2>. HIDE DEF g
  <2>. QED  BY <1>5 DEF Loop
<1>7. OwedLines(payer, splits, clearing) = Loop(payer, splits, clearing)[Len(splits)]
  BY DEF OwedLines, Loop, Turn
<1>. QED  BY <1>6, <1>7

\* Shares of users of any set.
Shares(U) == [user : U, amount : Int]

\* The first n shares that are not the payer's, and those that are u's.
OthersTo(splits, u, n)   == {i \in 1 .. n : splits[i].user # u}
SharesTo(splits, u, n)   == {i \in 1 .. n : splits[i].user = u}

\* One row more.
LEMMA AddRow ==
  ASSUME NEW R, \A x \in R : x.amount \in Int, NEW s \in Seq(R),
         NEW at \in SUBSET (DOMAIN s), NEW i \in DOMAIN s \ at
  PROVE  AmountSum(s, at \cup {i}) = AmountSum(s, at) + s[i].amount
<1>. DEFINE f == AmountsOf(s)
<1>1. at \cup {i} \in SUBSET (DOMAIN s)
  OBVIOUS
<1>2. /\ IsFiniteSet(at) /\ \A k \in at \cup {i} : f[k] \in Int
      /\ AmountSum(s, at) = Sum(f, at) /\ AmountSum(s, at \cup {i}) = Sum(f, at \cup {i})
  BY <1>1, RowsSum
<1>3. f[i] = s[i].amount
  BY DEF AmountsOf
<1>. HIDE DEF f
<1>. QED  BY <1>2, <1>3, SumAdd

\* Two runs of lines have valid amounts if each has.
LEMMA ValidJoin ==
  ASSUME NEW R, NEW s \in Seq(R), NEW r \in Seq(R)
  PROVE  AmountsValid(s \o r) <=> AmountsValid(s) /\ AmountsValid(r)
<1>1. /\ Len(s) \in Nat /\ Len(r) \in Nat /\ DOMAIN (s \o r) = 1 .. Len(s) + Len(r)
      /\ DOMAIN s = 1 .. Len(s) /\ DOMAIN r = 1 .. Len(r)
      /\ \A i \in DOMAIN s : (s \o r)[i] = s[i]
      /\ \A k \in DOMAIN r : (s \o r)[Len(s) + k] = r[k]
  OBVIOUS
<1>2. ASSUME NEW i \in DOMAIN (s \o r), i \notin DOMAIN s
      PROVE  i - Len(s) \in DOMAIN r /\ Len(s) + (i - Len(s)) = i
  BY <1>1, <1>2
<1>3. \A i \in DOMAIN s : i \in DOMAIN (s \o r)
  BY <1>1
<1>4. \A k \in DOMAIN r : Len(s) + k \in DOMAIN (s \o r)
  BY <1>1
<1>5. ASSUME AmountsValid(s), AmountsValid(r), NEW i \in DOMAIN (s \o r)
      PROVE  (s \o r)[i].amount >= 1
  <2>1. CASE i \in DOMAIN s
    BY <1>1, <1>5, <2>1 DEF AmountsValid
  <2>2. CASE i \notin DOMAIN s
    <3>1. i - Len(s) \in DOMAIN r /\ Len(s) + (i - Len(s)) = i
      BY <1>2, <2>2
    <3>2. (s \o r)[i] = r[i - Len(s)]
      BY <1>1, <3>1
    <3>. QED  BY <1>5, <3>1, <3>2 DEF AmountsValid
  <2>. QED  BY <2>1, <2>2
<1>6. ASSUME AmountsValid(s \o r) PROVE AmountsValid(s) /\ AmountsValid(r)
  <2>1. ASSUME NEW i \in DOMAIN s PROVE s[i].amount >= 1
    BY <1>1, <1>3, <1>6 DEF AmountsValid
  <2>2. ASSUME NEW k \in DOMAIN r PROVE r[k].amount >= 1
    <3>1. (s \o r)[Len(s) + k].amount >= 1 /\ (s \o r)[Len(s) + k] = r[k]
      BY <1>1, <1>4, <1>6 DEF AmountsValid
    <3>. QED  BY <3>1
  <2>. QED  BY <2>1, <2>2 DEF AmountsValid
<1>7. AmountsValid(s) /\ AmountsValid(r) => AmountsValid(s \o r)
  BY <1>5 DEF AmountsValid
<1>. QED  BY <1>6, <1>7

Owed(splits, payer, n) == AmountSum(splits, OthersTo(splits, payer, n))
Share(splits, u, n)    == AmountSum(splits, SharesTo(splits, u, n))

\* What the loop's lines say after n turns.
LoopDone(lines, payer, splits, clearing, A, n) ==
  /\ lines \in Seq(LinesOn(A))
  /\ SideTotal(lines, DOMAIN lines, "DEBIT") = Owed(splits, payer, n)
  /\ SideTotal(lines, DOMAIN lines, "CREDIT") = Owed(splits, payer, n)
  /\ Balance(lines, clearing) = Owed(splits, payer, n)
  /\ \A u : Balance(lines, Wallet(u)) = IF u = payer THEN 0 ELSE -Share(splits, u, n)
  /\ \A a : (\A u : a # Wallet(u)) /\ a # clearing => Balance(lines, a) = 0
  /\ AmountsValid(lines) <=>
       \A i \in OthersTo(splits, payer, n) : splits[i].amount >= 1

\* One turn of the loop: the payer's own split adds nothing, another one adds a
\* transfer from the debtor to the clearing account.
LEMMA LoopTurn ==
  ASSUME NEW U, NEW payer, NEW splits \in Seq(Shares(U)), NEW clearing, NEW A,
         \A u : Wallet(u) # clearing, \A u \in U : Wallet(u) \in A, clearing \in A,
         NEW m \in Nat, m + 1 <= Len(splits),
         LoopDone(Loop(payer, splits, clearing)[m], payer, splits, clearing, A, m)
  PROVE  LoopDone(Loop(payer, splits, clearing)[m + 1], payer, splits, clearing, A, m + 1)
<1>. DEFINE n == m + 1  s == Loop(payer, splits, clearing)[m]
            l == Loop(payer, splits, clearing)[n]
            v == splits[n].user  x == splits[n].amount
<1>1. /\ n \in 0 .. Len(splits) /\ n # 0 /\ n - 1 = m /\ n \in DOMAIN splits
      /\ Len(splits) \in Nat /\ DOMAIN splits = 1 .. Len(splits)
      /\ 1 .. n = (1 .. m) \cup {n} /\ n \notin 1 .. m
  OBVIOUS
<1>2. l = IF v = payer THEN s ELSE s \o Owes(splits[n], clearing)
  BY <1>1, LoopTurns DEF Turn
<1>3. v \in U /\ x \in Int /\ \A y \in Shares(U) : y.amount \in Int
  <2>1. splits[n] \in Shares(U)
    BY <1>1
  <2>. HIDE DEF n
  <2>. QED  BY <2>1 DEF Shares
<1>4. /\ OthersTo(splits, payer, m) \in SUBSET (DOMAIN splits)
      /\ \A u : SharesTo(splits, u, m) \in SUBSET (DOMAIN splits)
  BY <1>1 DEF OthersTo, SharesTo
<1>5. \A u : u # v => SharesTo(splits, u, n) = SharesTo(splits, u, m)
  BY <1>1 DEF SharesTo
<1>6. v = payer => OthersTo(splits, payer, n) = OthersTo(splits, payer, m)
  BY <1>1 DEF OthersTo
<1>7. Owed(splits, payer, m) \in Int /\ \A u : Share(splits, u, m) \in Int
  BY <1>3, <1>4, RowsSum DEF Owed, Share
<1>8. /\ s \in Seq(LinesOn(A))
      /\ SideTotal(s, DOMAIN s, "DEBIT") = Owed(splits, payer, m)
      /\ SideTotal(s, DOMAIN s, "CREDIT") = Owed(splits, payer, m)
      /\ Balance(s, clearing) = Owed(splits, payer, m)
      /\ \A u : Balance(s, Wallet(u)) = IF u = payer THEN 0 ELSE -Share(splits, u, m)
      /\ \A a : (\A u : a # Wallet(u)) /\ a # clearing => Balance(s, a) = 0
      /\ AmountsValid(s) <=> \A i \in OthersTo(splits, payer, m) : splits[i].amount >= 1
  BY DEF LoopDone
<1>. HIDE DEF s, n
<1>9. CASE v = payer
  <2>1. /\ l = s /\ Owed(splits, payer, n) = Owed(splits, payer, m)
        /\ \A u : u # payer => Share(splits, u, n) = Share(splits, u, m)
    BY <1>2, <1>5, <1>6, <1>9 DEF Owed, Share
  <2>2. OthersTo(splits, payer, n) = OthersTo(splits, payer, m)
    BY <1>6, <1>9
  <2>. HIDE DEF l
  <2>. QED  BY <1>8, <2>1, <2>2 DEF LoopDone, l, n
<1>10. CASE v # payer
  <2>. DEFINE r == Transfer(Wallet(v), clearing, x)
  <2>1. l = s \o r
    BY <1>2, <1>10 DEF Owes, Transfer
  <2>2. /\ r \in Seq(LinesOn(A))
        /\ \A a : Balance(r, a) = (IF clearing = a THEN x ELSE 0)
                                    - (IF Wallet(v) = a THEN x ELSE 0)
        /\ SideTotal(r, DOMAIN r, "DEBIT") = x /\ SideTotal(r, DOMAIN r, "CREDIT") = x
        /\ AmountsValid(r) <=> x >= 1
    <3>1. Wallet(v) \in A /\ clearing \in A
      BY <1>3
    <3>. HIDE DEF x, v
    <3>. QED  BY <1>3, <3>1, TransferBalance
  <2>. HIDE DEF r
  <2>3. /\ SideTotal(l, DOMAIN l, "DEBIT") = Owed(splits, payer, m) + x
        /\ SideTotal(l, DOMAIN l, "CREDIT") = Owed(splits, payer, m) + x
    BY <1>8, <2>1, <2>2, LinesWhole, SideOfJoin
  <2>4. /\ \A a : Balance(l, a) = Balance(s, a) + Balance(r, a)
        /\ l \in Seq(LinesOn(A))
    BY <1>8, <2>1, <2>2, LinesWhole, BalanceOfJoin
  <2>5. Owed(splits, payer, n) = Owed(splits, payer, m) + x
    <3>1. /\ OthersTo(splits, payer, n) = OthersTo(splits, payer, m) \cup {n}
          /\ n \in DOMAIN splits \ OthersTo(splits, payer, m)
      BY <1>1, <1>10 DEF OthersTo
    <3>. QED  BY <1>3, <1>4, <3>1, AddRow DEF Owed
  <2>6. Share(splits, v, n) = Share(splits, v, m) + x
    <3>1. /\ SharesTo(splits, v, n) = SharesTo(splits, v, m) \cup {n}
          /\ n \in DOMAIN splits \ SharesTo(splits, v, m)
      BY <1>1 DEF SharesTo
    <3>. QED  BY <1>3, <1>4, <3>1, AddRow DEF Share
  <2>7. Balance(l, clearing) = Owed(splits, payer, n)
    <3>1. Balance(r, clearing) = x
      BY <1>3, <2>2
    <3>. QED  BY <1>7, <1>8, <2>4, <2>5, <3>1
  <2>8. ASSUME NEW u PROVE Balance(l, Wallet(u)) = IF u = payer THEN 0 ELSE -Share(splits, u, n)
    <3>1. CASE u = v
      <4>1. Balance(r, Wallet(u)) = -x
        BY <1>3, <2>2, <3>1
      <4>2. Balance(s, Wallet(u)) = -Share(splits, v, m) /\ Share(splits, v, m) \in Int
        BY <1>7, <1>8, <1>10, <3>1
      <4>. QED  BY <1>3, <1>10, <2>4, <2>6, <3>1, <4>1, <4>2
    <3>2. CASE u # v
      <4>1. Wallet(u) # Wallet(v)
        BY <3>2 DEF Wallet
      <4>2. Balance(r, Wallet(u)) = 0
        BY <2>2, <4>1
      <4>3. Share(splits, u, n) = Share(splits, u, m) /\ Share(splits, u, m) \in Int
        BY <1>5, <1>7, <3>2 DEF Share
      <4>4. Balance(s, Wallet(u)) = IF u = payer THEN 0 ELSE -Share(splits, u, m)
        BY <1>8
      <4>. QED  BY <2>4, <4>2, <4>3, <4>4
    <3>. QED  BY <3>1, <3>2
  <2>9. ASSUME NEW a, \A u : a # Wallet(u), a # clearing PROVE Balance(l, a) = 0
    <3>1. Balance(r, a) = 0 /\ Balance(s, a) = 0
      BY <1>8, <2>2, <2>9
    <3>. QED  BY <2>4, <3>1
  <2>10. AmountsValid(l) <=> \A i \in OthersTo(splits, payer, n) : splits[i].amount >= 1
    <3>1. AmountsValid(l) <=> AmountsValid(s) /\ AmountsValid(r)
      BY <1>8, <2>1, <2>2, ValidJoin
    <3>2. \A i : i \in OthersTo(splits, payer, n) <=> i = n \/ i \in OthersTo(splits, payer, m)
      BY <1>1, <1>10 DEF OthersTo
    <3>. QED  BY <1>8, <2>2, <3>1, <3>2
  <2>. HIDE DEF l, x, v
  <2>11. LoopDone(l, payer, splits, clearing, A, n)
    <3>1. \A a : (\A u : a # Wallet(u)) /\ a # clearing => Balance(l, a) = 0
      BY <2>9
    <3>. QED  BY <2>3, <2>4, <2>5, <2>7, <2>8, <2>10, <3>1 DEF LoopDone
  <2>. QED  BY <2>11 DEF n, l
<1>. QED  BY <1>9, <1>10

\* What the loop over the splits has posted when it ends.
LEMMA LoopLines ==
  ASSUME NEW U, NEW payer, NEW splits \in Seq(Shares(U)), NEW clearing, NEW A,
         \A u : Wallet(u) # clearing, \A u \in U : Wallet(u) \in A, clearing \in A
  PROVE  LoopDone(OwedLines(payer, splits, clearing), payer, splits, clearing, A, Len(splits))
<1>. DEFINE D(n) == LoopDone(Loop(payer, splits, clearing)[n], payer, splits, clearing, A, n)
            P == {n \in Nat : n <= Len(splits) => D(n)}
<1>1. 0 \in P
  <2>1. Loop(payer, splits, clearing)[0] = << >>
    <3>1. Len(splits) \in Nat /\ 0 \in 0 .. Len(splits)
      OBVIOUS
    <3>2. Loop(payer, splits, clearing)[0]
            = Turn(payer, splits, clearing, Loop(payer, splits, clearing), 0)
      BY <3>1, LoopTurns
    <3>. QED  BY <3>2 DEF Turn
  <2>2. OthersTo(splits, payer, 0) = {} /\ \A u : SharesTo(splits, u, 0) = {}
    BY DEF OthersTo, SharesTo
  <2>3. AmountSum(splits, {}) = 0
    BY SumEmpty DEF AmountSum, Sum
  <2>4. << >> \in Seq(LinesOn(A)) /\ AmountsValid(<< >>)
    BY DEF AmountsValid
  <2>5. Owed(splits, payer, 0) = 0 /\ \A u : Share(splits, u, 0) = 0
    BY <2>2, <2>3 DEF Owed, Share
  <2>6. LoopDone(<< >>, payer, splits, clearing, A, 0)
    <3>1. SideTotal(<< >>, DOMAIN << >>, "DEBIT") = 0
          /\ SideTotal(<< >>, DOMAIN << >>, "CREDIT") = 0
      <4>1. DOMAIN << >> = {}
        BY NoLines
      <4>. QED  BY <4>1, NoLines, Zenon
    <3>. QED  BY <2>2, <2>4, <2>5, <3>1, NoLines DEF LoopDone
  <2>. QED  BY <2>1, <2>6
<1>2. ASSUME NEW m \in Nat, m \in P PROVE m + 1 \in P
  <2>1. m + 1 <= Len(splits) => D(m)
    BY <1>2
  <2>2. m + 1 <= Len(splits) => D(m + 1)
    BY <2>1, LoopTurn
  <2>. QED  BY <2>2
<1>. HIDE DEF P
<1>3. \A n \in Nat : n \in P
  BY <1>1, <1>2, Induction
<1>4. Len(splits) \in Nat
  OBVIOUS
<1>5. D(Len(splits))
  BY <1>3, <1>4 DEF P
<1>. QED  BY <1>4, <1>5, LoopTurns

\* The journal of an expense balances, whatever the shares are; the ledger accepts
\* its lines if the others' shares are at least a cent each; then the journal
\* empties its clearing account and changes the wallets by what the splits say.
LEMMA ExpenseJournal ==
  ASSUME NEW U, NEW payer \in U, NEW splits \in Seq(Shares(U)), NEW clearing, NEW A,
         \A u : Wallet(u) # clearing, \A u \in U : Wallet(u) \in A, clearing \in A
  PROVE  /\ ExpenseLines(payer, splits, clearing) \in Seq(LinesOn(A))
         /\ IsBalanced(ExpenseLines(payer, splits, clearing))
         /\ \A a : (\A u : a # Wallet(u)) /\ a # clearing =>
              Balance(ExpenseLines(payer, splits, clearing), a) = 0
         /\ AmountsValid(ExpenseLines(payer, splits, clearing)) <=>
              \A i \in Others(splits, payer) : splits[i].amount >= 1
         /\ AmountsValid(ExpenseLines(payer, splits, clearing)) =>
              /\ Balance(ExpenseLines(payer, splits, clearing), clearing) = 0
              /\ \A u : Balance(ExpenseLines(payer, splits, clearing), Wallet(u))
                          = IF u = payer THEN AmountSum(splits, Others(splits, payer))
                            ELSE -AmountSum(splits, SharesOf(splits, u))
<1>. DEFINE s == OwedLines(payer, splits, clearing)
            l == ExpenseLines(payer, splits, clearing)
            n == Len(splits)
            total == AmountSum(splits, Others(splits, payer))
            r == PaidBack(payer, total, clearing)
            share(u) == AmountSum(splits, SharesOf(splits, u))
<1>1. /\ DOMAIN splits = 1 .. n /\ n \in Nat /\ \A i \in DOMAIN splits : splits[i] \in Shares(U)
      /\ \A y \in Shares(U) : y.amount \in Int
  <2>1. \A y \in Shares(U) : y.amount \in Int
    BY DEF Shares
  <2>. QED  BY <2>1
<1>2. /\ OthersTo(splits, payer, n) = Others(splits, payer)
      /\ \A u : SharesTo(splits, u, n) = SharesOf(splits, u)
  BY <1>1 DEF OthersTo, SharesTo, Others, SharesOf
<1>3. Owed(splits, payer, n) = total /\ \A u : Share(splits, u, n) = share(u)
  BY <1>2 DEF Owed, Share
<1>4. total \in Int /\ \A u : share(u) \in Int
  <2>1. /\ Others(splits, payer) \in SUBSET (DOMAIN splits)
        /\ \A u : SharesOf(splits, u) \in SUBSET (DOMAIN splits)
    BY DEF Others, SharesOf
  <2>. QED  BY <1>1, <2>1, RowsSum
<1>5. LoopDone(s, payer, splits, clearing, A, n)
  BY LoopLines
<1>6. l = IF total > 0 THEN s \o r ELSE s
  <2>1. s \in Seq(LinesOn(A))
    BY <1>5 DEF LoopDone
  <2>. QED  BY <2>1 DEF ExpenseLines
<1>. HIDE DEF s, l, total, share, n
<1>7. /\ s \in Seq(LinesOn(A))
      /\ SideTotal(s, DOMAIN s, "DEBIT") = total
      /\ SideTotal(s, DOMAIN s, "CREDIT") = total
      /\ Balance(s, clearing) = total
      /\ \A u : Balance(s, Wallet(u)) = IF u = payer THEN 0 ELSE -share(u)
      /\ \A a : (\A u : a # Wallet(u)) /\ a # clearing => Balance(s, a) = 0
      /\ AmountsValid(s) <=> \A i \in Others(splits, payer) : splits[i].amount >= 1
  BY <1>2, <1>3, <1>5 DEF LoopDone
<1>8. /\ r = Transfer(clearing, Wallet(payer), total)
      /\ r \in Seq(LinesOn(A))
      /\ \A a : Balance(r, a) = (IF Wallet(payer) = a THEN total ELSE 0)
                                  - (IF clearing = a THEN total ELSE 0)
      /\ SideTotal(r, DOMAIN r, "DEBIT") = total /\ SideTotal(r, DOMAIN r, "CREDIT") = total
      /\ AmountsValid(r) <=> total >= 1
  <2>1. r = Transfer(clearing, Wallet(payer), total)
    BY DEF PaidBack, Transfer
  <2>2. clearing \in A /\ Wallet(payer) \in A
    OBVIOUS
  <2>. HIDE DEF r
  <2>. QED  BY <1>4, <2>1, <2>2, TransferBalance
<1>. HIDE DEF r
<1>9. CASE ~(total > 0)
  <2>1. l = s
    BY <1>6, <1>9
  <2>2. AmountsValid(s) => total = 0
    <3>1. ASSUME AmountsValid(s) PROVE total >= 0
      <4>1. Others(splits, payer) \in SUBSET (DOMAIN splits)
        BY DEF Others
      <4>2. /\ IsFiniteSet(Others(splits, payer))
            /\ total = Sum(AmountsOf(splits), Others(splits, payer))
        BY <1>1, <4>1, RowsSum DEF total
      <4>3. ASSUME NEW i \in Others(splits, payer) PROVE AmountsOf(splits)[i] \in Nat
        <5>1. AmountsOf(splits)[i] = splits[i].amount /\ splits[i].amount \in Int
          BY <1>1, <4>1 DEF AmountsOf
        <5>. QED  BY <1>7, <3>1, <5>1
      <4>. QED  BY <4>2, <4>3, SumNat
    <3>. QED  BY <1>4, <1>9, <3>1
  <2>3. IsBalanced(l)
    BY <1>7, <2>1 DEF IsBalanced
  <2>4. AmountsValid(s) =>
          \A u : Balance(s, Wallet(u)) = IF u = payer THEN total ELSE -share(u)
    BY <1>7, <2>2
  <2>. QED  BY <1>7, <2>1, <2>2, <2>3, <2>4 DEF l, total, share
<1>10. CASE total > 0
  <2>1. l = s \o r
    BY <1>6, <1>10
  <2>2. IsBalanced(l)
    <3>1. /\ SideTotal(l, DOMAIN l, "DEBIT") = total + total
          /\ SideTotal(l, DOMAIN l, "CREDIT") = total + total
      BY <1>7, <1>8, <2>1, LinesWhole, SideOfJoin
    <3>. QED  BY <3>1 DEF IsBalanced
  <2>3. /\ l \in Seq(LinesOn(A))
        /\ \A a : Balance(l, a) = Balance(s, a) + Balance(r, a)
    BY <1>7, <1>8, <2>1, LinesWhole, BalanceOfJoin
  <2>4. Balance(l, clearing) = 0
    <3>1. Wallet(payer) # clearing
      OBVIOUS
    <3>2. Balance(r, clearing) = 0 - total
      BY <1>8, <3>1
    <3>. QED  BY <1>4, <1>7, <2>3, <3>2
  <2>5. ASSUME NEW a, \A u : a # Wallet(u), a # clearing PROVE Balance(l, a) = 0
    <3>1. Balance(s, a) = 0 /\ Balance(r, a) = 0
      BY <1>7, <1>8, <2>5
    <3>. QED  BY <2>3, <3>1
  <2>6. ASSUME NEW u
        PROVE  Balance(l, Wallet(u)) = IF u = payer THEN total ELSE -share(u)
    <3>1. CASE u = payer
      <4>1. Balance(r, Wallet(u)) = total /\ Balance(s, Wallet(u)) = 0
        BY <1>4, <1>7, <1>8, <3>1
      <4>. QED  BY <1>4, <2>3, <3>1, <4>1
    <3>2. CASE u # payer
      <4>1. Wallet(payer) # Wallet(u)
        BY <3>2 DEF Wallet
      <4>2. Balance(r, Wallet(u)) = 0
        BY <1>8, <4>1
      <4>3. Balance(s, Wallet(u)) = -share(u)
        BY <1>7, <3>2
      <4>. QED  BY <1>4, <2>3, <3>2, <4>2, <4>3
    <3>. QED  BY <3>1, <3>2
  <2>7. AmountsValid(l) <=> \A i \in Others(splits, payer) : splits[i].amount >= 1
    <3>1. AmountsValid(l) <=> AmountsValid(s) /\ AmountsValid(r)
      BY <1>7, <1>8, <2>1, ValidJoin
    <3>2. AmountsValid(r)
      BY <1>4, <1>8, <1>10
    <3>. QED  BY <1>7, <3>1, <3>2
  <2>. QED  BY <2>2, <2>3, <2>4, <2>5, <2>6, <2>7 DEF l, total, share
<1>. QED  BY <1>4, <1>9, <1>10

\* The same of the balances alone, whatever the set of accounts.
LEMMA ExpenseBalances ==
  ASSUME NEW U, NEW payer \in U, NEW splits \in Seq(Shares(U)), NEW clearing,
         \A u : Wallet(u) # clearing
  PROVE  /\ IsBalanced(ExpenseLines(payer, splits, clearing))
         /\ \A a : (\A u : a # Wallet(u)) /\ a # clearing =>
              Balance(ExpenseLines(payer, splits, clearing), a) = 0
         /\ AmountsValid(ExpenseLines(payer, splits, clearing)) <=>
              \A i \in Others(splits, payer) : splits[i].amount >= 1
         /\ AmountsValid(ExpenseLines(payer, splits, clearing)) =>
              /\ Balance(ExpenseLines(payer, splits, clearing), clearing) = 0
              /\ \A u : Balance(ExpenseLines(payer, splits, clearing), Wallet(u))
                          = IF u = payer THEN AmountSum(splits, Others(splits, payer))
                            ELSE -AmountSum(splits, SharesOf(splits, u))
<1>. DEFINE A == {Wallet(v) : v \in U} \cup {clearing}
<1>1. (\A v \in U : Wallet(v) \in A) /\ clearing \in A
  OBVIOUS
<1>. HIDE DEF A
<1>2. ExpenseLines(payer, splits, clearing) \in Seq(LinesOn(A))
  BY <1>1, ExpenseJournal
<1>. QED  BY <1>1, <1>2, ExpenseJournal

\* The same of the wallets, for a transaction.
LEMMA ExpenseWallets ==
  ASSUME NEW U, NEW tx, tx.payer \in U, tx.splits \in Seq(Shares(U)), NEW clearing,
         \A v : Wallet(v) # clearing, NEW u,
         AmountsValid(ExpenseLines(tx.payer, tx.splits, clearing))
  PROVE  Balance(ExpenseLines(tx.payer, tx.splits, clearing), Wallet(u)) = NetOf(tx, u)
<1>1. Balance(ExpenseLines(tx.payer, tx.splits, clearing), Wallet(u))
        = IF u = tx.payer THEN AmountSum(tx.splits, Others(tx.splits, tx.payer))
          ELSE -AmountSum(tx.splits, SharesOf(tx.splits, u))
  BY ExpenseBalances
<1>. QED  BY <1>1 DEF NetOf

\* The journal of a settlement balances, empties its clearing account and moves
\* the amount from one wallet to the other.
LEMMA SettlementJournal ==
  ASSUME NEW payer, NEW payee, NEW amount \in Int, NEW clearing, NEW A,
         \A u : Wallet(u) # clearing,
         Wallet(payer) \in A, Wallet(payee) \in A, clearing \in A
  PROVE  /\ SettlementLines(payer, payee, amount, clearing) \in Seq(LinesOn(A))
         /\ IsBalanced(SettlementLines(payer, payee, amount, clearing))
         /\ \A a : (\A u : a # Wallet(u)) =>
              Balance(SettlementLines(payer, payee, amount, clearing), a) = 0
<1>. DEFINE l == SettlementLines(payer, payee, amount, clearing)
            s == Transfer(Wallet(payer), clearing, amount)
            r == Transfer(clearing, Wallet(payee), amount)
<1>1. l = s \o r
  BY DEF SettlementLines, Transfer
<1>. HIDE DEF s, r, l
<1>2. /\ s \in Seq(LinesOn(A))
      /\ \A a : Balance(s, a) = (IF clearing = a THEN amount ELSE 0)
                                  - (IF Wallet(payer) = a THEN amount ELSE 0)
      /\ SideTotal(s, DOMAIN s, "DEBIT") = amount /\ SideTotal(s, DOMAIN s, "CREDIT") = amount
  BY TransferBalance DEF s
<1>3. /\ r \in Seq(LinesOn(A))
      /\ \A a : Balance(r, a) = (IF Wallet(payee) = a THEN amount ELSE 0)
                                  - (IF clearing = a THEN amount ELSE 0)
      /\ SideTotal(r, DOMAIN r, "DEBIT") = amount /\ SideTotal(r, DOMAIN r, "CREDIT") = amount
  BY TransferBalance DEF r
<1>4. IsBalanced(l)
  <2>1. /\ SideTotal(l, DOMAIN l, "DEBIT") = amount + amount
        /\ SideTotal(l, DOMAIN l, "CREDIT") = amount + amount
    BY <1>1, <1>2, <1>3, LinesWhole, SideOfJoin
  <2>. QED  BY <2>1 DEF IsBalanced
<1>5. ASSUME NEW a, \A u : a # Wallet(u) PROVE Balance(l, a) = 0
  <2>1. Balance(l, a) = Balance(s, a) + Balance(r, a)
    BY <1>1, <1>2, <1>3, LinesWhole, BalanceOfJoin
  <2>2. /\ Balance(s, a) = IF clearing = a THEN amount ELSE 0
        /\ Balance(r, a) = 0 - (IF clearing = a THEN amount ELSE 0)
    BY <1>2, <1>3, <1>5
  <2>. QED  BY <2>1, <2>2
<1>. QED  BY <1>1, <1>2, <1>3, <1>4, <1>5 DEF l

-----------------------------------------------------------------------------
(* Net balances. *)

\* What an expense adds to the net balances of all members cancels.
LEMMA NetsCancel ==
  ASSUME NEW U, IsFiniteSet(U), NEW tx, tx.payer \in U, tx.splits \in Seq(Shares(U)),
         NEW net, \A u \in U : net[u] = NetOf(tx, u)
  PROVE  (\A u \in U : net[u] \in Int) /\ Sum(net, U) = 0
<1>. DEFINE payer == tx.payer  splits == tx.splits  f == AmountsOf(splits)
            S == Others(splits, payer)  K == U \ {payer}
            part == [u \in K |-> SharesOf(splits, u)]  g == [u \in K |-> -net[u]]
<1>1. \A y \in Shares(U) : y.amount \in Int /\ y.user \in U
  BY DEF Shares
<1>2. /\ S \in SUBSET (DOMAIN splits)
      /\ \A u : SharesOf(splits, u) \in SUBSET (DOMAIN splits)
      /\ \A i \in DOMAIN splits : splits[i] \in Shares(U)
  BY DEF Others, SharesOf
<1>3. /\ IsFiniteSet(S) /\ \A i \in S : f[i] \in Int
      /\ AmountSum(splits, S) = Sum(f, S) /\ AmountSum(splits, S) \in Int
  BY <1>1, <1>2, RowsSum
<1>4. ASSUME NEW u
      PROVE  /\ AmountSum(splits, SharesOf(splits, u)) = Sum(f, SharesOf(splits, u))
             /\ AmountSum(splits, SharesOf(splits, u)) \in Int
  BY <1>1, <1>2, RowsSum
<1>5. net[payer] = Sum(f, S) /\ net[payer] \in Int
  BY <1>3 DEF NetOf
<1>6. ASSUME NEW u \in K
      PROVE  /\ net[u] \in Int /\ net[u] = -1 * g[u]
             /\ part[u] \subseteq S /\ g[u] = Sum(f, part[u])
  <2>1. part[u] = SharesOf(splits, u) /\ u # payer
    OBVIOUS
  <2>2. net[u] = -Sum(f, part[u]) /\ Sum(f, part[u]) \in Int
    BY <1>4, <2>1 DEF NetOf
  <2>3. net[u] \in Int /\ g[u] = -net[u]
    BY <2>2
  <2>4. g[u] = Sum(f, part[u]) /\ net[u] = -1 * g[u]
    <3>. HIDE DEF part, g
    <3>. QED  BY <2>2, <2>3
  <2>5. part[u] \subseteq S
    BY <2>1 DEF Others, SharesOf
  <2>. QED  BY <2>3, <2>4, <2>5
<1>7. \A i \in S : \E u \in K : i \in part[u]
  <2>1. \A i \in S : splits[i].user \in K /\ i \in DOMAIN splits
    BY <1>1, <1>2 DEF Others
  <2>. QED  BY <2>1 DEF SharesOf
<1>8. \A u, v \in K : u # v => part[u] \cap part[v] = {}
  BY DEF SharesOf
<1>9. IsFiniteSet(K) /\ payer \notin K /\ K \cup {payer} = U
  BY FS_RemoveElement
<1>. HIDE DEF f, g, part, S, K, payer
<1>10. Sum(g, K) = Sum(f, S) /\ \A u \in K : g[u] \in Int
  <2>1. \A u \in K : part[u] \subseteq S /\ g[u] = Sum(f, part[u])
    BY <1>6
  <2>2. \A i \in S : f[i] \in Int
    BY <1>3
  <2>. QED  BY <1>3, <1>7, <1>8, <1>9, <2>1, <2>2, SumByParts
<1>11. Sum(net, K) = -Sum(g, K)
  <2>. DEFINE m == -1
  <2>1. m \in Int /\ \A u \in K : g[u] \in Int /\ net[u] = m * g[u]
    BY <1>6, <1>10
  <2>. HIDE DEF m
  <2>2. Sum(net, K) = m * Sum(g, K)
    BY <1>9, <2>1, SumTimes
  <2>3. Sum(g, K) \in Int
    BY <1>3, <1>10
  <2>. QED  BY <2>2, <2>3 DEF m
<1>12. \A u \in K \cup {payer} : net[u] \in Int
  BY <1>5, <1>6
<1>13. Sum(net, K \cup {payer}) = Sum(net, K) + net[payer]
  BY <1>9, <1>12, SumAdd
<1>14. Sum(net, K \cup {payer}) = 0
  BY <1>3, <1>5, <1>10, <1>11, <1>13
<1>. QED  BY <1>9, <1>12, <1>14

\* The net balances of one transaction.
LEMMA OneTransaction ==
  ASSUME NEW tx, NEW u, NetOf(tx, u) \in Int
  PROVE  NetBalance(<<tx>>, u) = NetOf(tx, u)
<1>. DEFINE f == [i \in DOMAIN <<tx>> |-> NetOf(<<tx>>[i], u)]
<1>1. DOMAIN f = {1} /\ f[1] = NetOf(tx, u)
  OBVIOUS
<1>2. NetBalance(<<tx>>, u) = Sum(f, {} \cup {1})
  <2>1. {} \cup {1} = DOMAIN f
    BY <1>1
  <2>. QED  BY <2>1 DEF NetBalance, SumFunction, SumFunctionOnSet, FoldFunction,
                        FoldFunctionOnSet, Sum
<1>. HIDE DEF f
<1>3. Sum(f, {}) = 0 /\ IsFiniteSet({})
  BY SumEmpty, FS_EmptySet
<1>4. Sum(f, {} \cup {1}) = Sum(f, {}) + f[1]
  <2>1. 1 \notin {} /\ \A x \in {} \cup {1} : f[x] \in Int
    BY <1>1
  <2>. QED  BY <1>3, <2>1, SumAdd
<1>. QED  BY <1>1, <1>2, <1>3, <1>4

-----------------------------------------------------------------------------
(* The three ways to split. *)

\* A sum of equal summands.
LEMMA SumConstant ==
  ASSUME NEW n \in Nat, NEW c \in Int, NEW f, \A i \in 1 .. n : f[i] = c
  PROVE  Sum(f, 1 .. n) = n * c
<1>. DEFINE P == {m \in Nat : m <= n => Sum(f, 1 .. m) = m * c}
<1>1. 0 \in P
  <2>1. 1 .. 0 = {}
    OBVIOUS
  <2>. QED  BY <2>1, SumEmpty
<1>2. ASSUME NEW m \in Nat, m \in P PROVE m + 1 \in P
  <2>1. ASSUME m + 1 <= n PROVE Sum(f, 1 .. m + 1) = (m + 1) * c
    <3>1. 1 .. m + 1 = (1 .. m) \cup {m + 1} /\ m + 1 \notin 1 .. m
      OBVIOUS
    <3>2. IsFiniteSet(1 .. m)
      BY FS_Interval
    <3>3. \A x \in (1 .. m) \cup {m + 1} : f[x] \in Int
      BY <2>1
    <3>4. Sum(f, (1 .. m) \cup {m + 1}) = Sum(f, 1 .. m) + f[m + 1]
      BY <3>1, <3>2, <3>3, SumAdd
    <3>5. f[m + 1] = c /\ Sum(f, 1 .. m) = m * c
      BY <1>2, <2>1
    <3>6. m * c + c = (m + 1) * c
      OBVIOUS
    <3>. QED  BY <3>1, <3>4, <3>5, <3>6
  <2>. QED  BY <2>1
<1>. HIDE DEF P
<1>3. \A m \in Nat : m \in P
  BY <1>1, <1>2, Induction
<1>. QED  BY <1>3 DEF P

\* Equal shares are shares of the members, and add up.
LEMMA EqualShares ==
  ASSUME NEW U, NEW users \in Seq(U), users # << >>, NEW total \in Nat
  PROVE  /\ SplitEqual(total, users) \in Seq(Shares(U))
         /\ SplitEqual(total, users) # << >>
         /\ Total(SplitEqual(total, users)) = total
<1>. DEFINE n == Len(users)  s == SplitEqual(total, users)  f == AmountsOf(s)
            q == total \div n  r == total % n
            base == [i \in 1 .. n |-> q]  less == [i \in 1 .. n |-> IF i <= r THEN -1 ELSE 0]
<1>1. n \in Nat \ {0} /\ \A i \in 1 .. n : users[i] \in U
  OBVIOUS
<1>2. q \in Int /\ r \in 0 .. n - 1 /\ total = n * q + r
  BY <1>1, SMTT(30)
<1>. HIDE DEF q, r
<1>3. /\ s = [i \in 1 .. n |-> [user |-> users[i], amount |-> q + (IF i <= r THEN 1 ELSE 0)]]
      /\ DOMAIN s = 1 .. n
  BY DEF SplitEqual, q, r
<1>4. s \in Seq(Shares(U)) /\ s # << >>
  <2>1. \A i \in 1 .. n : s[i] \in Shares(U)
    <3>. HIDE DEF s
    <3>1. SUFFICES ASSUME NEW i \in 1 .. n PROVE s[i] \in Shares(U)
      OBVIOUS
    <3>2. s[i] = [user |-> users[i], amount |-> q + (IF i <= r THEN 1 ELSE 0)]
      BY <1>3
    <3>3. q + (IF i <= r THEN 1 ELSE 0) \in Int
      BY <1>2
    <3>. QED  BY <1>1, <3>2, <3>3 DEF Shares
  <2>2. s = [i \in 1 .. n |-> s[i]]
    <3>. HIDE DEF s
    <3>. QED  BY <1>3
  <2>. HIDE DEF s
  <2>3. s \in Seq(Shares(U))
    BY <1>1, <2>1, <2>2
  <2>. QED  BY <1>1, <1>3, <2>3
<1>5. IsFiniteSet(1 .. n) /\ IsFiniteSet(1 .. r) /\ 1 .. r \in SUBSET (1 .. n)
  <2>1. n \in Int /\ r \in Int /\ r <= n
    BY <1>1, <1>2
  <2>2. IsFiniteSet(1 .. n) /\ IsFiniteSet(1 .. r)
    BY <2>1, FS_Interval
  <2>. QED  BY <2>1, <2>2
<1>6. Sum(base, 1 .. n) = n * q
  BY <1>1, <1>2, SumConstant
<1>7. Sum(less, 1 .. n) = -r
  <2>1. \A i \in 1 .. r : less[i] = -1
    BY <1>5
  <2>2. \A i \in (1 .. n) \ (1 .. r) : less[i] = 0
    BY <1>2
  <2>3. \A i \in 1 .. n : less[i] \in Int
    OBVIOUS
  <2>. HIDE DEF less
  <2>4. Sum(less, 1 .. n) = Sum(less, 1 .. r)
    BY <1>5, <2>2, <2>3, SumNonzero
  <2>5. r \in Nat /\ -1 \in Int
    BY <1>1, <1>2
  <2>6. Sum(less, 1 .. r) = r * (-1)
    BY <2>1, <2>5, SumConstant
  <2>. QED  BY <2>4, <2>5, <2>6
<1>8. \A i \in 1 .. n : base[i] \in Int /\ less[i] \in Int /\ f[i] = base[i] - less[i]
  <2>. HIDE DEF s
  <2>. QED  BY <1>2, <1>3 DEF AmountsOf
<1>. HIDE DEF s, base, less
<1>9. Sum(f, 1 .. n) = Sum(base, 1 .. n) - Sum(less, 1 .. n)
  BY <1>5, <1>8, SumMinus
<1>10. Total(s) = Sum(f, 1 .. n)
  BY <1>3 DEF Total, AmountSum, Sum, AmountsOf
<1>. QED  BY <1>2, <1>4, <1>6, <1>7, <1>9, <1>10 DEF s

\* Bounds of the summands bound the sum.
LEMMA SumBounds ==
  ASSUME NEW S, IsFiniteSet(S), NEW f, NEW lo \in Int, NEW hi \in Int,
         \A x \in S : f[x] \in Int /\ lo <= f[x] /\ f[x] <= hi
  PROVE  /\ Cardinality(S) \in Nat
         /\ Cardinality(S) * lo <= Sum(f, S) /\ Sum(f, S) <= Cardinality(S) * hi
<1>. DEFINE P == {T \in SUBSET S : /\ Cardinality(T) * lo <= Sum(f, T)
                                   /\ Sum(f, T) <= Cardinality(T) * hi}
<1>1. {} \in P
  <2>1. Cardinality({}) = 0 /\ Sum(f, {}) = 0
    BY SumEmpty, FS_EmptySet
  <2>. QED  BY <2>1
<1>2. ASSUME NEW T \in SUBSET S, T \in P, NEW x \in S \ T PROVE T \cup {x} \in P
  <2>1. IsFiniteSet(T)
    BY FS_Subset
  <2>2. Cardinality(T \cup {x}) = Cardinality(T) + 1 /\ Cardinality(T) \in Nat
    BY <2>1, FS_AddElement, FS_CardinalityType
  <2>3. \A y \in T \cup {x} : f[y] \in Int
    OBVIOUS
  <2>4. Sum(f, T \cup {x}) = Sum(f, T) + f[x] /\ Sum(f, T) \in Int
    BY <2>1, <2>3, SumAdd
  <2>. DEFINE c == Cardinality(T)
  <2>5. (c + 1) * lo = c * lo + lo /\ (c + 1) * hi = c * hi + hi
        /\ c * lo \in Int /\ c * hi \in Int
    <3>1. \A k \in Nat : /\ (k + 1) * lo = k * lo + lo /\ (k + 1) * hi = k * hi + hi
                         /\ k * lo \in Int /\ k * hi \in Int
      OBVIOUS
    <3>. HIDE DEF c
    <3>2. c \in Nat
      BY <2>2 DEF c
    <3>. QED  BY <3>1, <3>2
  <2>6. c * lo <= Sum(f, T) /\ Sum(f, T) <= c * hi
    BY <1>2
  <2>7. f[x] \in Int /\ lo <= f[x] /\ f[x] <= hi
    OBVIOUS
  <2>. HIDE DEF P
  <2>8. (c + 1) * lo <= Sum(f, T) + f[x] /\ Sum(f, T) + f[x] <= (c + 1) * hi
    <3>. HIDE DEF c
    <3>. QED  BY <2>4, <2>5, <2>6, <2>7
  <2>. QED  BY <2>2, <2>4, <2>8 DEF P
<1>. HIDE DEF P
<1>3. \A T \in SUBSET S : T \in P
  BY <1>1, <1>2, SetInduction
<1>. QED  BY <1>3, FS_CardinalityType DEF P

\* What is cut off is less than one, and has the sign of what it is cut from.
LEMMA TruncatedBounds ==
  ASSUME NEW x \in Int, NEW d \in Nat \ {0}
  PROVE  /\ Truncated(x, d) \in Int
         /\ x >= 0 => x - d * Truncated(x, d) \in 0 .. d - 1
         /\ x <= 0 => x - d * Truncated(x, d) \in 1 - d .. 0
<1>1. ASSUME NEW y \in Int
      PROVE  /\ y \div d \in Int /\ d * (y \div d) \in Int
             /\ d * (y \div d) <= y /\ y < d * (y \div d) + d
  <2>1. y \div d \in Int /\ y % d \in 0 .. d - 1 /\ y = d * (y \div d) + (y % d)
    BY SMT
  <2>2. \A z \in Int : d * z \in Int
    BY SMT
  <2>. QED  BY <2>1, <2>2, SMT
<1>2. CASE x >= 0
  <2>1. Truncated(x, d) = x \div d
    BY <1>2 DEF Truncated
  <2>2. /\ x \div d \in Int /\ d * (x \div d) \in Int
        /\ d * (x \div d) <= x /\ x < d * (x \div d) + d
    BY <1>1
  <2>. DEFINE m == d * (x \div d)
  <2>3. m \in Int /\ m <= x /\ x < m + d /\ m = d * Truncated(x, d) /\ Truncated(x, d) \in Int
    BY <2>1, <2>2
  <2>4. x = 0 => m = 0
    <3>1. 0 \div d = 0 /\ d * 0 = 0
      BY SMT
    <3>. QED  BY <3>1
  <2>. HIDE DEF m
  <2>. QED  BY <1>2, <2>3, <2>4, SMT
<1>3. CASE x < 0
  <2>. DEFINE y == -x
  <2>1. Truncated(x, d) = -(y \div d) /\ y \in Int
    BY <1>3 DEF Truncated
  <2>. DEFINE m == d * (y \div d)
  <2>. HIDE DEF y
  <2>2. /\ y \div d \in Int /\ m \in Int /\ m <= y /\ y < m + d
    BY <1>1, <2>1
  <2>3. d * Truncated(x, d) = -m /\ Truncated(x, d) \in Int
    <3>1. \A z \in Int : d * (-z) = -(d * z) /\ -z \in Int
      BY SMT
    <3>. QED  BY <2>1, <2>2, <3>1
  <2>. HIDE DEF m
  <2>4. x = -y
    BY DEF y
  <2>. QED  BY <1>3, <2>1, <2>2, <2>3, <2>4, SMT
<1>. QED  BY <1>2, <1>3

\* A percentage share is off towards zero, by less than a cent, or by the cent
\* that a float may lose.
LEMMA PercentageShareBounds ==
  ASSUME NEW total \in Nat, NEW pct \in Int
  PROVE  LET off == total * pct - Hundred * PercentageShare(total, pct)
         IN  /\ PercentageShare(total, pct) \in Int
             /\ pct < 0 => off \in -Hundred .. 0
             /\ ~(pct < 0) => off \in 0 .. Hundred
<1>. DEFINE x == total * pct  part == Truncated(x, Hundred)  h == Hundred
            share == PercentageShare(total, pct)
<1>1. h \in Nat \ {0}
  BY SMT DEF Hundred
<1>2. x \in Int /\ (pct < 0 => x <= 0) /\ (~(pct < 0) => x >= 0)
  OBVIOUS
<1>3. \/ share = part
      \/ /\ x # 0 /\ x % h = 0
         /\ share = IF x > 0 THEN part - 1 ELSE part + 1
  BY FloatsAssumption DEF PercentageShare
<1>4. /\ part \in Int
      /\ x >= 0 => x - h * part \in 0 .. h - 1
      /\ x <= 0 => x - h * part \in 1 - h .. 0
  BY <1>1, <1>2, TruncatedBounds
<1>. HIDE DEF x, part, h, share
<1>5. ASSUME x % h = 0 PROVE x - h * part = 0
  <2>1. x = h * (x \div h) /\ x \div h \in Int
    BY <1>1, <1>2, <1>5
  <2>. DEFINE m == x \div h - part
  <2>2. m \in Int /\ x - h * part = h * m
    BY <1>1, <1>4, <2>1, SMT
  <2>. HIDE DEF m
  <2>3. 1 - h <= h * m /\ h * m <= h - 1
    BY <1>1, <1>2, <1>4, <2>2
  <2>4. (m >= 1 => h * m >= h) /\ (m <= -1 => h * m <= -h)
    BY <1>1, <2>2, SMT
  <2>5. m = 0
    BY <1>1, <2>2, <2>3, <2>4
  <2>. QED  BY <1>1, <2>2, <2>5
<1>6. CASE share = part
  BY <1>1, <1>2, <1>4, <1>6 DEF x, h, share
<1>7. CASE x # 0 /\ x % h = 0 /\ share = IF x > 0 THEN part - 1 ELSE part + 1
  <2>1. h * (part - 1) = h * part - h /\ h * (part + 1) = h * part + h
    BY <1>1, <1>4, SMT
  <2>2. h * part = x
    BY <1>1, <1>2, <1>4, <1>5, <1>7
  <2>3. /\ share \in Int
        /\ x > 0 => x - h * share = h
        /\ x < 0 => x - h * share = -h
    BY <1>1, <1>2, <1>4, <1>7, <2>1, <2>2
  <2>. QED  BY <1>1, <1>2, <1>7, <2>3 DEF x, h, share
<1>. QED  BY <1>3, <1>6, <1>7

\* Asked percentages of users of any set.
Percents(U) == [user : U, pct : Int]

\* How far a share is from the exact one, in thousandths of a percent of a cent.
Off(total, given, s, i) == total * given[i].pct - Hundred * s[i].amount
PctTotal(given) == SumFunction([i \in DOMAIN given |-> given[i].pct])

\* Percentage shares add up; all but the last are rounded towards zero, give or
\* take the cent of a float, and the last makes up for it and for percentages that do not add up to 100.
LEMMA PercentageShares ==
  ASSUME NEW U, NEW given \in Seq(Percents(U)), given # << >>, NEW total \in Nat
  PROVE  LET s    == SplitPercentage(total, given)
             n    == Len(given)
             up   == {i \in 1 .. n - 1 : given[i].pct < 0}
             off  == Off(total, given, s, n)
         IN  /\ s \in Seq(Shares(U)) /\ s # << >> /\ Len(s) = n
             /\ Total(s) = total
             /\ \A i \in 1 .. n - 1 :
                  Off(total, given, s, i)
                    \in IF given[i].pct < 0 THEN -Hundred .. 0 ELSE 0 .. Hundred
             /\ PctTotal(given) \in Int /\ off \in Int /\ Cardinality(up) \in Nat
             /\ off >= total * (PctTotal(given) - Hundred)
                         - (n - 1 - Cardinality(up)) * Hundred
             /\ off <= total * (PctTotal(given) - Hundred) + Cardinality(up) * Hundred
<1>. DEFINE s == SplitPercentage(total, given)  n == Len(given)  M == 1 .. n - 1
            part == [i \in M |-> PercentageShare(total, given[i].pct)]
            rest == total - SumFunction(part)
            f == AmountsOf(s)  pct == [i \in DOMAIN given |-> given[i].pct]
            exact == [i \in M |-> total * pct[i]]
            cents == [i \in M |-> Hundred * f[i]]
            off == [i \in M |-> exact[i] - cents[i]]
            up == {i \in M : given[i].pct < 0}  down == M \ up
            last == Off(total, given, s, n)
<1>1. Hundred \in Nat \ {0}
  BY SMT DEF Hundred
<1>2. /\ n \in Nat \ {0} /\ DOMAIN given = 1 .. n /\ n - 1 \in Nat
      /\ 1 .. n = M \cup {n} /\ n \notin M
  OBVIOUS
<1>3. \A i \in 1 .. n : given[i].user \in U /\ given[i].pct \in Int
  <2>1. \A i \in 1 .. n : given[i] \in Percents(U)
    BY <1>2
  <2>. QED  BY <2>1 DEF Percents
<1>4. /\ s = [i \in 1 .. n |-> [user |-> given[i].user,
                                amount |-> IF i = n THEN rest ELSE part[i]]]
  <2>1. SumFunction(part)
          = SumFunction([i \in 1 .. n - 1 |-> PercentageShare(total, given[i].pct)])
    OBVIOUS
  <2>2. \A i \in 1 .. n : i # n => part[i] = PercentageShare(total, given[i].pct)
    BY <1>2
  <2>. QED  BY <2>2 DEF SplitPercentage
<1>5. IsFiniteSet(M) /\ IsFiniteSet(up) /\ IsFiniteSet(down)
      /\ up \cup down = M /\ up \cap down = {}
  <2>1. IsFiniteSet(M)
    BY <1>2, FS_Interval
  <2>. QED  BY <2>1, FS_Subset
<1>6. ASSUME NEW i \in M
      PROVE  /\ total * given[i].pct \in Int /\ part[i] \in Int
             /\ given[i].pct < 0 =>
                  total * given[i].pct - Hundred * part[i] \in -Hundred .. 0
             /\ ~(given[i].pct < 0) =>
                  total * given[i].pct - Hundred * part[i] \in 0 .. Hundred
  <2>1. given[i].pct \in Int /\ i \in M
    BY <1>2, <1>3
  <2>2. part[i] = PercentageShare(total, given[i].pct)
    OBVIOUS
  <2>. DEFINE p == given[i].pct  share == PercentageShare(total, p)
  <2>3. total * p \in Int
    BY <2>1
  <2>. HIDE DEF part, p, share
  <2>4. /\ share \in Int
        /\ p < 0 => total * p - Hundred * share \in -Hundred .. 0
        /\ ~(p < 0) => total * p - Hundred * share \in 0 .. Hundred
    BY <2>1, PercentageShareBounds DEF p, share
  <2>5. part[i] = share
    BY <2>2 DEF p, share
  <2>. QED  BY <2>3, <2>4, <2>5 DEF p
<1>7. SumFunction(part) = Sum(part, M)
  BY DEF SumFunction, SumFunctionOnSet, FoldFunction, FoldFunctionOnSet, Sum
<1>8. Sum(part, M) \in Int /\ rest \in Int
  <2>1. Sum(part, M) \in Int
    BY <1>5, <1>6, SumInt
  <2>. QED  BY <1>7, <2>1
<1>. HIDE DEF part, rest, s
<1>9. /\ DOMAIN s = 1 .. n
      /\ \A i \in 1 .. n : /\ s[i].user = given[i].user
                           /\ s[i].amount = IF i = n THEN rest ELSE part[i]
      /\ \A i \in 1 .. n : s[i] \in Shares(U)
  <2>1. \A i \in 1 .. n : (IF i = n THEN rest ELSE part[i]) \in Int
    BY <1>2, <1>6, <1>8
  <2>. QED  BY <1>3, <1>4, <2>1 DEF Shares
<1>10. s \in Seq(Shares(U)) /\ s # << >> /\ Len(s) = n
  <2>1. s = [i \in 1 .. n |-> s[i]]
    BY <1>4
  <2>2. s \in Seq(Shares(U))
    BY <1>2, <1>9, <2>1
  <2>. QED  BY <1>2, <1>9, <2>2
<1>11. /\ \A i \in M : f[i] = part[i] /\ f[i] \in Int
       /\ f[n] = rest /\ Total(s) = Sum(f, 1 .. n)
  BY <1>2, <1>6, <1>9 DEF Total, AmountSum, Sum, AmountsOf
<1>. HIDE DEF f, M
<1>12. Sum(f, 1 .. n) = Sum(f, M) + f[n] /\ Sum(f, M) \in Int
  <2>1. \A i \in M \cup {n} : f[i] \in Int
    BY <1>8, <1>11
  <2>. QED  BY <1>2, <1>5, <2>1, SumAdd
<1>13. Sum(f, M) = Sum(part, M)
  <2>1. \A i \in M : part[i] \in Int /\ f[i] = part[i]
    BY <1>6, <1>11
  <2>. QED  BY <1>5, <2>1, SumEqual
<1>14. Total(s) = total
  BY <1>7, <1>8, <1>11, <1>12, <1>13 DEF rest
<1>15. ASSUME NEW i \in M
       PROVE  Off(total, given, s, i)
                \in IF given[i].pct < 0 THEN -Hundred .. 0 ELSE 0 .. Hundred
  <2>1. s[i].amount = part[i]
    BY <1>2, <1>9
  <2>. QED  BY <1>6, <2>1 DEF Off
<1>16. /\ \A i \in 1 .. n : pct[i] = given[i].pct /\ pct[i] \in Int
       /\ PctTotal(given) = Sum(pct, M) + pct[n]
       /\ Sum(pct, M) \in Int /\ pct[n] \in Int
  <2>1. \A i \in 1 .. n : pct[i] = given[i].pct /\ pct[i] \in Int
    BY <1>2, <1>3
  <2>2. PctTotal(given) = Sum(pct, 1 .. n)
    BY <1>2 DEF PctTotal, SumFunction, SumFunctionOnSet, FoldFunction, FoldFunctionOnSet, Sum
  <2>. HIDE DEF pct
  <2>3. \A i \in M \cup {n} : pct[i] \in Int
    BY <1>2, <2>1
  <2>4. Sum(pct, M \cup {n}) = Sum(pct, M) + pct[n] /\ Sum(pct, M) \in Int
    BY <1>2, <1>5, <2>3, SumAdd
  <2>. QED  BY <1>2, <2>1, <2>2, <2>3, <2>4
<1>. DEFINE H == Hundred  A == Sum(pct, M)  F == Sum(f, M)  D == Sum(off, M)
            u == Cardinality(up)  d == Cardinality(down)
<1>17. Sum(exact, M) = total * A /\ Sum(cents, M) = H * F
  <2>1. \A i \in M : pct[i] \in Int /\ exact[i] = total * pct[i]
    BY <1>2, <1>16
  <2>2. \A i \in M : f[i] \in Int /\ cents[i] = Hundred * f[i]
    BY <1>11
  <2>3. total \in Int /\ Hundred \in Int
    BY <1>1
  <2>. HIDE DEF pct, exact, cents
  <2>. QED  BY <1>5, <2>1, <2>2, <2>3, SumTimes
<1>18. \A i \in M : /\ exact[i] \in Int /\ cents[i] \in Int /\ off[i] = exact[i] - cents[i]
                    /\ off[i] = total * given[i].pct - Hundred * part[i]
  <2>1. \A k \in Int : total * k \in Int /\ Hundred * k \in Int
    BY <1>1
  <2>2. \A i \in M : pct[i] = given[i].pct /\ pct[i] \in Int /\ f[i] = part[i] /\ f[i] \in Int
    BY <1>2, <1>11, <1>16
  <2>. HIDE DEF pct
  <2>. QED  BY <2>1, <2>2
<1>19. D = total * A - H * F
  <2>. HIDE DEF exact, cents, off, pct
  <2>1. Sum(off, M) = Sum(exact, M) - Sum(cents, M)
    BY <1>5, <1>18, SumMinus
  <2>. QED  BY <1>17, <2>1
<1>20. /\ \A i \in up : off[i] \in Int /\ -H <= off[i] /\ off[i] <= 0
       /\ \A i \in down : off[i] \in Int /\ 0 <= off[i] /\ off[i] <= H
  <2>1. up \subseteq M /\ down \subseteq M
    OBVIOUS
  <2>. HIDE DEF off
  <2>2. \A i \in M : /\ given[i].pct < 0 => off[i] \in -Hundred .. 0
                     /\ ~(given[i].pct < 0) => off[i] \in 0 .. Hundred
    BY <1>6, <1>18
  <2>. QED  BY <1>1, <2>1, <2>2
<1>. HIDE DEF exact, cents, off, pct, up, down
<1>21. D = Sum(off, up) + Sum(off, down) /\ Sum(off, up) \in Int /\ Sum(off, down) \in Int
  <2>1. \A i \in up \cup down : off[i] \in Int
    BY <1>20
  <2>. QED  BY <1>5, <2>1, SumUnion, SumInt
<1>22. /\ u \in Nat /\ u * (-H) <= Sum(off, up) /\ Sum(off, up) <= u * 0
  <2>1. -H \in Int /\ 0 \in Int
    BY <1>1
  <2>. QED  BY <1>5, <1>20, <2>1, SumBounds
<1>23. /\ d \in Nat /\ d * 0 <= Sum(off, down) /\ Sum(off, down) <= d * H
  <2>1. H \in Int /\ 0 \in Int
    BY <1>1
  <2>. QED  BY <1>5, <1>20, <2>1, SumBounds
<1>24. u + d = n - 1
  <2>1. Cardinality(up \cup down)
          = Cardinality(up) + Cardinality(down) - Cardinality(up \cap down)
    BY <1>5, FS_Union
  <2>2. Cardinality(up \cap down) = 0
    BY <1>5, FS_EmptySet
  <2>3. Cardinality(M) = n - 1
    BY <1>2, FS_Interval DEF M
  <2>4. Cardinality(M) = u + d - Cardinality(up \cap down)
    BY <1>5, <2>1
  <2>. HIDE DEF u, d
  <2>. QED  BY <1>22, <1>23, <2>2, <2>3, <2>4
<1>. HIDE DEF A, F, D, u, d, H
<1>25. A \in Int /\ F \in Int /\ H \in Nat \ {0} /\ D \in Int
  BY <1>1, <1>12, <1>16, <1>21 DEF A, F, H
<1>26. u * (-H) = -(u * H) /\ u * H \in Int /\ d * H \in Int
  BY <1>22, <1>23, <1>25, SMT
<1>27. -(u * H) <= D /\ D <= d * H
  <2>1. u * 0 = 0 /\ d * 0 = 0
    BY <1>22, <1>23
  <2>. QED  BY <1>21, <1>22, <1>23, <1>26, <2>1
<1>28. last = total * (PctTotal(given) - H) - D /\ last \in Int
  <2>. DEFINE P == PctTotal(given)  p == pct[n]
  <2>1. last = total * p - H * (total - F)
    BY <1>2, <1>7, <1>9, <1>13, <1>16 DEF Off, rest, F, H
  <2>2. P = A + p /\ p \in Int
    BY <1>16 DEF A
  <2>. HIDE DEF P, p, last
  <2>3. D = total * A - H * F
    BY <1>19
  <2>4. /\ total * (P - H) = total * A + total * p - total * H
        /\ H * (total - F) = total * H - H * F
        /\ total * A \in Int /\ total * p \in Int /\ total * H \in Int /\ H * F \in Int
    BY <1>25, <2>2, SMT
  <2>. QED  BY <2>1, <2>3, <2>4 DEF P
<1>29. PctTotal(given) \in Int /\ total * (PctTotal(given) - H) \in Int
  BY <1>16, <1>25
<1>. HIDE DEF last
<1>30. /\ last >= total * (PctTotal(given) - H) - d * H
       /\ last <= total * (PctTotal(given) - H) + u * H
  <2>. DEFINE x == total * (PctTotal(given) - H)  y == d * H  z == u * H
  <2>1. last = x - D /\ -z <= D /\ D <= y
    BY <1>27, <1>28
  <2>2. x \in Int /\ y \in Int /\ z \in Int /\ D \in Int
    BY <1>25, <1>26, <1>29
  <2>. HIDE DEF x, y, z
  <2>3. last >= x - y /\ last <= x + z
    BY <2>1, <2>2
  <2>. QED  BY <2>3 DEF x, y, z
<1>31. d = n - 1 - u
  <2>1. u \in Nat /\ d \in Nat /\ n \in Nat
    BY <1>2, <1>22, <1>23
  <2>. HIDE DEF n
  <2>. QED  BY <1>24, <2>1
<1>32. /\ last >= total * (PctTotal(given) - H) - (n - 1 - u) * H
       /\ last <= total * (PctTotal(given) - H) + u * H
  BY <1>30, <1>31
<1>. USE DEF last, u, H
<1>33. /\ last \in Int /\ Cardinality(up) \in Nat
       /\ last >= total * (PctTotal(given) - Hundred) - (n - 1 - Cardinality(up)) * Hundred
       /\ last <= total * (PctTotal(given) - Hundred) + Cardinality(up) * Hundred
  BY <1>22, <1>28, <1>32
<1>. HIDE DEF u, H
<1>. QED  BY <1>10, <1>14, <1>15, <1>29, <1>33, Zenon DEF s, M, up
=============================================================================
