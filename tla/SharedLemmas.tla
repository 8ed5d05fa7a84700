---------------------------- MODULE SharedLemmas ----------------------------
(***************************************************************************)
(* Facts the proofs share: a non-empty set of naturals has a least member, *)
(* loops over a list have values, what the loops of the breakpoint table   *)
(* do to an ascending array (add() inserts, remove() drops one entry, both *)
(* keep the order, and the early exit of exists() loses nothing), and that *)
(* a search that comes down a rank ends.                                   *)
(***************************************************************************)
EXTENDS SortedArray, SequenceTheorems, FiniteSetTheorems, WellFoundedInduction, TLAPS

-----------------------------------------------------------------------------
(* Naturals and loops.                                                     *)

\* Every non-empty set of naturals has a least element.
LEMMA LeastNat ==
    ASSUME NEW T, T \subseteq Nat, T # {}
    PROVE  \E m \in T : \A k \in T : m <= k
<1> DEFINE D == {0..m : m \in T}
<1>1. D \subseteq FiniteSubsetsOf(Nat) /\ D # {}
  <2>1. \A m \in T : IsFiniteSet(0..m) /\ 0..m \in SUBSET Nat
    BY FS_Interval
  <2>2. QED BY <2>1 DEF FiniteSubsetsOf
<1>2. PICK d \in D : \A y \in D : ~(<<y, d>> \in StrictSubsetOrdering(Nat))
  <2> HIDE DEF D
  <2> QED BY <1>1, FS_StrictSubsetOrderingWellFounded, WFMin
<1>3. PICK m \in T : d = 0..m
  OBVIOUS
<1>4. \A k \in T : m <= k
  <2> SUFFICES ASSUME NEW k \in T, k < m PROVE FALSE
    OBVIOUS
  <2>1. 0..k \in D /\ 0..k \subseteq 0..m /\ m \notin 0..k /\ m \in 0..m
    OBVIOUS
  <2>2. <<0..k, 0..m>> \in StrictSubsetOrdering(Nat)
    BY <2>1, 0..k \in SUBSET Nat, 0..m \in SUBSET Nat DEF StrictSubsetOrdering
  <2>3. QED BY <2>1, <2>2, <1>2, <1>3
<1>5. QED BY <1>4

\* A set that has 0, and each number after one it has, has every number.
LEMMA UpTo ==
    ASSUME NEW n \in Nat, NEW G, 0 \in G,
           \A j \in 1..n : j - 1 \in G => j \in G
    PROVE  \A j \in 0..n : j \in G
<1> SUFFICES ASSUME NEW T, T = {j \in 0..n : j \notin G}, T # {} PROVE FALSE
  OBVIOUS
<1>1. PICK m \in T : \A k \in T : m <= k
  <2>1. T \subseteq Nat
    OBVIOUS
  <2> QED BY <2>1, LeastNat
<1>2. m \in 0..n /\ m \notin G /\ m # 0
  OBVIOUS
<1>3. m \in 1..n /\ m - 1 \in 0..n /\ ~(m <= m - 1)
  BY <1>2
<1>4. m - 1 \in G
  BY <1>1, <1>3
<1>5. QED BY <1>2, <1>3, <1>4

\* The values f[0..n] of a loop that starts with first, where turn j makes
\* step[<<j, x>>] of x; and that a loop stays in S.
Loop(f, first, n, step) ==
    f[0] = first /\ \A j \in 1..n : f[j] = step[<<j, f[j - 1]>>]

RemainsIn(S, n, step) == \A j \in 1..n : \A x \in S : step[<<j, x>>] \in S

\* A loop that stays in S has its values there: a function defined by
\* recursion over 0..n exists.
LEMMA Recursion ==
    ASSUME NEW S, NEW first \in S, NEW n \in Nat, NEW step, RemainsIn(S, n, step)
    PROVE  \E f \in [0..n -> S] : Loop(f, first, n, step)
<1> USE DEF Loop, RemainsIn
<1> DEFINE Up(m) == \E f \in [0..m -> S] :
                        f[0] = first /\ \A j \in 1..m : f[j] = step[<<j, f[j - 1]>>]
           T == {m \in 0..n : ~Up(m)}
<1>1. Up(0)
  <2>1. [j \in 0..0 |-> first] \in [0..0 -> S]
    OBVIOUS
  <2>2. [j \in 0..0 |-> first][0] = first
    OBVIOUS
  <2>3. 1..0 = {}
    OBVIOUS
  <2>4. QED BY <2>1, <2>2, <2>3
<1>2. ASSUME NEW m \in 0..n, m # 0, Up(m - 1) PROVE Up(m)
  <2>1. PICK g \in [0..m - 1 -> S] :
            g[0] = first /\ \A j \in 1..m - 1 : g[j] = step[<<j, g[j - 1]>>]
    BY <1>2
  <2> DEFINE f == [j \in 0..m |-> IF j = m THEN step[<<m, g[m - 1]>>] ELSE g[j]]
  <2>2. m - 1 \in 0..m - 1 /\ m \in 1..n /\ 0 \in 0..m
    BY <1>2
  <2>3. g[m - 1] \in S
    BY <2>1, <2>2
  <2>4. step[<<m, g[m - 1]>>] \in S
    BY <2>2, <2>3
  <2>5. \A j \in 0..m : j # m => j \in 0..m - 1
    OBVIOUS
  <2>6. f \in [0..m -> S]
    BY <2>1, <2>4, <2>5
  <2>7. f[0] = first
    BY <2>1, <2>2, <1>2
  <2>8. ASSUME NEW j \in 1..m PROVE f[j] = step[<<j, f[j - 1]>>]
    <3>1. j \in 0..m /\ j - 1 \in 0..m /\ j - 1 # m
      OBVIOUS
    <3>2. f[j - 1] = g[j - 1]
      BY <3>1
    <3>3. CASE j = m
      BY <3>1, <3>2, <3>3
    <3>4. CASE j # m
      <4>1. j \in 1..m - 1
        BY <3>4
      <4>2. f[j] = g[j]
        BY <3>1, <3>4
      <4>3. QED BY <4>1, <4>2, <3>2, <2>1
    <3>5. QED BY <3>3, <3>4
  <2>9. QED
    <3> HIDE DEF f
    <3> QED BY <2>6, <2>7, <2>8
<1> HIDE DEF Up
<1>3. CASE T = {}
  <2>1. n \in 0..n
    OBVIOUS
  <2>2. Up(n)
    BY <2>1, <1>3
  <2>3. QED BY <2>2 DEF Up
<1>4. CASE T # {}
  <2>1. T \subseteq Nat
    OBVIOUS
  <2>2. PICK m \in T : \A k \in T : m <= k
    <3> HIDE DEF T
    <3> QED BY <2>1, <1>4, LeastNat
  <2>3. m \in 0..n /\ ~Up(m)
    OBVIOUS
  <2>4. m # 0
    BY <1>1, <2>3
  <2>5. m - 1 \in 0..n /\ m - 1 < m
    BY <2>3, <2>4
  <2>6. Up(m - 1)
    BY <2>2, <2>5, <2>3
  <2>7. QED BY <1>2, <2>3, <2>4, <2>6
<1>5. QED BY <1>3, <1>4

-----------------------------------------------------------------------------
(* The ascending array.                                                    *)

Ordered(s) == \A i, j \in 1..Len(s) : i < j => s[i] <= s[j]

\* On an ordered array the carried value is the larger of the new address
\* and the last entry compared.
LEMMA CarriedOrdered ==
    ASSUME NEW s \in Seq(Nat), Ordered(s), NEW a \in Nat, NEW i \in 0..Len(s)
    PROVE  Carried(s, a, i) = IF i = 0 THEN a
                              ELSE IF a < s[i] THEN s[i] ELSE a
<1> DEFINE T == {a} \cup {s[j] : j \in 1..i}
           m == IF i = 0 THEN a ELSE IF a < s[i] THEN s[i] ELSE a
<1>1. \A j \in 1..Len(s) : s[j] \in Nat
  OBVIOUS
<1>2. T \subseteq Nat
  BY <1>1
<1>3. m \in T
  BY <1>1
<1>4. ASSUME NEW y \in T PROVE m >= y
  <2>1. CASE y = a
    BY <2>1, <1>1
  <2>2. CASE y # a
    <3>1. PICK j \in 1..i : y = s[j]
      BY <2>2
    <3>2. i \in 1..Len(s) /\ j \in 1..Len(s)
      OBVIOUS
    <3>3. s[j] <= s[i]
      <4>1. CASE j = i
        BY <4>1, <3>2, <1>1
      <4>2. CASE j < i
        BY <4>2, <3>2 DEF Ordered
      <4>3. QED BY <4>1, <4>2
    <3>4. QED BY <3>1, <3>2, <3>3, <1>1
  <2>3. QED BY <2>1, <2>2
<1>5. ASSUME NEW x \in T, \A y \in T : x >= y
      PROVE  x = m
  <2>1. x >= m /\ m >= x /\ x \in Nat /\ m \in Nat
    BY <1>2, <1>3, <1>4, <1>5
  <2>2. QED BY <2>1
<1>6. Max(T) = m
  <2> HIDE DEF m, T
  <2> QED BY <1>3, <1>4, <1>5 DEF Max
<1>7. QED BY <1>6 DEF Carried

\* t is s with the new entry a at place p.
Shift(i, p) == IF i < p THEN i ELSE i + 1

Grafted(s, t, p, a) ==
    /\ p \in 1..Len(s) + 1 /\ Len(t) = Len(s) + 1 /\ t[p] = a
    /\ \A i \in 1..Len(s) : t[Shift(i, p)] = s[i]

\* The swaps of add() are an insertion in front of the first larger entry.
LEMMA InsertGrafts ==
    ASSUME NEW s \in Seq(Nat), Ordered(s), NEW a \in Nat
    PROVE  \E p \in 1..Len(s) + 1 :
              /\ Grafted(s, Insert(s, a), p, a)
              /\ \A i \in 1..Len(s) : IF i < p THEN s[i] <= a ELSE a < s[i]
<1> DEFINE t == Insert(s, a)
           c(i) == IF i = 0 THEN a ELSE IF a < s[i] THEN s[i] ELSE a
           Above == {k \in 1..Len(s) + 1 : k \in 1..Len(s) => a < s[k]}
<1>1. \A j \in 1..Len(s) : s[j] \in Nat
  OBVIOUS
<1>2. t = [i \in 1..Len(s) + 1 |->
             IF i <= Len(s) THEN Smaller(c(i - 1), s[i]) ELSE c(Len(s))]
  <2>1. ASSUME NEW i \in 1..Len(s) + 1
        PROVE  /\ i <= Len(s) => Carried(s, a, i - 1) = c(i - 1)
               /\ Carried(s, a, Len(s)) = c(Len(s))
    BY CarriedOrdered
  <2> HIDE DEF c
  <2> QED BY <2>1 DEF Insert
<1>3. Len(t) = Len(s) + 1
  BY <1>2
<1>4. PICK p \in Above : \A k \in Above : p <= k
  <2>1. Above \subseteq Nat /\ Len(s) + 1 \in Above
    OBVIOUS
  <2> HIDE DEF Above
  <2>2. QED BY <2>1, LeastNat
<1>5. \A i \in 1..Len(s) : IF i < p THEN s[i] <= a ELSE a < s[i]
  <2> SUFFICES ASSUME NEW i \in 1..Len(s) PROVE IF i < p THEN s[i] <= a ELSE a < s[i]
    OBVIOUS
  <2>1. CASE i < p
    BY <1>1, <1>4, <2>1
  <2>2. CASE p <= i
    <3>1. a < s[p] /\ s[p] <= s[i]
      BY <1>1, <1>4, <2>2 DEF Ordered
    <3>2. QED BY <1>1, <2>2, <3>1, <1>4
  <2>3. QED BY <2>1, <2>2, <1>4
<1>6. \A i \in 0..Len(s) : c(i) = IF i < p THEN a ELSE s[i]
  BY <1>1, <1>4, <1>5
<1> HIDE DEF t, c, Above
<1>7. p \in 1..Len(s) + 1
  BY <1>4 DEF Above
<1>8. t[p] = a
  <2>1. c(p - 1) = a
    BY <1>6, <1>7
  <2>2. CASE p <= Len(s)
    BY <1>1, <1>2, <1>5, <1>7, <2>1, <2>2 DEF Smaller
  <2>3. CASE p = Len(s) + 1
    BY <1>2, <1>7, <2>1, <2>3
  <2>4. QED BY <1>7, <2>2, <2>3
<1>9. ASSUME NEW i \in 1..Len(s) PROVE t[Shift(i, p)] = s[i]
  <2>1. CASE i < p
    <3>1. t[i] = Smaller(a, s[i])
      BY <1>2, <1>6, <1>7, <2>1
    <3>2. QED BY <1>1, <1>5, <2>1, <3>1 DEF Shift, Smaller
  <2>2. CASE p <= i
    <3>1. c(i) = s[i]
      BY <1>6, <1>7, <2>2
    <3>2. CASE i = Len(s)
      BY <1>2, <1>7, <2>2, <3>1, <3>2 DEF Shift
    <3>3. CASE i < Len(s)
      <4>1. t[i + 1] = Smaller(c(i), s[i + 1])
        BY <1>2, <3>3
      <4>2. s[i] <= s[i + 1] /\ s[i] \in Nat /\ s[i + 1] \in Nat
        BY <1>1, <3>3 DEF Ordered
      <4>3. t[i + 1] = s[i]
        BY <3>1, <4>1, <4>2 DEF Smaller
      <4>4. QED BY <1>7, <2>2, <4>3 DEF Shift
    <3>4. QED BY <3>2, <3>3
  <2>3. QED BY <1>7, <2>1, <2>2
<1>10. QED BY <1>3, <1>5, <1>7, <1>8, <1>9 DEF Grafted, t

\* add() keeps the array ordered.
LEMMA InsertOrdered ==
    ASSUME NEW s \in Seq(Nat), Ordered(s), NEW a \in Nat
    PROVE  Ordered(Insert(s, a))
<1> DEFINE t == Insert(s, a)
<1>1. PICK p \in 1..Len(s) + 1 :
           /\ Grafted(s, t, p, a)
           /\ \A i \in 1..Len(s) : IF i < p THEN s[i] <= a ELSE a < s[i]
  BY InsertGrafts
<1> HIDE DEF t
<1>2. ASSUME NEW i \in 1..Len(t), NEW j \in 1..Len(t), i < j
      PROVE  t[i] <= t[j]
  <2>1. ASSUME NEW n \in 1..Len(t)
        PROVE  \/ n = p /\ t[n] = a
               \/ n < p /\ n \in 1..Len(s) /\ t[n] = s[n]
               \/ n > p /\ n - 1 \in 1..Len(s) /\ t[n] = s[n - 1]
    <3>1. CASE n = p
      BY <1>1, <3>1 DEF Grafted
    <3>2. CASE n < p
      <4>1. n \in 1..Len(s) /\ Shift(n, p) = n
        BY <3>2, <1>1 DEF Shift, Grafted
      <4>2. QED BY <1>1, <3>2, <4>1 DEF Grafted
    <3>3. CASE n > p
      <4>1. n - 1 \in 1..Len(s) /\ Shift(n - 1, p) = n
        BY <3>3, <1>1 DEF Shift, Grafted
      <4>2. QED BY <1>1, <3>3, <4>1 DEF Grafted
    <3>4. QED BY <1>1, <3>1, <3>2, <3>3 DEF Grafted
  <2>2. \A n \in 1..Len(s) : s[n] \in Nat
    OBVIOUS
  <2>3. \A m, n \in 1..Len(s) : m <= n => s[m] <= s[n]
    BY <2>2 DEF Ordered
  <2>4. CASE i = p
    <3>1. j - 1 \in 1..Len(s) /\ t[j] = s[j - 1] /\ t[i] = a /\ a < s[j - 1]
      BY <1>1, <1>2, <2>1, <2>4
    <3>2. QED BY <2>2, <3>1
  <2>5. CASE i # p /\ j = p
    <3>1. i \in 1..Len(s) /\ t[i] = s[i] /\ t[j] = a /\ s[i] <= a
      BY <1>1, <1>2, <2>1, <2>5
    <3>2. QED BY <3>1
  <2>6. CASE i # p /\ j # p
    <3> DEFINE m == IF i < p THEN i ELSE i - 1
               n == IF j < p THEN j ELSE j - 1
    <3>1. m \in 1..Len(s) /\ t[i] = s[m]
      BY <1>1, <2>1, <2>6
    <3>2. n \in 1..Len(s) /\ t[j] = s[n]
      BY <1>1, <2>1, <2>6
    <3>3. m <= n
      BY <1>1, <1>2, <2>6
    <3> HIDE DEF m, n
    <3>4. QED BY <2>3, <3>1, <3>2, <3>3
  <2>7. QED BY <2>4, <2>5, <2>6
<1>3. QED BY <1>2 DEF Ordered, t

\* add() puts the new address in, and loses and invents nothing else.
LEMMA GraftHolds ==
    ASSUME NEW s \in Seq(Nat), NEW t, NEW a, NEW p, Grafted(s, t, p, a), NEW x
    PROVE  Holds(t, x) <=> x = a \/ Holds(s, x)
<1>1. \A n \in 1..Len(t) : n = p \/ \E i \in 1..Len(s) : n = Shift(i, p)
  <2> SUFFICES ASSUME NEW n \in 1..Len(t), n # p
               PROVE  \E i \in 1..Len(s) : n = Shift(i, p)
    OBVIOUS
  <2> DEFINE i == IF n < p THEN n ELSE n - 1
  <2>1. i \in 1..Len(s) /\ n = Shift(i, p)
    BY DEF Grafted, Shift
  <2>2. QED BY <2>1
<1>2. \A i \in 1..Len(s) : Shift(i, p) \in 1..Len(t)
  BY DEF Grafted, Shift
<1>3. p \in 1..Len(t)
  BY DEF Grafted
<1>4. QED BY <1>1, <1>2, <1>3 DEF Grafted, Holds

LEMMA InsertHolds ==
    ASSUME NEW s \in Seq(Nat), Ordered(s), NEW a \in Nat, NEW x \in Nat
    PROVE  Holds(Insert(s, a), x) <=> x = a \/ Holds(s, x)
BY InsertGrafts, GraftHolds

\* The number of entries equal to x.
Count(s, x) == Cardinality({i \in 1..Len(s) : s[i] = x})

LEMMA GraftCount ==
    ASSUME NEW s \in Seq(Nat), NEW t, NEW a, NEW p, Grafted(s, t, p, a), NEW x
    PROVE  /\ Count(s, x) \in Nat
           /\ Count(t, x) = Count(s, x) + IF x = a THEN 1 ELSE 0
<1> DEFINE S == {i \in 1..Len(s) : s[i] = x}
           T == {i \in 1..Len(t) : t[i] = x}
           f == [i \in S |-> Shift(i, p)]
<1>1. IsFiniteSet(S) /\ Cardinality(S) \in Nat /\ IsFiniteSet(T)
  <2>1. IsFiniteSet(1..Len(s)) /\ IsFiniteSet(1..Len(t))
    BY FS_Interval DEF Grafted
  <2>2. QED BY <2>1, FS_Subset, FS_CardinalityType
<1>2. f \in [S -> T \ {p}]
  BY DEF Grafted, Shift
<1>3. \A m, n \in S : f[m] = f[n] => m = n
  BY DEF Shift, Grafted
<1>4. \A n \in T \ {p} : \E m \in S : f[m] = n
  <2> SUFFICES ASSUME NEW n \in T \ {p} PROVE \E m \in S : f[m] = n
    OBVIOUS
  <2> DEFINE m == IF n < p THEN n ELSE n - 1
  <2>1. m \in 1..Len(s) /\ Shift(m, p) = n
    BY DEF Grafted, Shift
  <2>2. m \in S
    BY <2>1 DEF Grafted
  <2>3. QED BY <2>1, <2>2
<1>5. ExistsBijection(S, T \ {p})
  <2> HIDE DEF f, S, T
  <2>1. f \in Bijection(S, T \ {p})
    BY <1>2, <1>3, <1>4 DEF Bijection, Injection, IsInjective, Surjection
  <2>2. QED BY <2>1 DEF ExistsBijection
<1>6. Cardinality(T \ {p}) = Cardinality(S)
  BY <1>1, <1>5, FS_Bijection
<1>7. p \in T <=> x = a
  BY DEF Grafted
<1>8. Cardinality(T \ {p}) = IF p \in T THEN Cardinality(T) - 1 ELSE Cardinality(T)
  <2> HIDE DEF T
  <2> QED BY <1>1, FS_RemoveElement
<1>9. Cardinality(T) \in Nat
  BY <1>1, FS_CardinalityType
<1> HIDE DEF S, T
<1>10. QED BY <1>1, <1>6, <1>7, <1>8, <1>9 DEF Count, S, T

\* remove() undoes an insertion.
LEMMA DropGrafts ==
    ASSUME NEW s \in Seq(Nat), NEW a, Holds(s, a)
    PROVE  DropFirst(s, a) \in Seq(Nat) /\ \E p : Grafted(DropFirst(s, a), s, p, a)
<1> DEFINE K == {i \in 1..Len(s) : s[i] = a}
           k == Min(K)
           t == DropFirst(s, a)
<1>1. k \in 1..Len(s) /\ s[k] = a
  <2>1. K \subseteq Nat /\ K # {}
    BY DEF Holds
  <2>2. k \in K
    <3> HIDE DEF K
    <3>1. \E m \in K : \A y \in K : m =< y
      BY <2>1, LeastNat
    <3>2. QED BY <3>1 DEF Min
  <2>3. QED BY <2>2
<1>2. t = [i \in 1..Len(s) - 1 |-> IF i < k THEN s[i] ELSE s[i + 1]]
  BY DEF DropFirst
<1> HIDE DEF K, k, t
<1>3. Len(t) = Len(s) - 1 /\ t \in Seq(Nat)
  <2>1. \A i \in 1..Len(s) : s[i] \in Nat
    OBVIOUS
  <2>2. t \in [1..Len(s) - 1 -> Nat] /\ Len(s) - 1 \in Nat
    BY <1>1, <1>2, <2>1
  <2> DEFINE n == Len(s) - 1
  <2> HIDE DEF n
  <2>3. t \in [1..n -> Nat] /\ n \in Nat
    BY <2>2 DEF n
  <2>4. t \in Seq(Nat) /\ Len(t) = n
    BY <2>3
  <2>5. QED BY <2>4 DEF n
<1>4. Grafted(t, s, k, a)
  BY <1>1, <1>2, <1>3 DEF Grafted, Shift
<1>5. QED BY <1>3, <1>4 DEF t

\* remove() keeps the array ordered and drops one copy of the address only.
LEMMA DropFirstOrdered ==
    ASSUME NEW s \in Seq(Nat), Ordered(s), NEW a \in Nat, Holds(s, a)
    PROVE  /\ Ordered(DropFirst(s, a))
           /\ \A x \in Nat : x # a => (Holds(DropFirst(s, a), x) <=> Holds(s, x))
<1> DEFINE t == DropFirst(s, a)
<1>1. PICK p : t \in Seq(Nat) /\ Grafted(t, s, p, a)
  BY DropGrafts
<1> HIDE DEF t
<1>2. \A i, j \in 1..Len(t) : i < j => t[i] <= t[j]
  <2> SUFFICES ASSUME NEW i \in 1..Len(t), NEW j \in 1..Len(t), i < j
               PROVE  t[i] <= t[j]
    OBVIOUS
  <2>1. Len(t) \in Nat /\ Len(s) = Len(t) + 1 /\ p \in 1..Len(t) + 1
    BY <1>1 DEF Grafted
  <2>2. Shift(i, p) \in 1..Len(s) /\ Shift(j, p) \in 1..Len(s)
        /\ Shift(i, p) < Shift(j, p)
    BY <2>1 DEF Shift
  <2>3. s[Shift(i, p)] = t[i] /\ s[Shift(j, p)] = t[j]
    BY <1>1 DEF Grafted
  <2>4. QED BY <2>2, <2>3 DEF Ordered
<1>3. \A x \in Nat : x # a => (Holds(t, x) <=> Holds(s, x))
  BY <1>1, GraftHolds
<1>4. QED BY <1>2, <1>3 DEF Ordered, t

\* Both leave an array of the same kind, one longer and one shorter.
LEMMA InsertType ==
    ASSUME NEW A, A \subseteq Nat, NEW s \in Seq(A), Ordered(s), NEW a \in A
    PROVE  Insert(s, a) \in Seq(A) /\ Len(Insert(s, a)) = Len(s) + 1
<1>1. s \in Seq(Nat) /\ a \in Nat
  BY SeqMonotonic
<1>2. \A i \in 0..Len(s) : Carried(s, a, i) \in A
  <2> SUFFICES ASSUME NEW i \in 0..Len(s) PROVE Carried(s, a, i) \in A
    OBVIOUS
  <2>1. Carried(s, a, i) = IF i = 0 THEN a ELSE IF a < s[i] THEN s[i] ELSE a
    BY <1>1, CarriedOrdered
  <2>2. i # 0 => s[i] \in A
    OBVIOUS
  <2>3. QED BY <2>1, <2>2
<1>3. \A i \in 1..Len(s) : s[i] \in A
  OBVIOUS
<1>4. Insert(s, a) \in [1..Len(s) + 1 -> A]
  BY <1>2, <1>3 DEF Insert, Smaller
<1>5. QED BY <1>4

LEMMA DropFirstType ==
    ASSUME NEW A, NEW s \in Seq(A), NEW a \in A, Holds(s, a)
    PROVE  DropFirst(s, a) \in Seq(A) /\ Len(DropFirst(s, a)) = Len(s) - 1
<1>1. Len(s) - 1 \in Nat
  BY DEF Holds
<1> DEFINE k == Min({i \in 1..Len(s) : s[i] = a})
<1>2. DropFirst(s, a) \in [1..Len(s) - 1 -> A]
  <2> HIDE DEF k
  <2>1. DropFirst(s, a) =
          [i \in 1..Len(s) - 1 |-> IF i < k THEN s[i] ELSE s[i + 1]]
    BY DEF DropFirst, k
  <2>2. \A i \in 1..Len(s) - 1 : s[i] \in A /\ s[i + 1] \in A
    OBVIOUS
  <2>3. QED BY <2>1, <2>2
<1>3. QED BY <1>1, <1>2

\* Giving up at the first larger entry loses no breakpoint of an ascending array.
LEMMA FindsHeld ==
    ASSUME NEW s \in Seq(Nat), Ordered(s), NEW a
    PROVE  Finds(s, a) <=> Holds(s, a)
<1>1. ASSUME NEW i \in 1..Len(s), s[i] = a
      PROVE  \A j \in 1..i - 1 : s[j] <= a
  BY <1>1 DEF Ordered
<1>2. QED BY <1>1 DEF Finds, Holds

-----------------------------------------------------------------------------
(* Searches, and positions in sequences.                                   *)

\* A search goes from p to nx[p] until it stops,
Searches(f, D, stop, val, nx) ==
    \A p \in D : f[p] = IF p \in stop THEN val[p] ELSE f[nx[p]]

\* and comes down a rank each time.
Descends(D, stop, nx, rank, m) ==
    /\ \A p \in D : rank[p] \in 0..m
    /\ \A p \in D : p \notin stop => nx[p] \in D /\ rank[nx[p]] < rank[p]

\* And it is a function.
IsSearch(f, D, stop, val, nx) ==
    f = [p \in D |-> IF p \in stop THEN val[p] ELSE f[nx[p]]]

\* Whatever it finds is the value at a stop.
LEMMA SearchStops ==
    ASSUME NEW D, NEW stop, NEW val, NEW nx, NEW rank, NEW m \in Nat,
           Descends(D, stop, nx, rank, m), NEW V, \A p \in D : p \in stop => val[p] \in V,
           NEW f, Searches(f, D, stop, val, nx)
    PROVE  \A p \in D : f[p] \in V
<1> DEFINE T == {rank[p] : p \in {q \in D : f[q] \notin V}}
<1> SUFFICES ASSUME T # {} PROVE FALSE
  OBVIOUS
<1>1. T \subseteq Nat
  <2>1. \A p \in D : rank[p] \in Nat
    BY DEF Descends
  <2> QED BY <2>1
<1>2. PICK r \in T : \A k \in T : r <= k
  <2> HIDE DEF T
  <2> QED BY <1>1, LeastNat, Zenon
<1>3. PICK p \in D : f[p] \notin V /\ r = rank[p]
  OBVIOUS
<1>4. p \notin stop /\ f[p] = f[nx[p]]
  BY <1>3 DEF Searches
<1>5. nx[p] \in D /\ rank[nx[p]] < rank[p]
  BY <1>4 DEF Descends
<1>6. rank[nx[p]] \in T
  BY <1>3, <1>4, <1>5
<1>7. rank[p] \in Nat /\ rank[nx[p]] \in Nat
  BY <1>1, <1>5, <1>6, <1>3 DEF Descends
<1>8. r <= rank[nx[p]]
  BY <1>2, <1>6
<1>9. QED BY <1>3, <1>5, <1>7, <1>8

\* There is such a function: what n turns find is what n + 1 turns find, from
\* every p below rank n.
LEMMA SearchEnds ==
    ASSUME NEW D, NEW stop, NEW val, NEW nx, NEW rank, NEW m \in Nat,
           Descends(D, stop, nx, rank, m)
    PROVE  \E f : IsSearch(f, D, stop, val, nx)
<1> DEFINE R == {val[p] : p \in D}
           S == [D -> R]
           After(x) == [p \in D |-> IF p \in stop THEN val[p] ELSE x[nx[p]]]
           n == m + 2
           first == [p \in D |-> val[p]]
           step == [t \in (1..n) \X S |-> After(t[2])]
<1>1. n \in Nat /\ m + 1 \in Nat /\ first \in S
  OBVIOUS
<1>2. \A j \in 1..n : \A x \in S : step[<<j, x>>] = After(x) /\ After(x) \in S
  <2>1. ASSUME NEW x \in S PROVE After(x) \in S
    BY DEF Descends
  <2>2. \A j \in 1..n : \A x \in S : step[<<j, x>>] = After(x)
    <3> HIDE DEF n, S, After
    <3> QED OBVIOUS
  <2> QED BY <2>1, <2>2, Zenon
<1> HIDE DEF step, first
<1>3. PICK g \in [0..n -> S] : Loop(g, first, n, step)
  <2>1. RemainsIn(S, n, step)
    BY <1>2, Zenon DEF RemainsIn
  <2> HIDE DEF n, S
  <2> QED BY <1>1, <2>1, Recursion
<1>4. ASSUME NEW j \in 1..n PROVE g[j] = After(g[j - 1])
  <2>1. g[j - 1] \in S
    <3>1. j - 1 \in 0..n
      BY <1>1
    <3> HIDE DEF S, n
    <3> QED BY <1>3, <3>1
  <2>2. g[j] = step[<<j, g[j - 1]>>]
    BY <1>3 DEF Loop
  <2> HIDE DEF S, n, After
  <2> QED BY <1>2, <2>1, <2>2
<1>5. ASSUME NEW j \in 1..n, NEW p \in D
      PROVE  g[j][p] = IF p \in stop THEN val[p] ELSE g[j - 1][nx[p]]
  <2>1. g[j] = After(g[j - 1])
    BY <1>4
  <2> QED BY <2>1
<1> DEFINE Settled(j) == \A p \in D : rank[p] < j => g[j][p] = g[j + 1][p]
           G == {j \in 0..m + 1 : Settled(j)}
<1>6. 0 \in G
  <2>1. \A p \in D : rank[p] \in 0..m
    BY DEF Descends
  <2>2. \A p \in D : ~(rank[p] < 0)
    BY <2>1
  <2>3. 0 \in 0..m + 1
    BY <1>1
  <2> HIDE DEF n
  <2> QED BY <2>2, <2>3
<1>7. ASSUME NEW j \in 1..m + 1, j - 1 \in G PROVE j \in G
  <2> SUFFICES ASSUME NEW p \in D, rank[p] < j PROVE g[j][p] = g[j + 1][p]
    <3>1. j \in 0..m + 1
      OBVIOUS
    <3> QED BY <3>1
  <2>1. j \in 1..n /\ j + 1 \in 1..n /\ (j + 1) - 1 = j /\ (j - 1) + 1 = j
    BY <1>1
  <2>2. g[j][p] = IF p \in stop THEN val[p] ELSE g[j - 1][nx[p]]
    BY <1>5, <2>1
  <2>3. g[j + 1][p] = IF p \in stop THEN val[p] ELSE g[j][nx[p]]
    BY <1>5, <2>1, Zenon
  <2>4. ASSUME p \notin stop PROVE g[j - 1][nx[p]] = g[j][nx[p]]
    <3>1. nx[p] \in D /\ rank[nx[p]] < rank[p] /\ rank[p] \in 0..m /\ rank[nx[p]] \in 0..m
      BY <2>4 DEF Descends
    <3>2. rank[nx[p]] < j - 1
      <4>1. \A x, y \in 0..m : x < y /\ y < j => x < j - 1
        OBVIOUS
      <4> QED BY <3>1, <4>1, Zenon
    <3>3. Settled(j - 1)
      BY <1>7, Zenon
    <3>4. g[j - 1][nx[p]] = g[(j - 1) + 1][nx[p]]
      BY <3>1, <3>2, <3>3, Zenon
    <3> HIDE DEF n
    <3> QED BY <2>1, <3>4
  <2> QED BY <2>2, <2>3, <2>4
<1>8. \A j \in 0..m + 1 : j \in G
  <2> HIDE DEF G
  <2> QED BY <1>1, <1>6, <1>7, UpTo, Zenon
<1> DEFINE f == g[m + 2]
<1>9. ASSUME NEW p \in D PROVE f[p] = IF p \in stop THEN val[p] ELSE f[nx[p]]
  <2>1. m + 2 \in 1..n /\ (m + 2) - 1 = m + 1 /\ (m + 1) + 1 = m + 2
    BY <1>1
  <2>2. f[p] = IF p \in stop THEN val[p] ELSE g[m + 1][nx[p]]
    BY <1>5, <2>1
  <2>3. ASSUME p \notin stop PROVE g[m + 1][nx[p]] = f[nx[p]]
    <3>1. nx[p] \in D /\ rank[nx[p]] \in 0..m
      BY <2>3 DEF Descends
    <3>2. rank[nx[p]] < m + 1
      <4>1. \A x \in 0..m : x < m + 1
        BY ONLY m \in Nat
      <4> QED BY ONLY Zenon, <3>1, <4>1
    <3>3. Settled(m + 1)
      <4>1. m + 1 \in 0..m + 1
        BY <1>1
      <4>2. m + 1 \in G
        BY <1>8, <4>1, Zenon
      <4> QED BY <4>2, Zenon
    <3>4. g[m + 1][nx[p]] = g[(m + 1) + 1][nx[p]]
      BY <3>1, <3>2, <3>3, Zenon
    <3> HIDE DEF n
    <3> QED BY <2>1, <3>4
  <2> QED BY <2>2, <2>3
<1>10. f \in [D -> R]
  <2>1. n \in 0..n /\ n = m + 2
    BY <1>1
  <2> HIDE DEF n
  <2> QED BY <1>3, <2>1, Zenon
<1> HIDE DEF f
<1>11. f = [p \in D |-> IF p \in stop THEN val[p] ELSE f[nx[p]]]
  BY <1>9, <1>10
<1>12. QED BY <1>11, Zenon DEF IsSearch

\* A set of positions in a list has a last one.
LEMMA MaxOf ==
    ASSUME NEW n \in Nat, NEW T, T \subseteq 0..n, T # {}
    PROVE  Max(T) \in T /\ \A t \in T : t <= Max(T)
<1> DEFINE U == {n - t : t \in T}
<1>1. U \subseteq Nat /\ U # {}
  <2>1. \A t \in T : t \in 0..n
    OBVIOUS
  <2>2. \A t \in T : n - t \in Nat
    BY <2>1
  <2>3. U # {}
    BY Zenon
  <2> QED BY <2>2, <2>3, Zenon
<1>2. PICK m \in U : \A k \in U : m <= k
  <2> HIDE DEF U
  <2> QED BY <1>1, LeastNat, Zenon
<1>3. PICK t \in T : m = n - t
  OBVIOUS
<1>4. \A x \in T : t >= x
  <2> SUFFICES ASSUME NEW x \in T PROVE t >= x
    OBVIOUS
  <2>1. m <= n - x
    BY <1>2
  <2>2. x \in 0..n /\ t \in 0..n
    BY Zenon
  <2> QED BY <1>3, <2>1, <2>2
<1> HIDE DEF U
<1>5. Max(T) \in T /\ \A x \in T : Max(T) >= x
  BY <1>4, Zenon DEF Max
<1>6. QED BY <1>5

\* And a set of naturals a first one.
LEMMA MinOf ==
    ASSUME NEW T, T \subseteq Nat, T # {}
    PROVE  Min(T) \in T /\ \A t \in T : Min(T) <= t
<1>1. PICK m \in T : \A k \in T : m <= k
  BY LeastNat, Zenon
<1>2. QED BY <1>1, Zenon DEF Min

\* The larger of 1 and another.
LEMMA MaxOfTwo ==
    ASSUME NEW n \in Nat
    PROVE  1 <= Max({1, n}) /\ n <= Max({1, n}) /\ Max({1, n}) \in Nat
<1> DEFINE T == {1, n}
<1>1. T \subseteq 0..n + 1 /\ T # {} /\ n + 1 \in Nat /\ 1 \in T /\ n \in T
  OBVIOUS
<1> HIDE DEF T
<1>2. Max(T) \in T /\ \A t \in T : t <= Max(T)
  BY <1>1, MaxOf, Zenon
<1>3. PICK m : m = Max(T)
  OBVIOUS
<1>4. m \in 0..n + 1 /\ 1 <= m /\ n <= m
  BY ONLY Zenon, <1>1, <1>2, <1>3
<1>5. QED BY <1>3, <1>4 DEF T

\* A sequence with one entry replaced.
LEMMA OneReplaced ==
    ASSUME NEW S, NEW f \in Seq(S), NEW i \in 1..Len(f), NEW x \in S,
           NEW g, g = [f EXCEPT ![i] = x]
    PROVE  /\ g \in Seq(S) /\ Len(g) = Len(f) /\ g[i] = x
           /\ \A j \in 1..Len(f) : j # i => g[j] = f[j]
BY ExceptSeq

\* Taking the first of what is left to run changes nothing of the whole.
LEMMA NextTaken ==
    ASSUME NEW A, NEW r \in Seq(A), NEW v \in Seq(A), v # << >>
    PROVE  /\ Append(r, Head(v)) \in Seq(A) /\ Tail(v) \in Seq(A)
           /\ Append(r, Head(v)) \o Tail(v) = r \o v
           /\ Tail(v) = << >> <=> Len(v) = 1
<1> DEFINE s == Append(r, Head(v))
           t == Tail(v)
<1>1. /\ Head(v) \in A /\ t \in Seq(A) /\ Len(t) = Len(v) - 1 /\ Head(v) = v[1]
      /\ \A i \in 1..Len(t) : t[i] = v[i + 1]
      /\ Len(v) \in Nat /\ Len(r) \in Nat /\ Len(v) # 0
  <2>1. Len(v) \in Nat /\ Len(r) \in Nat /\ Len(v) # 0
    BY EmptySeq, LenProperties
  <2>2. Head(v) = v[1]
    OBVIOUS
  <2> QED BY <2>1, <2>2, HeadTailProperties
<1>2. /\ s \in Seq(A) /\ Len(s) = Len(r) + 1 /\ s[Len(r) + 1] = v[1]
      /\ \A i \in 1..Len(r) : s[i] = r[i]
  BY <1>1, AppendProperties
<1> HIDE DEF s, t
<1>3. /\ s \o t \in Seq(A) /\ r \o v \in Seq(A)
      /\ Len(s \o t) = Len(s) + Len(t) /\ Len(r \o v) = Len(r) + Len(v)
      /\ \A i \in 1..Len(s) + Len(t) : (s \o t)[i] = IF i <= Len(s) THEN s[i] ELSE t[i - Len(s)]
      /\ \A i \in 1..Len(r) + Len(v) : (r \o v)[i] = IF i <= Len(r) THEN r[i] ELSE v[i - Len(r)]
  BY <1>1, <1>2, ConcatProperties, Zenon
<1>4. Len(s \o t) = Len(r \o v)
  BY <1>1, <1>2, <1>3
<1>5. ASSUME NEW i \in 1..Len(s \o t) PROVE (s \o t)[i] = (r \o v)[i]
  <2>1. i \in 1..Len(s) + Len(t) /\ i \in 1..Len(r) + Len(v) /\ Len(s) = Len(r) + 1
    BY <1>2, <1>3, <1>4
  <2>2. CASE i <= Len(r)
    <3>1. i <= Len(s) /\ i \in 1..Len(r)
      BY <1>1, <2>1, <2>2
    <3>2. (s \o t)[i] = s[i] /\ (r \o v)[i] = r[i]
      BY ONLY <1>3, <2>1, <2>2, <3>1
    <3> QED BY ONLY <1>2, <3>1, <3>2
  <2>3. CASE i = Len(r) + 1
    <3>1. i <= Len(s) /\ ~(i <= Len(r)) /\ i - Len(r) = 1
      BY <1>1, <2>1, <2>3
    <3>2. (s \o t)[i] = s[i] /\ (r \o v)[i] = v[1]
      BY ONLY <1>3, <2>1, <3>1
    <3> QED BY ONLY <1>2, <2>3, <3>2
  <2>4. CASE i > Len(r) + 1
    <3>1. ~(i <= Len(s)) /\ ~(i <= Len(r)) /\ i - Len(s) \in 1..Len(t)
          /\ (i - Len(s)) + 1 = i - Len(r)
      BY <1>1, <2>1, <2>4
    <3>2. (s \o t)[i] = t[i - Len(s)] /\ (r \o v)[i] = v[i - Len(r)]
      BY ONLY Zenon, <1>3, <2>1, <3>1
    <3>3. t[i - Len(s)] = v[(i - Len(s)) + 1]
      BY ONLY Zenon, <1>1, <3>1
    <3> QED BY ONLY <3>1, <3>2, <3>3
  <2> QED BY <1>1, <2>1, <2>2, <2>3, <2>4
<1>6. s \o t = r \o v
  BY ONLY Zenon, <1>3, <1>4, <1>5, SeqEqual
<1>7. t = << >> <=> Len(v) = 1
  <2>1. t = << >> <=> Len(t) = 0
    BY <1>1, EmptySeq
  <2> QED BY <1>1, <2>1
<1>8. QED BY <1>1, <1>2, <1>6, <1>7, Zenon DEF s, t

\* An element is appended as a sequence of its own.
LEMMA AppendIs ==
    ASSUME NEW A, NEW s \in Seq(A), NEW e \in A
    PROVE  Append(s, e) = s \o <<e>> /\ <<e>> \in Seq(A) /\ <<e>> # << >>
<1>1. <<e>> \in Seq(A) /\ Len(<<e>>) = 1 /\ <<e>>[1] = e
  OBVIOUS
<1>2. /\ Append(s, e) \in Seq(A) /\ Len(Append(s, e)) = Len(s) + 1
      /\ Append(s, e)[Len(s) + 1] = e /\ \A i \in 1..Len(s) : Append(s, e)[i] = s[i]
  BY AppendProperties
<1>3. PICK u : u = <<e>>
  BY Zenon
<1>4. u \in Seq(A) /\ Len(u) = 1 /\ u[1] = e
  BY <1>1, <1>3
<1>5. /\ s \o u \in Seq(A) /\ Len(s \o u) = Len(s) + 1 /\ Len(s) \in Nat
      /\ \A i \in 1..Len(s) + 1 : (s \o u)[i] = IF i <= Len(s) THEN s[i] ELSE u[i - Len(s)]
  <2>1. /\ s \o u \in Seq(A) /\ Len(s \o u) = Len(s) + Len(u)
        /\ \A i \in 1..Len(s) + Len(u) : (s \o u)[i] = IF i <= Len(s) THEN s[i] ELSE u[i - Len(s)]
    BY <1>4, ConcatProperties, Zenon
  <2> QED BY ONLY <1>4, <2>1, LenProperties
<1>6. ASSUME NEW i \in 1..Len(s) + 1 PROVE Append(s, e)[i] = (s \o u)[i]
  <2>1. CASE i \in 1..Len(s)
    BY <1>2, <1>5, <2>1
  <2>2. CASE i = Len(s) + 1
    <3>1. ~(i <= Len(s)) /\ i - Len(s) = 1
      BY <1>5, <2>2
    <3> QED BY ONLY <1>2, <1>4, <1>5, <2>2, <3>1
  <2> QED BY <1>5, <2>1, <2>2
<1>7. Append(s, e) = s \o u
  <2>1. PICK t : t = s \o u
    BY Zenon
  <2>2. /\ t \in Seq(A) /\ Len(Append(s, e)) = Len(t)
        /\ \A i \in 1..Len(Append(s, e)) : Append(s, e)[i] = t[i]
    BY <1>2, <1>5, <1>6, <2>1
  <2>3. Append(s, e) = t
    BY ONLY <1>2, <2>2, SeqEqual
  <2> QED BY <2>1, <2>3
<1>8. <<e>> # << >>
  OBVIOUS
<1>9. QED BY <1>1, <1>3, <1>7, <1>8
=============================================================================
