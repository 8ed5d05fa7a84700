-------------------------- MODULE BreakpointsProof --------------------------
(***************************************************************************)
(* Proofs about Breakpoints, for every set of addresses and every          *)
(* capacity.  The inductive invariant is TypeOK /\ CrescentOrder: the      *)
(* order is what makes the early exit of exists() correct, and what makes  *)
(* the swaps of add() an insertion.                                        *)
(***************************************************************************)
EXTENDS Breakpoints, SharedLemmas

-----------------------------------------------------------------------------
IInv == TypeOK /\ CrescentOrder

LEMMA IInvStep == IInv /\ [Next]_vars => IInv'
<1> SUFFICES ASSUME IInv, [Next]_vars PROVE IInv'
  OBVIOUS
<1> USE AddressAssumption, QuantMaxAssumption
<1>1. bp \in Seq(Address) /\ bp \in Seq(Nat) /\ Len(bp) <= QuantMax /\ Ordered(bp)
  BY SeqMonotonic DEF IInv, TypeOK, CrescentOrder, Ordered
<1>2. ASSUME NEW a \in Address, Add(a) PROVE IInv'
  <2>1. CASE Refuses(bp)
    BY <1>2, <2>1 DEF IInv, TypeOK, CrescentOrder, Add, Answer
  <2>2. CASE ~Refuses(bp)
    <3>1. bp' = Insert(bp, a)
      BY <1>2, <2>2 DEF Add
    <3>2. bp' \in Seq(Address) /\ Len(bp') <= QuantMax
      <4>1. Insert(bp, a) \in Seq(Address) /\ Len(Insert(bp, a)) = Len(bp) + 1
        BY <1>1, InsertType
      <4>2. QED BY <1>1, <2>2, <3>1, <4>1 DEF Refuses
    <3>3. CrescentOrder'
      BY <1>1, <3>1, InsertOrdered DEF CrescentOrder, Ordered
    <3>4. QED BY <1>2, <2>2, <3>2, <3>3 DEF IInv, TypeOK, Add, Answer
  <2>3. QED BY <2>1, <2>2
<1>3. ASSUME NEW a \in Address, Remove(a) PROVE IInv'
  <2>1. CASE Refuses(bp) \/ ~Holds(bp, a)
    BY <1>3, <2>1 DEF IInv, TypeOK, CrescentOrder, Remove, Answer
  <2>2. CASE ~Refuses(bp) /\ Holds(bp, a)
    <3>1. bp' = DropFirst(bp, a)
      BY <1>3, <2>2 DEF Remove
    <3>2. bp' \in Seq(Address) /\ Len(bp') <= QuantMax
      BY <1>1, <2>2, <3>1, DropFirstType
    <3>3. CrescentOrder'
      BY <1>1, <2>2, <3>1, DropFirstOrdered DEF CrescentOrder, Ordered
    <3>4. QED BY <1>3, <2>2, <3>2, <3>3 DEF IInv, TypeOK, Remove, Answer
  <2>3. QED BY <2>1, <2>2
<1>4. ASSUME NEW a \in Address, Exists(a) PROVE IInv'
  BY <1>4 DEF IInv, TypeOK, CrescentOrder, Exists, ExistsResult, Answer, Success
<1>5. CASE UNCHANGED vars
  BY <1>5 DEF IInv, TypeOK, CrescentOrder, vars
<1>6. QED BY <1>2, <1>3, <1>4, <1>5 DEF Next

LEMMA Invariance == Spec => []IInv
<1>1. Init => IInv
  BY AddressAssumption, QuantMaxAssumption
  DEF Init, IInv, TypeOK, CrescentOrder, Success
<1>2. QED BY <1>1, IInvStep, PTL DEF Spec

\* Entries are addresses, the table stays within its capacity and every call
\* returns a documented value.
THEOREM TypeCorrect == Spec => []TypeOK
<1>1. IInv => TypeOK
  BY DEF IInv
<1>2. QED BY <1>1, Invariance, PTL

\* The table keeps its entries in ascending order ("crescent order" in
\* breakpoints.H), in every execution.
THEOREM AlwaysOrdered == Spec => []CrescentOrder
<1>1. IInv => CrescentOrder
  BY DEF IInv
<1>2. QED BY <1>1, Invariance, PTL

\* Below its capacity the table answers exists() exactly, in every execution:
\* giving up at the first larger entry loses no breakpoint.
THEOREM ExistsExact == Spec => []ExistsIsMembership
<1>1. IInv => ExistsIsMembership
  <2> SUFFICES ASSUME IInv, ~Refuses(bp), NEW a \in Address
               PROVE  ExistsResult(bp, a) = 1 <=> Holds(bp, a)
    BY DEF ExistsIsMembership
  <2>1. bp \in Seq(Nat) /\ Ordered(bp)
    BY AddressAssumption, SeqMonotonic
    DEF IInv, TypeOK, CrescentOrder, Ordered
  <2>2. Finds(bp, a) <=> Holds(bp, a)
    BY <2>1, FindsHeld
  <2>3. QED BY <2>1, <2>2 DEF ExistsResult
<1>2. QED BY <1>1, Invariance, PTL

\* No call of add, remove or exists changes whether an address other than
\* the one it names has a breakpoint, and an accepted add() always sets its
\* own: the swaps and the shift of the array lose and invent nothing.
THEOREM OthersUntouched ==
    Spec => [][ /\ \A x \in Address :
                     x # reply'.addr => (Holds(bp', x) <=> Holds(bp, x))
                /\ reply'.op = "add" /\ reply'.ret = Success
                     => Holds(bp', reply'.addr) ]_vars
<1> DEFINE Goal == /\ \A x \in Address :
                        x # reply'.addr => (Holds(bp', x) <=> Holds(bp, x))
                   /\ reply'.op = "add" /\ reply'.ret = Success
                        => Holds(bp', reply'.addr)
<1>1. IInv /\ [Next]_vars => [Goal]_vars
  <2> SUFFICES ASSUME IInv, Next PROVE Goal
    OBVIOUS
  <2>1. bp \in Seq(Nat) /\ Ordered(bp)
    BY AddressAssumption, SeqMonotonic
    DEF IInv, TypeOK, CrescentOrder, Ordered
  <2>2. ASSUME NEW a \in Address, Add(a) PROVE Goal
    <3>1. reply'.addr = a
      BY <2>2 DEF Add, Answer
    <3>2. CASE Refuses(bp)
      BY <2>2, <3>2 DEF Add, Answer, Success, Failure
    <3>3. CASE ~Refuses(bp)
      <4>1. \A x \in Nat : Holds(bp', x) <=> x = a \/ Holds(bp, x)
        BY <2>1, <2>2, <3>3, AddressAssumption, InsertHolds DEF Add
      <4>2. QED BY <3>1, <4>1, AddressAssumption
    <3>4. QED BY <3>2, <3>3
  <2>3. ASSUME NEW a \in Address, Remove(a) PROVE Goal
    <3>1. reply'.addr = a /\ reply'.op = "remove"
      BY <2>3 DEF Remove, Answer
    <3>2. CASE bp' = bp
      BY <3>1, <3>2
    <3>3. CASE Holds(bp, a) /\ bp' = DropFirst(bp, a)
      BY <2>1, <3>1, <3>3, AddressAssumption, DropFirstOrdered
    <3>4. QED BY <2>3, <3>2, <3>3 DEF Remove
  <2>4. ASSUME NEW a \in Address, Exists(a) PROVE Goal
    BY <2>4 DEF Exists, Answer
  <2>5. QED BY <2>2, <2>3, <2>4 DEF Next
<1>2. QED BY <1>1, Invariance, PTL DEF Spec

-----------------------------------------------------------------------------
\* What the two loops do to the number of copies of each address.
LEMMA InsertOccurrences ==
    ASSUME NEW s \in Seq(Address), Ordered(s), NEW a \in Address
    PROVE  Occurrences(Insert(s, a)) = [Occurrences(s) EXCEPT ![a] = @ + 1]
<1>1. s \in Seq(Nat) /\ a \in Nat
  BY AddressAssumption, SeqMonotonic
<1> DEFINE t == Insert(s, a)
<1> HIDE DEF t
<1>2. \A x \in Address : /\ Count(s, x) \in Nat
                        /\ Count(t, x) = Count(s, x) + IF x = a THEN 1 ELSE 0
  <2>1. PICK p \in 1..Len(s) + 1 : Grafted(s, t, p, a)
    BY <1>1, InsertGrafts DEF t
  <2>2. QED BY <1>1, <2>1, GraftCount
<1>3. \A x \in Address : Count(s, x) \in Nat
  BY <1>2
<1>4. \A u : Occurrences(u) = [x \in Address |-> Count(u, x)]
  BY DEF Occurrences, Count
<1>5. Occurrences(t) = [Occurrences(s) EXCEPT ![a] = @ + 1]
  BY <1>2, <1>3, <1>4
<1>6. QED BY <1>5 DEF t

LEMMA DropFirstOccurrences ==
    ASSUME NEW s \in Seq(Address), NEW a \in Address, Holds(s, a)
    PROVE  Occurrences(DropFirst(s, a)) = [Occurrences(s) EXCEPT ![a] = @ - 1]
<1> DEFINE t == DropFirst(s, a)
<1>1. s \in Seq(Nat) /\ a \in Nat
  BY AddressAssumption, SeqMonotonic
<1>2. PICK p : t \in Seq(Nat) /\ Grafted(t, s, p, a)
  BY <1>1, DropGrafts
<1> HIDE DEF t
<1>3. ASSUME NEW x \in Address
      PROVE  /\ Count(t, x) \in Nat
             /\ Count(s, x) = Count(t, x) + IF x = a THEN 1 ELSE 0
  BY <1>2, GraftCount
<1>4. \A u : Occurrences(u) = [x \in Address |-> Count(u, x)]
  BY DEF Occurrences, Count
<1>5. Occurrences(t) = [Occurrences(s) EXCEPT ![a] = @ - 1]
  <2>1. \A x \in Address : Count(t, x) = IF x = a THEN Count(s, x) - 1 ELSE Count(s, x)
    <3> SUFFICES ASSUME NEW x \in Address
                 PROVE  Count(t, x) = IF x = a THEN Count(s, x) - 1 ELSE Count(s, x)
      OBVIOUS
    <3>1. QED BY <1>3
  <2>2. QED BY <1>4, <2>1
<1>6. QED BY <1>5 DEF t

\* An address has a copy exactly if the array holds it.
LEMMA HeldIsCounted ==
    ASSUME NEW s \in Seq(Address), NEW a \in Address
    PROVE  Occurrences(s)[a] > 0 <=> Holds(s, a)
<1> DEFINE K == {i \in 1..Len(s) : s[i] = a}
<1>1. IsFiniteSet(K)
  BY FS_Interval, FS_Subset
<1>2. K # {} <=> Holds(s, a)
  BY DEF Holds
<1> HIDE DEF K
<1>3. Cardinality(K) \in Nat /\ (Cardinality(K) = 0 <=> K = {})
  BY <1>1, FS_CardinalityType, FS_EmptySet
<1>4. QED BY <1>2, <1>3 DEF Occurrences, K

\* Every step of the array is a step of the bag.
LEMMA BagStep == IInv /\ [Next]_vars => [Bag!Next]_Bag!vars
<1> SUFFICES ASSUME IInv, [Next]_vars PROVE [Bag!Next]_Bag!vars
  OBVIOUS
<1>1. bp \in Seq(Address) /\ Ordered(bp)
  BY DEF IInv, TypeOK, CrescentOrder, Ordered
<1>2. Refuses(bp) <=> Bag!Full
  BY DEF Refuses, Bag!Full
<1>3. ASSUME NEW a \in Address, Add(a) PROVE Bag!Add(a)
  <2>1. CASE Refuses(bp)
    BY <1>2, <1>3, <2>1 DEF Add, Answer, Failure, Bag!Add
  <2>2. CASE ~Refuses(bp)
    <3>1. bp' = Insert(bp, a)
      BY <1>3, <2>2 DEF Add
    <3>2. Occurrences(bp)' = [Occurrences(bp) EXCEPT ![a] = @ + 1]
      BY <1>1, <3>1, InsertOccurrences
    <3>3. Len(bp') = Len(bp) + 1
      BY <1>1, <3>1, InsertType, AddressAssumption
    <3>4. reply' = [op |-> "add", addr |-> a, ret |-> 0]
      BY <1>3, <2>2 DEF Add, Answer, Success
    <3>5. QED BY <1>2, <2>2, <3>2, <3>3, <3>4 DEF Bag!Add
  <2>3. QED BY <2>1, <2>2
<1>4. ASSUME NEW a \in Address, Remove(a) PROVE Bag!Remove(a)
  <2>1. Holds(bp, a) <=> Occurrences(bp)[a] > 0
    BY <1>1, HeldIsCounted
  <2>2. CASE Refuses(bp) \/ ~Holds(bp, a)
    BY <1>2, <1>4, <2>1, <2>2 DEF Remove, Answer, Failure, Bag!Remove
  <2>3. CASE ~Refuses(bp) /\ Holds(bp, a)
    <3>1. bp' = DropFirst(bp, a)
      BY <1>4, <2>3 DEF Remove
    <3>2. Occurrences(bp)' = [Occurrences(bp) EXCEPT ![a] = @ - 1]
      BY <1>1, <2>3, <3>1, DropFirstOccurrences
    <3>3. Len(bp') = Len(bp) - 1
      BY <1>1, <2>3, <3>1, DropFirstType
    <3>4. reply' = [op |-> "remove", addr |-> a, ret |-> 0]
      BY <1>4, <2>3 DEF Remove, Answer, Success
    <3>5. QED BY <1>2, <2>1, <2>3, <3>2, <3>3, <3>4 DEF Bag!Remove
  <2>4. QED BY <2>2, <2>3
<1>5. ASSUME NEW a \in Address, Exists(a) PROVE Bag!Query(a)
  <2>1. Finds(bp, a) <=> Occurrences(bp)[a] > 0
    <3>1. bp \in Seq(Nat)
      BY <1>1, AddressAssumption, SeqMonotonic
    <3>2. QED BY <1>1, <3>1, FindsHeld, HeldIsCounted
  <2>2. QED BY <1>2, <1>5, <2>1 DEF Exists, Answer, ExistsResult, Bag!Query
<1>6. CASE UNCHANGED vars
  BY <1>6 DEF vars, Bag!vars
<1>7. QED BY <1>3, <1>4, <1>5, <1>6 DEF Next, Bag!Next

\* The array implements the bag: as far as its answers tell, the table is a
\* bounded bag of addresses, whatever the order of the calls.
THEOREM ImplementsBag == Spec => RefinesBag
<1>1. Init => Bag!Init
  <2> SUFFICES ASSUME Init PROVE Bag!Init
    OBVIOUS
  <2>1. \A a \in Address : {i \in 1..Len(bp) : bp[i] = a} = {}
    BY DEF Init
  <2>2. Cardinality({}) = 0
    BY FS_EmptySet
  <2>3. QED BY <2>1, <2>2 DEF Init, Bag!Init, Occurrences, Success
<1>2. QED BY <1>1, BagStep, Invariance, PTL DEF Spec, RefinesBag, Bag!Spec
=============================================================================
