----------------------------- MODULE LoaderProof -----------------------------
(***************************************************************************)
(* Theorems about the target's memory map and the dynamic linker.  The     *)
(* loops of fix_consistency() keep the list in order and every used region *)
(* where it is, and so no two live mappings ever share a byte; the objects *)
(* the linker loads lie one behind the other, below the heap, with tables  *)
(* whose entries stay within what is there; they are loaded breadth first, *)
(* and their functions run in that order; and their references are bound   *)
(* to what the files alone say they mean.                                  *)
(***************************************************************************)
EXTENDS LoaderInvariant, SharedLemmas

-----------------------------------------------------------------------------
(* Lists of nodes.                                                         *)

NodeSet == [status : {"free", "used"}, addr : Addr]

IsUsed(n) == n.status = "used"

\* No used region is empty.
Climbs(s) == \A i \in 1..Len(s) - 1 : IsUsed(s[i]) => s[i].addr < s[i + 1].addr

\* Nothing before a used region starts above it.
UnderUsed(s) ==
    \A i, j \in 1..Len(s) : i < j /\ IsUsed(s[j]) => s[i].addr <= s[j].addr

Apart(s) == \A i \in 1..Len(s) - 1 : ~BothFree(s[i], s[i + 1])

Ascends(s) == \A i, j \in 1..Len(s) : i < j => s[i].addr <= s[j].addr

\* The region from a to e is a used one of its own.
Spans(s, a, e) ==
    \E i \in 1..Len(s) - 1 : IsUsed(s[i]) /\ s[i].addr = a /\ s[i + 1].addr = e

\* Nodes are appended to a list or to the front of one.
LEMMA AppendTo ==
    ASSUME NEW s \in Seq(NodeSet), NEW m \in 0..Len(s), NEW n \in NodeSet,
           NEW u, u = Append(SubSeq(s, 1, m), n)
    PROVE  /\ u \in Seq(NodeSet) /\ Len(u) = m + 1 /\ u[m + 1] = n
           /\ \A p \in 1..m : u[p] = s[p] /\ p \in 1..Len(s)
<1> DEFINE f == SubSeq(s, 1, m)
<1>1. Len(s) \in Nat /\ m \in Nat /\ m <= Len(s)
  OBVIOUS
<1>2. f \in Seq(NodeSet) /\ Len(f) = m /\ \A p \in 1..m : f[p] = s[p]
  BY <1>1
<1> HIDE DEF f
<1>3. u = Append(f, n)
  BY DEF f
<1>4. QED BY <1>1, <1>2, <1>3

\* Both loops keep a list and the regions of its used nodes: kept is what they
\* made of the first j nodes of s.
Follows(s, kept, j) ==
    /\ kept \in Seq(NodeSet) /\ Len(kept) # 0
    /\ kept[1].addr = s[1].addr
    /\ Climbs(kept) /\ UnderUsed(kept)
    /\ \A p \in 1..Len(kept) : \E x \in 1..j : kept[p] = s[x]
    /\ \A i \in 1..j - 1 : IsUsed(s[i]) =>
          \E p \in 1..Len(kept) - 1 : kept[p] = s[i] /\ kept[p + 1].addr = s[i + 1].addr

\* After a turn that left the first m nodes and appended the next one of s, the
\* used regions of s are there.
Keeps(s, kept, j, m) ==
    \A i \in 1..j : IsUsed(s[i]) =>
        \E p \in 1..m : /\ kept[p] = s[i]
                        /\ IF p < m THEN kept[p + 1].addr = s[i + 1].addr
                                    ELSE s[j + 1].addr = s[i + 1].addr

\* The next node may follow the first m of those kept.
Joins(s, kept, j, m) ==
    /\ m = 0 => s[j + 1].addr = s[1].addr
    /\ m # 0 /\ IsUsed(kept[m]) => kept[m].addr < s[j + 1].addr

\* It does.
Joined(s, kept, j, m, u) ==
    /\ m \in 0..Len(kept) /\ u = Append(SubSeq(kept, 1, m), s[j + 1])
    /\ Joins(s, kept, j, m) /\ Keeps(s, kept, j, m)

\* A turn of either loop that appends a node, after it took away the last one
\* or not.
LEMMA FollowsOn ==
    ASSUME NEW s \in Seq(NodeSet), UnderUsed(s), NEW j \in 1..Len(s) - 1,
           NEW kept, Follows(s, kept, j), NEW m, NEW u, Joined(s, kept, j, m, u)
    PROVE  /\ Follows(s, u, j + 1)
           /\ Len(u) = m + 1 /\ u[m + 1] = s[j + 1] /\ \A p \in 1..m : u[p] = kept[p]
<1>1. /\ j + 1 \in 1..Len(s) /\ s[j + 1] \in NodeSet /\ kept \in Seq(NodeSet)
      /\ m \in Nat /\ j \in Nat /\ Len(kept) \in Nat /\ m <= Len(kept)
  <2>1. kept \in Seq(NodeSet)
    BY DEF Follows
  <2>2. Len(kept) \in Nat /\ Len(s) \in Nat
    BY <2>1
  <2>3. j + 1 \in 1..Len(s)
    BY <2>2
  <2>4. m \in 0..Len(kept)
    BY DEF Joined
  <2> QED BY <2>1, <2>2, <2>3, <2>4
<1>2. /\ u \in Seq(NodeSet) /\ Len(u) = m + 1 /\ u[m + 1] = s[j + 1]
      /\ \A p \in 1..m : u[p] = kept[p] /\ p \in 1..Len(kept)
  <2>1. m \in 0..Len(kept) /\ u = Append(SubSeq(kept, 1, m), s[j + 1])
    BY DEF Joined
  <2> QED BY <1>1, <2>1, AppendTo
<1>3. u[1].addr = s[1].addr
  <2>1. CASE m = 0
    BY <1>2, <2>1 DEF Joined, Joins
  <2>2. CASE m # 0
    <3>1. 1 \in 1..m
      BY <1>1, <2>2
    <3>2. kept[1].addr = s[1].addr
      BY DEF Follows
    <3> QED BY <1>2, <3>1, <3>2
  <2> QED BY <2>1, <2>2
<1>4. Climbs(u)
  <2>3. Len(u) - 1 = m
    BY <1>1, <1>2
  <2> SUFFICES ASSUME NEW i \in 1..m, IsUsed(u[i]) PROVE u[i].addr < u[i + 1].addr
    BY <2>3 DEF Climbs
  <2>1. CASE i = m
    <3>1. m # 0 /\ u[m] = kept[m] /\ i + 1 = m + 1
      BY <1>1, <1>2, <2>1
    <3>2. kept[m].addr < s[j + 1].addr
      BY <2>1, <3>1 DEF Joined, Joins
    <3> QED BY <1>2, <2>1, <3>1, <3>2
  <2>2. CASE i # m
    <3>1. i + 1 \in 1..m /\ i \in 1..Len(kept) - 1
      <4>1. i \in Nat /\ i # 0 /\ i < m
        BY <1>1, <2>2
      <4> QED BY <1>1, <4>1
    <3>2. u[i] = kept[i] /\ u[i + 1] = kept[i + 1]
      BY <1>2, <3>1
    <3> QED BY <3>1, <3>2 DEF Follows, Climbs
  <2> QED BY <2>1, <2>2
<1>5. \A p \in 1..m + 1 : \E x \in 1..j + 1 : u[p] = s[x] /\ (p # m + 1 => x \in 1..j)
  <2> SUFFICES ASSUME NEW p \in 1..m + 1
               PROVE  \E x \in 1..j + 1 : u[p] = s[x] /\ (p # m + 1 => x \in 1..j)
    OBVIOUS
  <2>1. CASE p = m + 1
    <3>1. j + 1 \in 1..j + 1
      BY <1>1
    <3> QED BY <1>2, <2>1, <3>1
  <2>2. CASE p # m + 1
    <3>1. p \in 1..m
      BY <1>1, <2>2
    <3>2. PICK x \in 1..j : kept[p] = s[x]
      BY <1>2, <3>1 DEF Follows
    <3>3. x \in 1..j + 1
      BY <1>1
    <3>4. u[p] = s[x]
      BY <1>2, <3>1, <3>2
    <3> QED BY <3>3, <3>4
  <2> QED BY <2>1, <2>2
<1>6. UnderUsed(u)
  <2> SUFFICES ASSUME NEW i \in 1..m + 1, NEW k \in 1..m + 1, i < k, IsUsed(u[k])
               PROVE  u[i].addr <= u[k].addr
    BY <1>2 DEF UnderUsed
  <2>1. i \in 1..m /\ u[i] = kept[i] /\ i \in 1..Len(kept)
    <3>1. i \in 1..m
      BY <1>1
    <3> QED BY <1>2, <3>1
  <2>2. CASE k = m + 1
    <3>1. PICK x \in 1..j : u[i] = s[x]
      <4>1. i # m + 1
        BY <1>1, <2>1
      <4> QED BY <1>5, <4>1
    <3>2. x \in 1..Len(s) /\ x < j + 1
      BY <1>1
    <3> QED BY <1>1, <1>2, <2>2, <3>1, <3>2, Zenon DEF UnderUsed
  <2>3. CASE k # m + 1
    <3>1. k \in 1..m
      BY <1>1, <2>3
    <3>2. u[k] = kept[k] /\ k \in 1..Len(kept)
      BY <1>2, <3>1
    <3> QED BY <2>1, <3>2 DEF Follows, UnderUsed
  <2> QED BY <2>2, <2>3
<1>7. ASSUME NEW i \in 1..(j + 1) - 1, IsUsed(s[i])
      PROVE  \E p \in 1..Len(u) - 1 : u[p] = s[i] /\ u[p + 1].addr = s[i + 1].addr
  <2>1. i \in 1..j
    BY <1>1
  <2>2. PICK p \in 1..m : /\ kept[p] = s[i]
                          /\ IF p < m THEN kept[p + 1].addr = s[i + 1].addr
                                      ELSE s[j + 1].addr = s[i + 1].addr
    BY <1>7, <2>1 DEF Joined, Keeps
  <2>3. p \in 1..Len(u) - 1 /\ u[p] = s[i]
    BY <1>1, <1>2, <2>2
  <2>4. u[p + 1].addr = s[i + 1].addr
    <3>1. CASE p < m
      <4>1. p + 1 \in 1..m
        BY <1>1, <3>1
      <4> QED BY <1>2, <2>2, <3>1, <4>1, Zenon
    <3>2. CASE ~(p < m)
      <4>1. p + 1 = m + 1
        BY <1>1, <3>2
      <4> QED BY <1>2, <2>2, <3>2, <4>1
    <3> QED BY <3>1, <3>2
  <2> QED BY <2>3, <2>4
<1>8. Len(u) # 0
  BY <1>1, <1>2
<1>9. \A p \in 1..Len(u) : \E x \in 1..j + 1 : u[p] = s[x]
  BY <1>2, <1>5
<1>10. Follows(s, u, j + 1)
  BY <1>2, <1>3, <1>4, <1>6, <1>7, <1>8, <1>9 DEF Follows
<1>11. QED BY <1>2, <1>10

LEMMA FollowsFirst ==
    ASSUME NEW s \in Seq(NodeSet), Len(s) # 0, NEW u, u = Append(<< >>, s[1])
    PROVE  Follows(s, u, 1) /\ Len(u) = 1 /\ u[1] = s[1]
<1>1. s[1] \in NodeSet
  OBVIOUS
<1>2. u \in Seq(NodeSet) /\ Len(u) = 1 /\ u[1] = s[1]
  BY <1>1
<1>3. Climbs(u) /\ UnderUsed(u)
  BY <1>2 DEF Climbs, UnderUsed
<1>4. \A p \in 1..Len(u) : \E x \in 1..1 : u[p] = s[x]
  BY <1>2
<1>5. 1..1 - 1 = {}
  OBVIOUS
<1>6. QED BY <1>2, <1>3, <1>4, <1>5 DEF Follows

\* What Follows() says of the kept list's last node and of the list behind it.
LEMMA FollowsFacts ==
    ASSUME NEW s \in Seq(NodeSet), NEW j \in 1..Len(s) - 1, NEW kept, Follows(s, kept, j)
    PROVE  /\ kept \in Seq(NodeSet) /\ Len(kept) \in Nat /\ Len(kept) # 0 /\ kept # << >>
           /\ s[j] \in NodeSet /\ s[j + 1] \in NodeSet /\ j \in Nat /\ j + 1 \in 1..Len(s)
           /\ j \in 1..Len(s)
           /\ Last(kept) = kept[Len(kept)] /\ kept[Len(kept)] \in NodeSet
           /\ Append(kept, s[j + 1]) = Append(SubSeq(kept, 1, Len(kept)), s[j + 1])
<1>1. kept \in Seq(NodeSet) /\ Len(kept) # 0
  BY DEF Follows
<1>2. Len(kept) \in Nat /\ Len(s) \in Nat
  BY <1>1
<1>3. j \in 1..Len(s) /\ j + 1 \in 1..Len(s) /\ j \in Nat
  BY <1>2
<1>4. kept[Len(kept)] \in NodeSet
  <2>1. Len(kept) \in 1..Len(kept)
    BY <1>1, <1>2
  <2> QED BY <1>1, <2>1
<1>5. SubSeq(kept, 1, Len(kept)) = kept
  BY <1>1
<1>6. Last(kept) = kept[Len(kept)]
  BY DEF Last
<1>7. s[j] \in NodeSet /\ s[j + 1] \in NodeSet
  BY <1>3
<1>8. kept # << >>
  BY <1>1
<1>9. QED BY <1>1, <1>2, <1>3, <1>4, <1>5, <1>6, <1>7, <1>8

\* The first loop.
LEMMA ReplacingFollows ==
    ASSUME NEW s \in Seq(NodeSet), Climbs(s), UnderUsed(s), NEW j \in 1..Len(s) - 1,
           NEW kept, Follows(s, kept, j), kept[Len(kept)] = s[j],
           NEW u, u = Replacing(kept, s[j + 1])
    PROVE  Follows(s, u, j + 1) /\ u[Len(u)] = s[j + 1]
<1> DEFINE k == Len(kept)
           n == s[j + 1]
<1>1. /\ kept \in Seq(NodeSet) /\ k \in Nat /\ k # 0 /\ kept # << >>
      /\ s[j] \in NodeSet /\ n \in NodeSet /\ j \in Nat /\ j + 1 \in 1..Len(s) /\ j \in 1..Len(s)
      /\ Last(kept) = s[j] /\ kept[k] = s[j] /\ Append(kept, n) = Append(SubSeq(kept, 1, k), n)
  BY FollowsFacts
<1>2. IsUsed(s[j]) => s[j].addr < n.addr
  BY DEF Climbs
<1>3. IsUsed(n) => s[j].addr <= n.addr
  <2>1. j < j + 1
    BY <1>1
  <2> QED BY <1>1, <2>1 DEF UnderUsed
<1>4. ASSUME NEW i \in 1..j - 1, IsUsed(s[i])
      PROVE  \E p \in 1..k - 1 : kept[p] = s[i] /\ kept[p + 1].addr = s[i + 1].addr
  BY <1>4 DEF Follows
<1> HIDE DEF k, n
<1>5. CASE ~Misplaced(n, s[j])
  <2>1. u = Append(SubSeq(kept, 1, k), n)
    BY <1>1, <1>5 DEF Replacing, n
  <2>2. Keeps(s, kept, j, k)
    <3> SUFFICES ASSUME NEW i \in 1..j, IsUsed(s[i])
                 PROVE  \E p \in 1..k : /\ kept[p] = s[i]
                                        /\ IF p < k THEN kept[p + 1].addr = s[i + 1].addr
                                                    ELSE s[j + 1].addr = s[i + 1].addr
      BY Zenon DEF Keeps
    <3>1. CASE i = j
      <4>1. k \in 1..k /\ ~(k < k)
        BY <1>1
      <4> QED BY <1>1, <3>1, <4>1
    <3>2. CASE i # j
      <4>1. i \in 1..j - 1
        BY <1>1, <3>2
      <4>2. PICK p \in 1..k - 1 : kept[p] = s[i] /\ kept[p + 1].addr = s[i + 1].addr
        BY <1>4, <4>1
      <4>3. p \in 1..k /\ p < k
        BY <1>1
      <4> QED BY <4>2, <4>3
    <3> QED BY <3>1, <3>2
  <2>3. k \in 0..Len(kept)
    BY <1>1 DEF k
  <2>4. Joins(s, kept, j, k)
    BY <1>1, <1>2 DEF Joins, n
  <2>5. Follows(s, u, j + 1) /\ Len(u) = k + 1 /\ u[k + 1] = s[j + 1]
    <3>1. Joined(s, kept, j, k, u)
      BY <2>1, <2>2, <2>3, <2>4 DEF Joined, n
    <3> QED BY <3>1, FollowsOn
  <2> QED BY <2>5
<1>6. CASE Misplaced(n, s[j])
  <2>1. ~IsUsed(s[j]) /\ IsUsed(n) /\ n.addr = s[j].addr
    <3>1. n.addr <= s[j].addr /\ ~BothFree(n, s[j])
      BY <1>6 DEF Misplaced
    <3>2. n.addr \in Int /\ s[j].addr \in Int
      BY <1>1, MemMapAssumption DEF NodeSet, Addr
    <3>3. ~IsUsed(s[j])
      BY <1>2, <3>1, <3>2
    <3>4. IsUsed(n)
      BY <1>1, <3>1, <3>3 DEF BothFree, IsUsed, NodeSet
    <3> QED BY <1>3, <3>1, <3>2, <3>3, <3>4
  <2> DEFINE m == k - 1
  <2>2. m \in 0..k /\ m + 1 = k /\ m \in Nat
    BY <1>1
  <2>3. u = Append(SubSeq(kept, 1, m), n)
    BY <1>1, <1>6, Zenon DEF Replacing, Front, n, k
  <2> HIDE DEF m
  <2>4. ASSUME m = 0 PROVE n.addr = s[1].addr
    <3>1. k = 1
      BY <2>2, <2>4
    <3>2. kept[1].addr = s[1].addr
      BY DEF Follows
    <3> QED BY <1>1, <2>1, <3>1, <3>2, Zenon
  <2>5. m # 0 /\ IsUsed(kept[m]) => kept[m].addr < n.addr
    <3> SUFFICES ASSUME m # 0, IsUsed(kept[m]) PROVE kept[m].addr < n.addr
      OBVIOUS
    <3>1. m \in 1..k - 1
      BY <2>2
    <3>2. kept[m].addr < kept[m + 1].addr
      BY <3>1 DEF Follows, Climbs, k
    <3> QED BY <1>1, <2>1, <2>2, <3>2
  <2>6. Keeps(s, kept, j, m)
    <3> SUFFICES ASSUME NEW i \in 1..j, IsUsed(s[i])
                 PROVE  \E p \in 1..m : /\ kept[p] = s[i]
                                        /\ IF p < m THEN kept[p + 1].addr = s[i + 1].addr
                                                    ELSE s[j + 1].addr = s[i + 1].addr
      BY Zenon DEF Keeps
    <3>1. i # j
      BY <2>1
    <3>2. i \in 1..j - 1
      BY <1>1, <3>1
    <3>3. PICK p \in 1..k - 1 : kept[p] = s[i] /\ kept[p + 1].addr = s[i + 1].addr
      BY <1>4, <3>2
    <3>4. p \in 1..m
      BY <2>2
    <3>5. CASE p < m
      BY <3>3, <3>4, <3>5
    <3>6. CASE ~(p < m)
      <4>1. p + 1 = k
        BY <2>2, <3>4, <3>6
      <4>2. s[j + 1].addr = s[i + 1].addr
        BY <1>1, <2>1, <3>3, <4>1, Zenon DEF n
      <4> QED BY <3>3, <3>4, <3>6, <4>2
    <3> QED BY <3>5, <3>6
  <2>7. m \in 0..Len(kept)
    BY <2>2 DEF k
  <2>8. Follows(s, u, j + 1) /\ Len(u) = m + 1 /\ u[m + 1] = s[j + 1]
    <3>1. Joins(s, kept, j, m)
      BY <2>4, <2>5 DEF Joins, n
    <3>2. Joined(s, kept, j, m, u)
      BY <2>3, <2>6, <2>7, <3>1 DEF Joined, n
    <3> QED BY <3>2, FollowsOn
  <2> QED BY <2>8
<1>7. QED BY <1>5, <1>6

\* What the second loop adds: no two neighbours are free, and the last node is
\* free if the last one seen is.
Merged(s, kept, j) ==
    /\ Apart(kept) /\ kept[1] = s[1]
    /\ IF IsUsed(s[j]) THEN kept[Len(kept)] = s[j] ELSE ~IsUsed(kept[Len(kept)])

\* The second loop.
LEMMA MergingFollows ==
    ASSUME NEW s \in Seq(NodeSet), Climbs(s), UnderUsed(s), NEW j \in 1..Len(s) - 1,
           NEW kept, Follows(s, kept, j), Merged(s, kept, j),
           NEW u, u = Merging(kept, s[j + 1])
    PROVE  Follows(s, u, j + 1) /\ Merged(s, u, j + 1)
<1> DEFINE k == Len(kept)
           n == s[j + 1]
<1>1. /\ kept \in Seq(NodeSet) /\ k \in Nat /\ k # 0 /\ kept # << >>
      /\ s[j] \in NodeSet /\ n \in NodeSet /\ j \in Nat /\ j + 1 \in 1..Len(s) /\ j \in 1..Len(s)
      /\ Last(kept) = kept[k] /\ kept[k] \in NodeSet
      /\ Append(kept, n) = Append(SubSeq(kept, 1, k), n)
  BY FollowsFacts
<1>2. IsUsed(s[j]) => s[j].addr < n.addr
  BY DEF Climbs
<1>3. IF IsUsed(s[j]) THEN kept[k] = s[j] ELSE ~IsUsed(kept[k])
  BY DEF Merged
<1>4. ASSUME NEW i \in 1..j - 1, IsUsed(s[i])
      PROVE  \E p \in 1..k - 1 : kept[p] = s[i] /\ kept[p + 1].addr = s[i + 1].addr
  BY <1>4 DEF Follows
<1>5. Apart(kept) /\ kept[1] = s[1]
  BY DEF Merged
<1> HIDE DEF k, n
<1>6. CASE ~BothFree(n, kept[k])
  <2>1. u = Append(SubSeq(kept, 1, k), n)
    BY <1>1, <1>6 DEF Merging, n
  <2>2. Keeps(s, kept, j, k)
    <3> SUFFICES ASSUME NEW i \in 1..j, IsUsed(s[i])
                 PROVE  \E p \in 1..k : /\ kept[p] = s[i]
                                        /\ IF p < k THEN kept[p + 1].addr = s[i + 1].addr
                                                    ELSE s[j + 1].addr = s[i + 1].addr
      BY Zenon DEF Keeps
    <3>1. CASE i = j
      <4>1. k \in 1..k /\ ~(k < k)
        BY <1>1
      <4> QED BY <1>3, <3>1, <4>1
    <3>2. CASE i # j
      <4>1. i \in 1..j - 1
        BY <1>1, <3>2
      <4>2. PICK p \in 1..k - 1 : kept[p] = s[i] /\ kept[p + 1].addr = s[i + 1].addr
        BY <1>4, <4>1
      <4>3. p \in 1..k /\ p < k
        BY <1>1
      <4> QED BY <4>2, <4>3
    <3> QED BY <3>1, <3>2
  <2>3. k \in 0..Len(kept)
    BY <1>1 DEF k
  <2>4. Joins(s, kept, j, k)
    BY <1>1, <1>2, <1>3 DEF Joins, n
  <2>5. /\ Follows(s, u, j + 1) /\ Len(u) = k + 1 /\ u[k + 1] = n
        /\ \A p \in 1..k : u[p] = kept[p]
    <3>1. Joined(s, kept, j, k, u)
      BY <2>1, <2>2, <2>3, <2>4 DEF Joined, n
    <3> QED BY <3>1, FollowsOn DEF n
  <2>6. Apart(u)
    <3>1. Len(u) - 1 = k
      BY <1>1, <2>5
    <3> SUFFICES ASSUME NEW i \in 1..k PROVE ~BothFree(u[i], u[i + 1])
      BY <3>1 DEF Apart
    <3>2. CASE i = k
      BY <1>6, <2>5, <3>2 DEF BothFree
    <3>3. CASE i # k
      <4>1. i \in 1..k - 1 /\ i + 1 \in 1..k
        BY <1>1, <3>3
      <4>2. u[i] = kept[i] /\ u[i + 1] = kept[i + 1]
        BY <2>5, <4>1
      <4> QED BY <1>5, <4>1, <4>2 DEF Apart, k
    <3> QED BY <3>2, <3>3
  <2>7. u[1] = s[1]
    <3>1. 1 \in 1..k
      BY <1>1
    <3> QED BY <1>5, <2>5, <3>1
  <2>8. Merged(s, u, j + 1)
    BY <2>5, <2>6, <2>7 DEF Merged, n
  <2> QED BY <2>5, <2>8
<1>7. CASE BothFree(n, kept[k])
  <2>1. u = kept
    BY <1>1, <1>7 DEF Merging, n
  <2>2. ~IsUsed(n) /\ ~IsUsed(s[j]) /\ ~IsUsed(kept[k])
    <3>1. ~IsUsed(n) /\ ~IsUsed(kept[k])
      BY <1>7 DEF BothFree, IsUsed
    <3> QED BY <1>3, <3>1
  <2>3. Merged(s, u, j + 1)
    BY <1>5, <2>1, <2>2 DEF Merged, n, k
  <2>4. \A p \in 1..Len(kept) : \E x \in 1..j + 1 : kept[p] = s[x]
    <3>1. \A p \in 1..Len(kept) : \E x \in 1..j : kept[p] = s[x]
      BY DEF Follows
    <3>2. \A x \in 1..j : x \in 1..j + 1
      BY <1>1
    <3> QED BY <3>1, <3>2, Zenon
  <2>5. ASSUME NEW i \in 1..(j + 1) - 1, IsUsed(s[i])
        PROVE  \E p \in 1..Len(kept) - 1 : kept[p] = s[i] /\ kept[p + 1].addr = s[i + 1].addr
    <3>1. i # j
      BY <2>2, <2>5
    <3>2. i \in 1..j - 1
      BY <1>1, <3>1
    <3> QED BY <1>4, <2>5, <3>2 DEF k
  <2>6. /\ kept[1].addr = s[1].addr /\ Climbs(kept) /\ UnderUsed(kept)
        /\ kept \in Seq(NodeSet) /\ Len(kept) # 0
    BY DEF Follows
  <2>7. Follows(s, u, j + 1)
    BY <2>1, <2>4, <2>5, <2>6 DEF Follows
  <2> QED BY <2>3, <2>7
<1>8. QED BY <1>6, <1>7

LEMMA ReplacingType ==
    ASSUME NEW kept \in Seq(NodeSet), NEW n \in NodeSet
    PROVE  Replacing(kept, n) \in Seq(NodeSet)
<1>1. CASE kept # << >> /\ Misplaced(n, Last(kept))
  <2> DEFINE m == Len(kept) - 1
  <2>1. Len(kept) \in Nat /\ Len(kept) # 0
    BY <1>1
  <2>2. m \in 0..Len(kept)
    BY <2>1
  <2>3. Replacing(kept, n) = Append(SubSeq(kept, 1, m), n)
    BY <1>1 DEF Replacing, Front
  <2> HIDE DEF m
  <2> QED BY <2>2, <2>3, AppendTo
<1>2. CASE ~(kept # << >> /\ Misplaced(n, Last(kept)))
  BY <1>2 DEF Replacing
<1>3. QED BY <1>1, <1>2

LEMMA DropMisplacedFollows ==
    ASSUME NEW s \in Seq(NodeSet), Len(s) # 0, Climbs(s), UnderUsed(s),
           NEW u, u = DropMisplaced(s)
    PROVE  Follows(s, u, Len(s)) /\ u[Len(u)] = s[Len(s)]
<1> DEFINE n == Len(s)
           S == Seq(NodeSet)
           step == [p \in (1..n) \X S |-> Replacing(p[2], s[p[1]])]
           Is(f) == f = [j \in 0..n |-> IF j = 0 THEN << >> ELSE Replacing(f[j - 1], s[j])]
<1>1. n \in Nat /\ n # 0 /\ << >> \in S /\ \A j \in 1..n : s[j] \in NodeSet
  OBVIOUS
<1>2. \A j \in 1..n : \A x \in S : step[<<j, x>>] = Replacing(x, s[j]) /\ step[<<j, x>>] \in S
  <2>1. \A j \in 1..n : \A x \in S : step[<<j, x>>] = Replacing(x, s[j])
    <3> HIDE DEF n, S
    <3> QED OBVIOUS
  <2> QED BY <1>1, <2>1, ReplacingType, Zenon
<1>3. \E f : Is(f)
  <2>1. PICK f \in [0..n -> S] :
            f[0] = << >> /\ \A j \in 1..n : f[j] = step[<<j, f[j - 1]>>]
    <3>1. << >> \in S /\ n \in Nat /\ RemainsIn(S, n, step)
      BY <1>1, <1>2, Zenon DEF RemainsIn
    <3> HIDE DEF S, n, step
    <3>2. \E f \in [0..n -> S] : Loop(f, << >>, n, step)
      BY <3>1, Recursion
    <3> QED BY <3>2, Zenon DEF Loop
  <2> HIDE DEF n, S, step
  <2>2. ASSUME NEW j \in 1..n PROVE f[j] = Replacing(f[j - 1], s[j])
    <3>1. j - 1 \in 0..n
      BY <1>1
    <3>2. f[j - 1] \in S
      BY <2>1, <3>1
    <3> QED BY <1>2, <2>1, <3>2, Zenon
  <2>3. \A j \in 0..n : j # 0 => j \in 1..n
    BY <1>1
  <2> QED BY <2>1, <2>2, <2>3, Zenon
<1>4. PICK f : Is(f) /\ u = f[n]
  <2>1. u = (CHOOSE g : Is(g))[n]
    BY DEF DropMisplaced
  <2> HIDE DEF Is
  <2> QED BY <1>3, <2>1, Zenon
<1> HIDE DEF n
<1>5. f[0] = << >> /\ \A j \in 1..n : f[j] = Replacing(f[j - 1], s[j])
  <2>1. 0 \in 0..n /\ \A j \in 1..n : j \in 0..n /\ j # 0
    BY <1>1
  <2> QED BY <1>4, <2>1, Zenon
<1> HIDE DEF Is, S, step
<1> DEFINE Fine(j) == Follows(s, f[j], j) /\ f[j][Len(f[j])] = s[j]
           G == {j \in 0..n : j # 0 => Fine(j)}
<1>6. 0 \in G
  BY <1>1
<1>7. ASSUME NEW j \in 1..n, j - 1 \in G PROVE j \in G
  <2>1. CASE j = 1
    <3>1. f[1] = Append(<< >>, s[1])
      <4>1. 1 - 1 = 0 /\ 1 \in 1..n
        BY <1>1
      <4>2. f[1] = Replacing(<< >>, s[1])
        BY <1>5, <4>1
      <4> QED BY <4>2 DEF Replacing
    <3>2. Follows(s, f[1], 1) /\ Len(f[1]) = 1 /\ f[1][1] = s[1]
      BY <3>1, FollowsFirst
    <3>3. f[1][Len(f[1])] = s[1]
      BY <3>2
    <3> QED BY <1>1, <2>1, <3>2, <3>3
  <2>2. CASE j # 1
    <3> DEFINE i == j - 1
    <3>1. i \in 1..Len(s) - 1 /\ i + 1 = j /\ i # 0
      BY <1>1, <2>2 DEF n
    <3>2. Fine(i)
      BY <1>7, <3>1
    <3>3. f[j] = Replacing(f[i], s[i + 1])
      BY <1>5, <3>1
    <3> HIDE DEF i
    <3>4. Follows(s, f[j], i + 1) /\ f[j][Len(f[j])] = s[i + 1]
      BY <3>1, <3>2, <3>3, ReplacingFollows
    <3>5. Fine(j)
      BY <3>1, <3>4
    <3>6. j \in 0..n
      BY <1>1
    <3> QED BY <3>5, <3>6
  <2> QED BY <2>1, <2>2
<1>8. \A j \in 0..n : j \in G
  <2> HIDE DEF G
  <2> QED BY <1>1, <1>6, <1>7, UpTo, Zenon
<1>9. Fine(n)
  <2>1. n \in 0..n
    BY <1>1
  <2> QED BY <1>1, <1>8, <2>1
<1>10. QED BY <1>4, <1>9 DEF n

LEMMA MergingType ==
    ASSUME NEW kept \in Seq(NodeSet), NEW n \in NodeSet
    PROVE  Merging(kept, n) \in Seq(NodeSet)
BY DEF Merging

LEMMA MergeFreeFollows ==
    ASSUME NEW s \in Seq(NodeSet), Len(s) # 0, Climbs(s), UnderUsed(s),
           NEW u, u = MergeFree(s)
    PROVE  Follows(s, u, Len(s)) /\ Merged(s, u, Len(s))
<1> DEFINE n == Len(s)
           S == Seq(NodeSet)
           step == [p \in (1..n) \X S |-> Merging(p[2], s[p[1]])]
           Is(f) == f = [j \in 0..n |-> IF j = 0 THEN << >> ELSE Merging(f[j - 1], s[j])]
<1>1. n \in Nat /\ n # 0 /\ << >> \in S /\ \A j \in 1..n : s[j] \in NodeSet
  OBVIOUS
<1>2. \A j \in 1..n : \A x \in S : step[<<j, x>>] = Merging(x, s[j]) /\ step[<<j, x>>] \in S
  <2>1. \A j \in 1..n : \A x \in S : step[<<j, x>>] = Merging(x, s[j])
    <3> HIDE DEF n, S
    <3> QED OBVIOUS
  <2> QED BY <1>1, <2>1, MergingType, Zenon
<1>3. \E f : Is(f)
  <2>1. PICK f \in [0..n -> S] :
            f[0] = << >> /\ \A j \in 1..n : f[j] = step[<<j, f[j - 1]>>]
    <3>1. << >> \in S /\ n \in Nat /\ RemainsIn(S, n, step)
      BY <1>1, <1>2, Zenon DEF RemainsIn
    <3> HIDE DEF S, n, step
    <3>2. \E f \in [0..n -> S] : Loop(f, << >>, n, step)
      BY <3>1, Recursion
    <3> QED BY <3>2, Zenon DEF Loop
  <2> HIDE DEF n, S, step
  <2>2. ASSUME NEW j \in 1..n PROVE f[j] = Merging(f[j - 1], s[j])
    <3>1. j - 1 \in 0..n
      BY <1>1
    <3>2. f[j - 1] \in S
      BY <2>1, <3>1
    <3> QED BY <1>2, <2>1, <3>2, Zenon
  <2>3. \A j \in 0..n : j # 0 => j \in 1..n
    BY <1>1
  <2> QED BY <2>1, <2>2, <2>3, Zenon
<1>4. PICK f : Is(f) /\ u = f[n]
  <2>1. u = (CHOOSE g : Is(g))[n]
    BY DEF MergeFree
  <2> HIDE DEF Is
  <2> QED BY <1>3, <2>1, Zenon
<1> HIDE DEF n
<1>5. f[0] = << >> /\ \A j \in 1..n : f[j] = Merging(f[j - 1], s[j])
  <2>1. 0 \in 0..n /\ \A j \in 1..n : j \in 0..n /\ j # 0
    BY <1>1
  <2> QED BY <1>4, <2>1, Zenon
<1> HIDE DEF Is, S, step
<1> DEFINE Fine(j) == Follows(s, f[j], j) /\ Merged(s, f[j], j)
           G == {j \in 0..n : j # 0 => Fine(j)}
<1>6. 0 \in G
  BY <1>1
<1>7. ASSUME NEW j \in 1..n, j - 1 \in G PROVE j \in G
  <2>1. CASE j = 1
    <3>1. f[1] = Append(<< >>, s[1])
      <4>1. 1 - 1 = 0 /\ 1 \in 1..n
        BY <1>1
      <4>2. f[1] = Merging(<< >>, s[1])
        BY <1>5, <4>1
      <4> QED BY <4>2 DEF Merging
    <3>2. Follows(s, f[1], 1) /\ Len(f[1]) = 1 /\ f[1][1] = s[1]
      BY <3>1, FollowsFirst
    <3>3. Merged(s, f[1], 1)
      BY <3>2 DEF Merged, Apart
    <3> QED BY <1>1, <2>1, <3>2, <3>3
  <2>2. CASE j # 1
    <3> DEFINE i == j - 1
    <3>1. i \in 1..Len(s) - 1 /\ i + 1 = j /\ i # 0
      BY <1>1, <2>2 DEF n
    <3>2. Fine(i)
      BY <1>7, <3>1
    <3>3. f[j] = Merging(f[i], s[i + 1])
      BY <1>5, <3>1
    <3> HIDE DEF i
    <3>4. Follows(s, f[j], i + 1) /\ Merged(s, f[j], i + 1)
      BY <3>1, <3>2, <3>3, MergingFollows
    <3>5. Fine(j)
      BY <3>1, <3>4
    <3>6. j \in 0..n
      BY <1>1
    <3> QED BY <3>5, <3>6
  <2> QED BY <2>1, <2>2
<1>8. \A j \in 0..n : j \in G
  <2> HIDE DEF G
  <2> QED BY <1>1, <1>6, <1>7, UpTo, Zenon
<1>9. Fine(n)
  <2>1. n \in 0..n
    BY <1>1
  <2> QED BY <1>1, <1>8, <2>1
<1>10. QED BY <1>4, <1>9 DEF n

-----------------------------------------------------------------------------
(* A list in order, and what keeps it so.                                  *)

Tidy(s) ==
    /\ s \in Seq(NodeSet) /\ Len(s) # 0
    /\ s[1].addr = 0 /\ ~IsUsed(s[Len(s)])
    /\ Climbs(s) /\ Apart(s) /\ Ascends(s)

\* A list that fix_consistency() can put in order.
Fixable(s) ==
    /\ s \in Seq(NodeSet) /\ Len(s) # 0
    /\ s[1].addr = 0 /\ ~IsUsed(s[Len(s)])
    /\ Climbs(s) /\ UnderUsed(s)

\* The used regions of s are regions of u.
KeepsUsed(s, u) == \A a, e \in Int : Spans(s, a, e) => Spans(u, a, e)

LEMMA FollowsKeepsUsed ==
    ASSUME NEW s \in Seq(NodeSet), NEW u, Follows(s, u, Len(s))
    PROVE  KeepsUsed(s, u)
<1> SUFFICES ASSUME NEW a \in Int, NEW e \in Int, Spans(s, a, e) PROVE Spans(u, a, e)
  BY DEF KeepsUsed
<1>1. PICK i \in 1..Len(s) - 1 : IsUsed(s[i]) /\ s[i].addr = a /\ s[i + 1].addr = e
  BY DEF Spans
<1>2. PICK p \in 1..Len(u) - 1 : u[p] = s[i] /\ u[p + 1].addr = s[i + 1].addr
  BY <1>1, Zenon DEF Follows
<1>3. QED BY <1>1, <1>2, Zenon DEF Spans

LEMMA AscendsFrom ==
    ASSUME NEW s \in Seq(NodeSet), Climbs(s), UnderUsed(s), Apart(s)
    PROVE  Ascends(s)
<1> SUFFICES ASSUME NEW i \in 1..Len(s), NEW j \in 1..Len(s), i < j
             PROVE  s[i].addr <= s[j].addr
  BY DEF Ascends
<1>1. CASE IsUsed(s[j])
  BY <1>1 DEF UnderUsed
<1>2. CASE ~IsUsed(s[j])
  <2> DEFINE k == j - 1
  <2>1. k \in 1..Len(s) - 1 /\ k + 1 = j /\ k \in 1..Len(s) /\ i <= k /\ k \in Nat
    OBVIOUS
  <2> HIDE DEF k
  <2>2. s[k] \in NodeSet /\ s[j] \in NodeSet /\ s[i] \in NodeSet
    BY <2>1
  <2>3. IsUsed(s[k])
    <3>1. ~BothFree(s[k], s[j])
      BY <2>1 DEF Apart
    <3> QED BY <1>2, <2>2, <3>1 DEF BothFree, IsUsed, NodeSet
  <2>4. s[k].addr < s[j].addr
    BY <2>1, <2>3 DEF Climbs
  <2>5. s[i].addr <= s[k].addr
    <3>1. CASE i = k
      BY <2>2, <3>1, MemMapAssumption DEF NodeSet, Addr
    <3>2. CASE i # k
      <4>1. i < k
        BY <2>1, <3>2
      <4> QED BY <2>1, <2>3, <4>1 DEF UnderUsed
    <3> QED BY <3>1, <3>2
  <2>6. s[i].addr \in Int /\ s[j].addr \in Int /\ s[k].addr \in Int
    BY <2>2, MemMapAssumption DEF NodeSet, Addr
  <2> QED BY <2>4, <2>5, <2>6
<1>3. QED BY <1>1, <1>2

\* fix_consistency() puts such a list in order and leaves every used region
\* where it is.
LEMMA FixConsistencyTidies ==
    ASSUME NEW s, Fixable(s), NEW u, u = FixConsistency(s)
    PROVE  /\ Tidy(u) /\ KeepsUsed(s, u)
           /\ \A p \in 1..Len(u) : \E x \in 1..Len(s) : u[p] = s[x]
<1> DEFINE d == DropMisplaced(s)
<1>1. s \in Seq(NodeSet) /\ Len(s) # 0 /\ Climbs(s) /\ UnderUsed(s) /\ Len(s) \in Nat
  BY DEF Fixable
<1>2. Follows(s, d, Len(s)) /\ d[Len(d)] = s[Len(s)]
  BY <1>1, DropMisplacedFollows
<1>3. u = MergeFree(d)
  BY DEF FixConsistency
<1> HIDE DEF d
<1>4. /\ d \in Seq(NodeSet) /\ Len(d) # 0 /\ Climbs(d) /\ UnderUsed(d) /\ d[1].addr = s[1].addr
      /\ \A p \in 1..Len(d) : \E x \in 1..Len(s) : d[p] = s[x]
  BY <1>2 DEF Follows
<1>5. Follows(d, u, Len(d)) /\ Merged(d, u, Len(d))
  BY <1>3, <1>4, MergeFreeFollows
<1>6. /\ u \in Seq(NodeSet) /\ Len(u) # 0 /\ Climbs(u) /\ UnderUsed(u) /\ u[1].addr = d[1].addr
      /\ \A p \in 1..Len(u) : \E x \in 1..Len(d) : u[p] = d[x]
  BY <1>5 DEF Follows
<1>7. Apart(u) /\ ~IsUsed(u[Len(u)])
  <2>1. ~IsUsed(d[Len(d)])
    BY <1>2 DEF Fixable
  <2> QED BY <1>5, <2>1 DEF Merged
<1>8. Tidy(u)
  <2>1. s[1].addr = 0
    BY DEF Fixable
  <2> QED BY <1>4, <1>6, <1>7, <2>1, AscendsFrom DEF Tidy
<1>9. KeepsUsed(s, u)
  <2>1. KeepsUsed(s, d) /\ KeepsUsed(d, u)
    BY <1>1, <1>2, <1>4, <1>5, FollowsKeepsUsed
  <2> QED BY <2>1 DEF KeepsUsed
<1>10. \A p \in 1..Len(u) : \E x \in 1..Len(s) : u[p] = s[x]
  <2> SUFFICES ASSUME NEW p \in 1..Len(u) PROVE \E x \in 1..Len(s) : u[p] = s[x]
    OBVIOUS
  <2>1. PICK y \in 1..Len(d) : u[p] = d[y]
    BY <1>6
  <2> QED BY <1>4, <2>1
<1>11. QED BY <1>8, <1>9, <1>10

\* What a concatenation holds.
Chain(S, w, g, v) ==
    /\ v \in Seq(S) /\ Len(v) = Len(w) + Len(g)
    /\ \A p \in 1..Len(w) : v[p] = w[p]
    /\ \A p \in 1..Len(g) : v[Len(w) + p] = g[p]

LEMMA Chained ==
    ASSUME NEW S, NEW w \in Seq(S), NEW g \in Seq(S)
    PROVE  Chain(S, w, g, w \o g)
<1> DEFINE l == Len(w)
           m == Len(g)
           v == w \o g
<1>1. l \in Nat /\ m \in Nat
  OBVIOUS
<1>2. /\ v \in Seq(S) /\ Len(v) = l + m
      /\ \A i \in 1..l + m : v[i] = IF i <= l THEN w[i] ELSE g[i - l]
  BY ConcatProperties
<1> HIDE DEF l, m, v
<1>3. \A p \in 1..l : p <= l /\ p \in 1..l + m
  BY <1>1
<1>4. \A p \in 1..m : ~(l + p <= l) /\ (l + p) - l = p /\ l + p \in 1..l + m
  BY <1>1
<1>5. (\A p \in 1..l : v[p] = w[p]) /\ \A p \in 1..m : v[l + p] = g[p]
  BY <1>2, <1>3, <1>4
<1>6. Chain(S, w, g, v)
  BY <1>2, <1>5 DEF l, m, Chain
<1>7. QED BY <1>6 DEF v

\* Two nodes put in behind the first k of a list.
Amid(s, k, x, y) == SubSeq(s, 1, k) \o <<x, y>> \o SubSeq(s, k + 1, Len(s))

Wedged(s, k, x, y, v) ==
    /\ v \in Seq(NodeSet) /\ Len(v) = Len(s) + 2
    /\ \A p \in 1..k : v[p] = s[p]
    /\ v[k + 1] = x /\ v[k + 2] = y
    /\ \A p \in k + 1..Len(s) : v[p + 2] = s[p]

LEMMA PutIn ==
    ASSUME NEW s \in Seq(NodeSet), NEW k \in 1..Len(s), NEW x \in NodeSet, NEW y \in NodeSet
    PROVE  Wedged(s, k, x, y, Amid(s, k, x, y))
<1> DEFINE n == Len(s)
           f == SubSeq(s, 1, k)
           g == SubSeq(s, k + 1, n)
           w == f \o <<x, y>>
           v == Amid(s, k, x, y)
<1>1. n \in Nat /\ k \in Nat /\ k # 0 /\ k <= n
  OBVIOUS
<1>2. f \in Seq(NodeSet) /\ Len(f) = k /\ \A p \in 1..k : f[p] = s[p]
  BY <1>1
<1>3. g \in Seq(NodeSet) /\ Len(g) = n - k /\ \A p \in 1..n - k : g[p] = s[k + p]
  BY <1>1
<1> HIDE DEF f, g
<1>4. w \in Seq(NodeSet) /\ Len(w) = k + 2
  BY <1>1, <1>2
<1>5. (\A p \in 1..k : w[p] = f[p]) /\ w[k + 1] = x /\ w[k + 2] = y
  BY <1>1, <1>2
<1>6. v = w \o g
  BY DEF f, g, w, n, Amid
<1> HIDE DEF w, n, v
<1>13. /\ v \in Seq(NodeSet) /\ Len(v) = k + 2 + (n - k)
       /\ \A p \in 1..k + 2 : v[p] = w[p]
       /\ \A p \in 1..n - k : v[k + 2 + p] = g[p]
  <2>3. Chain(NodeSet, w, g, w \o g)
    BY <1>3, <1>4, Chained
  <2>2. Len(w) = k + 2 /\ Len(g) = n - k
    BY <1>3, <1>4
  <2>4. Chain(NodeSet, w, g, v)
    BY <1>6, <2>3
  <2> QED BY ONLY <2>2, <2>4 DEF Chain
<1>7. v \in Seq(NodeSet) /\ Len(v) = n + 2
  BY ONLY <1>1, <1>13
<1>9. \A p \in k + 1..n : v[p + 2] = s[p]
  <2> SUFFICES ASSUME NEW p \in k + 1..n PROVE v[p + 2] = s[p]
    OBVIOUS
  <2> DEFINE q == p - k
  <2>1. q \in 1..n - k /\ k + q = p /\ (k + 2) + q = p + 2
    BY <1>1
  <2> HIDE DEF q
  <2>2. v[(k + 2) + q] = g[q]
    BY <1>13, <2>1
  <2> QED BY <1>3, <2>1, <2>2, Zenon
<1>10. (\A p \in 1..k : p \in 1..k + 2) /\ k + 1 \in 1..k + 2 /\ k + 2 \in 1..k + 2
  BY <1>1
<1>11. Wedged(s, k, x, y, v)
  BY <1>2, <1>5, <1>7, <1>9, <1>10, <1>13 DEF n, Wedged
<1>12. QED BY <1>11 DEF v

\* Where the nodes of a new used region from a to e may go: behind the first k.
Fits(s, k, a, e) ==
    /\ \A j \in 1..k : s[j].addr <= a
    /\ IsUsed(s[k]) => s[k].addr < a /\ k < Len(s) /\ s[k + 1].addr = a
    /\ \A j \in k + 1..Len(s) : IsUsed(s[j]) => e <= s[j].addr

LEMMA WedgedFixable ==
    ASSUME NEW s, Tidy(s), NEW k \in 1..Len(s), NEW a \in Addr, NEW e \in Addr, a < e,
           Fits(s, k, a, e), NEW v, Wedged(s, k, Used(a), Free(e), v)
    PROVE  Fixable(v)
<1>1. /\ s \in Seq(NodeSet) /\ Len(s) \in Nat /\ k \in Nat /\ k # 0 /\ k <= Len(s)
      /\ s[1].addr = 0 /\ ~IsUsed(s[Len(s)]) /\ a \in Int /\ e \in Int
  <2>1. s \in Seq(NodeSet) /\ s[1].addr = 0 /\ ~IsUsed(s[Len(s)])
    BY DEF Tidy
  <2> QED BY <2>1, MemMapAssumption DEF Addr
<1>3. /\ v \in Seq(NodeSet) /\ Len(v) = Len(s) + 2
      /\ \A p \in 1..k : v[p] = s[p]
      /\ v[k + 1] = Used(a) /\ v[k + 2] = Free(e)
      /\ \A p \in k + 1..Len(s) : v[p + 2] = s[p]
  BY DEF Wedged
<1>4. IsUsed(Used(a)) /\ Used(a).addr = a /\ ~IsUsed(Free(e)) /\ Free(e).addr = e
  BY DEF Used, Free, Node, IsUsed
<1> DEFINE n == Len(s)
<1> HIDE DEF n
<1>5. Len(v) = n + 2 /\ n \in Nat /\ k <= n /\ n = Len(s)
  BY <1>1, <1>3 DEF n
\* Each position is one of four kinds.
<1>6. ASSUME NEW p \in 1..n + 2
      PROVE  \/ p \in 1..k \/ p = k + 1 \/ p = k + 2
             \/ \E q \in k + 1..n : p = q + 2
  <2>1. CASE p > k + 2
    <3>1. p - 2 \in k + 1..n /\ p = (p - 2) + 2
      BY <1>1, <1>5, <2>1
    <3> QED BY <3>1
  <2> QED BY <1>1, <1>5, <2>1
<1>7. Climbs(v)
  <2>1. Len(v) - 1 = n + 1
    BY <1>5
  <2> SUFFICES ASSUME NEW p \in 1..n + 1, IsUsed(v[p]) PROVE v[p].addr < v[p + 1].addr
    BY <2>1 DEF Climbs
  <2>2. CASE p < k
    <3>1. p \in 1..k /\ p + 1 \in 1..k /\ p \in 1..Len(s) - 1
      BY <1>1, <2>2
    <3>2. v[p] = s[p] /\ v[p + 1] = s[p + 1]
      BY <1>3, <3>1
    <3> QED BY <3>1, <3>2, Zenon DEF Tidy, Climbs
  <2>3. CASE p = k
    <3>1. k \in 1..k
      BY <1>1
    <3>2. v[p] = s[k] /\ v[p + 1] = Used(a)
      BY <1>3, <2>3, <3>1
    <3> QED BY <1>4, <3>2 DEF Fits
  <2>4. CASE p = k + 1
    <3>1. p + 1 = k + 2
      BY <1>1, <2>4
    <3> QED BY <1>3, <1>4, <2>4, <3>1
  <2>5. CASE p = k + 2
    BY <1>3, <1>4, <2>5
  <2>6. CASE p > k + 2
    <3> DEFINE q == p - 2
    <3>1. /\ q \in k + 1..Len(s) /\ q + 1 \in k + 1..Len(s) /\ q \in 1..Len(s) - 1
          /\ p = q + 2 /\ p + 1 = (q + 1) + 2
      BY <1>1, <1>5, <2>6
    <3> HIDE DEF q
    <3>2. v[p] = s[q] /\ v[p + 1] = s[q + 1]
      BY <1>3, <3>1
    <3>3. IsUsed(s[q]) => s[q].addr < s[q + 1].addr
      BY <3>1, Zenon DEF Tidy, Climbs
    <3> QED BY <3>2, <3>3
  <2> QED BY <1>1, <1>5, <2>2, <2>3, <2>4, <2>5, <2>6
<1>8. UnderUsed(v)
  <2> SUFFICES ASSUME NEW p \in 1..n + 2, NEW q \in 1..n + 2, p < q, IsUsed(v[q])
               PROVE  v[p].addr <= v[q].addr
    BY <1>5 DEF UnderUsed
  <2>1. ASSUME NEW i \in 1..Len(s), NEW j \in 1..Len(s), i < j
        PROVE  s[i].addr <= s[j].addr
    BY <2>1 DEF Tidy, Ascends
  <2>2. CASE q \in 1..k
    <3>1. p \in 1..k /\ p \in 1..Len(s) /\ q \in 1..Len(s)
      BY <1>1, <2>2
    <3>2. v[p] = s[p] /\ v[q] = s[q]
      BY <1>3, <2>2, <3>1
    <3> QED BY <2>1, <3>1, <3>2
  <2>3. CASE q = k + 1
    <3>1. p \in 1..k
      BY <1>1, <2>3
    <3> QED BY <1>3, <1>4, <2>3, <3>1 DEF Fits
  <2>4. CASE q = k + 2
    BY <1>3, <1>4, <2>4
  <2>5. CASE \E j \in k + 1..n : q = j + 2
    <3>1. PICK j \in k + 1..n : q = j + 2
      BY <2>5
    <3>2. v[q] = s[j] /\ j \in 1..Len(s) /\ j \in k + 1..Len(s) /\ j \in Nat
      BY <1>1, <1>3, <1>5, <3>1
    <3>3. e <= s[j].addr
      BY <3>2 DEF Fits
    <3>4. s[j].addr \in Int
      <4>1. s[j] \in NodeSet
        BY <1>1, <3>2
      <4> QED BY <4>1, MemMapAssumption DEF NodeSet, Addr
    <3>5. CASE p \in 1..k
      <4>1. p \in 1..Len(s) /\ p < j
        BY <1>1, <3>2, <3>5
      <4> QED BY <1>3, <2>1, <3>2, <3>5, <4>1, Zenon
    <3>6. CASE p = k + 1
      BY <1>1, <1>3, <1>4, <3>2, <3>3, <3>4, <3>6
    <3>7. CASE p = k + 2
      BY <1>1, <1>3, <1>4, <3>2, <3>3, <3>4, <3>7, Zenon
    <3>8. CASE \E i \in k + 1..n : p = i + 2
      <4>1. PICK i \in k + 1..n : p = i + 2
        BY <3>8
      <4>2. v[p] = s[i] /\ i \in 1..Len(s) /\ i < j
        BY <1>1, <1>3, <1>5, <3>1, <4>1
      <4> QED BY <2>1, <3>2, <4>2
    <3> QED BY <1>6, <3>5, <3>6, <3>7, <3>8
  <2> QED BY <1>6, <2>2, <2>3, <2>4, <2>5
<1>9. v[1].addr = 0
  <2>1. 1 \in 1..k
    BY <1>1
  <2> QED BY <1>1, <1>3, <2>1, Zenon
<1>10. ~IsUsed(v[Len(v)])
  <2>1. CASE k = n
    BY <1>3, <1>4, <1>5, <2>1
  <2>2. CASE k # n
    <3>1. n \in k + 1..n
      BY <1>1, <1>5, <2>2
    <3> QED BY <1>1, <1>3, <1>5, <3>1
  <2> QED BY <2>1, <2>2
<1>11. Len(v) # 0
  BY <1>5
<1>12. QED BY <1>3, <1>7, <1>8, <1>9, <1>10, <1>11 DEF Fixable

LEMMA WedgedKeeps ==
    ASSUME NEW s, Tidy(s), NEW k \in 1..Len(s), NEW a \in Addr, NEW e \in Addr,
           Fits(s, k, a, e), NEW v, Wedged(s, k, Used(a), Free(e), v)
    PROVE  /\ KeepsUsed(s, v) /\ Spans(v, a, e)
           /\ \A p \in 1..Len(v) : (\E x \in 1..Len(s) : v[p] = s[x]) \/ v[p].addr \in {a, e}
<1>1. s \in Seq(NodeSet) /\ Len(s) \in Nat /\ k \in Nat /\ k # 0 /\ k <= Len(s)
  <2>1. s \in Seq(NodeSet)
    BY DEF Tidy
  <2> QED BY <2>1
<1>2. /\ Len(v) = Len(s) + 2
      /\ \A p \in 1..k : v[p] = s[p]
      /\ v[k + 1] = Used(a) /\ v[k + 2] = Free(e)
      /\ \A p \in k + 1..Len(s) : v[p + 2] = s[p]
  BY DEF Wedged
<1>3. IsUsed(Used(a)) /\ Used(a).addr = a /\ Free(e).addr = e
  BY DEF Used, Free, Node, IsUsed
<1>4. KeepsUsed(s, v)
  <2> SUFFICES ASSUME NEW b \in Int, NEW d \in Int, Spans(s, b, d) PROVE Spans(v, b, d)
    BY DEF KeepsUsed
  <2>1. PICK p \in 1..Len(s) - 1 : IsUsed(s[p]) /\ s[p].addr = b /\ s[p + 1].addr = d
    BY Zenon DEF Spans
  <2>2. CASE p < k
    <3>1. p \in 1..k /\ p + 1 \in 1..k /\ p \in 1..Len(v) - 1
      BY <1>1, <1>2, <2>2
    <3>2. v[p] = s[p] /\ v[p + 1] = s[p + 1]
      BY <1>2, <3>1
    <3> QED BY <2>1, <3>1, <3>2, Zenon DEF Spans
  <2>3. CASE p = k
    <3>1. k \in 1..k /\ k \in 1..Len(v) - 1
      BY <1>1, <1>2
    <3>2. v[k] = s[k] /\ v[k + 1].addr = a
      BY <1>2, <1>3, <3>1
    <3>3. a = d
      BY <2>1, <2>3 DEF Fits
    <3> QED BY <2>1, <2>3, <3>1, <3>2, <3>3, Zenon DEF Spans
  <2>4. CASE p > k
    <3>1. p \in k + 1..Len(s) /\ p + 1 \in k + 1..Len(s)
      BY <1>1, <2>4
    <3>2. v[p + 2] = s[p] /\ v[(p + 1) + 2] = s[p + 1]
      BY <1>2, <3>1
    <3>3. p + 2 \in 1..Len(v) - 1 /\ (p + 2) + 1 = (p + 1) + 2
      BY <1>1, <1>2
    <3> QED BY <2>1, <3>2, <3>3, Zenon DEF Spans
  <2> QED BY <1>1, <2>2, <2>3, <2>4
<1>5. Spans(v, a, e)
  <2>1. k + 1 \in 1..Len(v) - 1 /\ (k + 1) + 1 = k + 2
    BY <1>1, <1>2
  <2> QED BY <1>2, <1>3, <2>1 DEF Spans
<1>6. ASSUME NEW p \in 1..Len(v)
      PROVE  (\E x \in 1..Len(s) : v[p] = s[x]) \/ v[p].addr \in {a, e}
  <2>1. CASE p <= k
    <3>1. p \in 1..k /\ p \in 1..Len(s)
      BY <1>1, <2>1
    <3> QED BY <1>2, <3>1
  <2>2. CASE p = k + 1 \/ p = k + 2
    BY <1>2, <1>3, <2>2
  <2>3. CASE p > k + 2
    <3> DEFINE q == p - 2
    <3>1. q \in k + 1..Len(s) /\ q \in 1..Len(s) /\ q + 2 = p
      BY <1>1, <1>2, <2>3
    <3> HIDE DEF q
    <3> QED BY <1>2, <3>1, Zenon
  <2> QED BY <1>1, <1>2, <2>1, <2>2, <2>3
<1>7. QED BY <1>4, <1>5, <1>6

\* The free region at s[i] has room for size bytes from a on.
RoomAt(s, i, a, size) ==
    /\ ~IsUsed(s[i]) /\ s[i].addr <= a
    /\ i < Len(s) => a < s[i + 1].addr /\ a + size <= s[i + 1].addr

\* Where add_region() puts them in.
Behind(s, a) == Max({1} \cup {i \in 1..Len(s) : \A j \in 1..i : s[j].addr < a})

LEMMA RoomFits ==
    ASSUME NEW s, Tidy(s), NEW a \in Addr, NEW size \in Nat, NEW i \in 1..Len(s),
           RoomAt(s, i, a, size)
    PROVE  Behind(s, a) \in 1..Len(s) /\ Fits(s, Behind(s, a), a, a + size)
<1> DEFINE n == Len(s)
           k == Behind(s, a)
           T == {1} \cup {x \in 1..n : \A j \in 1..x : s[j].addr < a}
<1>1. s \in Seq(NodeSet) /\ n \in Nat /\ n # 0 /\ s[1].addr = 0 /\ i \in Nat /\ i # 0 /\ i <= n
  <2>1. s \in Seq(NodeSet) /\ Len(s) # 0 /\ s[1].addr = 0
    BY DEF Tidy
  <2> QED BY <2>1
<1>2. a \in Int /\ size \in Int /\ \A j \in 1..n : s[j] \in NodeSet /\ s[j].addr \in Int
  <2>1. \A j \in 1..n : s[j] \in NodeSet
    BY <1>1
  <2> QED BY <2>1, MemMapAssumption DEF NodeSet, Addr
<1>3. k \in T /\ \A t \in T : t <= k
  <2>1. T \subseteq 0..n /\ T # {}
    BY <1>1
  <2>2. k = Max(T)
    BY DEF Behind
  <2> HIDE DEF T, k, n
  <2> QED BY <1>1, <2>1, <2>2, MaxOf, Zenon
<1>4. \A x, y \in 1..n : x < y => s[x].addr <= s[y].addr
  BY DEF Tidy, Ascends
<1>5. k \in 1..n /\ (k # 1 => \A j \in 1..k : s[j].addr < a)
  <2>1. 1 \in 1..n
    BY <1>1
  <2> HIDE DEF k, n
  <2> QED BY <1>3, <2>1
<1>6. \A x \in 1..n : (\A j \in 1..x : s[j].addr < a) => x <= k
  BY <1>3
<1>7. ~IsUsed(s[i]) /\ s[i].addr <= a
  BY DEF RoomAt
<1>8. i < n => a < s[i + 1].addr /\ a + size <= s[i + 1].addr
  BY DEF RoomAt
<1> HIDE DEF k, T, n
\* A used node before it starts below a.
<1>9. ASSUME NEW j \in 1..n, j < i, IsUsed(s[j]) PROVE s[j].addr < a
  <2>1. j \in 1..Len(s) - 1 /\ j + 1 \in 1..n /\ j + 1 <= i
    BY <1>1, j < i DEF n
  <2>2. s[j].addr < s[j + 1].addr
    BY <1>9, <2>1 DEF Tidy, Climbs
  <2>3. s[j + 1].addr <= s[i].addr
    <3>1. CASE j + 1 = i
      BY <1>1, <1>2, <2>1, <3>1
    <3>2. CASE j + 1 # i
      BY <1>1, <1>4, <2>1, <3>2
    <3> QED BY <3>1, <3>2
  <2>4. s[j].addr \in Int /\ s[j + 1].addr \in Int /\ s[i].addr \in Int
    BY <1>1, <1>2, <2>1
  <2> QED BY ONLY <1>2, <1>7, <2>2, <2>3, <2>4
<1>10. k <= i
  <2> SUFFICES ASSUME i < k PROVE FALSE
    BY <1>1, <1>5
  <2>1. i < n /\ i + 1 \in 1..k /\ i + 1 \in 1..n /\ k # 1
    BY <1>1, <1>5
  <2>2. s[i + 1].addr < a
    BY <1>5, <2>1
  <2> QED BY <1>2, <1>8, <2>1, <2>2
<1>11. i - 1 <= k
  <2>1. CASE i = 1
    BY <1>1, <1>5, <2>1
  <2>2. CASE i # 1
    <3> DEFINE h == i - 1
    <3>1. h \in 1..n /\ h < i /\ h + 1 = i /\ h \in 1..Len(s) - 1 /\ i \in 1..n
      BY <1>1, <2>2 DEF n
    <3> HIDE DEF h
    <3>2. CASE IsUsed(s[h])
      <4>1. s[h].addr < a
        BY <1>9, <3>1, <3>2
      <4>2. ASSUME NEW j \in 1..h PROVE s[j].addr < a
        <5>1. j \in 1..n /\ (j = h \/ j < h)
          BY <1>1, <3>1
        <5>2. j < h => s[j].addr <= s[h].addr
          BY <1>4, <3>1, <5>1
        <5> QED BY <1>2, <3>1, <4>1, <5>1, <5>2
      <4>3. h <= k
        BY <1>6, <3>1, <4>2
      <4> QED BY <1>1, <1>5, <3>1, <4>3
    <3>3. CASE ~IsUsed(s[h])
      <4>1. ~BothFree(s[h], s[i])
        BY <3>1 DEF Tidy, Apart
      <4>2. s[h] \in NodeSet /\ s[i] \in NodeSet
        BY <1>2, <3>1
      <4> QED BY <1>7, <3>3, <4>1, <4>2 DEF BothFree, IsUsed, NodeSet
    <3> QED BY <3>2, <3>3
  <2> QED BY <2>1, <2>2
<1>12. k = i \/ (k + 1 = i /\ k \in 1..n /\ k < n)
  BY <1>1, <1>5, <1>10, <1>11
<1>13. \A j \in 1..k : s[j].addr <= a
  <2> SUFFICES ASSUME NEW j \in 1..k PROVE s[j].addr <= a
    OBVIOUS
  <2>1. j \in 1..n /\ i \in 1..n /\ (j = i \/ j < i)
    BY <1>1, <1>5, <1>10
  <2>2. j < i => s[j].addr <= s[i].addr
    BY <1>4, <2>1
  <2> QED BY <1>2, <1>7, <2>1, <2>2
\* If a is where the free node is, its new neighbour takes its place.
<1>14. ASSUME k + 1 = i PROVE s[i].addr = a
  <2> SUFFICES ASSUME s[i].addr # a PROVE FALSE
    OBVIOUS
  <2>1. i \in 1..n /\ s[i].addr < a
    BY <1>1, <1>2, <1>7
  <2>2. ASSUME NEW j \in 1..i PROVE s[j].addr < a
    <3>1. j \in 1..n /\ (j = i \/ j < i)
      BY <1>1
    <3>2. j < i => s[j].addr <= s[i].addr
      BY <1>4, <2>1, <3>1
    <3> QED BY <1>2, <2>1, <3>1, <3>2
  <2>3. i <= k
    BY <1>6, <2>1, <2>2
  <2> QED BY <1>1, <1>5, <1>14, <2>3
<1>15. IsUsed(s[k]) => s[k].addr < a /\ k < n /\ s[k + 1].addr = a
  <2>1. CASE k = i
    BY <1>7, <2>1
  <2>2. CASE k + 1 = i /\ k \in 1..n /\ k < n
    <3>1. s[k + 1].addr = a
      BY <1>14, <2>2
    <3>2. IsUsed(s[k]) => s[k].addr < a
      BY <1>1, <1>9, <2>2
    <3> QED BY <2>2, <3>1, <3>2
  <2> QED BY <1>12, <2>1, <2>2
<1>16. ASSUME NEW j \in k + 1..n PROVE IsUsed(s[j]) => a + size <= s[j].addr
  <2>1. CASE j = i
    BY <1>7, <2>1
  <2>2. CASE j # i
    <3>1. i < n /\ i + 1 \in 1..n /\ j \in 1..n /\ i + 1 <= j
      BY <1>1, <1>5, <1>12, <2>2
    <3>2. s[i + 1].addr <= s[j].addr
      <4>1. CASE i + 1 = j
        BY <1>2, <3>1, <4>1
      <4>2. CASE i + 1 # j
        BY <1>1, <1>4, <3>1, <4>2
      <4> QED BY <4>1, <4>2
    <3> QED BY <1>2, <1>8, <3>1, <3>2
  <2> QED BY <2>1, <2>2
<1>17. QED BY <1>5, <1>13, <1>15, <1>16 DEF Fits, k, n

\* Sums that stay in the address space are not cut off.
LEMMA PlusIs ==
    ASSUME NEW a \in Nat, NEW n \in Nat, a + n < Word
    PROVE  Plus(a, n) = a + n /\ a + n \in Addr
<1>1. Word \in Nat /\ a + n \in 0..Word - 1
  BY MemMapAssumption
<1>2. \A w \in Nat : \A x \in 0..w - 1 : x % w = x
  OBVIOUS
<1>3. QED BY <1>1, <1>2 DEF Plus, Addr

\* add_region() in a free region with room for it.
LEMMA AddRegionTidies ==
    ASSUME NEW s, Tidy(s), NEW a \in Addr, NEW size \in Nat, size # 0, a + size < Word,
           NEW i \in 1..Len(s), RoomAt(s, i, a, size), NEW u, u = AddRegion(s, a, size)
    PROVE  /\ Tidy(u) /\ KeepsUsed(s, u) /\ Spans(u, a, a + size)
           /\ \A p \in 1..Len(u) :
                 (\E x \in 1..Len(s) : u[p] = s[x]) \/ u[p].addr \in {a, a + size}
<1> DEFINE k == Behind(s, a)
           e == a + size
           v == Amid(s, k, Used(a), Free(e))
<1>1. a \in Nat /\ Plus(a, size) = e /\ e \in Addr /\ a < e /\ e \in Int /\ a \in Int
  <2>1. a \in Nat
    BY MemMapAssumption DEF Addr
  <2>2. a < e /\ e \in Int
    BY <2>1
  <2> QED BY <2>1, <2>2, PlusIs
<1>2. u = FixConsistency(v)
  BY <1>1 DEF AddRegion, Behind, Amid
<1>3. k \in 1..Len(s) /\ Fits(s, k, a, e)
  BY RoomFits
<1>4. Wedged(s, k, Used(a), Free(e), v)
  <2>1. Used(a) \in NodeSet /\ Free(e) \in NodeSet
    BY <1>1 DEF Used, Free, Node, NodeSet
  <2>2. s \in Seq(NodeSet)
    BY DEF Tidy
  <2> HIDE DEF k, e
  <2> QED BY <1>3, <2>1, <2>2, PutIn
<1> HIDE DEF k, e, v
<1>5. Fixable(v)
  BY <1>1, <1>3, <1>4, WedgedFixable
<1>6. /\ KeepsUsed(s, v) /\ Spans(v, a, e)
      /\ \A p \in 1..Len(v) : (\E x \in 1..Len(s) : v[p] = s[x]) \/ v[p].addr \in {a, e}
  BY <1>1, <1>3, <1>4, WedgedKeeps
<1>7. /\ Tidy(u) /\ KeepsUsed(v, u)
      /\ \A p \in 1..Len(u) : \E x \in 1..Len(v) : u[p] = v[x]
  BY <1>2, <1>5, FixConsistencyTidies
<1>8. KeepsUsed(s, u) /\ Spans(u, a, e)
  BY <1>1, <1>6, <1>7 DEF KeepsUsed
<1>9. ASSUME NEW p \in 1..Len(u)
      PROVE  (\E x \in 1..Len(s) : u[p] = s[x]) \/ u[p].addr \in {a, e}
  <2>1. PICK y \in 1..Len(v) : u[p] = v[y]
    BY <1>7
  <2> QED BY <1>6, <2>1, Zenon
<1>10. QED BY <1>7, <1>8, <1>9 DEF e

-----------------------------------------------------------------------------
(* The search for a free region.                                           *)

LEMMA AlignIs ==
    ASSUME NEW a \in Nat, a + PageSize < Word
    PROVE  ALIGN_ADDR(a) \in Addr /\ a < ALIGN_ADDR(a) /\ ALIGN_ADDR(a) <= a + PageSize
<1>1. PageSize \in Nat /\ PageSize > 0
  BY MemMapAssumption
<1>2. \A p \in Nat \ {0} : \A x \in Nat : x % p \in 0..p - 1 /\ x % p <= x
  <2> SUFFICES ASSUME NEW p \in Nat \ {0}, NEW x \in Nat
               PROVE  x % p \in 0..p - 1 /\ x % p <= x
    BY Zenon
  <2>1. x % p \in 0..p - 1
    OBVIOUS
  <2>2. CASE x < p
    BY <2>1, <2>2
  <2>3. CASE ~(x < p)
    BY <2>1, <2>3
  <2> QED BY <2>2, <2>3, <2>1
<1>3. PICK r : r = a % PageSize /\ r \in 0..PageSize - 1 /\ r <= a
  <2>1. PageSize \in Nat \ {0}
    BY <1>1
  <2> QED BY <1>2, <2>1, Zenon
<1>7. r \in Nat /\ r <= a
  BY <1>1, <1>3
<1>4. a - r \in Nat /\ (a - r) + PageSize < Word
  <2>1. Word \in Nat
    BY MemMapAssumption
  <2> QED BY <1>1, <1>7, <2>1
<1>5. ALIGN_ADDR(a) = (a - r) + PageSize /\ (a - r) + PageSize \in Addr
  BY <1>1, <1>3, <1>4, PlusIs DEF ALIGN_ADDR
<1>8. r < PageSize
  BY <1>1, <1>3
<1>6. QED BY <1>1, <1>5, <1>7, <1>8

\* The list and the break.
ListInv ==
    /\ Tidy(list)
    /\ \A i \in 1..Len(list) : list[i].addr <= memsize
    /\ memsize \in 1..Word - 1
    /\ brkaddr \in Nat /\ newbrk \in brkaddr..memsize

\* No sum of addresses and this size wraps.
Roomy(size) == size \in Nat /\ memsize + PageSize + size < Word

LEMMA ListFacts ==
    ASSUME Tidy(list)
    PROVE  /\ list \in Seq(NodeSet) /\ Len(list) \in Nat /\ Len(list) # 0 /\ list[1].addr = 0
           /\ ~IsUsed(list[Len(list)])
           /\ \A i \in 1..Len(list) : list[i] \in NodeSet /\ list[i].addr \in Nat
           /\ \A i, j \in 1..Len(list) : i < j => list[i].addr <= list[j].addr
           /\ \A i \in 1..Len(list) - 1 :
                 /\ i \in 1..Len(list) /\ i + 1 \in 1..Len(list)
                 /\ IsUsed(list[i]) => list[i].addr < list[i + 1].addr
                 /\ ~IsUsed(list[i]) => list[i + 1].status = "used"
<1>1. /\ list \in Seq(NodeSet) /\ Len(list) # 0 /\ list[1].addr = 0
      /\ ~IsUsed(list[Len(list)])
  BY DEF Tidy
<1>2. Len(list) \in Nat /\ \A i \in 1..Len(list) : list[i] \in NodeSet
  BY <1>1
<1>3. \A n \in NodeSet : n.addr \in Nat /\ (n.status # "used" => n.status = "free")
  BY MemMapAssumption DEF NodeSet, Addr
<1>4. \A i, j \in 1..Len(list) : i < j => list[i].addr <= list[j].addr
  BY DEF Tidy, Ascends
<1>5. ASSUME NEW i \in 1..Len(list) - 1
      PROVE  /\ i \in 1..Len(list) /\ i + 1 \in 1..Len(list)
             /\ IsUsed(list[i]) => list[i].addr < list[i + 1].addr
             /\ ~IsUsed(list[i]) => list[i + 1].status = "used"
  <2>1. i \in 1..Len(list) /\ i + 1 \in 1..Len(list)
    BY <1>2
  <2>2. IsUsed(list[i]) => list[i].addr < list[i + 1].addr
    BY DEF Tidy, Climbs
  <2>3. ~BothFree(list[i], list[i + 1])
    BY DEF Tidy, Apart
  <2>4. ~IsUsed(list[i]) => list[i + 1].status = "used"
    BY <1>2, <1>3, <2>1, <2>3 DEF BothFree, IsUsed
  <2> QED BY <2>1, <2>2, <2>4
<1>6. QED BY <1>1, <1>2, <1>3, <1>4, <1>5

LEMMA NodeBelowIs ==
    ASSUME Tidy(list), NEW a \in Nat
    PROVE  /\ NodeBelow(a) \in 1..Len(list) /\ list[NodeBelow(a)].addr <= a
           /\ NodeBelow(a) < Len(list) => a < list[NodeBelow(a) + 1].addr
<1> DEFINE n == Len(list)
           k == NodeBelow(a)
           T == {1} \cup {i \in 1..n : \A j \in 2..i : list[j].addr <= a}
<1>1. n \in Nat /\ n # 0 /\ list[1].addr = 0 /\ \A i \in 1..n : list[i].addr \in Nat
  BY ListFacts
<1>2. k = Max(T) /\ T \subseteq 0..n /\ T # {} /\ T \subseteq 1..n
  <2>1. k = Max(T)
    BY DEF NodeBelow
  <2> QED BY <1>1, <2>1
<1>3. k \in T /\ \A t \in T : t <= k
  <2> HIDE DEF T, k, n
  <2> QED BY <1>1, <1>2, MaxOf, Zenon
<1>4. k \in 1..n /\ k \in Nat
  <2> HIDE DEF T, k, n
  <2> QED BY <1>2, <1>3
<1>5. \A j \in 2..k : list[j].addr <= a
  <2>1. CASE k = 1
    <3> HIDE DEF k
    <3> QED BY <2>1
  <2>2. CASE k # 1
    <3> HIDE DEF k
    <3> QED BY <1>3, <2>2
  <2> QED BY <2>1, <2>2
<1>6. \A i \in 1..n : (\A j \in 2..i : list[j].addr <= a) => i <= k
  BY <1>3
<1> HIDE DEF T, k, n
<1>7. list[k].addr <= a
  <2>1. CASE k = 1
    BY <1>1, <2>1
  <2>2. CASE k # 1
    <3>1. k \in 2..k
      BY <1>4, <2>2
    <3> QED BY <1>5, <3>1
  <2> QED BY <2>1, <2>2
<1>8. ASSUME k < n PROVE a < list[k + 1].addr
  <2> SUFFICES ASSUME ~(a < list[k + 1].addr) PROVE FALSE
    OBVIOUS
  <2>1. k + 1 \in 1..n
    BY <1>1, <1>4, <1>8
  <2>2. list[k + 1].addr <= a
    BY <1>1, <2>1
  <2>3. ASSUME NEW j \in 2..k + 1 PROVE list[j].addr <= a
    <3>1. j = k + 1 \/ j \in 2..k
      BY <1>4
    <3> QED BY <1>5, <2>2, <3>1
  <2>4. k + 1 <= k
    BY <1>6, <2>1, <2>3
  <2> QED BY <1>4, <2>4
<1>9. QED BY <1>4, <1>7, <1>8 DEF k, n

\* What is above the break.
LEMMA BreakAligned ==
    ASSUME ListInv, NEW size, Roomy(size)
    PROVE  /\ ALIGN_ADDR(newbrk) \in Addr /\ newbrk < ALIGN_ADDR(newbrk)
           /\ ALIGN_ADDR(newbrk) <= memsize + PageSize
           /\ newbrk \in Nat /\ memsize \in Nat /\ PageSize \in Nat /\ size \in Nat /\ Word \in Nat
           /\ brkaddr \in Nat /\ brkaddr <= newbrk /\ newbrk <= memsize
<1>1. /\ memsize \in Nat /\ brkaddr \in Nat /\ newbrk \in brkaddr..memsize
      /\ PageSize \in Nat /\ Word \in Nat
  BY MemMapAssumption DEF ListInv
<1>2. size \in Nat /\ memsize + PageSize + size < Word
  BY DEF Roomy
<1>3. newbrk \in Nat /\ brkaddr <= newbrk /\ newbrk <= memsize /\ newbrk + PageSize < Word
  BY <1>1, <1>2
<1>4. /\ ALIGN_ADDR(newbrk) \in Addr /\ newbrk < ALIGN_ADDR(newbrk)
      /\ ALIGN_ADDR(newbrk) <= newbrk + PageSize
  BY <1>3, AlignIs
<1>5. ALIGN_ADDR(newbrk) \in Int
  BY <1>1, <1>4 DEF Addr
<1>6. QED BY <1>1, <1>2, <1>3, <1>4, <1>5

\* What verify_region_availability() finds is room, in the memory and above the
\* break.
LEMMA AvailableRoom ==
    ASSUME ListInv, NEW size, Roomy(size), NEW a \in Addr, a + size < Word, Available(a, size)
    PROVE  /\ NodeBelow(a) \in 1..Len(list) /\ RoomAt(list, NodeBelow(a), a, size)
           /\ newbrk < a /\ a + size <= memsize
<1> DEFINE i == NodeBelow(a)
<1>1. /\ ALIGN_ADDR(newbrk) \in Addr /\ newbrk < ALIGN_ADDR(newbrk)
      /\ newbrk \in Nat /\ size \in Nat /\ Word \in Nat
  BY BreakAligned
<1>2. a \in Nat /\ ALIGN_ADDR(newbrk) \in Nat
  BY <1>1 DEF Addr
<1>3. Plus(a, size) = a + size
  BY <1>1, <1>2, PlusIs
<1>4. /\ a > ALIGN_ADDR(newbrk) /\ list[i].status = "free" /\ ~RunsIntoNext(a, size, i)
      /\ a + size <= memsize
  BY <1>3 DEF Available
<1>5. Tidy(list)
  BY DEF ListInv
<1>6. i \in 1..Len(list) /\ list[i].addr <= a /\ (i < Len(list) => a < list[i + 1].addr)
  BY <1>2, <1>5, NodeBelowIs
<1> HIDE DEF i
<1>7. ~IsUsed(list[i])
  BY <1>4 DEF IsUsed
<1>8. ASSUME i < Len(list) PROVE a + size <= list[i + 1].addr
  <2>1. i \in 1..Len(list) - 1 /\ Len(list) \in Nat
    BY <1>5, <1>6, <1>8, ListFacts
  <2>2. list[i + 1].status = "used" /\ list[i + 1].addr \in Nat
    BY <1>5, <1>7, <2>1, ListFacts
  <2>3. ~(a + size > list[i + 1].addr)
    BY <1>3, <1>4, <1>8, <2>2 DEF RunsIntoNext, HasNext
  <2> QED BY <1>1, <1>2, <2>2, <2>3
<1>9. newbrk < a
  BY <1>1, <1>2, <1>4
<1>10. RoomAt(list, i, a, size)
  BY <1>6, <1>7, <1>8 DEF RoomAt
<1>11. QED BY <1>4, <1>6, <1>9, <1>10 DEF i

\* Whether suggest_mmap_region() looks at the address it was told of.
GoesOn(a, size) == NextAddr(a, size) # 0 /\ Plus(NextAddr(a, size), size) < memsize

\* It goes upwards, and not past the page behind the memory.
LEMMA GoesUp ==
    ASSUME ListInv, NEW size, Roomy(size), NEW a \in Addr, GoesOn(a, size)
    PROVE  LET x == ALIGN_ADDR(NextAddr(a, size)) IN
           x \in Addr /\ a < x /\ x <= memsize + PageSize
<1> DEFINE n == NextAddr(a, size)
           i == NodeBelow(a)
           b == ALIGN_ADDR(newbrk)
<1>1. /\ b \in Addr /\ newbrk < b /\ b <= memsize + PageSize
      /\ size \in Nat /\ memsize \in Nat /\ Word \in Nat /\ PageSize \in Nat
      /\ memsize + PageSize + size < Word
  BY BreakAligned DEF Roomy
<1>2. a \in Nat /\ b \in Nat
  BY <1>1 DEF Addr
<1>3. Tidy(list) /\ \A j \in 1..Len(list) : list[j].addr <= memsize
  BY DEF ListInv
<1>4. i \in 1..Len(list) /\ list[i].addr <= a /\ (i < Len(list) => a < list[i + 1].addr)
  BY <1>2, <1>3, NodeBelowIs
<1>5. /\ Len(list) \in Nat /\ \A j \in 1..Len(list) : list[j].addr \in Nat
      /\ \A j \in 1..Len(list) - 1 : j \in 1..Len(list) /\ j + 1 \in 1..Len(list)
      /\ \A x, y \in 1..Len(list) : x < y => list[x].addr <= list[y].addr
  BY <1>3, ListFacts
<1>6. n # 0 /\ Plus(n, size) < memsize
  BY DEF GoesOn
<1>7. n = IF a <= b THEN b
          ELSE IF list[i].status = "used"
               THEN IF i < Len(list) THEN list[i + 1].addr ELSE 0
          ELSE IF RunsIntoNext(a, size, i) /\ i + 1 < Len(list) THEN list[i + 2].addr
          ELSE 0
  BY DEF NextAddr, HasNext
<1> HIDE DEF n, i, b
<1>8. n \in Nat /\ a <= n /\ n <= memsize + PageSize
  <2>1. CASE a <= b
    BY <1>1, <1>2, <1>7, <2>1
  <2>2. CASE n = list[i + 1].addr /\ i < Len(list)
    <3>1. i + 1 \in 1..Len(list) /\ a < list[i + 1].addr
      BY <1>4, <1>5, <2>2
    <3>2. list[i + 1].addr <= memsize /\ list[i + 1].addr \in Nat
      BY <1>3, <1>5, <3>1
    <3> QED BY <1>1, <1>2, <2>2, <3>1, <3>2
  <2>3. CASE n = list[i + 2].addr /\ i + 1 < Len(list)
    <3>1. i + 1 \in 1..Len(list) /\ i + 2 \in 1..Len(list) /\ i + 1 < i + 2 /\ a < list[i + 1].addr
      BY <1>4, <1>5, <2>3
    <3>2. /\ list[i + 2].addr <= memsize /\ list[i + 2].addr \in Nat /\ list[i + 1].addr \in Nat
          /\ list[i + 1].addr <= list[i + 2].addr
      BY <1>3, <1>5, <3>1
    <3> QED BY <1>1, <1>2, <2>3, <3>1, <3>2
  <2> QED BY <1>6, <1>7, <2>1, <2>2, <2>3
<1>9. Plus(n, size) = n + size
  <2>1. n + size < Word
    BY <1>1, <1>8
  <2> QED BY <1>1, <1>8, <2>1, PlusIs
<1>10. n < memsize /\ n + PageSize < Word
  BY <1>1, <1>6, <1>8, <1>9
<1>11. ALIGN_ADDR(n) \in Addr /\ n < ALIGN_ADDR(n) /\ ALIGN_ADDR(n) <= n + PageSize
  BY <1>8, <1>10, AlignIs
<1>12. ALIGN_ADDR(n) \in Nat
  BY <1>1, <1>11 DEF Addr
<1>13. QED BY <1>1, <1>2, <1>8, <1>10, <1>11, <1>12 DEF n

\* The search as one of the kind above: it looks at each address at most twice.
Points == Addr \X BOOLEAN
Ends(size) == {p \in Points : Available(p[1], size) \/ (~GoesOn(p[1], size) /\ p[2])}
Found(size) == [p \in Points |-> IF Available(p[1], size) THEN p[1] ELSE Failed]
Onward(size) ==
    [p \in Points |-> IF GoesOn(p[1], size) THEN <<ALIGN_ADDR(NextAddr(p[1], size)), p[2]>>
                                            ELSE <<ALIGN_ADDR(brkaddr), TRUE>>]
Rank == [p \in Points |-> (IF p[2] THEN 0 ELSE Word) + Word - 1 - p[1]]

Near == {p \in Points : p[1] <= memsize + PageSize}

LEMMA SearchDescends ==
    ASSUME ListInv, NEW size, Roomy(size)
    PROVE  /\ Descends(Points, Ends(size), Onward(size), Rank, 2 * Word)
           /\ Descends(Near, Ends(size), Onward(size), Rank, 2 * Word)
           /\ <<ALIGN_ADDR((memsize - newbrk) \div 2 + newbrk), FALSE>> \in Near
<1>1. /\ newbrk \in Nat /\ memsize \in Nat /\ PageSize \in Nat /\ size \in Nat /\ Word \in Nat
      /\ brkaddr \in Nat /\ brkaddr <= newbrk /\ newbrk <= memsize
      /\ memsize + PageSize + size < Word
  BY BreakAligned DEF Roomy
<1>2. /\ ALIGN_ADDR(brkaddr) \in Addr /\ ALIGN_ADDR(brkaddr) <= memsize + PageSize
  <2>1. brkaddr + PageSize < Word
    BY <1>1
  <2>2. ALIGN_ADDR(brkaddr) \in Addr /\ ALIGN_ADDR(brkaddr) <= brkaddr + PageSize
    BY <1>1, <2>1, AlignIs
  <2>3. ALIGN_ADDR(brkaddr) \in Nat
    BY <1>1, <2>2 DEF Addr
  <2> QED BY <1>1, <2>2, <2>3
<1>3. ASSUME NEW p \in Points
      PROVE  p[1] \in Addr /\ p[1] \in Nat /\ p[1] < Word /\ p[2] \in BOOLEAN
  BY <1>1 DEF Points, Addr
<1>4. ASSUME NEW p \in Points PROVE Rank[p] = (IF p[2] THEN 0 ELSE Word) + Word - 1 - p[1]
  BY DEF Rank
<1>5. ASSUME NEW p \in Points PROVE Rank[p] \in 0..2 * Word
  <2>1. CASE p[2]
    <3>1. Rank[p] = Word - 1 - p[1]
      BY <1>1, <1>3, <1>4, <2>1
    <3> QED BY <1>1, <1>3, <3>1
  <2>2. CASE ~p[2]
    <3>1. Rank[p] = Word + Word - 1 - p[1]
      BY <1>1, <1>3, <1>4, <2>2
    <3> QED BY <1>1, <1>3, <3>1
  <2> QED BY <1>3, <2>1, <2>2
<1>6. ASSUME NEW p \in Points, p \notin Ends(size)
      PROVE  Onward(size)[p] \in Near /\ Rank[Onward(size)[p]] < Rank[p]
  <2> DEFINE q == Onward(size)[p]
  <2>1. CASE GoesOn(p[1], size)
    <3> DEFINE x == ALIGN_ADDR(NextAddr(p[1], size))
    <3>1. x \in Addr /\ p[1] < x /\ x <= memsize + PageSize
      BY <1>3, <2>1, GoesUp
    <3>2. x \in Nat
      BY <1>1, <3>1 DEF Addr
    <3>3. q = <<x, p[2]>>
      BY <2>1 DEF Onward
    <3> HIDE DEF x, q
    <3>4. q \in Points /\ q[1] = x /\ q[2] = p[2]
      BY <1>3, <3>1, <3>3 DEF Points
    <3>5. q \in Near
      BY <3>1, <3>4 DEF Near
    <3>6. Rank[q] < Rank[p]
      <4>1. Rank[q] = (IF p[2] THEN 0 ELSE Word) + Word - 1 - x
        BY <1>4, <3>4
      <4>2. Rank[p] = (IF p[2] THEN 0 ELSE Word) + Word - 1 - p[1]
        BY <1>4
      <4> QED BY <1>1, <1>3, <3>1, <3>2, <4>1, <4>2
    <3> QED BY <3>5, <3>6 DEF q
  <2>2. CASE ~GoesOn(p[1], size)
    <3> DEFINE x == ALIGN_ADDR(brkaddr)
    <3>1. ~p[2]
      BY <1>6, <2>2 DEF Ends
    <3>2. q = <<x, TRUE>>
      BY <2>2, Zenon DEF Onward
    <3>3. x \in Addr /\ x <= memsize + PageSize /\ x \in Nat
      BY <1>1, <1>2 DEF Addr
    <3> HIDE DEF x, q
    <3>4. q \in Points /\ q[1] = x /\ q[2]
      BY <3>2, <3>3, Zenon DEF Points
    <3>5. q \in Near
      BY <3>3, <3>4 DEF Near
    <3>6. Rank[q] < Rank[p]
      <4>1. Rank[q] = Word - 1 - x
        BY <1>1, <1>4, <3>3, <3>4
      <4>2. Rank[p] = Word + Word - 1 - p[1]
        BY <1>1, <1>3, <1>4, <3>1
      <4>3. p[1] <= Word - 1
        BY <1>1, <1>3
      <4> QED BY <1>1, <1>3, <3>3, <4>1, <4>2, <4>3
    <3> QED BY <3>5, <3>6 DEF q
  <2> QED BY <2>1, <2>2
<1>7. Near \subseteq Points
  BY DEF Near
<1>8. /\ Descends(Points, Ends(size), Onward(size), Rank, 2 * Word)
      /\ Descends(Near, Ends(size), Onward(size), Rank, 2 * Word)
  BY <1>5, <1>6, <1>7 DEF Descends
<1>9. <<ALIGN_ADDR((memsize - newbrk) \div 2 + newbrk), FALSE>> \in Near
  <2> DEFINE h == (memsize - newbrk) \div 2
  <2>1. h \in Nat /\ h + newbrk <= memsize
    BY <1>1
  <2> HIDE DEF h
  <2>2. h + newbrk \in Nat /\ (h + newbrk) + PageSize < Word
    BY <1>1, <2>1
  <2>3. ALIGN_ADDR(h + newbrk) \in Addr /\ ALIGN_ADDR(h + newbrk) <= (h + newbrk) + PageSize
    BY <2>2, AlignIs
  <2>4. ALIGN_ADDR(h + newbrk) <= memsize + PageSize
    <3>1. ALIGN_ADDR(h + newbrk) \in Nat
      BY <1>1, <2>3 DEF Addr
    <3> QED BY <1>1, <2>1, <2>2, <2>3, <3>1
  <2>5. <<ALIGN_ADDR(h + newbrk), FALSE>> \in Near
    BY <2>3, <2>4, Zenon DEF Near, Points
  <2> QED BY <2>5 DEF h
<1>10. QED BY <1>8, <1>9

\* suggest_mmap_region() fails or returns a region that is available.
LEMMA SuggestFinds ==
    ASSUME ListInv, NEW size, Roomy(size), NEW x, x = SuggestMmapRegion(size)
    PROVE  \/ x = Failed
           \/ x \in Addr /\ x <= memsize + PageSize /\ Available(x, size)
<1> DEFINE Is(f) == IsSearch(f, Points, Ends(size), Found(size), Onward(size))
           Goes(f) == f = [p \in Addr \X BOOLEAN |->
                        IF Available(p[1], size) THEN p[1]
                        ELSE IF NextAddr(p[1], size) # 0
                                /\ Plus(NextAddr(p[1], size), size) < memsize
                             THEN f[<<ALIGN_ADDR(NextAddr(p[1], size)), p[2]>>]
                        ELSE IF ~p[2] THEN f[<<ALIGN_ADDR(brkaddr), TRUE>>]
                        ELSE Failed]
           start == <<ALIGN_ADDR((memsize - newbrk) \div 2 + newbrk), FALSE>>
           V == {Failed} \cup {a \in Addr : a <= memsize + PageSize /\ Available(a, size)}
<1>1. ASSUME NEW f, NEW p \in Points
      PROVE  (IF p \in Ends(size) THEN Found(size)[p] ELSE f[Onward(size)[p]])
             = IF Available(p[1], size) THEN p[1]
               ELSE IF GoesOn(p[1], size) THEN f[<<ALIGN_ADDR(NextAddr(p[1], size)), p[2]>>]
               ELSE IF ~p[2] THEN f[<<ALIGN_ADDR(brkaddr), TRUE>>]
               ELSE Failed
  BY DEF Ends, Found, Onward
<1>2. ASSUME NEW f PROVE Is(f) <=> Goes(f)
  <2>1. [p \in Points |-> IF p \in Ends(size) THEN Found(size)[p] ELSE f[Onward(size)[p]]]
        = [p \in Points |->
               IF Available(p[1], size) THEN p[1]
               ELSE IF GoesOn(p[1], size) THEN f[<<ALIGN_ADDR(NextAddr(p[1], size)), p[2]>>]
               ELSE IF ~p[2] THEN f[<<ALIGN_ADDR(brkaddr), TRUE>>]
               ELSE Failed]
    BY ONLY Zenon, <1>1
  <2> QED BY ONLY Zenon, <2>1 DEF Points, GoesOn, IsSearch
<1>3. \E f : Goes(f)
  <2>1. Word \in Nat
    BY MemMapAssumption
  <2>2. 2 * Word \in Nat
    BY <2>1
  <2>3. \E f : Is(f)
    <3>1. Descends(Points, Ends(size), Onward(size), Rank, 2 * Word)
      BY SearchDescends
    <3> QED BY <2>2, <3>1, SearchEnds
  <2> HIDE DEF Is, Goes
  <2> QED BY <1>2, <2>3
<1>4. PICK f : Goes(f) /\ x = f[start]
  <2>1. x = (CHOOSE g : Goes(g))[start]
    BY DEF SuggestMmapRegion
  <2> HIDE DEF Goes, start
  <2> QED BY <1>3, <2>1, Zenon
<1>5. Is(f)
  <2> HIDE DEF Is, Goes
  <2> QED BY <1>2, <1>4
<1> HIDE DEF Goes, start
<1>6. Searches(f, Near, Ends(size), Found(size), Onward(size))
  <2>1. Near \subseteq Points
    BY DEF Near
  <2> QED BY <1>5, <2>1 DEF Searches, IsSearch
<1>7. \A p \in Near : p \in Ends(size) => Found(size)[p] \in V
  BY DEF Near, Found, Points
<1> HIDE DEF V
<1>8. start \in Near
  BY SearchDescends, Zenon DEF start
<1>9. x \in V
  <2>1. 2 * Word \in Nat
    BY MemMapAssumption
  <2>2. Descends(Near, Ends(size), Onward(size), Rank, 2 * Word)
    BY SearchDescends
  <2>3. \A p \in Near : f[p] \in V
    BY <1>6, <1>7, <2>1, <2>2, SearchStops
  <2> QED BY <1>4, <1>8, <2>3
<1>10. QED BY <1>9 DEF V

-----------------------------------------------------------------------------
(* The mappings granted.                                                   *)

GrantSet == [addr : Addr, size : Addr \ {0}]

End(g) == g.addr + g.size

Clear(g, h) == End(g) <= h.addr \/ End(h) <= g.addr

\* Each mapping is a used region of its own, in the memory and above the break.
GrantsHeld ==
    /\ grants \in Seq(GrantSet)
    /\ \A k \in 1..Len(grants) :
        /\ Spans(list, grants[k].addr, End(grants[k]))
        /\ newbrk <= grants[k].addr /\ End(grants[k]) <= memsize
    /\ \A i, j \in 1..Len(grants) : i # j => Clear(grants[i], grants[j])

MapInv == ListInv /\ SumsFit(memsize) /\ GrantsHeld

LEMMA GrantIs ==
    ASSUME NEW g \in GrantSet
    PROVE  g.addr \in Nat /\ g.size \in Nat /\ g.size # 0 /\ g.size < Word /\ End(g) \in Nat
BY MemMapAssumption DEF GrantSet, Addr, End

\* The element of s that t[i] is when s[k] is taken away.
LEMMA RemoveAtIs ==
    ASSUME NEW S, NEW s \in Seq(S), NEW k \in 1..Len(s)
    PROVE  /\ RemoveAt(s, k) \in Seq(S) /\ Len(RemoveAt(s, k)) = Len(s) - 1
           /\ \A i \in 1..Len(s) - 1 : /\ RemoveAt(s, k)[i] = s[Shift(i, k)]
                                       /\ Shift(i, k) \in 1..Len(s) /\ Shift(i, k) # k
           /\ \A i, j \in 1..Len(s) - 1 : i # j => Shift(i, k) # Shift(j, k)
<1> DEFINE n == Len(s)
           f == SubSeq(s, 1, k - 1)
           g == SubSeq(s, k + 1, n)
           t == RemoveAt(s, k)
<1>1. n \in Nat /\ k \in Nat /\ k # 0 /\ k <= n
  OBVIOUS
<1>2. f \in Seq(S) /\ Len(f) = k - 1 /\ \A p \in 1..k - 1 : f[p] = s[p]
  BY <1>1
<1>3. g \in Seq(S) /\ Len(g) = n - k /\ \A p \in 1..n - k : g[p] = s[k + p]
  BY <1>1
<1>4. t = f \o g
  BY DEF RemoveAt
<1> HIDE DEF f, g, t, n
<1>5. /\ t \in Seq(S) /\ Len(t) = (k - 1) + (n - k)
      /\ \A p \in 1..k - 1 : t[p] = f[p]
      /\ \A p \in 1..n - k : t[(k - 1) + p] = g[p]
  <2>3. Chain(S, f, g, f \o g)
    BY <1>2, <1>3, Chained
  <2>4. Chain(S, f, g, t)
    BY <1>4, <2>3
  <2>2. Len(f) = k - 1 /\ Len(g) = n - k
    BY <1>2, <1>3
  <2> QED BY ONLY <2>2, <2>4 DEF Chain
<1>6. ASSUME NEW i \in 1..n - 1
      PROVE  t[i] = s[Shift(i, k)] /\ Shift(i, k) \in 1..n /\ Shift(i, k) # k
  <2>1. CASE i < k
    <3>1. i \in 1..k - 1 /\ i \in 1..n /\ i # k
      BY <1>1, <2>1
    <3>2. Shift(i, k) = i
      BY <2>1 DEF Shift
    <3> QED BY <1>2, <1>5, <3>1, <3>2
  <2>2. CASE ~(i < k)
    <3> DEFINE p == i - (k - 1)
    <3>1. p \in 1..n - k /\ (k - 1) + p = i /\ k + p = i + 1 /\ i + 1 \in 1..n /\ i + 1 # k
      BY <1>1, <2>2
    <3>2. Shift(i, k) = i + 1
      BY <2>2 DEF Shift
    <3> HIDE DEF p
    <3> QED BY <1>3, <1>5, <3>1, <3>2, Zenon
  <2> QED BY <2>1, <2>2
<1>7. ASSUME NEW i \in 1..n - 1, NEW j \in 1..n - 1, i # j
      PROVE  Shift(i, k) # Shift(j, k)
  BY <1>1, <1>7 DEF Shift
<1>8. Len(t) = n - 1
  BY <1>1, <1>5
<1>9. QED BY <1>5, <1>6, <1>7, <1>8 DEF n, t

\* A free region with room lies clear of every used one.
LEMMA RoomClear ==
    ASSUME Tidy(list), NEW i \in 1..Len(list), NEW a \in Nat, NEW size \in Nat,
           RoomAt(list, i, a, size), NEW b \in Nat, NEW e \in Nat, Spans(list, b, e)
    PROVE  e <= a \/ a + size <= b
<1>1. PICK p \in 1..Len(list) - 1 : IsUsed(list[p]) /\ list[p].addr = b /\ list[p + 1].addr = e
  BY DEF Spans
<1>2. /\ Len(list) \in Nat /\ p \in 1..Len(list) /\ p + 1 \in 1..Len(list)
      /\ \A j \in 1..Len(list) : list[j].addr \in Nat
      /\ \A x, y \in 1..Len(list) : x < y => list[x].addr <= list[y].addr
  BY ListFacts, Zenon
<1>3. ~IsUsed(list[i]) /\ list[i].addr <= a
      /\ (i < Len(list) => a < list[i + 1].addr /\ a + size <= list[i + 1].addr)
  BY DEF RoomAt
<1>4. p # i
  BY <1>1, <1>3
<1>5. CASE p < i
  <2>1. p + 1 = i \/ p + 1 < i
    BY <1>2, <1>5
  <2>2. list[p + 1].addr <= list[i].addr
    BY <1>2, <2>1
  <2> QED BY <1>1, <1>2, <1>3, <2>2
<1>6. CASE i < p
  <2>1. i < Len(list) /\ i + 1 \in 1..Len(list) /\ (i + 1 = p \/ i + 1 < p)
    BY <1>2, <1>6
  <2>2. list[i + 1].addr <= list[p].addr
    BY <1>2, <2>1
  <2>3. a + size <= list[i + 1].addr /\ list[i + 1].addr \in Nat /\ a + size \in Nat
    BY <1>2, <1>3, <2>1
  <2> QED BY <1>1, <2>2, <2>3
<1>7. QED BY <1>2, <1>4, <1>5, <1>6

\* The region mmap_anon() picks.
LEMMA PlaceFinds ==
    ASSUME ListInv, SumsFit(memsize), NEW hint \in Hints, NEW size \in Sizes,
           NEW a, a = Place(hint, size), a # Failed
    PROVE  /\ a \in Addr /\ a \in Nat /\ size \in Nat /\ a + size < Word
           /\ NodeBelow(a) \in 1..Len(list) /\ RoomAt(list, NodeBelow(a), a, size)
           /\ newbrk < a /\ a + size <= memsize
<1>1. /\ Roomy(size) /\ hint \in Nat /\ hint \in Addr /\ hint + PageSize + size < Word
      /\ size \in Nat /\ PageSize \in Nat /\ Word \in Nat
      /\ memsize + PageSize + size < Word
  <2>1. size \in Nat /\ hint \in Nat /\ hint \in Addr /\ PageSize \in Nat /\ Word \in Nat
    BY MemMapAssumption DEF Addr
  <2>2. memsize + PageSize + size < Word /\ hint + PageSize + size < Word
    BY DEF SumsFit
  <2> QED BY <2>1, <2>2 DEF Roomy
<1>2. memsize \in Nat
  BY BreakAligned, <1>1
<1> DEFINE h == IF hint % PageSize = 0 THEN hint ELSE ALIGN_ADDR(hint)
<1>3. h \in Addr /\ h + size < Word
  <2>1. ALIGN_ADDR(hint) \in Addr /\ ALIGN_ADDR(hint) <= hint + PageSize
    <3>1. hint + PageSize < Word
      BY <1>1
    <3> QED BY <1>1, <3>1, AlignIs
  <2>2. ALIGN_ADDR(hint) \in Nat
    BY <1>1, <2>1 DEF Addr
  <2>3. hint + size < Word /\ ALIGN_ADDR(hint) + size < Word
    BY <1>1, <2>1, <2>2
  <2> QED BY <1>1, <2>1, <2>3
<1>4. a \in Addr /\ a + size < Word /\ Available(a, size)
  <2>1. CASE h # 0 /\ Available(h, size)
    <3>1. a = h
      BY <2>1 DEF Place
    <3> HIDE DEF h
    <3> QED BY <1>3, <2>1, <3>1
  <2>2. CASE ~(h # 0 /\ Available(h, size))
    <3>1. a = SuggestMmapRegion(size)
      BY <2>2 DEF Place
    <3>2. a \in Addr /\ a <= memsize + PageSize /\ Available(a, size)
      BY <1>1, <3>1, SuggestFinds
    <3>3. a \in Nat
      BY <1>1, <3>2 DEF Addr
    <3> QED BY <1>1, <1>2, <3>2, <3>3
  <2> QED BY <2>1, <2>2
<1> HIDE DEF h
<1>5. /\ NodeBelow(a) \in 1..Len(list) /\ RoomAt(list, NodeBelow(a), a, size)
      /\ newbrk < a /\ a + size <= memsize
  BY <1>1, <1>4, AvailableRoom
<1>6. a \in Nat
  BY <1>1, <1>4 DEF Addr
<1>7. QED BY <1>1, <1>4, <1>5, <1>6

\* A list in order takes another in its place.
LEMMA ListInvKept ==
    ASSUME ListInv, Tidy(list'), UNCHANGED <<memsize, brkaddr, newbrk>>,
           \A p \in 1..Len(list') : list'[p].addr <= memsize
    PROVE  ListInv'
<1>1. memsize' = memsize /\ brkaddr' = brkaddr /\ newbrk' = newbrk
  OBVIOUS
<1>2. memsize \in 1..Word - 1 /\ brkaddr \in Nat /\ newbrk \in brkaddr..memsize
  BY DEF ListInv
<1>3. \A p \in 1..Len(list') : list'[p].addr <= memsize'
  BY <1>1
<1>4. Tidy(list)'
  BY DEF Tidy, Climbs, Apart, Ascends
<1>5. memsize' \in 1..Word - 1 /\ brkaddr' \in Nat /\ newbrk' \in brkaddr'..memsize'
  BY ONLY <1>1, <1>2
<1>6. QED BY ONLY <1>3, <1>4, <1>5 DEF ListInv

LEMMA AddedRegion ==
    ASSUME ListInv, NEW a \in Addr, NEW size \in Nat, size # 0, a + size <= memsize,
           NEW i \in 1..Len(list), RoomAt(list, i, a, size),
           list' = AddRegion(list, a, size), UNCHANGED <<memsize, brkaddr, newbrk>>
    PROVE  ListInv' /\ KeepsUsed(list, list') /\ Spans(list', a, a + size)
<1>1. Tidy(list) /\ \A x \in 1..Len(list) : list[x].addr <= memsize
  BY DEF ListInv
<1>2. memsize \in Nat /\ a \in Nat /\ a + size < Word /\ Word \in Nat
  BY MemMapAssumption DEF ListInv, Addr
<1>3. /\ Tidy(list') /\ KeepsUsed(list, list') /\ Spans(list', a, a + size)
      /\ \A p \in 1..Len(list') :
            (\E x \in 1..Len(list) : list'[p] = list[x]) \/ list'[p].addr \in {a, a + size}
  BY <1>1, <1>2, AddRegionTidies
<1>4. \A p \in 1..Len(list') : list'[p].addr <= memsize
  <2> SUFFICES ASSUME NEW p \in 1..Len(list') PROVE list'[p].addr <= memsize
    OBVIOUS
  <2>1. CASE \E x \in 1..Len(list) : list'[p] = list[x]
    BY <1>1, <2>1
  <2>2. CASE list'[p].addr \in {a, a + size}
    BY <1>2, <2>2
  <2> QED BY <1>3, <2>1, <2>2
<1>5. ListInv'
  BY <1>3, <1>4, ListInvKept
<1>6. QED BY <1>3, <1>5

LEMMA MmapKeeps ==
    ASSUME MapInv, NEW hint \in Hints, NEW size \in Sizes, Mmap(hint, size)
    PROVE  MapInv'
<1> DEFINE a == Place(hint, size)
           g == [addr |-> a, size |-> size]
           n == Len(grants)
<1>1. /\ size # 0 /\ a # Failed /\ list' = AddRegion(list, a, size)
      /\ grants' = Append(grants, g)
      /\ UNCHANGED <<memsize, brkaddr, newbrk>>
  BY DEF Mmap
<1>2. ListInv /\ SumsFit(memsize) /\ GrantsHeld
  BY DEF MapInv
<1>3. /\ a \in Addr /\ a \in Nat /\ size \in Nat /\ a + size < Word
      /\ NodeBelow(a) \in 1..Len(list) /\ RoomAt(list, NodeBelow(a), a, size)
      /\ newbrk < a /\ a + size <= memsize
  BY <1>1, <1>2, PlaceFinds
<1>4. g \in GrantSet /\ g.addr = a /\ End(g) = a + size
  BY <1>1, <1>3, MemMapAssumption DEF GrantSet, Addr, End
<1>5. Tidy(list) /\ newbrk \in Nat /\ memsize \in Nat
  BY <1>2, MemMapAssumption DEF ListInv
<1> HIDE DEF a, g
<1>6. ListInv' /\ KeepsUsed(list, list') /\ Spans(list', a, a + size)
  BY <1>1, <1>2, <1>3, AddedRegion
<1>7. /\ grants \in Seq(GrantSet) /\ n \in Nat
      /\ \A k \in 1..n : grants[k] \in GrantSet /\ Spans(list, grants[k].addr, End(grants[k]))
                         /\ newbrk <= grants[k].addr /\ End(grants[k]) <= memsize
      /\ \A i, j \in 1..n : i # j => Clear(grants[i], grants[j])
  BY <1>2 DEF GrantsHeld
<1> HIDE DEF n
<1>8. /\ grants' \in Seq(GrantSet) /\ Len(grants') = n + 1 /\ grants'[n + 1] = g
      /\ \A k \in 1..n : grants'[k] = grants[k]
  BY <1>1, <1>4, <1>7 DEF n
<1>9. \A k \in 1..n + 1 : k = n + 1 \/ k \in 1..n
  BY <1>7
<1>10. ASSUME NEW k \in 1..n PROVE Clear(grants[k], g) /\ Clear(g, grants[k])
  <2>1. grants[k] \in GrantSet /\ Spans(list, grants[k].addr, End(grants[k]))
    BY <1>7
  <2>2. grants[k].addr \in Nat /\ End(grants[k]) \in Nat
    BY <2>1, GrantIs
  <2>3. End(grants[k]) <= a \/ a + size <= grants[k].addr
    BY <1>3, <1>5, <2>1, <2>2, RoomClear
  <2> QED BY <1>4, <2>3 DEF Clear
<1>11. ASSUME NEW k \in 1..n + 1
       PROVE  /\ Spans(list', grants'[k].addr, End(grants'[k]))
              /\ newbrk <= grants'[k].addr /\ End(grants'[k]) <= memsize
  <2>1. CASE k = n + 1
    BY <1>3, <1>4, <1>5, <1>6, <1>8, <2>1
  <2>2. CASE k \in 1..n
    <3>1. grants'[k] = grants[k] /\ grants[k] \in GrantSet
      BY <1>7, <1>8, <2>2
    <3>2. grants[k].addr \in Int /\ End(grants[k]) \in Int
      BY <3>1, GrantIs
    <3>3. Spans(list', grants[k].addr, End(grants[k]))
      BY <1>6, <1>7, <2>2, <3>2 DEF KeepsUsed
    <3> QED BY <1>7, <2>2, <3>1, <3>3
  <2> QED BY <1>9, <2>1, <2>2
<1>12. ASSUME NEW i \in 1..n + 1, NEW j \in 1..n + 1, i # j
       PROVE  Clear(grants'[i], grants'[j])
  <2>1. CASE i \in 1..n /\ j \in 1..n
    BY <1>7, <1>8, <1>12, <2>1
  <2>2. CASE i = n + 1 /\ j \in 1..n
    BY <1>8, <1>10, <2>2
  <2>3. CASE j = n + 1 /\ i \in 1..n
    BY <1>8, <1>10, <2>3
  <2> QED BY <1>9, <1>12, <2>1, <2>2, <2>3
<1>13. GrantsHeld'
  <2>1. newbrk' = newbrk /\ memsize' = memsize
    BY <1>1
  <2>2. \A k \in 1..Len(grants') :
          /\ Spans(list', grants'[k].addr, End(grants'[k]))
          /\ newbrk' <= grants'[k].addr /\ End(grants'[k]) <= memsize'
    BY <1>8, <1>11, <2>1
  <2>3. \A i, j \in 1..Len(grants') : i # j => Clear(grants'[i], grants'[j])
    BY <1>8, <1>12
  <2> QED BY <1>8, <2>2, <2>3, Zenon DEF GrantsHeld, Spans, End, Clear
<1>14. SumsFit(memsize)'
  BY <1>1, <1>2 DEF SumsFit
<1>15. QED BY <1>6, <1>13, <1>14 DEF MapInv

\* A node whose region is freed: the others keep theirs.
LEMMA FreeingFixable ==
    ASSUME NEW s, Tidy(s), NEW i \in 1..Len(s), NEW w, w = [s EXCEPT ![i].status = "free"]
    PROVE  /\ Fixable(w) /\ Len(w) = Len(s)
           /\ \A p \in 1..Len(s) : w[p].addr = s[p].addr /\ (p # i => w[p] = s[p])
<1>1. /\ s \in Seq(NodeSet) /\ Len(s) \in Nat /\ Len(s) # 0 /\ s[1].addr = 0
      /\ ~IsUsed(s[Len(s)]) /\ Climbs(s) /\ Ascends(s)
  <2>1. s \in Seq(NodeSet)
    BY DEF Tidy
  <2> QED BY <2>1 DEF Tidy
<1>2. \A p \in 1..Len(s) : s[p] \in NodeSet
  BY <1>1
<1>3. /\ Len(w) = Len(s) /\ DOMAIN w = 1..Len(s)
      /\ \A p \in 1..Len(s) : w[p] = IF p = i THEN [s[i] EXCEPT !.status = "free"] ELSE s[p]
  BY <1>1
<1>4. [s[i] EXCEPT !.status = "free"] \in NodeSet
      /\ [s[i] EXCEPT !.status = "free"].addr = s[i].addr
      /\ ~IsUsed([s[i] EXCEPT !.status = "free"])
  BY <1>2 DEF NodeSet, IsUsed
<1>5. w \in Seq(NodeSet)
  <2> DEFINE x == [s[i] EXCEPT !.status = "free"]
  <2>1. w = [s EXCEPT ![i] = x]
    OBVIOUS
  <2>2. x \in NodeSet
    BY <1>4
  <2> HIDE DEF x
  <2>3. [s EXCEPT ![i] = x] \in Seq(NodeSet)
    BY <1>1, <2>2, ExceptSeq
  <2> QED BY <2>1, <2>3
<1>6. \A p \in 1..Len(s) : /\ w[p].addr = s[p].addr /\ (p # i => w[p] = s[p])
                           /\ IsUsed(w[p]) => IsUsed(s[p])
  BY <1>3, <1>4
<1>7. Climbs(w)
  <2> SUFFICES ASSUME NEW p \in 1..Len(s) - 1, IsUsed(w[p]) PROVE w[p].addr < w[p + 1].addr
    BY <1>3 DEF Climbs
  <2>1. p \in 1..Len(s) /\ p + 1 \in 1..Len(s)
    BY <1>1
  <2>2. IsUsed(s[p])
    BY <1>6, <2>1, Zenon
  <2>3. s[p].addr < s[p + 1].addr
    BY <1>1, <2>2 DEF Climbs
  <2> QED BY <1>6, <2>1, <2>3
<1>8. UnderUsed(w)
  <2> SUFFICES ASSUME NEW p \in 1..Len(s), NEW q \in 1..Len(s), p < q
               PROVE  w[p].addr <= w[q].addr
    BY <1>3 DEF UnderUsed
  <2>1. s[p].addr <= s[q].addr
    BY <1>1 DEF Ascends
  <2> QED BY <1>6, <2>1
<1>9. w[1].addr = 0 /\ ~IsUsed(w[Len(w)])
  <2>1. 1 \in 1..Len(s) /\ Len(s) \in 1..Len(s)
    BY <1>1
  <2> QED BY <1>1, <1>3, <1>6, <2>1
<1>10. Fixable(w)
  BY <1>1, <1>3, <1>5, <1>7, <1>8, <1>9 DEF Fixable
<1>11. QED BY <1>3, <1>6, <1>10

\* munmap() leaves the list in order and frees at most the region of a mapping
\* at its address that is no larger than it says.
LEMMA UnmappedRegion ==
    ASSUME ListInv, NEW addr, NEW size, Munmap(addr, size)
    PROVE  /\ ListInv'
           /\ \A b, e \in Nat : Spans(list, b, e) /\ e < Word =>
                 Spans(list', b, e) \/ (b = addr /\ e - b <= size)
<1> DEFINE i == FindRegion(addr)
           w == [list EXCEPT ![i].status = "free"]
           At == {x \in 1..Len(list) : list[x].addr = addr}
<1>1. Tidy(list) /\ \A x \in 1..Len(list) : list[x].addr <= memsize
  BY DEF ListInv
<1>2. /\ Len(list) \in Nat /\ \A x \in 1..Len(list) : list[x].addr \in Nat
      /\ list \in Seq(NodeSet)
  BY <1>1, ListFacts
<1>3. i \in 1..Len(list) /\ list[i].addr = addr
  <2>1. i = (IF At = {} THEN 0 ELSE Min(At)) /\ i # 0
    BY DEF Munmap, FindRegion
  <2>2. At \subseteq Nat /\ At # {}
    BY <1>2, <2>1
  <2>3. Min(At) \in At
    <3> HIDE DEF At
    <3> QED BY <2>2, MinOf, Zenon
  <2>4. i \in At
    <3> HIDE DEF At, i
    <3> QED BY <2>1, <2>2, <2>3
  <2> HIDE DEF i
  <2> QED BY <2>4
<1>4. /\ list' = IF HasNext(i) /\ Covers(i, size) THEN FixConsistency(w) ELSE list
      /\ UNCHANGED <<memsize, brkaddr, newbrk>>
  BY DEF Munmap
<1> HIDE DEF i, At
<1>5. CASE ~(HasNext(i) /\ Covers(i, size))
  <2>1. list' = list
    BY <1>4, <1>5
  <2>2. Tidy(list') /\ \A p \in 1..Len(list') : list'[p].addr <= memsize
    BY <1>1, <2>1
  <2> QED BY <1>4, <2>1, <2>2, ListInvKept, Zenon
<1>6. CASE HasNext(i) /\ Covers(i, size)
  <2>1. list' = FixConsistency(w)
    BY <1>4, <1>6
  <2>2. /\ Fixable(w) /\ Len(w) = Len(list)
        /\ \A p \in 1..Len(list) : w[p].addr = list[p].addr /\ (p # i => w[p] = list[p])
    BY <1>1, <1>3, FreeingFixable
  <2> HIDE DEF w
  <2>3. /\ Tidy(list') /\ KeepsUsed(w, list')
        /\ \A p \in 1..Len(list') : \E x \in 1..Len(w) : list'[p] = w[x]
    BY <2>1, <2>2, FixConsistencyTidies
  <2>4. \A p \in 1..Len(list') : list'[p].addr <= memsize
    <3> SUFFICES ASSUME NEW p \in 1..Len(list') PROVE list'[p].addr <= memsize
      OBVIOUS
    <3>1. PICK x \in 1..Len(w) : list'[p] = w[x]
      BY <2>3
    <3> QED BY <1>1, <2>2, <3>1
  <2>5. ListInv'
    BY <1>4, <2>3, <2>4, ListInvKept
  <2>6. ASSUME NEW b \in Nat, NEW e \in Nat, Spans(list, b, e), e < Word
        PROVE  Spans(list', b, e) \/ (b = addr /\ e - b <= size)
    <3>1. PICK p \in 1..Len(list) - 1 :
              IsUsed(list[p]) /\ list[p].addr = b /\ list[p + 1].addr = e
      BY <2>6 DEF Spans
    <3>2. p \in 1..Len(list) /\ p + 1 \in 1..Len(list) /\ b < e
      BY <1>1, <3>1, ListFacts
    <3>3. CASE p = i
      <4>1. (e - b) % Word <= size
        BY <1>6, <3>1, <3>3 DEF Covers
      <4>2. e - b \in 0..Word - 1 /\ Word \in Nat
        BY <2>6, <3>2, MemMapAssumption
      <4>3. (e - b) % Word = e - b
        <5>1. \A m \in Nat : \A x \in 0..m - 1 : x % m = x
          OBVIOUS
        <5> QED BY <4>2, <5>1, Zenon
      <4> QED BY <1>3, <3>1, <3>3, <4>1, <4>3
    <3>4. CASE p # i
      <4>1. w[p] = list[p] /\ w[p + 1].addr = list[p + 1].addr
        BY <2>2, <3>2, <3>4
      <4>2. Spans(w, b, e)
        BY <2>2, <3>1, <4>1 DEF Spans
      <4> QED BY <2>3, <4>2 DEF KeepsUsed
    <3> QED BY <3>3, <3>4
  <2> QED BY <2>5, <2>6
<1>7. QED BY <1>5, <1>6

LEMMA MunmapKeeps ==
    ASSUME MapInv, NEW addr, NEW size, Munmap(addr, size)
    PROVE  MapInv'
<1> DEFINE taken == {k \in 1..Len(grants) : grants[k].addr = addr /\ grants[k].size <= size}
           n == Len(grants)
<1>1. ListInv /\ SumsFit(memsize) /\ GrantsHeld
  BY DEF MapInv
<1>2. UNCHANGED <<memsize, brkaddr, newbrk>>
      /\ grants' = IF taken = {} THEN grants ELSE RemoveAt(grants, Min(taken))
  BY DEF Munmap
<1>3. /\ ListInv'
      /\ \A b, e \in Nat : Spans(list, b, e) /\ e < Word =>
            Spans(list', b, e) \/ (b = addr /\ e - b <= size)
  BY <1>1, UnmappedRegion
<1>4. /\ grants \in Seq(GrantSet) /\ n \in Nat
      /\ \A k \in 1..n : grants[k] \in GrantSet /\ Spans(list, grants[k].addr, End(grants[k]))
                         /\ newbrk <= grants[k].addr /\ End(grants[k]) <= memsize
      /\ \A i, j \in 1..n : i # j => Clear(grants[i], grants[j])
  BY <1>1 DEF GrantsHeld
\* Only the one taken away can lose its region.
<1>5. ASSUME NEW k \in 1..n, k \notin taken PROVE Spans(list', grants[k].addr, End(grants[k]))
  <2>1. /\ grants[k] \in GrantSet /\ Spans(list, grants[k].addr, End(grants[k]))
        /\ End(grants[k]) <= memsize
    BY <1>4
  <2>2. /\ grants[k].addr \in Nat /\ grants[k].size \in Nat /\ End(grants[k]) \in Nat
        /\ End(grants[k]) - grants[k].addr = grants[k].size
    BY <2>1, GrantIs DEF End
  <2>3. End(grants[k]) < Word
    BY <1>1, <2>1, <2>2, MemMapAssumption DEF ListInv
  <2>4. ~(grants[k].addr = addr /\ grants[k].size <= size)
    BY <1>5
  <2> QED BY <1>3, <2>1, <2>2, <2>3, <2>4
<1>6. ASSUME NEW i \in taken, NEW j \in taken PROVE i = j
  <2> SUFFICES ASSUME i # j PROVE FALSE
    OBVIOUS
  <2>1. grants[i] \in GrantSet /\ grants[j] \in GrantSet /\ Clear(grants[i], grants[j])
    BY <1>4
  <2>2. grants[i].addr = grants[j].addr
    OBVIOUS
  <2>3. /\ grants[i].addr \in Nat /\ grants[i].size \in Nat /\ grants[i].size # 0
        /\ grants[j].addr \in Nat /\ grants[j].size \in Nat /\ grants[j].size # 0
    BY <2>1, GrantIs
  <2> QED BY <2>1, <2>2, <2>3 DEF Clear, End
<1>7. taken \subseteq 1..n
  OBVIOUS
<1> HIDE DEF taken, n
<1>8. \E t \in [1..Len(grants') -> 1..n] :
          /\ grants' \in Seq(GrantSet)
          /\ \A k \in 1..Len(grants') : grants'[k] = grants[t[k]] /\ t[k] \notin taken
          /\ \A i, j \in 1..Len(grants') : i # j => t[i] # t[j]
  <2>1. CASE taken = {}
    <3> DEFINE t == [k \in 1..n |-> k]
    <3>1. grants' = grants /\ Len(grants') = n
      BY <1>2, <2>1 DEF n
    <3>2. t \in [1..Len(grants') -> 1..n]
      BY <3>1
    <3>3. \A k \in 1..Len(grants') : grants'[k] = grants[t[k]] /\ t[k] \notin taken
      BY <2>1, <3>1
    <3>4. \A i, j \in 1..Len(grants') : i # j => t[i] # t[j]
      BY <3>1
    <3> HIDE DEF t
    <3> QED BY <1>4, <3>1, <3>2, <3>3, <3>4, Zenon
  <2>2. CASE taken # {}
    <3>1. Min(taken) \in taken
      <4>1. taken \subseteq Nat
        BY <1>4, <1>7
      <4> QED BY <2>2, <4>1, MinOf, Zenon
    <3>2. PICK m \in taken : grants' = RemoveAt(grants, m)
      BY <1>2, <2>2, <3>1
    <3>3. \A k \in 1..n : k # m => k \notin taken
      BY <1>6
    <3>4. m \in 1..Len(grants)
      BY <1>7 DEF n
    <3>5. /\ grants' \in Seq(GrantSet) /\ Len(grants') = n - 1
          /\ \A k \in 1..n - 1 : /\ grants'[k] = grants[Shift(k, m)]
                                 /\ Shift(k, m) \in 1..n /\ Shift(k, m) # m
          /\ \A i, j \in 1..n - 1 : i # j => Shift(i, m) # Shift(j, m)
      BY <1>4, <3>2, <3>4, RemoveAtIs, Zenon DEF n
    <3> DEFINE t == [k \in 1..n - 1 |-> Shift(k, m)]
    <3>6. t \in [1..Len(grants') -> 1..n]
      BY <3>5
    <3>7. \A k \in 1..Len(grants') : grants'[k] = grants[t[k]] /\ t[k] \notin taken
      BY <3>3, <3>5
    <3>8. \A i, j \in 1..Len(grants') : i # j => t[i] # t[j]
      BY <3>5
    <3> HIDE DEF t
    <3> QED BY <3>5, <3>6, <3>7, <3>8, Zenon
  <2> QED BY <2>1, <2>2
<1>9. PICK t \in [1..Len(grants') -> 1..n] :
          /\ grants' \in Seq(GrantSet)
          /\ \A k \in 1..Len(grants') : grants'[k] = grants[t[k]] /\ t[k] \notin taken
          /\ \A i, j \in 1..Len(grants') : i # j => t[i] # t[j]
  BY <1>8, Zenon
<1>10. \A k \in 1..Len(grants') : t[k] \in 1..n
  BY <1>9
<1>11. GrantsHeld'
  <2>1. newbrk' = newbrk /\ memsize' = memsize
    BY <1>2
  <2>2. \A k \in 1..Len(grants') :
          /\ Spans(list', grants'[k].addr, End(grants'[k]))
          /\ newbrk' <= grants'[k].addr /\ End(grants'[k]) <= memsize'
    BY <1>4, <1>5, <1>9, <1>10, <2>1
  <2>3. \A i, j \in 1..Len(grants') : i # j => Clear(grants'[i], grants'[j])
    BY <1>4, <1>9, <1>10, Zenon
  <2> QED BY <1>9, <2>2, <2>3 DEF GrantsHeld, Spans, End, Clear
<1>12. SumsFit(memsize)'
  BY <1>1, <1>2 DEF SumsFit
<1>13. QED BY <1>3, <1>11, <1>12 DEF MapInv

LEMMA BrkKeeps ==
    ASSUME MapInv, NEW addr \in Hints, Brk(addr)
    PROVE  MapInv'
<1> DEFINE used == {i \in 1..Len(list) : list[i].addr >= newbrk /\ list[i].status = "used"}
<1>1. /\ addr > brkaddr /\ (addr <= newbrk \/ CanGrow(addr)) /\ newbrk' = addr
      /\ list' = list /\ memsize' = memsize /\ brkaddr' = brkaddr /\ grants' = grants
  BY DEF Brk
<1>2. ListInv /\ SumsFit(memsize) /\ GrantsHeld
  BY DEF MapInv
<1>3. /\ Tidy(list) /\ memsize \in Nat /\ brkaddr \in Nat /\ newbrk \in Nat /\ newbrk <= memsize
      /\ addr \in Nat
  BY <1>2, MemMapAssumption DEF ListInv
<1>4. CanGrow(addr) => addr < memsize /\ (used # {} => addr < list[Min(used)].addr)
  BY DEF CanGrow
<1>5. newbrk' \in brkaddr'..memsize'
  BY <1>1, <1>3, <1>4
<1>6. ListInv'
  <2>1. Tidy(list)'
    BY <1>1, <1>3
  <2>2. (\A i \in 1..Len(list) : list[i].addr <= memsize)'
    BY <1>1, <1>2 DEF ListInv
  <2>3. memsize' \in 1..Word - 1 /\ brkaddr' \in Nat
    BY <1>1, <1>2 DEF ListInv
  <2> QED BY <1>5, <2>1, <2>2, <2>3 DEF ListInv
<1>7. ASSUME NEW k \in 1..Len(grants) PROVE newbrk' <= grants[k].addr
  <2>1. /\ grants[k] \in GrantSet /\ Spans(list, grants[k].addr, End(grants[k]))
        /\ newbrk <= grants[k].addr
    BY <1>2 DEF GrantsHeld
  <2>2. grants[k].addr \in Nat
    BY <2>1, GrantIs
  <2>3. CASE addr <= newbrk
    BY <1>1, <1>3, <2>1, <2>2, <2>3
  <2>4. CASE CanGrow(addr)
    <3>1. PICK p \in 1..Len(list) - 1 : IsUsed(list[p]) /\ list[p].addr = grants[k].addr
      BY <2>1 DEF Spans
    <3>2. /\ p \in 1..Len(list) /\ Len(list) \in Nat
          /\ \A j \in 1..Len(list) : list[j].addr \in Nat
          /\ \A x, y \in 1..Len(list) : x < y => list[x].addr <= list[y].addr
      BY <1>3, ListFacts, Zenon
    <3>3. p \in used
      BY <2>1, <3>1, <3>2 DEF IsUsed
    <3>4. Min(used) \in used /\ Min(used) <= p
      <4>1. used \subseteq Nat /\ used # {}
        BY <3>2, <3>3
      <4> HIDE DEF used
      <4> QED BY <3>3, <4>1, MinOf, Zenon
    <3> DEFINE m == Min(used)
    <3>5. m \in 1..Len(list) /\ m <= p
      BY <3>4
    <3>6. addr < list[m].addr
      BY <1>4, <2>4, <3>3
    <3> HIDE DEF m, used
    <3>7. list[m].addr <= list[p].addr
      <4>1. m = p \/ m < p
        BY <3>2, <3>5
      <4> QED BY <3>2, <3>5, <4>1
    <3> QED BY <1>1, <1>3, <3>1, <3>2, <3>5, <3>6, <3>7
  <2> QED BY <1>1, <2>3, <2>4
<1>8. GrantsHeld'
  <2>1. /\ grants \in Seq(GrantSet)
        /\ \A i, j \in 1..Len(grants) : i # j => Clear(grants[i], grants[j])
        /\ \A k \in 1..Len(grants) :
             Spans(list, grants[k].addr, End(grants[k])) /\ End(grants[k]) <= memsize
    BY <1>2 DEF GrantsHeld
  <2> QED BY <1>1, <1>7, <2>1, Zenon DEF GrantsHeld, Clear, End, Spans
<1>9. SumsFit(memsize)'
  BY <1>1, <1>2 DEF SumsFit
<1>10. QED BY <1>6, <1>8, <1>9 DEF MapInv

\* Every call keeps the invariant.
LEMMA NextKeeps ==
    ASSUME MapInv, Next
    PROVE  MapInv'
BY MmapKeeps, MunmapKeeps, BrkKeeps DEF Next

\* The list ac_rtld::initiate() leaves is in order.
LEMMA InitiatedTidy ==
    ASSUME NEW start \in Nat, NEW end \in Nat, end # 0, NEW m \in 1..Word - 1, start + end <= m,
           NEW u, u = Initiated(start, end)
    PROVE  Tidy(u) /\ \A p \in 1..Len(u) : u[p].addr <= m
<1> DEFINE s == <<Free(0)>>
<1>1. Word \in Nat /\ m \in Nat /\ 0 \in Addr /\ start \in Addr /\ start + end < Word
  BY MemMapAssumption DEF Addr
<1>2. Free(0) \in NodeSet /\ Free(0).addr = 0 /\ ~IsUsed(Free(0))
  BY <1>1 DEF Free, Node, NodeSet, IsUsed
<1>3. s \in Seq(NodeSet) /\ Len(s) = 1 /\ s[1] = Free(0)
  BY <1>2
<1>4. u = AddRegion(s, start, end)
  BY DEF Initiated
<1> HIDE DEF s
<1>5. Climbs(s) /\ Apart(s) /\ Ascends(s)
  BY <1>3 DEF Climbs, Apart, Ascends
<1>6. Tidy(s)
  BY <1>2, <1>3, <1>5 DEF Tidy
<1>7. 1 \in 1..Len(s) /\ RoomAt(s, 1, start, end)
  BY <1>2, <1>3 DEF RoomAt
<1>8. /\ Tidy(u)
      /\ \A p \in 1..Len(u) :
            (\E x \in 1..Len(s) : u[p] = s[x]) \/ u[p].addr \in {start, start + end}
  BY <1>1, <1>4, <1>6, <1>7, AddRegionTidies
<1>9. ASSUME NEW p \in 1..Len(u) PROVE u[p].addr <= m
  <2>1. CASE \E x \in 1..Len(s) : u[p] = s[x]
    <3>1. u[p].addr = 0
      BY <1>2, <1>3, <2>1
    <3> QED BY <1>1, <3>1
  <2>2. CASE u[p].addr \in {start, start + end}
    BY <1>1, <2>2
  <2> QED BY <1>8, <2>1, <2>2
<1>10. QED BY <1>8, <1>9

-----------------------------------------------------------------------------
(* What the invariant says.                                                *)

LEMMA InvTypeOK == ASSUME MapInv PROVE TypeOK
<1>1. ListInv /\ GrantsHeld /\ Tidy(list)
  BY DEF MapInv, ListInv
<1>2. /\ list \in Seq(NodeSet) /\ Len(list) \in Nat /\ Len(list) # 0 /\ list[1].addr = 0
      /\ ~IsUsed(list[Len(list)])
      /\ \A i \in 1..Len(list) : list[i] \in NodeSet
  BY <1>1, ListFacts
<1>3. list # << >> /\ Head(list).addr = 0
  BY <1>2
<1>4. Last(list).status = "free"
  <2>1. Len(list) \in 1..Len(list)
    BY <1>2
  <2> QED BY <1>2, <2>1 DEF Last, IsUsed, NodeSet
<1>5. newbrk \in brkaddr..memsize /\ grants \in Seq(GrantSet)
  BY <1>1 DEF ListInv, GrantsHeld
<1>6. QED BY <1>2, <1>3, <1>4, <1>5 DEF TypeOK, NodeSet, GrantSet

LEMMA InvGrantsDisjoint == ASSUME MapInv PROVE GrantsDisjoint
<1> SUFFICES ASSUME NEW i \in 1..Len(grants)
             PROVE  /\ newbrk <= grants[i].addr
                    /\ grants[i].addr + grants[i].size <= memsize
                    /\ \A j \in 1..i - 1 : Bytes(grants[i]) \cap Bytes(grants[j]) = {}
  BY Zenon DEF GrantsDisjoint
<1>1. /\ grants \in Seq(GrantSet) /\ Len(grants) \in Nat
      /\ newbrk <= grants[i].addr /\ End(grants[i]) <= memsize
      /\ \A x, y \in 1..Len(grants) : x # y => Clear(grants[x], grants[y])
  BY DEF MapInv, GrantsHeld
<1>2. ASSUME NEW j \in 1..i - 1 PROVE Bytes(grants[i]) \cap Bytes(grants[j]) = {}
  <2>1. j \in 1..Len(grants) /\ j # i
    BY <1>1
  <2>2. grants[i] \in GrantSet /\ grants[j] \in GrantSet /\ Clear(grants[i], grants[j])
    BY <1>1, <2>1
  <2>3. /\ grants[i].addr \in Nat /\ grants[i].size \in Nat
        /\ grants[j].addr \in Nat /\ grants[j].size \in Nat
    BY <2>2, GrantIs, Zenon
  <2>4. \A a, m, c, n \in Nat :
            a + m <= c \/ c + n <= a => (a..a + m - 1) \cap (c..c + n - 1) = {}
    OBVIOUS
  <2>5. End(grants[i]) <= grants[j].addr \/ End(grants[j]) <= grants[i].addr
    BY <2>2 DEF Clear
  <2> QED BY <2>3, <2>4, <2>5, Zenon DEF Bytes, End
<1>3. QED BY <1>1, <1>2 DEF End

LEMMA InvGrantsBacked == ASSUME MapInv PROVE GrantsBacked
<1> SUFFICES ASSUME NEW k \in 1..Len(grants), NEW b \in Bytes(grants[k])
             PROVE  list[NodeBelow(b)].status = "used"
  BY DEF GrantsBacked
<1>1. /\ grants[k] \in GrantSet /\ Spans(list, grants[k].addr, End(grants[k])) /\ Tidy(list)
  BY DEF MapInv, GrantsHeld, ListInv
<1>2. grants[k].addr \in Nat /\ grants[k].size \in Nat /\ End(grants[k]) \in Nat
  BY <1>1, GrantIs
<1>3. b \in Nat /\ grants[k].addr <= b /\ b < End(grants[k])
  BY <1>2 DEF Bytes, End
<1>4. PICK p \in 1..Len(list) - 1 : /\ IsUsed(list[p]) /\ list[p].addr = grants[k].addr
                                    /\ list[p + 1].addr = End(grants[k])
  BY <1>1 DEF Spans
<1> DEFINE i == NodeBelow(b)
<1>5. i \in 1..Len(list) /\ list[i].addr <= b /\ (i < Len(list) => b < list[i + 1].addr)
  BY <1>1, <1>3, NodeBelowIs
<1>6. /\ Len(list) \in Nat /\ p \in 1..Len(list) /\ p + 1 \in 1..Len(list)
      /\ \A j \in 1..Len(list) : list[j].addr \in Nat
      /\ \A x, y \in 1..Len(list) : x < y => list[x].addr <= list[y].addr
  BY <1>1, ListFacts, Zenon
<1> HIDE DEF i
<1>7. ~(i < p)
  <2> SUFFICES ASSUME i < p PROVE FALSE
    OBVIOUS
  <2>1. i < Len(list) /\ i + 1 \in 1..Len(list) /\ (i + 1 = p \/ i + 1 < p)
    BY <1>5, <1>6
  <2>2. list[i + 1].addr <= list[p].addr
    BY <1>6, <2>1
  <2>3. b < list[i + 1].addr
    BY <1>5, <2>1
  <2> QED BY <1>3, <1>4, <1>6, <2>1, <2>2, <2>3
<1>8. ~(p < i)
  <2> SUFFICES ASSUME p < i PROVE FALSE
    OBVIOUS
  <2>1. p + 1 = i \/ p + 1 < i
    BY <1>5, <1>6
  <2>2. list[p + 1].addr <= list[i].addr
    BY <1>5, <1>6, <2>1
  <2> QED BY <1>2, <1>3, <1>4, <1>5, <1>6, <2>2
<1>9. i = p
  BY <1>5, <1>6, <1>7, <1>8
<1>10. QED BY <1>4, <1>9 DEF i, IsUsed

LEMMA InvListCanonical == ASSUME MapInv PROVE ListCanonical
<1>1. Tidy(list) /\ Len(list) \in Nat
  <2>1. Tidy(list)
    BY DEF MapInv, ListInv
  <2> QED BY <2>1, ListFacts
<1>2. ASSUME NEW i \in 1..Len(list) - 1
      PROVE  ~BothFree(list[i], list[i + 1]) /\ list[i].addr <= list[i + 1].addr
  <2>1. i \in 1..Len(list) /\ i + 1 \in 1..Len(list) /\ i < i + 1
    BY <1>1
  <2> QED BY <1>1, <2>1 DEF Tidy, Apart, Ascends
<1>3. QED BY <1>2 DEF ListCanonical

-----------------------------------------------------------------------------
(* The memory map under any sequence of calls.                             *)

\* The map as it is set up, with a memory of this size.
LEMMA StartsRight ==
    ASSUME NEW start \in Nat, NEW end \in Nat \ {0},
           memsize \in 1..Word - 1, start + end <= memsize, SumsFit(memsize),
           list = Initiated(start, end), brkaddr = end, newbrk = end, grants = << >>
    PROVE  MapInv
<1>1. Tidy(list) /\ \A p \in 1..Len(list) : list[p].addr <= memsize
  BY InitiatedTidy, Zenon
<1>2. newbrk \in brkaddr..memsize /\ brkaddr \in Nat
  BY MemMapAssumption
<1>3. ListInv
  BY <1>1, <1>2 DEF ListInv
<1>4. GrantsHeld
  <2>1. Len(grants) = 0 /\ grants \in Seq(GrantSet)
    OBVIOUS
  <2> QED BY <2>1 DEF GrantsHeld
<1>5. QED BY <1>3, <1>4 DEF MapInv

LEMMA MapInductive ==
    ASSUME SumsFit(MemSize)
    PROVE  Spec => []MapInv
<1>1. Init => MapInv
  <2> SUFFICES ASSUME Init PROVE MapInv
    OBVIOUS
  <2>1. /\ Entry \in Nat /\ ProgEnd \in Nat \ {0} /\ MemSize \in 1..Word - 1
        /\ Entry + ProgEnd <= MemSize
    BY MemMapAssumption
  <2> QED BY <2>1, StartsRight DEF Init
<1>2. MapInv /\ [Next]_vars => MapInv'
  <2> SUFFICES ASSUME MapInv, [Next]_vars PROVE MapInv'
    OBVIOUS
  <2>1. CASE Next
    BY <2>1, NextKeeps
  <2>2. CASE UNCHANGED vars
    BY <2>2 DEF vars, MapInv, ListInv, Tidy, Climbs, Apart, Ascends, SumsFit, GrantsHeld,
                Spans, End, Clear
  <2> QED BY <2>1, <2>2
<1>3. QED BY <1>1, <1>2, PTL DEF Spec

\* The list starts at address 0 and ends free and the break stays in its
\* bounds (class memmap), if no sum of the numbers the calls are given wraps.
THEOREM MapTyped == SumsFit(MemSize) => (Spec => []TypeOK)
<1> SUFFICES ASSUME SumsFit(MemSize) PROVE Spec => []TypeOK
  OBVIOUS
<1>1. MapInv => TypeOK
  BY InvTypeOK
<1>2. Spec => []MapInv
  BY MapInductive
<1>3. QED BY <1>1, <1>2, PTL

\* No two live mappings share a byte, none reaches below the break or past the
\* memory: mmap_anon(), munmap() and brk() in any order, on a memory of any size.
THEOREM MapDisjoint == SumsFit(MemSize) => (Spec => []GrantsDisjoint)
<1> SUFFICES ASSUME SumsFit(MemSize) PROVE Spec => []GrantsDisjoint
  OBVIOUS
<1>1. MapInv => GrantsDisjoint
  BY InvGrantsDisjoint
<1>2. Spec => []MapInv
  BY MapInductive
<1>3. QED BY <1>1, <1>2, PTL

\* Every byte of a live mapping lies in a used region: neither fix_consistency()
\* nor munmap() of another mapping ever frees it.
THEOREM MapBacked == SumsFit(MemSize) => (Spec => []GrantsBacked)
<1> SUFFICES ASSUME SumsFit(MemSize) PROVE Spec => []GrantsBacked
  OBVIOUS
<1>1. MapInv => GrantsBacked
  BY InvGrantsBacked
<1>2. Spec => []MapInv
  BY MapInductive
<1>3. QED BY <1>1, <1>2, PTL

\* The two loops of fix_consistency() leave the addresses in order and no two
\* free regions side by side.
THEOREM MapCanonical == SumsFit(MemSize) => (Spec => []ListCanonical)
<1> SUFFICES ASSUME SumsFit(MemSize) PROVE Spec => []ListCanonical
  OBVIOUS
<1>1. MapInv => ListCanonical
  BY InvListCanonical
<1>2. Spec => []MapInv
  BY MapInductive
<1>3. QED BY <1>1, <1>2, PTL

-----------------------------------------------------------------------------
(* The memory map under the dynamic linker and the program it starts.      *)

\* While libraries are loaded nobody has mapped memory.
LoadInv ==
    /\ MapInv
    /\ prog \in Programs /\ memsize % PageSize = 0 /\ memsize + PageSize < Word
    /\ stage = "load" => grants = << >>

\* Rounding up to a page stays below a number of pages.
LEMMA RoundedUp ==
    ASSUME NEW a \in Nat, NEW m \in Nat, a < m, m % PageSize = 0
    PROVE  (a - (a % PageSize)) + PageSize <= m
<1> DEFINE p == PageSize
<1>1. p \in Nat /\ p > 0
  BY MemMapAssumption
<1>2. PICK q \in Nat, r \in 0..p - 1 : a = p * q + r /\ r = a % p
  <2>1. a = p * (a \div p) + (a % p) /\ a % p \in 0..p - 1 /\ a \div p \in Nat
    BY <1>1
  <2> QED BY <2>1
<1>3. PICK c \in Nat : m = p * c
  <2>1. m = p * (m \div p) + (m % p) /\ m \div p \in Nat
    BY <1>1
  <2> QED BY <1>1, <2>1
<1> HIDE DEF p
<1>4. q < c
  <2> SUFFICES ASSUME c <= q PROVE FALSE
    BY <1>2, <1>3
  <2>1. p * c <= p * q
    BY <1>1
  <2>2. p * q \in Nat /\ p * c \in Nat
    BY <1>1
  <2> QED BY <1>2, <1>3, <2>1, <2>2
<1>5. p * q + p <= p * c
  <2>1. q + 1 <= c
    BY <1>4
  <2>2. p * (q + 1) <= p * c
    BY <1>1, <2>1
  <2>3. p * (q + 1) = p * q + p
    BY <1>1
  <2> QED BY <2>2, <2>3
<1>6. p * q \in Nat
  BY <1>1
<1>7. a - r = p * q
  BY <1>1, <1>2, <1>6
<1>8. QED BY <1>2, <1>3, <1>5, <1>7 DEF p

\* suggest_free_region() answers with room at the end of the list.
LEMMA SuggestedRegion ==
    ASSUME ListInv, memsize % PageSize = 0, memsize + PageSize < Word
    PROVE  /\ SuggestFreeRegion \in Addr /\ SuggestFreeRegion \in Nat
           /\ SuggestFreeRegion <= memsize /\ Len(list) \in 1..Len(list)
           /\ \A size : RoomAt(list, Len(list), SuggestFreeRegion, size)
<1> DEFINE b == Last(list).addr
           a == SuggestFreeRegion
<1>1. Tidy(list) /\ memsize \in Nat /\ \A i \in 1..Len(list) : list[i].addr <= memsize
  BY DEF ListInv
<1>2. /\ Len(list) \in 1..Len(list) /\ ~IsUsed(list[Len(list)]) /\ Len(list) \in Nat
      /\ b = list[Len(list)].addr /\ b \in Nat
  BY <1>1, ListFacts DEF Last
<1>3. b <= memsize
  BY <1>1, <1>2
<1>4. a = IF b % PageSize = 0 THEN b ELSE ALIGN_ADDR(b)
  BY DEF SuggestFreeRegion
<1>5. Word \in Nat /\ PageSize \in Nat
  BY MemMapAssumption
<1> HIDE DEF a, b
<1>6. a \in Addr /\ a \in Nat /\ b <= a /\ a <= memsize
  <2>1. CASE b % PageSize = 0
    BY <1>1, <1>2, <1>3, <1>4, <1>5, <2>1 DEF Addr
  <2>2. CASE b % PageSize # 0
    <3>1. b # memsize
      BY <2>2
    <3>2. b < memsize /\ b + PageSize < Word
      BY <1>1, <1>2, <1>3, <1>5, <3>1
    <3>3. ALIGN_ADDR(b) \in Addr /\ b < ALIGN_ADDR(b)
      BY <1>2, <3>2, AlignIs
    <3>4. (b - (b % PageSize)) + PageSize <= memsize
      BY <1>1, <1>2, <3>2, RoundedUp
    <3>5. PICK c : c = b - (b % PageSize)
      OBVIOUS
    <3>6. ALIGN_ADDR(b) = Plus(c, PageSize) /\ c + PageSize <= memsize
      BY <3>4, <3>5 DEF ALIGN_ADDR
    <3>7. c \in Nat
      <4>1. b % PageSize \in 0..PageSize - 1 /\ PageSize \in Nat \ {0}
        BY <1>2, MemMapAssumption
      <4>2. b % PageSize <= b
        BY <1>2, <4>1
      <4> QED BY <1>2, <3>5, <4>1, <4>2
    <3>8. ALIGN_ADDR(b) = c + PageSize
      <4>1. c + PageSize < Word
        BY <1>1, <1>5, <3>6, <3>7
      <4> QED BY <1>5, <3>6, <3>7, <4>1, PlusIs
    <3> QED BY <1>2, <1>4, <1>5, <2>2, <3>3, <3>6, <3>7, <3>8
  <2> QED BY <2>1, <2>2
<1>7. \A size : RoomAt(list, Len(list), a, size)
  BY <1>2, <1>6 DEF RoomAt, b
<1>8. QED BY <1>2, <1>6, <1>7 DEF a

LEMMA LoadNeededKeeps ==
    ASSUME ProgramsFit, LoadInv, LoadNeeded
    PROVE  LoadInv'
<1> DEFINE name == File(at).needed[entry]
           file == prog.files[LibraryName[name]]
           a == SuggestFreeRegion
<1>1. /\ MapInv /\ prog \in Programs /\ memsize % PageSize = 0 /\ memsize + PageSize < Word
      /\ grants = << >>
  BY DEF LoadInv, LoadNeeded
<1>2. UNCHANGED <<memsize, brkaddr, newbrk, grants, prog>>
  BY DEF LoadNeeded
<1>3. ListInv /\ SumsFit(memsize)
  BY <1>1 DEF MapInv
<1>4. \/ list' = list
      \/ /\ LibraryName[name] \in DOMAIN prog.files /\ a + file.size <= memsize
         /\ list' = AddRegion(list, a, file.size)
  BY DEF LoadNeeded
<1>5. ListInv'
  <2>1. CASE list' = list
    <3>1. Tidy(list') /\ \A p \in 1..Len(list') : list'[p].addr <= memsize
      BY <1>3, <2>1 DEF ListInv
    <3> QED BY <1>2, <1>3, <3>1, ListInvKept
  <2>2. CASE /\ LibraryName[name] \in DOMAIN prog.files /\ a + file.size <= memsize
             /\ list' = AddRegion(list, a, file.size)
    <3>1. file.size \in Nat /\ file.size # 0
      <4>1. prog.files[LibraryName[name]].size \in Nat \ {0}
        BY <1>1, <2>2 DEF ProgramsFit
      <4> QED BY <4>1
    <3>2. a \in Addr /\ Len(list) \in 1..Len(list) /\ RoomAt(list, Len(list), a, file.size)
      BY <1>1, <1>3, SuggestedRegion
    <3> HIDE DEF file, a, name
    <3>3. PICK size \in Nat : size = file.size
      BY <3>1
    <3>4. size # 0 /\ a + size <= memsize /\ RoomAt(list, Len(list), a, size)
          /\ list' = AddRegion(list, a, size)
      BY <2>2, <3>1, <3>2, <3>3
    <3> QED BY <1>2, <1>3, <3>2, <3>4, AddedRegion
  <2> QED BY <1>4, <2>1, <2>2
<1>6. GrantsHeld'
  <2>1. grants' = << >>
    BY <1>1, <1>2
  <2>2. Len(grants') = 0 /\ grants' \in Seq(GrantSet)
    BY <2>1
  <2> QED BY <2>2 DEF GrantsHeld
<1>7. SumsFit(memsize)'
  BY <1>2, <1>3 DEF SumsFit
<1>8. QED BY <1>1, <1>2, <1>5, <1>6, <1>7 DEF LoadInv, MapInv

LEMMA NextObjectKeeps ==
    ASSUME LoadInv, NextObject
    PROVE  LoadInv'
<1> DEFINE a == SuggestFreeRegion
<1>1. /\ MapInv /\ prog \in Programs /\ memsize % PageSize = 0 /\ memsize + PageSize < Word
      /\ grants = << >>
  BY DEF LoadInv, NextObject
<1>2. /\ UNCHANGED <<list, memsize, grants, prog>>
      /\ brkaddr' = (IF at = Len(nodes) THEN a ELSE brkaddr)
      /\ newbrk' = (IF at = Len(nodes) THEN a ELSE newbrk)
  BY DEF NextObject
<1>3. ListInv /\ SumsFit(memsize)
  BY <1>1 DEF MapInv
<1>4. a \in Nat /\ a <= memsize
  BY <1>1, <1>3, SuggestedRegion
<1> HIDE DEF a
<1>5. /\ Tidy(list) /\ (\A i \in 1..Len(list) : list[i].addr <= memsize)
      /\ memsize \in 1..Word - 1 /\ brkaddr \in Nat /\ newbrk \in brkaddr..memsize
  BY <1>3 DEF ListInv
<1>6. brkaddr' \in Nat /\ newbrk' \in brkaddr'..memsize
  <2>1. memsize \in Nat
    BY <1>5, MemMapAssumption
  <2> QED BY <1>2, <1>4, <1>5, <2>1
<1>7. ListInv'
  <2>1. list' = list /\ memsize' = memsize
    BY <1>2
  <2>2. Tidy(list)'
    BY <1>5, <2>1
  <2> QED BY <1>5, <1>6, <2>1, <2>2 DEF ListInv
<1>8. GrantsHeld'
  <2>1. grants' = << >>
    BY <1>1, <1>2
  <2>2. Len(grants') = 0 /\ grants' \in Seq(GrantSet)
    BY <2>1
  <2> QED BY <2>2 DEF GrantsHeld
<1>9. SumsFit(memsize)'
  BY <1>2, <1>3 DEF SumsFit
<1>10. QED BY <1>1, <1>2, <1>7, <1>8, <1>9 DEF LoadInv, MapInv

\* The other steps leave the map alone, and none goes back to loading.
LEMMA MapUntouched ==
    ASSUME LoadInv, UNCHANGED <<vars, prog>>, stage' = "load" => stage = "load"
    PROVE  LoadInv'
<1>1. /\ list' = list /\ memsize' = memsize /\ brkaddr' = brkaddr /\ newbrk' = newbrk
      /\ grants' = grants /\ prog' = prog
  BY DEF vars
<1>2. MapInv'
  BY <1>1 DEF LoadInv, MapInv, ListInv, Tidy, Climbs, Apart, Ascends, SumsFit, GrantsHeld,
              Spans, End, Clear
<1>3. QED BY <1>1, <1>2 DEF LoadInv

LEMMA LoaderNextKeeps ==
    ASSUME ProgramsFit, LoadInv, LoaderNext
    PROVE  LoadInv'
<1>1. CASE LoadNeeded
  BY <1>1, LoadNeededKeeps
<1>2. CASE NextObject
  BY <1>2, NextObjectKeeps
<1>3. CASE AdjustSymbols \/ ResolveNext \/ RelocateNext \/ CopyNext
  <2>1. UNCHANGED <<vars, prog>> /\ stage # "load"
    BY <1>3 DEF AdjustSymbols, ResolveNext, RelocateNext, CopyNext, Linking
  <2>2. stage' = "load" => stage = "load"
    BY <1>3 DEF AdjustSymbols, ResolveNext, RelocateNext, CopyNext, Advance
  <2> QED BY <2>1, <2>2, MapUntouched
<1>4. CASE ResolveSymbol
  <2>1. UNCHANGED <<vars, prog>>
    BY <1>4, Zenon DEF ResolveSymbol, Linking
  <2>2. stage' = stage \/ stage' = "failed"
    <3> DEFINE sym == File(at).relocs[entry].sym
    <3>1. CASE sym = 0
      BY <1>4, <3>1 DEF ResolveSymbol
    <3>2. CASE sym # 0
      BY <1>4, <3>2, Zenon DEF ResolveSymbol, Fails
    <3> QED BY <3>1, <3>2
  <2> QED BY <2>1, <2>2, MapUntouched
<1>5. CASE ApplyRelocation \/ ApplyPendingCopy
  <2>1. UNCHANGED <<vars, prog, stage>>
    BY <1>5 DEF ApplyRelocation, ApplyPendingCopy, Linking
  <2> QED BY <2>1, MapUntouched
<1>6. CASE Boot \/ RtldInit \/ RtldFini \/ Exit
  <2>1. UNCHANGED <<vars, prog>>
    BY <1>6 DEF Boot, RtldInit, RtldFini, Exit, Running
  <2>2. stage' # "load" \/ stage' = stage
    BY <1>6 DEF Boot, RtldInit, RtldFini, Exit
  <2> QED BY <2>1, <2>2, MapUntouched
<1>7. CASE SystemCall
  <2>1. Next /\ UNCHANGED <<prog, stage>> /\ stage = "main"
    BY <1>7 DEF SystemCall, Running
  <2>2. MapInv'
    BY <2>1, NextKeeps DEF LoadInv
  <2>3. memsize' = memsize
    BY <2>1, Zenon DEF Next, Mmap, Munmap, Brk
  <2> QED BY <2>1, <2>2, <2>3 DEF LoadInv
<1>8. QED BY <1>1, <1>2, <1>3, <1>4, <1>5, <1>6, <1>7 DEF LoaderNext

LEMMA LoadStarts == ASSUME ProgramsFit, LoaderInit PROVE LoadInv
<1>1. /\ prog \in Programs /\ list = Initiated(prog.entry, prog.end)
      /\ memsize = prog.memsize /\ brkaddr = prog.end /\ newbrk = prog.end /\ grants = << >>
  BY DEF LoaderInit
<1>2. /\ prog.memsize \in 1..Word - 1 /\ prog.memsize % PageSize = 0
      /\ prog.memsize + PageSize < Word /\ SumsFit(prog.memsize)
      /\ prog.entry \in Nat /\ prog.end \in Nat \ {0} /\ prog.entry + prog.end <= prog.memsize
  BY <1>1 DEF ProgramsFit
<1>3. MapInv
  BY <1>1, <1>2, StartsRight
<1>4. QED BY <1>1, <1>2, <1>3 DEF LoadInv

LEMMA LoadStep == ASSUME ProgramsFit, LoadInv, [LoaderNext]_allVars PROVE LoadInv'
<1>1. CASE LoaderNext
  BY <1>1, LoaderNextKeeps
<1>2. CASE UNCHANGED allVars
  <2>1. UNCHANGED <<vars, prog, stage>>
    BY <1>2 DEF allVars
  <2> QED BY <2>1, MapUntouched
<1>3. QED BY <1>1, <1>2

\* The same of a program the dynamic linker loads (ac_rtld) and that then makes
\* its calls: the libraries, the heap and the mappings stay apart.
THEOREM LoadedMapSafe ==
    ProgramsFit =>
        (LoaderSpec => [](TypeOK /\ GrantsDisjoint /\ GrantsBacked /\ ListCanonical))
<1> SUFFICES ASSUME ProgramsFit
             PROVE  LoaderSpec =>
                        [](TypeOK /\ GrantsDisjoint /\ GrantsBacked /\ ListCanonical)
  OBVIOUS
<1>1. LoaderInit => LoadInv
  BY LoadStarts
<1>2. LoadInv /\ [LoaderNext]_allVars => LoadInv'
  BY LoadStep
<1>3. LoadInv => TypeOK /\ GrantsDisjoint /\ GrantsBacked /\ ListCanonical
  BY InvTypeOK, InvGrantsDisjoint, InvGrantsBacked, InvListCanonical DEF LoadInv
<1>4. QED BY <1>1, <1>2, <1>3, PTL DEF LoaderSpec

-----------------------------------------------------------------------------
(* What the dynamic linker keeps of its objects.                           *)

\* A region added behind all others ends the list.
LEMMA LastAdded ==
    ASSUME NEW s, Tidy(s), NEW a \in Addr, NEW size \in Nat, size # 0, a + size < Word,
           NEW i \in 1..Len(s), RoomAt(s, i, a, size),
           \A x \in 1..Len(s) : s[x].addr <= a, NEW u, u = AddRegion(s, a, size)
    PROVE  Last(u).addr = a + size
<1> DEFINE n == Len(u)
<1>1. /\ Tidy(u) /\ Spans(u, a, a + size)
      /\ \A p \in 1..n : (\E x \in 1..Len(s) : u[p] = s[x]) \/ u[p].addr \in {a, a + size}
  BY AddRegionTidies
<1>2. a \in Nat
  BY MemMapAssumption DEF Addr
<1>3. u \in Seq(NodeSet) /\ n \in Nat /\ n # 0 /\ \A x, y \in 1..n : x < y => u[x].addr <= u[y].addr
  BY <1>1 DEF Tidy, Ascends
<1>4. PICK x \in 1..n - 1 : u[x + 1].addr = a + size
  BY <1>1 DEF Spans
<1>5. x + 1 \in 1..n /\ n \in 1..n /\ (x + 1 = n \/ x + 1 < n)
  BY <1>3
<1> HIDE DEF n
<1>6. u[n] \in NodeSet
  BY <1>3, <1>5 DEF n
<1>7. u[n].addr \in Nat
  BY <1>6, MemMapAssumption DEF NodeSet, Addr
<1>8. a + size <= u[n].addr
  BY <1>3, <1>4, <1>5, <1>7
<1>9. u[n].addr <= a \/ u[n].addr <= a + size
  <2>1. (\E y \in 1..Len(s) : u[n] = s[y]) \/ u[n].addr \in {a, a + size}
    BY ONLY <1>1, <1>5 DEF n
  <2>2. CASE \E y \in 1..Len(s) : u[n] = s[y]
    BY <2>2
  <2>3. CASE u[n].addr \in {a, a + size}
    BY ONLY <1>2, <2>3
  <2> QED BY ONLY <2>1, <2>2, <2>3
<1>10. u[n].addr = a + size
  BY <1>2, <1>7, <1>8, <1>9
<1>11. QED BY <1>10 DEF Last, n

LEMMA PageAbove ==
    ASSUME NEW x \in Nat, NEW p \in Nat \ {0}, NEW r, r = x % p
    PROVE  x - r \in Nat /\ ((x - r) + p) % p = 0 /\ x < (x - r) + p
<1>1. x = p * (x \div p) + (x % p) /\ x % p \in 0..p - 1 /\ x \div p \in Nat
  OBVIOUS
<1>2. PICK q \in Nat : x = p * q + r
  BY <1>1, Zenon
<1>3. r \in 0..p - 1
  BY <1>1
<1>4. x - r = p * q /\ p * q \in Nat
  BY <1>2, <1>3
<1>5. (x - r) + p = p * (q + 1)
  BY <1>4
<1>6. (p * (q + 1)) % p = 0
  BY SMTT(30)
<1>7. x < (x - r) + p
  BY <1>3
<1>8. ((x - r) + p) % p = 0
  BY ONLY <1>5, <1>6
<1>9. QED BY ONLY <1>4, <1>7, <1>8

\* It begins on a page behind all others.
LEMMA SuggestedPage ==
    ASSUME ListInv, memsize % PageSize = 0, memsize + PageSize < Word
    PROVE  /\ SuggestFreeRegion % PageSize = 0 /\ Last(list).addr <= SuggestFreeRegion
           /\ Last(list).addr \in Nat /\ \A x \in 1..Len(list) : list[x].addr <= SuggestFreeRegion
<1> DEFINE b == Last(list).addr
           a == SuggestFreeRegion
<1>1. /\ Tidy(list) /\ memsize \in Nat /\ PageSize \in Nat /\ PageSize > 0 /\ Word \in Nat
      /\ \A x \in 1..Len(list) : list[x].addr <= memsize
  BY MemMapAssumption DEF ListInv
<1>2. /\ Len(list) \in 1..Len(list) /\ Len(list) \in Nat /\ b = list[Len(list)].addr /\ b \in Nat
      /\ \A x \in 1..Len(list) : list[x].addr \in Nat /\ (x < Len(list) => list[x].addr <= b)
  BY <1>1, ListFacts DEF Last
<1>3. a = (IF b % PageSize = 0 THEN b ELSE ALIGN_ADDR(b)) /\ a \in Nat /\ b <= memsize
  BY <1>1, <1>2, SuggestedRegion DEF SuggestFreeRegion
<1> HIDE DEF a, b
<1>5. CASE b % PageSize = 0
  BY <1>2, <1>3, <1>5 DEF a, b
<1>6. CASE b % PageSize # 0
  <2>0. PICK r : r = b % PageSize
    OBVIOUS
  <2> DEFINE c == b - r
  <2>1. c \in Nat /\ (c + PageSize) % PageSize = 0 /\ b < c + PageSize
    <3>1. b \in Nat /\ PageSize \in Nat \ {0}
      BY <1>1, <1>2
    <3> QED BY ONLY Zenon, <2>0, <3>1, PageAbove
  <2>2. b # memsize
    BY <1>6
  <2>3. b < memsize
    BY <1>1, <1>2, <1>3, <2>2
  <2>4. c + PageSize <= memsize
    BY <1>1, <1>2, <2>0, <2>3, RoundedUp, Zenon
  <2> HIDE DEF c
  <2>5. Plus(c, PageSize) = c + PageSize
    BY <1>1, <2>1, <2>4, PlusIs
  <2>6. a = c + PageSize
    BY <1>3, <1>6, <2>0, <2>5 DEF ALIGN_ADDR, c
  <2>7. b <= a
    <3>1. b \in Nat /\ PageSize \in Nat /\ c \in Nat
      BY <1>1, <1>2, <2>1
    <3> QED BY ONLY <2>1, <2>6, <3>1
  <2> QED BY <1>2, <1>3, <2>1, <2>6, <2>7 DEF a, b
<1>7. QED BY <1>5, <1>6

-----------------------------------------------------------------------------
(* The tables of the objects.                                              *)

LEMMA RootIs ==
    ASSUME FilesFit, prog \in Programs
    PROVE  /\ WellFormed(Root) /\ Root \in FileSet /\ Word % 2 = 0
           /\ \A file \in FileSet : WellFormed(file)
BY DEF FilesFit, FileSet, Root

\* The program keeps its copies at addresses.
LEMMA CopyTargetIs ==
    ASSUME WellFormed(Root), NEW name
    PROVE  CopyTarget(name) \in Nat
<1> DEFINE T == {r \in 1..Len(Root.relocs) :
                    /\ Root.relocs[r].type = "copy"
                    /\ Root.symbols[Root.relocs[r].sym].name = name}
<1>1. CopyTarget(name) = IF T = {} THEN 0 ELSE Root.relocs[Min(T)].offset
  BY DEF CopyTarget
<1>2. T \subseteq Nat /\ T \subseteq 1..Len(Root.relocs)
  OBVIOUS
<1> HIDE DEF T
<1>3. CASE T # {}
  <2>1. Min(T) \in 1..Len(Root.relocs)
    BY <1>2, <1>3, MinOf, Zenon
  <2>2. Root.relocs[Min(T)] \in Relocs
    BY <2>1 DEF WellFormed
  <2>3. Root.relocs[Min(T)].offset \in Nat
    BY <2>2 DEF Relocs
  <2> QED BY <1>1, <1>3, <2>3
<1>4. QED BY <1>1, <1>3

\* Copies that are taken from below an address.
CopiesBelow(limit) == {c \in Copies : c.src + c.size <= limit}

LEMMA SchedulingType ==
    ASSUME WellFormed(Root), NEW s \in Symbols, NEW addr \in Nat, NEW limit \in Nat,
           s.defined => (s.value + s.size) + addr <= limit,
           NEW copies \in Seq(CopiesBelow(limit))
    PROVE  Scheduling(copies, s, addr) \in Seq(CopiesBelow(limit))
<1>1. CASE s.defined /\ Copied(s)
  <2> DEFINE c == CopyOf(s, addr)
  <2>1. /\ c = [dst |-> CopyTarget(s.name), src |-> s.value + addr, size |-> s.size]
        /\ CopyTarget(s.name) \in Nat /\ s.value \in Nat /\ s.size \in Nat
    BY CopyTargetIs DEF CopyOf, Symbols
  <2>2. c \in Copies
    BY <2>1 DEF Copies
  <2>3. c.src + c.size <= limit
    BY <1>1, <2>1
  <2> HIDE DEF c
  <2>4. <<c>> \in Seq(CopiesBelow(limit))
    BY <2>2, <2>3 DEF CopiesBelow
  <2>5. <<c>> \o copies \in Seq(CopiesBelow(limit))
    <3> HIDE DEF CopiesBelow
    <3> QED BY <2>4
  <2> QED BY <1>1, <2>5 DEF Scheduling, c
<1>2. QED BY <1>1 DEF Scheduling

\* The loop over the symbols, turn by turn.
LEMMA ScheduledBy ==
    ASSUME WellFormed(Root), NEW symbols \in Seq(Symbols), NEW addr \in Nat, NEW limit \in Nat,
           \A k \in 1..Len(symbols) : symbols[k].defined =>
               (symbols[k].value + symbols[k].size) + addr <= limit
    PROVE  \E f \in [0..Len(symbols) -> Seq(CopiesBelow(limit))] :
               /\ f[0] = << >>
               /\ \A k \in 1..Len(symbols) : f[k] = Scheduling(f[k - 1], symbols[k], addr)
               /\ Scheduled(symbols, addr) = f[Len(symbols)]
<1> PICK n : n = Len(symbols)
  OBVIOUS
<1> DEFINE S == Seq(CopiesBelow(limit))
           step == [p \in (1..n) \X S |-> Scheduling(p[2], symbols[p[1]], addr)]
           Is(f) == f = [k \in 0..n |->
                            IF k = 0 THEN << >> ELSE Scheduling(f[k - 1], symbols[k], addr)]
           Runs(f) == f[0] = << >> /\ \A k \in 1..n : f[k] = Scheduling(f[k - 1], symbols[k], addr)
<1>1. n \in Nat /\ << >> \in S /\ \A k \in 1..n : symbols[k] \in Symbols
  OBVIOUS
<1>2. \A k \in 1..n : \A x \in S : /\ step[<<k, x>>] = Scheduling(x, symbols[k], addr)
                                   /\ step[<<k, x>>] \in S
  <2>1. \A k \in 1..n : \A x \in S : step[<<k, x>>] = Scheduling(x, symbols[k], addr)
    <3> HIDE DEF S
    <3> QED OBVIOUS
  <2> HIDE DEF step
  <2>2. ASSUME NEW k \in 1..n, NEW x \in S PROVE Scheduling(x, symbols[k], addr) \in S
    <3>1. symbols[k] \in Symbols
      BY <1>1
    <3>2. symbols[k].defined => (symbols[k].value + symbols[k].size) + addr <= limit
      OBVIOUS
    <3> QED BY <3>1, <3>2, SchedulingType
  <2> QED BY <2>1, <2>2, Zenon
<1>3. \E f \in [0..n -> S] : Runs(f)
  <2>1. PICK f \in [0..n -> S] :
            f[0] = << >> /\ \A k \in 1..n : f[k] = step[<<k, f[k - 1]>>]
    <3>1. << >> \in S /\ n \in Nat /\ RemainsIn(S, n, step)
      BY <1>1, <1>2, Zenon DEF RemainsIn
    <3> HIDE DEF S, step
    <3>2. \E f \in [0..n -> S] : Loop(f, << >>, n, step)
      BY <3>1, Recursion
    <3> QED BY <3>2 DEF Loop
  <2> HIDE DEF S, step
  <2>2. ASSUME NEW k \in 1..n PROVE f[k] = Scheduling(f[k - 1], symbols[k], addr)
    <3>1. k - 1 \in 0..n
      BY <1>1
    <3>2. f[k - 1] \in S
      BY <2>1, <3>1
    <3> QED BY <1>2, <2>1, <3>2, Zenon
  <2> QED BY <2>1, <2>2, Zenon
<1> HIDE DEF S, step
<1>4. \A f \in [0..n -> S] : Runs(f) => Is(f)
  <2>1. \A k \in 0..n : k # 0 => k \in 1..n
    BY <1>1
  <2> QED BY <2>1
<1>5. \A f : Is(f) => Runs(f)
  <2>1. 0 \in 0..n /\ \A k \in 1..n : k \in 0..n /\ k # 0
    BY <1>1
  <2> QED BY <2>1
<1>6. PICK g : Is(g) /\ Scheduled(symbols, addr) = g[n]
  <2>1. Scheduled(symbols, addr) = (CHOOSE g : Is(g))[n]
    BY DEF Scheduled
  <2> HIDE DEF Is, Runs
  <2> QED BY <1>3, <1>4, <2>1, Zenon
<1>7. Runs(g)
  <2> HIDE DEF Is, Runs
  <2> QED BY <1>5, <1>6
<1> DEFINE G == {k \in 0..n : g[k] \in S}
<1>8. 0 \in G
  BY <1>1, <1>7
<1>9. ASSUME NEW k \in 1..n, k - 1 \in G PROVE k \in G
  <2>1. g[k] = step[<<k, g[k - 1]>>] /\ g[k] \in S
    BY <1>2, <1>7, <1>9
  <2>2. k \in 0..n
    BY <1>1
  <2> QED BY <2>1, <2>2
<1>10. \A k \in 0..n : k \in G
  <2> HIDE DEF G, Is, Runs
  <2> QED BY <1>1, <1>8, <1>9, UpTo, Zenon
<1>11. g \in [0..n -> S]
  BY <1>6, <1>10
<1>12. QED BY <1>6, <1>7, <1>11, Zenon DEF S

LEMMA SchedulesBelow ==
    ASSUME WellFormed(Root), NEW symbols \in Seq(Symbols), NEW addr \in Nat, NEW limit \in Nat,
           \A k \in 1..Len(symbols) : symbols[k].defined =>
               (symbols[k].value + symbols[k].size) + addr <= limit
    PROVE  Scheduled(symbols, addr) \in Seq(CopiesBelow(limit))
<1>1. PICK f \in [0..Len(symbols) -> Seq(CopiesBelow(limit))] :
          Scheduled(symbols, addr) = f[Len(symbols)]
  BY ScheduledBy, Zenon
<1>2. Len(symbols) \in 0..Len(symbols)
  OBVIOUS
<1>3. QED BY <1>1, <1>2

LEMMA AdjustedType ==
    ASSUME WellFormed(Root), NEW s \in Symbols, NEW addr \in Nat
    PROVE  Adjusted(s, addr) \in Symbols
<1>1. CopyTarget(s.name) \in Nat /\ s.value + addr \in Nat
  BY CopyTargetIs DEF Symbols
<1>2. CASE ~s.defined
  BY <1>2 DEF Adjusted
<1>3. CASE s.defined
  <2>1. PICK v \in Nat : Adjusted(s, addr) = [s EXCEPT !.value = v]
    BY <1>1, <1>3 DEF Adjusted
  <2> QED BY <2>1 DEF Symbols
<1>4. QED BY <1>2, <1>3

\* lookup_symbol() answers with a symbol of the object, if with one at all.
LEMMA LookupIs ==
    ASSUME NEW i, NEW name, NEW version, Len(nodes[i].symbols) \in Nat
    PROVE  LookupSymbol(i, name, version) \in {Fatal, NotFound} \cup 1..Len(nodes[i].symbols)
<1> DEFINE symbols == nodes[i].symbols
           file == File(i)
           named == {k \in 1..Len(symbols) : /\ symbols[k].name = name
                                             /\ symbols[k].defined /\ symbols[k].value # 0}
           accepted == {k \in named : Accepts(file, symbols[k], version)}
           strong == {k \in accepted : symbols[k].bind = "strong"}
           visited == {k \in named : strong # {} => k <= Min(strong)}
           aside == IF version = NoVersion THEN named \ accepted ELSE {}
           result == LookupSymbol(i, name, version)
           n == Len(nodes[i].symbols)
<1>1. result = IF \E k \in visited : Unknown(file, symbols[k], version) THEN Fatal
               ELSE IF strong # {} THEN Min(strong)
               ELSE IF aside # {} /\ Min(aside) = Max(named) THEN Min(aside)
               ELSE IF accepted # {} THEN Max(accepted)
               ELSE NotFound
  BY DEF LookupSymbol
<1>2. /\ strong \subseteq 1..n /\ aside \subseteq 1..n /\ accepted \subseteq 1..n
      /\ \A T : T \subseteq 1..n => T \subseteq Nat /\ T \subseteq 0..n
  OBVIOUS
<1> HIDE DEF strong, aside, accepted, named, visited, symbols, file, result, n
<1>3. strong # {} => Min(strong) \in 1..n
  BY <1>2, MinOf, Zenon
<1>4. aside # {} => Min(aside) \in 1..n
  BY <1>2, MinOf, Zenon
<1>5. accepted # {} => Max(accepted) \in 1..n
  <2>1. n \in Nat
    BY DEF n
  <2> QED BY <1>2, <2>1, MaxOf, Zenon
<1>6. result \in {Fatal, NotFound} \cup 1..n
  BY <1>1, <1>3, <1>4, <1>5
<1>7. QED BY <1>6 DEF result, n

\* find_symbol() answers with an object of the list and what it found there.
LEMMA FindIs ==
    ASSUME NEW name, NEW version, Len(nodes) \in Nat,
           \A i \in 1..Len(nodes) : Len(nodes[i].symbols) \in Nat,
           NEW found, found = FindSymbol(name, version)
    PROVE  \/ found[2] \in {Fatal, NotFound}
           \/ found[1] \in 1..Len(nodes) /\ found[2] \in 1..Len(nodes[found[1]].symbols)
<1> DEFINE n == Len(nodes)
           result == [i \in 1..n |-> LookupSymbol(i, name, version)]
           hits == {i \in 1..n : result[i] # NotFound}
           stops == {i \in hits : \/ result[i] = Fatal
                                  \/ nodes[i].symbols[result[i]].bind = "strong"}
           i == IF stops # {} THEN Min(stops) ELSE Min(hits)
<1>1. found = IF hits = {} THEN <<0, NotFound>> ELSE <<i, result[i]>>
  BY DEF FindSymbol
<1>2. stops \subseteq hits /\ hits \subseteq 1..n /\ 1..n \subseteq Nat
  OBVIOUS
<1>3. \A j \in 1..n : result[j] \in {Fatal, NotFound} \cup 1..Len(nodes[j].symbols)
  BY LookupIs
<1> HIDE DEF hits, stops, result
<1>4. hits # {} => i \in 1..n
  <2>1. CASE stops # {}
    <3>1. stops \subseteq Nat /\ stops \subseteq 1..n
      BY <1>2
    <3> QED BY <2>1, <3>1, MinOf, Zenon
  <2>2. CASE stops = {} /\ hits # {}
    <3>1. hits \subseteq Nat
      BY <1>2
    <3>2. Min(hits) \in hits
      BY <2>2, <3>1, MinOf, Zenon
    <3> QED BY <1>2, <2>2, <3>2, Zenon
  <2> QED BY <1>2, <2>1, <2>2
<1> HIDE DEF i, n
<1>5. CASE hits = {}
  BY <1>1, <1>5
<1>6. CASE hits # {}
  <2>1. found[1] = i /\ found[2] = result[i] /\ i \in 1..n
    BY <1>1, <1>4, <1>6
  <2>2. result[i] \in {Fatal, NotFound} \cup 1..Len(nodes[i].symbols)
    BY <1>3, <2>1
  <2> QED BY <2>1, <2>2 DEF n
<1>7. QED BY <1>5, <1>6

LEMMA BoundType ==
    ASSUME NEW s \in Symbols, NEW d \in Symbols
    PROVE  Bound(s, d) \in Symbols
BY Zenon DEF Bound, Symbols

\* A patched word is a word: the bit that is lost is the lowest one.
LEMMA PatchType ==
    ASSUME NEW D, NEW m \in [D -> Addr], NEW a, NEW data, a \in D => data \in Int,
           Word % 2 = 0
    PROVE  Patch(m, a, data) \in [D -> Addr]
<1>1. CASE a \notin D
  BY <1>1, Zenon DEF Patch
<1>2. CASE a \in D
  <2>1. Word \in Nat /\ Word > 0 /\ data \in Int
    BY <1>2, MemMapAssumption
  <2>2. (data % Word) - (data % 2) \in Addr
    <3>1. PICK h \in Int : Word = 2 * h
      <4>1. Word = 2 * (Word \div 2) + (Word % 2) /\ Word \div 2 \in Int
        BY <2>1
      <4> QED BY <2>1, <4>1
    <3>2. PICK q \in Int, r \in 0..Word - 1 : data = Word * q + r /\ r = data % Word
      <4>1. data = Word * (data \div Word) + (data % Word) /\ data \div Word \in Int
            /\ data % Word \in 0..Word - 1
        BY <2>1
      <4> QED BY <4>1
    <3>3. PICK b : b = data % 2
      OBVIOUS
    <3>4. b \in 0..1 /\ (r = 0 => b = 0)
      <4>1. b \in 0..1
        BY <2>1, <3>3
      <4>2. ASSUME r = 0 PROVE b = 0
        <5>1. data = Word * q
          <6>1. PICK w \in Int : w = Word * q
            BY <2>1, <3>2
          <6>2. data = w + r
            BY ONLY <3>2, <6>1
          <6> QED BY ONLY <4>2, <6>1, <6>2
        <5>2. (2 * h) * q = 2 * (h * q) /\ h * q \in Int
          BY ONLY <3>1, <3>2
        <5>3. data = 2 * (h * q)
          BY ONLY <3>1, <5>1, <5>2
        <5>4. \A x \in Int : (2 * x) % 2 = 0
          OBVIOUS
        <5> QED BY ONLY <3>3, <5>2, <5>3, <5>4
      <4> QED BY <4>1, <4>2
    <3>5. r - b \in 0..Word - 1
      BY <2>1, <3>2, <3>4
    <3> QED BY ONLY Zenon, <3>2, <3>3, <3>5 DEF Addr
  <2> QED BY <1>2, <2>2 DEF Patch
<1>3. QED BY <1>1, <1>2

\* So is what a file has for the memory.
LEMMA LoadedType ==
    ASSUME NEW D, NEW m \in [D -> Addr], NEW file, NEW addr,
           \A o \in DOMAIN file.data : file.data[o] \in Addr
    PROVE  Loaded(m, file, addr) \in [D -> Addr]
BY DEF Loaded

-----------------------------------------------------------------------------
(* The steps of the linker.                                                *)

LEMMA NodeFacts ==
    ASSUME FilesFit, prog \in Programs, LinksTyped, NEW i \in 1..Len(nodes)
    PROVE  /\ nodes[i] \in LinkNodes /\ nodes[i].addr \in Nat
           /\ nodes[i].file \in FileSet /\ WellFormed(nodes[i].file)
           /\ nodes[i].symbols \in Seq(Symbols) /\ nodes[i].copies \in Seq(Copies)
<1>1. nodes[i] \in LinkNodes
  BY DEF LinksTyped
<1>2. /\ nodes[i].addr \in Nat /\ nodes[i].file \in FileSet
      /\ nodes[i].symbols \in Seq(Symbols) /\ nodes[i].copies \in Seq(Copies)
  BY <1>1 DEF LinkNodes
<1>3. QED BY <1>1, <1>2, RootIs

LEMMA SizeIs ==
    ASSUME ProgramsFit, prog \in Programs, NEW file \in FileSet
    PROVE  file.size \in Nat /\ file.size # 0
BY DEF ProgramsFit, FileSet

\* Behind the loading, the objects stay where they are.
LEMMA StaysLaidOut ==
    ASSUME LaidOut, Len(nodes') = Len(nodes), UNCHANGED <<prog, memsize, brkaddr>>,
           \A i \in 1..Len(nodes) : /\ nodes'[i].addr = nodes[i].addr
                                    /\ nodes'[i].file = nodes[i].file
                                    /\ nodes'[i].soname = nodes[i].soname,
           Len(nodes) \in Nat, stage \notin {"load", "failed"}, stage' # "load"
    PROVE  LaidOut'
<1>1. prog' = prog /\ memsize' = memsize /\ brkaddr' = brkaddr
  OBVIOUS
<1>2. ASSUME NEW i \in 2..Len(nodes)
      PROVE  /\ nodes'[i].addr % PageSize = 0
             /\ i = 2 => nodes'[i].addr >= prog.end
             /\ i > 2 => nodes'[i].addr >= ObjectEnd(nodes'[i - 1])
             /\ ObjectEnd(nodes'[i]) <= memsize
             /\ ObjectEnd(nodes'[i]) <= brkaddr
             /\ \A j \in 2..i - 1 :
                    LibraryName[nodes'[i].soname] # LibraryName[nodes'[j].soname]
  <2>1. i \in 1..Len(nodes) /\ i - 1 \in 1..Len(nodes) /\ \A j \in 2..i - 1 : j \in 1..Len(nodes)
    OBVIOUS
  <2>2. /\ ObjectEnd(nodes'[i]) = ObjectEnd(nodes[i])
        /\ ObjectEnd(nodes'[i - 1]) = ObjectEnd(nodes[i - 1])
        /\ nodes'[i].addr = nodes[i].addr
        /\ nodes'[i].soname = nodes[i].soname
        /\ \A j \in 2..i - 1 : nodes'[j].soname = nodes[j].soname
    BY <2>1 DEF ObjectEnd
  <2>3. /\ nodes[i].addr % PageSize = 0
        /\ i = 2 => nodes[i].addr >= prog.end
        /\ i > 2 => nodes[i].addr >= ObjectEnd(nodes[i - 1])
        /\ ObjectEnd(nodes[i]) <= memsize
        /\ ObjectEnd(nodes[i]) <= brkaddr
        /\ \A j \in 2..i - 1 : LibraryName[nodes[i].soname] # LibraryName[nodes[j].soname]
    BY DEF LaidOut
  <2> QED BY ONLY <2>2, <2>3
<1>3. QED BY <1>1, <1>2 DEF LaidOut, ObjectEnd

\* Steps that work on the memory, or on nothing but the position.
LEMMA PositionMoves ==
    ASSUME LinkInv, UNCHANGED <<nodes, prog, memsize, brkaddr>>,
           mem' \in [0..memsize - 1 -> Addr], stage \notin {"load", "failed"},
           stage' \in Stages \ {"load", "adjust"}, entry' \in Nat \ {0}, weak' \in BOOLEAN,
           prog.dynamic => at' \in 1..Len(nodes),
           ~prog.dynamic => at' = 1 /\ stage' \in {"main", "fini", "done"}
    PROVE  LinkInv'
<1>1. nodes' = nodes /\ prog' = prog /\ memsize' = memsize /\ brkaddr' = brkaddr
  OBVIOUS
<1>2. LinksTyped'
  <2>1. FileSet' = FileSet /\ LinkNodes' = LinkNodes
    BY <1>1 DEF FileSet, LinkNodes
  <2> QED BY <1>1, <2>1 DEF LinkInv, LinksTyped
<1>3. LaidOut'
  <2>1. LaidOut /\ Len(nodes) \in Nat
    BY DEF LinkInv, LinksTyped
  <2> QED BY <1>1, <2>1, StaysLaidOut
<1>4. TablesKept'
  BY <1>1 DEF LinkInv, TablesKept
<1>5. QED BY <1>1, <1>2, <1>3, <1>4 DEF LinkInv

\* Steps that write to the tables of the object they are at.
LEMMA TableWritten ==
    ASSUME FilesFit, prog \in Programs, LinkInv, prog.dynamic,
           NEW s \in Seq(Symbols), NEW c \in Seq(Copies),
           nodes' = [nodes EXCEPT ![at] = [nodes[at] EXCEPT !.symbols = s, !.copies = c]],
           Len(s) = Len(nodes[at].symbols),
           \A k \in 1..Len(c) : c[k].src + c[k].size <= memsize,
           UNCHANGED <<prog, memsize, brkaddr, mem>>, stage \notin {"load", "failed"},
           stage' \in Stages \ {"load"}, entry' \in Nat \ {0}, weak' \in BOOLEAN,
           at' \in 1..Len(nodes), stage' = "adjust" => stage = "adjust" /\ at' > at
    PROVE  LinkInv'
<1> DEFINE n == Len(nodes)
           new == [nodes[at] EXCEPT !.symbols = s, !.copies = c]
<1>1. prog' = prog /\ memsize' = memsize /\ brkaddr' = brkaddr /\ mem' = mem
  OBVIOUS
<1>2. /\ nodes \in Seq(LinkNodes) /\ n \in Nat /\ at \in 1..n /\ nodes[1].addr = 0
      /\ LaidOut /\ TablesKept
  BY DEF LinkInv, LinksTyped
<1>3. nodes[at] \in LinkNodes
  BY <1>2
<1>4. new \in LinkNodes /\ new.addr = nodes[at].addr /\ new.file = nodes[at].file
      /\ new.soname = nodes[at].soname /\ new.symbols = s /\ new.copies = c
  BY <1>3, Zenon DEF LinkNodes
<1>5. nodes' = [nodes EXCEPT ![at] = new]
  OBVIOUS
<1> HIDE DEF new
<1>6. nodes' \in Seq(LinkNodes) /\ Len(nodes') = n /\ nodes'[at] = new
      /\ \A i \in 1..n : i # at => nodes'[i] = nodes[i]
  <2>1. nodes \in Seq(LinkNodes) /\ at \in 1..Len(nodes) /\ new \in LinkNodes
    BY <1>2, <1>4
  <2>2. PICK S : S = LinkNodes
    OBVIOUS
  <2>3. PICK g : g = nodes'
    OBVIOUS
  <2>4. nodes \in Seq(S) /\ new \in S /\ g = [nodes EXCEPT ![at] = new]
    BY ONLY <1>5, <2>1, <2>2, <2>3
  <2>5. /\ g \in Seq(S) /\ Len(g) = Len(nodes) /\ g[at] = new
        /\ \A j \in 1..Len(nodes) : j # at => g[j] = nodes[j]
    BY ONLY <2>1, <2>4, OneReplaced
  <2> QED BY ONLY <2>2, <2>3, <2>5 DEF n
<1>7. LinksTyped'
  <2>1. FileSet' = FileSet /\ LinkNodes' = LinkNodes
    BY <1>1 DEF FileSet, LinkNodes
  <2>2. nodes'[1].addr = 0
    BY <1>2, <1>4, <1>6
  <2> QED BY <1>1, <1>6, <2>1, <2>2 DEF LinksTyped
<1>8. LaidOut'
  <2>1. \A i \in 1..n : /\ nodes'[i].addr = nodes[i].addr /\ nodes'[i].file = nodes[i].file
                        /\ nodes'[i].soname = nodes[i].soname
    BY <1>4, <1>6
  <2> QED BY <1>1, <1>2, <1>6, <2>1, StaysLaidOut
<1>9. TablesKept'
  <2> SUFFICES ASSUME NEW i \in 1..n
               PROVE  /\ Len(nodes'[i].symbols) = Len(nodes'[i].file.symbols)
                      /\ stage' = "adjust" /\ at' <= i =>
                            nodes'[i].symbols = nodes'[i].file.symbols
                      /\ \A k \in 1..Len(nodes'[i].copies) :
                            nodes'[i].copies[k].src + nodes'[i].copies[k].size <= memsize
    BY <1>1, <1>6 DEF TablesKept
  <2>1. /\ Len(nodes[i].symbols) = Len(nodes[i].file.symbols)
        /\ stage = "adjust" /\ at <= i => nodes[i].symbols = nodes[i].file.symbols
        /\ \A k \in 1..Len(nodes[i].copies) :
              nodes[i].copies[k].src + nodes[i].copies[k].size <= memsize
    BY <1>2 DEF TablesKept
  <2>2. CASE i = at
    <3>1. nodes'[i] = new
      BY <1>6, <2>2
    <3>2. stage' = "adjust" => ~(at' <= i)
      BY <1>2, <2>2
    <3> QED BY <1>4, <2>1, <2>2, <3>1, <3>2
  <2>3. CASE i # at
    <3>1. nodes'[i] = nodes[i]
      BY <1>6, <2>3
    <3>2. stage' = "adjust" /\ at' <= i => stage = "adjust" /\ at <= i
      BY <1>2
    <3> QED BY <2>1, <3>1, <3>2
  <2> QED BY <2>2, <2>3
<1>10. QED BY <1>1, <1>7, <1>8, <1>9 DEF LinkInv

\* The position in the list after a turn, and the loop that comes next.
LEMMA AdvanceIs ==
    ASSUME LinksTyped, prog.dynamic, NEW next, Advance(next)
    PROVE  /\ at' \in 1..Len(nodes) /\ entry' \in Nat \ {0} /\ weak' \in BOOLEAN
           /\ (stage' = stage /\ at' > at /\ at < Len(nodes)) \/ (stage' = next /\ at = Len(nodes))
<1>1. at \in 1..Len(nodes) /\ Len(nodes) \in Nat
  BY DEF LinksTyped
<1>2. entry' \in Nat \ {0} /\ weak' \in BOOLEAN
  <2>1. entry' = 1 /\ weak' = FALSE
    BY DEF Advance
  <2>2. entry' \in Nat \ {0}
    BY ONLY <2>1
  <2>3. weak' \in BOOLEAN
    BY ONLY <2>1, Zenon
  <2> QED BY ONLY <2>2, <2>3
<1>3. IF at < Len(nodes) THEN at' = at + 1 /\ stage' = stage ELSE at' = 1 /\ stage' = next
  BY DEF Advance
<1>4. /\ at' \in 1..Len(nodes)
      /\ (stage' = stage /\ at' > at /\ at < Len(nodes)) \/ (stage' = next /\ at = Len(nodes))
  BY ONLY <1>1, <1>3
<1>5. QED BY <1>2, <1>4

LEMMA AdjustKeeps ==
    ASSUME FilesFit, ProgramsFit, prog \in Programs, memsize \in Nat, LinkInv, AdjustSymbols
    PROVE  LinkInv'
<1> DEFINE node == nodes[at]
           s == [k \in 1..Len(node.symbols) |-> Adjusted(node.symbols[k], node.addr)]
           c == Scheduled(node.symbols, node.addr)
           n == Len(nodes)
<1>1. /\ stage = "adjust" /\ Advance("resolve")
      /\ UNCHANGED <<prog, memsize, brkaddr, mem>>
      /\ nodes' = IF node.addr = 0 THEN nodes
                  ELSE [nodes EXCEPT ![at].symbols = s, ![at].copies = c]
  BY DEF AdjustSymbols, Linking, vars
<1>2. LinksTyped /\ LaidOut /\ TablesKept /\ prog.dynamic
  <2>1. LinksTyped /\ LaidOut /\ TablesKept
    BY DEF LinkInv
  <2>2. prog.dynamic \in BOOLEAN
    BY DEF FilesFit
  <2> QED BY <1>1, <2>1, <2>2 DEF LinksTyped
<1>3. nodes \in Seq(LinkNodes) /\ n \in Nat /\ at \in 1..n /\ nodes[1].addr = 0
  BY <1>2 DEF LinksTyped
<1>4. /\ node \in LinkNodes /\ node.addr \in Nat /\ node.file \in FileSet
      /\ WellFormed(node.file)
      /\ node.symbols \in Seq(Symbols) /\ node.copies \in Seq(Copies)
  BY <1>2, <1>3, NodeFacts
<1>5. /\ node.symbols = node.file.symbols /\ Len(node.symbols) = Len(node.file.symbols)
      /\ \A k \in 1..Len(node.copies) : node.copies[k].src + node.copies[k].size <= memsize
  BY <1>1, <1>2, <1>3 DEF TablesKept
<1>6. /\ at' \in 1..n /\ entry' \in Nat \ {0} /\ weak' \in BOOLEAN
      /\ stage' \in Stages \ {"load"} /\ (stage' = "adjust" => at' > at)
  <2>1. /\ at' \in 1..n /\ entry' \in Nat \ {0} /\ weak' \in BOOLEAN
        /\ (stage' = stage /\ at' > at) \/ stage' = "resolve"
    BY <1>1, <1>2, AdvanceIs
  <2> QED BY <1>1, <2>1 DEF Stages
<1> HIDE DEF s, c, node, n
<1>7. CASE node.addr = 0
  <2>1. nodes' = [nodes EXCEPT ![at] = [node EXCEPT !.symbols = node.symbols,
                                                    !.copies = node.copies]]
    <3>1. [node EXCEPT !.symbols = node.symbols, !.copies = node.copies] = node
      BY <1>4, Zenon DEF LinkNodes
    <3>2. [nodes EXCEPT ![at] = node] = nodes
      BY <1>3 DEF node
    <3> QED BY <1>1, <1>7, <3>1, <3>2
  <2> QED BY <1>1, <1>2, <1>4, <1>5, <1>6, <2>1, TableWritten, Zenon DEF node, n
<1>8. CASE node.addr # 0
  <2>1. nodes' = [nodes EXCEPT ![at].symbols = s, ![at].copies = c]
    BY <1>1, <1>8
  <2>2. nodes' = [nodes EXCEPT ![at] = [nodes[at] EXCEPT !.symbols = s, !.copies = c]]
    BY <1>3, <2>1, Zenon
  <2>3. WellFormed(Root)
    BY RootIs
  <2>4. s \in Seq(Symbols) /\ Len(s) = Len(node.symbols)
    <3>1. Len(node.symbols) \in Nat /\ \A k \in 1..Len(node.symbols) : node.symbols[k] \in Symbols
      BY <1>4
    <3>2. \A k \in 1..Len(node.symbols) : Adjusted(node.symbols[k], node.addr) \in Symbols
      BY <1>4, <2>3, <3>1, AdjustedType
    <3> QED BY <3>1, <3>2 DEF s
  <2>5. node.addr + node.file.size <= memsize
    <3>1. at # 1
      BY <1>3, <1>8 DEF node
    <3>2. at \in 2..n
      BY <1>3, <3>1
    <3> QED BY <1>2, <3>2 DEF LaidOut, ObjectEnd, node, n
  <2>6. c \in Seq(CopiesBelow(memsize))
    <3>1. ASSUME NEW k \in 1..Len(node.symbols), node.symbols[k].defined
          PROVE  (node.symbols[k].value + node.symbols[k].size) + node.addr <= memsize
      <4>1. node.symbols[k] \in Symbols
        BY <1>4
      <4>2. node.symbols[k].value \in Nat /\ node.symbols[k].size \in Nat
        BY <4>1 DEF Symbols
      <4>3. node.symbols[k].value + node.symbols[k].size <= node.file.size
        BY <1>4, <1>5, <3>1 DEF WellFormed
      <4>4. node.file.size \in Nat
        BY <1>4, SizeIs
      <4> QED BY <1>4, <2>5, <4>2, <4>3, <4>4
    <3> QED BY <1>4, <2>3, <3>1, SchedulesBelow, Zenon DEF c
  <2>7. c \in Seq(Copies) /\ \A k \in 1..Len(c) : c[k].src + c[k].size <= memsize
    <3>1. Len(c) \in Nat /\ \A k \in 1..Len(c) : c[k] \in CopiesBelow(memsize)
      BY <2>6
    <3>2. \A k \in 1..Len(c) : c[k] \in Copies /\ c[k].src + c[k].size <= memsize
      BY <3>1 DEF CopiesBelow
    <3>3. CopiesBelow(memsize) \subseteq Copies
      BY DEF CopiesBelow
    <3> QED BY <2>6, <3>2, <3>3
  <2> QED BY <1>1, <1>2, <1>6, <2>2, <2>4, <2>7, TableWritten, Zenon DEF node, n
<1>9. QED BY <1>7, <1>8

\* In every loop of the linker there are objects.
LEMMA LinkingFacts ==
    ASSUME FilesFit, prog \in Programs, LinkInv, stage \notin {"main", "fini", "done"}
    PROVE  /\ prog.dynamic /\ LinksTyped /\ LaidOut /\ TablesKept
           /\ nodes \in Seq(LinkNodes) /\ Len(nodes) \in Nat /\ at \in 1..Len(nodes)
           /\ entry \in Nat \ {0} /\ entry + 1 \in Nat \ {0} /\ weak \in BOOLEAN
           /\ mem \in [0..memsize - 1 -> Addr]
<1>1. LinksTyped /\ LaidOut /\ TablesKept /\ mem \in [0..memsize - 1 -> Addr]
  BY DEF LinkInv
<1>2. prog.dynamic \in BOOLEAN
  BY DEF FilesFit
<1>3. prog.dynamic
  BY <1>1, <1>2 DEF LinksTyped
<1>4. /\ nodes \in Seq(LinkNodes) /\ at \in 1..Len(nodes)
      /\ entry \in Nat \ {0} /\ weak \in BOOLEAN
  BY <1>1, <1>3 DEF LinksTyped
<1>5. Len(nodes) \in Nat /\ entry + 1 \in Nat \ {0}
  BY <1>4
<1>6. QED BY <1>1, <1>3, <1>4, <1>5

LEMMA ResolveKeeps ==
    ASSUME FilesFit, prog \in Programs, LinkInv, ResolveSymbol
    PROVE  LinkInv'
<1> DEFINE sym == File(at).relocs[entry].sym
           s == nodes[at].symbols[sym]
           found == FindSymbol(s.name, Version(at, s))
           d == nodes[found[1]].symbols[found[2]]
           table == [nodes[at].symbols EXCEPT ![sym] = Bound(s, d)]
<1>1. /\ stage = "resolve" /\ entry <= Len(File(at).relocs)
      /\ at' = at /\ entry' = entry + 1
      /\ UNCHANGED <<prog, memsize, brkaddr, mem>>
  BY Zenon DEF ResolveSymbol, Linking, vars, Entries
<1>2. /\ prog.dynamic /\ LinksTyped /\ TablesKept /\ nodes \in Seq(LinkNodes)
      /\ Len(nodes) \in Nat /\ at \in 1..Len(nodes)
      /\ entry \in Nat \ {0} /\ entry + 1 \in Nat \ {0} /\ weak \in BOOLEAN
      /\ mem \in [0..memsize - 1 -> Addr]
  BY <1>1, LinkingFacts
<1>3. weak' \in BOOLEAN
  <2>1. CASE sym = 0
    BY <1>2, <2>1 DEF ResolveSymbol
  <2>2. CASE sym # 0
    <3>1. weak' = (weak \/ s.bind = "weak")
      BY <2>2, Zenon DEF ResolveSymbol
    <3> QED BY ONLY <3>1, Zenon
  <2> QED BY <2>1, <2>2
<1>4. CASE nodes' = nodes /\ stage' \in {stage, "failed"}
  <2>1. stage' \in Stages \ {"load", "adjust"}
    BY <1>1, <1>4 DEF Stages
  <2> QED BY <1>1, <1>2, <1>3, <1>4, <2>1, PositionMoves
<1>5. CASE /\ sym # 0 /\ ~s.defined /\ found[2] > 0 /\ stage' = stage
           /\ nodes' = [nodes EXCEPT ![at].symbols[sym] = Bound(s, d)]
  <2>1. \A i \in 1..Len(nodes) : nodes[i].symbols \in Seq(Symbols)
    BY <1>2, NodeFacts
  <2>2. \A i \in 1..Len(nodes) : Len(nodes[i].symbols) \in Nat
    BY <2>1
  <2>3. found[1] \in 1..Len(nodes) /\ found[2] \in 1..Len(nodes[found[1]].symbols)
    <3> HIDE DEF s
    <3>1. \/ found[2] \in {Fatal, NotFound}
          \/ found[1] \in 1..Len(nodes) /\ found[2] \in 1..Len(nodes[found[1]].symbols)
      BY <1>2, <2>2, FindIs
    <3> QED BY <1>5, <3>1 DEF Fatal, NotFound
  <2>4. d \in Symbols
    <3> HIDE DEF found
    <3> QED BY <2>1, <2>3
  <2>5. sym \in 1..Len(nodes[at].symbols)
    <3>1. /\ WellFormed(nodes[at].file) /\ Len(nodes[at].symbols) = Len(nodes[at].file.symbols)
      BY <1>2, NodeFacts DEF TablesKept
    <3>2. entry \in 1..Len(nodes[at].file.relocs)
      <4>1. Len(nodes[at].file.relocs) \in Nat
        BY <3>1 DEF WellFormed
      <4> QED BY <1>1, <1>2, <4>1 DEF File
    <3>3. nodes[at].file.relocs[entry] \in Relocs
      BY <3>1, <3>2 DEF WellFormed
    <3>4. sym \in Nat /\ sym <= Len(nodes[at].file.symbols)
      BY <3>1, <3>2, <3>3, Zenon DEF WellFormed, Relocs, File
    <3>5. Len(nodes[at].symbols) \in Nat
      BY <1>2, <2>2
    <3>6. sym # 0
      BY <1>5, Zenon
    <3> HIDE DEF sym
    <3> QED BY ONLY <3>1, <3>4, <3>5, <3>6
  <2> HIDE DEF d, sym, found
  <2>6. s \in Symbols /\ nodes[at].symbols \in Seq(Symbols)
    BY <1>2, <2>1, <2>5
  <2>7. Bound(s, d) \in Symbols
    BY <2>4, <2>6, BoundType
  <2>8. table \in Seq(Symbols) /\ Len(table) = Len(nodes[at].symbols)
    BY <2>5, <2>6, <2>7, OneReplaced
  <2>9. nodes' = [nodes EXCEPT ![at] = [nodes[at] EXCEPT !.symbols = table,
                                                       !.copies = nodes[at].copies]]
    <3>1. nodes' = [nodes EXCEPT ![at] = [nodes[at] EXCEPT !.symbols = table]]
      BY <1>5
    <3>2. nodes[at] \in LinkNodes
      BY <1>2
    <3> HIDE DEF table
    <3>3. [nodes[at] EXCEPT !.symbols = table]
          = [nodes[at] EXCEPT !.symbols = table, !.copies = nodes[at].copies]
      BY <3>2, Zenon DEF LinkNodes
    <3> QED BY ONLY Zenon, <3>1, <3>3
  <2> HIDE DEF table
  <2>10. /\ nodes[at].copies \in Seq(Copies)
         /\ \A k \in 1..Len(nodes[at].copies) :
               nodes[at].copies[k].src + nodes[at].copies[k].size <= memsize
    BY <1>2, NodeFacts DEF TablesKept
  <2>11. stage' \in Stages \ {"load"} /\ stage' # "adjust"
    BY <1>1, <1>5 DEF Stages
  <2> QED BY <1>1, <1>2, <1>3, <2>8, <2>9, <2>10, <2>11, TableWritten, Zenon
<1>6. (nodes' = nodes /\ stage' \in {stage, "failed"})
      \/ (/\ sym # 0 /\ ~s.defined /\ found[2] > 0 /\ stage' = stage
          /\ nodes' = [nodes EXCEPT ![at].symbols[sym] = Bound(s, d)])
  <2>1. CASE sym = 0
    BY <2>1 DEF ResolveSymbol
  <2>2. CASE sym # 0
    BY <2>2, Zenon DEF ResolveSymbol, Fails
  <2> QED BY <2>1, <2>2, Zenon
<1>7. QED BY <1>4, <1>5, <1>6, Zenon

\* The ends of the loops.
LEMMA NextKeepsLinks ==
    ASSUME FilesFit, prog \in Programs, LinkInv, ResolveNext \/ RelocateNext \/ CopyNext
    PROVE  LinkInv'
<1>1. PICK next \in {"relocate", "copy", "boot"} :
          /\ Advance(next) /\ stage \in {"resolve", "relocate", "copy"}
          /\ UNCHANGED <<nodes, prog, memsize, brkaddr, mem>>
  BY DEF ResolveNext, RelocateNext, CopyNext, Linking, vars
<1>2. prog.dynamic /\ LinksTyped /\ mem \in [0..memsize - 1 -> Addr]
  BY <1>1, LinkingFacts
<1>3. /\ at' \in 1..Len(nodes) /\ entry' \in Nat \ {0} /\ weak' \in BOOLEAN
      /\ (stage' = stage \/ stage' = next)
  BY <1>1, <1>2, AdvanceIs
<1>4. stage' \in Stages \ {"load", "adjust"}
  BY <1>1, <1>3 DEF Stages
<1>5. QED BY <1>1, <1>2, <1>3, <1>4, PositionMoves

LEMMA RelocationKeeps ==
    ASSUME FilesFit, prog \in Programs, LinkInv, ApplyRelocation
    PROVE  LinkInv'
<1> DEFINE r == File(at).relocs[entry]
           location == r.offset + nodes[at].addr
           target == IF r.sym = 0 THEN 0 ELSE nodes[at].symbols[r.sym].value
           D == 0..memsize - 1
<1>1. /\ stage = "relocate" /\ entry <= Len(File(at).relocs)
      /\ at' = at /\ entry' = entry + 1 /\ weak' = weak /\ stage' = stage
      /\ UNCHANGED <<nodes, prog, memsize, brkaddr>>
      /\ mem' = CASE r.type = "copy" -> mem
                  [] r.type = "relative" -> Patch(mem, location, mem[location] + nodes[at].addr)
                  [] r.type = "abs" -> Patch(mem, location, target + r.addend)
                  [] r.type = "rel" -> Patch(mem, location, target + r.addend - location)
  BY DEF ApplyRelocation, Linking, vars, Entries
<1>2. /\ prog.dynamic /\ LinksTyped /\ TablesKept /\ nodes \in Seq(LinkNodes)
      /\ Len(nodes) \in Nat /\ at \in 1..Len(nodes)
      /\ entry \in Nat \ {0} /\ entry + 1 \in Nat \ {0} /\ weak \in BOOLEAN
      /\ mem \in [D -> Addr]
  BY <1>1, LinkingFacts
<1>3. /\ nodes[at].addr \in Nat /\ WellFormed(nodes[at].file)
      /\ nodes[at].symbols \in Seq(Symbols)
      /\ Len(nodes[at].symbols) = Len(nodes[at].file.symbols)
  BY <1>2, NodeFacts DEF TablesKept
<1>4. /\ r \in Relocs /\ r.sym <= Len(nodes[at].symbols)
  <2>1. Len(nodes[at].file.relocs) \in Nat
    BY <1>3 DEF WellFormed
  <2>2. entry <= Len(nodes[at].file.relocs)
    BY <1>1 DEF File
  <2>3. entry \in 1..Len(nodes[at].file.relocs)
    BY ONLY <1>2, <2>1, <2>2
  <2> QED BY <1>3, <2>3 DEF WellFormed, File
<1> HIDE DEF r
<1>5. /\ r.type \in {"copy", "relative", "abs", "rel"} /\ r.sym \in Nat
      /\ location \in Int /\ r.addend \in Int
  BY <1>3, <1>4 DEF Relocs
<1>6. target \in Int
  <2>1. CASE r.sym # 0
    <3>1. r.sym \in 1..Len(nodes[at].symbols)
      BY <1>3, <1>4, <1>5, <2>1
    <3>2. nodes[at].symbols[r.sym] \in Symbols
      BY <1>3, <3>1
    <3> QED BY <2>1, <3>2 DEF Symbols
  <2> QED BY <2>1
<1> HIDE DEF location, target, D
<1>7. Word % 2 = 0
  BY DEF FilesFit
<1>8. mem' \in [D -> Addr]
  <2>1. CASE r.type = "copy"
    BY <1>1, <1>2, <2>1
  <2>2. CASE r.type = "relative"
    <3>1. mem' = Patch(mem, location, mem[location] + nodes[at].addr)
      BY <1>1, <2>2
    <3>2. location \in D => mem[location] + nodes[at].addr \in Int
      <4>1. ASSUME location \in D PROVE mem[location] \in Int
        BY <1>2, <4>1, MemMapAssumption DEF Addr
      <4> QED BY <1>3, <4>1
    <3> QED BY <1>2, <1>7, <3>1, <3>2, PatchType
  <2>3. CASE r.type = "abs"
    <3>1. mem' = Patch(mem, location, target + r.addend) /\ target + r.addend \in Int
      BY <1>1, <1>5, <1>6, <2>3
    <3> QED BY <1>2, <1>7, <3>1, PatchType
  <2>4. CASE r.type = "rel"
    <3>1. mem' = Patch(mem, location, target + r.addend - location)
          /\ target + r.addend - location \in Int
      BY <1>1, <1>5, <1>6, <2>4
    <3> QED BY <1>2, <1>7, <3>1, PatchType
  <2> QED BY <1>5, <2>1, <2>2, <2>3, <2>4
<1>9. stage' \in Stages \ {"load", "adjust"}
  BY <1>1 DEF Stages
<1>10. QED BY <1>1, <1>2, <1>8, <1>9, PositionMoves, Zenon DEF D

\* Copies come from inside the memory.
LEMMA CopyKeeps ==
    ASSUME FilesFit, prog \in Programs, memsize \in Nat, LinkInv, ApplyPendingCopy
    PROVE  LinkInv'
<1> DEFINE c == nodes[at].copies[entry]
           D == 0..memsize - 1
<1>1. /\ stage = "copy" /\ entry <= Len(nodes[at].copies)
      /\ at' = at /\ entry' = entry + 1 /\ weak' = weak /\ stage' = stage
      /\ UNCHANGED <<nodes, prog, memsize, brkaddr>>
      /\ mem' = [a \in DOMAIN mem |->
                    IF a - c.dst \in 0..c.size - 1 THEN mem[a - c.dst + c.src] ELSE mem[a]]
  BY DEF ApplyPendingCopy, Linking, vars, Entries
<1>2. /\ prog.dynamic /\ LinksTyped /\ TablesKept
      /\ Len(nodes) \in Nat /\ at \in 1..Len(nodes)
      /\ entry \in Nat \ {0} /\ entry + 1 \in Nat \ {0} /\ weak \in BOOLEAN
      /\ mem \in [D -> Addr]
  BY <1>1, LinkingFacts
<1>3. c \in Copies /\ c.src + c.size <= memsize
  <2>1. nodes[at].copies \in Seq(Copies)
    BY <1>2, NodeFacts
  <2>2. entry \in 1..Len(nodes[at].copies)
    BY <1>1, <1>2, <2>1
  <2> QED BY <1>2, <2>1, <2>2 DEF TablesKept
<1> HIDE DEF c
<1>4. c.dst \in Nat /\ c.src \in Nat /\ c.size \in Nat
  BY <1>3 DEF Copies
<1>5. mem' \in [D -> Addr]
  <2>1. ASSUME NEW a \in D, a - c.dst \in 0..c.size - 1 PROVE a - c.dst + c.src \in D
    BY <1>3, <1>4, <2>1
  <2> HIDE DEF D
  <2> QED BY <1>1, <1>2, <2>1
<1>6. stage' \in Stages \ {"load", "adjust"}
  BY <1>1 DEF Stages
<1>7. QED BY <1>1, <1>2, <1>5, <1>6, PositionMoves

\* A linked program that runs leaves the objects alone.
LEMMA RunKeepsLinks ==
    ASSUME LinkInv, Boot \/ RtldInit \/ RtldFini \/ SystemCall \/ Exit
    PROVE  LinkInv'
<1>1. /\ UNCHANGED <<nodes, prog, mem, at, entry, weak>>
      /\ stage \in {"boot", "init", "main", "fini"}
  BY DEF Boot, RtldInit, RtldFini, SystemCall, Exit, Running, linkVars
<1>2. memsize' = memsize /\ brkaddr' = brkaddr
  <2>1. CASE Boot \/ RtldInit \/ RtldFini \/ Exit
    BY <2>1 DEF Boot, RtldInit, RtldFini, Exit, vars
  <2>2. CASE SystemCall
    BY <2>2, Zenon DEF SystemCall, Next, Mmap, Munmap, Brk
  <2> QED BY <2>1, <2>2
<1>3. /\ stage' \in {"init", "main", "fini", "done"}
      /\ stage \in {"main", "fini"} => stage' \in {"main", "fini", "done"}
  <2>1. CASE Boot
    BY <2>1 DEF Boot
  <2>2. CASE RtldInit
    BY <2>2 DEF RtldInit
  <2>3. CASE RtldFini
    BY <2>3 DEF RtldFini
  <2>4. CASE SystemCall \/ Exit
    BY <2>4 DEF SystemCall, Exit
  <2> QED BY <2>1, <2>2, <2>3, <2>4
<1>4. LinksTyped /\ mem \in [0..memsize - 1 -> Addr]
  BY DEF LinkInv
<1>5. /\ entry' \in Nat \ {0} /\ weak' \in BOOLEAN
      /\ prog.dynamic => at' \in 1..Len(nodes)
      /\ ~prog.dynamic => at' = 1 /\ stage' \in {"main", "fini", "done"}
  BY <1>1, <1>3, <1>4 DEF LinksTyped
<1>6. stage' \in Stages \ {"load", "adjust"}
  BY <1>3 DEF Stages
<1>7. QED BY <1>1, <1>2, <1>4, <1>5, <1>6, PositionMoves

\* Between two libraries, and when all are loaded.
LEMMA LoadingMoves ==
    ASSUME LinkInv, stage = "load", prog.dynamic,
           UNCHANGED <<nodes, prog, memsize, list, mem>>, at' \in 1..Len(nodes),
           entry' \in Nat \ {0}, weak' \in BOOLEAN, stage' \in {"load", "failed", "adjust"},
           Last(list).addr \in Int, memsize \in Int, brkaddr' \in Int,
           stage' = "adjust" => at' = 1 /\ Last(list).addr <= brkaddr',
           \A i \in 1..Len(nodes) : ObjectEnd(nodes[i]) \in Int
    PROVE  LinkInv'
<1>1. nodes' = nodes /\ prog' = prog /\ memsize' = memsize /\ list' = list /\ mem' = mem
  OBVIOUS
<1>2. LinksTyped /\ LaidOut /\ TablesKept /\ mem \in [0..memsize - 1 -> Addr]
  BY DEF LinkInv
<1>3. LinksTyped'
  <2>1. FileSet' = FileSet /\ LinkNodes' = LinkNodes
    BY <1>1 DEF FileSet, LinkNodes
  <2>2. stage' \in Stages
    BY DEF Stages
  <2> QED BY <1>1, <1>2, <2>1, <2>2, Zenon DEF LinksTyped
<1>4. LaidOut'
  <2>1. \A i \in 2..Len(nodes) : ObjectEnd(nodes[i]) <= Last(list).addr
    BY <1>2, Zenon DEF LaidOut
  <2>2. ASSUME NEW i \in 2..Len(nodes), stage' \notin {"load", "failed"}
        PROVE  ObjectEnd(nodes[i]) <= brkaddr'
    <3>1. Last(list).addr <= brkaddr'
      BY <2>2
    <3>2. i \in 1..Len(nodes)
      OBVIOUS
    <3>3. ObjectEnd(nodes[i]) \in Int
      BY <3>2
    <3> QED BY <2>1, <3>1, <3>3
  <2> QED BY <1>1, <1>2, <2>1, <2>2 DEF LaidOut, ObjectEnd
<1>5. TablesKept'
  <2>1. \A i \in 1..Len(nodes) : nodes[i].symbols = nodes[i].file.symbols
    BY <1>2 DEF TablesKept
  <2> QED BY <1>1, <1>2, <2>1 DEF TablesKept
<1>6. QED BY <1>1, <1>2, <1>3, <1>4, <1>5 DEF LinkInv

\* While the libraries are loaded.
LEMMA LoadingFacts ==
    ASSUME ProgramsFit, FilesFit, LoadInv, LinkInv, stage = "load"
    PROVE  /\ prog \in Programs /\ prog.dynamic /\ LinksTyped /\ LaidOut /\ TablesKept
           /\ nodes \in Seq(LinkNodes) /\ Len(nodes) \in Nat /\ at \in 1..Len(nodes)
           /\ entry \in Nat \ {0} /\ entry + 1 \in Nat \ {0} /\ weak \in BOOLEAN
           /\ mem \in [0..memsize - 1 -> Addr]
           /\ memsize \in Nat /\ memsize % PageSize = 0 /\ memsize + PageSize < Word
           /\ memsize < Word /\ Word \in Nat /\ ListInv
           /\ SuggestFreeRegion \in Nat /\ Last(list).addr \in Nat
           /\ SuggestFreeRegion % PageSize = 0 /\ Last(list).addr <= SuggestFreeRegion
           /\ brkaddr \in Nat
           /\ \A i \in 1..Len(nodes) : ObjectEnd(nodes[i]) \in Nat
<1>1. ListInv /\ prog \in Programs /\ memsize % PageSize = 0 /\ memsize + PageSize < Word
  BY DEF LoadInv, MapInv
<1>2. Word \in Nat /\ memsize \in Nat /\ memsize < Word /\ brkaddr \in Nat
  BY <1>1, MemMapAssumption DEF ListInv
<1>3. /\ prog.dynamic /\ LinksTyped /\ LaidOut /\ TablesKept
      /\ nodes \in Seq(LinkNodes) /\ Len(nodes) \in Nat /\ at \in 1..Len(nodes)
      /\ entry \in Nat \ {0} /\ entry + 1 \in Nat \ {0} /\ weak \in BOOLEAN
      /\ mem \in [0..memsize - 1 -> Addr]
  BY <1>1, LinkingFacts
<1>4. /\ SuggestFreeRegion \in Nat /\ Last(list).addr \in Nat
      /\ SuggestFreeRegion % PageSize = 0 /\ Last(list).addr <= SuggestFreeRegion
  BY <1>1, SuggestedRegion, SuggestedPage
<1>5. ASSUME NEW i \in 1..Len(nodes) PROVE ObjectEnd(nodes[i]) \in Nat
  <2>1. nodes[i].addr \in Nat /\ nodes[i].file \in FileSet
    BY <1>1, <1>3, NodeFacts
  <2>2. nodes[i].file.size \in Nat
    BY <1>1, <2>1, SizeIs
  <2> QED BY <2>1, <2>2 DEF ObjectEnd
<1>6. QED BY <1>1, <1>2, <1>3, <1>4, <1>5

LEMMA NextObjectKeepsLinks ==
    ASSUME ProgramsFit, FilesFit, LoadInv, LinkInv, NextObject
    PROVE  LinkInv'
<1>1. /\ stage = "load" /\ Advance("adjust")
      /\ UNCHANGED <<nodes, prog, memsize, list, mem>>
      /\ brkaddr' = (IF at = Len(nodes) THEN SuggestFreeRegion ELSE brkaddr)
  BY DEF NextObject
<1>2. /\ prog.dynamic /\ LinksTyped /\ SuggestFreeRegion \in Nat /\ brkaddr \in Nat
      /\ Last(list).addr \in Nat /\ Last(list).addr <= SuggestFreeRegion /\ memsize \in Nat
      /\ Len(nodes) \in Nat /\ at \in 1..Len(nodes)
      /\ \A i \in 1..Len(nodes) : ObjectEnd(nodes[i]) \in Nat
  BY <1>1, LoadingFacts
<1>3. /\ at' \in 1..Len(nodes) /\ entry' \in Nat \ {0} /\ weak' \in BOOLEAN
      /\ (stage' = stage /\ at < Len(nodes)) \/ (stage' = "adjust" /\ at = Len(nodes))
  BY <1>1, <1>2, AdvanceIs
<1>4. stage' = "adjust" => at' = 1 /\ Last(list).addr <= brkaddr'
  <2> SUFFICES ASSUME stage' = "adjust" PROVE at' = 1 /\ Last(list).addr <= brkaddr'
    OBVIOUS
  <2>1. at = Len(nodes)
    BY <1>1, <1>3
  <2>2. at' = 1
    BY <1>1, <1>2, <2>1 DEF Advance
  <2>3. brkaddr' = SuggestFreeRegion
    BY <1>1, <2>1
  <2> QED BY <1>2, <2>2, <2>3
<1>5. stage' \in {"load", "failed", "adjust"} /\ brkaddr' \in Int
  BY <1>1, <1>2, <1>3
<1>6. Last(list).addr \in Int /\ memsize \in Int
      /\ \A i \in 1..Len(nodes) : ObjectEnd(nodes[i]) \in Int
  BY <1>2
<1>7. QED BY <1>1, <1>2, <1>3, <1>4, <1>5, <1>6, LoadingMoves

\* A library is loaded behind everything that is there.
LEMMA LibraryLoaded ==
    ASSUME ProgramsFit, FilesFit, LoadInv, LinkInv, stage = "load",
           NEW name \in STRING, LibraryName[name] \in DOMAIN prog.files,
           NEW file, file = prog.files[LibraryName[name]],
           NEW a, a = SuggestFreeRegion, a + file.size <= memsize, ~IsLoaded(name),
           list' = AddRegion(list, a, file.size),
           nodes' = NewNode(LinkNode(name, file, a)), mem' = Loaded(mem, file, a),
           stage' \in {"load", "failed"}, entry' = entry + 1,
           UNCHANGED <<memsize, brkaddr, prog, at, weak>>
    PROVE  LinkInv'
<1> DEFINE n == Len(nodes)
           new == LinkNode(name, file, a)
<1>1. /\ prog \in Programs /\ prog.dynamic /\ LinksTyped /\ LaidOut /\ TablesKept
      /\ nodes \in Seq(LinkNodes) /\ n \in Nat /\ at \in 1..n
      /\ entry + 1 \in Nat \ {0} /\ weak \in BOOLEAN
      /\ mem \in [0..memsize - 1 -> Addr] /\ memsize \in Nat
      /\ memsize < Word /\ Word \in Nat /\ ListInv
      /\ a \in Nat /\ Last(list).addr \in Nat
      /\ a % PageSize = 0 /\ Last(list).addr <= a
      /\ \A i \in 1..n : ObjectEnd(nodes[i]) \in Nat
  BY LoadingFacts
<1>2. file \in FileSet /\ WellFormed(file) /\ file.size \in Nat /\ file.size # 0
  <2>1. file \in FileSet
    BY DEF FileSet
  <2> QED BY <1>1, <2>1, RootIs, SizeIs
<1>3. /\ new = [soname |-> name, file |-> file, addr |-> a,
                symbols |-> file.symbols, copies |-> << >>]
      /\ file.symbols \in Seq(Symbols)
  BY <1>2 DEF LinkNode, WellFormed
<1>4. /\ new \in LinkNodes /\ new.soname = name /\ new.file = file /\ new.addr = a
      /\ new.symbols = file.symbols /\ new.copies = << >> /\ ObjectEnd(new) = a + file.size
  BY <1>1, <1>2, <1>3 DEF LinkNodes, ObjectEnd
<1>5. /\ nodes' = Append(nodes, new)
      /\ prog' = prog /\ memsize' = memsize /\ brkaddr' = brkaddr /\ at' = at /\ weak' = weak
  BY DEF NewNode
<1> HIDE DEF new
<1>6. nodes' \in Seq(LinkNodes) /\ Len(nodes') = n + 1 /\ nodes'[n + 1] = new
      /\ \A i \in 1..n : nodes'[i] = nodes[i]
  BY <1>1, <1>4, <1>5
<1>12. \A i \in 1..n : i \in 1..n + 1
  BY <1>1
<1> HIDE DEF n
<1>7. Last(list').addr = a + file.size
  <2>1. /\ Tidy(list) /\ Len(list) \in 1..Len(list) /\ RoomAt(list, Len(list), a, file.size)
        /\ a \in Addr /\ a + file.size < Word
        /\ \A x \in 1..Len(list) : list[x].addr <= a
    <3>1. memsize % PageSize = 0 /\ memsize + PageSize < Word
      BY DEF LoadInv
    <3>2. /\ Tidy(list) /\ Len(list) \in 1..Len(list) /\ RoomAt(list, Len(list), a, file.size)
          /\ a \in Addr /\ \A x \in 1..Len(list) : list[x].addr <= a
      BY <1>1, <3>1, SuggestedRegion, SuggestedPage DEF ListInv
    <3>3. a + file.size < Word
      BY <1>1, <1>2
    <3> QED BY <3>2, <3>3
  <2>2. PICK size \in Nat, i \in 1..Len(list) :
            /\ size = file.size /\ size # 0 /\ a + size < Word /\ RoomAt(list, i, a, size)
            /\ list' = AddRegion(list, a, size)
    BY <1>2, <2>1
  <2>3. Last(list').addr = a + size
    BY <2>1, <2>2, LastAdded
  <2> QED BY <2>2, <2>3
<1>8. LinksTyped'
  <2>1. FileSet' = FileSet /\ LinkNodes' = LinkNodes
    BY <1>5 DEF FileSet, LinkNodes
  <2>2. nodes'[1].addr = 0 /\ at \in 1..n + 1
    <3>1. 1 \in 1..n /\ at \in 1..n + 1 /\ nodes[1].addr = 0
      BY <1>1 DEF LinksTyped
    <3> QED BY <1>6, <3>1
  <2>3. stage' \in Stages
    BY DEF Stages
  <2>4. nodes' \in Seq(LinkNodes')
    BY <1>6, <2>1
  <2>5. entry' \in Nat \ {0}
    BY <1>1
  <2>6. weak' \in BOOLEAN
    BY <1>1, <1>5, Zenon
  <2> QED BY <1>1, <1>5, <1>6, <2>2, <2>3, <2>4, <2>5, <2>6 DEF LinksTyped
<1>9. LaidOut'
  <2>1. /\ \A i \in 2..n : ObjectEnd(nodes[i]) <= Last(list).addr
        /\ prog.end <= Last(list).addr /\ prog.end \in Nat
    BY <1>1 DEF LaidOut, ProgramsFit, n
  <2>2. \A i \in 2..n : LibraryName[name] # LibraryName[nodes[i].soname]
    BY DEF IsLoaded, SameLibrary, n
  <2>3. \A i \in 2..n : ObjectEnd(nodes[i]) <= a /\ ObjectEnd(nodes[i]) <= a + file.size
    <3> SUFFICES ASSUME NEW i \in 2..n PROVE ObjectEnd(nodes[i]) <= a
                                             /\ ObjectEnd(nodes[i]) <= a + file.size
      OBVIOUS
    <3>1. ObjectEnd(nodes[i]) \in Nat /\ ObjectEnd(nodes[i]) <= Last(list).addr
      BY <1>1, <2>1
    <3> QED BY <1>1, <1>2, <3>1
  <2>4. prog.end <= a /\ prog.end <= a + file.size
    BY <1>1, <1>2, <2>1
  <2>5. ASSUME NEW i \in 2..n + 1
        PROVE  /\ nodes'[i].addr % PageSize = 0
               /\ i = 2 => nodes'[i].addr >= prog.end
               /\ i > 2 => nodes'[i].addr >= ObjectEnd(nodes'[i - 1])
               /\ ObjectEnd(nodes'[i]) <= memsize
               /\ ObjectEnd(nodes'[i]) <= Last(list').addr
               /\ \A j \in 2..i - 1 :
                      LibraryName[nodes'[i].soname] # LibraryName[nodes'[j].soname]
    <3>1. CASE i \in 2..n
      <4>1. /\ nodes'[i] = nodes[i] /\ nodes'[i - 1] = nodes[i - 1]
            /\ \A j \in 2..i - 1 : nodes'[j] = nodes[j]
        <5>1. i \in 1..n /\ i - 1 \in 1..n /\ \A j \in 2..i - 1 : j \in 1..n
          BY <1>1, <3>1
        <5> QED BY ONLY <1>6, <5>1
      <4>2. /\ nodes[i].addr % PageSize = 0
            /\ i = 2 => nodes[i].addr >= prog.end
            /\ i > 2 => nodes[i].addr >= ObjectEnd(nodes[i - 1])
            /\ ObjectEnd(nodes[i]) <= memsize
            /\ \A j \in 2..i - 1 : LibraryName[nodes[i].soname] # LibraryName[nodes[j].soname]
        BY <1>1, <3>1, Zenon DEF LaidOut, n
      <4>3. ObjectEnd(nodes[i]) <= Last(list').addr
        BY <1>7, <2>3, <3>1
      <4> QED BY ONLY <4>1, <4>2, <4>3
    <3>2. CASE i = n + 1
      <4>1. nodes'[i] = new /\ i - 1 = n /\ nodes'[n] = nodes[n]
            /\ \A j \in 2..i - 1 : j \in 2..n /\ nodes'[j] = nodes[j]
        <5>1. i - 1 = n /\ n \in 1..n /\ \A j \in 2..n : j \in 1..n
          BY <1>1, <3>2
        <5> QED BY ONLY <1>6, <3>2, <5>1
      <4>2. i > 2 => a >= ObjectEnd(nodes[n])
        <5>1. ASSUME i > 2 PROVE n \in 2..n
          BY <1>1, <3>2, <5>1
        <5> QED BY <1>1, <2>3, <5>1
      <4>3. /\ new.addr % PageSize = 0 /\ ObjectEnd(new) <= memsize
            /\ ObjectEnd(new) <= Last(list').addr
            /\ i = 2 => new.addr >= prog.end
            /\ i > 2 => new.addr >= ObjectEnd(nodes[n])
        <5>1. /\ new.addr = a /\ ObjectEnd(new) = a + file.size
              /\ a + file.size <= memsize /\ a \in Nat /\ file.size \in Nat
          BY <1>1, <1>2, <1>4
        <5> QED BY ONLY <1>1, <1>7, <2>4, <4>2, <5>1
      <4>4. \A j \in 2..i - 1 : LibraryName[new.soname] # LibraryName[nodes'[j].soname]
        <5>1. new.soname = name
          BY <1>4
        <5> QED BY ONLY <2>2, <4>1, <5>1
      <4> QED BY ONLY <4>1, <4>3, <4>4
    <3>3. i \in 2..n \/ i = n + 1
      BY <1>1
    <3> QED BY ONLY <3>1, <3>2, <3>3
  <2>6. prog.end <= Last(list').addr
    BY <1>7, <2>4
  <2> QED BY <1>5, <1>6, <2>5, <2>6, Zenon DEF LaidOut, ObjectEnd
<1>10. TablesKept'
  <2> SUFFICES ASSUME NEW i \in 1..n + 1
               PROVE  /\ nodes'[i].symbols = nodes'[i].file.symbols
                      /\ \A k \in 1..Len(nodes'[i].copies) :
                            nodes'[i].copies[k].src + nodes'[i].copies[k].size <= memsize
    BY <1>5, <1>6 DEF TablesKept
  <2>1. CASE i \in 1..n
    <3>1. /\ nodes[i].symbols = nodes[i].file.symbols
          /\ \A k \in 1..Len(nodes[i].copies) :
                nodes[i].copies[k].src + nodes[i].copies[k].size <= memsize
      BY <1>1, <2>1 DEF TablesKept, n
    <3> QED BY ONLY <1>6, <2>1, <3>1
  <2>2. CASE i = n + 1
    <3>1. /\ new.symbols = file.symbols /\ new.file = file /\ new.copies = << >>
      BY <1>4
    <3>2. PICK node : node = nodes'[i]
      OBVIOUS
    <3>3. node = new
      BY ONLY <1>6, <2>2, <3>2
    <3>4. node.symbols = node.file.symbols /\ Len(node.copies) = 0
      BY ONLY <3>1, <3>3
    <3>5. \A k \in 1..Len(node.copies) : node.copies[k].src + node.copies[k].size <= memsize
      BY ONLY <3>4
    <3> QED BY ONLY <3>2, <3>4, <3>5
  <2>3. i \in 1..n \/ i = n + 1
    BY <1>1
  <2> QED BY ONLY <2>1, <2>2, <2>3
<1>11. mem' \in [0..memsize - 1 -> Addr]
  BY <1>1, <1>2, LoadedType, Zenon DEF WellFormed
<1> QED BY <1>5, <1>8, <1>9, <1>10, <1>11 DEF LinkInv

\* The list ends behind the program.
LEMMA ProgramLast ==
    ASSUME NEW start \in Nat, NEW end \in Nat, end # 0, NEW m \in 1..Word - 1, start + end <= m,
           NEW u, u = Initiated(start, end)
    PROVE  end <= Last(u).addr
<1> DEFINE s == <<Free(0)>>
<1>1. Word \in Nat /\ m \in Nat /\ 0 \in Addr /\ start \in Addr /\ start + end < Word
  BY MemMapAssumption DEF Addr
<1>2. Free(0) \in NodeSet /\ Free(0).addr = 0 /\ ~IsUsed(Free(0))
  BY <1>1 DEF Free, Node, NodeSet, IsUsed
<1>3. s \in Seq(NodeSet) /\ Len(s) = 1 /\ s[1] = Free(0)
  BY <1>2
<1>4. u = AddRegion(s, start, end)
  BY DEF Initiated
<1> HIDE DEF s
<1>5. Climbs(s) /\ Apart(s) /\ Ascends(s)
  BY <1>3 DEF Climbs, Apart, Ascends
<1>6. Tidy(s)
  BY <1>2, <1>3, <1>5 DEF Tidy
<1>7. 1 \in 1..Len(s) /\ RoomAt(s, 1, start, end)
  BY <1>2, <1>3 DEF RoomAt
<1>8. \A x \in 1..Len(s) : s[x].addr <= start
  BY <1>2, <1>3
<1>9. Last(u).addr = start + end
  <2>1. 1 \in 1..Len(s) /\ RoomAt(s, 1, start, end) /\ start \in Addr /\ start + end < Word
    BY <1>1, <1>7
  <2> QED BY <1>4, <1>6, <1>8, <2>1, LastAdded
<1>10. QED BY <1>9

LEMMA LoadNeededKeepsLinks ==
    ASSUME ProgramsFit, FilesFit, LoadInv, LinkInv, LoadNeeded
    PROVE  LinkInv'
<1> DEFINE name == File(at).needed[entry]
           file == prog.files[LibraryName[name]]
           a == SuggestFreeRegion
<1>1. /\ stage = "load" /\ entry <= Len(File(at).needed) /\ entry' = entry + 1
      /\ UNCHANGED <<memsize, brkaddr, prog, at, weak>>
      /\ \/ UNCHANGED <<stage, list, nodes, mem>>
         \/ stage' = "failed" /\ UNCHANGED <<list, nodes, mem>>
         \/ /\ ~IsLoaded(name)
            /\ LibraryName[name] \in DOMAIN prog.files /\ a + file.size <= memsize
            /\ list' = AddRegion(list, a, file.size)
            /\ nodes' = NewNode(LinkNode(name, file, a))
            /\ mem' = Loaded(mem, file, a)
            /\ stage' \in {"load", "failed"}
  <2>1. /\ stage = "load" /\ entry <= Len(File(at).needed) /\ entry' = entry + 1
        /\ UNCHANGED <<memsize, brkaddr, prog, at, weak>>
    BY DEF LoadNeeded, Entries
  <2>2. \/ UNCHANGED <<stage, list, nodes, mem>>
        \/ stage' = "failed" /\ UNCHANGED <<list, nodes, mem>>
        \/ /\ ~IsLoaded(name)
           /\ LibraryName[name] \in DOMAIN prog.files /\ a + file.size <= memsize
           /\ list' = AddRegion(list, a, file.size)
           /\ nodes' = NewNode(LinkNode(name, file, a))
           /\ mem' = Loaded(mem, file, a)
           /\ stage' = IF IsOld(File(at), name, file) THEN "failed" ELSE stage
    BY Zenon DEF LoadNeeded, Fails
  <2> QED BY <2>1, <2>2
<1>2. /\ prog \in Programs /\ prog.dynamic /\ nodes \in Seq(LinkNodes)
      /\ at \in 1..Len(nodes) /\ entry \in Nat \ {0} /\ entry' \in Nat \ {0}
      /\ weak' \in BOOLEAN /\ brkaddr' \in Int /\ memsize \in Int /\ Last(list).addr \in Int
      /\ \A i \in 1..Len(nodes) : ObjectEnd(nodes[i]) \in Int
  <2>1. /\ prog \in Programs /\ prog.dynamic /\ nodes \in Seq(LinkNodes)
        /\ at \in 1..Len(nodes) /\ entry \in Nat \ {0} /\ entry + 1 \in Nat \ {0}
        /\ weak \in BOOLEAN /\ brkaddr \in Nat /\ memsize \in Nat /\ Last(list).addr \in Nat
        /\ \A i \in 1..Len(nodes) : ObjectEnd(nodes[i]) \in Nat
    BY <1>1, LoadingFacts, Zenon
  <2>2. weak' \in BOOLEAN
    BY <1>1, <2>1, Zenon
  <2> QED BY <1>1, <2>1, <2>2
<1>3. name \in STRING
  <2>1. nodes[at].file \in FileSet
    BY <1>2, NodeFacts DEF LinkInv
  <2>2. WellFormed(nodes[at].file)
    BY <1>2, <2>1, RootIs
  <2>3. File(at).needed \in Seq(STRING)
    BY <2>2 DEF WellFormed, File
  <2> QED BY <1>1, <1>2, <2>3
<1> HIDE DEF name, file, a
<1>4. CASE UNCHANGED <<list, nodes, mem>> /\ stage' \in {"load", "failed"}
  <2>1. UNCHANGED <<nodes, prog, memsize, list, mem>> /\ at' \in 1..Len(nodes)
        /\ stage' \in {"load", "failed", "adjust"} /\ stage' # "adjust"
    BY <1>1, <1>2, <1>4
  <2> QED BY <1>1, <1>2, <2>1, LoadingMoves
<1>5. CASE /\ ~IsLoaded(name)
           /\ LibraryName[name] \in DOMAIN prog.files /\ a + file.size <= memsize
           /\ list' = AddRegion(list, a, file.size)
           /\ nodes' = NewNode(LinkNode(name, file, a))
           /\ mem' = Loaded(mem, file, a)
           /\ stage' \in {"load", "failed"}
  <2>1. file = prog.files[LibraryName[name]] /\ a = SuggestFreeRegion
    BY DEF file, a
  <2> QED BY <1>1, <1>3, <1>5, <2>1, LibraryLoaded
<1>6. QED BY <1>1, <1>4, <1>5

LEMMA LoaderNextKeepsLinks ==
    ASSUME ProgramsFit, FilesFit, LoadInv, LinkInv, LoaderNext
    PROVE  LinkInv'
<1>1. prog \in Programs /\ memsize \in Nat
  BY MemMapAssumption DEF LoadInv, MapInv, ListInv
<1>2. CASE LoadNeeded
  BY <1>2, LoadNeededKeepsLinks
<1>3. CASE NextObject
  BY <1>3, NextObjectKeepsLinks
<1>4. CASE AdjustSymbols
  BY <1>1, <1>4, AdjustKeeps
<1>5. CASE ResolveSymbol
  BY <1>1, <1>5, ResolveKeeps
<1>6. CASE ResolveNext \/ RelocateNext \/ CopyNext
  BY <1>1, <1>6, NextKeepsLinks
<1>7. CASE ApplyRelocation
  BY <1>1, <1>7, RelocationKeeps
<1>8. CASE ApplyPendingCopy
  BY <1>1, <1>8, CopyKeeps
<1>9. CASE Boot \/ RtldInit \/ RtldFini \/ SystemCall \/ Exit
  BY <1>9, RunKeepsLinks
<1>10. QED BY <1>2, <1>3, <1>4, <1>5, <1>6, <1>7, <1>8, <1>9 DEF LoaderNext

LEMMA LinksStart ==
    ASSUME ProgramsFit, FilesFit, LoaderInit
    PROVE  LinkInv
<1>1. /\ prog \in Programs /\ list = Initiated(prog.entry, prog.end)
      /\ memsize = prog.memsize /\ brkaddr = prog.end
      /\ stage = (IF prog.dynamic THEN "load" ELSE "main")
      /\ at = 1 /\ entry = 1 /\ weak = FALSE
      /\ nodes = (IF prog.dynamic THEN <<LinkNode("root", Root, 0)>> ELSE << >>)
      /\ mem = Loaded([x \in 0..prog.memsize - 1 |-> 0], Root, 0)
  BY DEF LoaderInit
<1>2. WellFormed(Root) /\ Root \in FileSet /\ prog.dynamic \in BOOLEAN
  BY <1>1, RootIs DEF FilesFit
<1>3. mem \in [0..memsize - 1 -> Addr]
  <2> DEFINE m == [x \in 0..prog.memsize - 1 |-> 0]
  <2>1. m \in [0..memsize - 1 -> Addr]
    BY <1>1, MemMapAssumption DEF Addr
  <2> HIDE DEF m
  <2>2. mem = Loaded(m, Root, 0)
    BY <1>1 DEF m
  <2> QED BY <1>2, <2>1, <2>2, LoadedType, Zenon DEF WellFormed
<1>4. stage \in Stages /\ entry \in Nat \ {0} /\ weak \in BOOLEAN
  <2>1. stage \in Stages
    BY ONLY <1>1 DEF Stages
  <2>2. weak \in BOOLEAN
    BY <1>1, Zenon
  <2>3. entry \in Nat \ {0}
    BY ONLY <1>1
  <2> QED BY <2>1, <2>2, <2>3
<1>5. CASE ~prog.dynamic
  <2>1. nodes = << >> /\ stage = "main"
    BY <1>1, <1>5
  <2>2. nodes \in Seq(LinkNodes) /\ Len(nodes) = 0
    BY <2>1
  <2>3. LinksTyped
    BY <1>1, <1>4, <1>5, <2>1, <2>2 DEF LinksTyped
  <2>4. LaidOut /\ TablesKept
    BY <2>1, <2>2 DEF LaidOut, TablesKept
  <2> QED BY <1>3, <2>3, <2>4 DEF LinkInv
<1>6. CASE prog.dynamic
  <2> DEFINE new == LinkNode("root", Root, 0)
  <2>1. /\ new = [soname |-> "root", file |-> Root, addr |-> 0,
                  symbols |-> Root.symbols, copies |-> << >>]
        /\ Root.symbols \in Seq(Symbols)
    BY <1>2 DEF LinkNode, WellFormed
  <2>2. /\ new \in LinkNodes /\ new.addr = 0 /\ new.symbols = new.file.symbols
        /\ Len(new.copies) = 0
    <3>1. << >> \in Seq(Copies) /\ Len(<< >>) = 0
      OBVIOUS
    <3>2. PICK name \in STRING : name = "root"
      <4>1. "root" \in DOMAIN prog.files /\ DOMAIN prog.files \subseteq STRING
        BY <1>1 DEF FilesFit
      <4> QED BY ONLY <4>1
    <3>3. PICK copies \in Seq(Copies) : copies = << >>
      BY <3>1, Zenon
    <3>4. new = [soname |-> name, file |-> Root, addr |-> 0,
                 symbols |-> Root.symbols, copies |-> copies]
      BY ONLY <2>1, <3>2, <3>3
    <3> HIDE DEF new
    <3>5. new \in LinkNodes
      BY ONLY <1>2, <2>1, <3>4 DEF LinkNodes
    <3>6. new.addr = 0 /\ new.symbols = new.file.symbols /\ new.copies = copies
      BY ONLY <3>4
    <3> QED BY ONLY <3>1, <3>3, <3>5, <3>6
  <2>3. nodes = <<new>> /\ stage = "load"
    BY <1>1, <1>6
  <2> HIDE DEF new
  <2>4. nodes \in Seq(LinkNodes) /\ Len(nodes) = 1 /\ nodes[1] = new
    BY <2>2, <2>3
  <2>5. LinksTyped
    <3>1. at \in 1..Len(nodes) /\ nodes[1].addr = 0
      BY <1>1, <2>2, <2>4
    <3> QED BY <1>4, <1>6, <2>4, <3>1 DEF LinksTyped
  <2>6. prog.end <= Last(list).addr
    BY <1>1, ProgramLast DEF ProgramsFit
  <2>7. LaidOut
    <3>1. 2..Len(nodes) = {}
      BY <2>4
    <3> QED BY ONLY <2>6, <3>1 DEF LaidOut
  <2>8. TablesKept
    <3> SUFFICES ASSUME NEW i \in 1..Len(nodes)
                 PROVE  /\ nodes[i].symbols = nodes[i].file.symbols
                        /\ Len(nodes[i].copies) = 0
      BY DEF TablesKept
    <3>1. i = 1
      BY <2>4
    <3> QED BY <2>2, <2>4, <3>1
  <2> QED BY <1>3, <2>5, <2>7, <2>8 DEF LinkInv
<1>7. QED BY <1>2, <1>5, <1>6

LEMMA LinksStep ==
    ASSUME ProgramsFit, FilesFit, LoadInv, LinkInv, [LoaderNext]_allVars
    PROVE  LinkInv'
<1>1. CASE LoaderNext
  BY <1>1, LoaderNextKeepsLinks
<1>2. CASE UNCHANGED allVars
  <2>1. UNCHANGED <<list, memsize, brkaddr, prog, stage, at, entry, weak, nodes, mem>>
    BY <1>2 DEF allVars, vars, linkVars
  <2> QED BY <2>1 DEF LinkInv, LinksTyped, LaidOut, TablesKept, LinkNodes, FileSet, ObjectEnd
<1>3. QED BY <1>1, <1>2

LEMMA InvLoaderTypeOK ==
    ASSUME ProgramsFit, FilesFit, LoadInv, LinkInv
    PROVE  LoaderTypeOK
<1>1. /\ LinksTyped /\ LaidOut /\ mem \in [0..memsize - 1 -> Addr]
      /\ prog \in Programs /\ prog.dynamic \in BOOLEAN
  BY DEF LinkInv, LoadInv, FilesFit
<1>2. nodes \in Seq(LinkNodes) /\ stage \in Stages /\ entry \in Nat \ {0} /\ weak \in BOOLEAN
  BY <1>1 DEF LinksTyped
<1>3. at \in 1..Max({1, Len(nodes)})
  <2> DEFINE T == {1, Len(nodes)}
  <2>1. /\ at \in 1..Len(nodes) \/ at = 1
        /\ Len(nodes) \in Nat
    BY <1>1, <1>2 DEF LinksTyped
  <2>2. 1 <= Max(T) /\ Len(nodes) <= Max(T) /\ Max(T) \in Nat
    BY <2>1, MaxOfTwo
  <2> HIDE DEF T
  <2> QED BY <2>1, <2>2 DEF T
<1>4. ASSUME NEW i \in 2..Len(nodes)
      PROVE  /\ nodes[i].addr % PageSize = 0
             /\ nodes[i].addr >= IF i = 2 THEN prog.end
                                 ELSE nodes[i - 1].addr + File(i - 1).size
             /\ nodes[i].addr + File(i).size <= memsize
             /\ Linked => nodes[i].addr + File(i).size <= brkaddr
             /\ \A j \in 2..i - 1 :
                    LibraryName[nodes[i].soname] # LibraryName[nodes[j].soname]
  <2>1. /\ nodes[i].addr % PageSize = 0
        /\ i = 2 => nodes[i].addr >= prog.end
        /\ i > 2 => nodes[i].addr >= ObjectEnd(nodes[i - 1])
        /\ ObjectEnd(nodes[i]) <= memsize
        /\ stage \notin {"load", "failed"} => ObjectEnd(nodes[i]) <= brkaddr
        /\ \A j \in 2..i - 1 : LibraryName[nodes[i].soname] # LibraryName[nodes[j].soname]
    BY <1>1 DEF LaidOut
  <2>2. ObjectEnd(nodes[i]) = nodes[i].addr + File(i).size
        /\ ObjectEnd(nodes[i - 1]) = nodes[i - 1].addr + File(i - 1).size
    BY DEF ObjectEnd, File
  <2>3. Linked => stage \notin {"load", "failed"}
    BY DEF Linked
  <2>4. i = 2 \/ i > 2
    BY <1>2
  <2> QED BY ONLY <2>1, <2>2, <2>3, <2>4
<1>5. QED BY <1>1, <1>2, <1>3, <1>4 DEF LoaderTypeOK, Stages

\* The objects a program is linked from (ac_rtld) lie one behind the other on
\* pages of their own, inside the memory and below the heap, and none is loaded
\* twice; the words of the memory and the linker's own state keep their types.
THEOREM LoaderTyped ==
    ProgramsFit /\ FilesFit => (LoaderSpec => []LoaderTypeOK)
<1> SUFFICES ASSUME ProgramsFit, FilesFit PROVE LoaderSpec => []LoaderTypeOK
  OBVIOUS
<1>1. LoaderInit => LoadInv /\ LinkInv
  BY LoadStarts, LinksStart
<1>2. LoadInv /\ LinkInv /\ [LoaderNext]_allVars => LoadInv' /\ LinkInv'
  BY LoadStep, LinksStep
<1>3. LoadInv /\ LinkInv => LoaderTypeOK
  BY InvLoaderTypeOK
<1>4. QED BY <1>1, <1>2, <1>3, PTL DEF LoaderSpec

-----------------------------------------------------------------------------
(* Sequences put one behind the other.                                     *)

\* FlattenSeq joins one sequence after the other.
LEMMA FlattenIs ==
    ASSUME NEW A, NEW n \in Nat, NEW g \in [1..n -> Seq(A)]
    PROVE  \E f \in [0..n -> Seq(A)] :
              /\ f[0] = << >> /\ \A k \in 1..n : f[k] = f[k - 1] \o g[k]
              /\ FlattenSeq(g) = f[n]
<1> DEFINE S == Seq(A)
           step == [p \in (1..n) \X S |-> p[2] \o g[p[1]]]
           Is(f) == f = [i \in 1..n |-> IF i = 1 THEN g[i] ELSE f[i - 1] \o g[i]]
<1>1. << >> \in S /\ (\A k \in 1..n : g[k] \in S) /\ Len(g) = n
  <2>1. g \in Seq(S)
    OBVIOUS
  <2> QED BY <2>1
<1>2. \A k \in 1..n : \A x \in S : step[<<k, x>>] = x \o g[k] /\ step[<<k, x>>] \in S
  <2>1. \A k \in 1..n : \A x \in S : step[<<k, x>>] = x \o g[k]
    <3> HIDE DEF S
    <3> QED BY Zenon
  <2>2. \A k \in 1..n : \A x \in S : x \o g[k] \in S
    BY <1>1
  <2> HIDE DEF step, S
  <2> QED BY <2>1, <2>2, Zenon
<1>3. PICK f \in [0..n -> S] : f[0] = << >> /\ \A k \in 1..n : f[k] = step[<<k, f[k - 1]>>]
  <2>1. << >> \in S /\ n \in Nat /\ RemainsIn(S, n, step)
    BY <1>1, <1>2, Zenon DEF RemainsIn
  <2> HIDE DEF S, step
  <2>2. \E f \in [0..n -> S] : Loop(f, << >>, n, step)
    BY <2>1, Recursion
  <2> QED BY <2>2, Zenon DEF Loop
<1>4. \A k \in 1..n : f[k] = f[k - 1] \o g[k]
  <2> SUFFICES ASSUME NEW k \in 1..n PROVE f[k] = f[k - 1] \o g[k]
    BY Zenon
  <2>1. k - 1 \in 0..n
    OBVIOUS
  <2> HIDE DEF S, step
  <2>2. f[k - 1] \in S
    BY <2>1
  <2> QED BY <1>2, <1>3, <2>2, Zenon
<1> HIDE DEF step
<1>5. CASE n = 0
  <2>1. FlattenSeq(g) = g /\ g = << >>
    BY <1>1, <1>5 DEF FlattenSeq
  <2> QED BY <1>3, <1>4, <1>5, <2>1
<1>6. CASE n # 0
  <2> DEFINE h == [i \in 1..n |-> f[i]]
  <2>1. \A i \in 1..n : i # 1 => i - 1 \in 1..n
    OBVIOUS
  <2>2. \A i \in 1..n : h[i] = f[i]
    OBVIOUS
  <2>3. f[1] = g[1]
    <3>1. 1 \in 1..n
      BY <1>6
    <3>2. g[1] \in Seq(A) /\ f[1] = << >> \o g[1]
      <4>1. f[1] = f[1 - 1] \o g[1] /\ 1 - 1 = 0
        BY <1>4, <3>1
      <4> QED BY <1>3, <3>1, <4>1, Zenon
    <3> QED BY ONLY <3>2
  <2>4. Is(h)
    <3>1. \A i \in 1..n : f[i] = IF i = 1 THEN g[i] ELSE h[i - 1] \o g[i]
      BY <1>4, <2>1, <2>2, <2>3, Zenon
    <3> QED BY <3>1
  <2> HIDE DEF h
  <2>5. PICK e : Is(e) /\ FlattenSeq(g) = e[n]
    <3>1. FlattenSeq(g) = (CHOOSE e : Is(e))[n]
      BY <1>1, <1>6 DEF FlattenSeq
    <3> HIDE DEF Is
    <3> QED BY <2>4, <3>1, Zenon
  <2>6. \A i \in 1..n : e[i] = IF i = 1 THEN g[i] ELSE e[i - 1] \o g[i]
    BY <2>5, Zenon
  <2> HIDE DEF Is, S
  <2> DEFINE G == {k \in 0..n : k = 0 \/ e[k] = f[k]}
  <2>7. 0 \in G
    OBVIOUS
  <2>8. ASSUME NEW k \in 1..n, k - 1 \in G PROVE k \in G
    <3>1. k \in 0..n /\ (k = 1 \/ k - 1 \in 1..n) /\ k # 0
      OBVIOUS
    <3>2. k # 1 => e[k - 1] = f[k - 1]
      BY <2>8, <3>1
    <3>3. e[k] = f[k]
      BY <1>4, <2>3, <2>6, <3>2, Zenon
    <3> QED BY <3>1, <3>3
  <2>9. \A k \in 0..n : k \in G
    <3> HIDE DEF G
    <3> QED BY <2>7, <2>8, UpTo, Zenon
  <2>10. e[n] = f[n]
    BY <1>6, <2>9
  <2> QED BY <1>3, <1>4, <2>5, <2>10, Zenon DEF S
<1>7. QED BY <1>5, <1>6, Zenon

LEMMA FlattenExtends ==
    ASSUME NEW A, NEW n \in Nat, NEW g \in [1..n -> Seq(A)], NEW h \in [1..n + 1 -> Seq(A)],
           \A i \in 1..n : h[i] = g[i]
    PROVE  FlattenSeq(h) = FlattenSeq(g) \o h[n + 1] /\ FlattenSeq(g) \in Seq(A)
<1>1. PICK f \in [0..n -> Seq(A)] :
              /\ f[0] = << >> /\ \A k \in 1..n : f[k] = f[k - 1] \o g[k]
              /\ FlattenSeq(g) = f[n]
  BY FlattenIs, Zenon
<1>2. PICK e \in [0..n + 1 -> Seq(A)] :
              /\ e[0] = << >> /\ \A k \in 1..n + 1 : e[k] = e[k - 1] \o h[k]
              /\ FlattenSeq(h) = e[n + 1]
  <2>1. PICK m \in Nat : m = n + 1
    OBVIOUS
  <2>2. h \in [1..m -> Seq(A)]
    BY <2>1
  <2>3. \E e \in [0..m -> Seq(A)] :
              /\ e[0] = << >> /\ \A k \in 1..m : e[k] = e[k - 1] \o h[k]
              /\ FlattenSeq(h) = e[m]
    BY ONLY <2>2, FlattenIs
  <2> QED BY ONLY Zenon, <2>1, <2>3
<1> DEFINE G == {k \in 0..n : e[k] = f[k]}
<1>3. 0 \in G
  BY <1>1, <1>2
<1>4. ASSUME NEW k \in 1..n, k - 1 \in G PROVE k \in G
  <2>1. k \in 0..n /\ k \in 1..n + 1
    OBVIOUS
  <2>2. e[k] = f[k]
    BY <1>1, <1>2, <1>4, <2>1, Zenon
  <2> QED BY <2>1, <2>2
<1>5. \A k \in 0..n : k \in G
  <2> HIDE DEF G
  <2> QED BY <1>3, <1>4, UpTo, Zenon
<1>6. e[n] = f[n] /\ f[n] \in Seq(A)
  BY <1>1, <1>5
<1>7. n + 1 \in 1..n + 1 /\ (n + 1) - 1 = n
  OBVIOUS
<1>8. QED BY <1>1, <1>2, <1>6, <1>7, Zenon

LEMMA FlattenType ==
    ASSUME NEW A, NEW n \in Nat, NEW g \in [1..n -> Seq(A)]
    PROVE  FlattenSeq(g) \in Seq(A)
<1>1. PICK f \in [0..n -> Seq(A)] :
              /\ f[0] = << >> /\ \A k \in 1..n : f[k] = f[k - 1] \o g[k]
              /\ FlattenSeq(g) = f[n]
  BY FlattenIs, Zenon
<1>2. n \in 0..n
  OBVIOUS
<1>3. QED BY <1>1, <1>2

-----------------------------------------------------------------------------
(* What a step leaves of the queue and the vectors.                        *)

\* The tables of the objects change, their places do not.
SameObjects ==
    /\ prog' = prog /\ Len(nodes') = Len(nodes)
    /\ \A i \in 1..Len(nodes) : /\ nodes'[i].soname = nodes[i].soname
                                /\ nodes'[i].file = nodes[i].file
                                /\ nodes'[i].addr = nodes[i].addr

LEMMA AddressesType ==
    ASSUME NEW offsets \in Seq(Nat), NEW addr \in Nat
    PROVE  Addresses(offsets, addr) \in Seq(Nat)
<1>1. \A k \in 1..Len(offsets) : offsets[k] + addr \in Nat
  OBVIOUS
<1>2. QED BY <1>1 DEF Addresses

LEMMA FunctionsType ==
    ASSUME FilesFit, prog \in Programs, LinksTyped, NEW i \in 1..Len(nodes)
    PROVE  /\ Functions(i, File(i).inits) \in Seq(Nat)
           /\ Functions(i, File(i).finis) \in Seq(Nat)
<1>1. /\ nodes[i].addr \in Nat /\ nodes[i].file.inits \in Seq(Nat)
      /\ nodes[i].file.finis \in Seq(Nat)
  BY NodeFacts DEF WellFormed
<1>2. /\ Addresses(nodes[i].file.inits, nodes[i].addr) \in Seq(Nat)
      /\ Addresses(nodes[i].file.finis, nodes[i].addr) \in Seq(Nat)
  BY <1>1, AddressesType, Zenon
<1>3. << >> \in Seq(Nat)
  OBVIOUS
<1>4. QED BY ONLY <1>2, <1>3 DEF Functions, File

LEMMA VectorsType ==
    ASSUME FilesFit, prog \in Programs, LinksTyped
    PROVE  Initialisers \in Seq(Nat) /\ Finalisers \in Seq(Nat)
<1> DEFINE g == [i \in Objects |-> Functions(i, File(i).inits)]
           h == [i \in Objects |-> Functions(i, File(i).finis)]
<1>1. Len(nodes) \in Nat
  BY DEF LinksTyped
<1>2. g \in [1..Len(nodes) -> Seq(Nat)] /\ h \in [1..Len(nodes) -> Seq(Nat)]
  BY FunctionsType DEF Objects
<1>3. Initialisers = FlattenSeq(g) /\ Finalisers = FlattenSeq(h)
  BY DEF Initialisers, Finalisers
<1> HIDE DEF g, h
<1>4. FlattenSeq(g) \in Seq(Nat) /\ FlattenSeq(h) \in Seq(Nat)
  <2>1. PICK n, A : n = Len(nodes) /\ A = Nat
    BY Zenon
  <2>2. n \in Nat /\ g \in [1..n -> Seq(A)] /\ h \in [1..n -> Seq(A)]
    BY <1>1, <1>2, <2>1
  <2>3. FlattenSeq(g) \in Seq(A) /\ FlattenSeq(h) \in Seq(A)
    BY ONLY <2>2, FlattenType
  <2> QED BY ONLY <2>1, <2>3
<1>5. QED BY <1>3, <1>4

LEMMA VectorsSame ==
    ASSUME SameObjects
    PROVE  Initialisers' = Initialisers /\ Finalisers' = Finalisers /\ Schedule' = Schedule
<1>1. /\ prog' = prog /\ Len(nodes') = Len(nodes)
      /\ \A i \in 1..Len(nodes) : /\ nodes'[i].soname = nodes[i].soname
                                  /\ nodes'[i].file = nodes[i].file
                                  /\ nodes'[i].addr = nodes[i].addr
  BY DEF SameObjects
<1>2. [i \in Objects |-> Functions(i, File(i).inits)]'
      = [i \in Objects |-> Functions(i, File(i).inits)]
  BY <1>1 DEF Objects, Functions, File
<1>3. [i \in Objects |-> Functions(i, File(i).finis)]'
      = [i \in Objects |-> Functions(i, File(i).finis)]
  BY <1>1 DEF Objects, Functions, File
<1>4. Initialisers' = Initialisers /\ Finalisers' = Finalisers
  BY <1>2, <1>3 DEF Initialisers, Finalisers
<1>5. QED BY <1>1, <1>4 DEF Schedule

LEMMA NeedsSame ==
    ASSUME SameObjects, NEW j \in 1..Len(nodes), NEW i \in 1..Len(nodes), Len(nodes) \in Nat
    PROVE  (FirstNeeds(j, i))' <=> FirstNeeds(j, i)
<1>1. \A x \in 1..j : x \in 1..Len(nodes)
  OBVIOUS
<1>2. \A x \in 1..Len(nodes) : (Needs(x, i))' <=> Needs(x, i)
  <2> SUFFICES ASSUME NEW x \in 1..Len(nodes) PROVE (Needs(x, i))' <=> Needs(x, i)
    OBVIOUS
  <2>1. nodes'[x].file = nodes[x].file /\ nodes'[i].soname = nodes[i].soname
    BY DEF SameObjects
  <2> QED BY ONLY <2>1 DEF Needs, File
<1>3. \A x \in 1..j - 1 : x \in 1..Len(nodes)
  BY <1>1
<1>4. QED BY <1>2, <1>3 DEF FirstNeeds

\* Behind the loading the queue is done.
LEMMA QueueSame ==
    ASSUME SameObjects, LinksTyped, QueueKept, stage' # "load"
    PROVE  QueueKept'
<1>1. Len(nodes) \in Nat /\ Len(nodes') = Len(nodes)
  BY DEF LinksTyped, SameObjects
<1>2. ASSUME NEW i \in 2..Len(nodes)
      PROVE  \E j \in 1..i - 1 : (FirstNeeds(j, i))'
  <2>1. PICK j \in 1..i - 1 : FirstNeeds(j, i)
    BY DEF QueueKept
  <2>2. i \in 1..Len(nodes) /\ j \in 1..Len(nodes)
    BY <1>1
  <2> QED BY <1>1, <2>1, <2>2, NeedsSame
<1>3. ASSUME NEW i \in 2..Len(nodes), NEW x \in 2..Len(nodes), i < x,
             NEW j \in 1..Len(nodes), NEW y \in 1..Len(nodes),
             (FirstNeeds(j, i))', (FirstNeeds(y, x))'
      PROVE  j <= y
  <2>1. i \in 1..Len(nodes) /\ x \in 1..Len(nodes)
    BY <1>1
  <2>2. FirstNeeds(j, i) /\ FirstNeeds(y, x)
    BY <1>1, <1>3, <2>1, NeedsSame
  <2> QED BY <1>3, <2>2 DEF QueueKept
<1>4. QED BY <1>1, <1>2, <1>3 DEF QueueKept

-----------------------------------------------------------------------------
(* The steps behind the loading.                                           *)

\* The steps of link() run nothing.
LEMMA LinkingKeepsOrder ==
    ASSUME SameObjects, LinksTyped, prog.dynamic, OrderInv,
           UNCHANGED <<vectors, runVars>>, stage \in {"adjust", "resolve", "relocate", "copy"},
           stage' \in {"adjust", "resolve", "relocate", "copy", "boot", "failed"}
    PROVE  OrderInv'
<1>1. QueueKept /\ VectorsKept
  BY DEF OrderInv
<1>2. QueueKept'
  BY <1>1, QueueSame
<1>3. /\ startvec' = startvec /\ finivec' = finivec /\ ran' = ran /\ finalizer' = finalizer
      /\ Initialisers' = Initialisers /\ Finalisers' = Finalisers
  BY VectorsSame DEF vectors, runVars
<1>4. /\ startvec \in Seq(Nat) /\ finivec \in Seq(Nat) /\ ran \in Seq(Nat)
      /\ ran = << >> /\ ~finalizer /\ startvec = Initialisers /\ finivec = Finalisers
  BY <1>1 DEF VectorsKept
<1>5. VectorsKept'
  BY ONLY <1>3, <1>4, stage' \in {"adjust", "resolve", "relocate", "copy", "boot", "failed"}
     DEF VectorsKept
<1>6. QED BY <1>2, <1>5 DEF OrderInv

\* While the program runs the objects stay.
LEMMA RunningFacts ==
    ASSUME ProgramsFit, FilesFit, prog \in Programs, LinkInv, OrderInv, prog.dynamic,
           UNCHANGED <<prog, nodes>>, stage' # "load"
    PROVE  /\ prog' = prog /\ QueueKept' /\ VectorsKept
           /\ Initialisers' = Initialisers /\ Finalisers' = Finalisers /\ Schedule' = Schedule
           /\ Initialisers \in Seq(Nat) /\ Finalisers \in Seq(Nat) /\ prog.entry \in Nat
           /\ startvec \in Seq(Nat) /\ finivec \in Seq(Nat) /\ ran \in Seq(Nat)
<1>1. LinksTyped /\ QueueKept /\ VectorsKept
  BY DEF LinkInv, OrderInv
<1>2. SameObjects
  BY DEF SameObjects
<1>3. /\ QueueKept' /\ Schedule' = Schedule
      /\ Initialisers' = Initialisers /\ Finalisers' = Finalisers
  BY <1>1, <1>2, QueueSame, VectorsSame
<1>4. Initialisers \in Seq(Nat) /\ Finalisers \in Seq(Nat)
  BY <1>1, VectorsType
<1>5. startvec \in Seq(Nat) /\ finivec \in Seq(Nat) /\ ran \in Seq(Nat)
  BY <1>1 DEF VectorsKept
<1>6. prog.entry \in Nat /\ prog' = prog
  BY DEF ProgramsFit
<1>7. QED BY <1>1, <1>3, <1>4, <1>5, <1>6

LEMMA ScheduleIs ==
    ASSUME Initialisers \in Seq(Nat), Finalisers \in Seq(Nat), prog.entry \in Nat
    PROVE  /\ Initialisers = << >> => Schedule = Append(Initialisers, prog.entry)
           /\ Initialisers # << >> => Schedule = Append(Initialisers, prog.entry) \o Finalisers
           /\ Append(Initialisers, prog.entry) \in Seq(Nat)
<1>1. /\ Append(Initialisers, prog.entry) = Initialisers \o <<prog.entry>>
      /\ Append(Initialisers, prog.entry) \in Seq(Nat)
  BY AppendIs, AppendProperties, Zenon
<1>2. Initialisers = << >> => Append(Initialisers, prog.entry) = <<prog.entry>>
  OBVIOUS
<1>3. QED BY <1>1, <1>2, Zenon DEF Schedule

LEMMA BootKeepsOrder ==
    ASSUME ProgramsFit, FilesFit, prog \in Programs, LinkInv, OrderInv, prog.dynamic, Boot
    PROVE  OrderInv'
<1> DEFINE v == startvec
           e == prog.entry
<1>1. /\ UNCHANGED <<prog, nodes>> /\ stage = "boot" /\ finivec' = finivec
      /\ finalizer' = finalizer
      /\ \/ v = << >> /\ ran' = Append(ran, e) /\ startvec' = v /\ stage' = "main"
         \/ /\ v # << >> /\ ran' = Append(ran, Head(v)) /\ startvec' = Append(Tail(v), e)
            /\ stage' = "init"
  BY DEF Boot, Running, Enters
<1>2. /\ prog' = prog /\ QueueKept' /\ VectorsKept
      /\ Initialisers' = Initialisers /\ Finalisers' = Finalisers
      /\ Initialisers \in Seq(Nat) /\ Finalisers \in Seq(Nat) /\ e \in Nat
      /\ v \in Seq(Nat) /\ finivec \in Seq(Nat) /\ ran \in Seq(Nat)
  BY <1>1, RunningFacts
<1>3. ran = << >> /\ ~finalizer /\ v = Initialisers /\ finivec = Finalisers
  BY <1>1, <1>2 DEF VectorsKept
<1> HIDE DEF v, e
<1>4. CASE v = << >> /\ ran' = Append(ran, e) /\ startvec' = v /\ stage' = "main"
  <2>1. ran' \in Seq(Nat) /\ ran' = Append(Initialisers, e) /\ startvec' \in Seq(Nat)
    BY <1>2, <1>3, <1>4, AppendProperties
  <2>2. VectorsKept'
    BY ONLY <1>1, <1>2, <1>3, <1>4, <2>1 DEF VectorsKept, e
  <2> QED BY <1>2, <2>2 DEF OrderInv
<1>5. CASE /\ v # << >> /\ ran' = Append(ran, Head(v)) /\ startvec' = Append(Tail(v), e)
           /\ stage' = "init"
  <2>1. ran' \in Seq(Nat) /\ Tail(v) \in Seq(Nat) /\ ran' \o Tail(v) = ran \o v
    BY <1>2, <1>5, NextTaken, Zenon
  <2>2. /\ startvec' \in Seq(Nat) /\ startvec' # << >> /\ startvec' = Tail(v) \o <<e>>
        /\ <<e>> \in Seq(Nat)
    <3>1. PICK A, t : A = Nat /\ t = Tail(v)
      BY Zenon
    <3>2. t \in Seq(A) /\ e \in A
      BY <1>2, <2>1, <3>1
    <3>3. Append(t, e) = t \o <<e>> /\ <<e>> \in Seq(A) /\ Append(t, e) \in Seq(A)
      BY ONLY <3>2, AppendIs, AppendProperties
    <3>4. Append(t, e) # << >>
      <4>1. Len(Append(t, e)) = Len(t) + 1 /\ Len(t) \in Nat
        BY ONLY <3>2, AppendProperties, LenProperties
      <4> QED BY ONLY <4>1
    <3> QED BY ONLY Zenon, <1>5, <3>1, <3>3, <3>4
  <2>3. ran \o v = v
    BY <1>2, <1>3, ConcatEmptySeq
  <2>4. ran' \o (Tail(v) \o <<e>>) = (ran' \o Tail(v)) \o <<e>>
    <3>1. PICK A, r, t, u : A = Nat /\ r = ran' /\ t = Tail(v) /\ u = <<e>>
      BY Zenon
    <3>2. r \in Seq(A) /\ t \in Seq(A) /\ u \in Seq(A)
      BY ONLY <2>1, <2>2, <3>1
    <3>3. r \o (t \o u) = (r \o t) \o u
      BY ONLY <3>2, ConcatAssociative
    <3> QED BY ONLY Zenon, <3>1, <3>3
  <2>5. v \o <<e>> = Append(v, e)
    BY <1>2, AppendIs
  <2>6. ran' \o startvec' = Append(Initialisers, e)
    BY ONLY Zenon, <1>3, <2>1, <2>2, <2>3, <2>4, <2>5
  <2>7. VectorsKept'
    BY ONLY Zenon, <1>1, <1>2, <1>3, <1>5, <2>1, <2>2, <2>6 DEF VectorsKept, e
  <2> QED BY <1>2, <2>7 DEF OrderInv
<1>6. QED BY <1>1, <1>4, <1>5

LEMMA InitKeepsOrder ==
    ASSUME ProgramsFit, FilesFit, prog \in Programs, LinkInv, OrderInv, prog.dynamic, RtldInit
    PROVE  OrderInv'
<1> DEFINE v == startvec
           all == Append(Initialisers, prog.entry)
<1>1. /\ UNCHANGED <<prog, nodes>> /\ stage = "init" /\ finivec' = finivec
      /\ v # << >> /\ ran' = Append(ran, Head(v)) /\ startvec' = Tail(v)
      /\ \/ Len(v) = 1 /\ finalizer' /\ stage' = "main"
         \/ Len(v) # 1 /\ ~finalizer' /\ stage' = "init"
  BY Zenon DEF RtldInit, Running, Enters, Rest
<1>2. /\ prog' = prog /\ QueueKept' /\ VectorsKept
      /\ Initialisers' = Initialisers /\ Finalisers' = Finalisers
      /\ v \in Seq(Nat) /\ finivec \in Seq(Nat) /\ ran \in Seq(Nat)
  BY <1>1, RunningFacts
<1>3. Initialisers # << >> /\ ran \o v = all /\ finivec = Finalisers
  BY <1>1, <1>2, Zenon DEF VectorsKept
<1>4. all' = all
  BY <1>2
<1> HIDE DEF v
<1>5. /\ ran' \in Seq(Nat) /\ startvec' \in Seq(Nat) /\ ran' \o startvec' = ran \o v
      /\ startvec' = << >> <=> Len(v) = 1
  BY <1>1, <1>2, NextTaken, Zenon
<1>6. startvec' = << >> => ran' \o startvec' = ran'
  BY <1>5, ConcatEmptySeq
<1> HIDE DEF all
<1>7. VectorsKept'
  BY ONLY Zenon, <1>1, <1>2, <1>3, <1>4, <1>5, <1>6 DEF VectorsKept, all
<1>8. QED BY <1>2, <1>7 DEF OrderInv

LEMMA FiniKeepsOrder ==
    ASSUME ProgramsFit, FilesFit, prog \in Programs, LinkInv, OrderInv, prog.dynamic, RtldFini
    PROVE  OrderInv'
<1> DEFINE v == finivec
           all == Append(Initialisers, prog.entry) \o Finalisers
<1>1. /\ UNCHANGED <<prog, nodes>>
      /\ stage = "fini" \/ (stage = "main" /\ finalizer)
      /\ startvec' = startvec
      /\ \/ v # << >> /\ ran' = Append(ran, Head(v)) /\ finivec' = Tail(v) /\ stage' = "fini"
         \/ v = << >> /\ stage' = "done" /\ ran' = ran /\ finivec' = v
  BY DEF RtldFini, Running, Enters, Rest
<1>2. /\ prog' = prog /\ QueueKept' /\ VectorsKept
      /\ Initialisers' = Initialisers /\ Finalisers' = Finalisers /\ Schedule' = Schedule
      /\ Initialisers \in Seq(Nat) /\ Finalisers \in Seq(Nat) /\ prog.entry \in Nat
      /\ startvec \in Seq(Nat) /\ v \in Seq(Nat) /\ ran \in Seq(Nat)
  BY <1>1, RunningFacts
<1>3. Initialisers # << >> /\ ran \o v = all
  BY <1>1, <1>2, Zenon DEF VectorsKept
<1>4. all' = all /\ all = Schedule
  BY <1>2, <1>3, ScheduleIs, Zenon
<1> HIDE DEF v, all
<1>5. CASE v # << >> /\ ran' = Append(ran, Head(v)) /\ finivec' = Tail(v) /\ stage' = "fini"
  <2>1. ran' \in Seq(Nat) /\ finivec' \in Seq(Nat) /\ ran' \o finivec' = ran \o v
    BY <1>2, <1>5, NextTaken, Zenon
  <2>2. VectorsKept'
    BY ONLY Zenon, <1>1, <1>2, <1>3, <1>4, <1>5, <2>1 DEF VectorsKept, all
  <2> QED BY <1>2, <2>2 DEF OrderInv
<1>6. CASE v = << >> /\ stage' = "done" /\ ran' = ran /\ finivec' = v
  <2>1. ran \o v = ran
    BY <1>2, <1>6, ConcatEmptySeq
  <2>2. ran' = Schedule'
    BY ONLY <1>2, <1>3, <1>4, <1>6, <2>1
  <2>3. VectorsKept'
    BY ONLY <1>1, <1>2, <1>6, <2>2 DEF VectorsKept
  <2> QED BY <1>2, <2>3 DEF OrderInv
<1>7. QED BY <1>1, <1>5, <1>6

LEMMA MainKeepsOrder ==
    ASSUME ProgramsFit, FilesFit, prog \in Programs, LinkInv, OrderInv, prog.dynamic,
           SystemCall \/ Exit
    PROVE  OrderInv'
<1>1. /\ UNCHANGED <<prog, nodes, startvec, finivec, ran, finalizer>> /\ stage = "main"
      /\ stage' = "main" \/ (stage' = "done" /\ ~finalizer)
  BY DEF SystemCall, Exit, Running, vectors, runVars
<1>2. /\ prog' = prog /\ QueueKept' /\ VectorsKept
      /\ Initialisers' = Initialisers /\ Finalisers' = Finalisers /\ Schedule' = Schedule
      /\ Initialisers \in Seq(Nat) /\ Finalisers \in Seq(Nat) /\ prog.entry \in Nat
      /\ startvec \in Seq(Nat) /\ finivec \in Seq(Nat) /\ ran \in Seq(Nat)
  BY <1>1, RunningFacts
<1>3. /\ finalizer <=> Initialisers # << >>
      /\ ran = Append(Initialisers, prog.entry) /\ finivec = Finalisers
  BY <1>1, <1>2 DEF VectorsKept
<1>4. ~finalizer => ran = Schedule
  BY <1>2, <1>3, ScheduleIs
<1>5. VectorsKept'
  BY ONLY Zenon, <1>1, <1>2, <1>3, <1>4 DEF VectorsKept
<1>6. QED BY <1>2, <1>5 DEF OrderInv

LEMMA OnePlaced ==
    ASSUME LinksTyped, prog.dynamic, prog' = prog, NEW new, nodes' = [nodes EXCEPT ![at] = new],
           new.soname = nodes[at].soname, new.file = nodes[at].file, new.addr = nodes[at].addr
    PROVE  SameObjects
<1>1. nodes \in Seq(LinkNodes) /\ at \in 1..Len(nodes)
  BY DEF LinksTyped
<1>2. PICK S, g : S = LinkNodes \cup {new} /\ g = nodes'
  BY Zenon
<1>3. nodes \in Seq(S) /\ new \in S /\ g = [nodes EXCEPT ![at] = new]
  <2>1. LinkNodes \subseteq S
    BY <1>2
  <2>2. PICK T : T = LinkNodes
    OBVIOUS
  <2>3. nodes \in Seq(S)
    BY ONLY <1>1, <2>1, <2>2, SeqMonotonic
  <2> QED BY <1>2, <2>3
<1>4. Len(g) = Len(nodes) /\ g[at] = new /\ \A j \in 1..Len(nodes) : j # at => g[j] = nodes[j]
  BY ONLY <1>1, <1>3, OneReplaced
<1>5. ASSUME NEW i \in 1..Len(nodes)
      PROVE  /\ g[i].soname = nodes[i].soname /\ g[i].file = nodes[i].file
             /\ g[i].addr = nodes[i].addr
  <2>1. CASE i = at
    BY <1>4, <2>1
  <2>2. CASE i # at
    BY <1>4, <2>2
  <2> QED BY <2>1, <2>2
<1>6. QED BY <1>2, <1>4, <1>5 DEF SameObjects

LEMMA AdjustSame ==
    ASSUME LinksTyped, prog.dynamic, AdjustSymbols
    PROVE  SameObjects
<1> DEFINE node == nodes[at]
           s == [k \in 1..Len(node.symbols) |-> Adjusted(node.symbols[k], node.addr)]
           c == Scheduled(node.symbols, node.addr)
           new == [node EXCEPT !.symbols = s, !.copies = c]
<1>1. /\ prog' = prog
      /\ nodes' = IF node.addr = 0 THEN nodes
                  ELSE [nodes EXCEPT ![at].symbols = s, ![at].copies = c]
  BY DEF AdjustSymbols, Linking
<1>2. nodes \in Seq(LinkNodes) /\ at \in 1..Len(nodes) /\ node \in LinkNodes
  BY DEF LinksTyped
<1> HIDE DEF s, c
<1>3. CASE nodes' = nodes
  BY <1>1, <1>3 DEF SameObjects
<1>4. CASE nodes' = [nodes EXCEPT ![at].symbols = s, ![at].copies = c]
  <2>1. nodes' = [nodes EXCEPT ![at] = new]
    BY <1>2, <1>4, Zenon
  <2>2. new.soname = node.soname /\ new.file = node.file /\ new.addr = node.addr
    BY <1>2 DEF LinkNodes
  <2> HIDE DEF new
  <2> QED BY <1>1, <2>1, <2>2, OnePlaced, Zenon
<1>5. QED BY <1>1, <1>3, <1>4

LEMMA ResolveSame ==
    ASSUME LinksTyped, prog.dynamic, ResolveSymbol
    PROVE  SameObjects /\ stage' \in {"resolve", "failed"}
<1> DEFINE sym == File(at).relocs[entry].sym
           s == nodes[at].symbols[sym]
           found == FindSymbol(s.name, Version(at, s))
           d == nodes[found[1]].symbols[found[2]]
           table == [nodes[at].symbols EXCEPT ![sym] = Bound(s, d)]
           new == [nodes[at] EXCEPT !.symbols = table]
<1>1. prog' = prog /\ stage = "resolve"
  BY Zenon DEF ResolveSymbol, Linking
<1>2. nodes \in Seq(LinkNodes) /\ at \in 1..Len(nodes) /\ nodes[at] \in LinkNodes
  BY DEF LinksTyped
<1>3. /\ nodes' = nodes \/ nodes' = [nodes EXCEPT ![at].symbols[sym] = Bound(s, d)]
      /\ stage' \in {stage, "failed"}
  <2>1. CASE sym = 0
    BY <2>1 DEF ResolveSymbol
  <2>2. CASE sym # 0
    BY <2>2, Zenon DEF ResolveSymbol, Fails
  <2> QED BY <2>1, <2>2, Zenon
<1> HIDE DEF sym, s, found, d
<1>4. CASE nodes' = nodes
  BY <1>1, <1>3, <1>4 DEF SameObjects
<1>5. CASE nodes' = [nodes EXCEPT ![at].symbols[sym] = Bound(s, d)]
  <2>1. nodes' = [nodes EXCEPT ![at] = new]
    BY <1>2, <1>5
  <2> HIDE DEF table
  <2>2. new.soname = nodes[at].soname /\ new.file = nodes[at].file /\ new.addr = nodes[at].addr
    BY <1>2 DEF LinkNodes
  <2> HIDE DEF new
  <2> QED BY <1>1, <1>3, <2>1, <2>2, OnePlaced, Zenon
<1>6. QED BY <1>3, <1>4, <1>5

LEMMA LinkStepsKeepOrder ==
    ASSUME FilesFit, prog \in Programs, LinkInv, OrderInv, prog.dynamic,
           \/ AdjustSymbols \/ ResolveSymbol \/ ResolveNext
           \/ ApplyRelocation \/ RelocateNext \/ ApplyPendingCopy \/ CopyNext
    PROVE  OrderInv'
<1>1. LinksTyped
  BY DEF LinkInv
<1>2. /\ UNCHANGED <<vectors, runVars>> /\ prog' = prog
      /\ stage \in {"adjust", "resolve", "relocate", "copy"}
  BY Zenon DEF AdjustSymbols, ResolveSymbol, ResolveNext, ApplyRelocation, RelocateNext,
         ApplyPendingCopy, CopyNext, Linking
<1>3. SameObjects /\ stage' \in {"adjust", "resolve", "relocate", "copy", "boot", "failed"}
  <2>1. CASE AdjustSymbols
    <3>1. SameObjects
      BY <1>1, <2>1, AdjustSame
    <3>2. stage' = stage \/ stage' = "resolve"
      BY <2>1 DEF AdjustSymbols, Advance
    <3> QED BY <1>2, <3>1, <3>2
  <2>2. CASE ResolveSymbol
    BY <1>1, <2>2, ResolveSame
  <2>3. CASE ResolveNext \/ RelocateNext \/ CopyNext
    <3>1. nodes' = nodes
      BY <2>3 DEF ResolveNext, RelocateNext, CopyNext
    <3>2. stage' = stage \/ stage' \in {"relocate", "copy", "boot"}
      BY <2>3 DEF ResolveNext, RelocateNext, CopyNext, Advance
    <3>3. SameObjects
      BY <1>2, <3>1 DEF SameObjects
    <3> QED BY <1>2, <3>2, <3>3
  <2>4. CASE ApplyRelocation \/ ApplyPendingCopy
    <3>1. nodes' = nodes /\ stage' = stage
      BY <2>4, Zenon DEF ApplyRelocation, ApplyPendingCopy
    <3>2. SameObjects
      BY <1>2, <3>1 DEF SameObjects
    <3> QED BY <1>2, <3>1, <3>2
  <2> QED BY <2>1, <2>2, <2>3, <2>4
<1>4. QED BY <1>1, <1>2, <1>3, LinkingKeepsOrder

-----------------------------------------------------------------------------
(* The queue of objects.                                                   *)

\* load_libraries() goes on without loading anything.
LEMMA QueueMoves ==
    ASSUME LinksTyped, QueueKept, stage = "load", nodes' = nodes, prog' = prog,
           at \in Nat, at' \in Nat, at <= at',
           \A j \in 1..Len(nodes) : \A k \in 1..Len(File(j).needed) :
              (Treated(j, k))' => \/ Treated(j, k)
                                  \/ \E i \in 2..Len(nodes) :
                                        LibraryName[File(j).needed[k]] = LibraryName[nodes[i].soname]
    PROVE  QueueKept'
<1>1. SameObjects /\ Len(nodes) \in Nat
  BY DEF SameObjects, LinksTyped
<1>2. \A i, j \in 1..Len(nodes) : (FirstNeeds(j, i))' <=> FirstNeeds(j, i)
  BY <1>1, NeedsSame
<1>3. ASSUME NEW i \in 2..Len(nodes)
      PROVE  \E j \in 1..i - 1 : (FirstNeeds(j, i))' /\ j <= at'
  <2>1. PICK j \in 1..i - 1 : FirstNeeds(j, i) /\ j <= at
    BY DEF QueueKept
  <2>2. i \in 1..Len(nodes) /\ j \in 1..Len(nodes) /\ j <= at'
    BY <1>1, <2>1
  <2> QED BY <1>2, <2>1, <2>2
<1>4. ASSUME NEW i \in 2..Len(nodes), NEW x \in 2..Len(nodes), i < x,
             NEW j \in 1..Len(nodes), NEW y \in 1..Len(nodes),
             (FirstNeeds(j, i))', (FirstNeeds(y, x))'
      PROVE  j <= y
  <2>1. i \in 1..Len(nodes) /\ x \in 1..Len(nodes)
    BY <1>1
  <2>2. FirstNeeds(j, i) /\ FirstNeeds(y, x)
    BY <1>2, <1>4, <2>1
  <2> QED BY <1>4, <2>2 DEF QueueKept
<1>5. ASSUME NEW j \in 1..Len(nodes), NEW k \in 1..Len(File(j).needed), (Treated(j, k))'
      PROVE  \E i \in 2..Len(nodes) : LibraryName[File(j).needed[k]] = LibraryName[nodes[i].soname]
  BY <1>5, Zenon DEF QueueKept
<1>6. QED BY <1>1, <1>3, <1>4, <1>5 DEF QueueKept, File

LEMMA VectorsLoading ==
    ASSUME SameObjects, VectorsKept, stage = "load", UNCHANGED <<vectors, runVars>>,
           stage' \in {"load", "adjust", "failed"}
    PROVE  VectorsKept'
<1>1. /\ startvec' = startvec /\ finivec' = finivec /\ ran' = ran /\ finalizer' = finalizer
      /\ Initialisers' = Initialisers /\ Finalisers' = Finalisers
  BY VectorsSame DEF vectors, runVars
<1>2. /\ startvec \in Seq(Nat) /\ finivec \in Seq(Nat) /\ ran \in Seq(Nat)
      /\ ran = << >> /\ ~finalizer /\ startvec = Initialisers /\ finivec = Finalisers
  BY DEF VectorsKept
<1>3. QED BY ONLY <1>1, <1>2, stage' \in {"load", "adjust", "failed"} DEF VectorsKept

LEMMA NextObjectKeepsOrder ==
    ASSUME LinkInv, OrderInv, prog.dynamic, NextObject
    PROVE  OrderInv'
<1>1. /\ stage = "load" /\ ~(entry <= Len(File(at).needed)) /\ Advance("adjust")
      /\ UNCHANGED <<prog, nodes, vectors, runVars>>
  BY DEF NextObject, Entries
<1>2. /\ LinksTyped /\ QueueKept /\ VectorsKept
      /\ at \in Nat /\ entry \in Nat /\ Len(nodes) \in Nat
  BY DEF LinkInv, OrderInv, LinksTyped
<1>3. SameObjects
  BY <1>1 DEF SameObjects
<1>4. \/ stage' = "adjust"
      \/ stage' = "load" /\ at' = at + 1 /\ entry' = 1
  BY <1>1 DEF Advance
<1>5. QueueKept'
  <2>1. CASE stage' = "adjust"
    BY <1>2, <1>3, <2>1, QueueSame
  <2>2. CASE stage' = "load" /\ at' = at + 1 /\ entry' = 1
    <3>1. ASSUME NEW j \in 1..Len(nodes), NEW k \in 1..Len(File(j).needed), (Treated(j, k))'
          PROVE  Treated(j, k)
      <4>1. j < at + 1 \/ (j = at + 1 /\ k < 1)
        BY ONLY <2>2, <3>1 DEF Treated
      <4>2. j = at => k < entry
        BY <1>1, <1>2
      <4>3. j < at \/ j = at
        BY <1>2, <4>1
      <4> QED BY ONLY <4>2, <4>3 DEF Treated
    <3>2. at' \in Nat /\ at <= at' /\ nodes' = nodes /\ prog' = prog
      BY <1>1, <1>2, <2>2
    <3> QED BY <1>1, <1>2, <3>1, <3>2, QueueMoves
  <2> QED BY <1>4, <2>1, <2>2
<1>6. VectorsKept'
  BY <1>1, <1>2, <1>3, <1>4, VectorsLoading
<1>7. QED BY <1>5, <1>6 DEF OrderInv

\* link_node_setup() puts the functions of a library behind the others.
LEMMA VectorsAdded ==
    ASSUME FilesFit, prog \in Programs, LinksTyped, prog.dynamic, prog' = prog,
           NEW name, NEW file, WellFormed(file), NEW a \in Nat,
           NEW new, new.soname = name, new.file = file, new.addr = a,
           Len(nodes') = Len(nodes) + 1, nodes'[Len(nodes) + 1] = new,
           \A i \in 1..Len(nodes) : nodes'[i] = nodes[i]
    PROVE  /\ Initialisers' = Adds(Initialisers, name, file.inits, a)
           /\ Finalisers' = Adds(Finalisers, name, file.finis, a)
           /\ Initialisers' \in Seq(Nat) /\ Finalisers' \in Seq(Nat)
<1>0. PICK n : n = Len(nodes)
  OBVIOUS
<1> DEFINE more(offsets) == IF LibraryName[name] = prog.interpreter THEN << >>
                            ELSE Addresses(offsets, a)
           g == [i \in 1..n |-> Functions(i, File(i).inits)]
           h == [i \in 1..n + 1 |-> (Functions(i, File(i).inits))']
           p == [i \in 1..n |-> Functions(i, File(i).finis)]
           q == [i \in 1..n + 1 |-> (Functions(i, File(i).finis))']
<1>1. n \in Nat /\ n >= 1 /\ Len(nodes') = n + 1
  BY <1>0 DEF LinksTyped
<1>2. Initialisers = FlattenSeq(g) /\ Finalisers = FlattenSeq(p)
  BY <1>0 DEF Initialisers, Finalisers, Objects
<1>3. Initialisers' = FlattenSeq(h) /\ Finalisers' = FlattenSeq(q)
  BY <1>1, Zenon DEF Initialisers, Finalisers, Objects
<1>4. /\ \A i \in 1..n : /\ (Functions(i, File(i).inits))' = Functions(i, File(i).inits)
                         /\ (Functions(i, File(i).finis))' = Functions(i, File(i).finis)
  <2> SUFFICES ASSUME NEW i \in 1..n
               PROVE  /\ (Functions(i, File(i).inits))' = Functions(i, File(i).inits)
                      /\ (Functions(i, File(i).finis))' = Functions(i, File(i).finis)
    OBVIOUS
  <2>1. nodes'[i] = nodes[i] /\ prog' = prog
    BY <1>0
  <2> QED BY ONLY <2>1 DEF Functions, File
<1>5. /\ (Functions(n + 1, File(n + 1).inits))' = more(file.inits)
      /\ (Functions(n + 1, File(n + 1).finis))' = more(file.finis)
  <2>1. nodes'[n + 1] = new /\ prog' = prog /\ n + 1 > 1
    BY <1>0, <1>1
  <2>2. PICK m : m = n + 1
    OBVIOUS
  <2>3. nodes'[m] = new /\ prog' = prog /\ m > 1
    BY ONLY <2>1, <2>2
  <2>4. /\ (Functions(m, File(m).inits))' = more(file.inits)
        /\ (Functions(m, File(m).finis))' = more(file.finis)
    <3>1. new.soname = name /\ new.file = file /\ new.addr = a
      OBVIOUS
    <3>2. (File(m))' = file /\ nodes'[m].soname = name /\ nodes'[m].addr = a
      BY ONLY <2>3, <3>1 DEF File
    <3> QED BY ONLY <2>3, <3>2 DEF Functions, Addresses, more
  <2> QED BY ONLY <2>2, <2>4
<1>6. more(file.inits) \in Seq(Nat) /\ more(file.finis) \in Seq(Nat)
  <2>1. file.inits \in Seq(Nat) /\ file.finis \in Seq(Nat)
    BY DEF WellFormed
  <2>2. Addresses(file.inits, a) \in Seq(Nat) /\ Addresses(file.finis, a) \in Seq(Nat)
    BY <2>1, AddressesType, Zenon
  <2>3. << >> \in Seq(Nat)
    OBVIOUS
  <2> QED BY ONLY <2>2, <2>3
<1>7. /\ \A i \in 1..n : Functions(i, File(i).inits) \in Seq(Nat)
      /\ \A i \in 1..n : Functions(i, File(i).finis) \in Seq(Nat)
  BY <1>0, FunctionsType
<1> HIDE DEF more
<1>8. /\ g \in [1..n -> Seq(Nat)] /\ h \in [1..n + 1 -> Seq(Nat)]
      /\ p \in [1..n -> Seq(Nat)] /\ q \in [1..n + 1 -> Seq(Nat)]
      /\ \A i \in 1..n : h[i] = g[i] /\ q[i] = p[i]
      /\ h[n + 1] = more(file.inits) /\ q[n + 1] = more(file.finis)
  <2>1. \A i \in 1..n + 1 : i \in 1..n \/ i = n + 1
    BY <1>1
  <2>2. n + 1 \in 1..n + 1 /\ \A i \in 1..n : i \in 1..n + 1
    BY <1>1
  <2>3. \A i \in 1..n + 1 : /\ (Functions(i, File(i).inits))' \in Seq(Nat)
                            /\ (Functions(i, File(i).finis))' \in Seq(Nat)
    <3> SUFFICES ASSUME NEW i \in 1..n + 1
                 PROVE  /\ (Functions(i, File(i).inits))' \in Seq(Nat)
                        /\ (Functions(i, File(i).finis))' \in Seq(Nat)
      OBVIOUS
    <3>1. CASE i \in 1..n
      BY ONLY <1>4, <1>7, <3>1
    <3>2. CASE i = n + 1
      <4>1. PICK m : m = n + 1
        OBVIOUS
      <4>2. /\ (Functions(m, File(m).inits))' \in Seq(Nat)
            /\ (Functions(m, File(m).finis))' \in Seq(Nat)
        BY ONLY <1>5, <1>6, <4>1
      <4> QED BY ONLY <3>2, <4>1, <4>2
    <3> QED BY <2>1, <3>1, <3>2
  <2>4. /\ g \in [1..n -> Seq(Nat)] /\ p \in [1..n -> Seq(Nat)]
    BY ONLY <1>7
  <2>5. h \in [1..n + 1 -> Seq(Nat)] /\ q \in [1..n + 1 -> Seq(Nat)]
    BY ONLY <2>3
  <2>6. \A i \in 1..n : h[i] = g[i] /\ q[i] = p[i]
    <3> SUFFICES ASSUME NEW i \in 1..n PROVE h[i] = g[i] /\ q[i] = p[i]
      BY Zenon
    <3>1. i \in 1..n + 1
      BY <2>2
    <3>2. /\ h[i] = (Functions(i, File(i).inits))' /\ q[i] = (Functions(i, File(i).finis))'
          /\ g[i] = Functions(i, File(i).inits) /\ p[i] = Functions(i, File(i).finis)
      BY ONLY <3>1, i \in 1..n
    <3> QED BY ONLY <1>4, <3>2, i \in 1..n
  <2>7. h[n + 1] = more(file.inits) /\ q[n + 1] = more(file.finis)
    <3>1. PICK m : m = n + 1
      OBVIOUS
    <3>2. m \in 1..n + 1
      BY ONLY <2>2, <3>1
    <3>3. h[m] = (Functions(m, File(m).inits))' /\ q[m] = (Functions(m, File(m).finis))'
      BY ONLY <3>2
    <3> QED BY ONLY <1>5, <3>1, <3>3
  <2> QED BY <2>4, <2>5, <2>6, <2>7, Zenon
<1> HIDE DEF g, h, p, q
<1>9. /\ FlattenSeq(h) = FlattenSeq(g) \o more(file.inits) /\ FlattenSeq(g) \in Seq(Nat)
      /\ FlattenSeq(q) = FlattenSeq(p) \o more(file.finis) /\ FlattenSeq(p) \in Seq(Nat)
  <2>1. PICK A : A = Nat
    BY Zenon
  <2>2. /\ g \in [1..n -> Seq(A)] /\ h \in [1..n + 1 -> Seq(A)]
        /\ p \in [1..n -> Seq(A)] /\ q \in [1..n + 1 -> Seq(A)]
        /\ \A i \in 1..n : h[i] = g[i]
        /\ \A i \in 1..n : q[i] = p[i]
    BY ONLY <1>8, <2>1
  <2>3. FlattenSeq(h) = FlattenSeq(g) \o h[n + 1] /\ FlattenSeq(g) \in Seq(A)
    BY ONLY Zenon, <1>1, <2>2, FlattenExtends
  <2>4. FlattenSeq(q) = FlattenSeq(p) \o q[n + 1] /\ FlattenSeq(p) \in Seq(A)
    BY ONLY Zenon, <1>1, <2>2, FlattenExtends
  <2> QED BY ONLY <1>8, <2>1, <2>3, <2>4
<1>10. \A v \in Seq(Nat) : v \o << >> = v
  BY ConcatEmptySeq
<1>11. Initialisers' = Adds(Initialisers, name, file.inits, a)
       /\ Finalisers' = Adds(Finalisers, name, file.finis, a)
  <2>1. CASE LibraryName[name] = prog.interpreter
    BY ONLY <1>2, <1>3, <1>9, <1>10, <2>1 DEF Adds, more
  <2>2. CASE LibraryName[name] # prog.interpreter
    BY ONLY <1>2, <1>3, <1>9, <2>2 DEF Adds, more
  <2> QED BY <2>1, <2>2
<1>12. Initialisers' \in Seq(Nat) /\ Finalisers' \in Seq(Nat)
  BY <1>3, <1>6, <1>9, ConcatProperties
<1>13. QED BY <1>11, <1>12

\* The library an entry asks for takes its place in the queue.
LEMMA LibraryQueued ==
    ASSUME LinksTyped, prog.dynamic, QueueKept, stage = "load", prog' = prog,
           entry <= Len(File(at).needed), NEW name, name = File(at).needed[entry], ~IsLoaded(name),
           NEW new, new.soname = name,
           Len(nodes') = Len(nodes) + 1, nodes'[Len(nodes) + 1] = new,
           \A i \in 1..Len(nodes) : nodes'[i] = nodes[i], at' = at, entry' = entry + 1,
           Len(File(at).needed) \in Nat
    PROVE  QueueKept'
<1>1. PICK n, b, e : n = Len(nodes) /\ b = at /\ e = entry
  OBVIOUS
<1>2. /\ n \in Nat /\ b \in 1..n /\ e \in Nat /\ e # 0 /\ Len(nodes') = n + 1 /\ at' = b
      /\ entry' = e + 1 /\ n + 1 \in 1..n + 1 /\ e \in 1..Len(File(b).needed)
  BY <1>1 DEF LinksTyped
<1>3. /\ nodes'[n + 1].soname = name /\ \A i \in 1..n : nodes'[i] = nodes[i]
      /\ name = File(b).needed[e] /\ at = b /\ entry = e /\ Len(nodes) = n
  BY <1>1
<1>4. \A j \in 1..n : (File(j))' = File(j)
  BY <1>3 DEF File
<1>5. \A i, j \in 1..n : (Needs(j, i))' <=> Needs(j, i)
  <2> SUFFICES ASSUME NEW i \in 1..n, NEW j \in 1..n PROVE (Needs(j, i))' <=> Needs(j, i)
    OBVIOUS
  <2>1. nodes'[i] = nodes[i] /\ nodes'[j] = nodes[j]
    BY <1>3
  <2> QED BY ONLY <2>1 DEF Needs, File
<1>6. \A i, j \in 1..n : (FirstNeeds(j, i))' <=> FirstNeeds(j, i)
  <2> SUFFICES ASSUME NEW i \in 1..n, NEW j \in 1..n
               PROVE  (FirstNeeds(j, i))' <=> FirstNeeds(j, i)
    OBVIOUS
  <2>1. \A x \in 1..j - 1 : x \in 1..n
    BY <1>2
  <2> QED BY ONLY <1>5, <2>1, i \in 1..n, j \in 1..n DEF FirstNeeds
<1>7. PICK m : m = n + 1
  OBVIOUS
<1>8. (Needs(b, m))'
  <2>1. LibraryName[(File(b))'.needed[e]] = LibraryName[nodes'[m].soname]
    BY <1>2, <1>3, <1>4, <1>7
  <2>2. e \in 1..Len((File(b))'.needed)
    BY <1>2, <1>4
  <2> QED BY ONLY <2>1, <2>2 DEF Needs
<1>9. ASSUME NEW j \in 1..n, NEW k \in 1..Len(File(j).needed), Treated(j, k)
      PROVE  \E i \in 2..n : LibraryName[File(j).needed[k]] = LibraryName[nodes[i].soname]
  BY <1>3, <1>9 DEF QueueKept
<1>10. ASSUME NEW x \in 1..n, x < b PROVE ~(Needs(x, m))'
  <2> SUFFICES ASSUME (Needs(x, m))' PROVE FALSE
    OBVIOUS
  <2>1. (File(x))' = File(x)
    BY <1>4
  <2>2. PICK k \in 1..Len(File(x).needed) :
            LibraryName[File(x).needed[k]] = LibraryName[nodes'[m].soname]
    BY ONLY <2>1, (Needs(x, m))' DEF Needs
  <2>3. Treated(x, k)
    BY <1>3, <1>10 DEF Treated
  <2>4. PICK i \in 2..n : LibraryName[File(x).needed[k]] = LibraryName[nodes[i].soname]
    BY <1>9, <2>3
  <2>5. LibraryName[name] = LibraryName[nodes[i].soname]
    BY <1>3, <1>7, <2>2, <2>4, Zenon
  <2> QED BY <1>3, <2>5 DEF IsLoaded, SameLibrary
<1>11. (FirstNeeds(b, m))'
  <2>1. \A x \in 1..b - 1 : x \in 1..n /\ x < b
    BY <1>2
  <2>2. \A x \in 1..b - 1 : ~(Needs(x, m))'
    BY <1>10, <2>1
  <2> QED BY ONLY <1>8, <2>2 DEF FirstNeeds
<1>12. ASSUME NEW i, NEW j \in 1..n + 1, NEW y \in 1..n + 1,
              (FirstNeeds(j, i))', (FirstNeeds(y, i))'
       PROVE  j = y
  <2>1. (Needs(j, i))' /\ (Needs(y, i))'
    BY <1>12 DEF FirstNeeds
  <2>2. ~(j \in 1..y - 1) /\ ~(y \in 1..j - 1)
    BY ONLY <1>12, <2>1 DEF FirstNeeds
  <2> QED BY <1>2, <2>2
<1>13. \A i \in 2..n : i \in 1..n /\ \E j \in 1..i - 1 : FirstNeeds(j, i) /\ j <= b
  <2> SUFFICES ASSUME NEW i \in 2..n
               PROVE  i \in 1..n /\ \E j \in 1..i - 1 : FirstNeeds(j, i) /\ j <= b
    OBVIOUS
  <2>1. \E j \in 1..i - 1 : FirstNeeds(j, i) /\ j <= at
    BY <1>3 DEF QueueKept
  <2> QED BY <1>2, <1>3, <2>1
<1>14. \A i \in 2..n + 1 : i \in 2..n \/ i = m
  BY <1>2, <1>7
\* The first needer of an object.
<1>15. ASSUME NEW i \in 2..n, NEW j \in 1..n + 1, (FirstNeeds(j, i))'
       PROVE  j \in 1..n /\ j <= b /\ FirstNeeds(j, i)
  <2>1. PICK x \in 1..i - 1 : FirstNeeds(x, i) /\ x <= b
    BY <1>13
  <2>2. x \in 1..n /\ i \in 1..n /\ x \in 1..n + 1
    BY <1>2
  <2>3. (FirstNeeds(x, i))'
    BY <1>6, <2>1, <2>2
  <2>4. j = x
    BY <1>12, <1>15, <2>2, <2>3
  <2> QED BY <2>1, <2>2, <2>4
<1>16. ASSUME NEW i \in 2..n + 1
       PROVE  \E j \in 1..i - 1 : (FirstNeeds(j, i))' /\ j <= b
  <2>1. CASE i \in 2..n
    <3>1. PICK j \in 1..i - 1 : FirstNeeds(j, i) /\ j <= b
      BY <1>13, <2>1
    <3>2. j \in 1..n /\ i \in 1..n
      BY <1>2, <2>1
    <3>3. (FirstNeeds(j, i))'
      BY ONLY <1>6, <3>1, <3>2
    <3> QED BY <3>1, <3>3, Zenon
  <2>2. CASE i = m
    <3>1. b \in 1..i - 1 /\ b <= b
      BY <1>2, <1>7, <2>2
    <3>2. (FirstNeeds(b, i))'
      BY ONLY <1>11, <2>2
    <3> QED BY <3>1, <3>2
  <2> QED BY <1>14, <2>1, <2>2
<1>17. ASSUME NEW i \in 2..n + 1, NEW x \in 2..n + 1, i < x,
              NEW j \in 1..n + 1, NEW y \in 1..n + 1,
              (FirstNeeds(j, i))', (FirstNeeds(y, x))'
       PROVE  j <= y
  <2>1. i \in 2..n
    BY <1>2, <1>17
  <2>2. j \in 1..n /\ j <= b /\ FirstNeeds(j, i)
    BY <1>15, <1>17, <2>1
  <2>3. CASE x = m
    <3>1. (FirstNeeds(b, x))' /\ b \in 1..n + 1
      BY ONLY <1>2, <1>11, <2>3
    <3>2. y = b
      BY <1>12, <1>17, <3>1
    <3> QED BY <2>2, <3>2
  <2>4. CASE x \in 2..n
    <3>1. y \in 1..n /\ FirstNeeds(y, x)
      BY <1>15, <1>17, <2>4
    <3> QED BY <1>3, <1>17, <2>1, <2>2, <2>4, <3>1 DEF QueueKept
  <2> QED BY <1>14, <2>3, <2>4
<1>18. ASSUME NEW j \in 1..n + 1, NEW k \in 1..Len((File(j))'.needed), (Treated(j, k))'
       PROVE  \E i \in 2..n + 1 : LibraryName[(File(j))'.needed[k]] = LibraryName[nodes'[i].soname]
  <2>1. j < b \/ (j = b /\ k < e + 1)
    BY ONLY <1>2, <1>18 DEF Treated
  <2>2. j \in 1..n
    BY <1>2, <2>1
  <2>3. (File(j))' = File(j)
    BY <1>4, <2>2
  <2>4. k \in 1..Len(File(j).needed) /\ k \in Int
    BY <2>3
  <2>5. CASE Treated(j, k)
    <3>1. PICK i \in 2..n : LibraryName[File(j).needed[k]] = LibraryName[nodes[i].soname]
      BY <1>9, <2>2, <2>4, <2>5
    <3>2. nodes'[i] = nodes[i] /\ i \in 2..n + 1
      BY <1>2, <1>3
    <3> QED BY <2>3, <3>1, <3>2
  <2>6. CASE ~Treated(j, k)
    <3>1. j = b /\ k = e
      <4>1. ~(j < b) /\ ~(j = b /\ k < e)
        BY ONLY <1>3, <2>6 DEF Treated
      <4> QED BY <1>2, <2>1, <2>4, <4>1
    <3>2. LibraryName[(File(j))'.needed[k]] = LibraryName[nodes'[m].soname]
      BY <1>3, <1>7, <2>3, <3>1
    <3>3. m \in 2..n + 1
      BY <1>2, <1>7
    <3> QED BY <3>2, <3>3
  <2> QED BY <2>5, <2>6
<1>19. Len(nodes') = n + 1 /\ at' = b
  BY <1>2, Zenon
<1>20. QED BY ONLY <1>16, <1>17, <1>18, <1>19 DEF QueueKept

LEMMA LoadNeededKeepsOrder ==
    ASSUME ProgramsFit, FilesFit, LoadInv, LinkInv, OrderInv, prog.dynamic, LoadNeeded
    PROVE  OrderInv'
<1>1. PICK name, file, a, new :
          /\ name = File(at).needed[entry] /\ file = prog.files[LibraryName[name]]
          /\ a = SuggestFreeRegion /\ new = LinkNode(name, file, a)
  OBVIOUS
<1>2. /\ stage = "load" /\ entry <= Len(File(at).needed) /\ entry' = entry + 1
      /\ UNCHANGED <<prog, at, runVars>>
      /\ \/ IsLoaded(name) /\ UNCHANGED <<stage, nodes, vectors>>
         \/ stage' = "failed" /\ UNCHANGED <<nodes, vectors>>
         \/ /\ ~IsLoaded(name) /\ LibraryName[name] \in DOMAIN prog.files
            /\ nodes' = NewNode(new)
            /\ startvec' = Adds(startvec, name, file.inits, a)
            /\ finivec' = Adds(finivec, name, file.finis, a)
            /\ stage' \in {"load", "failed"}
  <2>1. /\ stage = "load" /\ entry <= Len(File(at).needed) /\ entry' = entry + 1
        /\ UNCHANGED <<prog, at, runVars>>
    BY DEF LoadNeeded, Entries
  <2> DEFINE N == File(at).needed[entry]
             F == prog.files[LibraryName[N]]
  <2>2. \/ IsLoaded(N) /\ UNCHANGED <<stage, nodes, vectors>>
        \/ stage' = "failed" /\ UNCHANGED <<nodes, vectors>>
        \/ /\ ~IsLoaded(N) /\ LibraryName[N] \in DOMAIN prog.files
           /\ nodes' = NewNode(LinkNode(N, F, SuggestFreeRegion))
           /\ startvec' = Adds(startvec, N, F.inits, SuggestFreeRegion)
           /\ finivec' = Adds(finivec, N, F.finis, SuggestFreeRegion)
           /\ stage' = IF IsOld(File(at), N, F) THEN "failed" ELSE stage
    BY Zenon DEF LoadNeeded, Fails
  <2>3. name = N /\ file = F /\ a = SuggestFreeRegion /\ new = LinkNode(N, F, SuggestFreeRegion)
    BY <1>1
  <2> HIDE DEF N, F
  <2> QED BY <2>1, <2>2, <2>3
<1>3. /\ prog \in Programs /\ LinksTyped /\ nodes \in Seq(LinkNodes) /\ Len(nodes) \in Nat
      /\ at \in 1..Len(nodes) /\ entry \in Nat /\ a \in Nat /\ at \in Nat
  BY <1>1, <1>2, LoadingFacts
<1>4. QueueKept /\ VectorsKept
  BY DEF OrderInv
<1>5. File(at).needed \in Seq(STRING) /\ name \in STRING /\ Len(File(at).needed) \in Nat
  <2>1. nodes[at].file \in FileSet
    BY <1>3, NodeFacts
  <2>2. WellFormed(nodes[at].file)
    BY <1>3, <2>1, RootIs
  <2>3. File(at).needed \in Seq(STRING)
    BY <2>2 DEF WellFormed, File
  <2>4. entry \in 1..Len(File(at).needed)
    <3>1. entry # 0
      BY <1>3 DEF LinksTyped
    <3> QED BY <1>2, <1>3, <2>3, <3>1
  <2> QED BY <1>1, <2>3, <2>4
<1>6. CASE IsLoaded(name) /\ UNCHANGED <<stage, nodes, vectors>>
  <2>1. SameObjects
    BY <1>2, <1>6 DEF SameObjects
  <2>2. ASSUME NEW j \in 1..Len(nodes), NEW k \in 1..Len(File(j).needed), (Treated(j, k))'
        PROVE  \/ Treated(j, k)
               \/ \E i \in 2..Len(nodes) :
                     LibraryName[File(j).needed[k]] = LibraryName[nodes[i].soname]
    <3>1. j < at \/ (j = at /\ k < entry + 1)
      BY ONLY <1>2, <2>2 DEF Treated
    <3>2. CASE j = at /\ k = entry
      BY <1>1, <1>6, <3>2 DEF IsLoaded, SameLibrary
    <3>3. CASE ~(j = at /\ k = entry)
      <4>1. j < at \/ (j = at /\ k < entry)
        BY <1>3, <3>1, <3>3
      <4> QED BY <4>1 DEF Treated
    <3> QED BY <3>2, <3>3
  <2>3. at' \in Nat /\ at <= at' /\ nodes' = nodes /\ prog' = prog
    BY <1>2, <1>3, <1>6
  <2>4. QueueKept'
    BY <1>2, <1>3, <1>4, <2>2, <2>3, QueueMoves
  <2>5. VectorsKept'
    <3>1. UNCHANGED <<vectors, runVars>> /\ stage' \in {"load", "adjust", "failed"}
      BY <1>2, <1>6
    <3> QED BY <1>2, <1>4, <2>1, <3>1, VectorsLoading
  <2> QED BY <2>4, <2>5 DEF OrderInv
<1>7. CASE stage' = "failed" /\ UNCHANGED <<nodes, vectors>>
  <2>1. SameObjects /\ UNCHANGED <<vectors, runVars>>
    BY <1>2, <1>7 DEF SameObjects
  <2>2. QueueKept'
    BY <1>3, <1>4, <1>7, <2>1, QueueSame
  <2>3. VectorsKept'
    BY <1>2, <1>4, <1>7, <2>1, VectorsLoading
  <2> QED BY <2>2, <2>3 DEF OrderInv
<1>8. CASE /\ ~IsLoaded(name) /\ LibraryName[name] \in DOMAIN prog.files
           /\ nodes' = NewNode(new)
           /\ startvec' = Adds(startvec, name, file.inits, a)
           /\ finivec' = Adds(finivec, name, file.finis, a)
           /\ stage' \in {"load", "failed"}
  <2>1. file \in FileSet /\ WellFormed(file)
    <3>1. file \in FileSet
      BY <1>1, <1>8, Zenon DEF FileSet
    <3> QED BY <1>3, <3>1, RootIs
  <2>2. new \in LinkNodes /\ new.soname = name /\ new.file = file /\ new.addr = a
    <3>1. /\ new = [soname |-> name, file |-> file, addr |-> a,
                    symbols |-> file.symbols, copies |-> << >>]
          /\ file.symbols \in Seq(Symbols)
      BY <1>1, <2>1, Zenon DEF LinkNode, WellFormed
    <3> QED BY ONLY <1>3, <1>5, <2>1, <3>1 DEF LinkNodes
  <2>3. /\ Len(nodes') = Len(nodes) + 1 /\ nodes'[Len(nodes) + 1] = new
        /\ \A i \in 1..Len(nodes) : nodes'[i] = nodes[i]
    BY <1>3, <1>8, <2>2 DEF NewNode
  <2>4. prog' = prog /\ at' = at /\ ran' = ran /\ finalizer' = finalizer
    BY <1>2 DEF runVars
  <2>5. QueueKept'
    BY <1>1, <1>2, <1>3, <1>4, <1>5, <1>8, <2>2, <2>3, <2>4, LibraryQueued, Zenon
  <2>6. /\ Initialisers' = Adds(Initialisers, name, file.inits, a)
        /\ Finalisers' = Adds(Finalisers, name, file.finis, a)
        /\ Initialisers' \in Seq(Nat) /\ Finalisers' \in Seq(Nat)
    BY <1>3, <2>1, <2>2, <2>3, <2>4, VectorsAdded
  <2>7. ran \in Seq(Nat) /\ ran = << >> /\ ~finalizer
        /\ startvec = Initialisers /\ finivec = Finalisers
    BY <1>2, <1>4 DEF VectorsKept
  <2>8. startvec' = Initialisers' /\ finivec' = Finalisers'
    BY <1>8, <2>6, <2>7
  <2>9. VectorsKept'
    BY ONLY <1>8, <2>4, <2>6, <2>7, <2>8 DEF VectorsKept
  <2> QED BY <2>5, <2>9 DEF OrderInv
<1>9. QED BY <1>2, <1>6, <1>7, <1>8

-----------------------------------------------------------------------------
(* The functions of a program run in order.                                *)

LEMMA LoaderNextKeepsOrder ==
    ASSUME ProgramsFit, FilesFit, LoadInv, LinkInv, OrderInv, LoaderNext
    PROVE  OrderInv'
<1>1. prog \in Programs
  BY DEF LoadInv
<1>2. CASE ~prog.dynamic
  <2>1. prog' = prog
    BY Zenon DEF LoaderNext, LoadNeeded, NextObject, AdjustSymbols, ResolveSymbol, ResolveNext,
           ApplyRelocation, RelocateNext, ApplyPendingCopy, CopyNext, Boot, RtldInit,
           SystemCall, RtldFini, Exit, Linking, Running
  <2> QED BY <1>2, <2>1 DEF OrderInv
<1>3. CASE prog.dynamic
  <2>1. CASE LoadNeeded
    BY <1>3, <2>1, LoadNeededKeepsOrder
  <2>2. CASE NextObject
    BY <1>3, <2>2, NextObjectKeepsOrder
  <2>3. CASE \/ AdjustSymbols \/ ResolveSymbol \/ ResolveNext
             \/ ApplyRelocation \/ RelocateNext \/ ApplyPendingCopy \/ CopyNext
    BY <1>1, <1>3, <2>3, LinkStepsKeepOrder
  <2>4. CASE Boot
    BY <1>1, <1>3, <2>4, BootKeepsOrder
  <2>5. CASE RtldInit
    BY <1>1, <1>3, <2>5, InitKeepsOrder
  <2>6. CASE RtldFini
    BY <1>1, <1>3, <2>6, FiniKeepsOrder
  <2>7. CASE SystemCall \/ Exit
    BY <1>1, <1>3, <2>7, MainKeepsOrder
  <2> QED BY <2>1, <2>2, <2>3, <2>4, <2>5, <2>6, <2>7 DEF LoaderNext
<1>4. QED BY <1>2, <1>3

LEMMA FlattenOne ==
    ASSUME NEW A, NEW g \in [1..1 -> Seq(A)]
    PROVE  FlattenSeq(g) = g[1]
<1>1. PICK n : n = 1
  OBVIOUS
<1>2. n \in Nat /\ g \in [1..n -> Seq(A)]
  BY <1>1
<1>3. PICK f \in [0..n -> Seq(A)] :
              /\ f[0] = << >> /\ \A k \in 1..n : f[k] = f[k - 1] \o g[k]
              /\ FlattenSeq(g) = f[n]
  BY ONLY Zenon, <1>2, FlattenIs
<1>4. f[1] = << >> \o g[1] /\ g[1] \in Seq(A) /\ FlattenSeq(g) = f[1]
  <2>1. 1 \in 1..n /\ 1 - 1 = 0
    BY <1>1
  <2>2. f[1] = f[1 - 1] \o g[1]
    BY ONLY Zenon, <1>3, <2>1
  <2> QED BY ONLY Zenon, <1>1, <1>2, <1>3, <2>1, <2>2
<1>5. QED BY <1>4, ConcatEmptySeq

LEMMA AddressesSame ==
    ASSUME NEW offsets \in Seq(Nat)
    PROVE  Addresses(offsets, 0) = offsets
<1>1. PICK t : t = Addresses(offsets, 0)
  OBVIOUS
<1>2. Len(offsets) \in Nat /\ \A k \in 1..Len(offsets) : offsets[k] \in Nat
  OBVIOUS
<1>3. t = [k \in 1..Len(offsets) |-> offsets[k] + 0]
  BY <1>1 DEF Addresses
<1>4. t \in Seq(Nat) /\ Len(t) = Len(offsets) /\ \A k \in 1..Len(t) : t[k] = offsets[k]
  <2>1. t \in Seq(Nat)
    BY <1>1, AddressesType
  <2>2. Len(t) = Len(offsets)
    BY ONLY <1>2, <1>3
  <2>3. \A k \in 1..Len(offsets) : t[k] = offsets[k]
    BY ONLY <1>2, <1>3
  <2> QED BY <2>1, <2>2, <2>3
<1>5. t = offsets
  <2>1. PICK A : A = Nat
    BY Zenon
  <2>2. t \in Seq(A) /\ offsets \in Seq(A) /\ Len(t) = Len(offsets)
        /\ \A k \in 1..Len(t) : t[k] = offsets[k]
    BY <1>4, <2>1
  <2> QED BY ONLY <2>2, SeqEqual
<1>6. QED BY <1>1, <1>5

LEMMA OrderStarts ==
    ASSUME ProgramsFit, FilesFit, LoaderInit
    PROVE  OrderInv
<1> SUFFICES ASSUME prog.dynamic PROVE QueueKept /\ VectorsKept
  BY DEF OrderInv
<1>1. /\ prog \in Programs /\ stage = "load" /\ at = 1 /\ entry = 1
      /\ nodes = <<LinkNode("root", Root, 0)>>
      /\ startvec = Root.inits /\ finivec = Root.finis /\ finalizer = FALSE /\ ran = << >>
  BY DEF LoaderInit
<1>2. Root.inits \in Seq(Nat) /\ Root.finis \in Seq(Nat)
  BY <1>1, RootIs DEF WellFormed
<1>3. Len(nodes) = 1 /\ nodes[1].file = Root /\ nodes[1].addr = 0
  <2>1. PICK new : new = LinkNode("root", Root, 0)
    OBVIOUS
  <2>2. new.file = Root /\ new.addr = 0
    BY <2>1 DEF LinkNode
  <2>3. nodes = <<new>>
    BY <1>1, <2>1
  <2> QED BY ONLY <2>2, <2>3
<1>4. QueueKept
  <2>1. 2..Len(nodes) = {}
    BY <1>3
  <2>2. ASSUME NEW j \in 1..Len(nodes), NEW k \in 1..Len(File(j).needed) PROVE ~Treated(j, k)
    <3>1. j = 1 /\ ~(k < 1) /\ ~(j < 1)
      BY <1>3
    <3> QED BY ONLY <1>1, <3>1 DEF Treated
  <2> QED BY ONLY <2>1, <2>2 DEF QueueKept
<1>5. Initialisers = Root.inits /\ Finalisers = Root.finis
  <2> DEFINE g == [i \in 1..1 |-> Functions(i, File(i).inits)]
             h == [i \in 1..1 |-> Functions(i, File(i).finis)]
  <2>1. Initialisers = FlattenSeq(g) /\ Finalisers = FlattenSeq(h)
    BY <1>3 DEF Initialisers, Finalisers, Objects
  <2>2. /\ Functions(1, File(1).inits) = Root.inits
        /\ Functions(1, File(1).finis) = Root.finis
    <3>1. Addresses(Root.inits, 0) = Root.inits /\ Addresses(Root.finis, 0) = Root.finis
      BY <1>2, AddressesSame
    <3> QED BY ONLY <1>3, <3>1 DEF Functions, File
  <2>3. /\ g \in [1..1 -> Seq(Nat)] /\ h \in [1..1 -> Seq(Nat)]
        /\ g[1] = Root.inits /\ h[1] = Root.finis
    <3>1. \A i \in 1..1 : i = 1
      OBVIOUS
    <3> QED BY ONLY <1>2, <2>2, <3>1
  <2> HIDE DEF g, h
  <2>4. FlattenSeq(g) = g[1] /\ FlattenSeq(h) = h[1]
    <3>1. PICK A : A = Nat
      BY Zenon
    <3>2. g \in [1..1 -> Seq(A)] /\ h \in [1..1 -> Seq(A)]
      BY <2>3, <3>1
    <3> QED BY ONLY <3>2, FlattenOne
  <2> QED BY <2>1, <2>3, <2>4
<1>6. VectorsKept
  <2>1. << >> \in Seq(Nat)
    OBVIOUS
  <2> QED BY ONLY <1>1, <1>2, <1>5, <2>1 DEF VectorsKept
<1>7. QED BY <1>4, <1>6

LEMMA OrderStutters ==
    ASSUME LinkInv, OrderInv, UNCHANGED allVars
    PROVE  OrderInv'
<1>1. /\ prog' = prog /\ stage' = stage /\ at' = at /\ entry' = entry /\ nodes' = nodes
      /\ startvec' = startvec /\ finivec' = finivec /\ finalizer' = finalizer /\ ran' = ran
  BY DEF allVars, linkVars, vectors, runVars
<1> SUFFICES ASSUME prog.dynamic PROVE QueueKept' /\ VectorsKept'
  BY <1>1 DEF OrderInv
<1>2. QueueKept /\ VectorsKept /\ LinksTyped /\ SameObjects
  BY <1>1 DEF OrderInv, LinkInv, SameObjects
<1>3. QueueKept'
  <2>1. CASE stage # "load"
    BY <1>1, <1>2, <2>1, QueueSame
  <2>2. CASE stage = "load"
    <3>1. ASSUME NEW j \in 1..Len(nodes), NEW k \in 1..Len(File(j).needed), (Treated(j, k))'
          PROVE  Treated(j, k)
      BY ONLY <1>1, <3>1 DEF Treated
    <3>2. at \in Nat /\ at' \in Nat /\ at <= at'
      BY <1>1, <1>2 DEF LinksTyped
    <3> QED BY <1>1, <1>2, <2>2, <3>1, <3>2, QueueMoves
  <2> QED BY <2>1, <2>2
<1>4. VectorsKept'
  <2>1. Initialisers' = Initialisers /\ Finalisers' = Finalisers /\ Schedule' = Schedule
    BY <1>2, VectorsSame
  <2>2. prog'.entry = prog.entry
    BY <1>1
  <2> QED BY ONLY Zenon, <1>1, <1>2, <2>1, <2>2 DEF VectorsKept
<1>5. QED BY <1>3, <1>4

LEMMA PrefixIs ==
    ASSUME NEW A, NEW r \in Seq(A), NEW v \in Seq(A)
    PROVE  IsPrefix(r, r \o v)
<1>1. Len(r) \in Nat /\ Len(v) \in Nat /\ Len(r \o v) = Len(r) + Len(v)
  BY ConcatProperties
<1>2. SubSeq(r \o v, 1, Len(r)) = SubSeq(r, 1, Len(r))
  <2>1. CASE Len(r) = 0
    BY <2>1, SubSeqEmpty
  <2>2. CASE Len(r) # 0
    <3>1. 1 \in 1..Len(r) /\ Len(r) \in 1..Len(r)
      BY <1>1, <2>2
    <3> QED BY <3>1, SubSeqOfConcat1
  <2> QED BY <2>1, <2>2
<1>3. Len(r) <= Len(r \o v)
  BY <1>1
<1>4. QED BY ONLY <1>2, <1>3 DEF IsPrefix

LEMMA InvBreadthFirst ==
    ASSUME LinksTyped, QueueKept
    PROVE  BreadthFirst
<1>1. PICK n : n = Len(nodes)
  BY Zenon
<1>2. n \in Nat
  BY <1>1 DEF LinksTyped
<1>3. ASSUME NEW i \in 2..n
      PROVE  NeededBy(i) \in 1..n /\ FirstNeeds(NeededBy(i), i) /\ NeededBy(i) < i
  <2> DEFINE S == {j \in 1..n : Needs(j, i)}
  <2>1. NeededBy(i) = Min(S)
    BY <1>1 DEF NeededBy, Needs, Objects
  <2>2. PICK j \in 1..i - 1 : FirstNeeds(j, i)
    BY <1>1 DEF QueueKept
  <2>3. j \in 1..n /\ j \in Nat /\ i \in Nat /\ j < i
    BY <1>2
  <2>4. j \in S /\ S \subseteq Nat /\ S \subseteq 1..n
    BY <2>2, <2>3 DEF FirstNeeds
  <2>5. \A x \in S : Needs(x, i)
    OBVIOUS
  <2>6. \A x \in 1..n : Needs(x, i) => x \in S
    OBVIOUS
  <2> HIDE DEF S
  <2>7. Min(S) \in S /\ \A x \in S : Min(S) <= x
    BY <2>4, MinOf, Zenon
  <2>8. PICK m : m = Min(S)
    OBVIOUS
  <2>9. m \in 1..n /\ Needs(m, i) /\ m <= j /\ \A x \in S : m <= x
    BY ONLY Zenon, <2>4, <2>5, <2>7, <2>8
  <2>10. \A x \in 1..m - 1 : ~Needs(x, i)
    <3> SUFFICES ASSUME NEW x \in 1..m - 1 PROVE ~Needs(x, i)
      OBVIOUS
    <3>1. x \in 1..n /\ ~(m <= x)
      BY <1>2, <2>9
    <3> QED BY <2>6, <2>9, <3>1
  <2>11. FirstNeeds(m, i) /\ m < i
    <3>1. m < i
      BY <2>3, <2>9
    <3> QED BY <2>9, <2>10, <3>1 DEF FirstNeeds
  <2> QED BY <2>1, <2>8, <2>9, <2>11
<1>4. ASSUME NEW i \in 2..n, NEW x \in 2..n, i < x
      PROVE  NeededBy(i) <= NeededBy(x)
  <2>1. /\ NeededBy(i) \in 1..n /\ FirstNeeds(NeededBy(i), i)
        /\ NeededBy(x) \in 1..n /\ FirstNeeds(NeededBy(x), x)
    BY <1>3
  <2> QED BY <1>1, <1>4, <2>1 DEF QueueKept
<1>5. QED BY <1>1, <1>3, <1>4 DEF BreadthFirst

LEMMA InvFunctionsInOrder ==
    ASSUME ProgramsFit, FilesFit, LoadInv, LinkInv, OrderInv
    PROVE  FunctionsInOrder
<1> SUFFICES ASSUME prog.dynamic
             PROVE  /\ BreadthFirst /\ IsPrefix(ran, Schedule)
                    /\ stage = "main" => Last(ran) = prog.entry
                    /\ stage = "done" => ran = Schedule
  BY DEF FunctionsInOrder
<1>1. /\ prog \in Programs /\ LinksTyped /\ QueueKept /\ VectorsKept /\ stage \in Stages
  BY DEF LoadInv, LinkInv, LinksTyped, OrderInv
<1>2. BreadthFirst
  BY <1>1, InvBreadthFirst
<1>3. /\ Initialisers \in Seq(Nat) /\ Finalisers \in Seq(Nat) /\ prog.entry \in Nat
      /\ startvec \in Seq(Nat) /\ finivec \in Seq(Nat) /\ ran \in Seq(Nat)
  BY <1>1, VectorsType DEF VectorsKept, ProgramsFit
<1>4. PICK A, I, F, r, u, v, all :
          /\ A = Nat /\ I = Append(Initialisers, prog.entry) /\ F = Finalisers
          /\ r = ran /\ u = startvec /\ v = finivec /\ all = Schedule
  BY Zenon
<1>5. /\ Initialisers = << >> => all = I
      /\ Initialisers # << >> => all = I \o F
      /\ I \in Seq(A) /\ F \in Seq(A) /\ r \in Seq(A) /\ u \in Seq(A) /\ v \in Seq(A)
  BY <1>3, <1>4, ScheduleIs, Zenon
<1>6. /\ << >> \in Seq(A) /\ I \o F \in Seq(A) /\ u \o F \in Seq(A)
      /\ r \o << >> = r /\ I \o << >> = I
  BY ONLY <1>5, ConcatProperties, ConcatEmptySeq, EmptySeq
<1>7. all \in Seq(A)
  BY <1>5, <1>6, Zenon
<1>8. \E w \in Seq(A) : all = r \o w
  <2>1. CASE r = << >>
    <3>1. all = << >> \o all
      BY ONLY <1>7, ConcatEmptySeq
    <3> QED BY <1>7, <2>1, <3>1
  <2>2. CASE stage = "init"
    <3>1. Initialisers # << >> /\ r \o u = I
      BY ONLY Zenon, <1>1, <1>4, <2>2 DEF VectorsKept
    <3>2. all = (r \o u) \o F
      BY <1>5, <3>1
    <3>3. (r \o u) \o F = r \o (u \o F)
      BY ONLY <1>5, ConcatAssociative
    <3> QED BY <1>6, <3>2, <3>3, Zenon
  <2>3. CASE stage = "main"
    <3>1. r = I
      BY ONLY <1>1, <1>4, <2>3 DEF VectorsKept
    <3>2. all = I \/ all = I \o F
      BY <1>5
    <3> QED BY ONLY Zenon, <1>5, <1>6, <3>1, <3>2
  <2>4. CASE stage = "fini"
    <3>1. Initialisers # << >> /\ r \o v = I \o F
      BY ONLY Zenon, <1>1, <1>4, <2>4 DEF VectorsKept
    <3> QED BY <1>5, <3>1, Zenon
  <2>5. CASE stage = "done"
    <3>1. r = all
      BY ONLY <1>1, <1>4, <2>5 DEF VectorsKept
    <3> QED BY ONLY Zenon, <1>6, <3>1
  <2>6. stage \notin {"init", "main", "fini", "done"} => r = << >>
    <3>1. stage \notin {"init", "main", "fini", "done"} =>
             stage \in {"load", "adjust", "resolve", "relocate", "copy", "boot", "failed"}
      BY ONLY <1>1 DEF Stages
    <3> QED BY ONLY <1>1, <1>4, <3>1 DEF VectorsKept
  <2> QED BY <2>1, <2>2, <2>3, <2>4, <2>5, <2>6, Zenon
<1>9. IsPrefix(r, all)
  <2>1. PICK w \in Seq(A) : all = r \o w
    BY <1>8
  <2>2. IsPrefix(r, r \o w)
    BY ONLY <1>5, <2>1, PrefixIs
  <2> QED BY ONLY <2>1, <2>2
<1>10. stage = "main" => Last(ran) = prog.entry
  <2> SUFFICES ASSUME stage = "main" PROVE Last(ran) = prog.entry
    OBVIOUS
  <2>1. r = I
    BY ONLY <1>1, <1>4, stage = "main" DEF VectorsKept
  <2>2. Len(I) = Len(Initialisers) + 1 /\ I[Len(Initialisers) + 1] = prog.entry
    BY ONLY <1>3, <1>4, AppendProperties
  <2> QED BY ONLY <1>4, <2>1, <2>2 DEF Last
<1>11. stage = "done" => ran = Schedule
  BY ONLY <1>1 DEF VectorsKept
<1>12. QED BY <1>2, <1>4, <1>9, <1>10, <1>11

\* The dynamic linker loads the libraries breadth first, and what ac_rtld_init
\* and ac_rtld_fini take from the front of the vectors runs every initialiser
\* once in the order of loading, then the program, then every finaliser once.
THEOREM LoaderInOrder ==
    ProgramsFit /\ FilesFit => (LoaderSpec => []FunctionsInOrder)
<1> SUFFICES ASSUME ProgramsFit, FilesFit PROVE LoaderSpec => []FunctionsInOrder
  OBVIOUS
<1>1. LoaderInit => LoadInv /\ LinkInv /\ OrderInv
  BY LoadStarts, LinksStart, OrderStarts
<1>2. LoadInv /\ LinkInv /\ OrderInv /\ [LoaderNext]_allVars => LoadInv' /\ LinkInv' /\ OrderInv'
  <2> SUFFICES ASSUME LoadInv, LinkInv, OrderInv, [LoaderNext]_allVars
               PROVE  LoadInv' /\ LinkInv' /\ OrderInv'
    OBVIOUS
  <2>1. LoadInv' /\ LinkInv'
    BY LoadStep, LinksStep
  <2>2. CASE LoaderNext
    BY <2>1, <2>2, LoaderNextKeepsOrder
  <2>3. CASE UNCHANGED allVars
    BY <2>1, <2>3, OrderStutters
  <2> QED BY <2>2, <2>3
<1>3. LoadInv /\ LinkInv /\ OrderInv => FunctionsInOrder
  BY InvFunctionsInOrder
<1>4. QED BY <1>1, <1>2, <1>3, PTL DEF LoaderSpec
-----------------------------------------------------------------------------
(* What references mean.                                                   *)

\* What a step of the linker starts from.
LinkReady ==
    /\ ProgramsFit /\ FilesFit /\ TablesFit
    /\ prog \in Programs /\ prog.dynamic /\ memsize = prog.memsize
    /\ LoadInv /\ LinkInv

\* What an object and its tables are.
LEMMA ObjectFacts ==
    ASSUME LinkReady, NEW i \in Objects
    PROVE  /\ WellFormed(File(i)) /\ Unambiguous(File(i)) /\ Separate(prog, File(i))
           /\ File(i) \in FileSet /\ File(i).size \in Nat \ {0} /\ File(i) = nodes[i].file
           /\ nodes[i].addr \in Nat /\ (nodes[i].addr = 0 <=> i = 1)
           /\ nodes[i].symbols \in Seq(Symbols) /\ nodes[i].copies \in Seq(Copies)
           /\ Len(nodes[i].symbols) = Len(File(i).symbols)
           /\ Len(File(i).symbols) \in Nat /\ Len(File(i).relocs) \in Nat
           /\ \A k \in 1..Len(File(i).symbols) :
                 File(i).symbols[k] \in Symbols /\ nodes[i].symbols[k] \in Symbols
           /\ \A k \in 1..Len(File(i).relocs) : File(i).relocs[k] \in Relocs
<1>1. /\ ProgramsFit /\ FilesFit /\ TablesFit /\ prog \in Programs /\ prog.dynamic
      /\ LinksTyped /\ LaidOut /\ TablesKept
  BY DEF LinkReady, LinkInv
<1>2. i \in 1..Len(nodes) /\ nodes \in Seq(LinkNodes) /\ Len(nodes) \in Nat /\ nodes[1].addr = 0
  BY <1>1 DEF Objects, LinksTyped
<1>3. \A j \in 1..Len(nodes) :
          /\ nodes[j].addr \in Nat /\ nodes[j].file \in FileSet /\ WellFormed(nodes[j].file)
          /\ nodes[j].symbols \in Seq(Symbols) /\ nodes[j].copies \in Seq(Copies)
          /\ nodes[j].file.size \in Nat \ {0}
  BY <1>1, NodeFacts, SizeIs
<1>4. Unambiguous(nodes[i].file) /\ Separate(prog, nodes[i].file)
  BY <1>1, <1>2, <1>3 DEF TablesFit, FileSet
<1>5. nodes[i].addr = 0 <=> i = 1
  <2>1. CASE i = 1
    BY <1>2, <2>1
  <2>2. CASE i = 2
    <3>1. nodes[i].addr >= prog.end /\ prog.end \in Nat \ {0}
      BY <1>1, <1>2, <2>2 DEF LaidOut, ProgramsFit
    <3> QED BY <1>2, <1>3, <2>2, <3>1
  <2>3. CASE i > 2
    <3>1. i \in 2..Len(nodes) /\ i - 1 \in 1..Len(nodes)
      BY <1>2, <2>3
    <3>2. nodes[i].addr >= nodes[i - 1].addr + nodes[i - 1].file.size
      BY <1>1, <2>3, <3>1 DEF LaidOut, ObjectEnd
    <3> QED BY <1>2, <1>3, <2>3, <3>1, <3>2
  <2> QED BY <1>2, <2>1, <2>2, <2>3
<1>6. /\ nodes[i].file.symbols \in Seq(Symbols) /\ nodes[i].file.relocs \in Seq(Relocs)
      /\ Len(nodes[i].symbols) = Len(nodes[i].file.symbols)
  BY <1>1, <1>2, <1>3, Zenon DEF WellFormed, TablesKept
<1>7. /\ \A k \in 1..Len(nodes[i].symbols) :
             nodes[i].file.symbols[k] \in Symbols /\ nodes[i].symbols[k] \in Symbols
      /\ \A k \in 1..Len(nodes[i].file.relocs) : nodes[i].file.relocs[k] \in Relocs
      /\ Len(nodes[i].file.symbols) \in Nat /\ Len(nodes[i].file.relocs) \in Nat
  BY <1>2, <1>3, <1>6
<1>8. QED BY <1>2, <1>3, <1>4, <1>5, <1>6, <1>7 DEF File

\* A definition has an address.
LEMMA AddressIs ==
    ASSUME LinkReady, NEW i \in Objects, NEW k \in 1..Len(File(i).symbols),
           File(i).symbols[k].defined
    PROVE  /\ Address(<<i, k>>) \in Nat \ {0}
           /\ Address(<<i, k>>) = IF i = 1 THEN File(i).symbols[k].value
                                  ELSE Adjusted(File(i).symbols[k], nodes[i].addr).value
<1> DEFINE s == File(i).symbols[k]
           a == nodes[i].addr
<1>1. s \in Symbols /\ s.value # 0 /\ a \in Nat
  BY ObjectFacts DEF Unambiguous
<1>2. s.value \in Nat \ {0}
  BY <1>1 DEF Symbols
<1>3. CopyTarget(s.name) \in Nat
  BY RootIs, CopyTargetIs DEF LinkReady
<1>4. Symbol(<<i, k>>) = s
  BY DEF Symbol
<1>5. Address(<<i, k>>) = IF i = 1 THEN s.value
                          ELSE IF Copied(s) THEN CopyTarget(s.name) ELSE s.value + a
  BY <1>4 DEF Address
<1>6. Adjusted(s, a).value = IF Copied(s) THEN CopyTarget(s.name) ELSE s.value + a
  BY <1>1 DEF Adjusted, Symbols
<1>7. Copied(s) => CopyTarget(s.name) # 0
  BY DEF Copied
<1>8. QED BY <1>1, <1>2, <1>3, <1>5, <1>6, <1>7

-----------------------------------------------------------------------------
(* Lookups.                                                                *)

\* The symbols lookup_symbol() compares.
Named(i, name) ==
    {k \in 1..Len(nodes[i].symbols) : /\ nodes[i].symbols[k].name = name
                                      /\ nodes[i].symbols[k].defined
                                      /\ nodes[i].symbols[k].value # 0}

AcceptedOf(i, name, version) ==
    {k \in Named(i, name) : Accepts(File(i), nodes[i].symbols[k], version)}

\* What it answers when at most one symbol is accepted.
LEMMA LookupOne ==
    ASSUME NEW i, NEW name, NEW version, Len(nodes[i].symbols) \in Nat,
           \A k \in Named(i, name) : ~Unknown(File(i), nodes[i].symbols[k], version),
           \A k, j \in AcceptedOf(i, name, version) : k = j,
           NEW result, result = LookupSymbol(i, name, version)
    PROVE  /\ \A k \in AcceptedOf(i, name, version) :
                 \/ version # NoVersion \/ nodes[i].symbols[k].bind = "strong"
                 \/ \A j \in Named(i, name) : j <= k
                 => result = k
           /\ AcceptedOf(i, name, version) = {} =>
                 \/ result = NotFound /\ (version = NoVersion => \A k \in Named(i, name) :
                                                \E j \in Named(i, name) : j # k)
                 \/ version = NoVersion /\ Named(i, name) = {result}
<1> DEFINE symbols == nodes[i].symbols
           file == File(i)
           named == Named(i, name)
           accepted == AcceptedOf(i, name, version)
           strong == {k \in accepted : symbols[k].bind = "strong"}
           visited == {k \in named : strong # {} => k <= Min(strong)}
           aside == IF version = NoVersion THEN named \ accepted ELSE {}
           n == Len(nodes[i].symbols)
<1>1. result = IF \E k \in visited : Unknown(file, symbols[k], version) THEN Fatal
               ELSE IF strong # {} THEN Min(strong)
               ELSE IF aside # {} /\ Min(aside) = Max(named) THEN Min(aside)
               ELSE IF accepted # {} THEN Max(accepted)
               ELSE NotFound
  BY Zenon DEF LookupSymbol, Named, AcceptedOf
<1>2. /\ strong \subseteq accepted /\ accepted \subseteq named /\ named \subseteq 1..n
      /\ aside = (IF version = NoVersion THEN named \ accepted ELSE {})
      /\ visited \subseteq named
  BY DEF AcceptedOf, Named
<1>3. \A k \in accepted : k \in strong <=> symbols[k].bind = "strong"
  OBVIOUS
<1> HIDE DEF symbols, file, named, accepted, strong, visited, aside
<1>4. result = IF strong # {} THEN Min(strong)
               ELSE IF aside # {} /\ Min(aside) = Max(named) THEN Min(aside)
               ELSE IF accepted # {} THEN Max(accepted)
               ELSE NotFound
  BY <1>1, <1>2 DEF file, symbols, named
<1>5. \A T : T \subseteq 1..n /\ T # {} =>
          /\ Min(T) \in T /\ Max(T) \in T
          /\ \A t \in T : Min(T) <= t /\ t <= Max(T)
  <2> SUFFICES ASSUME NEW T, T \subseteq 1..n, T # {}
               PROVE  /\ Min(T) \in T /\ Max(T) \in T
                      /\ \A t \in T : Min(T) <= t /\ t <= Max(T)
    BY Zenon
  <2>1. T \subseteq Nat /\ T \subseteq 0..n /\ n \in Nat
    OBVIOUS
  <2> QED BY <2>1, MinOf, MaxOf, Zenon
<1>6. ASSUME NEW k \in accepted,
             \/ version # NoVersion \/ symbols[k].bind = "strong"
             \/ \A j \in named : j <= k
      PROVE  result = k
  <2>1. accepted = {k}
    BY DEF accepted
  <2>2. CASE strong # {}
    <3>1. Min(strong) \in strong
      BY <1>2, <1>5, <2>2, Zenon
    <3> QED BY <1>2, <1>4, <2>1, <2>2, <3>1, Zenon
  <2>3. CASE strong = {}
    <3>1. ~(aside # {} /\ Min(aside) = Max(named))
      <4> SUFFICES ASSUME aside # {}, Min(aside) = Max(named) PROVE FALSE
        OBVIOUS
      <4>1. version = NoVersion /\ aside \subseteq named /\ aside \subseteq 1..n
        BY <1>2
      <4>2. Min(aside) \in aside
        BY <1>5, <4>1, Zenon
      <4>3. symbols[k].bind # "strong"
        BY <1>3, <2>3
      <4>4. \A j \in named : j <= k
        BY <1>6, <4>1, <4>3
      <4>5. k \in named /\ named \subseteq 1..n /\ n \in Nat
        BY <1>2, <1>6
      <4>6. Max(named) \in named /\ k <= Max(named)
        BY <1>5, <4>5, Zenon
      <4>7. \A x \in named : x \in Nat
        BY <4>5
      <4>8. Max(named) \in Nat /\ k \in Nat /\ Max(named) <= k
        BY <4>4, <4>5, <4>6, <4>7, Zenon
      <4>9. Max(named) = k
        BY ONLY <4>6, <4>8
      <4>10. k \notin aside
        BY <1>2, <1>6, <4>1
      <4> QED BY <4>2, <4>9, <4>10
    <3>2. Max(accepted) = k
      BY <1>2, <1>5, <2>1
    <3> QED BY <1>4, <2>1, <2>3, <3>1, <3>2
  <2> QED BY <2>2, <2>3
<1>7. ASSUME accepted = {}
      PROVE  \/ /\ result = NotFound
                /\ version = NoVersion => \A k \in named : \E j \in named : j # k
             \/ version = NoVersion /\ named = {result}
  <2>1. strong = {}
    BY <1>2, <1>7
  <2>2. CASE version # NoVersion
    BY <1>2, <1>4, <1>7, <2>1, <2>2
  <2>3. CASE version = NoVersion /\ named = {}
    BY <1>2, <1>4, <1>7, <2>1, <2>3
  <2>4. CASE version = NoVersion /\ named # {}
    <3>1. aside = named
      BY <1>2, <1>7, <2>4
    <3>2. /\ Min(named) \in named /\ Max(named) \in named
          /\ \A t \in named : Min(named) <= t /\ t <= Max(named)
      BY <1>2, <1>5, <2>4, Zenon
    <3>3. \A x \in named : x \in Nat
      BY <1>2
    <3>4. CASE Min(named) = Max(named)
      <4>1. result = Min(named)
        BY <1>4, <2>1, <2>4, <3>1, <3>4
      <4>2. ASSUME NEW t \in named PROVE t = result
        BY <3>2, <3>3, <3>4, <4>1
      <4> QED BY <2>4, <3>2, <4>1, <4>2
    <3>5. CASE Min(named) # Max(named)
      <4>1. result = NotFound
        BY <1>4, <1>7, <2>1, <2>4, <3>1, <3>5
      <4> QED BY <3>2, <3>5, <4>1
    <3> QED BY <3>4, <3>5
  <2> QED BY <2>2, <2>3, <2>4
<1>8. QED BY <1>6, <1>7 DEF accepted, named, symbols

\* It answers with a symbol of that name, if with one at all, and gives up at one
\* of them only.
LEMMA LookupNamed ==
    ASSUME NEW i, NEW name, NEW version, Len(nodes[i].symbols) \in Nat,
           NEW result, result = LookupSymbol(i, name, version)
    PROVE  /\ result \in {Fatal, NotFound} \cup Named(i, name)
           /\ result = Fatal => \E k \in Named(i, name) :
                                    Unknown(File(i), nodes[i].symbols[k], version)
<1> DEFINE symbols == nodes[i].symbols
           file == File(i)
           named == Named(i, name)
           accepted == AcceptedOf(i, name, version)
           strong == {k \in accepted : symbols[k].bind = "strong"}
           visited == {k \in named : strong # {} => k <= Min(strong)}
           aside == IF version = NoVersion THEN named \ accepted ELSE {}
           n == Len(nodes[i].symbols)
<1>1. result = IF \E k \in visited : Unknown(file, symbols[k], version) THEN Fatal
               ELSE IF strong # {} THEN Min(strong)
               ELSE IF aside # {} /\ Min(aside) = Max(named) THEN Min(aside)
               ELSE IF accepted # {} THEN Max(accepted)
               ELSE NotFound
  BY Zenon DEF LookupSymbol, Named, AcceptedOf
<1>2. /\ strong \subseteq named /\ accepted \subseteq named /\ aside \subseteq named
      /\ visited \subseteq named /\ named \subseteq 1..n
  BY DEF AcceptedOf, Named
<1>3. \A T : T \subseteq named /\ T # {} => Min(T) \in T /\ Max(T) \in T
  <2> SUFFICES ASSUME NEW T, T \subseteq named, T # {} PROVE Min(T) \in T /\ Max(T) \in T
    OBVIOUS
  <2>1. T \subseteq 1..n
    BY <1>2
  <2>2. T \subseteq Nat /\ T \subseteq 0..n /\ n \in Nat
    BY <2>1
  <2> QED BY <2>2, MinOf, MaxOf, Zenon
<1> HIDE DEF symbols, file, named, accepted, strong, visited, aside, n
<1>5. \A k \in named : k # Fatal
  BY <1>2 DEF Fatal
<1>6. result \in {Fatal, NotFound} \cup named
  <2>1. strong # {} => Min(strong) \in named
    BY <1>2, <1>3, Zenon
  <2>2. aside # {} => Min(aside) \in named
    BY <1>2, <1>3, Zenon
  <2>3. accepted # {} => Max(accepted) \in named
    BY <1>2, <1>3, Zenon
  <2> QED BY ONLY <1>1, <2>1, <2>2, <2>3
<1>7. result = Fatal => \E k \in visited : Unknown(file, symbols[k], version)
  <2>1. strong # {} => Min(strong) # Fatal
    BY <1>2, <1>3, <1>5, Zenon
  <2>2. aside # {} => Min(aside) # Fatal
    BY <1>2, <1>3, <1>5, Zenon
  <2>3. accepted # {} => Max(accepted) # Fatal
    BY <1>2, <1>3, <1>5, Zenon
  <2>4. NotFound # Fatal
    BY DEF NotFound, Fatal
  <2> QED BY ONLY <1>1, <2>1, <2>2, <2>3, <2>4
<1>8. QED BY <1>2, <1>6, <1>7 DEF named, file, symbols

\* The definitions there are, by object.
LEMMA DefinitionIn ==
    ASSUME NEW name, NEW version, NEW d
    PROVE  d \in Definitions(name, version) <=>
               \E i \in Objects : \E k \in 1..Len(File(i).symbols) :
                   /\ d = <<i, k>>
                   /\ File(i).symbols[k].defined /\ File(i).symbols[k].value # 0
                   /\ File(i).symbols[k].name = name /\ Matches(i, k, version)
BY DEF Definitions

\* The definition that is meant is one of them, and none is in an object before.
LEMMA DefinitionIs ==
    ASSUME LinkReady, NEW name, NEW version, Definitions(name, version) # {},
           NEW all, all = Definitions(name, version),
           NEW strong, strong = {d \in all : Symbol(d).bind = "strong"},
           NEW best, best = IF strong # {} THEN strong ELSE all,
           NEW d, d = Definition(name, version)
    PROVE  d \in best /\ d \in all /\ \A e \in best : d[1] <= e[1]
<1>1. d = CHOOSE x \in best : \A e \in best : x[1] <= e[1]
  BY DEF Definition
<1>2. best # {} /\ best \subseteq all
  OBVIOUS
<1>3. Objects \subseteq Nat
  BY DEF LinkReady, LinkInv, LinksTyped, Objects
<1>4. \A e \in best : e[1] \in Nat
  <2> SUFFICES ASSUME NEW e \in best PROVE e[1] \in Nat
    OBVIOUS
  <2>1. \E i \in Objects : \E k \in 1..Len(File(i).symbols) : e = <<i, k>>
    BY <1>2, DefinitionIn
  <2> QED BY <1>3, <2>1
<1> HIDE DEF Definition
<1>5. \E x \in best : \A e \in best : x[1] <= e[1]
  <2> DEFINE U == {e[1] : e \in best}
  <2>1. U \subseteq Nat /\ U # {}
    BY ONLY <1>2, <1>4
  <2>2. PICK m \in U : \A k \in U : m <= k
    <3> HIDE DEF U
    <3> QED BY <2>1, LeastNat, Zenon
  <2>3. PICK x \in best : x[1] = m
    OBVIOUS
  <2> QED BY <2>2, <2>3
<1>6. d \in best /\ \A e \in best : d[1] <= e[1]
  BY ONLY <1>1, <1>5
<1>7. QED BY <1>2, <1>6

\* An object that defines the name: the lookup finds the definition that is
\* meant, of which there is at most one.
LEMMA LookupDefined ==
    ASSUME LinkReady, NEW i \in Objects, NEW name, NEW version,
           \A k \in 1..Len(File(i).symbols) : EntryKept(i, k),
           NEW x \in 1..Len(File(i).symbols),
           File(i).symbols[x].defined, File(i).symbols[x].name = name,
           NEW result, result = LookupSymbol(i, name, version)
    PROVE  /\ result # NotFound => result # Fatal /\ <<i, result>> \in Definitions(name, version)
           /\ \A k : <<i, k>> \in Definitions(name, version) => k = result
<1> DEFINE file == File(i)
           n == Len(File(i).symbols)
           named == Named(i, name)
           accepted == AcceptedOf(i, name, version)
           s(k) == file.symbols[k]
           t(k) == nodes[i].symbols[k]
<1>1. /\ Unambiguous(file) /\ n \in Nat /\ Len(nodes[i].symbols) = n
      /\ \A k \in 1..n : s(k) \in Symbols /\ t(k) \in Symbols
  BY ObjectFacts
<1>2. \A k \in 1..n : s(k).name = name => s(k).defined
  BY <1>1, Zenon DEF Unambiguous
<1>3. \A k \in 1..n : /\ t(k).name = s(k).name /\ t(k).version = s(k).version
                      /\ t(k).hidden = s(k).hidden
                      /\ s(k).defined => t(k).defined /\ t(k).bind = s(k).bind
                                         /\ t(k).value = Address(<<i, k>>)
  BY DEF EntryKept
<1>4. ASSUME NEW k \in 1..n, s(k).defined PROVE t(k).value # 0
  <2>1. Address(<<i, k>>) \in Nat \ {0}
    BY <1>4, AddressIs
  <2> QED BY <1>3, <1>4, <2>1
<1>5. named = {k \in 1..n : s(k).defined /\ s(k).name = name}
  BY <1>1, <1>2, <1>3, <1>4, Zenon DEF Named
<1>6. \A k \in named : Accepts(file, t(k), version) <=> Accepts(file, s(k), version)
  BY <1>3, <1>5, Zenon DEF Accepts
<1>7. \A k : k \in accepted <=> k \in named /\ Accepts(file, s(k), version)
  BY <1>6 DEF AcceptedOf
<1>8. x \in named
  BY <1>5
<1>9. /\ \A v, w \in 1..Len(file.versions) : file.versions[v] = file.versions[w] => v = w
      /\ \A k \in named : /\ s(k).value # 0
                          /\ file.versions # << >> => s(k).version \in 1..Len(file.versions)
                          /\ \A j \in named : j # k =>
                                /\ file.versions # << >> /\ s(j).version # s(k).version
                                /\ ~(IsBase(s(j)) /\ IsBase(s(k)))
                                /\ IsBase(s(k)) /\ s(k).bind = "weak" => j < k
  BY <1>1, <1>5, Zenon DEF Unambiguous
<1> HIDE DEF named, accepted
<1>10. \A k : <<i, k>> \in Definitions(name, version) <=> k \in named /\ Matches(i, k, version)
  <2> SUFFICES ASSUME NEW k
               PROVE  <<i, k>> \in Definitions(name, version) <=>
                          k \in named /\ Matches(i, k, version)
    OBVIOUS
  <2>1. ASSUME <<i, k>> \in Definitions(name, version) PROVE k \in named /\ Matches(i, k, version)
    <3>1. PICK j \in Objects : \E m \in 1..Len(File(j).symbols) :
              /\ <<i, k>> = <<j, m>> /\ File(j).symbols[m].defined
              /\ File(j).symbols[m].name = name /\ Matches(j, m, version)
      BY <2>1, DefinitionIn
    <3>2. j = i
      BY <3>1
    <3>3. k \in 1..n /\ s(k).defined /\ s(k).name = name /\ Matches(i, k, version)
      BY <3>1, <3>2
    <3> QED BY <1>5, <3>3
  <2>2. ASSUME k \in named, Matches(i, k, version) PROVE <<i, k>> \in Definitions(name, version)
    <3>1. k \in 1..n /\ s(k).defined /\ s(k).name = name /\ s(k).value # 0
      BY <1>5, <1>9, <2>2
    <3> QED BY <2>2, <3>1, DefinitionIn
  <2> QED BY <2>1, <2>2
<1>11. \A k \in named :
          Matches(i, k, version) <=>
              \/ file.versions = << >>
              \/ /\ version # NoVersion /\ ~s(k).hidden
                 /\ file.versions[s(k).version] = version
              \/ version = NoVersion /\ (IsBase(s(k)) \/ \A j \in named : j = k)
  <2> SUFFICES ASSUME NEW k \in named
               PROVE  Matches(i, k, version) <=>
                        \/ file.versions = << >>
                        \/ /\ version # NoVersion /\ ~s(k).hidden
                           /\ file.versions[s(k).version] = version
                        \/ version = NoVersion /\ (IsBase(s(k)) \/ \A j \in named : j = k)
    OBVIOUS
  <2> DEFINE others == {j \in 1..n \ {k} : s(j).defined /\ s(j).name = s(k).name}
  <2>1. others = {} <=> \A j \in named : j = k
    BY <1>5, Zenon
  <2>2. Matches(i, k, version) <=>
            \/ file.versions = << >>
            \/ /\ version # NoVersion /\ ~s(k).hidden
               /\ file.versions[s(k).version] = version
            \/ version = NoVersion /\ ((s(k).version \in 1..2 /\ ~s(k).hidden) \/ others = {})
    BY DEF Matches
  <2> HIDE DEF others
  <2> QED BY <2>1, <2>2 DEF IsBase
<1>12. \A k \in named : ~Unknown(file, t(k), version)
  BY <1>3, <1>5, <1>9, Zenon DEF Unknown
<1>13. \A k \in named : k \in 1..n
  BY <1>5
<1>14. \A k \in named : k \in accepted <=>
          \/ file.versions = << >>
          \/ version = NoVersion /\ IsBase(s(k))
          \/ /\ ~s(k).hidden /\ version # NoVersion
             /\ file.versions[s(k).version] = version
  BY <1>7, <1>9 DEF Accepts, IsBase
<1>15. accepted \subseteq named
  BY <1>7
<1> HIDE DEF file, s, t, n
<1>16. \A k, j \in accepted : k = j
  <2> SUFFICES ASSUME NEW k \in accepted, NEW j \in accepted, k # j PROVE FALSE
    OBVIOUS
  <2>1. k \in named /\ j \in named /\ file.versions # << >>
    BY <1>9, <1>15
  <2>2. CASE version = NoVersion
    BY <1>9, <1>14, <2>1, <2>2
  <2>3. CASE version # NoVersion
    <3>1. /\ file.versions[s(k).version] = version /\ file.versions[s(j).version] = version
          /\ s(k).version \in 1..Len(file.versions) /\ s(j).version \in 1..Len(file.versions)
      BY <1>9, <1>14, <2>1, <2>3
    <3>2. s(k).version = s(j).version
      BY <1>9, <3>1
    <3> QED BY <1>9, <2>1, <3>2
  <2> QED BY <2>2, <2>3
<1>17. \A k \in accepted :
          \/ version # NoVersion \/ t(k).bind = "strong" \/ \A j \in named : j <= k
  <2> SUFFICES ASSUME NEW k \in accepted, version = NoVersion, t(k).bind # "strong",
                      NEW j \in named, j # k
               PROVE  j <= k
    <3>1. \A k \in accepted : k <= k
      BY <1>13, <1>15, <1>1 DEF n
    <3> QED BY <3>1
  <2>1. k \in named /\ file.versions # << >>
    BY <1>9, <1>15
  <2>2. IsBase(s(k))
    BY <1>14, <2>1
  <2>3. k \in 1..n /\ j \in 1..n
    BY <1>13, <2>1
  <2>4. s(k).bind = "weak"
    <3>1. s(k) \in Symbols /\ s(k).defined
      BY <1>1, <1>5, <2>1, <2>3
    <3>2. t(k).bind = s(k).bind
      BY <1>3, <2>3, <3>1, Zenon
    <3>3. s(k).bind \in {"strong", "weak"}
      BY <3>1 DEF Symbols
    <3> QED BY <3>2, <3>3
  <2>5. j < k
    BY <1>9, <2>1, <2>2, <2>4
  <2> QED BY <1>1, <2>3, <2>5
<1>18. /\ \A k \in accepted : result = k
       /\ accepted = {} =>
            \/ /\ result = NotFound
               /\ version = NoVersion => \A k \in named : \E j \in named : j # k
            \/ version = NoVersion /\ named = {result}
  <2>1. Len(nodes[i].symbols) \in Nat
    BY <1>1
  <2>2. \A k \in Named(i, name) : ~Unknown(File(i), nodes[i].symbols[k], version)
    BY <1>12 DEF named, file, t
  <2>3. \A k, j \in AcceptedOf(i, name, version) : k = j
    BY <1>16 DEF accepted
  <2>4. /\ \A k \in AcceptedOf(i, name, version) :
                 \/ version # NoVersion \/ nodes[i].symbols[k].bind = "strong"
                 \/ \A j \in Named(i, name) : j <= k
                 => result = k
        /\ AcceptedOf(i, name, version) = {} =>
                 \/ result = NotFound /\ (version = NoVersion => \A k \in Named(i, name) :
                                                \E j \in Named(i, name) : j # k)
                 \/ version = NoVersion /\ Named(i, name) = {result}
    BY <2>1, <2>2, <2>3, LookupOne
  <2> QED BY <1>17, <2>4 DEF accepted, named, t
<1>19. \A k \in accepted : k # NotFound /\ k # Fatal
  BY <1>1, <1>13, <1>15 DEF NotFound, Fatal
<1>20. \A k \in named : k # NotFound /\ k # Fatal
  BY <1>1, <1>13 DEF NotFound, Fatal
<1>21. CASE accepted # {}
  <2>1. PICK k \in accepted : result = k
    BY <1>18, <1>21
  <2>2. k \in named /\ Matches(i, k, version)
    BY <1>11, <1>14, <1>15, <2>1
  <2>3. ASSUME NEW j \in named, Matches(i, j, version) PROVE j = k
    <3>1. CASE j \in accepted
      BY <1>16, <2>1, <3>1
    <3>2. CASE j \notin accepted
      <4>1. version = NoVersion /\ ~IsBase(s(j)) /\ \A m \in named : m = j
        BY <1>11, <1>14, <2>3, <3>2
      <4> QED BY <2>2, <4>1
    <3> QED BY <3>1, <3>2
  <2> QED BY <1>10, <1>19, <2>1, <2>2, <2>3
<1>22. CASE accepted = {}
  <2>1. \A k \in named : Matches(i, k, version) <=> version = NoVersion /\ \A j \in named : j = k
    BY <1>11, <1>14, <1>22
  <2>2. CASE result = NotFound /\ (version = NoVersion => \A k \in named : \E j \in named : j # k)
    BY <1>10, <2>1, <2>2
  <2>3. CASE version = NoVersion /\ named = {result}
    BY <1>10, <1>20, <2>1, <2>3
  <2> QED BY <1>18, <1>22, <2>2, <2>3
<1>23. QED BY <1>21, <1>22

\* An object that does not define it has references at most.
LEMMA LookupReferred ==
    ASSUME LinkReady, NEW i \in Objects, NEW name, NEW version,
           \A k \in 1..Len(File(i).symbols) : EntryKept(i, k),
           \A k \in 1..Len(File(i).symbols) :
               ~(File(i).symbols[k].defined /\ File(i).symbols[k].name = name),
           NEW result, result = LookupSymbol(i, name, version)
    PROVE  /\ \A k : <<i, k>> \notin Definitions(name, version)
           /\ result = Fatal => Forwards
           /\ result \notin {Fatal, NotFound} =>
                 /\ result \in 1..Len(File(i).symbols) /\ File(i).symbols[result].name = name
                 /\ IsBound(i, result)
<1> DEFINE n == Len(File(i).symbols)
           named == Named(i, name)
<1>1. n \in Nat /\ Len(nodes[i].symbols) = n
  BY ObjectFacts
<1>2. ASSUME NEW k \in named
      PROVE  k \in 1..n /\ File(i).symbols[k].name = name /\ IsBound(i, k)
  <2>1. k \in 1..n /\ nodes[i].symbols[k].name = name /\ nodes[i].symbols[k].defined
    BY <1>1 DEF Named
  <2>2. EntryKept(i, k)
    BY <2>1
  <2>3. File(i).symbols[k].name = name
    BY <2>1, <2>2 DEF EntryKept
  <2>4. ~File(i).symbols[k].defined
    BY <2>1, <2>3
  <2>5. nodes[i].symbols[k] # File(i).symbols[k]
    BY <2>1, <2>4
  <2> QED BY <2>1, <2>2, <2>3, <2>4, <2>5 DEF EntryKept
<1>3. /\ result \in {Fatal, NotFound} \cup named
      /\ result = Fatal => \E k \in named : Unknown(File(i), nodes[i].symbols[k], version)
  <2>1. Len(nodes[i].symbols) \in Nat
    BY <1>1
  <2> QED BY <2>1, LookupNamed
<1>4. ASSUME NEW k \in named, Unknown(File(i), nodes[i].symbols[k], version) PROVE Forwards
  <2>1. k \in 1..n /\ IsBound(i, k) /\ EntryKept(i, k)
    BY <1>2
  <2>2. PICK r \in References(i) : r.sym = k
    BY <2>1 DEF IsBound
  <2>3. File(i).symbols[k].version \notin 1..Len(File(i).versions) /\ File(i).versions # << >>
    BY <1>4, <2>1 DEF Unknown, EntryKept
  <2> QED BY <2>2, <2>3 DEF Forwards
<1>5. ASSUME NEW k, <<i, k>> \in Definitions(name, version) PROVE FALSE
  <2>1. PICK j \in Objects : \E m \in 1..Len(File(j).symbols) :
            <<i, k>> = <<j, m>> /\ File(j).symbols[m].defined /\ File(j).symbols[m].name = name
    BY <1>5, DefinitionIn
  <2>2. j = i
    BY <2>1
  <2> QED BY <2>1, <2>2
<1> HIDE DEF named, n
<1>6. QED BY <1>2, <1>3, <1>4, <1>5 DEF n

\* What find_symbol() answers: nothing only if there is no definition, and if all
\* who refer to the name mean the same definition an entry with its contents.
LEMMA FindMeans ==
    ASSUME LinkReady, NEW name, NEW version,
           \A i \in Objects : \A k \in 1..Len(File(i).symbols) : EntryKept(i, k),
           NEW found, found = FindSymbol(name, version)
    PROVE  /\ found[2] = NotFound => Definitions(name, version) = {}
           /\ found[2] = Fatal => Forwards
           /\ found[2] \notin {Fatal, NotFound} =>
                 /\ found[1] \in Objects /\ found[2] \in 1..Len(File(found[1]).symbols)
                 /\ nodes[found[1]].symbols[found[2]].defined
                 /\ Agreed(name) /\ (\E i \in Objects : \E r \in References(i) :
                                         Name(i, r) = name /\ Asked(i, r) = version) =>
                    HasDefinition(nodes[found[1]].symbols[found[2]], name, version)
<1> DEFINE n == Len(nodes)
           R(i) == LookupSymbol(i, name, version)
           result == [i \in 1..n |-> R(i)]
           hits == {i \in 1..n : result[i] # NotFound}
           stops == {i \in hits : \/ result[i] = Fatal
                                  \/ nodes[i].symbols[result[i]].bind = "strong"}
           f == IF stops # {} THEN Min(stops) ELSE Min(hits)
           All == Definitions(name, version)
           T(i) == nodes[i].symbols[R(i)]
           Agree == Agreed(name) /\ \E i \in Objects : \E r \in References(i) :
                                       Name(i, r) = name /\ Asked(i, r) = version
<1>1. found = IF hits = {} THEN <<0, NotFound>> ELSE <<f, result[f]>>
  BY DEF FindSymbol
<1>2. n \in Nat /\ Objects = 1..n /\ NotFound # Fatal
  BY DEF LinkReady, LinkInv, LinksTyped, Objects, NotFound, Fatal
<1>3. \A i \in 1..n : result[i] = R(i)
  OBVIOUS
<1>4. ASSUME NEW i \in 1..n
      PROVE  /\ R(i) = Fatal => Forwards
             /\ \A k : <<i, k>> \in All => k = R(i) /\ R(i) \notin {Fatal, NotFound}
             /\ R(i) \notin {Fatal, NotFound} =>
                   /\ R(i) \in 1..Len(File(i).symbols) /\ T(i).defined
                   /\ T(i).bind \in {"strong", "weak"}
                   /\ \/ /\ <<i, R(i)>> \in All /\ T(i).value = Address(<<i, R(i)>>)
                         /\ T(i).bind = Symbol(<<i, R(i)>>).bind
                      \/ Agree => HasDefinition(T(i), name, version)
  <2> DEFINE D == \E k \in 1..Len(File(i).symbols) :
                     File(i).symbols[k].defined /\ File(i).symbols[k].name = name
  <2>1. i \in Objects /\ \A k \in 1..Len(File(i).symbols) : EntryKept(i, k)
    BY <1>2
  <2>2. ASSUME R(i) \in 1..Len(File(i).symbols) PROVE T(i).bind \in {"strong", "weak"}
    <3>1. T(i) \in Symbols
      BY <2>1, <2>2, ObjectFacts
    <3> QED BY <3>1 DEF Symbols
  <2>3. Len(File(i).symbols) \in Nat
    BY <2>1, ObjectFacts
  <2>4. CASE D
    <3>1. PICK x \in 1..Len(File(i).symbols) :
              File(i).symbols[x].defined /\ File(i).symbols[x].name = name
      BY <2>4
    <3>2. /\ R(i) # NotFound => R(i) # Fatal /\ <<i, R(i)>> \in All
          /\ \A k : <<i, k>> \in All => k = R(i)
      BY <2>1, <3>1, LookupDefined
    <3>3. ASSUME NEW k, <<i, k>> \in All
          PROVE  k \in 1..Len(File(i).symbols) /\ File(i).symbols[k].defined
      <4>1. PICK j \in Objects : \E m \in 1..Len(File(j).symbols) :
                <<i, k>> = <<j, m>> /\ File(j).symbols[m].defined
        BY <3>3, DefinitionIn
      <4>2. j = i
        BY <4>1
      <4> QED BY <4>1, <4>2
    <3>4. \A k \in 1..Len(File(i).symbols) : k # NotFound /\ k # Fatal
      BY <2>3 DEF NotFound, Fatal
    <3>5. ASSUME R(i) # NotFound
          PROVE  /\ R(i) \in 1..Len(File(i).symbols) /\ T(i).defined
                 /\ T(i).value = Address(<<i, R(i)>>) /\ T(i).bind = Symbol(<<i, R(i)>>).bind
      <4>1. R(i) \in 1..Len(File(i).symbols) /\ File(i).symbols[R(i)].defined
        BY <3>2, <3>3, <3>5
      <4>2. EntryKept(i, R(i)) /\ Symbol(<<i, R(i)>>) = File(i).symbols[R(i)]
        BY <2>1, <4>1 DEF Symbol
      <4> HIDE DEF R
      <4> QED BY <4>1, <4>2 DEF EntryKept
    <3> HIDE DEF R, All, Agree, T
    <3>6. \A k : <<i, k>> \in All => k = R(i) /\ R(i) \notin {Fatal, NotFound}
      BY <3>2, <3>3, <3>4
    <3>7. R(i) # NotFound => T(i).bind \in {"strong", "weak"}
      BY <2>2, <3>5
    <3>8. NotFound # Fatal
      BY <1>2
    <3> QED BY ONLY <3>2, <3>5, <3>6, <3>7, <3>8
  <2>5. CASE ~D
    <3>1. /\ \A k : <<i, k>> \notin All
          /\ R(i) = Fatal => Forwards
          /\ R(i) \notin {Fatal, NotFound} =>
                 /\ R(i) \in 1..Len(File(i).symbols) /\ File(i).symbols[R(i)].name = name
                 /\ IsBound(i, R(i))
      BY <2>1, <2>5, LookupReferred
    <3>2. ASSUME R(i) \notin {Fatal, NotFound}
          PROVE  T(i).defined /\ (Agree => HasDefinition(T(i), name, version))
      <4> DEFINE s == File(i).symbols[R(i)]
      <4>1. /\ R(i) \in 1..Len(File(i).symbols) /\ s.name = name
            /\ T(i).defined /\ \E r \in References(i) : r.sym = R(i)
            /\ Agreed(s.name) => HasDefinition(T(i), s.name, Version(i, s))
        BY <3>1, <3>2 DEF IsBound
      <4>2. ASSUME Agree PROVE Version(i, s) = version
        <5>1. PICK r \in References(i) : r.sym = R(i)
          BY <4>1
        <5>2. PICK j \in Objects : \E q \in References(j) :
                                      Name(j, q) = name /\ Asked(j, q) = version
          BY <4>2
        <5>3. Name(i, r) = name /\ Asked(i, r) = Version(i, s)
          BY <4>1, <5>1 DEF Name, Asked
        <5> QED BY <2>1, <4>2, <5>1, <5>2, <5>3 DEF Agreed
      <4> QED BY <4>1, <4>2
    <3> HIDE DEF R, All, Agree, T
    <3> QED BY <2>2, <3>1, <3>2 DEF T
  <2> QED BY <2>4, <2>5
<1>5. \A d \in All : \E i \in 1..n : d = <<i, R(i)>>
  <2> SUFFICES ASSUME NEW d \in All PROVE \E i \in 1..n : d = <<i, R(i)>>
    OBVIOUS
  <2>1. PICK i \in Objects : \E k \in 1..Len(File(i).symbols) : d = <<i, k>>
    BY DefinitionIn
  <2>2. PICK k : d = <<i, k>>
    BY <2>1
  <2>3. \A m : <<i, m>> \in All => m = R(i)
    BY <1>2, <1>4, Zenon
  <2> HIDE DEF All, R
  <2> QED BY <1>2, <2>1, <2>2, <2>3
<1>6. /\ hits \subseteq Nat /\ stops \subseteq hits /\ hits \subseteq 1..n
      /\ \A i \in 1..n : i \in hits <=> R(i) # NotFound
      /\ \A i \in hits : i \in stops <=> R(i) = Fatal \/ T(i).bind = "strong"
  OBVIOUS
<1> HIDE DEF n, R, result, hits, stops, f, All, T, Agree
<1>7. CASE hits = {}
  <2>1. found[2] = NotFound
    BY <1>1, <1>7
  <2>2. All = {}
    BY <1>2, <1>4, <1>5, <1>6, <1>7
  <2> QED BY <1>2, <2>1, <2>2 DEF All
<1>8. CASE hits # {}
  <2>1. /\ stops # {} => f \in stops /\ \A j \in stops : f <= j
        /\ stops = {} => f \in hits /\ \A j \in hits : f <= j
    <3>1. stops \subseteq Nat
      BY <1>6
    <3> QED BY <1>6, <1>8, <3>1, MinOf, Zenon DEF f
  <2>2. f \in hits /\ f \in 1..n /\ f \in Objects
    BY <1>2, <1>6, <2>1, Zenon
  <2>3. found[1] = f /\ found[2] = R(f) /\ R(f) # NotFound
    BY <1>1, <1>3, <1>6, <1>8, <2>2
  <2>4. CASE R(f) = Fatal
    BY <1>2, <1>4, <2>2, <2>3, <2>4, Zenon
  <2>5. CASE R(f) # Fatal
    <3>1. /\ R(f) \in 1..Len(File(f).symbols) /\ T(f).defined /\ T(f).bind \in {"strong", "weak"}
          /\ \/ /\ <<f, R(f)>> \in All /\ T(f).value = Address(<<f, R(f)>>)
                /\ T(f).bind = Symbol(<<f, R(f)>>).bind
             \/ Agree => HasDefinition(T(f), name, version)
      BY <1>4, <2>2, <2>3, <2>5
    <3>2. ASSUME <<f, R(f)>> \in All, T(f).value = Address(<<f, R(f)>>),
                 T(f).bind = Symbol(<<f, R(f)>>).bind, Agree
          PROVE  HasDefinition(T(f), name, version)
      <4> DEFINE strong == {d \in All : Symbol(d).bind = "strong"}
                 best == IF strong # {} THEN strong ELSE All
                 D == Definition(name, version)
      <4>1. All # {}
        BY <3>2
      <4>2. best \subseteq All
        OBVIOUS
      <4>4. D \in best /\ \A e \in best : D[1] <= e[1]
        BY <4>1, DefinitionIs, Zenon DEF All
      <4> HIDE DEF best, D
      <4>5. PICK i \in 1..n : D = <<i, R(i)>>
        BY <1>5, <4>2, <4>4
      <4>6. i \in hits /\ R(i) \notin {Fatal, NotFound} /\ T(i).bind = Symbol(D).bind
        <5>1. <<i, R(i)>> \in All
          BY <4>2, <4>4, <4>5
        <5>2. R(i) \notin {Fatal, NotFound}
          BY <1>4, <5>1
        <5>3. T(i).bind = Symbol(D).bind
          <6>1. i \in Objects /\ R(i) \in 1..Len(File(i).symbols)
            BY <1>2, <1>4, <5>2, Zenon
          <6>2. \E j \in Objects : \E k \in 1..Len(File(j).symbols) :
                    <<i, R(i)>> = <<j, k>> /\ File(j).symbols[k].defined
            BY <5>1, DefinitionIn DEF All
          <6>3. File(i).symbols[R(i)].defined
            BY <6>2
          <6>4. EntryKept(i, R(i))
            BY <6>1
          <6>5. Symbol(D) = File(i).symbols[R(i)]
            BY <4>5 DEF Symbol
          <6> QED BY <6>3, <6>4, <6>5 DEF EntryKept, T
        <5> QED BY <1>6, <5>2, <5>3
      <4>7. f = i
        <5>1. CASE T(f).bind = "strong"
          <6>1. f \in stops
            BY <1>6, <2>2, <5>1
          <6>2. <<f, R(f)>> \in strong
            BY <3>2, <5>1
          <6>3. best = strong /\ Symbol(D).bind = "strong"
            BY <4>4, <6>2 DEF best
          <6>4. i \in stops
            BY <1>6, <4>6, <6>3
          <6>5. f <= i /\ i <= f
            BY <2>1, <4>4, <4>5, <6>2, <6>3, <6>4
          <6> QED BY <1>6, <2>2, <4>6, <6>5
        <5>2. CASE T(f).bind # "strong"
          <6>1. stops = {}
            BY <1>6, <2>1, <2>2, <2>5, <5>2
          <6>2. f <= i
            BY <2>1, <4>6, <6>1
          <6>3. strong = {}
            <7> SUFFICES ASSUME NEW d \in strong PROVE FALSE
              OBVIOUS
            <7>1. D \in strong
              BY <4>4 DEF best
            <7>2. i \in stops
              BY <1>6, <4>6, <7>1
            <7> QED BY <6>1, <7>2
          <6>4. i <= f
            BY <3>2, <4>4, <4>5, <6>3 DEF best
          <6> QED BY <1>6, <2>2, <4>6, <6>2, <6>4
        <5> QED BY <5>1, <5>2
      <4>8. D = <<f, R(f)>>
        BY <4>5, <4>7
      <4> QED BY <3>2, <4>8 DEF HasDefinition, All, D
    <3>3. Agree => HasDefinition(T(f), name, version)
      BY <3>1, <3>2
    <3> QED BY <2>2, <2>3, <2>5, <3>1, <3>3 DEF Agree, T
  <2> QED BY <2>4, <2>5
<1>9. QED BY <1>7, <1>8
-----------------------------------------------------------------------------
(* What the files alone say stays, while the tables change.                *)

\* The files, and what the program copies, stay.
LEMMA FilesSame ==
    ASSUME SameObjects
    PROVE  /\ prog' = prog /\ Objects' = Objects
           /\ \A i \in Objects : File(i)' = File(i) /\ nodes'[i].addr = nodes[i].addr
           /\ \A name : CopyTarget(name)' = CopyTarget(name)
           /\ \A s : Copied(s)' <=> Copied(s)
           /\ \A i \in Objects : \A s : Version(i, s)' = Version(i, s)
           /\ \A i \in Objects : References(i)' = References(i) /\ Copying(i)' = Copying(i)
<1>1. /\ prog' = prog /\ Objects' = Objects
      /\ \A i \in Objects : File(i)' = File(i) /\ nodes'[i].addr = nodes[i].addr
  BY DEF SameObjects, Objects, File
<1>2. \A name : CopyTarget(name)' = CopyTarget(name)
  BY <1>1 DEF CopyTarget, Root
<1>3. \A s : Copied(s)' <=> Copied(s)
  BY <1>2 DEF Copied
<1>4. ASSUME NEW i \in Objects, NEW s PROVE Version(i, s)' = Version(i, s)
  <2> DEFINE asked == {w \in Range(File(i).wants) : w.other = s.version}
  <2>1. asked' = asked
    BY <1>1
  <2>2. Version(i, s) = IF asked = {} THEN NoVersion ELSE (CHOOSE w \in asked : TRUE).version
    BY DEF Version
  <2>3. Version(i, s)' = IF asked' = {} THEN NoVersion
                         ELSE (CHOOSE w \in asked' : TRUE).version
    BY DEF Version, NoVersion
  <2> HIDE DEF asked
  <2> QED BY <2>1, <2>2, <2>3
<1>5. ASSUME NEW i \in Objects PROVE References(i)' = References(i)
  BY <1>1 DEF References
<1>6. ASSUME NEW i \in Objects PROVE Copying(i)' = Copying(i)
  <2>1. \A s : CopyOf(s, nodes[i].addr)' = CopyOf(s, nodes[i].addr)
    BY <1>1, <1>2 DEF CopyOf
  <2>2. /\ File(i)' = File(i)
        /\ \A s : CopyOf(s, nodes[i].addr)' = CopyOf(s, nodes[i].addr)
    BY <1>1, <2>1
  <2> QED BY <1>3, <2>2 DEF Copying
<1>7. QED BY <1>1, <1>2, <1>3, <1>4, <1>5, <1>6

\* The definitions there are in the next state (see DefinitionIn).
LEMMA DefinitionInNext ==
    ASSUME NEW name, NEW version, NEW d
    PROVE  d \in Definitions(name, version)' <=>
               \E i \in Objects' : \E k \in 1..Len(File(i)'.symbols) :
                   /\ d = <<i, k>>
                   /\ File(i)'.symbols[k].defined /\ File(i)'.symbols[k].value # 0
                   /\ File(i)'.symbols[k].name = name /\ Matches(i, k, version)'
BY DEF Definitions

\* So do the definitions of a name.
LEMMA DefinitionsSame ==
    ASSUME SameObjects, NEW name, NEW version
    PROVE  /\ Definitions(name, version)' = Definitions(name, version)
           /\ Definition(name, version)' = Definition(name, version)
<1>1. /\ prog' = prog /\ Objects' = Objects
      /\ \A i \in Objects : File(i)' = File(i)
  BY FilesSame
<1>2. ASSUME NEW i \in Objects, NEW k PROVE Matches(i, k, version)' <=> Matches(i, k, version)
  BY <1>1 DEF Matches
<1>3. ASSUME NEW d PROVE d \in Definitions(name, version)' <=> d \in Definitions(name, version)
  BY <1>1, <1>2, DefinitionIn, DefinitionInNext
<1>4. Definitions(name, version)' = Definitions(name, version)
  <2> DEFINE D == Definitions(name, version)
             E == Definitions(name, version)'
  <2>1. \A d : d \in E <=> d \in D
    BY <1>3
  <2>2. PICK d, e : d = D /\ e = E
    OBVIOUS
  <2>3. \A x : x \in e <=> x \in d
    BY <2>1, <2>2
  <2>4. \A x : (x \in D => x \in E) /\ (x \in E => x \in D)
    BY <2>1
  <2>5. D \subseteq E /\ E \subseteq D
    BY <2>4
  <2> HIDE DEF D, E
  <2>6. E = D
    BY <2>5
  <2> QED BY <2>6 DEF D, E
<1>5. ASSUME NEW d \in Definitions(name, version) PROVE Symbol(d)' = Symbol(d)
  <2>1. \E i \in Objects : \E k : d = <<i, k>>
    BY DefinitionIn
  <2>2. d[1] \in Objects
    BY <2>1
  <2> QED BY <1>1, <2>2 DEF Symbol
<1>6. Definition(name, version)' = Definition(name, version)
  <2> DEFINE all == Definitions(name, version)
             strong == {d \in all : Symbol(d).bind = "strong"}
             best == IF strong # {} THEN strong ELSE all
  <2>1. strong' = strong
    BY <1>4, <1>5
  <2>2. best' = best
    BY <1>4, <2>1
  <2>3. Definition(name, version) = CHOOSE d \in best : \A e \in best : d[1] <= e[1]
    BY DEF Definition
  <2>4. Definition(name, version)' = CHOOSE d \in best' : \A e \in best' : d[1] <= e[1]
    BY DEF Definition
  <2> QED BY <2>2, <2>3, <2>4, Zenon
<1>7. QED BY <1>4, <1>6

\* And with them what references mean.
LEMMA MeaningSame ==
    ASSUME LinkReady, SameObjects
    PROVE  /\ \A i \in Objects : \A k : Address(<<i, k>>)' = Address(<<i, k>>)
           /\ \A t, name, version :
                 HasDefinition(t, name, version)' <=> HasDefinition(t, name, version)
           /\ \A name : Agreed(name)' <=> Agreed(name)
           /\ \A i \in Objects : \A r : /\ Name(i, r)' = Name(i, r) /\ Asked(i, r)' = Asked(i, r)
                                        /\ Undefined(i, r)' <=> Undefined(i, r)
                                        /\ Expected(i, r)' = Expected(i, r)
<1>1. /\ prog' = prog /\ Objects' = Objects
      /\ \A i \in Objects : File(i)' = File(i) /\ nodes'[i].addr = nodes[i].addr
      /\ \A name : CopyTarget(name)' = CopyTarget(name)
      /\ \A s : Copied(s)' <=> Copied(s)
      /\ \A i \in Objects : \A s : Version(i, s)' = Version(i, s)
      /\ \A i \in Objects : References(i)' = References(i)
  BY FilesSame
<1>2. /\ \A name, version : Definitions(name, version)' = Definitions(name, version)
      /\ \A name, version : Definition(name, version)' = Definition(name, version)
  BY DefinitionsSame
<1>3. ASSUME NEW d, d[1] \in Objects PROVE Symbol(d)' = Symbol(d) /\ Address(d)' = Address(d)
  <2>1. Symbol(d)' = Symbol(d)
    BY <1>1, <1>3 DEF Symbol
  <2> QED BY <1>1, <1>3, <2>1 DEF Address
<1>4. ASSUME NEW name, NEW version, Definitions(name, version) # {}
      PROVE  Definition(name, version)[1] \in Objects
  <2>1. Definition(name, version) \in Definitions(name, version)
    BY <1>4, DefinitionIs, Zenon
  <2>2. \E i \in Objects : \E k : Definition(name, version) = <<i, k>>
    BY <2>1, DefinitionIn
  <2> QED BY <2>2
<1>5. ASSUME NEW t, NEW name, NEW version
      PROVE  HasDefinition(t, name, version)' <=> HasDefinition(t, name, version)
  <2>1. CASE Definitions(name, version) = {}
    BY <1>2, <2>1 DEF HasDefinition
  <2>2. CASE Definitions(name, version) # {}
    <3> DEFINE d == Definition(name, version)
    <3>1. d' = d /\ Symbol(d)' = Symbol(d) /\ Address(d)' = Address(d)
      BY <1>2, <1>3, <1>4, <2>2
    <3> QED BY <1>2, <3>1 DEF HasDefinition
  <2> QED BY <2>1, <2>2
<1>6. ASSUME NEW i \in Objects, NEW r PROVE Name(i, r)' = Name(i, r) /\ Asked(i, r)' = Asked(i, r)
  BY <1>1 DEF Name, Asked
<1>7. ASSUME NEW name PROVE Agreed(name)' <=> Agreed(name)
  BY <1>1, <1>6 DEF Agreed
<1>8. ASSUME NEW i \in Objects, NEW r PROVE Undefined(i, r)' <=> Undefined(i, r)
  BY <1>1, <1>2, <1>6 DEF Undefined
<1>9. ASSUME NEW i \in Objects, NEW r PROVE Expected(i, r)' = Expected(i, r)
  <2> DEFINE s == File(i).symbols[r.sym]
             version == Asked(i, r)
  <2>1. s' = s /\ version' = version /\ File(i)' = File(i) /\ nodes'[i].addr = nodes[i].addr
    BY <1>1, <1>6
  <2>2. Address(<<i, r.sym>>)' = Address(<<i, r.sym>>)
    BY <1>3
  <2>3. Definitions(s.name, version)' = Definitions(s.name, version)
    <3>1. \A name : Definitions(name, version)' = Definitions(name, version)
      BY <1>2, <2>1
    <3> QED BY <1>2, <2>1
  <2>4. Definitions(s.name, version) # {} =>
            Address(Definition(s.name, version))' = Address(Definition(s.name, version))
    BY <1>2, <1>3, <1>4, <2>1
  <2>5. Meant(i, r) = IF r.sym = 0 THEN 0
                      ELSE IF s.defined THEN Address(<<i, r.sym>>)
                      ELSE IF Definitions(s.name, version) = {} THEN s.value
                      ELSE Address(Definition(s.name, version))
    BY DEF Meant
  <2>6. Meant(i, r)' = IF r.sym = 0 THEN 0
                       ELSE IF s'.defined THEN Address(<<i, r.sym>>)'
                       ELSE IF Definitions(s.name, version)' = {} THEN s'.value
                       ELSE Address(Definition(s.name, version))'
    BY DEF Meant
  <2> HIDE DEF s, version
  <2>7. Meant(i, r)' = Meant(i, r)
    BY <2>1, <2>2, <2>3, <2>4, <2>5, <2>6
  <2> QED BY <2>1, <2>7 DEF Expected
<1>10. QED BY <1>3, <1>5, <1>6, <1>7, <1>8, <1>9
-----------------------------------------------------------------------------
(* What the loops are through with.                                        *)

\* At the end of a table, and behind the last one.
LEMMA LoopEnds ==
    ASSUME LinksTyped, prog.dynamic, NEW next, Advance(next),
           <<stage, next>> \in {<<"load", "adjust">>, <<"adjust", "resolve">>,
                                <<"resolve", "relocate">>, <<"relocate", "copy">>,
                                <<"copy", "boot">>},
           NEW i \in Objects, NEW k \in Nat \ {0}
    PROVE  /\ IsAdjusted(i)' <=> IsAdjusted(i) \/ (stage = "adjust" /\ i = at)
           /\ (stage = "resolve" /\ i = at => k < entry) =>
                 (IsResolved(i, k)' <=> IsResolved(i, k))
           /\ (stage = "relocate" /\ i = at => k < entry) =>
                 (IsRelocated(i, k)' <=> IsRelocated(i, k))
           /\ (stage = "copy" /\ i = at => k < entry) =>
                 (IsCopied(i, k)' <=> IsCopied(i, k))
<1>1. at \in 1..Len(nodes) /\ Len(nodes) \in Nat /\ i \in 1..Len(nodes) /\ entry \in Nat \ {0}
  BY DEF LinksTyped, Objects
<1>2. /\ entry' = 1
      /\ IF at < Len(nodes) THEN at' = at + 1 /\ stage' = stage ELSE at' = 1 /\ stage' = next
  BY DEF Advance
<1>3. IsAdjusted(i)' <=> IsAdjusted(i) \/ (stage = "adjust" /\ i = at)
  BY <1>1, <1>2 DEF IsAdjusted
<1>4. (stage = "resolve" /\ i = at => k < entry) => (IsResolved(i, k)' <=> IsResolved(i, k))
  BY <1>1, <1>2 DEF IsResolved, Passed, RunStages
<1>5. (stage = "relocate" /\ i = at => k < entry) => (IsRelocated(i, k)' <=> IsRelocated(i, k))
  BY <1>1, <1>2 DEF IsRelocated, Passed, RunStages
<1>6. (stage = "copy" /\ i = at => k < entry) => (IsCopied(i, k)' <=> IsCopied(i, k))
  BY <1>1, <1>2 DEF IsCopied, Passed, RunStages
<1>7. QED BY <1>3, <1>4, <1>5, <1>6

\* Behind an entry.
LEMMA LoopGoes ==
    ASSUME LinksTyped, prog.dynamic, UNCHANGED <<stage, at>>, entry' = entry + 1,
           NEW i \in Objects, NEW k \in Nat \ {0}
    PROVE  /\ IsAdjusted(i)' <=> IsAdjusted(i)
           /\ IsResolved(i, k)' <=> IsResolved(i, k) \/ (stage = "resolve" /\ i = at /\ k = entry)
           /\ IsRelocated(i, k)' <=>
                 IsRelocated(i, k) \/ (stage = "relocate" /\ i = at /\ k = entry)
           /\ IsCopied(i, k)' <=> IsCopied(i, k) \/ (stage = "copy" /\ i = at /\ k = entry)
<1>1. at \in 1..Len(nodes) /\ Len(nodes) \in Nat /\ i \in 1..Len(nodes) /\ entry \in Nat \ {0}
  BY DEF LinksTyped, Objects
<1>2. IsAdjusted(i)' <=> IsAdjusted(i)
  BY DEF IsAdjusted
<1>3. IsResolved(i, k)' <=> IsResolved(i, k) \/ (stage = "resolve" /\ i = at /\ k = entry)
  BY <1>1 DEF IsResolved, Passed, RunStages
<1>4. IsRelocated(i, k)' <=> IsRelocated(i, k) \/ (stage = "relocate" /\ i = at /\ k = entry)
  BY <1>1 DEF IsRelocated, Passed, RunStages
<1>5. IsCopied(i, k)' <=> IsCopied(i, k) \/ (stage = "copy" /\ i = at /\ k = entry)
  BY <1>1 DEF IsCopied, Passed, RunStages
<1>6. QED BY <1>2, <1>3, <1>4, <1>5

\* In and behind the last loop.
LEMMA LoopsDone ==
    ASSUME stage \in RunStages, stage' \in RunStages, NEW i, NEW k
    PROVE  /\ IsAdjusted(i)' /\ IsAdjusted(i) /\ IsResolved(i, k)' /\ IsResolved(i, k)
           /\ IsRelocated(i, k)' /\ IsRelocated(i, k) /\ IsCopied(i, k)' /\ IsCopied(i, k)
BY DEF RunStages, IsAdjusted, IsResolved, IsRelocated, IsCopied, Passed

-----------------------------------------------------------------------------
(* What stays when a table stays.                                          *)

\* An entry nothing is written to.
LEMMA EntrySame ==
    ASSUME LinkReady, SameObjects, NEW i \in Objects, NEW k, EntryKept(i, k),
           nodes'[i].symbols[k] = nodes[i].symbols[k]
    PROVE  EntryKept(i, k)'
<1> DEFINE s == File(i).symbols[k]
           t == nodes[i].symbols[k]
<1>1. File(i)' = File(i) /\ References(i)' = References(i) /\ Version(i, s)' = Version(i, s)
  <2>1. /\ File(i)' = File(i) /\ References(i)' = References(i)
        /\ \A x : Version(i, x)' = Version(i, x)
    BY FilesSame
  <2> QED BY <2>1 DEF Version
<1>2. s' = s /\ t' = t
  BY <1>1
<1>3. Address(<<i, k>>)' = Address(<<i, k>>)
  BY MeaningSame
<1>4. Agreed(s.name)' <=> Agreed(s.name)
  <2>1. \A name : Agreed(name)' <=> Agreed(name)
    BY MeaningSame
  <2> QED BY <1>2, <2>1
<1>5. (HasDefinition(t, s.name, Version(i, s)))' <=> HasDefinition(t, s.name, Version(i, s))
  <2>1. \A x, name, version : HasDefinition(x, name, version)' <=> HasDefinition(x, name, version)
    BY MeaningSame
  <2> QED BY <1>1, <1>2, <2>1
<1>6. IsBound(i, k)' <=> IsBound(i, k)
  BY <1>1, <1>2, <1>4, <1>5 DEF IsBound
<1>7. QED BY <1>1, <1>2, <1>3, <1>6 DEF EntryKept

\* A symbol that is weak stays weak, and a definition a definition: only what is
\* undefined is written over.
LEMMA WeakStays ==
    ASSUME LinkReady, SameObjects, NEW i \in Objects, NEW k, EntryKept(i, k),
           nodes[i].symbols[k].defined => nodes'[i].symbols[k] = nodes[i].symbols[k]
    PROVE  /\ IsWeak(i, k) => IsWeak(i, k)'
           /\ nodes[i].symbols[k].defined => nodes'[i].symbols[k].defined
<1>1. File(i)' = File(i)
  BY FilesSame
<1>2. CASE nodes[i].symbols[k].defined
  BY <1>1, <1>2 DEF IsWeak
<1>3. CASE ~nodes[i].symbols[k].defined
  <2>1. nodes[i].symbols[k] = File(i).symbols[k]
    BY <1>3 DEF EntryKept, IsBound
  <2> QED BY <1>1, <1>3, <2>1 DEF IsWeak
<1>4. QED BY <1>2, <1>3

\* The relocations that set the flag.
LEMMA HidesStays ==
    ASSUME LinkReady, SameObjects, NEW i \in Objects, NEW k \in 1..Len(File(i).relocs) + 1,
           \A x \in 1..Len(File(i).symbols) : IsWeak(i, x) => IsWeak(i, x)',
           Hides(i, k)
    PROVE  Hides(i, k)'
<1>1. File(i)' = File(i) /\ Len(File(i).relocs) \in Nat
  BY FilesSame, ObjectFacts
<1>2. PICK j \in 1..k - 1 :
          File(i).relocs[j].sym # 0 /\ IsWeak(i, File(i).relocs[j].sym)
  BY DEF Hides
<1>3. j \in 1..Len(File(i).relocs)
  BY <1>1
<1>4. File(i).relocs[j] \in Relocs /\ File(i).relocs[j].sym <= Len(File(i).symbols)
  BY <1>3, ObjectFacts DEF WellFormed
<1>5. File(i).relocs[j].sym \in 1..Len(File(i).symbols)
  <2>1. File(i).relocs[j].sym \in Nat /\ Len(File(i).symbols) \in Nat
    BY <1>4, ObjectFacts DEF Relocs
  <2> QED BY <1>2, <1>4, <2>1
<1>6. PICK q : q = File(i).relocs[j]
  OBVIOUS
<1>7. IsWeak(i, q.sym)'
  BY <1>2, <1>5, <1>6
<1>8. File(i).symbols[q.sym].bind = "weak" \/ nodes'[i].symbols[q.sym].bind = "weak"
  BY <1>1, <1>7 DEF IsWeak
<1>9. QED BY <1>1, <1>2, <1>6, <1>8, Zenon DEF Hides, IsWeak

\* Relocations are of symbols of the object.
LEMMA SymbolIs ==
    ASSUME LinkReady, NEW i \in Objects, NEW k \in 1..Len(File(i).relocs),
           NEW r, r = File(i).relocs[k]
    PROVE  /\ r \in Relocs /\ r \in Range(File(i).relocs)
           /\ r.sym # 0 => r.sym \in 1..Len(File(i).symbols)
<1>1. r \in Relocs /\ r.sym <= Len(File(i).symbols) /\ Len(File(i).symbols) \in Nat
  BY ObjectFacts DEF WellFormed
<1>2. r.sym \in Nat
  BY <1>1 DEF Relocs
<1>3. r \in Range(File(i).relocs)
  <2>1. File(i).relocs \in Seq(Relocs)
    BY ObjectFacts DEF WellFormed
  <2>2. DOMAIN File(i).relocs = 1..Len(File(i).relocs)
    BY <2>1
  <2> QED BY <2>2 DEF Range
<1>4. QED BY <1>1, <1>2, <1>3

\* A reference that has been resolved.
LEMMA ReferenceSame ==
    ASSUME LinkReady, SameObjects, NEW i \in Objects, NEW k \in 1..Len(File(i).relocs),
           ReferenceKept(i, k),
           \A x \in 1..Len(File(i).symbols) :
               /\ IsWeak(i, x) => IsWeak(i, x)'
               /\ nodes[i].symbols[x].defined => nodes'[i].symbols[x].defined
    PROVE  ReferenceKept(i, k)'
<1> DEFINE r == File(i).relocs[k]
<1>1. /\ File(i)' = File(i) /\ References(i)' = References(i) /\ r' = r
      /\ Len(File(i).relocs) \in Nat
  BY FilesSame, ObjectFacts
<1>2. PICK q : q = r
  OBVIOUS
<1>3. /\ Name(i, q)' = Name(i, q) /\ Asked(i, q)' = Asked(i, q)
      /\ (Undefined(i, q)' <=> Undefined(i, q))
      /\ \A name : Agreed(name)' <=> Agreed(name)
  BY MeaningSame
<1>4. \A name, version : Definitions(name, version)' = Definitions(name, version)
  BY DefinitionsSame
<1>5. /\ (Agreed(Name(i, q)))' <=> Agreed(Name(i, q))
      /\ (Definitions(Name(i, q), Asked(i, q)))' = Definitions(Name(i, q), Asked(i, q))
  BY <1>3, <1>4
<1>6. q \in References(i) => q.sym \in 1..Len(File(i).symbols)
  BY <1>2, SymbolIs DEF References
<1>7. Hides(i, k) => Hides(i, k)'
  <2>1. k \in 1..Len(File(i).relocs) + 1
    BY <1>1
  <2> QED BY <2>1, HidesStays
<1>8. ReferenceKept(i, k) <=>
          (q \in References(i) =>
             /\ Definitions(Name(i, q), Asked(i, q)) # {} => nodes[i].symbols[q.sym].defined
             /\ Undefined(i, q) /\ Agreed(Name(i, q)) => Hides(i, k))
  BY <1>2 DEF ReferenceKept
<1>9. ReferenceKept(i, k)' <=>
          (q \in References(i)' =>
             /\ (Definitions(Name(i, q), Asked(i, q)))' # {} => nodes'[i].symbols[q.sym].defined
             /\ Undefined(i, q)' /\ (Agreed(Name(i, q)))' => Hides(i, k)')
  BY <1>1, <1>2 DEF ReferenceKept
<1>10. QED BY <1>1, <1>3, <1>5, <1>6, <1>7, <1>8, <1>9

\* A word nothing is written to.
LEMMA WordSame ==
    ASSUME LinkReady, SameObjects, NEW i \in Objects, NEW k \in 1..Len(File(i).relocs),
           WordKept(i, k), IsRelocated(i, k)' <=> IsRelocated(i, k),
           NEW a, a = File(i).relocs[k].offset + nodes[i].addr,
           File(i).relocs[k].type # "copy" => mem'[a] = mem[a]
    PROVE  WordKept(i, k)'
<1> DEFINE r == File(i).relocs[k]
<1>1. /\ File(i)' = File(i) /\ References(i)' = References(i) /\ r' = r
      /\ nodes'[i].addr = nodes[i].addr
  BY FilesSame
<1>2. PICK q : q = r
  OBVIOUS
<1>3. /\ Name(i, q)' = Name(i, q) /\ Expected(i, q)' = Expected(i, q)
      /\ \A name : Agreed(name)' <=> Agreed(name)
  BY MeaningSame
<1>4. (Agreed(Name(i, q)))' <=> Agreed(Name(i, q))
  BY <1>3
<1>5. WordKept(i, k) <=>
          /\ q.type = "relative" /\ ~IsRelocated(i, k) => mem[a] = File(i).data[q.offset]
          /\ /\ q.type # "copy" /\ IsRelocated(i, k)
             /\ q \in References(i) => Agreed(Name(i, q))
             /\ Expected(i, q) % 2 = 0
             => mem[a] = Expected(i, q)
  BY <1>2 DEF WordKept
<1>6. WordKept(i, k)' <=>
          /\ q.type = "relative" /\ ~IsRelocated(i, k)' => mem'[a] = File(i)'.data[q.offset]
          /\ /\ q.type # "copy" /\ IsRelocated(i, k)'
             /\ q \in References(i)' => (Agreed(Name(i, q)))'
             /\ Expected(i, q)' % 2 = 0
             => mem'[a] = Expected(i, q)'
  BY <1>1, <1>2 DEF WordKept
<1>7. QED BY <1>1, <1>2, <1>3, <1>4, <1>5, <1>6
-----------------------------------------------------------------------------
(* What stays when all tables stay.                                        *)

\* Objects whose tables stay stay.
LEMMA SameTables ==
    ASSUME UNCHANGED <<prog, nodes>>
    PROVE  SameObjects
BY DEF SameObjects

\* The entries of all tables.
LEMMA EntriesStay ==
    ASSUME LinkReady, EntriesKept, UNCHANGED <<prog, nodes>>,
           \A i \in Objects : IsAdjusted(i)' <=> IsAdjusted(i)
    PROVE  EntriesKept'
<1>1. SameObjects /\ nodes' = nodes
  BY SameTables
<1>2. /\ Objects' = Objects
      /\ \A i \in Objects : File(i)' = File(i) /\ Copying(i)' = Copying(i)
  BY <1>1, FilesSame
<1>3. \A i \in Objects : \A k : EntryKept(i, k) => EntryKept(i, k)'
  BY <1>1, EntrySame
<1>4. QED BY <1>1, <1>2, <1>3 DEF EntriesKept

\* The references, if none is counted as resolved too soon.
LEMMA ReferencesStay ==
    ASSUME LinkReady, UNCHANGED <<prog, nodes>>,
           \A i \in Objects : \A k \in 1..Len(File(i).relocs) :
               IsResolved(i, k)' => ReferenceKept(i, k),
           stage' = "resolve" /\ weak' => /\ at' \in Objects /\ Hides(at', entry')
                                          /\ entry' \in 1..Len(File(at').relocs) + 1
    PROVE  ReferencesKept'
<1>1. SameObjects /\ nodes' = nodes
  BY SameTables
<1>2. /\ Objects' = Objects
      /\ \A i \in Objects : File(i)' = File(i)
  BY <1>1, FilesSame
<1>3. \A i \in Objects : \A x : /\ IsWeak(i, x) => IsWeak(i, x)'
                                /\ nodes[i].symbols[x].defined => nodes'[i].symbols[x].defined
  BY <1>1, <1>2 DEF IsWeak
<1>4. ASSUME NEW i \in Objects, NEW k \in 1..Len(File(i).relocs), ReferenceKept(i, k)
      PROVE  ReferenceKept(i, k)'
  BY <1>1, <1>3, <1>4, ReferenceSame
<1>5. ASSUME NEW i \in Objects, NEW k \in 1..Len(File(i).relocs) + 1, Hides(i, k)
      PROVE  Hides(i, k)'
  BY <1>1, <1>3, <1>5, HidesStays
<1>6. ASSUME stage' = "resolve", weak' PROVE (Hides(at, entry))'
  <2>1. PICK i, k : i = at' /\ k = entry'
    OBVIOUS
  <2>2. i \in Objects /\ k \in 1..Len(File(i).relocs) + 1 /\ Hides(i, k)
    BY <1>6, <2>1
  <2>3. Hides(i, k)'
    BY <1>5, <2>2
  <2> QED BY <2>1, <2>3
<1>7. QED BY <1>2, <1>4, <1>6 DEF ReferencesKept

\* The words, if none of them is written to.
LEMMA WordsStay ==
    ASSUME LinkReady, WordsKept, SameObjects,
           \A i \in Objects : \A k \in 1..Len(File(i).relocs) :
               /\ IsRelocated(i, k)' <=> IsRelocated(i, k)
               /\ File(i).relocs[k].type # "copy" =>
                     mem'[File(i).relocs[k].offset + nodes[i].addr]
                     = mem[File(i).relocs[k].offset + nodes[i].addr]
    PROVE  WordsKept'
<1>1. /\ Objects' = Objects
      /\ \A i \in Objects : File(i)' = File(i)
  BY FilesSame
<1>2. ASSUME NEW i \in Objects, NEW k \in 1..Len(File(i).relocs)
      PROVE  WordKept(i, k)'
  <2>1. WordKept(i, k)
    BY DEF WordsKept
  <2> QED BY <2>1, WordSame
<1>3. QED BY <1>1, <1>2 DEF WordsKept

\* The copies, if none is counted as done too soon.
LEMMA CopiesStay ==
    ASSUME CopiesKept, UNCHANGED <<nodes, mem>>,
           \A i \in Objects : \A k \in 1..Len(nodes[i].copies) : IsCopied(i, k)' => IsCopied(i, k)
    PROVE  CopiesKept'
<1>1. nodes' = nodes /\ mem' = mem /\ Objects' = Objects
  BY DEF Objects
<1>2. \A i \in Objects : \A k : CopyKept(i, k) => CopyKept(i, k)'
  BY <1>1 DEF CopyKept
<1>3. QED BY <1>1, <1>2 DEF CopiesKept

\* The reasons for giving a program up.
LEMMA ReasonStays ==
    ASSUME LinkReady, FailsForReason, UNCHANGED <<list, memsize, prog, at, nodes>>, at \in Objects
    PROVE  FailsForReason'
<1>1. SameObjects /\ nodes' = nodes /\ list' = list /\ memsize' = memsize /\ prog' = prog
      /\ at' = at
  BY SameTables
<1>2. /\ Objects' = Objects
      /\ \A i \in Objects : File(i)' = File(i) /\ References(i)' = References(i)
  BY <1>1, FilesSame
<1>3. \A i \in Objects : \A r : Undefined(i, r)' <=> Undefined(i, r)
  BY <1>1, MeaningSame
<1>4. (\E r \in References(at) : Undefined(at, r)) =>
          (\E r \in References(at) : Undefined(at, r))'
  <2>1. PICK i : i = at
    OBVIOUS
  <2>2. /\ References(i)' = References(i) /\ \A r : Undefined(i, r)' <=> Undefined(i, r)
    BY <1>2, <1>3, <2>1
  <2> QED BY <1>1, <2>1, <2>2
<1>5. Forwards => Forwards'
  BY <1>2 DEF Forwards
<1>6. SuggestFreeRegion' = SuggestFreeRegion
  BY <1>1 DEF SuggestFreeRegion
<1>7. QED BY <1>1, <1>2, <1>4, <1>5, <1>6 DEF FailsForReason, IsLoaded, IsOld
-----------------------------------------------------------------------------
(* Steps that leave tables and memory alone.                               *)

\* A step that only moves the position keeps the invariant.
LEMMA StaysBound ==
    ASSUME LinkReady, BindInv, UNCHANGED <<prog, nodes, mem>>,
           stage # "failed", stage' # "failed",
           \A i \in Objects : \A k \in Nat \ {0} :
               /\ IsAdjusted(i)' <=> IsAdjusted(i)
               /\ k \in 1..Len(File(i).relocs) =>
                     /\ IsResolved(i, k)' => ReferenceKept(i, k)
                     /\ IsRelocated(i, k)' <=> IsRelocated(i, k)
               /\ k \in 1..Len(nodes[i].copies) => (IsCopied(i, k)' => IsCopied(i, k)),
           stage' = "resolve" /\ weak' => /\ at' \in Objects /\ Hides(at', entry')
                                          /\ entry' \in 1..Len(File(at').relocs) + 1
    PROVE  BindInv'
<1>1. EntriesKept /\ ReferencesKept /\ WordsKept /\ CopiesKept
  BY DEF BindInv
<1>2. 1 \in Nat \ {0} /\ \A n : \A k \in 1..n : k \in Nat \ {0}
  OBVIOUS
<1>3. EntriesKept'
  BY <1>1, <1>2, EntriesStay
<1>4. ReferencesKept'
  BY <1>1, <1>2, ReferencesStay
<1>5. WordsKept'
  BY <1>1, <1>2, SameTables, WordsStay
<1>6. CopiesKept'
  BY <1>1, <1>2, CopiesStay
<1>7. QED BY <1>3, <1>4, <1>5, <1>6 DEF BindInv

\* The ends of the loops.
LEMMA AdvanceBound ==
    ASSUME LinkReady, BindInv,
           NextObject \/ ResolveNext \/ RelocateNext \/ CopyNext
    PROVE  BindInv'
<1>1. PICK next : /\ Advance(next)
                  /\ <<stage, next>> \in {<<"load", "adjust">>, <<"resolve", "relocate">>,
                                          <<"relocate", "copy">>, <<"copy", "boot">>}
                  /\ UNCHANGED <<prog, nodes, mem>>
                  /\ stage \in {"resolve", "relocate"} => ~Entries(File(at).relocs)
                  /\ stage = "copy" => ~Entries(nodes[at].copies)
  BY DEF NextObject, ResolveNext, RelocateNext, CopyNext, Linking
<1>2. LinksTyped /\ prog.dynamic /\ entry \in Nat \ {0} /\ at \in Objects
  BY DEF LinkReady, LinkInv, LinksTyped, Objects
<1>3. weak' = FALSE /\ (stage' = stage \/ stage' = next)
  BY <1>1 DEF Advance
<1>4. stage # "failed" /\ stage' # "failed" /\ stage # "adjust"
  BY <1>1, <1>3
<1>5. ASSUME NEW i \in Objects, NEW k \in Nat \ {0}
      PROVE  /\ IsAdjusted(i)' <=> IsAdjusted(i)
             /\ k \in 1..Len(File(i).relocs) =>
                   /\ IsResolved(i, k)' => ReferenceKept(i, k)
                   /\ IsRelocated(i, k)' <=> IsRelocated(i, k)
             /\ k \in 1..Len(nodes[i].copies) => (IsCopied(i, k)' => IsCopied(i, k))
  <2>1. /\ IsAdjusted(i)' <=> IsAdjusted(i) \/ (stage = "adjust" /\ i = at)
        /\ (stage = "resolve" /\ i = at => k < entry) => (IsResolved(i, k)' <=> IsResolved(i, k))
        /\ (stage = "relocate" /\ i = at => k < entry) =>
              (IsRelocated(i, k)' <=> IsRelocated(i, k))
        /\ (stage = "copy" /\ i = at => k < entry) => (IsCopied(i, k)' <=> IsCopied(i, k))
    BY <1>1, <1>2, LoopEnds
  <2>2. Len(File(i).relocs) \in Nat /\ Len(nodes[i].copies) \in Nat
    BY ObjectFacts
  <2>3. k \in 1..Len(File(i).relocs) /\ stage \in {"resolve", "relocate"} /\ i = at => k < entry
    BY <1>1, <1>2, <2>2 DEF Entries
  <2>4. k \in 1..Len(nodes[i].copies) /\ stage = "copy" /\ i = at => k < entry
    BY <1>1, <1>2, <2>2 DEF Entries
  <2>5. k \in 1..Len(File(i).relocs) => (IsResolved(i, k) => ReferenceKept(i, k))
    BY <1>4 DEF BindInv, ReferencesKept
  <2> QED BY <1>4, <2>1, <2>3, <2>4, <2>5
<1>6. QED BY <1>1, <1>3, <1>4, <1>5, StaysBound

\* The steps of the program that runs.
LEMMA RunBound ==
    ASSUME LinkReady, BindInv, Boot \/ RtldInit \/ RtldFini \/ SystemCall \/ Exit
    PROVE  BindInv'
<1>1. UNCHANGED <<prog, nodes, mem>> /\ stage \in RunStages
  BY DEF Boot, RtldInit, RtldFini, SystemCall, Exit, Running, RunStages
<1>2. stage' \in RunStages
  BY <1>1 DEF Boot, RtldInit, RtldFini, SystemCall, Exit, Running, RunStages
<1>3. stage # "failed" /\ stage' # "failed" /\ stage' # "resolve"
  BY <1>1, <1>2 DEF RunStages
<1>4. ASSUME NEW i \in Objects, NEW k \in Nat \ {0}
      PROVE  /\ IsAdjusted(i)' <=> IsAdjusted(i)
             /\ k \in 1..Len(File(i).relocs) =>
                   /\ IsResolved(i, k)' => ReferenceKept(i, k)
                   /\ IsRelocated(i, k)' <=> IsRelocated(i, k)
             /\ k \in 1..Len(nodes[i].copies) => (IsCopied(i, k)' => IsCopied(i, k))
  <2>1. k \in 1..Len(File(i).relocs) => (IsResolved(i, k) => ReferenceKept(i, k))
    BY <1>3 DEF BindInv, ReferencesKept
  <2> QED BY <1>1, <1>2, <2>1, LoopsDone
<1>5. QED BY <1>1, <1>3, <1>4, StaysBound

\* Steps of nothing.
LEMMA StutterBound ==
    ASSUME LinkReady, BindInv, UNCHANGED allVars
    PROVE  BindInv'
<1>1. UNCHANGED <<prog, nodes, mem, list, memsize, stage, at, entry, weak>>
  BY DEF allVars, vars, linkVars
<1>2. at \in Objects /\ entry \in Nat \ {0}
  BY DEF LinkReady, LinkInv, LinksTyped, Objects
<1>3. CASE stage = "failed"
  <2>1. FailsForReason
    BY <1>3 DEF BindInv
  <2>2. FailsForReason'
    BY <1>1, <1>2, <2>1, ReasonStays
  <2> QED BY <1>1, <1>3, <2>2 DEF BindInv
<1>4. CASE stage # "failed"
  <2>1. EntriesKept /\ ReferencesKept /\ WordsKept /\ CopiesKept
    BY <1>4 DEF BindInv
  <2>2. /\ \A i \in Objects : IsAdjusted(i)' <=> IsAdjusted(i)
        /\ \A i \in Objects : \A k : /\ IsResolved(i, k)' <=> IsResolved(i, k)
                                     /\ IsRelocated(i, k)' <=> IsRelocated(i, k)
                                     /\ IsCopied(i, k)' <=> IsCopied(i, k)
    BY <1>1 DEF IsAdjusted, IsResolved, IsRelocated, IsCopied, Passed
  <2>3. /\ SameObjects /\ nodes' = nodes /\ Objects' = Objects
        /\ \A i \in Objects : File(i)' = File(i)
    BY <1>1, SameTables, FilesSame
  <2>4. EntriesKept' /\ WordsKept' /\ CopiesKept'
    BY <1>1, <2>1, <2>2, <2>3, EntriesStay, WordsStay, CopiesStay
  <2>5. ReferencesKept'
    <3>1. \A i \in Objects : \A x : /\ IsWeak(i, x)' <=> IsWeak(i, x)
                                    /\ nodes[i].symbols[x].defined
                                       => nodes'[i].symbols[x].defined
      BY <2>3 DEF IsWeak
    <3>2. \A i \in Objects : \A k : Hides(i, k)' <=> Hides(i, k)
      BY <2>3 DEF Hides, IsWeak
    <3>3. \A i \in Objects : \A k \in 1..Len(File(i).relocs) :
              ReferenceKept(i, k) => ReferenceKept(i, k)'
      BY <2>3, <3>1, ReferenceSame
    <3>4. (Hides(at, entry))' <=> Hides(at, entry)
      BY <1>1, <1>2, <3>2
    <3> QED BY <1>1, <2>1, <2>2, <2>3, <3>3, <3>4 DEF ReferencesKept
  <2> QED BY <1>1, <1>4, <2>4, <2>5 DEF BindInv
<1>5. QED BY <1>3, <1>4
-----------------------------------------------------------------------------
(* Adjusting a table.                                                      *)

\* What is in a sequence.
LEMMA RangeOf ==
    ASSUME NEW S, NEW s \in Seq(S), NEW x
    PROVE  x \in Range(s) <=> \E k \in 1..Len(s) : s[k] = x
<1>1. DOMAIN s = 1..Len(s)
  OBVIOUS
<1>2. QED BY <1>1 DEF Range

\* What is in one with an element more.
LEMMA RangeFront ==
    ASSUME NEW S, NEW s \in Seq(S), NEW c \in S, NEW x
    PROVE  x \in Range(<<c>> \o s) <=> x = c \/ x \in Range(s)
<1> DEFINE u == <<c>> \o s
<1>1. /\ u \in Seq(S) /\ Len(u) = Len(s) + 1 /\ u[1] = c
      /\ \A k \in 1..Len(s) : u[k + 1] = s[k]
  OBVIOUS
<1>2. Len(s) \in Nat
  OBVIOUS
<1> HIDE DEF u
<1>3. ASSUME NEW k \in 1..Len(u) PROVE u[k] = c \/ \E j \in 1..Len(s) : s[j] = u[k]
  <2>1. CASE k = 1
    BY <1>1, <2>1
  <2>2. CASE k # 1
    <3>1. k - 1 \in 1..Len(s) /\ (k - 1) + 1 = k
      BY <1>1, <1>2, <2>2
    <3> QED BY <1>1, <3>1, Zenon
  <2> QED BY <2>1, <2>2
<1>4. 1 \in 1..Len(u) /\ \A k \in 1..Len(s) : k + 1 \in 1..Len(u)
  BY <1>1, <1>2
<1>5. x \in Range(u) <=> \E k \in 1..Len(u) : u[k] = x
  BY <1>1, RangeOf
<1>6. x \in Range(s) <=> \E k \in 1..Len(s) : s[k] = x
  BY RangeOf
<1>7. x \in Range(u) <=> x = c \/ x \in Range(s)
  BY <1>1, <1>3, <1>4, <1>5, <1>6
<1>8. QED BY <1>7 DEF u

\* Every definition the program has its own copy of is copied.
LEMMA ScheduledHolds ==
    ASSUME WellFormed(Root), NEW symbols \in Seq(Symbols), NEW addr \in Nat, NEW limit \in Nat,
           \A k \in 1..Len(symbols) : symbols[k].defined =>
               (symbols[k].value + symbols[k].size) + addr <= limit,
           NEW x
    PROVE  x \in Range(Scheduled(symbols, addr)) <=>
               \E k \in 1..Len(symbols) : /\ symbols[k].defined /\ Copied(symbols[k])
                                          /\ x = CopyOf(symbols[k], addr)
<1> DEFINE HasCopy(k) == \E j \in 1..k : /\ symbols[j].defined /\ Copied(symbols[j])
                                         /\ x = CopyOf(symbols[j], addr)
<1>1. PICK f \in [0..Len(symbols) -> Seq(CopiesBelow(limit))] :
          /\ f[0] = << >>
          /\ \A k \in 1..Len(symbols) : f[k] = Scheduling(f[k - 1], symbols[k], addr)
          /\ Scheduled(symbols, addr) = f[Len(symbols)]
  BY ScheduledBy, Zenon
<1>2. PICK n : n = Len(symbols)
  OBVIOUS
<1> DEFINE G == {k \in 0..n : x \in Range(f[k]) <=> HasCopy(k)}
<1>3. n \in Nat /\ \A k \in 1..n : symbols[k] \in Symbols
  BY <1>2
<1>4. 0 \in G
  <2>1. Range(f[0]) = {}
    BY <1>1 DEF Range
  <2>2. ~HasCopy(0) /\ 0 \in 0..n
    BY <1>3
  <2> QED BY <2>1, <2>2
<1>5. ASSUME NEW k \in 1..n, k - 1 \in G PROVE k \in G
  <2> DEFINE s == symbols[k]
             c == CopyOf(s, addr)
  <2>1. /\ k \in 0..n /\ k - 1 \in 0..n /\ k \in Nat /\ k >= 1
        /\ f[k] = Scheduling(f[k - 1], s, addr)
        /\ f[k - 1] \in Seq(CopiesBelow(limit)) /\ f[k] \in Seq(CopiesBelow(limit))
    <3>1. k \in 0..n /\ k - 1 \in 0..n /\ k \in Nat /\ k >= 1
      BY <1>3
    <3>2. f[k] = Scheduling(f[k - 1], s, addr)
      BY <1>1, <1>2
    <3>3. f \in [0..n -> Seq(CopiesBelow(limit))]
      BY <1>1, <1>2
    <3> QED BY <3>1, <3>2, <3>3, Zenon
  <2>2. HasCopy(k) <=> HasCopy(k - 1) \/ (s.defined /\ Copied(s) /\ x = c)
    <3>1. \A j \in 1..k : j \in 1..k - 1 \/ j = k
      BY <2>1
    <3>2. k \in 1..k /\ \A j \in 1..k - 1 : j \in 1..k
      BY <2>1
    <3> QED BY <3>1, <3>2
  <2>3. x \in Range(f[k - 1]) <=> HasCopy(k - 1)
    BY <1>5
  <2> HIDE DEF HasCopy
  <2>4. CASE s.defined /\ Copied(s)
    <3>1. f[k] = <<c>> \o f[k - 1]
      BY <2>1, <2>4, Zenon DEF Scheduling
    <3>2. c \in CopiesBelow(limit)
      <4>1. /\ c = [dst |-> CopyTarget(s.name), src |-> s.value + addr, size |-> s.size]
            /\ CopyTarget(s.name) \in Nat /\ s.value \in Nat /\ s.size \in Nat
        BY <1>3, CopyTargetIs, Zenon DEF CopyOf, Symbols
      <4>2. (s.value + s.size) + addr <= limit
        BY <1>2, <2>4
      <4>3. c \in Copies
        BY <4>1 DEF Copies
      <4>4. (s.value + addr) + s.size <= limit
        BY ONLY <1>2, <4>1, <4>2
      <4>5. c.src + c.size <= limit
        BY <4>1, <4>4
      <4> QED BY <4>3, <4>5 DEF CopiesBelow
    <3> HIDE DEF c, s
    <3>3. x \in Range(f[k]) <=> x = c \/ x \in Range(f[k - 1])
      <4>1. PICK S : S = CopiesBelow(limit)
        OBVIOUS
      <4>2. f[k - 1] \in Seq(S) /\ c \in S
        BY <2>1, <3>2, <4>1
      <4> QED BY ONLY <3>1, <4>2, RangeFront
    <3> QED BY <2>1, <2>2, <2>3, <2>4, <3>3
  <2>5. CASE ~(s.defined /\ Copied(s))
    <3>1. f[k] = f[k - 1]
      BY <2>1, <2>5 DEF Scheduling
    <3> QED BY <2>1, <2>2, <2>3, <2>5, <3>1
  <2> QED BY <2>4, <2>5
<1>6. \A k \in 0..n : k \in G
  <2> HIDE DEF G
  <2> QED BY <1>3, <1>4, <1>5, UpTo
<1>7. n \in 0..n
  BY <1>3
<1>8. x \in Range(f[n]) <=> HasCopy(n)
  BY <1>6, <1>7, Zenon
<1>9. QED BY <1>1, <1>2, <1>8

\* One node is written to.
LEMMA NodeReplaced ==
    ASSUME LinksTyped, prog.dynamic, NEW new, nodes' = [nodes EXCEPT ![at] = new]
    PROVE  nodes'[at] = new /\ \A i \in Objects : i # at => nodes'[i] = nodes[i]
<1>1. nodes \in Seq(LinkNodes) /\ at \in 1..Len(nodes)
  BY DEF LinksTyped
<1>2. DOMAIN nodes = 1..Len(nodes)
  BY <1>1
<1>3. QED BY <1>1, <1>2 DEF Objects

\* Tables have room for what they define.
LEMMA SymbolsInside ==
    ASSUME LinkReady, NEW i \in Objects, i # 1, NEW k \in 1..Len(File(i).symbols),
           File(i).symbols[k].defined
    PROVE  (File(i).symbols[k].value + File(i).symbols[k].size) + nodes[i].addr <= memsize
<1> DEFINE s == File(i).symbols[k]
<1>1. /\ s \in Symbols /\ s.value + s.size <= File(i).size /\ nodes[i].addr \in Nat
      /\ File(i).size \in Nat
  BY ObjectFacts DEF WellFormed
<1>2. s.value \in Nat /\ s.size \in Nat
  BY <1>1 DEF Symbols
<1>3. i \in 2..Len(nodes)
  <2>1. nodes \in Seq(LinkNodes)
    BY DEF LinkReady, LinkInv, LinksTyped
  <2> QED BY <2>1 DEF Objects
<1>4. nodes[i].addr + File(i).size <= memsize
  <2>1. LaidOut
    BY DEF LinkReady, LinkInv
  <2>2. ObjectEnd(nodes[i]) <= memsize
    BY <1>3, <2>1 DEF LaidOut
  <2> QED BY <2>2 DEF ObjectEnd, File
<1>5. memsize \in Nat
  BY MemMapAssumption DEF LinkReady, LoadInv, MapInv, ListInv
<1>6. QED BY <1>1, <1>2, <1>4, <1>5

\* What adjust_symbols() makes of the object it is at.
LEMMA AdjustIs ==
    ASSUME LinkReady, AdjustSymbols
    PROVE  /\ SameObjects /\ at \in Objects
           /\ \A i \in Objects : i # at \/ i = 1 => nodes'[i] = nodes[i]
           /\ nodes[at].symbols = File(at).symbols
           /\ at # 1 => /\ nodes'[at].copies = Scheduled(File(at).symbols, nodes[at].addr)
                        /\ \A k \in 1..Len(File(at).symbols) :
                              nodes'[at].symbols[k]
                              = Adjusted(File(at).symbols[k], nodes[at].addr)
<1> DEFINE node == nodes[at]
           s == [k \in 1..Len(node.symbols) |-> Adjusted(node.symbols[k], node.addr)]
           c == Scheduled(node.symbols, node.addr)
           new == [node EXCEPT !.symbols = s, !.copies = c]
<1>1. /\ LinksTyped /\ prog.dynamic /\ TablesKept /\ at \in Objects /\ stage = "adjust"
      /\ at \in Nat /\ node \in LinkNodes
  BY DEF LinkReady, LinkInv, LinksTyped, Objects, AdjustSymbols
<1>2. SameObjects
  BY <1>1, AdjustSame
<1>3. nodes[at].symbols = File(at).symbols
  BY <1>1 DEF TablesKept, Objects, File
<1>4. nodes[at].addr = 0 <=> at = 1
  BY <1>1, ObjectFacts
<1>5. nodes' = IF node.addr = 0 THEN nodes
               ELSE [nodes EXCEPT ![at].symbols = s, ![at].copies = c]
  BY DEF AdjustSymbols
<1> HIDE DEF s, c
<1>6. CASE at = 1
  BY <1>1, <1>2, <1>3, <1>4, <1>5, <1>6
<1>7. CASE at # 1
  <2>1. nodes' = [nodes EXCEPT ![at] = new]
    <3>1. nodes \in Seq(LinkNodes) /\ at \in 1..Len(nodes)
      BY <1>1 DEF LinksTyped
    <3> QED BY <1>4, <1>5, <1>7, <3>1, Zenon
  <2>2. new.symbols = s /\ new.copies = c
    BY <1>1 DEF LinkNodes
  <2> HIDE DEF new
  <2>3. nodes'[at] = new /\ \A i \in Objects : i # at => nodes'[i] = nodes[i]
    BY <1>1, <2>1, NodeReplaced, Zenon
  <2>4. \A k \in 1..Len(File(at).symbols) : s[k] = Adjusted(File(at).symbols[k], nodes[at].addr)
    BY <1>3 DEF s
  <2>5. c = Scheduled(File(at).symbols, nodes[at].addr)
    BY <1>3 DEF c
  <2> QED BY <1>1, <1>2, <1>3, <1>7, <2>2, <2>3, <2>4, <2>5
<1>8. QED BY <1>6, <1>7

\* A table that has been adjusted.
LEMMA AdjustedEntry ==
    ASSUME LinkReady, SameObjects, NEW i \in Objects, nodes[i].symbols = File(i).symbols,
           NEW k \in 1..Len(File(i).symbols),
           nodes'[i].symbols[k] = IF i = 1 THEN File(i).symbols[k]
                                  ELSE Adjusted(File(i).symbols[k], nodes[i].addr)
    PROVE  EntryKept(i, k)'
<1> DEFINE s == File(i).symbols[k]
           t == nodes'[i].symbols[k]
<1>1. s \in Symbols /\ File(i)' = File(i) /\ Address(<<i, k>>)' = Address(<<i, k>>)
  BY ObjectFacts, FilesSame, MeaningSame
<1>2. CASE s.defined
  <2>1. Address(<<i, k>>) = t.value
    BY <1>2, AddressIs
  <2>2. t.name = s.name /\ t.version = s.version /\ t.hidden = s.hidden
        /\ t.bind = s.bind /\ t.defined
    <3>1. \E v : Adjusted(s, nodes[i].addr) = [s EXCEPT !.value = v]
      BY <1>2, Zenon DEF Adjusted
    <3>2. t = s \/ \E v : t = [s EXCEPT !.value = v]
      BY <3>1, Zenon
    <3> HIDE DEF t, s
    <3> QED BY <1>1, <1>2, <3>2 DEF Symbols
  <2> QED BY <1>1, <1>2, <2>1, <2>2 DEF EntryKept
<1>3. CASE ~s.defined
  <2>1. t = s
    BY <1>3 DEF Adjusted
  <2> QED BY <1>1, <1>3, <2>1 DEF EntryKept
<1>4. QED BY <1>2, <1>3

\* The copies scheduled are those of the definitions the program copies.
LEMMA AdjustedCopies ==
    ASSUME LinkReady, NEW i \in Objects, i # 1
    PROVE  Range(Scheduled(File(i).symbols, nodes[i].addr)) = Copying(i)
<1> DEFINE symbols == File(i).symbols
           addr == nodes[i].addr
           R == Range(Scheduled(symbols, addr))
<1>1. WellFormed(Root) /\ symbols \in Seq(Symbols) /\ addr \in Nat /\ memsize \in Nat
  BY ObjectFacts, RootIs, MemMapAssumption
     DEF LinkReady, WellFormed, LoadInv, MapInv, ListInv
<1>2. \A k \in 1..Len(symbols) :
          symbols[k].defined => (symbols[k].value + symbols[k].size) + addr <= memsize
  BY SymbolsInside
<1> HIDE DEF symbols, addr, R
<1>3. ASSUME NEW x
      PROVE  x \in Range(Scheduled(symbols, addr)) <=>
                 \E k \in 1..Len(symbols) : /\ symbols[k].defined /\ Copied(symbols[k])
                                            /\ x = CopyOf(symbols[k], addr)
  BY <1>1, <1>2, ScheduledHolds, Zenon
<1>4. \A s : s \in Range(symbols) <=> \E k \in 1..Len(symbols) : symbols[k] = s
  BY <1>1, RangeOf
<1>5. Copying(i) = {CopyOf(s, addr) : s \in {t \in Range(symbols) : t.defined /\ Copied(t)}}
  BY DEF Copying, symbols, addr
<1>6. \A x : x \in Copying(i) <=> x \in R
  BY <1>3, <1>4, <1>5 DEF R
<1>7. Copying(i) = R
  BY <1>6
<1>8. QED BY <1>7 DEF R, symbols, addr

\* adjust_symbols() keeps the invariant.
LEMMA AdjustBound ==
    ASSUME LinkReady, BindInv, AdjustSymbols
    PROVE  BindInv'
<1>1. /\ stage = "adjust" /\ mem' = mem /\ prog' = prog /\ Advance("resolve")
      /\ LinksTyped /\ prog.dynamic
  BY DEF AdjustSymbols, Linking, LinkReady, LinkInv
<1>2. /\ SameObjects /\ at \in Objects
      /\ \A i \in Objects : i # at \/ i = 1 => nodes'[i] = nodes[i]
      /\ nodes[at].symbols = File(at).symbols
      /\ at # 1 => /\ nodes'[at].copies = Scheduled(File(at).symbols, nodes[at].addr)
                   /\ \A k \in 1..Len(File(at).symbols) :
                         nodes'[at].symbols[k] = Adjusted(File(at).symbols[k], nodes[at].addr)
  BY AdjustIs
<1>3. weak' = FALSE /\ stage' \in {"adjust", "resolve"} /\ (stage' = "resolve" => at' = 1)
      /\ entry' = 1
  BY <1>1 DEF Advance
<1>4. EntriesKept /\ WordsKept /\ CopiesKept
  BY <1>1 DEF BindInv
<1>5. ASSUME NEW i \in Objects, NEW k \in Nat \ {0}
      PROVE  /\ IsAdjusted(i)' <=> IsAdjusted(i) \/ i = at
             /\ ~IsResolved(i, k)' /\ ~IsRelocated(i, k)' /\ ~IsRelocated(i, k)
             /\ ~IsCopied(i, k)'
  <2>1. <<stage, "resolve">> \in {<<"load", "adjust">>, <<"adjust", "resolve">>,
                                <<"resolve", "relocate">>, <<"relocate", "copy">>,
                                <<"copy", "boot">>}
    BY <1>1
  <2>2. /\ IsAdjusted(i)' <=> IsAdjusted(i) \/ (stage = "adjust" /\ i = at)
        /\ (stage = "resolve" /\ i = at => k < entry) => (IsResolved(i, k)' <=> IsResolved(i, k))
        /\ (stage = "relocate" /\ i = at => k < entry) =>
              (IsRelocated(i, k)' <=> IsRelocated(i, k))
        /\ (stage = "copy" /\ i = at => k < entry) => (IsCopied(i, k)' <=> IsCopied(i, k))
    BY <1>1, <2>1, LoopEnds
  <2>3. ~IsResolved(i, k) /\ ~IsRelocated(i, k) /\ ~IsCopied(i, k)
    BY <1>1 DEF IsResolved, IsRelocated, IsCopied, Passed, RunStages
  <2> QED BY <1>1, <2>2, <2>3
<1>6. 1 \in Nat \ {0} /\ \A n : \A k \in 1..n : k \in Nat \ {0}
  OBVIOUS
<1>7. /\ Objects' = Objects
      /\ \A i \in Objects : File(i)' = File(i) /\ Copying(i)' = Copying(i)
  BY <1>2, FilesSame
<1>8. EntriesKept'
  <2>1. ASSUME NEW i \in Objects, i # at, IsAdjusted(i)
        PROVE  /\ \A k \in 1..Len(File(i).symbols) : EntryKept(i, k)'
               /\ Range(nodes'[i].copies) = Copying(i)
    <3>1. nodes'[i] = nodes[i]
      BY <1>2, <2>1
    <3>2. \A k \in 1..Len(File(i).symbols) : EntryKept(i, k)
      BY <1>4, <2>1 DEF EntriesKept
    <3>3. Range(nodes[i].copies) = Copying(i)
      BY <1>4, <2>1 DEF EntriesKept
    <3> QED BY <1>2, <3>1, <3>2, <3>3, EntrySame
  <2>2. ASSUME NEW i \in Objects, i = at
        PROVE  /\ \A k \in 1..Len(File(i).symbols) : EntryKept(i, k)'
               /\ Range(nodes'[i].copies) = Copying(i)
    <3>1. \A k \in 1..Len(File(i).symbols) :
              nodes'[i].symbols[k] = IF i = 1 THEN File(i).symbols[k]
                                     ELSE Adjusted(File(i).symbols[k], nodes[i].addr)
      BY <1>2, <2>2
    <3>2. \A k \in 1..Len(File(i).symbols) : EntryKept(i, k)'
      BY <1>2, <2>2, <3>1, AdjustedEntry
    <3>3. CASE i = 1
      <4>1. ~IsAdjusted(i)
        BY <1>1, <1>2, <2>2 DEF IsAdjusted, Objects
      <4>2. nodes'[i].copies = << >>
        BY <1>2, <1>4, <3>3, <4>1 DEF EntriesKept
      <4>3. Range(nodes'[i].copies) = {}
        BY <4>2 DEF Range
      <4> QED BY <3>2, <3>3, <4>3 DEF Copying
    <3>4. CASE i # 1
      BY <1>2, <2>2, <3>2, <3>4, AdjustedCopies
    <3> QED BY <3>3, <3>4
  <2>3. ASSUME NEW i \in Objects, i # at, ~IsAdjusted(i) PROVE nodes'[i].copies = << >>
    BY <1>2, <1>4, <2>3 DEF EntriesKept
  <2> QED BY <1>5, <1>6, <1>7, <2>1, <2>2, <2>3, Zenon DEF EntriesKept
<1>9. ReferencesKept'
  BY <1>3, <1>5, <1>6, <1>7 DEF ReferencesKept
<1>10. WordsKept'
  BY <1>1, <1>2, <1>4, <1>5, <1>6, WordsStay
<1>11. CopiesKept'
  BY <1>5, <1>6, <1>7 DEF CopiesKept
<1>12. stage' # "failed"
  BY <1>3
<1>13. QED BY <1>8, <1>9, <1>10, <1>11, <1>12 DEF BindInv
-----------------------------------------------------------------------------
(* Resolving a reference.                                                  *)

\* The relocation resolve_symbols() is at.
LEMMA ResolveAt ==
    ASSUME LinkReady, BindInv, stage = "resolve", Entries(File(at).relocs),
           NEW r, r = File(at).relocs[entry]
    PROVE  /\ LinksTyped /\ prog.dynamic /\ at \in Objects /\ entry \in 1..Len(File(at).relocs)
           /\ entry \in Nat \ {0} /\ weak \in BOOLEAN
           /\ r \in Relocs /\ r \in Range(File(at).relocs)
           /\ r.sym # 0 => r.sym \in 1..Len(File(at).symbols)
           /\ \A i \in Objects : \A k \in 1..Len(File(i).symbols) : EntryKept(i, k)
           /\ weak => Hides(at, entry)
<1>1. /\ LinksTyped /\ prog.dynamic /\ at \in Objects /\ entry \in Nat \ {0}
      /\ weak \in BOOLEAN
  BY DEF LinkReady, LinkInv, LinksTyped, Objects
<1>2. entry \in 1..Len(File(at).relocs)
  <2>1. Len(File(at).relocs) \in Nat
    BY <1>1, ObjectFacts
  <2> QED BY <1>1, <2>1 DEF Entries
<1>3. /\ r \in Relocs /\ r \in Range(File(at).relocs)
      /\ r.sym # 0 => r.sym \in 1..Len(File(at).symbols)
  BY <1>1, <1>2, SymbolIs
<1>4. EntriesKept /\ ReferencesKept
  BY DEF BindInv
<1>5. \A i \in Objects : \A k \in 1..Len(File(i).symbols) : EntryKept(i, k)
  BY <1>4 DEF EntriesKept, IsAdjusted
<1>6. weak => Hides(at, entry)
  BY <1>4 DEF ReferencesKept
<1>7. QED BY <1>1, <1>2, <1>3, <1>5, <1>6

\* A reference that has no definition yet is as in the file.
LEMMA Unbound ==
    ASSUME LinkReady, NEW i \in Objects, NEW r \in Range(File(i).relocs),
           r.sym \in 1..Len(File(i).symbols), EntryKept(i, r.sym), r.sym # 0,
           NEW s, s = nodes[i].symbols[r.sym], ~s.defined
    PROVE  /\ s = File(i).symbols[r.sym] /\ r \in References(i)
           /\ Name(i, r) = s.name /\ Asked(i, r) = Version(i, s) /\ s \in Symbols
<1>1. s = File(i).symbols[r.sym]
  BY DEF EntryKept, IsBound
<1>2. s \in Symbols
  BY ObjectFacts
<1>3. r \in References(i)
  BY <1>1 DEF References
<1>4. QED BY <1>1, <1>2, <1>3 DEF Name, Asked

\* The flag has a reason.
LEMMA FlagHides ==
    ASSUME LinkReady, NEW i \in Objects, NEW k \in 1..Len(File(i).relocs),
           Hides(i, k) \/ (File(i).relocs[k].sym # 0 /\ IsWeak(i, File(i).relocs[k].sym))
    PROVE  Hides(i, k + 1)
<1>1. k \in 1..(k + 1) - 1 /\ \A j \in 1..k - 1 : j \in 1..(k + 1) - 1
  OBVIOUS
<1>2. QED BY <1>1 DEF Hides

\* Turns that write nothing.
LEMMA ResolveKeepsTables ==
    ASSUME LinkReady, BindInv, ResolveSymbol, UNCHANGED <<stage, nodes>>,
           ReferenceKept(at, entry),
           weak' => \/ weak
                    \/ /\ File(at).relocs[entry].sym # 0
                       /\ IsWeak(at, File(at).relocs[entry].sym)
    PROVE  BindInv'
<1>1. /\ stage = "resolve" /\ Entries(File(at).relocs) /\ entry' = entry + 1
      /\ UNCHANGED <<prog, nodes, mem, stage, at>>
  BY Zenon DEF ResolveSymbol, Linking
<1>2. /\ LinksTyped /\ prog.dynamic /\ at \in Objects /\ entry \in 1..Len(File(at).relocs)
      /\ weak => Hides(at, entry)
  BY <1>1, ResolveAt
<1>3. ASSUME NEW i \in Objects, NEW k \in Nat \ {0}
      PROVE  /\ IsAdjusted(i)' <=> IsAdjusted(i)
             /\ k \in 1..Len(File(i).relocs) =>
                   /\ IsResolved(i, k)' => ReferenceKept(i, k)
                   /\ IsRelocated(i, k)' <=> IsRelocated(i, k)
             /\ k \in 1..Len(nodes[i].copies) => (IsCopied(i, k)' => IsCopied(i, k))
  <2>1. /\ IsAdjusted(i)' <=> IsAdjusted(i)
        /\ IsResolved(i, k)' <=> IsResolved(i, k) \/ (stage = "resolve" /\ i = at /\ k = entry)
        /\ IsRelocated(i, k)' <=>
              IsRelocated(i, k) \/ (stage = "relocate" /\ i = at /\ k = entry)
        /\ IsCopied(i, k)' <=> IsCopied(i, k) \/ (stage = "copy" /\ i = at /\ k = entry)
    BY <1>1, <1>2, LoopGoes
  <2>2. k \in 1..Len(File(i).relocs) => (IsResolved(i, k) => ReferenceKept(i, k))
    BY <1>1 DEF BindInv, ReferencesKept
  <2> QED BY <1>1, <2>1, <2>2
<1>4. weak' => Hides(at, entry + 1)
  BY <1>2, FlagHides
<1>5. Len(File(at).relocs) \in Nat
  BY <1>2, ObjectFacts
<1>6. stage' = "resolve" /\ weak' => /\ at' \in Objects /\ Hides(at', entry')
                                     /\ entry' \in 1..Len(File(at').relocs) + 1
  BY <1>1, <1>2, <1>4, <1>5
<1>7. stage # "failed" /\ stage' # "failed"
  BY <1>1
<1>8. QED BY <1>1, <1>3, <1>6, <1>7, StaysBound

\* The reference resolve_symbols() is at.
LEMMA ReferenceAt ==
    ASSUME LinkReady, BindInv, stage = "resolve", Entries(File(at).relocs),
           NEW r, r = File(at).relocs[entry], r.sym # 0,
           NEW s, s = nodes[at].symbols[r.sym], ~s.defined
    PROVE  /\ s = File(at).symbols[r.sym] /\ r \in References(at)
           /\ Name(at, r) = s.name /\ Asked(at, r) = Version(at, s) /\ s \in Symbols
           /\ nodes[at] \in LinkNodes /\ nodes[at].symbols \in Seq(Symbols)
           /\ DOMAIN nodes[at].symbols = 1..Len(File(at).symbols)
           /\ nodes \in Seq(LinkNodes) /\ at \in 1..Len(nodes)
           /\ Len(File(at).relocs) \in Nat
<1>1. /\ LinksTyped /\ prog.dynamic /\ at \in Objects
      /\ r \in Range(File(at).relocs) /\ r.sym \in 1..Len(File(at).symbols)
      /\ \A i \in Objects : \A k \in 1..Len(File(i).symbols) : EntryKept(i, k)
  BY ResolveAt
<1>2. EntryKept(at, r.sym)
  BY <1>1
<1>3. /\ s = File(at).symbols[r.sym] /\ r \in References(at)
      /\ Name(at, r) = s.name /\ Asked(at, r) = Version(at, s) /\ s \in Symbols
  BY <1>1, <1>2, Unbound
<1>4. nodes \in Seq(LinkNodes) /\ at \in 1..Len(nodes)
  BY <1>1 DEF LinksTyped, Objects
<1>5. /\ nodes[at].symbols \in Seq(Symbols) /\ Len(nodes[at].symbols) = Len(File(at).symbols)
      /\ Len(File(at).relocs) \in Nat
  BY <1>1, ObjectFacts
<1>6. DOMAIN nodes[at].symbols = 1..Len(File(at).symbols)
  BY <1>5
<1>7. QED BY <1>3, <1>4, <1>5, <1>6

\* The turn that writes a definition over a reference.
LEMMA ResolveBinds ==
    ASSUME LinkReady, BindInv, stage = "resolve", Entries(File(at).relocs),
           NEW r, r = File(at).relocs[entry], r.sym # 0,
           NEW s, s = nodes[at].symbols[r.sym], ~s.defined,
           NEW found, found = FindSymbol(s.name, Version(at, s)), found[2] > 0,
           NEW d, d = nodes[found[1]].symbols[found[2]],
           nodes' = [nodes EXCEPT ![at].symbols[r.sym] = Bound(s, d)],
           weak' => weak \/ s.bind = "weak",
           UNCHANGED <<prog, mem, stage, at>>, entry' = entry + 1,
           NEW o \in Objects, o = at
    PROVE  BindInv'
<1> DEFINE table == [nodes[at].symbols EXCEPT ![r.sym] = Bound(s, d)]
           new == [nodes[at] EXCEPT !.symbols = table]
<1>1. /\ LinksTyped /\ prog.dynamic /\ at \in Objects /\ entry \in 1..Len(File(at).relocs)
      /\ r \in Relocs /\ r \in Range(File(at).relocs)
      /\ r.sym \in 1..Len(File(at).symbols)
      /\ \A i \in Objects : \A k \in 1..Len(File(i).symbols) : EntryKept(i, k)
      /\ weak => Hides(at, entry)
  BY ResolveAt, Zenon
<1>2. /\ s = File(at).symbols[r.sym] /\ r \in References(at)
      /\ Name(at, r) = s.name /\ Asked(at, r) = Version(at, s) /\ s \in Symbols
  BY ReferenceAt, Zenon
<1>3. /\ nodes[at] \in LinkNodes /\ nodes[at].symbols \in Seq(Symbols)
      /\ DOMAIN nodes[at].symbols = 1..Len(File(at).symbols)
      /\ nodes \in Seq(LinkNodes) /\ at \in 1..Len(nodes)
      /\ Len(File(at).relocs) \in Nat
  BY ReferenceAt, Zenon
<1>4. nodes' = [nodes EXCEPT ![at] = new]
  BY <1>3, Zenon
<1>5. /\ new.symbols = table /\ new.copies = nodes[at].copies /\ new.file = nodes[at].file
      /\ new.soname = nodes[at].soname /\ new.addr = nodes[at].addr
  <2> HIDE DEF table
  <2> QED BY <1>3, Zenon DEF LinkNodes
<1>6. /\ table[r.sym] = Bound(s, d)
      /\ \A k \in 1..Len(File(at).symbols) : k # r.sym => table[k] = nodes[at].symbols[k]
  BY ONLY <1>1, <1>3
<1> HIDE DEF new
<1>7. nodes'[at] = new /\ \A i \in Objects : i # at => nodes'[i] = nodes[i]
  BY <1>1, <1>4, NodeReplaced, Zenon
<1>8. SameObjects
  BY <1>1, <1>4, <1>5, OnePlaced, Zenon
<1> HIDE DEF table
<1>9. /\ nodes'[at].symbols[r.sym] = Bound(s, d)
      /\ \A i \in Objects : \A k \in 1..Len(File(i).symbols) :
            i # at \/ k # r.sym => nodes'[i].symbols[k] = nodes[i].symbols[k]
      /\ \A i \in Objects : nodes'[i].copies = nodes[i].copies
  BY <1>5, <1>6, <1>7, Zenon
<1>10. /\ Bound(s, d).value = d.value /\ Bound(s, d).bind = d.bind /\ Bound(s, d).defined
       /\ Bound(s, d).name = s.name /\ Bound(s, d).version = s.version
       /\ Bound(s, d).hidden = s.hidden
  BY <1>2, Zenon DEF Bound, Symbols
<1>11. \A name, version : /\ name = s.name /\ version = Version(at, s) /\ Agreed(name)
                          => HasDefinition(d, name, version)
  <2> SUFFICES ASSUME NEW name, NEW version, name = s.name, version = Version(at, s)
               PROVE  Agreed(name) => HasDefinition(d, name, version)
    BY Zenon
  <2>1. found[2] \notin {Fatal, NotFound}
    <3>1. PICK x : x = found[2] /\ x > 0
      BY Zenon
    <3>2. x # -1 /\ x # 0
      BY ONLY <3>1
    <3> QED BY <3>1, <3>2, Zenon DEF Fatal, NotFound
  <2>2. \E i \in Objects : \E q \in References(i) : Name(i, q) = name /\ Asked(i, q) = version
    BY <1>1, <1>2, Zenon
  <2> QED BY <1>1, <2>1, <2>2, FindMeans, Zenon
<1>12. /\ Objects' = Objects
       /\ \A i \in Objects : File(i)' = File(i) /\ Copying(i)' = Copying(i)
       /\ \A i \in Objects : References(i)' = References(i)
       /\ \A i \in Objects : \A x : Version(i, x)' = Version(i, x)
  BY <1>8, FilesSame, Zenon
<1>13. EntryKept(o, r.sym)'
  <2>1. PICK b, name, version, f :
            b = Bound(s, d) /\ name = s.name /\ version = Version(o, s) /\ f = File(o)
    BY Zenon
  <2>2. /\ nodes'[o].symbols[r.sym] = b /\ f.symbols[r.sym] = s /\ File(o)' = f
        /\ References(o)' = References(o) /\ r \in References(o) /\ Version(o, s)' = version
    BY <1>2, <1>9, <1>12, <2>1, Zenon
  <2>3. Agreed(name)' => HasDefinition(d, name, version)'
    <3>1. Agreed(name)' => Agreed(name)
      BY <1>8, MeaningSame, Zenon
    <3>2. HasDefinition(d, name, version) => HasDefinition(d, name, version)'
      BY <1>8, MeaningSame, Zenon
    <3> QED BY <1>11, <2>1, <3>1, <3>2, Zenon
  <2>4. HasDefinition(d, name, version)' => HasDefinition(b, name, version)'
    BY <1>10, <2>1, Zenon DEF HasDefinition
  <2>5. IsBound(o, r.sym)'
    <3>1. ~s.defined /\ b.defined /\ \E q \in References(o)' : q.sym = r.sym
      BY <1>10, <2>1, <2>2, Zenon
    <3>2. Agreed(name)' => HasDefinition(b, name, version)'
      BY <2>3, <2>4, Zenon
    <3> QED BY <2>1, <2>2, <3>1, <3>2, Zenon DEF IsBound
  <2> QED BY <1>10, <2>1, <2>2, <2>5, Zenon DEF EntryKept
<1>14. \A i \in Objects : \A k \in 1..Len(File(i).symbols) : EntryKept(i, k)'
  <2>1. ASSUME NEW i \in Objects, NEW k \in 1..Len(File(i).symbols), i # at \/ k # r.sym
        PROVE  EntryKept(i, k)'
    BY <1>1, <1>8, <1>9, <2>1, EntrySame, Zenon
  <2> QED BY <1>13, <2>1, Zenon
<1>15. \A i \in Objects : \A x \in 1..Len(File(i).symbols) :
           /\ IsWeak(i, x) => IsWeak(i, x)'
           /\ nodes[i].symbols[x].defined => nodes'[i].symbols[x].defined
  <2> SUFFICES ASSUME NEW i \in Objects, NEW x \in 1..Len(File(i).symbols)
               PROVE  /\ IsWeak(i, x) => IsWeak(i, x)'
                      /\ nodes[i].symbols[x].defined => nodes'[i].symbols[x].defined
    BY Zenon
  <2>1. nodes[i].symbols[x].defined => nodes'[i].symbols[x] = nodes[i].symbols[x]
    BY <1>9, Zenon
  <2> QED BY <1>1, <1>8, <2>1, WeakStays, Zenon
<1>16. ASSUME NEW i \in Objects, NEW k \in Nat \ {0}
       PROVE  /\ IsAdjusted(i) /\ IsAdjusted(i)'
              /\ IsResolved(i, k)' <=> IsResolved(i, k) \/ (i = at /\ k = entry)
              /\ ~IsRelocated(i, k)' /\ ~IsRelocated(i, k) /\ ~IsCopied(i, k)'
  <2>1. IsResolved(i, k)' <=> IsResolved(i, k) \/ (stage = "resolve" /\ i = at /\ k = entry)
    BY <1>1, LoopGoes, Zenon
  <2> QED BY <2>1, Zenon DEF IsAdjusted, IsRelocated, IsCopied, Passed, RunStages
<1>17. 1 \in Nat \ {0} /\ \A n : \A k \in 1..n : k \in Nat \ {0}
  BY ONLY TRUE
<1>18. EntriesKept'
  <2>1. \A i \in Objects : Range(nodes[i].copies) = Copying(i)
    <3>1. EntriesKept
      BY Zenon DEF BindInv
    <3> QED BY <1>16, <1>17, <3>1, Zenon DEF EntriesKept
  <2> QED BY <1>9, <1>12, <1>14, <1>16, <1>17, <2>1, Zenon DEF EntriesKept
<1>19. ASSUME NEW k \in 1..Len(File(o).relocs), k = entry PROVE ReferenceKept(o, k)'
  <2>1. PICK name, version, f : name = s.name /\ version = Version(o, s) /\ f = File(o)
    BY Zenon
  <2>2. /\ Name(o, r)' = name /\ Asked(o, r)' = version /\ File(o)' = f /\ f.relocs[k] = r
        /\ r \in References(o)
    <3>1. Name(o, r)' = Name(o, r) /\ Asked(o, r)' = Asked(o, r)
      BY <1>8, MeaningSame, Zenon
    <3>2. File(o)' = f /\ f.relocs[k] = r
      BY <1>12, <1>19, <2>1, Zenon
    <3>3. Name(o, r) = name /\ Asked(o, r) = version /\ r \in References(o)
      BY <1>2, <2>1, Zenon
    <3> QED BY ONLY <3>1, <3>2, <3>3
  <2>3. nodes'[o].symbols[r.sym].defined
    <3>1. nodes'[o].symbols[r.sym] = Bound(s, d)
      BY <1>9, Zenon
    <3> QED BY ONLY <1>10, <3>1
  <2>4. Agreed(name)' => ~Undefined(o, r)'
    <3>1. Agreed(name)' => Agreed(name)
      BY <1>8, MeaningSame, Zenon
    <3>2. HasDefinition(d, name, version) => Definitions(name, version) # {}
      BY Zenon DEF HasDefinition
    <3>3. Undefined(o, r)' => Undefined(o, r)
      BY <1>8, MeaningSame, Zenon
    <3>4. Undefined(o, r) => Definitions(name, version) = {}
      BY <1>2, <2>1, Zenon DEF Undefined
    <3> QED BY <1>11, <2>1, <3>1, <3>2, <3>3, <3>4, Zenon
  <2> QED BY <2>2, <2>3, <2>4, Zenon DEF ReferenceKept
<1>20. ASSUME NEW i \in Objects, NEW k \in 1..Len(File(i).relocs), IsResolved(i, k)'
       PROVE  ReferenceKept(i, k)'
  <2>1. CASE i = at /\ k = entry
    BY <1>19, <2>1, Zenon
  <2>2. CASE ~(i = at /\ k = entry)
    <3>1. IsResolved(i, k)
      BY <1>16, <1>17, <1>20, <2>2, Zenon
    <3>2. ReferenceKept(i, k)
      BY <3>1, Zenon DEF BindInv, ReferencesKept
    <3> QED BY <1>8, <1>15, <3>2, ReferenceSame, Zenon
  <2> QED BY <2>1, <2>2, Zenon
<1>21. ASSUME weak', NEW k, k = entry + 1 PROVE Hides(o, k)'
  <2>1. IsWeak(o, r.sym) \/ Hides(o, entry)
    BY <1>1, <1>2, <1>21, Zenon DEF IsWeak
  <2>2. Hides(o, k) /\ k \in 1..Len(File(o).relocs) + 1
    <3>1. Len(File(o).relocs) \in Nat
      BY <1>3, Zenon
    <3>2. \/ Hides(o, entry)
          \/ File(o).relocs[entry].sym # 0 /\ IsWeak(o, File(o).relocs[entry].sym)
      BY <2>1, Zenon
    <3>3. Hides(o, entry + 1)
      BY <1>1, <3>2, FlagHides, Zenon
    <3>4. entry \in 1..Len(File(o).relocs)
      BY <1>1, Zenon
    <3>5. k \in 1..Len(File(o).relocs) + 1
      BY ONLY <1>21, <3>1, <3>4
    <3> QED BY <1>21, <3>3, <3>5, Zenon
  <2> QED BY <1>8, <1>15, <2>2, HidesStays, Zenon
<1>22. ReferencesKept'
  <2>1. (Hides(at, entry))' \/ ~weak'
    <3>1. PICK k : k = entry + 1
      BY Zenon
    <3>2. at' = o /\ entry' = k
      BY <3>1, Zenon
    <3>3. weak' => Hides(o, k)'
      BY <1>21, <3>1, Zenon
    <3> QED BY <3>2, <3>3, Zenon
  <2> QED BY <1>12, <1>20, <2>1, Zenon DEF ReferencesKept
<1>23. WordsKept'
  <2>1. WordsKept
    BY Zenon DEF BindInv
  <2> QED BY <1>8, <1>16, <1>17, <2>1, WordsStay, Zenon
<1>24. CopiesKept'
  BY <1>12, <1>16, <1>17, Zenon DEF CopiesKept
<1>25. stage' # "failed"
  BY Zenon
<1>26. QED BY <1>18, <1>22, <1>23, <1>24, <1>25, Zenon DEF BindInv

\* The turn that gives up.
LEMMA ResolveFails ==
    ASSUME LinkReady, BindInv, stage = "resolve", Entries(File(at).relocs),
           NEW r, r = File(at).relocs[entry], r.sym # 0,
           NEW s, s = nodes[at].symbols[r.sym], ~s.defined,
           NEW found, found = FindSymbol(s.name, Version(at, s)),
           found[2] = Fatal \/ (found[2] = NotFound /\ s.bind # "weak"),
           UNCHANGED <<list, memsize, prog, at, nodes>>, stage' = "failed"
    PROVE  BindInv'
<1>1. /\ at \in Objects
      /\ \A i \in Objects : \A k \in 1..Len(File(i).symbols) : EntryKept(i, k)
  BY ResolveAt, Zenon
<1>2. /\ s = File(at).symbols[r.sym] /\ r \in References(at)
      /\ Name(at, r) = s.name /\ Asked(at, r) = Version(at, s) /\ s \in Symbols
  BY ReferenceAt, Zenon
<1>3. PICK name, version : name = s.name /\ version = Version(at, s)
  BY Zenon
<1>4. /\ found[2] = NotFound => Definitions(name, version) = {}
      /\ found[2] = Fatal => Forwards
  BY <1>1, <1>3, FindMeans, Zenon
<1>5. FailsForReason
  <2>1. CASE found[2] = Fatal
    BY <1>4, <2>1, Zenon DEF FailsForReason
  <2>2. CASE found[2] = NotFound /\ s.bind # "weak"
    <3>1. s.bind = "strong"
      BY <1>2, <2>2, Zenon DEF Symbols
    <3>2. Undefined(at, r)
      BY <1>2, <1>3, <1>4, <2>2, <3>1, Zenon DEF Undefined
    <3> QED BY <1>2, <3>2, Zenon DEF FailsForReason
  <2> QED BY <2>1, <2>2, Zenon
<1>6. FailsForReason'
  BY <1>1, <1>5, ReasonStays, Zenon
<1>7. QED BY <1>6, Zenon DEF BindInv

\* A relocation whose symbol has a definition, its own or one it was bound to.
LEMMA DefinedKept ==
    ASSUME LinkReady, BindInv, stage = "resolve", Entries(File(at).relocs),
           NEW r, r = File(at).relocs[entry], r.sym # 0, nodes[at].symbols[r.sym].defined
    PROVE  ReferenceKept(at, entry)
<1>1. /\ r.sym \in 1..Len(File(at).symbols) /\ at \in Objects
      /\ \A i \in Objects : \A k \in 1..Len(File(i).symbols) : EntryKept(i, k)
  BY ResolveAt
<1>2. EntryKept(at, r.sym)
  BY <1>1
<1>3. ASSUME r \in References(at), Undefined(at, r), Agreed(Name(at, r)) PROVE FALSE
  <2>1. ~File(at).symbols[r.sym].defined
    BY <1>3 DEF References
  <2>2. IsBound(at, r.sym)
    BY <1>2, <2>1 DEF EntryKept
  <2>3. Definitions(Name(at, r), Asked(at, r)) # {}
    BY <1>3, <2>2, Zenon DEF IsBound, HasDefinition, Name, Asked
  <2> QED BY <1>3, <2>3 DEF Undefined
<1>4. QED BY <1>3 DEF ReferenceKept

\* One that nothing defines, but that may be missing.
LEMMA MissingKept ==
    ASSUME LinkReady, BindInv, stage = "resolve", Entries(File(at).relocs),
           NEW r, r = File(at).relocs[entry], r.sym # 0,
           NEW s, s = nodes[at].symbols[r.sym], ~s.defined,
           NEW found, found = FindSymbol(s.name, Version(at, s)), found[2] = NotFound,
           weak \/ s.bind = "weak"
    PROVE  ReferenceKept(at, entry)
<1>1. /\ at \in Objects
      /\ \A i \in Objects : \A k \in 1..Len(File(i).symbols) : EntryKept(i, k)
      /\ weak => Hides(at, entry)
  BY ResolveAt, Zenon
<1>2. /\ s = File(at).symbols[r.sym] /\ r \in References(at)
      /\ Name(at, r) = s.name /\ Asked(at, r) = Version(at, s) /\ s \in Symbols
  BY ReferenceAt, Zenon
<1>3. PICK name, version : name = s.name /\ version = Version(at, s)
  BY Zenon
<1>4. Definitions(name, version) = {}
  BY <1>1, <1>3, FindMeans, Zenon
<1>5. Undefined(at, r) => weak
  BY <1>2, Zenon DEF Undefined
<1>6. QED BY <1>1, <1>2, <1>3, <1>4, <1>5, Zenon DEF ReferenceKept

\* resolve_symbols() keeps the invariant: one case for each way its turn can end.
LEMMA ResolveBound ==
    ASSUME LinkReady, BindInv, ResolveSymbol
    PROVE  BindInv'
<1>1. PICK r : r = File(at).relocs[entry]
  OBVIOUS
<1>2. PICK s : s = nodes[at].symbols[r.sym]
  OBVIOUS
<1>3. PICK found : found = FindSymbol(s.name, Version(at, s))
  OBVIOUS
<1>4. PICK d : d = nodes[found[1]].symbols[found[2]]
  OBVIOUS
<1>5. /\ stage = "resolve" /\ Entries(File(at).relocs) /\ entry' = entry + 1
      /\ UNCHANGED <<prog, mem, at, list, memsize>>
  BY Zenon DEF ResolveSymbol, Linking, vars
<1>6. \/ r.sym = 0 /\ UNCHANGED <<stage, weak, nodes>>
      \/ /\ r.sym # 0 /\ (weak' <=> (weak \/ s.bind = "weak"))
         /\ \/ s.defined /\ UNCHANGED <<stage, nodes>>
            \/ /\ ~s.defined /\ found[2] > 0
               /\ nodes' = [nodes EXCEPT ![at].symbols[r.sym] = Bound(s, d)]
               /\ UNCHANGED stage
            \/ /\ ~s.defined /\ found[2] = NotFound /\ weak'
               /\ UNCHANGED <<stage, nodes>>
            \/ /\ ~s.defined
               /\ found[2] = Fatal \/ (found[2] = NotFound /\ ~weak')
               /\ stage' = "failed" /\ UNCHANGED nodes
  BY <1>1, <1>2, <1>3, <1>4, Zenon DEF ResolveSymbol, Fails
<1>7. CASE r.sym = 0 /\ UNCHANGED <<stage, weak, nodes>>
  <2>1. r \notin References(at)
    BY <1>7 DEF References
  <2>2. ReferenceKept(at, entry)
    BY <1>1, <2>1 DEF ReferenceKept
  <2> QED BY <1>7, <2>2, ResolveKeepsTables
<1>8. CASE /\ r.sym # 0 /\ (weak' <=> (weak \/ s.bind = "weak"))
           /\ s.defined /\ UNCHANGED <<stage, nodes>>
  <2>1. ReferenceKept(at, entry)
    BY <1>1, <1>2, <1>5, <1>8, DefinedKept
  <2>2. s.bind = "weak" => IsWeak(at, r.sym)
    BY <1>2 DEF IsWeak
  <2> QED BY <1>1, <1>8, <2>1, <2>2, ResolveKeepsTables
<1>9. CASE /\ r.sym # 0 /\ (weak' <=> (weak \/ s.bind = "weak")) /\ ~s.defined
           /\ found[2] = NotFound /\ weak' /\ UNCHANGED <<stage, nodes>>
  <2>1. ReferenceKept(at, entry)
    BY <1>1, <1>2, <1>3, <1>5, <1>9, MissingKept, Zenon
  <2>2. s.bind = "weak" => IsWeak(at, r.sym)
    BY <1>2 DEF IsWeak
  <2> QED BY <1>1, <1>9, <2>1, <2>2, ResolveKeepsTables
<1>10. CASE /\ r.sym # 0 /\ (weak' <=> (weak \/ s.bind = "weak")) /\ ~s.defined
            /\ found[2] > 0 /\ UNCHANGED stage
            /\ nodes' = [nodes EXCEPT ![at].symbols[r.sym] = Bound(s, d)]
  <2>1. at \in Objects
    BY <1>5, ResolveAt
  <2>2. PICK o \in Objects : o = at
    BY <2>1
  <2>3. UNCHANGED <<prog, mem, stage, at>> /\ entry' = entry + 1
    BY <1>5, <1>10
  <2>4. weak' => weak \/ s.bind = "weak"
    BY <1>10
  <2> QED BY <1>1, <1>2, <1>3, <1>4, <1>5, <1>10, <2>2, <2>3, <2>4, ResolveBinds, Zenon
<1>11. CASE /\ r.sym # 0 /\ (weak' <=> (weak \/ s.bind = "weak")) /\ ~s.defined
            /\ found[2] = Fatal \/ (found[2] = NotFound /\ ~weak')
            /\ stage' = "failed" /\ UNCHANGED nodes
  <2>1. UNCHANGED <<list, memsize, prog, at, nodes>>
    BY <1>5, <1>11
  <2>2. found[2] = Fatal \/ (found[2] = NotFound /\ s.bind # "weak")
    BY <1>11
  <2> QED BY <1>1, <1>2, <1>3, <1>5, <1>11, <2>1, <2>2, ResolveFails, Zenon
<1>12. QED BY <1>6, <1>7, <1>8, <1>9, <1>10, <1>11
-----------------------------------------------------------------------------
(* Where the objects and the words that are relocated lie.                 *)

\* The program is the first object.
RootFirst == File(1) = Root

\* The objects lie one behind the other, the program below its end.
LEMMA ObjectsApart ==
    ASSUME LinkReady, RootFirst
    PROVE  /\ \A i, j \in Objects : i < j => ObjectEnd(nodes[i]) <= nodes[j].addr
           /\ \A i \in Objects : /\ ObjectEnd(nodes[i]) \in Nat /\ ObjectEnd(nodes[i]) <= memsize
                                 /\ ObjectEnd(nodes[i]) = nodes[i].addr + File(i).size
                                 /\ nodes[i].addr <= ObjectEnd(nodes[i])
           /\ ObjectEnd(nodes[1]) <= prog.end /\ prog.end \in Nat /\ prog.end <= memsize
           /\ memsize \in Nat
<1> DEFINE n == Len(nodes)
<1>1. /\ prog \in Programs /\ prog.dynamic /\ memsize = prog.memsize /\ LaidOut /\ memsize \in Nat
      /\ ProgramsFit /\ TablesFit /\ nodes[1].addr = 0 /\ n \in Nat /\ 1 \in Objects
      /\ Objects = 1..n
  <2>1. LinksTyped /\ prog.dynamic
    BY DEF LinkReady, LinkInv
  <2>2. n \in Nat /\ at \in 1..n
    BY <2>1 DEF LinksTyped
  <2>3. 1 \in 1..n
    BY <2>2
  <2>4. memsize \in Nat
    BY MemMapAssumption DEF LinkReady, LoadInv, MapInv, ListInv
  <2> QED BY <2>1, <2>2, <2>3, <2>4 DEF LinkReady, LinkInv, LinksTyped, Objects
<1>2. prog.end \in Nat /\ prog.end <= memsize
  <2>1. prog.entry \in Nat /\ prog.end \in Nat /\ prog.entry + prog.end <= prog.memsize
    BY <1>1 DEF ProgramsFit
  <2> QED BY <1>1, <2>1
<1>3. \A i \in Objects : /\ nodes[i].addr \in Nat /\ File(i).size \in Nat
                         /\ ObjectEnd(nodes[i]) = nodes[i].addr + File(i).size
  BY ObjectFacts DEF ObjectEnd
<1>4. ObjectEnd(nodes[1]) <= prog.end
  <2>1. Root.size <= prog.end
    BY <1>1 DEF TablesFit, Root
  <2>2. ObjectEnd(nodes[1]) = Root.size
    BY <1>1, <1>3 DEF RootFirst
  <2> QED BY <2>1, <2>2
<1>5. ASSUME NEW i \in Objects
      PROVE  /\ ObjectEnd(nodes[i]) \in Nat /\ ObjectEnd(nodes[i]) <= memsize
             /\ nodes[i].addr <= ObjectEnd(nodes[i])
  <2>1. ObjectEnd(nodes[i]) \in Nat /\ nodes[i].addr <= ObjectEnd(nodes[i])
    BY <1>3
  <2>2. CASE i = 1
    BY <1>1, <1>2, <1>4, <2>1, <2>2
  <2>3. CASE i # 1
    <3>1. i \in 2..n
      BY <1>1, <2>3
    <3> QED BY <1>1, <2>1, <3>1 DEF LaidOut
  <2> QED BY <2>1, <2>2, <2>3
<1>6. ASSUME NEW i \in Objects
      PROVE  \A j \in Objects : i < j => ObjectEnd(nodes[i]) <= nodes[j].addr
  <2> DEFINE G == {j \in 0..n : i < j => ObjectEnd(nodes[i]) <= nodes[j].addr}
  <2>1. 0 \in G
    BY <1>1
  <2>2. ASSUME NEW j \in 1..n, j - 1 \in G PROVE j \in G
    <3>1. j \in 0..n /\ j \in Nat /\ i \in Nat /\ i >= 1
      BY <1>1
    <3>2. CASE i < j
      <4>1. j \in 2..n /\ j - 1 \in Objects /\ j \in Objects
        BY <1>1, <3>1, <3>2
      <4>2. j = 2 => nodes[j].addr >= prog.end
        BY <1>1, <4>1 DEF LaidOut
      <4>3. j > 2 => nodes[j].addr >= ObjectEnd(nodes[j - 1])
        BY <1>1, <4>1 DEF LaidOut
      <4>4. /\ nodes[j].addr \in Nat /\ ObjectEnd(nodes[i]) \in Nat
            /\ ObjectEnd(nodes[j - 1]) \in Nat /\ nodes[j - 1].addr \in Nat
            /\ nodes[j - 1].addr <= ObjectEnd(nodes[j - 1])
        BY <1>3, <1>5, <4>1
      <4>5. CASE i = j - 1
        <5>1. j = 2 => ObjectEnd(nodes[i]) <= prog.end
          BY <1>4, <4>5
        <5>2. j = 2 \/ j > 2
          BY <4>1
        <5> QED BY <1>2, <3>1, <4>2, <4>3, <4>4, <4>5, <5>1, <5>2
      <4>6. CASE i < j - 1
        <5>1. ObjectEnd(nodes[i]) <= nodes[j - 1].addr
          BY <2>2, <4>6
        <5>2. j > 2
          BY <1>1, <3>1, <4>6
        <5> QED BY <3>1, <4>3, <4>4, <5>1, <5>2
      <4> QED BY <3>1, <3>2, <4>5, <4>6
    <3> QED BY <3>1, <3>2
  <2> HIDE DEF G
  <2>3. \A j \in 0..n : j \in G
    BY <1>1, <2>1, <2>2, UpTo, Zenon
  <2> QED BY <1>1, <2>3 DEF G
<1>7. QED BY <1>1, <1>2, <1>3, <1>4, <1>5, <1>6

\* What a relocation fills lies in its object.
LEMMA FillsInside ==
    ASSUME LinkReady, RootFirst, NEW i \in Objects, NEW k \in 1..Len(File(i).relocs),
           NEW r, r = File(i).relocs[k], NEW x \in Fills(prog, File(i), r)
    PROVE  /\ x \in Nat /\ x < File(i).size /\ nodes[i].addr <= x + nodes[i].addr
           /\ x + nodes[i].addr < ObjectEnd(nodes[i]) /\ x + nodes[i].addr \in 0..memsize - 1
<1>1. x \in 0..File(i).size - 1 /\ File(i).size \in Nat /\ nodes[i].addr \in Nat
  BY ObjectFacts DEF Separate
<1>2. /\ ObjectEnd(nodes[i]) \in Nat /\ ObjectEnd(nodes[i]) <= memsize /\ memsize \in Nat
      /\ ObjectEnd(nodes[i]) = nodes[i].addr + File(i).size
  BY ObjectsApart
<1>3. x \in Nat /\ x < File(i).size
  BY ONLY <1>1
<1>4. PICK y : y = x + nodes[i].addr
  OBVIOUS
<1>5. y \in Nat /\ nodes[i].addr <= y /\ y < ObjectEnd(nodes[i])
  <2>1. y \in Nat /\ nodes[i].addr <= y
    BY ONLY <1>1, <1>3, <1>4
  <2>2. y < nodes[i].addr + File(i).size
    BY ONLY <1>1, <1>3, <1>4
  <2> QED BY ONLY <1>2, <2>1, <2>2
<1>6. y \in 0..memsize - 1
  BY ONLY <1>2, <1>5
<1>7. QED BY ONLY <1>3, <1>4, <1>5, <1>6

\* No two relocations fill the same word.
LEMMA FillsApart ==
    ASSUME LinkReady, RootFirst, NEW i \in Objects, NEW k \in 1..Len(File(i).relocs),
           NEW j \in Objects, NEW l \in 1..Len(File(j).relocs),
           NEW r, r = File(i).relocs[k], NEW x \in Fills(prog, File(i), r),
           NEW q, q = File(j).relocs[l], NEW y \in Fills(prog, File(j), q),
           x + nodes[i].addr = y + nodes[j].addr
    PROVE  i = j /\ k = l
<1>1. /\ x \in Nat /\ nodes[i].addr <= x + nodes[i].addr
      /\ x + nodes[i].addr < ObjectEnd(nodes[i])
  BY FillsInside
<1>2. /\ y \in Nat /\ nodes[j].addr <= y + nodes[j].addr
      /\ y + nodes[j].addr < ObjectEnd(nodes[j])
  BY FillsInside
<1>3. /\ nodes[i].addr \in Nat /\ nodes[j].addr \in Nat
      /\ i \in Nat /\ j \in Nat
  BY ObjectFacts DEF Objects
<1>4. /\ ObjectEnd(nodes[i]) \in Nat /\ ObjectEnd(nodes[j]) \in Nat
      /\ i < j => ObjectEnd(nodes[i]) <= nodes[j].addr
      /\ j < i => ObjectEnd(nodes[j]) <= nodes[i].addr
  BY ObjectsApart
<1>5. i = j
  <2>1. PICK z : z = x + nodes[i].addr
    OBVIOUS
  <2>2. z = y + nodes[j].addr
    BY <2>1
  <2>3. /\ z \in Nat /\ nodes[i].addr <= z /\ z < ObjectEnd(nodes[i])
        /\ nodes[j].addr <= z /\ z < ObjectEnd(nodes[j])
    <3>1. z \in Nat
      BY ONLY <1>1, <1>3, <2>1
    <3>2. nodes[i].addr <= z /\ z < ObjectEnd(nodes[i])
      BY ONLY <1>1, <2>1
    <3>3. nodes[j].addr <= z /\ z < ObjectEnd(nodes[j])
      BY ONLY <1>2, <2>2
    <3> QED BY ONLY <3>1, <3>2, <3>3
  <2>4. ~(i < j)
    BY ONLY <1>3, <1>4, <2>3
  <2>5. ~(j < i)
    BY ONLY <1>3, <1>4, <2>3
  <2> QED BY <1>3, <2>4, <2>5
<1>6. x = y
  BY <1>1, <1>2, <1>3, <1>5
<1>7. k = l
  <2> SUFFICES ASSUME k # l PROVE FALSE
    OBVIOUS
  <2>1. Separate(prog, File(i)) /\ l \in 1..Len(File(i).relocs) \ {k}
    BY <1>5, ObjectFacts
  <2>2. Fills(prog, File(i), r) \cap Fills(prog, File(i), q) = {}
    BY <1>5, <2>1, Zenon DEF Separate
  <2> QED BY <1>5, <1>6, <2>2
<1>8. QED BY <1>5, <1>7

\* A word other than a copy's is its offset.
LEMMA WordFilled ==
    ASSUME NEW p, NEW file, NEW r, r.type # "copy"
    PROVE  r.offset \in Fills(p, file, r)
BY DEF Fills
-----------------------------------------------------------------------------
(* Relocating a word.                                                      *)

\* A symbol that has been resolved has the value that is meant.
LEMMA TargetMeant ==
    ASSUME LinkReady, NEW i \in Objects, NEW k \in 1..Len(File(i).relocs),
           NEW r, r = File(i).relocs[k],
           r.sym # 0 => EntryKept(i, r.sym), ReferenceKept(i, k),
           r \in References(i) => Agreed(Name(i, r))
    PROVE  /\ Meant(i, r) = IF r.sym = 0 THEN 0 ELSE nodes[i].symbols[r.sym].value
           /\ Meant(i, r) \in Int
<1> DEFINE s == File(i).symbols[r.sym]
           t == nodes[i].symbols[r.sym]
<1>1. r \in Range(File(i).relocs) /\ (r.sym # 0 => r.sym \in 1..Len(File(i).symbols))
  BY SymbolIs
<1>2. Meant(i, r) = IF r.sym = 0 THEN 0
                    ELSE IF s.defined THEN Address(<<i, r.sym>>)
                    ELSE IF Definitions(s.name, Asked(i, r)) = {} THEN s.value
                    ELSE Address(Definition(s.name, Asked(i, r)))
  BY DEF Meant
<1>3. ASSUME r.sym # 0 PROVE Meant(i, r) = t.value /\ t.value \in Int
  <2>1. t.value \in Int
    <3>1. t \in Symbols
      BY <1>1, <1>3, ObjectFacts
    <3> QED BY <3>1 DEF Symbols
  <2>2. CASE s.defined
    <3>1. t.value = Address(<<i, r.sym>>)
      BY <1>3, <2>2 DEF EntryKept
    <3> QED BY <1>2, <1>3, <2>1, <2>2, <3>1
  <2>3. CASE ~s.defined
    <3>1. r \in References(i) /\ Agreed(s.name)
      BY <1>1, <1>3, <2>3 DEF References, Name
    <3>2. t = s \/ IsBound(i, r.sym)
      BY <1>3, <2>3 DEF EntryKept
    <3>3. IsBound(i, r.sym) => HasDefinition(t, s.name, Asked(i, r))
      BY <3>1, Zenon DEF IsBound, Asked
    <3>4. CASE Definitions(s.name, Asked(i, r)) = {}
      <4>1. t = s
        BY <3>2, <3>3, <3>4 DEF HasDefinition
      <4> QED BY <1>2, <1>3, <2>1, <2>3, <3>4, <4>1
    <3>5. CASE Definitions(s.name, Asked(i, r)) # {}
      <4>1. t.defined
        BY <3>1, <3>5 DEF ReferenceKept, Name
      <4>2. HasDefinition(t, s.name, Asked(i, r))
        BY <2>3, <3>2, <3>3, <4>1
      <4>3. t.value = Address(Definition(s.name, Asked(i, r)))
        BY <4>2 DEF HasDefinition
      <4> QED BY <1>2, <1>3, <2>1, <2>3, <3>5, <4>3, Zenon
    <3> QED BY <3>4, <3>5
  <2> QED BY <2>2, <2>3
<1>4. r.sym = 0 => Meant(i, r) = 0
  BY <1>2
<1>5. QED BY <1>3, <1>4

\* An even word is patched in as it is.
LEMMA PatchEven ==
    ASSUME Word % 2 = 0, NEW D, NEW m \in [D -> Addr], NEW a \in D, NEW data \in Int,
           (data % Word) % 2 = 0
    PROVE  Patch(m, a, data)[a] = data % Word
<1>1. Word \in Nat /\ Word > 0
  BY MemMapAssumption
<1>2. PICK h \in Int : Word = 2 * h
  <2>1. Word = 2 * (Word \div 2) + (Word % 2) /\ Word \div 2 \in Int
    BY <1>1
  <2> QED BY <1>1, <2>1
<1>3. PICK q \in Int, w \in 0..Word - 1 : data = Word * q + w /\ w = data % Word
  <2>1. data = Word * (data \div Word) + (data % Word) /\ data \div Word \in Int
        /\ data % Word \in 0..Word - 1
    BY <1>1
  <2> QED BY <2>1
<1>4. PICK v \in Int : w = 2 * v
  <2>1. w \in Int /\ w % 2 = 0
    BY <1>1, <1>3
  <2>2. w = 2 * (w \div 2) + (w % 2) /\ w \div 2 \in Int
    BY ONLY <2>1
  <2> QED BY ONLY <2>1, <2>2
<1>5. data = 2 * (h * q + v) /\ h * q + v \in Int
  <2>1. (2 * h) * q = 2 * (h * q) /\ h * q \in Int
    BY ONLY <1>2, <1>3
  <2>2. PICK z \in Int : z = h * q
    BY <2>1
  <2>3. data = 2 * z + 2 * v
    <3>1. data = (2 * h) * q + w
      BY ONLY <1>2, <1>3
    <3> QED BY ONLY <1>4, <2>1, <2>2, <3>1
  <2> QED BY ONLY <1>4, <2>2, <2>3
<1>6. data % 2 = 0
  <2>1. \A x \in Int : (2 * x) % 2 = 0
    OBVIOUS
  <2> QED BY ONLY <1>5, <2>1
<1>7. Patch(m, a, data)[a] = (data % Word) - (data % 2)
  BY DEF Patch
<1>8. (data % Word) \in Int
  BY <1>1
<1>9. QED BY <1>6, <1>7, <1>8

\* And no other word changes.
LEMMA PatchElsewhere ==
    ASSUME NEW D, NEW m \in [D -> Addr], NEW a, NEW data, NEW b \in D, b # a
    PROVE  Patch(m, a, data)[b] = m[b]
BY DEF Patch

\* The turn that relocates a word.
LEMMA RelocateAt ==
    ASSUME LinkReady, RootFirst, BindInv, ApplyRelocation, NEW o, o = at, NEW x, x = entry,
           NEW r, r = File(o).relocs[x]
    PROVE  /\ o \in Objects /\ x \in 1..Len(File(o).relocs) /\ x \in Nat \ {0}
           /\ stage = "relocate" /\ UNCHANGED <<prog, nodes, stage, at>> /\ entry' = entry + 1
           /\ LinksTyped /\ prog.dynamic /\ r.type \in {"copy", "relative", "abs", "rel"}
           /\ mem \in [0..memsize - 1 -> Addr]
           /\ \A a \in 0..memsize - 1 : a # r.offset + nodes[o].addr => mem'[a] = mem[a]
           /\ r.type = "copy" => mem' = mem
           /\ /\ r.type # "copy"
              /\ r \in References(o) => Agreed(Name(o, r))
              /\ Expected(o, r) % 2 = 0
              => mem'[r.offset + nodes[o].addr] = Expected(o, r)
<1> DEFINE location == r.offset + nodes[o].addr
           target == IF r.sym = 0 THEN 0 ELSE nodes[o].symbols[r.sym].value
           D == 0..memsize - 1
<1>1. /\ stage = "relocate" /\ x <= Len(File(o).relocs)
      /\ UNCHANGED <<prog, nodes, stage, at>> /\ entry' = entry + 1
      /\ mem' = CASE r.type = "copy" -> mem
                  [] r.type = "relative" -> Patch(mem, location, mem[location] + nodes[o].addr)
                  [] r.type = "abs" -> Patch(mem, location, target + r.addend)
                  [] r.type = "rel" -> Patch(mem, location, target + r.addend - location)
  BY DEF ApplyRelocation, Linking, Entries
<1>2. /\ LinksTyped /\ prog.dynamic /\ o \in Objects /\ mem \in [D -> Addr] /\ x \in Nat \ {0}
  BY DEF LinkReady, LinkInv, LinksTyped, Objects
<1>3. x \in 1..Len(File(o).relocs)
  BY <1>1, <1>2, ObjectFacts
<1>4. /\ r \in Relocs /\ r \in Range(File(o).relocs)
      /\ r.sym # 0 => r.sym \in 1..Len(File(o).symbols)
  BY <1>2, <1>3, SymbolIs
<1>5. /\ r.type \in {"copy", "relative", "abs", "rel"} /\ r.offset \in Nat /\ r.addend \in Int
      /\ r.sym \in Nat
  BY <1>4 DEF Relocs
<1>6. /\ File(o).size \in Nat /\ nodes[o].addr \in Nat /\ Word % 2 = 0
      /\ Separate(prog, File(o)) /\ WellFormed(File(o))
  BY <1>2, ObjectFacts DEF LinkReady, FilesFit
<1>7. location \in Nat
  BY <1>5, <1>6
<1>8. r.type # "copy" => location \in D
  BY <1>2, <1>3, FillsInside, WordFilled
<1>9. r.sym # 0 => EntryKept(o, r.sym)
  <2>1. IsAdjusted(o)
    BY <1>1 DEF IsAdjusted
  <2> QED BY <1>1, <1>2, <1>4, <2>1 DEF BindInv, EntriesKept
<1>10. ReferenceKept(o, x)
  <2>1. IsResolved(o, x)
    BY <1>1 DEF IsResolved, Passed
  <2> QED BY <1>1, <1>2, <1>3, <2>1 DEF BindInv, ReferencesKept
<1>11. (r \in References(o) => Agreed(Name(o, r))) => target = Meant(o, r) /\ target \in Int
  BY <1>2, <1>3, <1>9, <1>10, TargetMeant
<1>12. r.type = "relative" => /\ mem[location] = File(o).data[r.offset]
                              /\ File(o).data[r.offset] \in Int
  <2>1. ~IsRelocated(o, x)
    <3>1. o \in Nat
      BY <1>2 DEF Objects
    <3> QED BY <1>1, <1>2, <3>1 DEF IsRelocated, Passed, RunStages
  <2>2. WordKept(o, x)
    BY <1>1, <1>2, <1>3 DEF BindInv, WordsKept
  <2>3. r.type = "relative" => r.offset \in DOMAIN File(o).data
    BY <1>3, <1>6 DEF Separate
  <2>4. \A y \in DOMAIN File(o).data : File(o).data[y] \in Int
    BY <1>6, MemMapAssumption DEF WellFormed, Addr
  <2> QED BY <2>1, <2>2, <2>3, <2>4 DEF WordKept
<1> HIDE DEF location, target, D
<1>13. ASSUME NEW a \in D, a # location PROVE mem'[a] = mem[a]
  BY <1>1, <1>2, <1>5, <1>13, PatchElsewhere
<1>14. ASSUME r.type # "copy", r \in References(o) => Agreed(Name(o, r)), Expected(o, r) % 2 = 0
       PROVE  mem'[location] = Expected(o, r)
  <2>0. location \in D /\ target = Meant(o, r) /\ target \in Int
    BY <1>8, <1>11, <1>14
  <2>1. CASE r.type = "relative"
    <3>1. Expected(o, r) = (File(o).data[r.offset] + nodes[o].addr) % Word
      BY <2>1 DEF Expected
    <3>2. PICK data \in Int : data = File(o).data[r.offset] + nodes[o].addr
      BY <1>6, <1>12, <2>1
    <3>3. mem' = Patch(mem, location, data)
      BY <1>1, <1>12, <2>1, <3>2
    <3> QED BY <1>2, <1>6, <1>14, <2>0, <3>1, <3>2, <3>3, PatchEven
  <2>2. CASE r.type = "abs"
    <3>1. Expected(o, r) = (Meant(o, r) + r.addend) % Word
      BY <2>2 DEF Expected
    <3>2. PICK data \in Int : data = target + r.addend
      BY <1>5, <2>0
    <3>3. mem' = Patch(mem, location, data)
      BY <1>1, <2>2, <3>2
    <3> QED BY <1>2, <1>6, <1>14, <2>0, <3>1, <3>2, <3>3, PatchEven
  <2>3. CASE r.type = "rel"
    <3>1. Expected(o, r) = (Meant(o, r) + r.addend - r.offset - nodes[o].addr) % Word
      BY <2>3 DEF Expected
    <3>2. PICK data \in Int : data = target + r.addend - location
      BY <1>5, <1>7, <2>0
    <3>3. mem' = Patch(mem, location, data)
      BY <1>1, <2>3, <3>2
    <3>4. data = Meant(o, r) + r.addend - r.offset - nodes[o].addr
      BY <1>5, <1>6, <2>0, <3>2 DEF location
    <3> QED BY <1>2, <1>6, <1>14, <2>0, <3>1, <3>3, <3>4, PatchEven
  <2> QED BY <1>5, <1>14, <2>1, <2>2, <2>3
<1>15. r.type = "copy" => mem' = mem
  BY <1>1
<1>16. /\ UNCHANGED <<prog, nodes, stage, at>> /\ entry' = entry + 1 /\ stage = "relocate"
  BY <1>1
<1>17. QED BY <1>2, <1>3, <1>5, <1>13, <1>14, <1>15, <1>16 DEF location, D

\* A word that has become what it should be.
LEMMA WordDone ==
    ASSUME LinkReady, SameObjects, NEW i \in Objects, NEW k \in 1..Len(File(i).relocs),
           IsRelocated(i, k)', NEW q, q = File(i).relocs[k],
           NEW a, a = q.offset + nodes[i].addr,
           /\ q.type # "copy"
           /\ q \in References(i) => Agreed(Name(i, q))
           /\ Expected(i, q) % 2 = 0
           => mem'[a] = Expected(i, q)
    PROVE  WordKept(i, k)'
<1>1. /\ File(i)' = File(i) /\ References(i)' = References(i)
      /\ nodes'[i].addr = nodes[i].addr
  BY FilesSame
<1>2. /\ Name(i, q)' = Name(i, q) /\ Expected(i, q)' = Expected(i, q)
      /\ \A name : Agreed(name)' <=> Agreed(name)
  BY MeaningSame
<1>3. (Agreed(Name(i, q)))' <=> Agreed(Name(i, q))
  BY <1>2
<1>4. WordKept(i, k)' <=>
          /\ q.type = "relative" /\ ~IsRelocated(i, k)' => mem'[a] = File(i)'.data[q.offset]
          /\ /\ q.type # "copy" /\ IsRelocated(i, k)'
             /\ q \in References(i)' => (Agreed(Name(i, q)))'
             /\ Expected(i, q)' % 2 = 0
             => mem'[a] = Expected(i, q)'
  BY <1>1 DEF WordKept
<1>5. QED BY <1>1, <1>2, <1>3, <1>4

\* apply_relocations() keeps the invariant: a word is filled by one relocation only.
LEMMA RelocateBound ==
    ASSUME LinkReady, RootFirst, BindInv, ApplyRelocation
    PROVE  BindInv'
<1>1. PICK o, x : o = at /\ x = entry
  OBVIOUS
<1>2. PICK r : r = File(o).relocs[x]
  OBVIOUS
<1>3. /\ o \in Objects /\ x \in 1..Len(File(o).relocs) /\ x \in Nat \ {0}
      /\ stage = "relocate" /\ UNCHANGED <<prog, nodes, stage, at>> /\ entry' = entry + 1
      /\ LinksTyped /\ prog.dynamic
      /\ \A a \in 0..memsize - 1 : a # r.offset + nodes[o].addr => mem'[a] = mem[a]
      /\ r.type = "copy" => mem' = mem
      /\ /\ r.type # "copy"
         /\ r \in References(o) => Agreed(Name(o, r))
         /\ Expected(o, r) % 2 = 0
         => mem'[r.offset + nodes[o].addr] = Expected(o, r)
  BY <1>1, <1>2, RelocateAt
<1>4. /\ SameObjects /\ nodes' = nodes /\ stage' = "relocate" /\ Objects' = Objects
      /\ \A i \in Objects : File(i)' = File(i)
  BY <1>3, SameTables, FilesSame
<1>5. EntriesKept /\ ReferencesKept /\ WordsKept
  BY <1>3 DEF BindInv
<1>6. ASSUME NEW i \in Objects, NEW k \in Nat \ {0}
      PROVE  /\ IsAdjusted(i)' <=> IsAdjusted(i)
             /\ IsResolved(i, k)' <=> IsResolved(i, k)
             /\ IsRelocated(i, k)' <=> IsRelocated(i, k) \/ (i = o /\ k = x)
             /\ ~IsCopied(i, k)'
  <2>1. /\ IsAdjusted(i)' <=> IsAdjusted(i)
        /\ IsResolved(i, k)' <=> IsResolved(i, k) \/ (stage = "resolve" /\ i = at /\ k = entry)
        /\ IsRelocated(i, k)' <=>
              IsRelocated(i, k) \/ (stage = "relocate" /\ i = at /\ k = entry)
    BY <1>3, LoopGoes
  <2>2. ~IsCopied(i, k)'
    BY <1>4 DEF IsCopied, Passed, RunStages
  <2> QED BY <1>1, <1>3, <2>1, <2>2
<1>7. 1 \in Nat \ {0} /\ \A n : \A k \in 1..n : k \in Nat \ {0}
  OBVIOUS
<1>8. EntriesKept'
  BY <1>3, <1>5, <1>6, <1>7, EntriesStay, Zenon
<1>9. ReferencesKept'
  <2>1. \A i \in Objects : \A k \in 1..Len(File(i).relocs) :
            IsResolved(i, k)' => ReferenceKept(i, k)
    BY <1>5, <1>6, <1>7 DEF ReferencesKept
  <2> QED BY <1>3, <1>4, <2>1, ReferencesStay
<1>10. ASSUME NEW i \in Objects, NEW k \in 1..Len(File(i).relocs)
       PROVE  WordKept(i, k)'
  <2>1. PICK q : q = File(i).relocs[k]
    OBVIOUS
  <2>2. PICK a : a = q.offset + nodes[i].addr
    OBVIOUS
  <2>3. CASE i = o /\ k = x
    <3>1. IsRelocated(i, k)'
      BY <1>6, <1>7, <2>3
    <3> QED BY <1>2, <1>3, <1>4, <2>3, <3>1, WordDone
  <2>4. CASE ~(i = o /\ k = x)
    <3>1. IsRelocated(i, k)' <=> IsRelocated(i, k)
      BY <1>6, <1>7, <2>4
    <3>2. q.type # "copy" => mem'[a] = mem[a]
      <4>1. CASE r.type = "copy"
        BY <1>3, <4>1
      <4>2. CASE r.type # "copy"
        <5> SUFFICES ASSUME q.type # "copy" PROVE mem'[a] = mem[a]
          OBVIOUS
        <5>1. r.offset \in Fills(prog, File(o), r) /\ q.offset \in Fills(prog, File(i), q)
          BY <4>2, WordFilled
        <5>2. a \in 0..memsize - 1
          BY <2>1, <2>2, <5>1, FillsInside
        <5>3. a # r.offset + nodes[o].addr
          BY <1>2, <1>3, <2>1, <2>2, <2>4, <5>1, FillsApart
        <5> QED BY <1>3, <5>2, <5>3
      <4> QED BY <4>1, <4>2
    <3>3. WordKept(i, k)
      BY <1>5 DEF WordsKept
    <3> QED BY <1>4, <2>1, <2>2, <3>1, <3>2, <3>3, WordSame
  <2> QED BY <2>3, <2>4
<1>11. WordsKept'
  BY <1>4, <1>10 DEF WordsKept
<1>12. CopiesKept'
  BY <1>4, <1>6 DEF CopiesKept
<1>13. QED BY <1>4, <1>8, <1>9, <1>11, <1>12 DEF BindInv
-----------------------------------------------------------------------------
(* Copying the program's objects.                                          *)

\* A copy is taken from inside a library, to words that a relocation of the
\* program fills.
LEMMA CopyIs ==
    ASSUME LinkReady, RootFirst, NEW i \in Objects, NEW c \in Copying(i)
    PROVE  /\ i # 1 /\ c \in Copies /\ 1 \in Objects
           /\ nodes[i].addr <= c.src /\ c.src + c.size <= ObjectEnd(nodes[i])
           /\ ObjectEnd(nodes[1]) <= nodes[i].addr
           /\ \E k \in 1..Len(File(1).relocs) :
                 LET r == File(1).relocs[k] IN
                 /\ r.type = "copy" /\ r.offset = c.dst
                 /\ \A x \in 0..c.size - 1 : c.dst + x \in Fills(prog, File(1), r)
<1>1. i # 1
  BY DEF Copying
<1>2. PICK s \in Range(File(i).symbols) :
          s.defined /\ Copied(s) /\ c = CopyOf(s, nodes[i].addr)
  BY <1>1 DEF Copying
<1>3. /\ File(i).symbols \in Seq(Symbols) /\ WellFormed(File(i)) /\ nodes[i].addr \in Nat
      /\ Len(File(i).symbols) \in Nat /\ File(i) \in FileSet /\ File(i).size \in Nat
  BY ObjectFacts DEF WellFormed
<1>4. PICK m \in 1..Len(File(i).symbols) : s = File(i).symbols[m]
  BY <1>3, RangeOf
<1>5. s \in Symbols /\ s.value + s.size <= File(i).size
  BY <1>2, <1>3, <1>4, ObjectFacts DEF WellFormed
<1>6. s.value \in Nat /\ s.size \in Nat /\ s.type = "object" /\ CopyTarget(s.name) # 0
  BY <1>2, <1>5 DEF Symbols, Copied
<1>7. WellFormed(Root) /\ CopyTarget(s.name) \in Nat
  BY RootIs, CopyTargetIs DEF LinkReady
<1>8. /\ c = [dst |-> CopyTarget(s.name), src |-> s.value + nodes[i].addr, size |-> s.size]
      /\ c \in Copies
  BY <1>2, <1>3, <1>6, <1>7 DEF CopyOf, Copies
<1>9. 1 \in Objects /\ 1 < i
  <2>1. Len(nodes) \in Nat /\ i \in 1..Len(nodes)
    BY DEF LinkReady, LinkInv, LinksTyped, Objects
  <2> QED BY <1>1, <2>1 DEF Objects
<1>10. /\ ObjectEnd(nodes[i]) = nodes[i].addr + File(i).size
       /\ ObjectEnd(nodes[1]) <= nodes[i].addr
  BY <1>9, ObjectsApart
<1>11. nodes[i].addr <= c.src /\ c.src + c.size <= ObjectEnd(nodes[i])
  BY <1>3, <1>5, <1>6, <1>8, <1>10
<1> DEFINE T == {k \in 1..Len(Root.relocs) :
                    /\ Root.relocs[k].type = "copy"
                    /\ Root.symbols[Root.relocs[k].sym].name = s.name}
<1>12. PICK k \in T : Root.relocs[k].offset = CopyTarget(s.name)
  <2>1. CopyTarget(s.name) = IF T = {} THEN 0 ELSE Root.relocs[Min(T)].offset
    BY DEF CopyTarget
  <2>2. T \subseteq Nat /\ T \subseteq 1..Len(Root.relocs)
    OBVIOUS
  <2> HIDE DEF T
  <2>3. T # {}
    BY <1>6, <2>1
  <2>4. Min(T) \in T
    BY <2>2, <2>3, MinOf, Zenon
  <2> QED BY <2>1, <2>3, <2>4
<1>13. PICK r : r = Root.relocs[k]
  OBVIOUS
<1>14. /\ k \in 1..Len(File(1).relocs) /\ File(1).relocs[k] = r
       /\ r.type = "copy" /\ r.offset = c.dst /\ File(1).symbols[r.sym].name = s.name
  BY <1>8, <1>12, <1>13 DEF RootFirst
<1>15. s \in UNION {Range(prog.files[f].symbols) : f \in DOMAIN prog.files}
  BY <1>2, <1>3 DEF FileSet
<1>16. r.offset..r.offset + s.size - 1 \subseteq Fills(prog, File(1), r)
  BY <1>2, <1>6, <1>14, <1>15, Zenon DEF Fills
<1>17. ASSUME NEW x \in 0..c.size - 1 PROVE c.dst + x \in Fills(prog, File(1), r)
  <2>1. c.dst \in Nat /\ c.size = s.size /\ s.size \in Nat
    BY <1>6, <1>7, <1>8
  <2>2. c.dst + x \in c.dst..c.dst + s.size - 1
    BY <2>1
  <2> QED BY <1>14, <1>16, <2>2
<1>18. QED BY <1>1, <1>8, <1>9, <1>10, <1>11, <1>14, <1>17, Zenon

\* What is copied lies behind the program, where it is copied to in it.
LEMMA CopyPlaces ==
    ASSUME LinkReady, RootFirst, NEW i \in Objects, NEW c \in Copying(i), NEW x \in 0..c.size - 1
    PROVE  /\ c.dst \in Nat /\ c.src \in Nat /\ c.size \in Nat
           /\ c.dst + x \in 0..memsize - 1 /\ c.src + x \in 0..memsize - 1
           /\ c.dst + x < ObjectEnd(nodes[1]) /\ ObjectEnd(nodes[1]) <= c.src + x
           /\ ObjectEnd(nodes[1]) \in Nat
<1>1. /\ c \in Copies /\ 1 \in Objects
      /\ nodes[i].addr <= c.src /\ c.src + c.size <= ObjectEnd(nodes[i])
      /\ ObjectEnd(nodes[1]) <= nodes[i].addr
  BY CopyIs
<1>2. PICK k \in 1..Len(File(1).relocs) :
          c.dst + x \in Fills(prog, File(1), File(1).relocs[k])
  BY CopyIs
<1>3. PICK r : r = File(1).relocs[k]
  OBVIOUS
<1>4. nodes[1].addr = 0
  BY <1>1, ObjectFacts
<1>5. c.dst \in Nat /\ c.src \in Nat /\ c.size \in Nat
  BY <1>1 DEF Copies
<1>6. PICK y : y = c.dst + x
  OBVIOUS
<1>7. /\ y \in Nat /\ y + nodes[1].addr < ObjectEnd(nodes[1])
      /\ y + nodes[1].addr \in 0..memsize - 1
  BY <1>1, <1>2, <1>3, <1>6, FillsInside
<1>8. /\ ObjectEnd(nodes[1]) \in Nat /\ ObjectEnd(nodes[i]) \in Nat
      /\ ObjectEnd(nodes[i]) <= memsize /\ memsize \in Nat /\ nodes[i].addr \in Nat
  BY <1>1, ObjectsApart, ObjectFacts
<1>9. c.src + x \in 0..memsize - 1 /\ ObjectEnd(nodes[1]) <= c.src + x
  <2>1. x \in Nat /\ x < c.size
    BY <1>5
  <2>2. c.src + x \in Nat /\ c.src + x < c.src + c.size /\ c.src <= c.src + x
    BY ONLY <1>5, <2>1
  <2>3. PICK z : z = c.src + x
    OBVIOUS
  <2>4. PICK e : e = c.src + c.size
    OBVIOUS
  <2>5. e \in Nat /\ z \in Nat /\ z < e /\ c.src <= z /\ e <= ObjectEnd(nodes[i])
    BY <1>1, <1>5, <2>2, <2>3, <2>4
  <2>6. z < ObjectEnd(nodes[i]) /\ ObjectEnd(nodes[1]) <= z
    <3>1. z < ObjectEnd(nodes[i])
      BY ONLY <1>8, <2>5
    <3>2. ObjectEnd(nodes[1]) <= c.src
      BY ONLY <1>1, <1>5, <1>8
    <3>3. ObjectEnd(nodes[1]) <= z
      BY ONLY <1>5, <1>8, <2>5, <3>2
    <3> QED BY <3>1, <3>3
  <2>7. z \in 0..memsize - 1
    BY <1>8, <2>5, <2>6
  <2> QED BY <2>3, <2>6, <2>7
<1>10. c.dst + x \in 0..memsize - 1 /\ c.dst + x < ObjectEnd(nodes[1])
  <2>1. y + nodes[1].addr = y
    BY ONLY <1>4, <1>7
  <2> QED BY ONLY <1>6, <1>7, <2>1
<1>11. QED BY <1>5, <1>8, <1>9, <1>10

\* Copies to the same words are to the same place.
LEMMA CopiesApart ==
    ASSUME LinkReady, RootFirst,
           NEW i \in Objects, NEW c \in Copying(i), NEW x \in 0..c.size - 1,
           NEW j \in Objects, NEW e \in Copying(j), NEW y \in 0..e.size - 1,
           c.dst + x = e.dst + y
    PROVE  c.dst = e.dst
<1>1. 1 \in Objects
  BY CopyIs
<1>2. PICK k \in 1..Len(File(1).relocs) :
          /\ File(1).relocs[k].offset = c.dst
          /\ c.dst + x \in Fills(prog, File(1), File(1).relocs[k])
  BY CopyIs
<1>3. PICK l \in 1..Len(File(1).relocs) :
          /\ File(1).relocs[l].offset = e.dst
          /\ e.dst + y \in Fills(prog, File(1), File(1).relocs[l])
  BY CopyIs
<1>4. PICK r, q, v, w : /\ r = File(1).relocs[k] /\ q = File(1).relocs[l]
                        /\ v = c.dst + x /\ w = e.dst + y
  OBVIOUS
<1>5. v + nodes[1].addr = w + nodes[1].addr
  BY <1>4
<1>6. v \in Fills(prog, File(1), r) /\ w \in Fills(prog, File(1), q)
  BY <1>2, <1>3, <1>4
<1>7. k = l
  BY ONLY LinkReady, RootFirst, <1>1, <1>4, <1>5, <1>6, FillsApart
<1>8. QED BY <1>2, <1>3, <1>7

\* No word that was relocated is copied over.
LEMMA WordCopied ==
    ASSUME LinkReady, RootFirst, NEW i \in Objects, NEW c \in Copying(i), NEW x \in 0..c.size - 1,
           NEW j \in Objects, NEW l \in 1..Len(File(j).relocs), File(j).relocs[l].type # "copy"
    PROVE  c.dst + x # File(j).relocs[l].offset + nodes[j].addr
<1> SUFFICES ASSUME c.dst + x = File(j).relocs[l].offset + nodes[j].addr PROVE FALSE
  OBVIOUS
<1>1. 1 \in Objects /\ c.dst \in Nat
  BY CopyIs, CopyPlaces
<1>2. PICK k \in 1..Len(File(1).relocs) :
          /\ File(1).relocs[k].type = "copy"
          /\ c.dst + x \in Fills(prog, File(1), File(1).relocs[k])
  BY CopyIs
<1>3. PICK r, q, v, w : /\ r = File(1).relocs[k] /\ q = File(j).relocs[l]
                        /\ v = c.dst + x /\ w = q.offset
  OBVIOUS
<1>4. nodes[1].addr = 0
  BY <1>1, ObjectFacts
<1>5. v + nodes[1].addr = w + nodes[j].addr
  BY <1>1, <1>3, <1>4
<1>6. w \in Fills(prog, File(j), q)
  BY <1>3, WordFilled
<1>7. 1 = j /\ k = l
  BY <1>1, <1>2, <1>3, <1>5, <1>6, FillsApart
<1>8. QED BY <1>2, <1>7

\* The turn that copies.
LEMMA CopyAt ==
    ASSUME LinkReady, BindInv, ApplyPendingCopy, NEW o, o = at, NEW x, x = entry,
           NEW c, c = nodes[o].copies[x]
    PROVE  /\ o \in Objects /\ x \in 1..Len(nodes[o].copies) /\ c \in Copying(o)
           /\ stage = "copy" /\ UNCHANGED <<prog, nodes, stage, at>> /\ entry' = entry + 1
           /\ LinksTyped /\ prog.dynamic
           /\ mem' = [a \in 0..memsize - 1 |->
                         IF a - c.dst \in 0..c.size - 1 THEN mem[a - c.dst + c.src] ELSE mem[a]]
           /\ \A i \in Objects : Range(nodes[i].copies) = Copying(i)
<1>1. /\ stage = "copy" /\ x <= Len(nodes[o].copies)
      /\ UNCHANGED <<prog, nodes, stage, at>> /\ entry' = entry + 1
      /\ mem' = [a \in DOMAIN mem |->
                    IF a - c.dst \in 0..c.size - 1 THEN mem[a - c.dst + c.src] ELSE mem[a]]
  BY DEF ApplyPendingCopy, Linking, Entries
<1>2. /\ LinksTyped /\ prog.dynamic /\ o \in Objects /\ DOMAIN mem = 0..memsize - 1
      /\ x \in Nat \ {0}
  BY DEF LinkReady, LinkInv, LinksTyped, Objects
<1>3. nodes[o].copies \in Seq(Copies)
  BY <1>2, ObjectFacts
<1>4. x \in 1..Len(nodes[o].copies)
  BY <1>1, <1>2, <1>3
<1>5. \A i \in Objects : Range(nodes[i].copies) = Copying(i)
  BY <1>1 DEF BindInv, EntriesKept, IsAdjusted
<1>6. c \in Copying(o)
  BY <1>2, <1>3, <1>4, <1>5, RangeOf
<1>7. QED BY <1>1, <1>2, <1>4, <1>5, <1>6

\* What a copy leaves of the others.
LEMMA CopyLeaves ==
    ASSUME LinkReady, RootFirst, NEW o \in Objects, NEW c \in Copying(o),
           mem' = [a \in 0..memsize - 1 |->
                      IF a - c.dst \in 0..c.size - 1 THEN mem[a - c.dst + c.src] ELSE mem[a]],
           NEW i \in Objects, NEW e \in Copying(i), NEW y \in 0..e.size - 1
    PROVE  /\ mem'[e.src + y] = mem[e.src + y]
           /\ e = c => mem'[e.dst + y] = mem[e.src + y]
           /\ e.dst # c.dst => mem'[e.dst + y] = mem[e.dst + y]
<1>1. /\ e.dst \in Nat /\ e.src \in Nat /\ e.size \in Nat
      /\ e.dst + y \in 0..memsize - 1 /\ e.src + y \in 0..memsize - 1
      /\ ObjectEnd(nodes[1]) <= e.src + y /\ ObjectEnd(nodes[1]) \in Nat
  BY CopyPlaces
<1>2. c.dst \in Nat /\ c.size \in Nat
  BY CopyIs DEF Copies
<1>3. mem'[e.src + y] = mem[e.src + y]
  <2>1. (e.src + y) - c.dst \notin 0..c.size - 1
    <3> SUFFICES ASSUME NEW x \in 0..c.size - 1, (e.src + y) - c.dst = x PROVE FALSE
      OBVIOUS
    <3>1. c.dst + x < ObjectEnd(nodes[1])
      BY CopyPlaces
    <3> QED BY <1>1, <1>2, <3>1
  <2> QED BY <1>1, <2>1
<1>4. e = c => mem'[e.dst + y] = mem[e.src + y]
  <2> SUFFICES ASSUME e = c PROVE mem'[e.dst + y] = mem[e.src + y]
    OBVIOUS
  <2>1. (e.dst + y) - c.dst = y /\ y + c.src = e.src + y
    BY <1>1
  <2> QED BY <1>1, <2>1, Zenon
<1>5. e.dst # c.dst => mem'[e.dst + y] = mem[e.dst + y]
  <2> SUFFICES ASSUME e.dst # c.dst PROVE mem'[e.dst + y] = mem[e.dst + y]
    OBVIOUS
  <2>1. (e.dst + y) - c.dst \notin 0..c.size - 1
    <3> SUFFICES ASSUME NEW x \in 0..c.size - 1, (e.dst + y) - c.dst = x PROVE FALSE
      OBVIOUS
    <3>1. c.dst + x = e.dst + y
      BY <1>1, <1>2
    <3> QED BY <3>1, CopiesApart
  <2> QED BY <1>1, <2>1
<1>6. QED BY <1>3, <1>4, <1>5

\* apply_pending_copies() keeps the invariant: no copy disturbs a word, or another.
LEMMA CopyBound ==
    ASSUME LinkReady, RootFirst, BindInv, ApplyPendingCopy
    PROVE  BindInv'
<1>1. PICK o, x : o = at /\ x = entry
  OBVIOUS
<1>2. PICK c : c = nodes[o].copies[x]
  OBVIOUS
<1>3. /\ o \in Objects /\ x \in 1..Len(nodes[o].copies) /\ c \in Copying(o)
      /\ stage = "copy" /\ UNCHANGED <<prog, nodes, stage, at>> /\ entry' = entry + 1
      /\ LinksTyped /\ prog.dynamic
      /\ mem' = [a \in 0..memsize - 1 |->
                    IF a - c.dst \in 0..c.size - 1 THEN mem[a - c.dst + c.src] ELSE mem[a]]
      /\ \A i \in Objects : Range(nodes[i].copies) = Copying(i)
  BY <1>1, <1>2, CopyAt
<1>4. /\ SameObjects /\ nodes' = nodes /\ stage' = "copy" /\ Objects' = Objects
      /\ \A i \in Objects : File(i)' = File(i)
  BY <1>3, SameTables, FilesSame
<1>5. EntriesKept /\ ReferencesKept /\ WordsKept /\ CopiesKept
  BY <1>3 DEF BindInv
<1>6. ASSUME NEW i \in Objects, NEW k \in Nat \ {0}
      PROVE  /\ IsAdjusted(i)' <=> IsAdjusted(i)
             /\ IsResolved(i, k)' <=> IsResolved(i, k)
             /\ IsRelocated(i, k)' <=> IsRelocated(i, k)
             /\ IsCopied(i, k)' <=> IsCopied(i, k) \/ (i = o /\ k = x)
  <2>1. /\ IsAdjusted(i)' <=> IsAdjusted(i)
        /\ IsResolved(i, k)' <=> IsResolved(i, k) \/ (stage = "resolve" /\ i = at /\ k = entry)
        /\ IsRelocated(i, k)' <=>
              IsRelocated(i, k) \/ (stage = "relocate" /\ i = at /\ k = entry)
        /\ IsCopied(i, k)' <=> IsCopied(i, k) \/ (stage = "copy" /\ i = at /\ k = entry)
    BY <1>3, LoopGoes
  <2> QED BY <1>1, <1>3, <2>1
<1>7. 1 \in Nat \ {0} /\ \A n : \A k \in 1..n : k \in Nat \ {0}
  OBVIOUS
<1>8. EntriesKept'
  BY <1>3, <1>5, <1>6, <1>7, EntriesStay
<1>9. ReferencesKept'
  <2>1. \A i \in Objects : \A k \in 1..Len(File(i).relocs) :
            IsResolved(i, k)' => ReferenceKept(i, k)
    BY <1>5, <1>6, <1>7 DEF ReferencesKept
  <2> QED BY <1>3, <1>4, <2>1, ReferencesStay
<1>10. WordsKept'
  <2>1. ASSUME NEW i \in Objects, NEW k \in 1..Len(File(i).relocs),
               File(i).relocs[k].type # "copy",
               NEW a, a = File(i).relocs[k].offset + nodes[i].addr
        PROVE  mem'[a] = mem[a]
    <3>1. PICK r : r = File(i).relocs[k]
      OBVIOUS
    <3>2. r.offset \in Fills(prog, File(i), r)
      BY <2>1, <3>1, WordFilled
    <3>3. a \in 0..memsize - 1
      BY <2>1, <3>1, <3>2, FillsInside
    <3>4. a - c.dst \notin 0..c.size - 1
      <4> SUFFICES ASSUME NEW y \in 0..c.size - 1, a - c.dst = y PROVE FALSE
        OBVIOUS
      <4>1. c.dst \in Nat /\ c.dst + y # a
        BY <1>3, <2>1, CopyPlaces, WordCopied, Zenon
      <4> QED BY <3>3, <4>1
    <3> QED BY <1>3, <3>3, <3>4
  <2>2. \A i \in Objects : \A k \in 1..Len(File(i).relocs) :
            IsRelocated(i, k)' <=> IsRelocated(i, k)
    BY <1>6, <1>7
  <2> QED BY <1>4, <1>5, <2>1, <2>2, WordsStay
<1>11. CopiesKept'
  <2> SUFFICES ASSUME NEW i \in Objects, NEW k \in 1..Len(nodes[i].copies), IsCopied(i, k)',
                      NEW e, e = nodes[i].copies[k],
                      \A j \in Objects : \A z \in Range(nodes[j].copies) : z.dst = e.dst => z = e,
                      NEW y \in 0..e.size - 1
               PROVE  mem'[e.dst + y] = mem'[e.src + y]
    BY <1>4 DEF CopiesKept, CopyKept
  <2>1. e \in Copying(i)
    <3>1. nodes[i].copies \in Seq(Copies)
      BY ObjectFacts
    <3> QED BY <1>3, <3>1, RangeOf
  <2>2. /\ mem'[e.src + y] = mem[e.src + y]
        /\ e = c => mem'[e.dst + y] = mem[e.src + y]
        /\ e.dst # c.dst => mem'[e.dst + y] = mem[e.dst + y]
    <3>1. y \in 0..e.size - 1
      OBVIOUS
    <3> QED BY ONLY LinkReady, RootFirst, <1>3, <2>1, <3>1, CopyLeaves
  <2>3. CASE e = c
    BY <2>2, <2>3
  <2>4. CASE e # c
    <3>1. e.dst # c.dst
      <4>1. c \in Range(nodes[o].copies)
        BY <1>3
      <4> QED BY <1>3, <2>4, <4>1
    <3>2. IsCopied(i, k)
      <4>1. ~(i = o /\ k = x)
        BY <1>2, <2>4
      <4> QED BY <1>6, <1>7, <4>1
    <3>3. mem[e.dst + y] = mem[e.src + y]
      BY <1>5, <3>2 DEF CopiesKept, CopyKept
    <3> QED BY <2>2, <3>1, <3>3
  <2> QED BY <2>3, <2>4
<1>12. QED BY <1>4, <1>8, <1>9, <1>10, <1>11 DEF BindInv
-----------------------------------------------------------------------------
(* Loading.                                                                *)

\* Nothing is done to the tables while objects are loaded.
LEMMA NothingDone ==
    ASSUME NEW i, NEW k
    PROVE  /\ stage = "load" => ~IsAdjusted(i) /\ ~IsResolved(i, k) /\ ~IsRelocated(i, k)
                                /\ ~IsCopied(i, k)
           /\ stage' = "load" => ~IsAdjusted(i)' /\ ~IsResolved(i, k)' /\ ~IsRelocated(i, k)'
                                 /\ ~IsCopied(i, k)'
BY DEF IsAdjusted, IsResolved, IsRelocated, IsCopied, Passed, RunStages

\* Where a library goes, no object is.
LEMMA BehindAll ==
    ASSUME LinkReady, RootFirst, stage = "load", NEW i \in Objects
    PROVE  ObjectEnd(nodes[i]) <= SuggestFreeRegion
<1>1. /\ LaidOut /\ SuggestFreeRegion \in Nat /\ Last(list).addr \in Nat
      /\ Last(list).addr <= SuggestFreeRegion /\ Len(nodes) \in Nat
  BY LoadingFacts DEF LinkReady
<1>2. ObjectEnd(nodes[i]) \in Nat /\ ObjectEnd(nodes[1]) <= prog.end /\ prog.end \in Nat
  BY ObjectsApart
<1>3. CASE i = 1
  <2>1. prog.end <= Last(list).addr
    BY <1>1 DEF LaidOut
  <2> QED BY <1>1, <1>2, <1>3, <2>1
<1>4. CASE i # 1
  <2>1. i \in 2..Len(nodes)
    BY <1>1, <1>4 DEF Objects
  <2>2. ObjectEnd(nodes[i]) <= Last(list).addr
    BY <1>1, <2>1 DEF LaidOut
  <2> QED BY <1>1, <1>2, <2>2
<1>5. QED BY <1>3, <1>4

\* The list of nodes with a library more.
LEMMA NodeAdded ==
    ASSUME LinkReady, stage = "load", NEW name, NEW file, NEW a,
           nodes' = NewNode(LinkNode(name, file, a))
    PROVE  /\ Len(nodes) \in Nat /\ Len(nodes') = Len(nodes) + 1 /\ at \in Objects
           /\ Objects' = Objects \cup {Len(nodes) + 1}
           /\ \A i \in Objects : nodes'[i] = nodes[i] /\ File(i)' = File(i)
           /\ nodes'[Len(nodes) + 1] = LinkNode(name, file, a)
           /\ \A i : i = Len(nodes) + 1 => File(i)' = file
<1> DEFINE n == Len(nodes)
           new == LinkNode(name, file, a)
<1>1. nodes \in Seq(LinkNodes) /\ n \in Nat /\ at \in 1..n
  BY LoadingFacts DEF LinkReady
<1>2. nodes' = Append(nodes, new)
  BY DEF NewNode
<1>3. new.file = file
  BY DEF LinkNode
<1> HIDE DEF new
<1>4. Len(nodes') = n + 1 /\ nodes'[n + 1] = new /\ \A i \in 1..n : nodes'[i] = nodes[i]
  BY <1>1, <1>2
<1>5. 1..n + 1 = 1..n \cup {n + 1}
  BY <1>1
<1>6. Objects' = Objects \cup {n + 1}
  BY <1>4, <1>5 DEF Objects
<1>7. \A i \in Objects : nodes'[i] = nodes[i] /\ File(i)' = File(i)
  BY <1>4 DEF Objects, File
<1>8. \A i : i = n + 1 => File(i)' = file
  BY <1>3, <1>4 DEF File
<1>9. QED BY <1>1, <1>4, <1>6, <1>7, <1>8 DEF new, Objects

\* The program stays the first object.
LEMMA RootStays ==
    ASSUME LinkReady, RootFirst, LoaderNext
    PROVE  RootFirst'
<1>1. 1 \in Objects
  BY DEF LinkReady, LinkInv, LinksTyped, Objects
<1>2. prog' = prog /\ LinksTyped /\ TablesKept /\ prog.dynamic
  BY Zenon DEF LoaderNext, LoadNeeded, NextObject, AdjustSymbols, ResolveSymbol, ResolveNext,
         ApplyRelocation, RelocateNext, ApplyPendingCopy, CopyNext, Boot, RtldInit, RtldFini,
         SystemCall, Exit, Linking, Running, LinkReady, LinkInv
<1>3. nodes'[1].file = nodes[1].file
  <2>1. CASE LoadNeeded
    <3>1. stage = "load"
      BY <2>1 DEF LoadNeeded
    <3>2. nodes' = nodes \/ \E name, file, a : nodes' = NewNode(LinkNode(name, file, a))
      BY <2>1, Zenon DEF LoadNeeded
    <3> QED BY <1>1, <3>1, <3>2, NodeAdded
  <2>2. CASE AdjustSymbols
    BY <1>1, <2>2, AdjustIs DEF SameObjects, Objects
  <2>3. CASE ResolveSymbol
    <3>1. SameObjects
      BY <1>2, <2>3, ResolveSame DEF LinkReady
    <3> QED BY <1>1, <3>1 DEF SameObjects, Objects
  <2>4. CASE UNCHANGED nodes
    BY <2>4
  <2>5. LoadNeeded \/ AdjustSymbols \/ ResolveSymbol \/ UNCHANGED nodes
    BY DEF LoaderNext, NextObject, ResolveNext,
         ApplyRelocation, RelocateNext, ApplyPendingCopy, CopyNext, Boot, RtldInit, RtldFini,
         SystemCall, Exit, Linking, Running
  <2> QED BY <2>1, <2>2, <2>3, <2>4, <2>5
<1>4. QED BY <1>2, <1>3 DEF RootFirst, File, Root

\* A library is there as its file has it, and all else as it was.
LEMMA LoadedBound ==
    ASSUME LinkReady, RootFirst, BindInv, stage = "load", stage' = "load",
           NEW name, LibraryName[name] \in DOMAIN prog.files,
           NEW file, file = prog.files[LibraryName[name]],
           NEW a, a = SuggestFreeRegion, a + file.size <= memsize,
           nodes' = NewNode(LinkNode(name, file, a)), mem' = Loaded(mem, file, a)
    PROVE  BindInv'
<1>1. PICK n : n = Len(nodes)
  BY Zenon
<1>2. PICK new : new = LinkNode(name, file, a)
  OBVIOUS
<1>3. /\ Objects' = Objects \cup {n + 1} /\ n \in Nat
      /\ \A i \in Objects : nodes'[i] = nodes[i] /\ File(i)' = File(i)
      /\ nodes'[n + 1] = new /\ File(n + 1)' = file
  BY <1>1, <1>2, NodeAdded
<1>4. new.file = file /\ new.addr = a /\ new.copies = << >>
  BY <1>2 DEF LinkNode
<1>5. EntriesKept /\ WordsKept
  BY DEF BindInv
<1>6. \A i \in Objects' : nodes'[i].copies = << >>
  <2>1. ASSUME NEW i \in Objects PROVE nodes[i].copies = << >>
    BY <1>5, NothingDone, Zenon DEF EntriesKept
  <2> QED BY <1>3, <1>4, <2>1
<1>7. /\ file \in FileSet /\ WellFormed(file) /\ Separate(prog, file) /\ file.size \in Nat
      /\ a \in Nat /\ mem \in [0..memsize - 1 -> Addr] /\ memsize \in Nat
  <2>1. file \in FileSet
    BY DEF FileSet
  <2>2. prog \in Programs /\ prog.dynamic
    BY DEF LinkReady
  <2>3. Separate(prog, file)
    BY <2>2 DEF LinkReady, TablesFit
  <2>4. WellFormed(file) /\ file.size \in Nat
    BY <2>1, <2>2, RootIs, SizeIs DEF LinkReady
  <2> QED BY <2>1, <2>3, <2>4, LoadingFacts DEF LinkReady
<1>8. \A x \in 0..memsize - 1 :
          mem'[x] = IF x - a \in DOMAIN file.data THEN file.data[x - a] ELSE mem[x]
  BY <1>7 DEF Loaded
<1>9. DOMAIN file.data \subseteq 0..file.size - 1
  BY <1>7, Zenon DEF Separate
<1>10. ASSUME NEW i \in Objects, NEW k \in 1..Len(File(i).relocs),
              File(i).relocs[k].type = "relative"
       PROVE  mem'[File(i).relocs[k].offset + nodes[i].addr]
              = File(i).data[File(i).relocs[k].offset]
  <2>1. PICK r, x : r = File(i).relocs[k] /\ x = r.offset + nodes[i].addr
    OBVIOUS
  <2>2. mem[x] = File(i).data[r.offset]
    BY <1>5, <1>10, <2>1, NothingDone DEF WordsKept, WordKept
  <2>3. r.offset \in Fills(prog, File(i), r)
    BY <1>10, <2>1, WordFilled
  <2>4. x \in 0..memsize - 1 /\ x < ObjectEnd(nodes[i])
    BY <2>1, <2>3, FillsInside
  <2>5. ObjectEnd(nodes[i]) <= a /\ ObjectEnd(nodes[i]) \in Nat
    BY BehindAll, ObjectsApart
  <2>6. x - a \notin DOMAIN file.data
    BY <1>7, <1>9, <2>4, <2>5
  <2> QED BY <1>8, <2>1, <2>2, <2>4, <2>6
<1>11. ASSUME NEW k \in 1..Len(file.relocs), file.relocs[k].type = "relative"
       PROVE  mem'[file.relocs[k].offset + a] = file.data[file.relocs[k].offset]
  <2>1. PICK x : x = file.relocs[k].offset
    OBVIOUS
  <2>2. x \in DOMAIN file.data
    BY <1>7, <1>11, <2>1, Zenon DEF Separate
  <2>3. x \in 0..file.size - 1
    BY <1>9, <2>2
  <2>4. x + a \in 0..memsize - 1 /\ (x + a) - a = x
    BY <1>7, <2>3
  <2> QED BY <1>8, <2>1, <2>2, <2>4
<1>12. \A i \in Objects' : \A k \in 1..Len(File(i)'.relocs) : WordKept(i, k)'
  <2> SUFFICES ASSUME NEW i \in Objects', NEW k \in 1..Len(File(i)'.relocs)
               PROVE  WordKept(i, k)'
    OBVIOUS
  <2>1. ~IsRelocated(i, k)'
    BY NothingDone
  <2>2. File(i)'.relocs[k].type = "relative" =>
            mem'[File(i)'.relocs[k].offset + nodes'[i].addr]
            = File(i)'.data[File(i)'.relocs[k].offset]
    <3>1. CASE i \in Objects
      BY <1>3, <1>10, <3>1
    <3>2. CASE i = n + 1
      BY <1>3, <1>4, <1>11, <3>2
    <3> QED BY <1>3, <3>1, <3>2
  <2> QED BY <2>1, <2>2 DEF WordKept
<1>13. EntriesKept'
  BY <1>6, NothingDone DEF EntriesKept
<1>14. ReferencesKept'
  BY NothingDone DEF ReferencesKept
<1>15. WordsKept'
  BY <1>12 DEF WordsKept
<1>16. CopiesKept'
  BY NothingDone DEF CopiesKept
<1>17. QED BY <1>13, <1>14, <1>15, <1>16 DEF BindInv

\* What an entry of the needed is.
LEMMA NeededIs ==
    ASSUME LinkReady, stage = "load", Entries(File(at).needed), NEW name,
           name = File(at).needed[entry]
    PROVE  at \in Objects /\ name \in Range(File(at).needed)
<1>1. at \in Objects /\ entry \in Nat \ {0}
  BY DEF LinkReady, LinkInv, LinksTyped, Objects
<1>2. File(at).needed \in Seq(STRING)
  BY <1>1, ObjectFacts DEF WellFormed
<1>3. entry \in 1..Len(File(at).needed)
  BY <1>1, <1>2 DEF Entries
<1>4. QED BY <1>1, <1>2, <1>3, RangeOf

\* A library that is too old has been loaded when that is found out.
LEMMA TooOldFails ==
    ASSUME LinkReady, stage = "load", NEW name, name \in Range(File(at).needed),
           NEW file, file = prog.files[LibraryName[name]],
           LibraryName[name] \in DOMAIN prog.files, NEW a,
           nodes' = NewNode(LinkNode(name, file, a)), UNCHANGED <<prog, at>>,
           IsOld(File(at), name, file)
    PROVE  FailsForReason'
<1>1. PICK n, o : n = Len(nodes) /\ o = at
  BY Zenon
<1>2. PICK new : new = LinkNode(name, file, a)
  OBVIOUS
<1>3. /\ n \in Nat /\ Len(nodes') = n + 1 /\ o \in Objects
      /\ \A i \in Objects : nodes'[i] = nodes[i] /\ File(i)' = File(i)
      /\ nodes'[n + 1] = new
  BY <1>1, <1>2, NodeAdded
<1>4. File(o)' = File(o) /\ at' = o /\ prog' = prog
  BY <1>1, <1>3
<1>5. IsLoaded(name)'
  <2>1. n # 0
    BY <1>1, <1>3 DEF Objects
  <2>2. n + 1 \in 2..Len(nodes')
    BY <1>3, <2>1
  <2>3. new.soname = name
    BY <1>2 DEF LinkNode
  <2> QED BY <1>3, <2>2, <2>3 DEF IsLoaded, SameLibrary
<1>6. name \in Range(File(o)'.needed)
  BY <1>1, <1>4
<1>7. IsOld(File(o)', name, file)
  BY <1>1, <1>4
<1>8. QED BY <1>4, <1>5, <1>6, <1>7 DEF FailsForReason, IsOld

\* load_needed() keeps the invariant: what is loaded goes where nothing is.
LEMMA LoadBound ==
    ASSUME LinkReady, RootFirst, BindInv, LoadNeeded
    PROVE  BindInv'
<1>1. PICK name : name = File(at).needed[entry]
  OBVIOUS
<1>2. PICK file : file = prog.files[LibraryName[name]]
  OBVIOUS
<1>3. PICK a : a = SuggestFreeRegion
  OBVIOUS
<1>4. /\ stage = "load" /\ Entries(File(at).needed) /\ entry' = entry + 1
      /\ UNCHANGED <<memsize, prog, at, weak>>
  BY DEF LoadNeeded
<1>5. \/ /\ IsLoaded(name)
         /\ UNCHANGED <<stage, list, nodes, mem>>
      \/ /\ ~IsLoaded(name)
         /\ ~(LibraryName[name] \in DOMAIN prog.files /\ a + file.size <= memsize)
         /\ stage' = "failed"
         /\ UNCHANGED <<list, nodes, mem>>
      \/ /\ ~IsLoaded(name) /\ LibraryName[name] \in DOMAIN prog.files
         /\ a + file.size <= memsize
         /\ nodes' = NewNode(LinkNode(name, file, a))
         /\ mem' = Loaded(mem, file, a)
         /\ IF IsOld(File(at), name, file) THEN stage' = "failed" ELSE stage' = stage
  BY <1>1, <1>2, <1>3, Zenon DEF LoadNeeded, Fails
<1>6. at \in Objects /\ name \in Range(File(at).needed)
  BY <1>1, <1>4, NeededIs
<1>7. LinksTyped /\ prog.dynamic
  BY DEF LinkReady, LinkInv
<1>8. CASE IsLoaded(name) /\ UNCHANGED <<stage, list, nodes, mem>>
  <2>1. ASSUME NEW i \in Objects, NEW k \in Nat \ {0}
        PROVE  /\ IsAdjusted(i)' <=> IsAdjusted(i)
               /\ k \in 1..Len(File(i).relocs) =>
                     /\ IsResolved(i, k)' => ReferenceKept(i, k)
                     /\ IsRelocated(i, k)' <=> IsRelocated(i, k)
               /\ k \in 1..Len(nodes[i].copies) => (IsCopied(i, k)' => IsCopied(i, k))
    BY <1>4, <1>8, NothingDone
  <2>2. stage # "failed" /\ stage' # "failed" /\ stage' # "resolve"
        /\ UNCHANGED <<prog, nodes, mem>>
    BY <1>4, <1>8
  <2> QED BY <2>1, <2>2, StaysBound
<1>9. CASE /\ ~IsLoaded(name)
           /\ ~(LibraryName[name] \in DOMAIN prog.files /\ a + file.size <= memsize)
           /\ stage' = "failed"
           /\ UNCHANGED <<list, nodes, mem>>
  <2>1. LibraryName[name] \in DOMAIN prog.files => SuggestFreeRegion + file.size > memsize
    <3> SUFFICES ASSUME LibraryName[name] \in DOMAIN prog.files
                 PROVE  SuggestFreeRegion + file.size > memsize
      OBVIOUS
    <3>1. prog \in Programs /\ file \in FileSet
      BY <1>2 DEF FileSet, LinkReady
    <3>2. a \in Nat /\ file.size \in Nat /\ memsize \in Nat
      BY <1>3, <1>4, <3>1, LoadingFacts, SizeIs DEF LinkReady
    <3> QED BY <1>3, <1>9, <3>2
  <2>2. FailsForReason
    BY <1>2, <1>6, <1>9, <2>1 DEF FailsForReason
  <2>3. FailsForReason'
    BY <1>4, <1>6, <1>9, <2>2, ReasonStays
  <2> QED BY <1>9, <2>3 DEF BindInv
<1>10. CASE /\ ~IsLoaded(name) /\ LibraryName[name] \in DOMAIN prog.files
            /\ a + file.size <= memsize
            /\ nodes' = NewNode(LinkNode(name, file, a))
            /\ mem' = Loaded(mem, file, a)
            /\ IF IsOld(File(at), name, file) THEN stage' = "failed" ELSE stage' = stage
  <2>1. CASE IsOld(File(at), name, file)
    <3>1. FailsForReason'
      BY <1>2, <1>4, <1>6, <1>10, <2>1, TooOldFails
    <3> QED BY <1>10, <2>1, <3>1 DEF BindInv
  <2>2. CASE ~IsOld(File(at), name, file)
    <3>1. stage' = "load"
      BY <1>4, <1>10, <2>2
    <3> QED BY <1>2, <1>3, <1>4, <1>10, <3>1, LoadedBound
  <2> QED BY <2>1, <2>2
<1>11. QED BY <1>5, <1>8, <1>9, <1>10

\* The program alone, as it was loaded.
LEMMA BindStarts ==
    ASSUME ProgramsFit, FilesFit, TablesFit, LoaderInit, prog.dynamic
    PROVE  RootFirst /\ BindInv
<1>1. /\ prog \in Programs /\ stage = "load" /\ nodes = <<LinkNode("root", Root, 0)>>
      /\ mem = Loaded([x \in 0..prog.memsize - 1 |-> 0], Root, 0)
  BY DEF LoaderInit
<1>2. PICK new : new = LinkNode("root", Root, 0)
  OBVIOUS
<1>3. new.file = Root /\ new.addr = 0 /\ new.copies = << >>
  BY <1>2 DEF LinkNode
<1>4. Objects = {1} /\ nodes[1] = new /\ File(1) = Root
  <2>1. Len(nodes) = 1 /\ nodes[1] = new
    BY <1>1, <1>2
  <2> QED BY <1>3, <2>1 DEF Objects, File
<1>5. /\ WellFormed(Root) /\ Separate(prog, Root) /\ Root.size \in Nat
      /\ Root.size <= prog.end /\ prog.end \in Nat /\ prog.end <= prog.memsize
      /\ prog.memsize \in Nat
  <2>1. WellFormed(Root) /\ Root \in FileSet
    BY <1>1, RootIs
  <2>2. Root.size \in Nat
    BY <1>1, <2>1, SizeIs
  <2>3. Separate(prog, Root) /\ Root.size <= prog.end
    BY <1>1 DEF TablesFit, FilesFit, Root
  <2>4. prog.end \in Nat /\ prog.end <= prog.memsize /\ prog.memsize \in Nat
    <3>1. /\ prog.memsize \in 1..Word - 1 /\ prog.entry \in Nat /\ prog.end \in Nat
          /\ prog.entry + prog.end <= prog.memsize
      BY <1>1 DEF ProgramsFit
    <3> QED BY <3>1, MemMapAssumption
  <2> QED BY <2>1, <2>2, <2>3, <2>4
<1>6. ASSUME NEW k \in 1..Len(Root.relocs), Root.relocs[k].type = "relative"
      PROVE  mem[Root.relocs[k].offset + 0] = Root.data[Root.relocs[k].offset]
  <2>1. PICK x : x = Root.relocs[k].offset
    OBVIOUS
  <2>2. x \in DOMAIN Root.data /\ DOMAIN Root.data \subseteq 0..Root.size - 1
    BY <1>5, <1>6, <2>1 DEF Separate
  <2>3. x \in 0..prog.memsize - 1 /\ x + 0 = x /\ x - 0 = x
    BY <1>5, <2>2
  <2> QED BY <1>1, <2>1, <2>2, <2>3 DEF Loaded
<1>7. EntriesKept
  BY <1>1, <1>3, <1>4, NothingDone DEF EntriesKept
<1>8. ReferencesKept
  BY <1>1, NothingDone DEF ReferencesKept
<1>9. WordsKept
  <2>1. ASSUME NEW k \in 1..Len(Root.relocs) PROVE WordKept(1, k)
    <3>1. ~IsRelocated(1, k)
      BY <1>1, NothingDone
    <3>2. nodes[1].addr = 0 /\ File(1) = Root
      BY <1>3, <1>4
    <3> QED BY <1>6, <3>1, <3>2 DEF WordKept
  <2> QED BY <1>4, <2>1 DEF WordsKept
<1>10. CopiesKept
  BY <1>1, NothingDone DEF CopiesKept
<1>11. QED BY <1>1, <1>4, <1>7, <1>8, <1>9, <1>10 DEF BindInv, RootFirst
-----------------------------------------------------------------------------
(* References are bound.                                                   *)

\* Where copies of the name of one of the program's go.
LEMMA CopyTargetOf ==
    ASSUME LinkReady, RootFirst, NEW r \in Range(Root.relocs), r.type = "copy"
    PROVE  /\ r.offset # 0 /\ CopyTarget(Name(1, r)) = r.offset
           /\ \A name : CopyTarget(name) = r.offset => name = Name(1, r)
<1>1. /\ 1 \in Objects /\ Separate(prog, Root) /\ Root.relocs \in Seq(Relocs) /\ File(1) = Root
      /\ Len(Root.relocs) \in Nat
  <2>1. 1 \in Objects
    BY DEF LinkReady, LinkInv, LinksTyped, Objects
  <2> QED BY <2>1, ObjectFacts DEF RootFirst, WellFormed
<1>2. PICK k \in 1..Len(Root.relocs) : r = Root.relocs[k]
  BY <1>1, RangeOf
<1>3. r.offset # 0
  BY <1>1, <1>2 DEF Separate
<1> DEFINE T(name) == {x \in 1..Len(Root.relocs) :
                          /\ Root.relocs[x].type = "copy"
                          /\ Root.symbols[Root.relocs[x].sym].name = name}
<1>4. \A x \in 1..Len(Root.relocs) :
          Root.relocs[x].type = "copy" /\ x # k =>
              /\ Root.relocs[x].offset # r.offset
              /\ Root.symbols[Root.relocs[x].sym].name # Name(1, r)
  <2> SUFFICES ASSUME NEW x \in 1..Len(Root.relocs), Root.relocs[x].type = "copy", x # k
               PROVE  /\ Root.relocs[x].offset # r.offset
                      /\ Root.symbols[Root.relocs[x].sym].name # Name(1, r)
    OBVIOUS
  <2>1. x \in 1..Len(Root.relocs) \ {k}
    OBVIOUS
  <2>2. PICK q : q = Root.relocs[x]
    OBVIOUS
  <2>3. r.offset # q.offset /\ Root.symbols[r.sym].name # Root.symbols[q.sym].name
    BY <1>1, <1>2, <2>1, <2>2 DEF Separate
  <2> QED BY <1>1, <2>2, <2>3 DEF Name
<1>5. k \in T(Name(1, r))
  BY <1>1, <1>2 DEF Name
<1>6. T(Name(1, r)) = {k}
  BY <1>4, <1>5
<1>7. ASSUME NEW name
      PROVE  /\ T(name) \subseteq 1..Len(Root.relocs)
             /\ CopyTarget(name) = IF T(name) = {} THEN 0 ELSE Root.relocs[Min(T(name))].offset
             /\ T(name) # {} => Min(T(name)) \in T(name)
  <2> DEFINE U == T(name)
  <2>1. CopyTarget(name) = IF U = {} THEN 0 ELSE Root.relocs[Min(U)].offset
    BY DEF CopyTarget
  <2>2. U \subseteq Nat /\ U \subseteq 1..Len(Root.relocs)
    OBVIOUS
  <2> HIDE DEF U
  <2>3. U # {} => Min(U) \in U
    BY <2>2, MinOf, Zenon
  <2> QED BY <2>1, <2>2, <2>3, Zenon DEF U
<1>8. \A name : \A x \in T(name) : /\ Root.relocs[x].type = "copy"
                                   /\ Root.symbols[Root.relocs[x].sym].name = name
  OBVIOUS
<1> HIDE DEF T
<1>9. CopyTarget(Name(1, r)) = r.offset
  <2>1. Min(T(Name(1, r))) = k
    BY <1>6, <1>7, Zenon
  <2> QED BY <1>2, <1>5, <1>7, <2>1
<1>10. ASSUME NEW name, CopyTarget(name) = r.offset PROVE name = Name(1, r)
  <2>1. T(name) # {}
    BY <1>3, <1>7, <1>10
  <2>2. PICK x \in T(name) : Root.relocs[x].offset = r.offset
    BY <1>7, <1>10, <2>1
  <2>3. x \in 1..Len(Root.relocs)
    BY <1>7, <2>2
  <2>4. x = k
    BY <1>4, <1>8, <2>2, <2>3
  <2> QED BY <1>1, <1>2, <1>8, <2>2, <2>4 DEF Name
<1>11. QED BY <1>3, <1>9, <1>10

\* The definitions of the libraries that a copy of the program's may be of.
Sources(r) ==
    {d \in UNION {{<<i, k>> : k \in 1..Len(File(i).symbols)} : i \in 2..Len(nodes)} :
        /\ Symbol(d).defined /\ Symbol(d).type = "object" /\ Symbol(d).name = Name(1, r)}

\* Which those are.
LEMMA SourceIn ==
    ASSUME NEW r, NEW d
    PROVE  d \in Sources(r) <=>
               \E i \in 2..Len(nodes) : \E k \in 1..Len(File(i).symbols) :
                   /\ d = <<i, k>> /\ File(i).symbols[k].defined
                   /\ File(i).symbols[k].type = "object" /\ File(i).symbols[k].name = Name(1, r)
BY DEF Sources, Symbol

\* They are what is copied to its place.
LEMMA SourceCopied ==
    ASSUME LinkReady, RootFirst, NEW r \in Range(Root.relocs), r.type = "copy",
           NEW i \in Objects, NEW c
    PROVE  c \in Copying(i) /\ c.dst = r.offset <=>
               \E k \in 1..Len(File(i).symbols) :
                   <<i, k>> \in Sources(r) /\ c = CopyOf(File(i).symbols[k], nodes[i].addr)
<1>1. /\ Len(nodes) \in Nat /\ i \in 1..Len(nodes) /\ File(i).symbols \in Seq(Symbols)
  BY ObjectFacts DEF LinkReady, LinkInv, LinksTyped, Objects, WellFormed
<1>2. /\ r.offset # 0 /\ CopyTarget(Name(1, r)) = r.offset
      /\ \A name : CopyTarget(name) = r.offset => name = Name(1, r)
  BY CopyTargetOf
<1>3. i # 1 <=> i \in 2..Len(nodes)
  BY <1>1
<1>4. \A s : CopyOf(s, nodes[i].addr).dst = CopyTarget(s.name)
  BY DEF CopyOf
<1>5. \A s : s \in Range(File(i).symbols) <=>
                 \E k \in 1..Len(File(i).symbols) : File(i).symbols[k] = s
  BY <1>1, RangeOf
<1>6. c \in Copying(i) /\ c.dst = r.offset <=>
          i # 1 /\ \E s \in Range(File(i).symbols) :
                      /\ s.defined /\ Copied(s) /\ c = CopyOf(s, nodes[i].addr)
                      /\ CopyTarget(s.name) = r.offset
  <2>1. c \in Copying(i) <=>
            i # 1 /\ \E s \in Range(File(i).symbols) :
                        s.defined /\ Copied(s) /\ c = CopyOf(s, nodes[i].addr)
    BY DEF Copying
  <2> QED BY <1>4, <2>1
<1>7. \A s : Copied(s) /\ CopyTarget(s.name) = r.offset <=>
                 s.type = "object" /\ s.name = Name(1, r)
  BY <1>2 DEF Copied
<1>8. \A k : <<i, k>> \in Sources(r) <=>
                 /\ i \in 2..Len(nodes) /\ k \in 1..Len(File(i).symbols)
                 /\ File(i).symbols[k].defined /\ File(i).symbols[k].type = "object"
                 /\ File(i).symbols[k].name = Name(1, r)
  BY SourceIn
<1>9. ASSUME c \in Copying(i), c.dst = r.offset
      PROVE  \E k \in 1..Len(File(i).symbols) :
                 <<i, k>> \in Sources(r) /\ c = CopyOf(File(i).symbols[k], nodes[i].addr)
  <2>1. PICK s \in Range(File(i).symbols) :
            /\ s.defined /\ s.type = "object" /\ s.name = Name(1, r)
            /\ c = CopyOf(s, nodes[i].addr)
    BY <1>6, <1>7, <1>9
  <2>2. PICK k \in 1..Len(File(i).symbols) : File(i).symbols[k] = s
    BY <1>5, <2>1
  <2>3. i # 1
    BY <1>6, <1>9
  <2>4. <<i, k>> \in Sources(r)
    BY <1>3, <1>8, <2>1, <2>2, <2>3
  <2> QED BY <2>1, <2>2, <2>4
<1>10. ASSUME NEW k \in 1..Len(File(i).symbols), <<i, k>> \in Sources(r),
              c = CopyOf(File(i).symbols[k], nodes[i].addr)
       PROVE  c \in Copying(i) /\ c.dst = r.offset
  <2>1. PICK s : s = File(i).symbols[k]
    OBVIOUS
  <2>2. i # 1 /\ s.defined /\ Copied(s) /\ CopyTarget(s.name) = r.offset
    BY <1>3, <1>7, <1>8, <1>10, <2>1
  <2>3. s \in Range(File(i).symbols)
    BY <1>5, <2>1
  <2> QED BY <1>6, <1>10, <2>1, <2>2, <2>3
<1>11. QED BY <1>9, <1>10, Zenon

\* If there is one of them only, no other copy was made over it.
LEMMA InvCopiesHold ==
    ASSUME LinkReady, RootFirst, BindInv, stage \in RunStages
    PROVE  CopiesHold
<1>1. EntriesKept /\ CopiesKept
  BY DEF BindInv, RunStages
<1>2. SUFFICES ASSUME NEW r \in Range(Root.relocs), r.type = "copy",
                      \A d, e \in Sources(r) : d = e, NEW d \in Sources(r),
                      NEW o \in 0..Symbol(d).size - 1
               PROVE  mem[r.offset + o] = mem[Symbol(d).value + nodes[d[1]].addr + o]
  BY Zenon DEF CopiesHold, Sources
<1>3. PICK i \in 2..Len(nodes), k \in Nat : d = <<i, k>> /\ k \in 1..Len(File(i).symbols)
  BY SourceIn
<1>4. PICK s : s = File(i).symbols[k]
  OBVIOUS
<1>5. PICK c : c = CopyOf(s, nodes[i].addr)
  OBVIOUS
<1>6. Symbol(d) = s /\ d[1] = i /\ i \in Objects
  <2>1. i \in 1..Len(nodes)
    OBVIOUS
  <2> QED BY <1>3, <1>4, <2>1 DEF Symbol, Objects
<1>7. c \in Copying(i) /\ c.dst = r.offset
  <2>1. <<i, k>> \in Sources(r) /\ c = CopyOf(File(i).symbols[k], nodes[i].addr)
    BY <1>3, <1>4, <1>5
  <2> QED BY <1>2, <1>3, <1>6, <2>1, SourceCopied, Zenon
<1>8. c.src = s.value + nodes[i].addr /\ c.size = s.size
  BY <1>5 DEF CopyOf
<1>9. \A j \in Objects : Range(nodes[j].copies) = Copying(j)
  BY <1>1 DEF EntriesKept, IsAdjusted, RunStages
<1>10. ASSUME NEW j \in Objects, NEW e \in Range(nodes[j].copies), e.dst = c.dst PROVE e = c
  <2>1. e \in Copying(j) /\ e.dst = r.offset
    BY <1>7, <1>9, <1>10
  <2>2. PICK m \in 1..Len(File(j).symbols) :
            <<j, m>> \in Sources(r) /\ e = CopyOf(File(j).symbols[m], nodes[j].addr)
    BY <1>2, <2>1, SourceCopied
  <2>3. <<j, m>> = <<i, k>>
    BY <1>2, <1>3, <2>2
  <2>4. j = i /\ m = k
    BY <2>3
  <2> QED BY <1>4, <1>5, <2>2, <2>4
<1>11. PICK x \in 1..Len(nodes[i].copies) : nodes[i].copies[x] = c
  <2>1. nodes[i].copies \in Seq(Copies)
    BY <1>6, ObjectFacts
  <2> QED BY <1>6, <1>7, <1>9, <2>1, RangeOf
<1>12. CopyKept(i, x)
  <2>1. IsCopied(i, x)
    BY DEF IsCopied, Passed
  <2> QED BY <1>1, <1>6, <2>1 DEF CopiesKept
<1>13. o \in 0..c.size - 1
  BY <1>6, <1>8
<1>14. mem[c.dst + o] = mem[c.src + o]
  BY <1>10, <1>11, <1>12, <1>13 DEF CopyKept
<1>15. QED BY <1>6, <1>7, <1>8, <1>14

\* With everything done, what the invariant says is what is promised.
LEMMA InvReferencesBound ==
    ASSUME LinkReady, RootFirst, BindInv
    PROVE  ReferencesBound
<1>1. SUFFICES ASSUME Linked PROVE WordsBound /\ CopiesHold /\ StrongDefined
  BY DEF ReferencesBound, BindInv
<1>2. stage \in RunStages /\ stage # "failed"
  BY <1>1 DEF Linked, RunStages
<1>3. ReferencesKept /\ WordsKept
  BY <1>2 DEF BindInv
<1>4. \A i \in Objects : \A k : IsResolved(i, k) /\ IsRelocated(i, k)
  BY <1>2 DEF IsResolved, IsRelocated, Passed
<1>5. WordsBound
  <2> SUFFICES ASSUME NEW i \in Objects, NEW r \in Range(File(i).relocs),
                      r.type # "copy", r \in References(i) => Agreed(Name(i, r)),
                      Expected(i, r) % 2 = 0
               PROVE  mem[r.offset + nodes[i].addr] = Expected(i, r)
    BY DEF WordsBound
  <2>1. File(i).relocs \in Seq(Relocs)
    BY ObjectFacts DEF WellFormed
  <2>2. PICK k \in 1..Len(File(i).relocs) : File(i).relocs[k] = r
    BY <2>1, RangeOf
  <2>3. WordKept(i, k)
    BY <1>3 DEF WordsKept
  <2> QED BY <1>4, <2>2, <2>3 DEF WordKept
<1>6. StrongDefined
  <2> SUFFICES ASSUME NEW i \in Objects, NEW k \in 1..Len(File(i).relocs), NEW r,
                      r = File(i).relocs[k], r \in References(i), Agreed(Name(i, r)),
                      \A j \in 1..k - 1 : LET q == File(i).relocs[j] IN
                                          q.sym # 0 => ~IsWeak(i, q.sym),
                      Undefined(i, r)
               PROVE  FALSE
    BY DEF StrongDefined
  <2>1. ReferenceKept(i, k)
    BY <1>3, <1>4 DEF ReferencesKept
  <2>2. Hides(i, k)
    BY <2>1 DEF ReferenceKept
  <2> QED BY <2>2 DEF Hides
<1>7. QED BY <1>2, <1>5, <1>6, InvCopiesHold

\* The invariant of the loading and linking.
BoundInv ==
    /\ LoadInv /\ LinkInv /\ memsize = prog.memsize
    /\ prog.dynamic => RootFirst /\ BindInv

\* Every step keeps the invariant.
LEMMA LoaderNextBinds ==
    ASSUME LinkReady, RootFirst, BindInv, LoaderNext
    PROVE  BindInv'
<1>1. CASE LoadNeeded
  BY <1>1, LoadBound
<1>2. CASE NextObject \/ ResolveNext \/ RelocateNext \/ CopyNext
  BY <1>2, AdvanceBound
<1>3. CASE AdjustSymbols
  BY <1>3, AdjustBound
<1>4. CASE ResolveSymbol
  BY <1>4, ResolveBound
<1>5. CASE ApplyRelocation
  BY <1>5, RelocateBound
<1>6. CASE ApplyPendingCopy
  BY <1>6, CopyBound
<1>7. CASE Boot \/ RtldInit \/ RtldFini \/ SystemCall \/ Exit
  BY <1>7, RunBound
<1>8. QED BY <1>1, <1>2, <1>3, <1>4, <1>5, <1>6, <1>7 DEF LoaderNext

\* And so does one of the linker with all that it rests on.
LEMMA BoundStep ==
    ASSUME ProgramsFit, FilesFit, TablesFit, BoundInv, [LoaderNext]_allVars
    PROVE  BoundInv'
<1>1. LoadInv /\ LinkInv /\ LoadInv' /\ LinkInv'
  BY LoadStep, LinksStep DEF BoundInv
<1>2. prog' = prog /\ memsize' = memsize
  <2>1. CASE LoaderNext
    BY <2>1, Zenon DEF LoaderNext, LoadNeeded, NextObject, AdjustSymbols, ResolveSymbol,
         ResolveNext, ApplyRelocation, RelocateNext, ApplyPendingCopy, CopyNext, Boot, RtldInit, RtldFini,
         SystemCall, Exit, Linking, Running, vars, Next, Mmap, Munmap, Brk
  <2>2. CASE UNCHANGED allVars
    BY <2>2 DEF allVars, vars
  <2> QED BY <2>1, <2>2
<1>3. ASSUME prog.dynamic PROVE RootFirst' /\ BindInv'
  <2>1. LinkReady /\ RootFirst /\ BindInv
    BY <1>1, <1>3 DEF LinkReady, BoundInv, LoadInv
  <2>2. CASE LoaderNext
    BY <2>1, <2>2, RootStays, LoaderNextBinds
  <2>3. CASE UNCHANGED allVars
    <3>1. RootFirst'
      BY <2>1, <2>3 DEF allVars, RootFirst, File, Root
    <3> QED BY <2>1, <2>3, <3>1, StutterBound
  <2> QED BY <2>2, <2>3
<1>4. QED BY <1>1, <1>2, <1>3 DEF BoundInv

\* References are bound (see ReferencesBound): resolve_symbols(), apply_relocations()
\* and apply_pending_copies() leave in every relocated word what its reference
\* means by the files, in the program's copies what the libraries have, and no
\* strong symbol missing, and a program is given up for a reason.
THEOREM LoaderBinds ==
    ProgramsFit /\ FilesFit /\ TablesFit => (LoaderSpec => []ReferencesBound)
<1> SUFFICES ASSUME ProgramsFit, FilesFit, TablesFit PROVE LoaderSpec => []ReferencesBound
  OBVIOUS
<1>1. LoaderInit => BoundInv
  <2> SUFFICES ASSUME LoaderInit PROVE BoundInv
    OBVIOUS
  <2>1. LoadInv /\ LinkInv
    BY LoadStarts, LinksStart
  <2>2. memsize = prog.memsize
    BY DEF LoaderInit
  <2> QED BY <2>1, <2>2, BindStarts DEF BoundInv
<1>2. BoundInv /\ [LoaderNext]_allVars => BoundInv'
  BY BoundStep
<1>3. BoundInv => ReferencesBound
  <2> SUFFICES ASSUME BoundInv PROVE ReferencesBound
    OBVIOUS
  <2>1. CASE prog.dynamic
    BY <2>1, InvReferencesBound DEF LinkReady, BoundInv, LoadInv
  <2>2. CASE ~prog.dynamic
    <3>1. stage # "failed" /\ ~Linked
      BY <2>2 DEF BoundInv, LinkInv, LinksTyped, Linked
    <3> QED BY <3>1 DEF ReferencesBound
  <2> QED BY <2>1, <2>2
<1>4. QED BY <1>1, <1>2, <1>3, PTL DEF LoaderSpec
=============================================================================
