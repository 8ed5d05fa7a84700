----------------------------- MODULE CacheProof -----------------------------
(***************************************************************************)
(* Theorems about Cache, for every geometry, policy, mode and memory.      *)
(*                                                                         *)
(* Arithmetic stays in the first lemmas: afterwards a word is known only   *)
(* by its tag, index and offset.                                           *)
(***************************************************************************)
EXTENDS Cache, SharedLemmas, TLAPS

-----------------------------------------------------------------------------
(* Addresses.                                                              *)

LEMMA DivMod ==
    ASSUME NEW b \in Nat, NEW n \in Nat \ {0}
    PROVE  b = n * (b \div n) + (b % n) /\ b % n \in 0..n - 1 /\ b \div n \in Nat
OBVIOUS

LEMMA DivModUnique ==
    ASSUME NEW t \in Nat, NEW n \in Nat \ {0}, NEW i \in 0..n - 1
    PROVE  (t * n + i) % n = i /\ (t * n + i) \div n = t
OBVIOUS

\* The number of a block of the memory.
LEMMA BlockOfWord ==
    ASSUME NEW w \in Word
    PROVE  BlockOf(w) \in 0..Blocks - 1 /\ OffsetOf(w) \in Offset
           /\ w = BlockOf(w) * BlockWords + OffsetOf(w)
<1>1. w \in Nat /\ w < Blocks * BlockWords /\ BlockWords \in Nat \ {0} /\ Blocks \in Nat
  BY CacheAssumption DEF Word
<1>2. w = BlockWords * (w \div BlockWords) + (w % BlockWords)
      /\ w % BlockWords \in 0..BlockWords - 1 /\ w \div BlockWords \in Nat
  BY <1>1, DivMod
<1>3. w \div BlockWords < Blocks
  <2>1. SUFFICES ASSUME w \div BlockWords >= Blocks PROVE FALSE
    BY <1>1, <1>2
  <2>2. BlockWords * (w \div BlockWords) >= Blocks * BlockWords
    BY <1>1, <1>2, <2>1
  <2> QED BY <1>1, <1>2, <2>2
<1>4. BlockWords * (w \div BlockWords) = (w \div BlockWords) * BlockWords
  BY <1>1, <1>2
<1> QED BY <1>1, <1>2, <1>3, <1>4 DEF BlockOf, OffsetOf, Offset

\* split_address() and block_address() are inverse: one way ...
LEMMA SplitWord ==
    ASSUME NEW w \in Word
    PROVE  /\ OffsetOf(w) \in Offset /\ IndexOf(w) \in Index /\ TagOf(w) \in Nat
           /\ TagOf(w) * Sets + IndexOf(w) < Blocks
           /\ BlockStart(w) = BlockAddress(TagOf(w), IndexOf(w))
           /\ w = BlockAddress(TagOf(w), IndexOf(w)) + OffsetOf(w)
<1>1. BlockOf(w) \in 0..Blocks - 1 /\ OffsetOf(w) \in Offset
      /\ w = BlockOf(w) * BlockWords + OffsetOf(w)
  BY BlockOfWord
<1>2. Sets \in Nat \ {0} /\ Blocks \in Nat /\ BlockOf(w) \in Nat
  BY <1>1, CacheAssumption
<1>3. BlockOf(w) = Sets * (BlockOf(w) \div Sets) + (BlockOf(w) % Sets)
      /\ BlockOf(w) % Sets \in 0..Sets - 1 /\ BlockOf(w) \div Sets \in Nat
  BY <1>2, DivMod
<1>4. BlockOf(w) = TagOf(w) * Sets + IndexOf(w)
  BY <1>2, <1>3 DEF TagOf, IndexOf
<1> QED BY <1>1, <1>2, <1>3, <1>4 DEF TagOf, IndexOf, Index, BlockStart, BlockAddress

\* ... and the other.
LEMMA JoinWord ==
    ASSUME NEW t \in Nat, NEW s \in Index, t * Sets + s < Blocks, NEW o \in Offset
    PROVE  /\ BlockAddress(t, s) + o \in Word
           /\ OffsetOf(BlockAddress(t, s) + o) = o
           /\ IndexOf(BlockAddress(t, s) + o) = s
           /\ TagOf(BlockAddress(t, s) + o) = t
<1> DEFINE b == t * Sets + s
<1>1. Sets \in Nat \ {0} /\ Blocks \in Nat /\ BlockWords \in Nat \ {0}
      /\ s \in 0..Sets - 1 /\ o \in 0..BlockWords - 1
  BY CacheAssumption DEF Index, Offset
<1>2. b \in Nat /\ b <= Blocks - 1
  BY <1>1
<1>3. b * BlockWords <= (Blocks - 1) * BlockWords
  BY <1>1, <1>2
<1>4. (Blocks - 1) * BlockWords = Blocks * BlockWords - BlockWords
  BY <1>1
<1>5. b * BlockWords \in Nat /\ Blocks * BlockWords \in Nat
  BY <1>1, <1>2
<1>6. b * BlockWords + o \in Word
  BY <1>1, <1>3, <1>4, <1>5 DEF Word
<1>7. (b * BlockWords + o) % BlockWords = o /\ (b * BlockWords + o) \div BlockWords = b
  BY <1>1, <1>2, DivModUnique
<1>8. b % Sets = s /\ b \div Sets = t
  BY <1>1, DivModUnique
<1> QED BY <1>6, <1>7, <1>8 DEF BlockAddress, OffsetOf, BlockOf, IndexOf, TagOf

LEMMA SameWord ==
    ASSUME NEW w \in Word, NEW x \in Word, TagOf(w) = TagOf(x),
           IndexOf(w) = IndexOf(x), OffsetOf(w) = OffsetOf(x)
    PROVE  w = x
<1>1. w = BlockAddress(TagOf(w), IndexOf(w)) + OffsetOf(w)
  BY SplitWord
<1>2. x = BlockAddress(TagOf(x), IndexOf(x)) + OffsetOf(x)
  BY SplitWord
<1> QED BY <1>1, <1>2

\* A block write changes the words of its block and no other.
LEMMA WriteBlockWords ==
    ASSUME NEW m \in [Word -> Val], NEW t \in Nat, NEW s \in Index,
           t * Sets + s < Blocks, NEW d \in [Offset -> Val]
    PROVE  /\ WriteBlock(m, BlockAddress(t, s), d) \in [Word -> Val]
           /\ \A x \in Word :
                WriteBlock(m, BlockAddress(t, s), d)[x] =
                    IF IndexOf(x) = s /\ TagOf(x) = t THEN d[OffsetOf(x)] ELSE m[x]
<1> DEFINE a == BlockAddress(t, s)
<1>0. BlockWords \in Nat \ {0}
  BY CacheAssumption
<1>1. a \in Int
  BY CacheAssumption DEF BlockAddress, Index
<1>2. ASSUME NEW x \in Word
      PROVE  x \in a..a + BlockWords - 1 => /\ x - a \in Offset
                                            /\ IndexOf(x) = s /\ TagOf(x) = t
                                            /\ OffsetOf(x) = x - a
  <2>1. SUFFICES ASSUME x \in a..a + BlockWords - 1
                 PROVE  x - a \in Offset /\ IndexOf(x) = s /\ TagOf(x) = t
                        /\ OffsetOf(x) = x - a
    OBVIOUS
  <2>2. x \in Int /\ x - a \in Offset
    BY <1>0, <1>1, <2>1 DEF Offset
  <2>3. x = a + (x - a)
    BY <1>1, <2>2
  <2> QED BY <2>2, <2>3, JoinWord
<1>3. ASSUME NEW x \in Word, IndexOf(x) = s, TagOf(x) = t
      PROVE  x \in a..a + BlockWords - 1
  <2>1. x = a + OffsetOf(x) /\ OffsetOf(x) \in Offset
    BY <1>3, SplitWord
  <2>2. OffsetOf(x) \in 0..BlockWords - 1
    BY <2>1 DEF Offset
  <2> QED BY <1>0, <1>1, <2>1, <2>2
<1> HIDE DEF a
<1>4. \A x \in Word : WriteBlock(m, a, d)[x] =
          IF x \in a..a + BlockWords - 1 THEN d[x - a] ELSE m[x]
  BY DEF WriteBlock
<1>5. WriteBlock(m, a, d) \in [Word -> Val]
  BY <1>2 DEF WriteBlock
<1>6. \A x \in Word : WriteBlock(m, a, d)[x] =
          IF IndexOf(x) = s /\ TagOf(x) = t THEN d[OffsetOf(x)] ELSE m[x]
  BY <1>2, <1>3, <1>4
<1> QED BY <1>5, <1>6 DEF a

LEMMA ReadBlockWords ==
    ASSUME NEW m \in [Word -> Val], NEW t \in Nat, NEW s \in Index,
           t * Sets + s < Blocks
    PROVE  /\ ReadBlock(m, BlockAddress(t, s)) \in [Offset -> Val]
           /\ \A x \in Word : (IndexOf(x) = s /\ TagOf(x) = t) =>
                ReadBlock(m, BlockAddress(t, s))[OffsetOf(x)] = m[x]
<1>1. \A o \in Offset : BlockAddress(t, s) + o \in Word
  BY JoinWord
<1>2. \A x \in Word : (IndexOf(x) = s /\ TagOf(x) = t) =>
          OffsetOf(x) \in Offset /\ BlockAddress(t, s) + OffsetOf(x) = x
  BY SplitWord
<1> QED BY <1>1, <1>2 DEF ReadBlock

\* Equality with a block of the memory, word by word.
LEMMA BlockByWords ==
    ASSUME NEW m \in [Word -> Val], NEW t \in Nat, NEW s \in Index,
           t * Sets + s < Blocks, NEW d \in [Offset -> Val]
    PROVE  d = ReadBlock(m, BlockAddress(t, s)) <=>
           \A x \in Word : (IndexOf(x) = s /\ TagOf(x) = t) => d[OffsetOf(x)] = m[x]
<1>1. ASSUME d = ReadBlock(m, BlockAddress(t, s))
      PROVE  \A x \in Word : (IndexOf(x) = s /\ TagOf(x) = t) => d[OffsetOf(x)] = m[x]
  BY <1>1, ReadBlockWords
<1>2. ASSUME \A x \in Word : (IndexOf(x) = s /\ TagOf(x) = t) => d[OffsetOf(x)] = m[x]
      PROVE  d = ReadBlock(m, BlockAddress(t, s))
  <2>1. ASSUME NEW o \in Offset PROVE d[o] = m[BlockAddress(t, s) + o]
    <3>1. /\ BlockAddress(t, s) + o \in Word
          /\ OffsetOf(BlockAddress(t, s) + o) = o
          /\ IndexOf(BlockAddress(t, s) + o) = s
          /\ TagOf(BlockAddress(t, s) + o) = t
      BY JoinWord
    <3> QED BY <3>1, <1>2
  <2> QED BY <2>1 DEF ReadBlock
<1> QED BY <1>1, <1>2

-----------------------------------------------------------------------------
(* What the processor sees, as an operator of the lines and the memory, so  *)
(* that a fact about it holds before and after a step.                      *)

HoldsIn(c, w, i) ==
    /\ c[IndexOf(w)][i].valid
    /\ c[IndexOf(w)][i].tag = TagOf(w)

ViewOf(c, m) ==
    [w \in Word |->
        IF \E i \in Way : HoldsIn(c, w, i)
        THEN c[IndexOf(w)][CHOOSE i \in Way : HoldsIn(c, w, i)].data[OffsetOf(w)]
        ELSE m[w]]

\* Line j, and no other one, has the block of word x.
OnlyIn(c, x, j) == HoldsIn(c, x, j) /\ \A k \in Way : HoldsIn(c, x, k) => k = j

LEMMA ViewOfHit ==
    ASSUME NEW c, NEW m, NEW x \in Word, NEW j \in Way, OnlyIn(c, x, j)
    PROVE  ViewOf(c, m)[x] = c[IndexOf(x)][j].data[OffsetOf(x)]
<1> DEFINE k == CHOOSE i \in Way : HoldsIn(c, x, i)
<1>1. k \in Way /\ HoldsIn(c, x, k)
  BY DEF OnlyIn
<1>2. k = j
  BY <1>1 DEF OnlyIn
<1> QED BY <1>2 DEF ViewOf, OnlyIn

LEMMA ViewOfMiss ==
    ASSUME NEW c, NEW m, NEW x \in Word, \A k \in Way : ~HoldsIn(c, x, k)
    PROVE  ViewOf(c, m)[x] = m[x]
BY DEF ViewOf

LEMMA ViewIsViewOf == View = ViewOf(cache, mem) /\ View' = ViewOf(cache', mem')
BY DEF View, ViewOf, HoldsWord, HoldsIn, Hit

-----------------------------------------------------------------------------
(* The invariant.                                                          *)

LineType == [valid : BOOLEAN, dirty : BOOLEAN, tag : Nat,
             data : [Offset -> Val \cup {Uninitialised}]]

\* The line copies its block of the memory.
IInv == TypeOK /\ UniqueTags /\ CleanMatches

\* The block of word w is in line i alone, or in no line.
LEMMA SelectedAlone ==
    ASSUME IInv, NEW w \in Word, NEW i, Selects(w, i)
    PROVE  /\ i \in Way
           /\ Hit(w) => HoldsWord(w, i)
           /\ \A j \in Way : j # i => ~HoldsWord(w, j)
<1>1. i \in Way /\ (Hit(w) => HoldsWord(w, i))
  BY DEF Selects, First
<1>2. IndexOf(w) \in Index
  BY SplitWord
<1>3. ASSUME NEW j \in Way, j # i, HoldsWord(w, j) PROVE FALSE
  <2>1. Hit(w)
    BY <1>3 DEF Hit
  <2> QED BY <1>1, <1>2, <1>3, <2>1 DEF IInv, UniqueTags, HoldsWord
<1> QED BY <1>1, <1>3

\* The memory after the eviction: the victim's words as the victim held them,
\* whether it was dirty and written back or clean and equal to the memory.
LEMMA Evicted ==
    ASSUME IInv, NEW w \in Word, NEW i, Selects(w, i)
    PROVE  /\ MemAfterEviction(w, i) \in [Word -> Val]
           /\ Hit(w) => MemAfterEviction(w, i) = mem
           /\ \A x \in Word :
                MemAfterEviction(w, i)[x] =
                    IF ~Hit(w) /\ IndexOf(x) = IndexOf(w) /\ HoldsWord(x, i)
                    THEN cache[IndexOf(w)][i].data[OffsetOf(x)] ELSE mem[x]
<1> DEFINE s == IndexOf(w)
           l == cache[s][i]
           m == MemAfterEviction(w, i)
<1>1. s \in Index /\ i \in Way
  BY SplitWord, SelectedAlone
<1>2. mem \in [Word -> Val] /\ (l.valid => /\ l.data \in [Offset -> Val] /\ l.tag \in Nat
                                        /\ l.tag * Sets + s < Blocks)
  <2>1. l \in LineType
    BY <1>1 DEF IInv, TypeOK, LineType
  <2> QED BY <1>1, <2>1 DEF IInv, TypeOK, LineType
<1>3. CASE Hit(w)
  BY <1>2, <1>3 DEF MemAfterEviction
<1>4. CASE ~Hit(w) /\ IsDirty(l)
  <2>1. m = WriteBlock(mem, BlockAddress(l.tag, s), l.data) /\ l.valid
    BY <1>4 DEF MemAfterEviction, IsDirty
  <2>2. /\ m \in [Word -> Val]
        /\ \A x \in Word : m[x] = IF IndexOf(x) = s /\ TagOf(x) = l.tag
                                  THEN l.data[OffsetOf(x)] ELSE mem[x]
    BY <1>1, <1>2, <2>1, WriteBlockWords
  <2> QED BY <1>4, <2>1, <2>2 DEF HoldsWord
<1>5. CASE ~Hit(w) /\ ~IsDirty(l)
  <2>1. m = mem
    BY <1>5 DEF MemAfterEviction
  <2>2. ASSUME NEW x \in Word, IndexOf(x) = s, HoldsWord(x, i)
        PROVE  l.data[OffsetOf(x)] = mem[x]
    <3>1. l.valid /\ ~l.dirty /\ TagOf(x) = l.tag
      BY <1>5, <2>2 DEF HoldsWord, IsDirty
    <3>2. l.data = ReadBlock(mem, BlockAddress(l.tag, s))
      BY <1>1, <3>1 DEF IInv, CleanMatches
    <3>3. ReadBlock(mem, BlockAddress(l.tag, s))[OffsetOf(x)] = mem[x]
      BY <1>1, <1>2, <2>2, <3>1, ReadBlockWords
    <3> QED BY <3>2, <3>3
  <2> QED BY <1>2, <1>5, <2>1, <2>2
<1> QED BY <1>3, <1>4, <1>5

\* The selected line after the fill: the block of w, as the processor saw it.
LEMMA Filled ==
    ASSUME IInv, NEW w \in Word, NEW i, Selects(w, i)
    PROVE  /\ Line(w, i) \in LineType
           /\ Line(w, i).valid /\ Line(w, i).tag = TagOf(w)
           /\ Line(w, i).data \in [Offset -> Val]
           /\ (~Line(w, i).dirty \/ mode = "through") =>
                Line(w, i).data = ReadBlock(MemAfterEviction(w, i),
                                            BlockAddress(TagOf(w), IndexOf(w)))
           /\ \A x \in Word : (IndexOf(x) = IndexOf(w) /\ TagOf(x) = TagOf(w)) =>
                Line(w, i).data[OffsetOf(x)] = View[x]
<1> DEFINE s == IndexOf(w)
           t == TagOf(w)
           m == MemAfterEviction(w, i)
           l == Line(w, i)
<1>1. /\ s \in Index /\ i \in Way /\ t \in Nat /\ t * Sets + s < Blocks
      /\ BlockStart(w) = BlockAddress(t, s)
  BY SplitWord, SelectedAlone
<1>2. \A x \in Word : (IndexOf(x) = s /\ TagOf(x) = t) =>
          \A j \in Way : HoldsIn(cache, x, j) <=> HoldsWord(w, j)
  BY DEF HoldsIn, HoldsWord
<1>3. CASE Hit(w)
  <2>1. l = cache[s][i] /\ HoldsWord(w, i) /\ m = mem
    BY <1>3, SelectedAlone, Evicted DEF Line
  <2>2. l.valid /\ l.tag = t
    BY <2>1 DEF HoldsWord
  <2>3. l \in LineType
    BY <1>1, <2>1 DEF IInv, TypeOK, LineType
  <2>4. l.data \in [Offset -> Val]
    BY <1>1, <2>1, <2>2 DEF IInv, TypeOK
  <2>5. (~l.dirty \/ mode = "through") => l.data = ReadBlock(m, BlockAddress(t, s))
    BY <1>1, <2>1, <2>2 DEF IInv, CleanMatches
  <2>6. ASSUME NEW x \in Word, IndexOf(x) = s, TagOf(x) = t
        PROVE  l.data[OffsetOf(x)] = View[x]
    <3>1. HoldsIn(cache, x, i) /\ \A k \in Way : HoldsIn(cache, x, k) => k = i
      BY <1>1, <1>2, <2>1, <2>6, SelectedAlone
    <3> QED BY <1>1, <2>1, <2>6, <3>1, ViewOfHit, ViewIsViewOf DEF OnlyIn
  <2> QED BY <2>2, <2>3, <2>4, <2>5, <2>6
<1>4. CASE ~Hit(w)
  <2>1. m \in [Word -> Val] /\ \A x \in Word : (IndexOf(x) = s /\ TagOf(x) = t) => m[x] = mem[x]
    <3>1. ASSUME NEW x \in Word, IndexOf(x) = s, TagOf(x) = t PROVE ~HoldsWord(x, i)
      BY <1>1, <1>4, <3>1 DEF Hit, HoldsWord
    <3> QED BY <3>1, Evicted
  <2>2. l = [valid |-> TRUE, dirty |-> FALSE, tag |-> t, data |-> ReadBlock(m, BlockAddress(t, s))]
    BY <1>1, <1>4 DEF Line
  <2>3. /\ ReadBlock(m, BlockAddress(t, s)) \in [Offset -> Val]
        /\ \A x \in Word : (IndexOf(x) = s /\ TagOf(x) = t) =>
             ReadBlock(m, BlockAddress(t, s))[OffsetOf(x)] = m[x]
    BY <1>1, <2>1, ReadBlockWords
  <2> HIDE DEF m, l
  <2>4. l \in LineType /\ l.valid /\ l.tag = t /\ l.data = ReadBlock(m, BlockAddress(t, s))
    BY <1>1, <2>2, <2>3 DEF LineType
  <2>5. ASSUME NEW x \in Word, IndexOf(x) = s, TagOf(x) = t
        PROVE  View[x] = mem[x]
    <3>1. \A k \in Way : ~HoldsIn(cache, x, k)
      BY <1>2, <1>4, <2>5 DEF Hit
    <3> QED BY <3>1, ViewOfMiss, ViewIsViewOf
  <2>6. l.data \in [Offset -> Val] /\ \A x \in Word : (IndexOf(x) = s /\ TagOf(x) = t) =>
             l.data[OffsetOf(x)] = View[x]
    BY <2>1, <2>3, <2>4, <2>5
  <2> QED BY <2>4, <2>6 DEF m, l
<1> QED BY <1>3, <1>4

-----------------------------------------------------------------------------
(* One call: line i now is n, which holds the block of w, and the memory is  *)
(* the one after the eviction except, perhaps, in that block.               *)

Replaced(w, i, n, m) ==
    /\ n \in LineType /\ n.valid /\ n.tag = TagOf(w) /\ n.data \in [Offset -> Val]
    /\ (~n.dirty \/ mode = "through") =>
            n.data = ReadBlock(m, BlockAddress(TagOf(w), IndexOf(w)))
    /\ m \in [Word -> Val]
    /\ \A x \in Word : ~(IndexOf(x) = IndexOf(w) /\ TagOf(x) = TagOf(w)) =>
            m[x] = MemAfterEviction(w, i)[x]

\* Every other valid line is as before, and none of them holds the block of w.
LEMMA OtherLines ==
    ASSUME IInv, NEW w \in Word, NEW i, Selects(w, i), NEW n,
           n.tag = TagOf(w),
           cache' = [cache EXCEPT ![IndexOf(w)][i] = n],
           NEW s \in Index, NEW j \in Way, ~(s = IndexOf(w) /\ j = i)
    PROVE  /\ cache'[s][j] = cache[s][j]
           /\ (s = IndexOf(w) /\ cache[s][j].valid) => cache[s][j].tag # TagOf(w)
<1>1. IndexOf(w) \in Index /\ i \in Way
  BY SplitWord, SelectedAlone
<1>2. cache'[s][j] = cache[s][j]
  BY <1>1 DEF IInv, TypeOK
<1>3. ASSUME s = IndexOf(w), cache[s][j].valid PROVE cache[s][j].tag # TagOf(w)
  BY <1>3, SelectedAlone DEF HoldsWord
<1> QED BY <1>2, <1>3

LEMMA NewLine ==
    ASSUME IInv, NEW w \in Word, NEW i, Selects(w, i), NEW n, n \in LineType,
           cache' = [cache EXCEPT ![IndexOf(w)][i] = n]
    PROVE  cache'[IndexOf(w)][i] = n /\ cache' \in [Index -> [Way -> LineType]]
<1>1. IndexOf(w) \in Index /\ i \in Way
  BY SplitWord, SelectedAlone
<1>2. cache \in [Index -> [Way -> LineType]]
  BY DEF IInv, TypeOK, LineType
<1> QED BY <1>1, <1>2

\* The rest of the step: the replacement policies' state keeps its type.
LEMMA PolicyType ==
    ASSUME IInv, NEW w \in Word, NEW i \in Way, Touch(IndexOf(w), i), AdvanceFifo(w)
    PROVE  /\ lru' \in [Index -> [1..Assoc -> Way]]
           /\ mru' \in [Index -> SUBSET Way]
           /\ fifo' \in [Index -> Way]
<1>1. Assoc \in Nat \ {0} /\ IndexOf(w) \in Index
  BY CacheAssumption, SplitWord
<1>2. lru' \in [Index -> [1..Assoc -> Way]]
  <2>1. lru[IndexOf(w)] \in [1..Assoc -> Way]
    BY <1>1 DEF IInv, TypeOK
  <2>2. ASSUME NEW k \in 1..Assoc, k # 1, NEW x \in k..Assoc PROVE k - 1 \in 1..Assoc
    BY <1>1, <2>2
  <2>3. MoveToFront(lru[IndexOf(w)], i) \in [1..Assoc -> Way]
    BY <1>1, <2>1, <2>2 DEF MoveToFront
  <2> QED BY <2>3 DEF Touch, IInv, TypeOK
<1>3. mru' \in [Index -> SUBSET Way]
  <2>1. SetBit(mru[IndexOf(w)], i) \in SUBSET Way
    BY <1>1 DEF SetBit, IInv, TypeOK
  <2> QED BY <2>1 DEF Touch, IInv, TypeOK
<1>4. fifo' \in [Index -> Way]
  <2>1. fifo[IndexOf(w)] \in 0..Assoc - 1
    BY <1>1 DEF IInv, TypeOK, Way
  <2>2. (fifo[IndexOf(w)] + 1) % Assoc \in Way
    <3> DEFINE c == fifo[IndexOf(w)] + 1
    <3>1. c \in Nat
      BY <1>1, <2>1
    <3> HIDE DEF c
    <3>2. c % Assoc \in 0..Assoc - 1
      BY <1>1, <3>1, DivMod
    <3> QED BY <3>2 DEF Way, c
  <2> QED BY <2>2 DEF AdvanceFifo, IInv, TypeOK
<1> QED BY <1>2, <1>3, <1>4

LEMMA StepInv ==
    ASSUME IInv, NEW w \in Word, NEW i, Selects(w, i), NEW n,
           cache' = [cache EXCEPT ![IndexOf(w)][i] = n],
           Replaced(w, i, n, mem'),
           Touch(IndexOf(w), i), AdvanceFifo(w), out' \in Val,
           UNCHANGED <<policy, mode>>
    PROVE  IInv'
<1> DEFINE s == IndexOf(w)
           t == TagOf(w)
<1>1. /\ s \in Index /\ i \in Way /\ t \in Nat /\ t * Sets + s < Blocks
      /\ cache'[s][i] = n /\ cache' \in [Index -> [Way -> LineType]]
  BY SplitWord, SelectedAlone, NewLine DEF Replaced
<1>2. \A r \in Index, j \in Way : ~(r = s /\ j = i) =>
          /\ cache'[r][j] = cache[r][j]
          /\ (r = s /\ cache[r][j].valid) => cache[r][j].tag # t
  <2>1. n.tag = TagOf(w) /\ cache' = [cache EXCEPT ![IndexOf(w)][i] = n]
    BY DEF Replaced
  <2> QED BY <2>1, OtherLines
<1>3. TypeOK'
  <2>1. ASSUME NEW r \in Index, NEW j \in Way, cache'[r][j].valid
        PROVE  /\ cache'[r][j].data \in [Offset -> Val]
               /\ cache'[r][j].tag * Sets + r < Blocks
    <3>1. CASE r = s /\ j = i
      BY <1>1, <3>1 DEF Replaced
    <3>2. CASE ~(r = s /\ j = i)
      BY <1>2, <2>1, <3>2 DEF IInv, TypeOK
    <3> QED BY <3>1, <3>2
  <2>2. policy' \in Policies /\ mode' \in Modes /\ mem' \in [Word -> Val]
    BY DEF IInv, TypeOK, Replaced
  <2>3. /\ lru' \in [Index -> [1..Assoc -> Way]]
        /\ mru' \in [Index -> SUBSET Way]
        /\ fifo' \in [Index -> Way]
    BY <1>1, PolicyType
  <2> QED BY <1>1, <2>1, <2>2, <2>3 DEF TypeOK, LineType
<1>4. UniqueTags'
  <2>1. SUFFICES ASSUME NEW r \in Index, NEW j \in Way, NEW k \in Way,
                        cache'[r][j].valid, cache'[r][k].valid,
                        cache'[r][j].tag = cache'[r][k].tag, j # k
                 PROVE  FALSE
    BY DEF UniqueTags
  <2>2. CASE r = s /\ j = i
    BY <1>1, <1>2, <2>1, <2>2 DEF Replaced
  <2>3. CASE r = s /\ k = i
    BY <1>1, <1>2, <2>1, <2>3 DEF Replaced
  <2>4. CASE ~(r = s /\ j = i) /\ ~(r = s /\ k = i)
    BY <1>2, <2>1, <2>4 DEF IInv, UniqueTags
  <2> QED BY <2>2, <2>3, <2>4
<1>5. CleanMatches'
  <2>1. SUFFICES ASSUME NEW r \in Index, NEW j \in Way, cache'[r][j].valid,
                        ~cache'[r][j].dirty \/ mode' = "through"
                 PROVE  cache'[r][j].data = ReadBlock(mem', BlockAddress(cache'[r][j].tag, r))
    BY DEF CleanMatches
  <2>2. CASE r = s /\ j = i
    BY <1>1, <2>1, <2>2 DEF Replaced
  <2>3. CASE ~(r = s /\ j = i)
    <3> DEFINE l == cache[r][j]
    <3>1. /\ cache'[r][j] = l /\ l.valid /\ (~l.dirty \/ mode = "through")
          /\ r = s => l.tag # t
      BY <1>2, <2>1, <2>3
    <3>2. /\ l \in LineType /\ l.data \in [Offset -> Val] /\ l.tag * Sets + r < Blocks
          /\ mem \in [Word -> Val] /\ mem' \in [Word -> Val]
      BY <3>1 DEF IInv, TypeOK, LineType, Replaced
    <3>3. l.tag \in Nat /\ l.data = ReadBlock(mem, BlockAddress(l.tag, r))
      BY <3>1, <3>2 DEF IInv, CleanMatches, LineType
    <3>4. ASSUME NEW x \in Word, IndexOf(x) = r, TagOf(x) = l.tag
          PROVE  l.data[OffsetOf(x)] = mem'[x]
      <4>1. l.data[OffsetOf(x)] = mem[x]
        BY <3>2, <3>3, <3>4, BlockByWords
      <4>2. mem'[x] = MemAfterEviction(w, i)[x]
        BY <3>1, <3>4 DEF Replaced
      <4>3. ~(IndexOf(x) = s /\ HoldsWord(x, i))
        BY <1>1, <2>3, <3>1, <3>4 DEF IInv, UniqueTags, HoldsWord
      <4> QED BY <4>1, <4>2, <4>3, Evicted
    <3> HIDE DEF l
    <3>5. l.data = ReadBlock(mem', BlockAddress(l.tag, r))
      BY <3>2, <3>3, <3>4, BlockByWords
    <3> QED BY <3>1, <3>5
  <2> QED BY <2>2, <2>3
<1> QED BY <1>3, <1>4, <1>5 DEF IInv

\* What the processor sees changes only in the block of w.
LEMMA StepView ==
    ASSUME IInv, NEW w \in Word, NEW i, Selects(w, i), NEW n,
           cache' = [cache EXCEPT ![IndexOf(w)][i] = n],
           Replaced(w, i, n, mem'), NEW x \in Word
    PROVE  View'[x] = IF IndexOf(x) = IndexOf(w) /\ TagOf(x) = TagOf(w)
                      THEN n.data[OffsetOf(x)] ELSE View[x]
<1> DEFINE s == IndexOf(w)
           t == TagOf(w)
           r == IndexOf(x)
<1>1. /\ r \in Index /\ s \in Index /\ i \in Way
      /\ cache'[s][i] = n
  BY SplitWord, SelectedAlone, NewLine DEF Replaced
<1>2. \A j \in Way : ~(r = s /\ j = i) =>
          /\ cache'[r][j] = cache[r][j]
          /\ (r = s /\ cache[r][j].valid) => cache[r][j].tag # t
  <2>1. n.tag = TagOf(w) /\ cache' = [cache EXCEPT ![IndexOf(w)][i] = n]
    BY DEF Replaced
  <2>2. \A q \in Index, j \in Way : ~(q = IndexOf(w) /\ j = i) =>
          /\ cache'[q][j] = cache[q][j]
          /\ (q = IndexOf(w) /\ cache[q][j].valid) => cache[q][j].tag # TagOf(w)
    BY <2>1, OtherLines
  <2> HIDE DEF r
  <2> QED BY <1>1, <2>2
<1>3. CASE r = s /\ TagOf(x) = t
  <2>1. HoldsIn(cache', x, i)
    BY <1>1, <1>3 DEF HoldsIn, Replaced
  <2>2. \A k \in Way : HoldsIn(cache', x, k) => k = i
    <3> HIDE DEF s, t, r
    <3>1. r = s /\ TagOf(x) = t
      BY <1>3
    <3>2. ASSUME NEW k \in Way, HoldsIn(cache', x, k), k # i PROVE FALSE
      BY <1>2, <3>1, <3>2 DEF HoldsIn, r
    <3> QED BY <3>2
  <2>3. ViewOf(cache', mem')[x] = cache'[r][i].data[OffsetOf(x)]
    <3>1. OnlyIn(cache', x, i)
      BY <2>1, <2>2 DEF OnlyIn
    <3> QED BY <1>1, <3>1, ViewOfHit, ZenonT(30)
  <2> QED BY <1>1, <1>3, <2>3, ViewIsViewOf
<1>4. CASE ~(r = s /\ TagOf(x) = t)
  <2>1. \A k \in Way : HoldsIn(cache', x, k) <=> HoldsIn(cache, x, k) /\ ~(r = s /\ k = i)
    BY <1>1, <1>2, <1>4 DEF HoldsIn, Replaced
  <2>2. \A j, k \in Way : HoldsIn(cache, x, j) /\ HoldsIn(cache, x, k) => j = k
    BY <1>1 DEF HoldsIn, IInv, UniqueTags
  <2>3. mem'[x] = MemAfterEviction(w, i)[x]
    BY <1>4 DEF Replaced
  <2>4. CASE \E j \in Way : HoldsIn(cache', x, j)
    <3>1. PICK j \in Way : HoldsIn(cache', x, j)
      BY <2>4
    <3>2. HoldsIn(cache, x, j) /\ ~(r = s /\ j = i)
      BY <2>1, <3>1
    <3>3. cache'[r][j] = cache[r][j]
      BY <1>2, <3>2
    <3>4. \A k \in Way : HoldsIn(cache, x, k) => k = j
      BY <2>2, <3>2
    <3>5. \A k \in Way : HoldsIn(cache', x, k) => k = j
      BY <2>1, <3>4
    <3> HIDE DEF r
    <3>6. ViewOf(cache', mem')[x] = cache'[IndexOf(x)][j].data[OffsetOf(x)]
      <4>1. OnlyIn(cache', x, j)
        BY <3>1, <3>5 DEF OnlyIn
      <4> QED BY <4>1, ViewOfHit, ZenonT(30)
    <3>7. ViewOf(cache, mem)[x] = cache[IndexOf(x)][j].data[OffsetOf(x)]
      <4>1. OnlyIn(cache, x, j)
        BY <3>2, <3>4 DEF OnlyIn
      <4> QED BY <4>1, ViewOfHit, ZenonT(30)
    <3> USE DEF r
    <3> QED BY <1>4, <3>3, <3>6, <3>7, ViewIsViewOf
  <2>5. CASE \A j \in Way : ~HoldsIn(cache', x, j)
    <3>1. ViewOf(cache', mem')[x] = mem'[x]
      BY <2>5, ViewOfMiss
    <3>2. CASE r = s /\ HoldsIn(cache, x, i)
      <4>1. ~Hit(w) /\ HoldsWord(x, i)
        BY <1>4, <3>2, SelectedAlone DEF HoldsWord, HoldsIn
      <4>2. MemAfterEviction(w, i)[x] = cache[s][i].data[OffsetOf(x)]
        BY <3>2, <4>1, Evicted
      <4>3. ViewOf(cache, mem)[x] = cache[r][i].data[OffsetOf(x)]
        <5>1. OnlyIn(cache, x, i)
          BY <1>1, <2>2, <3>2 DEF OnlyIn
        <5> QED BY <1>1, <5>1, ViewOfHit, ZenonT(30)
      <4> QED BY <1>4, <2>3, <3>1, <3>2, <4>2, <4>3, ViewIsViewOf
    <3>3. CASE ~(r = s /\ HoldsIn(cache, x, i))
      <4>1. \A j \in Way : ~HoldsIn(cache, x, j)
        BY <2>1, <2>5, <3>3
      <4>2. MemAfterEviction(w, i)[x] = mem[x]
        BY <3>3, Evicted DEF HoldsWord, HoldsIn
      <4>3. ViewOf(cache, mem)[x] = mem[x]
        BY <4>1, ViewOfMiss
      <4> QED BY <1>4, <2>3, <3>1, <4>2, <4>3, ViewIsViewOf
    <3> QED BY <3>2, <3>3
  <2> QED BY <2>4, <2>5
<1> QED BY <1>3, <1>4

-----------------------------------------------------------------------------
(* The calls.                                                              *)

LEMMA ReadReplaces ==
    ASSUME IInv, NEW w \in Word, NEW i, Selects(w, i)
    PROVE  Replaced(w, i, Line(w, i), MemAfterEviction(w, i))
BY Filled, Evicted DEF Replaced

LEMMA StoreReplaces ==
    ASSUME IInv, NEW w \in Word, NEW i, Selects(w, i), NEW v \in Val, Store(w, i, v)
    PROVE  /\ Replaced(w, i, Stored(w, i, v), mem')
           /\ \A x \in Word : (IndexOf(x) = IndexOf(w) /\ TagOf(x) = TagOf(w)) =>
                Stored(w, i, v).data[OffsetOf(x)] = IF x = w THEN v ELSE View[x]
<1> DEFINE s == IndexOf(w)
           t == TagOf(w)
           l == Line(w, i)
           n == Stored(w, i, v)
           m == MemAfterEviction(w, i)
<1>1. /\ s \in Index /\ t \in Nat /\ t * Sets + s < Blocks /\ OffsetOf(w) \in Offset
      /\ mode \in {"back", "through"}
  BY SplitWord, CacheAssumption DEF IInv, TypeOK
<1>2. /\ l \in LineType /\ l.valid /\ l.tag = t /\ l.data \in [Offset -> Val]
      /\ \A x \in Word : (IndexOf(x) = s /\ TagOf(x) = t) => l.data[OffsetOf(x)] = View[x]
      /\ m \in [Word -> Val]
  BY Filled, Evicted
<1>3. /\ n \in LineType /\ n.valid /\ n.tag = t
      /\ n.data = [l.data EXCEPT ![OffsetOf(w)] = v]
      /\ n.dirty = (mode = "back")
  <2> HIDE DEF l
  <2>1. n = [l EXCEPT !.data[OffsetOf(w)] = v, !.dirty = (mode = "back")]
    BY DEF Stored, l
  <2> HIDE DEF n
  <2> QED BY <1>2, <2>1 DEF LineType
<1>4. n.data \in [Offset -> Val]
  BY <1>2, <1>3
<1>5. /\ mem' \in [Word -> Val]
      /\ \A x \in Word : ~(IndexOf(x) = s /\ TagOf(x) = t) => mem'[x] = m[x]
      /\ mode = "through" => n.data = ReadBlock(mem', BlockAddress(t, s))
  <2>1. CASE mode = "through"
    <3>1. mem' = WriteBlock(m, BlockAddress(t, s), n.data)
      BY <2>1 DEF Store
    <3>2. /\ mem' \in [Word -> Val]
          /\ \A x \in Word : mem'[x] = IF IndexOf(x) = s /\ TagOf(x) = t
                                       THEN n.data[OffsetOf(x)] ELSE m[x]
      BY <1>1, <1>2, <1>4, <3>1, WriteBlockWords
    <3> QED BY <1>1, <1>4, <3>2, BlockByWords
  <2>2. CASE mode # "through"
    BY <1>2, <2>2 DEF Store
  <2> QED BY <2>1, <2>2
<1>6. Replaced(w, i, n, mem')
  BY <1>1, <1>3, <1>4, <1>5 DEF Replaced
<1>7. ASSUME NEW x \in Word, IndexOf(x) = s, TagOf(x) = t
      PROVE  n.data[OffsetOf(x)] = IF x = w THEN v ELSE View[x]
  <2>1. OffsetOf(x) \in Offset
    BY SplitWord
  <2>2. x # w => OffsetOf(x) # OffsetOf(w)
    BY <1>7, SameWord
  <2> QED BY <1>1, <1>2, <1>3, <1>7, <2>1, <2>2
<1> QED BY <1>6, <1>7

\* A read shows the processor what it saw before; a store changes one word.
LEMMA ReadStep ==
    ASSUME IInv, NEW w \in Word, Read(w)
    PROVE  IInv' /\ View' = View /\ out' = View[w]
<1>1. PICK i \in Way :
          /\ Selects(w, i)
          /\ mem' = MemAfterEviction(w, i)
          /\ cache' = [cache EXCEPT ![IndexOf(w)][i] = Line(w, i)]
          /\ out' = Line(w, i).data[OffsetOf(w)]
          /\ Touch(IndexOf(w), i) /\ AdvanceFifo(w)
          /\ UNCHANGED <<policy, mode>>
  BY DEF Read
<1>2. Replaced(w, i, Line(w, i), mem')
  BY <1>1, ReadReplaces
<1>3. /\ Line(w, i).data \in [Offset -> Val]
      /\ \A x \in Word : (IndexOf(x) = IndexOf(w) /\ TagOf(x) = TagOf(w)) =>
            Line(w, i).data[OffsetOf(x)] = View[x]
  BY <1>1, Filled
<1>4. out' \in Val /\ out' = View[w]
  BY <1>1, <1>3, SplitWord
<1>5. IInv'
  BY <1>1, <1>2, <1>4, StepInv
<1>6. ASSUME NEW x \in Word PROVE View'[x] = View[x]
  <2>1. View'[x] = IF IndexOf(x) = IndexOf(w) /\ TagOf(x) = TagOf(w)
                   THEN Line(w, i).data[OffsetOf(x)] ELSE View[x]
    BY <1>1, <1>2, StepView
  <2> QED BY <1>3, <2>1
<1>7. View' = View
  BY <1>6 DEF View
<1> QED BY <1>4, <1>5, <1>7

LEMMA StoreStep ==
    ASSUME IInv, NEW w \in Word, NEW i, Selects(w, i), NEW v \in Val, Store(w, i, v)
    PROVE  IInv' /\ View' = [View EXCEPT ![w] = v] /\ out' = out
<1>1. /\ cache' = [cache EXCEPT ![IndexOf(w)][i] = Stored(w, i, v)]
      /\ Touch(IndexOf(w), i) /\ AdvanceFifo(w)
      /\ UNCHANGED <<policy, mode, out>>
  BY DEF Store
<1>2. /\ Replaced(w, i, Stored(w, i, v), mem')
      /\ \A x \in Word : (IndexOf(x) = IndexOf(w) /\ TagOf(x) = TagOf(w)) =>
            Stored(w, i, v).data[OffsetOf(x)] = IF x = w THEN v ELSE View[x]
  BY StoreReplaces
<1>3. IInv'
  <2>1. out' \in Val
    BY <1>1 DEF IInv, TypeOK
  <2> QED BY <1>1, <1>2, <2>1, StepInv
<1>4. ASSUME NEW x \in Word PROVE View'[x] = IF x = w THEN v ELSE View[x]
  <2>1. View'[x] = IF IndexOf(x) = IndexOf(w) /\ TagOf(x) = TagOf(w)
                   THEN Stored(w, i, v).data[OffsetOf(x)] ELSE View[x]
    BY <1>1, <1>2, StepView
  <2> QED BY <1>2, <2>1
<1>5. View' = [View EXCEPT ![w] = v]
  <2>1. View' = [x \in Word |-> View'[x]]
    BY DEF View
  <2>2. View = [x \in Word |-> View[x]]
    BY DEF View
  <2> QED BY <1>4, <2>1, <2>2
<1> QED BY <1>1, <1>3, <1>5

LEMMA InitInv == Init => IInv
<1> SUFFICES ASSUME Init PROVE IInv
  OBVIOUS
<1>1. \A s \in Index, i \in Way :
        cache[s][i] = [valid |-> FALSE, dirty |-> FALSE, tag |-> 0,
                       data |-> [o \in Offset |-> Uninitialised]]
  BY DEF Init
<1>2. TypeOK
  <2>1. cache \in [Index -> [Way -> LineType]]
    BY DEF Init, LineType
  <2>2. lru \in [Index -> [1..Assoc -> Way]] /\ fifo \in [Index -> Way]
    BY CacheAssumption DEF Init, Way
  <2> QED BY <1>1, <2>1, <2>2 DEF Init, TypeOK, LineType
<1>3. UniqueTags /\ CleanMatches
  BY <1>1 DEF UniqueTags, CleanMatches
<1> QED BY <1>2, <1>3 DEF IInv

\* Every call is a call of the flat memory.
LEMMA NextStep ==
    ASSUME IInv, Next
    PROVE  IInv' /\ Flat!Next
<1>1. ASSUME NEW w \in Word, Read(w) PROVE IInv' /\ Flat!Next
  BY <1>1, ReadStep DEF Flat!Next, Flat!Read
<1>2. ASSUME NEW w \in Word, NEW v \in Val, Write(w, v) PROVE IInv' /\ Flat!Next
  BY <1>2, StoreStep DEF Write, Flat!Next, Flat!Write
<1>3. ASSUME NEW w \in Word, NEW p \in Part, WritePart(w, p) PROVE IInv' /\ Flat!Next
  <2>1. PICK i \in Way : /\ Selects(w, i)
                         /\ Store(w, i, Merge(Line(w, i).data[OffsetOf(w)], p))
    BY <1>3 DEF WritePart
  <2>2. Line(w, i).data[OffsetOf(w)] = View[w] /\ View[w] \in Val
    BY <2>1, Filled, SplitWord
  <2>3. Merge(View[w], p) \in Val
    BY <2>2, CacheAssumption
  <2>4. IInv' /\ View' = [View EXCEPT ![w] = Merge(View[w], p)] /\ out' = out
    BY <2>1, <2>2, <2>3, StoreStep
  <2> QED BY <2>4 DEF Flat!Next, Flat!WritePart
<1> QED BY <1>1, <1>2, <1>3 DEF Next

LEMMA IInvUnchanged == IInv /\ UNCHANGED vars => IInv'
BY DEF IInv, TypeOK, UniqueTags, CleanMatches, vars, IsDirty

LEMMA Invariance == Spec => []IInv
<1>1. IInv /\ [Next]_vars => IInv'
  BY NextStep, IInvUnchanged
<1> QED BY InitInv, <1>1, PTL DEF Spec

\* Every state the cache, its policies and the memory reach is well formed: a
\* valid line always holds initialised data of a block that exists.
THEOREM TypeCorrect == Spec => []TypeOK
<1>1. IInv => TypeOK
  BY DEF IInv
<1> QED BY Invariance, <1>1, PTL

\* A block is never in two lines of its set, for any associativity and policy.
THEOREM NoAliases == Spec => []UniqueTags
<1>1. IInv => UniqueTags
  BY DEF IInv
<1> QED BY Invariance, <1>1, PTL

\* A clean line equals the memory, so that it may be dropped without a write-back.
THEOREM CleanIsClean == Spec => []CleanMatches
<1>1. IInv => CleanMatches
  BY DEF IInv
<1> QED BY Invariance, <1>1, PTL

\* ac_cache_if over either cache, with any policy, geometry and memory, is a
\* flat memory: every read returns the last value written to the word.
THEOREM CacheIsMemory == Spec => ImplementsFlat
<1>1. Init => Flat!Init
  <2>1. SUFFICES ASSUME Init PROVE View \in [Word -> Val] /\ out \in Val
    BY DEF Flat!Init
  <2>2. ASSUME NEW x \in Word, NEW k \in Way PROVE ~HoldsIn(cache, x, k)
    <3>1. IndexOf(x) \in Index
      BY SplitWord
    <3> QED BY <2>1, <3>1 DEF Init, HoldsIn
  <2>3. \A x \in Word : View[x] = mem[x]
    BY <2>2, ViewOfMiss, ViewIsViewOf
  <2>4. View = [x \in Word |-> View[x]]
    BY DEF View
  <2> QED BY <2>1, <2>3, <2>4 DEF Init
<1>2. IInv /\ [Next]_vars => [Flat!Next]_<<View, out>>
  <2>1. UNCHANGED vars => UNCHANGED <<View, out>>
    BY DEF vars, View, Hit, HoldsWord
  <2> QED BY <2>1, NextStep
<1> QED BY <1>1, <1>2, Invariance, PTL DEF Spec, ImplementsFlat, Flat!Spec

-----------------------------------------------------------------------------
(* The replacement policies: the LRU sequence of a set is always a         *)
(* permutation of its lines, with the line accessed last in front, and the *)
(* PLRUM bits of a set are never all set.                                  *)

Permutes(q) ==
    /\ q \in [1..Assoc -> Way]
    /\ \A j, k \in 1..Assoc : q[j] = q[k] => j = k
    /\ \A i \in Way : \E k \in 1..Assoc : q[k] = i

\* The loops of ac_lru_replacement_policy::block_written().
LEMMA MovedPermutes ==
    ASSUME NEW q, Permutes(q), NEW i \in Way
    PROVE  Permutes(MoveToFront(q, i)) /\ MoveToFront(q, i)[1] = i
<1> DEFINE r == MoveToFront(q, i)
<1>1. Assoc \in Nat \ {0} /\ 1 \in 1..Assoc
  BY CacheAssumption
<1>2. PICK p \in 1..Assoc : q[p] = i
  BY DEF Permutes
<1>3. ASSUME NEW k \in 1..Assoc
      PROVE  r[k] = IF k = 1 THEN i ELSE IF k <= p THEN q[k - 1] ELSE q[k]
  <2>1. (\E x \in k..Assoc : q[x] = i) <=> k <= p
    BY <1>1, <1>2, <1>3 DEF Permutes
  <2> QED BY <2>1 DEF MoveToFront
<1>4. \A k \in 1..Assoc : k # 1 => k - 1 \in 1..Assoc
  BY <1>1
<1>5. r = [k \in 1..Assoc |-> r[k]]
  BY DEF MoveToFront
<1> HIDE DEF r
<1>6. r \in [1..Assoc -> Way]
  <2>1. ASSUME NEW k \in 1..Assoc PROVE r[k] \in Way
    <3>1. q[k] \in Way /\ (k # 1 => q[k - 1] \in Way)
      BY <1>4 DEF Permutes
    <3> QED BY <1>3, <3>1
  <2> QED BY <1>5, <2>1
<1>7. r[1] = i
  BY <1>1, <1>3
<1>8. ASSUME NEW j \in 1..Assoc, NEW k \in 1..Assoc, r[j] = r[k] PROVE j = k
  <2>1. ASSUME NEW x \in 1..Assoc, x # 1, r[x] = i PROVE FALSE
    BY <1>1, <1>2, <1>3, <1>4, <2>1 DEF Permutes
  <2>2. CASE j = 1 \/ k = 1
    BY <1>7, <1>8, <2>1, <2>2
  <2>3. CASE j # 1 /\ k # 1
    <3>1. CASE j <= p /\ k <= p
      BY <1>3, <1>4, <1>8, <2>3, <3>1 DEF Permutes
    <3>2. CASE j > p /\ k > p
      BY <1>1, <1>3, <1>4, <1>8, <2>3, <3>2 DEF Permutes
    <3>3. CASE j <= p /\ k > p
      BY <1>1, <1>3, <1>4, <1>8, <2>3, <3>3 DEF Permutes
    <3>4. CASE j > p /\ k <= p
      BY <1>1, <1>3, <1>4, <1>8, <2>3, <3>4 DEF Permutes
    <3> QED BY <1>1, <3>1, <3>2, <3>3, <3>4
  <2> QED BY <2>2, <2>3
<1>9. ASSUME NEW w \in Way PROVE \E k \in 1..Assoc : r[k] = w
  <2>1. PICK k \in 1..Assoc : q[k] = w
    BY DEF Permutes
  <2>2. CASE k = p
    BY <1>1, <1>2, <1>7, <2>1, <2>2
  <2>3. CASE k < p
    <3>1. k + 1 \in 1..Assoc /\ k + 1 # 1 /\ k + 1 <= p /\ (k + 1) - 1 = k
      BY <1>1, <2>3
    <3>2. r[k + 1] = q[k]
      BY <1>3, <3>1
    <3> QED BY <2>1, <3>1, <3>2
  <2>4. CASE k > p
    <3>1. k # 1 /\ ~(k <= p)
      BY <2>4
    <3> QED BY <1>3, <2>1, <3>1
  <2> QED BY <2>2, <2>3, <2>4
<1> QED BY <1>6, <1>7, <1>8, <1>9 DEF Permutes, r

\* What the policies' theorems need beyond IInv.
PolicyInv ==
    /\ recent \in [Index -> Way \cup {None}]
    /\ \A s \in Index :
        /\ Permutes(lru[s])
        /\ (policy = "lru" /\ recent[s] # None) => lru[s][1] = recent[s]
        /\ policy = "plrum" => /\ mru[s] # Way
                               /\ recent[s] # None => recent[s] \in mru[s]

LEMMA PolicyInit == Init => PolicyInv
<1> SUFFICES ASSUME Init PROVE PolicyInv
  OBVIOUS
<1>1. Assoc \in Nat \ {0}
  BY CacheAssumption
<1>2. recent \in [Index -> Way \cup {None}]
  BY DEF Init
<1>3. ASSUME NEW s \in Index
      PROVE  recent[s] = None /\ mru[s] = {} /\ lru[s] = [k \in 1..Assoc |-> Assoc - k]
  BY DEF Init
<1>4. \A i \in Way : Assoc - i \in 1..Assoc /\ Assoc - (Assoc - i) = i
  BY <1>1 DEF Way
<1>5. \A k \in 1..Assoc : Assoc - k \in Way
  BY <1>1 DEF Way
<1>6. Permutes([k \in 1..Assoc |-> Assoc - k])
  BY <1>1, <1>4, <1>5 DEF Permutes
<1>7. 0 \in Way
  BY <1>1 DEF Way
<1> QED BY <1>2, <1>3, <1>6, <1>7 DEF PolicyInv

LEMMA PolicyTouch ==
    ASSUME IInv, PolicyInv, NEW z \in Index, NEW i \in Way, Touch(z, i), policy' = policy
    PROVE  PolicyInv'
<1>1. Assoc \in Nat \ {0}
  BY CacheAssumption
<1>2. /\ lru \in [Index -> [1..Assoc -> Way]] /\ mru \in [Index -> SUBSET Way]
      /\ policy \in Policies
  BY DEF IInv, TypeOK
<1>3. /\ recent' \in [Index -> Way \cup {None}]
      /\ recent'[z] = i
      /\ \A s \in Index : s # z => recent'[s] = recent[s]
  BY DEF Touch, PolicyInv
<1>4. ASSUME NEW s \in Index, s # z
      PROVE  lru'[s] = lru[s] /\ mru'[s] = mru[s]
  BY <1>2, <1>4 DEF Touch
<1>5. Permutes(lru'[z]) /\ (policy = "lru" => lru'[z][1] = i)
  <2>1. CASE policy = "lru" /\ Assoc > 1
    <3>1. lru'[z] = MoveToFront(lru[z], i)
      BY <1>2, <2>1 DEF Touch
    <3> QED BY <3>1, MovedPermutes DEF PolicyInv
  <2>2. CASE policy # "lru"
    BY <2>2 DEF Touch, PolicyInv
  <2>3. CASE policy = "lru" /\ ~(Assoc > 1)
    <3>1. lru'[z] = lru[z] /\ lru[z] \in [1..Assoc -> Way]
      BY <1>2, <2>3 DEF Touch
    <3>2. Way = {0} /\ 1 \in 1..Assoc
      BY <1>1, <2>3 DEF Way
    <3> QED BY <3>1, <3>2 DEF PolicyInv
  <2> QED BY <2>1, <2>2, <2>3
<1>6. policy = "plrum" => mru'[z] # Way /\ i \in mru'[z]
  <2>1. SUFFICES ASSUME policy = "plrum" PROVE mru'[z] # Way /\ i \in mru'[z]
    OBVIOUS
  <2>2. Assoc > 1
    BY <1>2, <2>1, CacheAssumption
  <2>3. mru'[z] = SetBit(mru[z], i)
    BY <1>2, <2>1, <2>2 DEF Touch
  <2>4. 0 \in Way /\ 1 \in Way
    BY <1>1, <2>2 DEF Way
  <2> QED BY <2>3, <2>4 DEF SetBit
<1>7. ASSUME NEW s \in Index
      PROVE  /\ Permutes(lru'[s])
             /\ (policy = "lru" /\ recent'[s] # None) => lru'[s][1] = recent'[s]
             /\ policy = "plrum" => /\ mru'[s] # Way
                                    /\ recent'[s] # None => recent'[s] \in mru'[s]
  <2>1. CASE s = z
    BY <1>3, <1>5, <1>6, <2>1
  <2>2. CASE s # z
    BY <1>3, <1>4, <2>2 DEF PolicyInv
  <2> QED BY <2>1, <2>2
<1> QED BY <1>3, <1>7 DEF PolicyInv

LEMMA PolicyStep == IInv /\ PolicyInv /\ [Next]_vars => PolicyInv'
<1>1. ASSUME IInv, PolicyInv, NEW w \in Word, Read(w) PROVE PolicyInv'
  <2>1. PICK i \in Way : Touch(IndexOf(w), i) /\ policy' = policy
    BY <1>1 DEF Read
  <2> QED BY <1>1, <2>1, SplitWord, PolicyTouch
<1>2. ASSUME IInv, PolicyInv, NEW w \in Word, NEW i \in Way, NEW v, Store(w, i, v)
      PROVE  PolicyInv'
  <2>1. Touch(IndexOf(w), i) /\ policy' = policy
    BY <1>2 DEF Store
  <2> QED BY <1>2, <2>1, SplitWord, PolicyTouch
<1>3. ASSUME IInv, PolicyInv, UNCHANGED vars PROVE PolicyInv'
  BY <1>3 DEF PolicyInv, vars
<1> QED BY <1>1, <1>2, <1>3 DEF Next, Write, WritePart

LEMMA PolicyInvariance == Spec => []PolicyInv
<1>1. Init => PolicyInv
  BY PolicyInit
<1> QED BY <1>1, PolicyStep, Invariance, PTL DEF Spec

\* The sequence of every set stays a permutation of its lines, so that the
\* search loop of block_written() ends inside the array.
THEOREM LruSequence == Spec => []LruIsOrder
<1>1. PolicyInv => LruIsOrder
  BY DEF PolicyInv, Permutes, LruIsOrder
<1> QED BY <1>1, PolicyInvariance, PTL

\* With more than one line in a set, LRU and PLRUM always find a line to
\* replace, and it is never the one accessed last.
THEOREM LastIsKept == Spec => []RecentIsKept
<1>1. ASSUME IInv, PolicyInv, Assoc > 1, policy \in {"lru", "plrum"}, NEW s \in Index
      PROVE  /\ \E i \in Way : Replaces(s, i)
             /\ recent[s] # None => ~Replaces(s, recent[s])
  <2>1. Assoc \in Nat /\ 1 \in 1..Assoc /\ Assoc \in 1..Assoc /\ Assoc # 1
    BY <1>1, CacheAssumption
  <2>2. CASE policy = "lru"
    <3>1. lru[s][Assoc] \in Way /\ lru[s][Assoc] # lru[s][1]
      BY <1>1, <2>1 DEF PolicyInv, Permutes
    <3> QED BY <1>1, <2>2, <3>1 DEF Replaces, PolicyInv
  <2>3. CASE policy = "plrum"
    <3> DEFINE T == Way \ mru[s]
    <3>1. T # {} /\ T \subseteq Nat /\ (recent[s] # None => recent[s] \notin T)
      <4>1. mru[s] \subseteq Way /\ mru[s] # Way /\ (recent[s] # None => recent[s] \in mru[s])
        BY <1>1, <2>3 DEF PolicyInv, IInv, TypeOK
      <4>2. Way \subseteq Nat
        BY <2>1 DEF Way
      <4> QED BY <4>1, <4>2
    <3>2. PICK i \in T : \A k \in T : i <= k
      <4> HIDE DEF T
      <4> QED BY <3>1, LeastNat
    <3>3. Replaces(s, i)
      BY <2>3, <3>2 DEF Replaces, First
    <3> QED BY <2>3, <3>1, <3>2, <3>3 DEF Replaces, First
  <2> QED BY <1>1, <2>2, <2>3
<1>2. IInv /\ PolicyInv => RecentIsKept
  BY <1>1 DEF RecentIsKept
<1> QED BY <1>2, Invariance, PolicyInvariance, PTL
=============================================================================
