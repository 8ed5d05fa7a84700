------------------------------- MODULE Cache -------------------------------
(***************************************************************************)
(* A simulated cache between a processor and its memory: the classes       *)
(* ac_write_back_cache and ac_write_through_cache (ac_cache.H) on top of   *)
(* cache_bhv (ac_cache_bhv.H), with the four replacement policies, as the  *)
(* word interface ac_cache_if drives it and with ac_mem behind it.         *)
(*                                                                         *)
(* Addresses are word addresses (byte_to_word has been applied).  A call   *)
(* runs to its end without giving up control, so it is one step.           *)
(***************************************************************************)
EXTENDS Integers

CONSTANTS
    Sets,            \* index_size
    Assoc,           \* associativity
    BlockWords,      \* block_size / sizeof(cpu_word)
    Blocks,          \* memory size in blocks
    Val,             \* values of a word
    Uninitialised,   \* line data before the first fill
    Part,            \* what a byte or half-word write brings
    Merge(_, _),     \* Merge(v, p): the word v with the part p written over it
    Policies,        \* the replacement policies to instantiate
    Modes            \* "back", "through"

ASSUME CacheAssumption ==
    /\ Sets \in Nat \ {0} /\ Assoc \in Nat \ {0}
    /\ BlockWords \in Nat \ {0} /\ Blocks \in Nat \ {0}
    /\ Uninitialised \notin Val
    /\ \A v \in Val, p \in Part : Merge(v, p) \in Val
    /\ Policies \subseteq {"lru", "plrum", "fifo", "random"}
    /\ "plrum" \in Policies => Assoc > 1   \* else mru_bits is never allocated
    /\ Modes \subseteq {"back", "through"}

VARIABLES
    policy, mode,    \* template parameters, chosen once
    cache,           \* cache[s][i]: line i of set s
    lru,             \* ac_lru_replacement_policy::sequence
    mru,             \* ac_plrum_replacement_policy::mru_bits, as sets
    fifo,            \* ac_fifo_replacement_policy::counter
    mem,             \* the memory behind the cache
    out,             \* what the last read returned
    recent           \* history: the line of each set accessed last, or None

policyVars == <<lru, mru, fifo, recent>>
vars == <<policy, mode, cache, lru, mru, fifo, mem, out, recent>>

Index  == 0..Sets - 1
Way    == 0..Assoc - 1
Offset == 0..BlockWords - 1
Word   == 0..Blocks * BlockWords - 1
None   == -1

-----------------------------------------------------------------------------
(* split_address() and block_address().                                    *)

OffsetOf(w) == w % BlockWords
BlockOf(w)  == w \div BlockWords
IndexOf(w)  == BlockOf(w) % Sets
TagOf(w)    == BlockOf(w) \div Sets

BlockAddress(t, s) == (t * Sets + s) * BlockWords

ReadBlock(m, a) == [o \in Offset |-> m[a + o]]

WriteBlock(m, a, data) ==
    [w \in Word |-> IF w \in a..a + BlockWords - 1 THEN data[w - a] ELSE m[w]]

-----------------------------------------------------------------------------
(* Replacement policies.                                                   *)

First(S) == {i \in S : \A j \in S : i <= j}

\* The line moves to the front of the sequence.
\* (Slip: the shift stops one place early.)
MoveShort(q, i) ==
    [k \in 1..Assoc |->
        IF k = 1 THEN i
        ELSE IF \E x \in k + 1..Assoc : q[x] = i THEN q[k - 1] ELSE q[k]]

MoveToFront(q, i) ==
    [k \in 1..Assoc |->
        IF k = 1 THEN i
        ELSE IF \E x \in k..Assoc : q[x] = i THEN q[k - 1] ELSE q[k]]

\* (Slip: the bits are never cleared.)
SetOnly(bits, i) == bits \cup {i}

\* The line's bit is set; when all are, only this one stays.
SetBit(bits, i) == IF bits \cup {i} = Way THEN {i} ELSE bits \cup {i}

\* block_to_replace(), for a full set.
Replaces(s, i) ==
    \/ policy = "lru"    /\ i = lru[s][Assoc]
    \/ policy = "plrum"  /\ i \in First(Way \ mru[s])
    \/ policy = "fifo"   /\ i = fifo[s]
    \/ policy = "random" /\ i \in Way

\* block_read() and block_written() of a line.
Touch(s, i) ==
    /\ lru' = IF policy = "lru" /\ Assoc > 1
              THEN [lru EXCEPT ![s] = MoveToFront(lru[s], i)] ELSE lru
    /\ mru' = IF policy = "plrum" /\ Assoc > 1
              THEN [mru EXCEPT ![s] = SetBit(mru[s], i)] ELSE mru
    /\ recent' = [recent EXCEPT ![s] = i]

-----------------------------------------------------------------------------
(* Looking a word up and, on a miss, bringing its block in.                *)

\* (Slips: the valid bit is not looked at; the search stops one line early.)
TagMatches(w, i) == cache[IndexOf(w)][i].tag = TagOf(w)
HoldsButLast(w, i) ==
    i < Assoc - 1 /\ cache[IndexOf(w)][i].valid /\ TagMatches(w, i)

HoldsWord(w, i) ==
    /\ cache[IndexOf(w)][i].valid
    /\ cache[IndexOf(w)][i].tag = TagOf(w)

Hit(w) == \E i \in Way : HoldsWord(w, i)

Invalid(s) == {i \in Way : ~cache[s][i].valid}

\* get_available_block()
Available(s, i) ==
    \/ Assoc = 1 /\ i = 0
    \/ Assoc > 1 /\ i \in First(Invalid(s))
    \/ Assoc > 1 /\ Invalid(s) = {} /\ Replaces(s, i)

\* The line the call works on: get_block(), else get_available_block().
Selects(w, i) ==
    /\ i \in Way
    /\ IF Hit(w) THEN i \in First({j \in Way : HoldsWord(w, j)})
                 ELSE Available(IndexOf(w), i)

\* block_to_replace() of the FIFO policy advances its counter.
AdvanceFifo(w) ==
    fifo' = IF policy = "fifo" /\ Assoc > 1 /\ ~Hit(w) /\ Invalid(IndexOf(w)) = {}
            THEN [fifo EXCEPT ![IndexOf(w)] = (@ + 1) % Assoc]
            ELSE fifo

IsDirty(line) == line.valid /\ line.dirty

\* The memory after a dirty victim has been written back.
\* (Slip: the victim is just overwritten.)
MemUntouched(w, i) == mem

MemAfterEviction(w, i) ==
    LET line == cache[IndexOf(w)][i] IN
    IF ~Hit(w) /\ IsDirty(line)
    THEN WriteBlock(mem, BlockAddress(line.tag, IndexOf(w)), line.data)
    ELSE mem

\* a/block_size*block_size
BlockStart(w) == BlockOf(w) * BlockWords

\* The line, filled if need be.
Line(w, i) ==
    IF Hit(w) THEN cache[IndexOf(w)][i]
    ELSE [valid |-> TRUE, dirty |-> FALSE, tag |-> TagOf(w),
          data |-> ReadBlock(MemAfterEviction(w, i), BlockStart(w))]

\* (Slip: write() forgets set_dirty().)
StoredClean(w, i, v) == [Line(w, i) EXCEPT !.data[OffsetOf(w)] = v]

\* The line after write_block_single(); set_dirty() if it is written back later.
Stored(w, i, v) ==
    [Line(w, i) EXCEPT !.data[OffsetOf(w)] = v, !.dirty = (mode = "back")]

-----------------------------------------------------------------------------
Init ==
    /\ policy \in Policies /\ mode \in Modes
    /\ cache = [s \in Index |-> [i \in Way |->
                  [valid |-> FALSE, dirty |-> FALSE, tag |-> 0,
                   data |-> [o \in Offset |-> Uninitialised]]]]
    /\ lru = [s \in Index |-> [k \in 1..Assoc |-> Assoc - k]]
    /\ mru = [s \in Index |-> {}]
    /\ fifo = [s \in Index |-> 0]
    /\ mem \in [Word -> Val]
    /\ out \in Val
    /\ recent = [s \in Index |-> None]

\* ac_cache_if::read(), of a word or of a part of it.
Read(w) ==
    \E i \in Way :
        /\ Selects(w, i)
        /\ mem' = MemAfterEviction(w, i)
        /\ cache' = [cache EXCEPT ![IndexOf(w)][i] = Line(w, i)]
        /\ out' = Line(w, i).data[OffsetOf(w)]
        /\ Touch(IndexOf(w), i)
        /\ AdvanceFifo(w)
        /\ UNCHANGED <<policy, mode>>

\* Both write()s once the line is selected; a write-through cache sends the
\* whole block to the memory.
Store(w, i, v) ==
    /\ cache' = [cache EXCEPT ![IndexOf(w)][i] = Stored(w, i, v)]
    /\ mem' = IF mode = "through"
              THEN WriteBlock(MemAfterEviction(w, i),
                              BlockAddress(TagOf(w), IndexOf(w)),
                              Stored(w, i, v).data)
              ELSE MemAfterEviction(w, i)
    /\ Touch(IndexOf(w), i)
    /\ AdvanceFifo(w)
    /\ UNCHANGED <<policy, mode, out>>

\* ac_cache_if::write() of a word.
Write(w, v) == \E i \in Way : Selects(w, i) /\ Store(w, i, v)

\* ac_cache_if::write() of a byte or a half word: read the word, put the part
\* in, write the word.  The second lookup hits the line of the first.
WritePart(w, p) ==
    \E i \in Way :
        /\ Selects(w, i)
        /\ Store(w, i, Merge(Line(w, i).data[OffsetOf(w)], p))

Next ==
    \E w \in Word : \/ Read(w)
                    \/ \E v \in Val : Write(w, v)
                    \/ \E p \in Part : WritePart(w, p)

Spec == Init /\ [][Next]_vars

-----------------------------------------------------------------------------
(* Properties.                                                             *)

\* Ranges; a valid line holds initialised data of a block of the memory.
TypeOK ==
    /\ policy \in Policies /\ mode \in Modes
    /\ mem \in [Word -> Val] /\ out \in Val
    /\ cache \in [Index -> [Way -> [valid : BOOLEAN, dirty : BOOLEAN, tag : Nat,
                        data : [Offset -> Val \cup {Uninitialised}]]]]
    /\ \A s \in Index, i \in Way : cache[s][i].valid =>
          /\ cache[s][i].data \in [Offset -> Val]
          /\ cache[s][i].tag * Sets + s < Blocks
    /\ lru \in [Index -> [1..Assoc -> Way]]
    /\ mru \in [Index -> SUBSET Way]
    /\ fifo \in [Index -> Way]

\* No two lines of a set hold the same block: the search of get_block() has at
\* most one answer, and no stale copy can be written back later.
UniqueTags ==
    \A s \in Index, i, j \in Way :
        (cache[s][i].valid /\ cache[s][j].valid /\ cache[s][i].tag = cache[s][j].tag)
            => i = j

\* A valid line that is not dirty equals its block in the memory; in a
\* write-through cache that is every valid line.
CleanMatches ==
    \A s \in Index, i \in Way :
        (cache[s][i].valid /\ (~cache[s][i].dirty \/ mode = "through")) =>
            cache[s][i].data = ReadBlock(mem, BlockAddress(cache[s][i].tag, s))

\* The sequence of the LRU policy stays an order of all the lines of a set: the
\* search loop of block_written() has no other bound.
LruIsOrder ==
    \A s \in Index : \A i \in Way : \E k \in 1..Assoc : lru[s][k] = i

\* LRU and PLRUM never replace the line accessed last, and always have one to
\* replace.
RecentIsKept ==
    (Assoc > 1 /\ policy \in {"lru", "plrum"}) =>
        \A s \in Index : /\ \E i \in Way : Replaces(s, i)
                         /\ recent[s] # None => ~Replaces(s, recent[s])

\* What the processor sees: the cached copy if there is one.
View ==
    [w \in Word |->
        IF Hit(w) THEN cache[IndexOf(w)][CHOOSE i \in Way : HoldsWord(w, i)].data[OffsetOf(w)]
                  ELSE mem[w]]

Flat == INSTANCE FlatMemory WITH store <- View

\* The cache is invisible: whatever is evicted, written back and refilled, in
\* both modes and under every policy, it behaves like the flat memory.
ImplementsFlat == Flat!Spec
=============================================================================
