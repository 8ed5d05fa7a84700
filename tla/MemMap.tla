------------------------------- MODULE MemMap -------------------------------
(***************************************************************************)
(* The target's memory map behind the brk, mmap and munmap system calls:   *)
(* class memmap of src/aclib/ac_rtld/memmap.{H,cpp}.  It is a linked list  *)
(* of nodes; a node's region runs from its address to the next node's, the *)
(* last one's to the end of the address space.                             *)
(*                                                                         *)
(* Addresses are unsigned words: sums wrap at Word (2^32 in the code).     *)
(***************************************************************************)
EXTENDS Integers, SequencesExt

CONSTANTS
    Word,        \* addresses are 0..Word-1
    MemSize,     \* the size of the target's memory
    PageSize,    \* sysconf(_SC_PAGE_SIZE)
    Entry,       \* where the program starts: ac_start_addr
    ProgEnd,     \* where its last segment ends
    Hints,       \* bound: address arguments of the calls
    Sizes        \* bound: size arguments of the calls

ASSUME MemMapAssumption ==
    /\ Word \in Nat /\ MemSize \in 1..Word - 1
    /\ PageSize \in Nat \ {0}
    /\ ProgEnd \in 1..MemSize /\ Entry \in 0..ProgEnd - 1
    /\ Entry + ProgEnd <= MemSize
    /\ Hints \subseteq 0..Word - 1 /\ Sizes \subseteq 0..Word - 1

VARIABLES
    list,        \* the nodes
    memsize,     \* the size of the memory
    brkaddr,     \* the initial program break
    newbrk,      \* newbrkaddr, the present one
    grants       \* history: the regions mmap returned and munmap has not taken

vars == <<list, memsize, brkaddr, newbrk, grants>>

Addr == 0..Word - 1
Failed == Word - 1              \* (Elf32_Addr) -1

Node(s, a) == [status |-> s, addr |-> a]
Free(a) == Node("free", a)
Used(a) == Node("used", a)

Plus(a, n) == (a + n) % Word
ALIGN_ADDR(a) == Plus(a - (a % PageSize), PageSize)

-----------------------------------------------------------------------------
(* The list.                                                               *)

BothFree(m, n) == m.status = "free" /\ n.status = "free"

Misplaced(n, prior) == n.addr <= prior.addr /\ ~BothFree(n, prior)

\* A turn of the first loop of fix_consistency(): a node that is not below its
\* successor is deleted, unless both are free.
Replacing(kept, n) ==
    IF kept # << >> /\ Misplaced(n, Last(kept)) THEN Append(Front(kept), n)
                                               ELSE Append(kept, n)

DropMisplaced(nodes) ==
    LET kept[j \in 0..Len(nodes)] ==
            IF j = 0 THEN << >> ELSE Replacing(kept[j - 1], nodes[j])
    IN  kept[Len(nodes)]

\* (Slip: the second loop is missing.)
KeepAll(nodes) == nodes

\* A turn of the second loop: of a run of free nodes the first stays.
Merging(kept, n) ==
    IF kept # << >> /\ BothFree(n, Last(kept)) THEN kept ELSE Append(kept, n)

MergeFree(nodes) ==
    LET kept[j \in 0..Len(nodes)] ==
            IF j = 0 THEN << >> ELSE Merging(kept[j - 1], nodes[j])
    IN  kept[Len(nodes)]

FixConsistency(nodes) == MergeFree(DropMisplaced(nodes))

\* add_region(): the new used node and the free one that ends it go in before
\* the first node at or above start, but never before the head.
AddRegion(nodes, start, size) ==
    LET k == Max({1} \cup {i \in 1..Len(nodes) :
                             \A j \in 1..i : nodes[j].addr < start})
    IN  FixConsistency(SubSeq(nodes, 1, k)
                       \o <<Used(start), Free(Plus(start, size))>>
                       \o SubSeq(nodes, k + 1, Len(nodes)))

\* find_region(): the first node at exactly this address, or 0.
FindRegion(a) ==
    LET at == {i \in 1..Len(list) : list[i].addr = a}
    IN  IF at = {} THEN 0 ELSE Min(at)

\* The node verify_region_availability() looks at: the last one before the
\* first successor above a.
NodeBelow(a) ==
    Max({1} \cup {i \in 1..Len(list) : \A j \in 2..i : list[j].addr <= a})

HasNext(i) == i < Len(list)

\* (Slip: the region that follows is not looked at.)
IgnoresNext(a, size, i) == FALSE

\* The region at list[i] is free, but the next one starts too early.
RunsIntoNext(a, size, i) ==
    /\ HasNext(i) /\ list[i + 1].status = "used"
    /\ Plus(a, size) > list[i + 1].addr

\* What verify_region_availability() returns.
Available(a, size) ==
    LET i == NodeBelow(a) IN
    /\ a > ALIGN_ADDR(newbrk)
    /\ list[i].status = "free"
    /\ ~RunsIntoNext(a, size, i)
    /\ Plus(a, size) <= memsize

\* What it leaves in *next_addr: where to look next, 0 for nowhere.
NextAddr(a, size) ==
    LET i == NodeBelow(a) IN
    IF a <= ALIGN_ADDR(newbrk) THEN ALIGN_ADDR(newbrk)
    ELSE IF list[i].status = "used"
         THEN IF HasNext(i) THEN list[i + 1].addr ELSE 0
    ELSE IF RunsIntoNext(a, size, i) /\ HasNext(i + 1) THEN list[i + 2].addr
    ELSE 0

\* suggest_mmap_region(): from the middle of the space above the break upwards
\* and then, once, from the initial break.
SuggestMmapRegion(size) ==
    LET from[p \in Addr \X BOOLEAN] ==
            LET a == p[1]
                again == p[2]
                next == NextAddr(a, size)
            IN  IF Available(a, size) THEN a
                ELSE IF next # 0 /\ Plus(next, size) < memsize
                     THEN from[<<ALIGN_ADDR(next), again>>]
                ELSE IF ~again THEN from[<<ALIGN_ADDR(brkaddr), TRUE>>]
                ELSE Failed
    IN  from[<<ALIGN_ADDR((memsize - newbrk) \div 2 + newbrk), FALSE>>]

-----------------------------------------------------------------------------
\* The list ac_rtld::initiate() leaves.  It takes the end of the program for its
\* size, so the region reaches past the program by its start address.
Initiated(start, end) == AddRegion(<<Free(0)>>, start, end)

Init ==
    /\ list = Initiated(Entry, ProgEnd)
    /\ memsize = MemSize
    /\ brkaddr = ProgEnd /\ newbrk = ProgEnd
    /\ grants = << >>

\* The address mmap_anon() returns.  A hint that is not available is ignored.
Place(hint, size) ==
    LET a == IF hint % PageSize = 0 THEN hint ELSE ALIGN_ADDR(hint) IN
    IF a # 0 /\ Available(a, size) THEN a ELSE SuggestMmapRegion(size)

\* mmap (and mmap2, which redirects to it) of anonymous memory.  The call fails
\* for size 0 and when no region is found.
Mmap(hint, size) ==
    /\ size # 0
    /\ LET a == Place(hint, size) IN
       /\ a # Failed
       /\ list' = AddRegion(list, a, size)
       /\ grants' = Append(grants, [addr |-> a, size |-> size])
    /\ UNCHANGED <<memsize, brkaddr, newbrk>>

\* (Slip: the size argument is not compared with the region's.)
AnySize(i, size) == TRUE

Covers(i, size) == (list[i + 1].addr - list[i].addr) % Word <= size

\* munmap of a page-aligned address at which a node begins: it succeeds, and
\* frees the region if the size covers it.  Other calls fail.
Munmap(addr, size) ==
    /\ addr # 0 /\ addr % PageSize = 0
    /\ FindRegion(addr) # 0
    /\ LET i == FindRegion(addr) IN
       list' = IF HasNext(i) /\ Covers(i, size)
               THEN FixConsistency([list EXCEPT ![i].status = "free"])
               ELSE list
    /\ LET taken == {k \in 1..Len(grants) :
                        grants[k].addr = addr /\ grants[k].size <= size} IN
       grants' = IF taken = {} THEN grants ELSE RemoveAt(grants, Min(taken))
    /\ UNCHANGED <<memsize, brkaddr, newbrk>>

\* (Slip: nothing keeps the break inside the memory.)
NoLimit(addr) == \A i \in 1..Len(list) :
    (list[i].addr >= newbrk /\ list[i].status = "used") => addr < list[i].addr

\* Whether brk() can raise the break to addr: inside the memory, and below the
\* first used region at or above the present break.
CanGrow(addr) ==
    LET used == {i \in 1..Len(list) :
                    list[i].addr >= newbrk /\ list[i].status = "used"} IN
    /\ addr < memsize
    /\ used # {} => addr < list[Min(used)].addr

\* brk(): lowering it to the initial break or below is ignored.
Brk(addr) ==
    /\ addr > brkaddr
    /\ addr <= newbrk \/ CanGrow(addr)
    /\ newbrk' = addr
    /\ UNCHANGED <<list, memsize, brkaddr, grants>>

Next ==
    \/ \E hint \in Hints, size \in Sizes : Mmap(hint, size) \/ Munmap(hint, size)
    \/ \E addr \in Hints : Brk(addr)

Spec == Init /\ [][Next]_vars

-----------------------------------------------------------------------------
(* Properties.                                                             *)

Bytes(g) == g.addr..g.addr + g.size - 1

\* What the theorems need: no sum the calls make of the numbers they are given,
\* the size of the memory and a page is cut off.
SumsFit(m) ==
    \A size \in Sizes :
        /\ m + PageSize + size < Word
        /\ \A hint \in Hints : hint + PageSize + size < Word

\* The list starts at address 0 and ends free; the break stays between its
\* initial value and the end of the memory.
TypeOK ==
    /\ list \in Seq([status : {"free", "used"}, addr : Addr])
    /\ list # << >> /\ Head(list).addr = 0 /\ Last(list).status = "free"
    /\ newbrk \in brkaddr..memsize
    /\ grants \in Seq([addr : Addr, size : Addr \ {0}])

\* No two live mappings share a byte, none reaches below the program break or
\* past the memory, after any sequence of mmap, munmap and brk.
GrantsDisjoint ==
    \A i \in 1..Len(grants) :
        /\ newbrk <= grants[i].addr
        /\ grants[i].addr + grants[i].size <= memsize
        /\ \A j \in 1..i - 1 : Bytes(grants[i]) \cap Bytes(grants[j]) = {}

\* Every byte of a live mapping lies in a used region, so that no later call
\* gives it away; munmap never frees more than the mapping it names.
GrantsBacked ==
    \A k \in 1..Len(grants) : \A b \in Bytes(grants[k]) :
        list[NodeBelow(b)].status = "used"

\* "merges contigous free block regions" (fix_consistency): free regions do
\* not stay split, and addresses never descend.
ListCanonical ==
    \A i \in 1..Len(list) - 1 :
        /\ ~BothFree(list[i], list[i + 1])
        /\ list[i].addr <= list[i + 1].addr

\* What a node means, by its comment in memmap.H: regions of memory "to indicate
\* whether they are allocated": after munmap has answered yes for a mapping, no
\* node says it is in use.
UsedIsHeld ==
    \A i \in 1..Len(list) : list[i].status = "used" =>
        list[i].addr \in {Entry} \cup {grants[k].addr : k \in 1..Len(grants)}

\* "not enough space" (verify_region_availability): a mapping larger than the
\* whole memory is never granted.
GrantFits == \A i \in 1..Len(grants) : grants[i].size <= memsize
=============================================================================
