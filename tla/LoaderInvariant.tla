-------------------------- MODULE LoaderInvariant --------------------------
(***************************************************************************)
(* What holds at every step of the dynamic linker, and why its properties  *)
(* do: where its objects lie, which of them were asked for by whom, what   *)
(* has run and is left to run, and what the loops of link() have done to   *)
(* every entry of every table so far.  The theorems are in LoaderProof.    *)
(***************************************************************************)
EXTENDS Loader

-----------------------------------------------------------------------------
(* What the dynamic linker keeps of its objects.                           *)

\* The objects of the list of link nodes.
FileSet == {prog.files[name] : name \in DOMAIN prog.files}
Copies == [dst : Nat, src : Nat, size : Nat]
LinkNodes == [soname : STRING, file : FileSet, addr : Nat, symbols : Seq(Symbols),
              copies : Seq(Copies)]

Stages == {"load", "adjust", "resolve", "relocate", "copy", "boot",
           "init", "main", "fini", "done", "failed"}

ObjectEnd(n) == n.addr + n.file.size

\* Which object is being worked on; a program without libraries has no list.
LinksTyped ==
    /\ nodes \in Seq(LinkNodes)
    /\ prog.dynamic => at \in 1..Len(nodes) /\ nodes[1].addr = 0
    /\ ~prog.dynamic => nodes = << >> /\ at = 1 /\ stage \in {"main", "fini", "done"}
    /\ stage \in Stages /\ entry \in Nat \ {0} /\ weak \in BOOLEAN

\* The objects lie behind each other, and the list of regions ends behind them
\* while they are loaded, the heap afterwards.
LaidOut ==
    /\ \A i \in 2..Len(nodes) :
        /\ nodes[i].addr % PageSize = 0
        /\ i = 2 => nodes[i].addr >= prog.end
        /\ i > 2 => nodes[i].addr >= ObjectEnd(nodes[i - 1])
        /\ ObjectEnd(nodes[i]) <= memsize
        /\ stage = "load" => ObjectEnd(nodes[i]) <= Last(list).addr
        /\ stage \notin {"load", "failed"} => ObjectEnd(nodes[i]) <= brkaddr
        /\ \A j \in 2..i - 1 : LibraryName[nodes[i].soname] # LibraryName[nodes[j].soname]
    /\ stage = "load" => prog.end <= Last(list).addr

\* Until its table is adjusted an object has the symbols of its file; its copies
\* are taken from inside the memory.
TablesKept ==
    \A i \in 1..Len(nodes) :
        /\ Len(nodes[i].symbols) = Len(nodes[i].file.symbols)
        /\ stage = "load" \/ (stage = "adjust" /\ at <= i) =>
              nodes[i].symbols = nodes[i].file.symbols
        /\ \A k \in 1..Len(nodes[i].copies) :
              nodes[i].copies[k].src + nodes[i].copies[k].size <= memsize

LinkInv == LinksTyped /\ LaidOut /\ TablesKept /\ mem \in [0..memsize - 1 -> Addr]

-----------------------------------------------------------------------------
(* The order of the queue and of the functions that run.                   *)

\* Object j needs object i, under whatever path.
Needs(j, i) ==
    \E k \in 1..Len(File(j).needed) :
        LibraryName[File(j).needed[k]] = LibraryName[nodes[i].soname]

\* Object j is the first that does.
FirstNeeds(j, i) == Needs(j, i) /\ \A x \in 1..j - 1 : ~Needs(x, i)

\* The entries load_needed() is through with.
Treated(j, k) == j < at \/ (j = at /\ k < entry)

\* The list is a queue: what an entry asked for is there, and behind the object
\* it was first asked by.
QueueKept ==
    /\ \A i \in 2..Len(nodes) : \E j \in 1..i - 1 :
          FirstNeeds(j, i) /\ (stage = "load" => j <= at)
    /\ \A i, x \in 2..Len(nodes) : \A j, y \in 1..Len(nodes) :
          i < x /\ FirstNeeds(j, i) /\ FirstNeeds(y, x) => j <= y
    /\ stage = "load" =>
          \A j \in 1..Len(nodes) : \A k \in 1..Len(File(j).needed) :
             Treated(j, k) => \E i \in 2..Len(nodes) :
                LibraryName[File(j).needed[k]] = LibraryName[nodes[i].soname]

\* What has run and what is left to run.
VectorsKept ==
    /\ startvec \in Seq(Nat) /\ finivec \in Seq(Nat) /\ ran \in Seq(Nat)
    /\ stage \in {"load", "adjust", "resolve", "relocate", "copy", "boot"} =>
          /\ ran = << >> /\ ~finalizer
          /\ startvec = Initialisers /\ finivec = Finalisers
    /\ stage = "failed" => ran = << >>
    /\ stage = "init" =>
          /\ ~finalizer /\ startvec # << >> /\ Initialisers # << >>
          /\ ran \o startvec = Append(Initialisers, prog.entry) /\ finivec = Finalisers
    /\ stage = "main" =>
          /\ finalizer <=> Initialisers # << >>
          /\ ran = Append(Initialisers, prog.entry) /\ finivec = Finalisers
    /\ stage = "fini" =>
          /\ Initialisers # << >>
          /\ ran \o finivec = Append(Initialisers, prog.entry) \o Finalisers
    /\ stage = "done" => ran = Schedule

OrderInv == prog.dynamic => QueueKept /\ VectorsKept

-----------------------------------------------------------------------------
(* What references mean.                                                   *)

RunStages == {"boot", "init", "main", "fini", "done"}

\* The entries a loop over the objects' tables is through with.
Passed(loop, later, i, k) ==
    stage \in later \/ (stage = loop /\ (i < at \/ (i = at /\ k < entry)))

IsAdjusted(i) == stage # "load" /\ (stage = "adjust" => i < at)
IsResolved(i, k) == Passed("resolve", {"relocate", "copy"} \cup RunStages, i, k)
IsRelocated(i, k) == Passed("relocate", {"copy"} \cup RunStages, i, k)
IsCopied(i, k) == Passed("copy", RunStages, i, k)

\* An entry has the contents of the definition of a name.
HasDefinition(t, name, version) ==
    LET d == Definition(name, version) IN
    /\ Definitions(name, version) # {}
    /\ t.value = Address(d) /\ t.bind = Symbol(d).bind

\* A reference that has become a definition: the right one, if all agree which
\* that is.
IsBound(i, k) ==
    LET s == File(i).symbols[k]
        t == nodes[i].symbols[k]
    IN  /\ ~s.defined /\ t.defined
        /\ \E r \in References(i) : r.sym = k
        /\ Agreed(s.name) => HasDefinition(t, s.name, Version(i, s))

\* What is in the table of an object: its definitions, at their addresses, and
\* its references, as they were or bound.
EntryKept(i, k) ==
    LET s == File(i).symbols[k]
        t == nodes[i].symbols[k]
    IN  /\ t.name = s.name /\ t.version = s.version /\ t.hidden = s.hidden
        /\ s.defined => t.defined /\ t.value = Address(<<i, k>>) /\ t.bind = s.bind
        /\ ~s.defined => t = s \/ IsBound(i, k)

\* The copies an object schedules.
Copying(i) ==
    IF i = 1 THEN {}
    ELSE {CopyOf(s, nodes[i].addr) : s \in {t \in Range(File(i).symbols) : t.defined /\ Copied(t)}}

EntriesKept ==
    \A i \in Objects :
        /\ IsAdjusted(i) => /\ \A k \in 1..Len(File(i).symbols) : EntryKept(i, k)
                            /\ Range(nodes[i].copies) = Copying(i)
        /\ ~IsAdjusted(i) => nodes[i].copies = << >>

\* A relocation before the k-th of an object sets the flag.
Hides(i, k) ==
    \E j \in 1..k - 1 : LET q == File(i).relocs[j] IN q.sym # 0 /\ IsWeak(i, q.sym)

\* A resolved reference is bound if it can be, or hidden.
ReferenceKept(i, k) ==
    LET r == File(i).relocs[k] IN
    r \in References(i) =>
        /\ Definitions(Name(i, r), Asked(i, r)) # {} => nodes[i].symbols[r.sym].defined
        /\ Undefined(i, r) /\ Agreed(Name(i, r)) => Hides(i, k)

ReferencesKept ==
    /\ \A i \in Objects : \A k \in 1..Len(File(i).relocs) :
          IsResolved(i, k) => ReferenceKept(i, k)
    /\ stage = "resolve" /\ weak => Hides(at, entry)

\* A word to be relocated is as it was loaded, a relocated one as it should be.
WordKept(i, k) ==
    LET r == File(i).relocs[k]
        word == mem[r.offset + nodes[i].addr]
    IN  /\ r.type = "relative" /\ ~IsRelocated(i, k) => word = File(i).data[r.offset]
        /\ /\ r.type # "copy" /\ IsRelocated(i, k)
           /\ r \in References(i) => Agreed(Name(i, r))
           /\ Expected(i, r) % 2 = 0
           => word = Expected(i, r)

WordsKept == \A i \in Objects : \A k \in 1..Len(File(i).relocs) : WordKept(i, k)

\* A copy that nothing else is copied over is the same as what was copied.
CopyKept(i, k) ==
    LET c == nodes[i].copies[k] IN
    (\A j \in Objects : \A e \in Range(nodes[j].copies) : e.dst = c.dst => e = c) =>
        \A o \in 0..c.size - 1 : mem[c.dst + o] = mem[c.src + o]

CopiesKept ==
    \A i \in Objects : \A k \in 1..Len(nodes[i].copies) : IsCopied(i, k) => CopyKept(i, k)

BindInv ==
    /\ stage # "failed" => EntriesKept /\ ReferencesKept /\ WordsKept /\ CopiesKept
    /\ stage = "failed" => FailsForReason
=============================================================================
