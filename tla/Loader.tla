------------------------------- MODULE Loader -------------------------------
(***************************************************************************)
(* The run-time dynamic linker of src/aclib/ac_rtld: it loads the shared   *)
(* libraries a program needs, binds the references between them, patches   *)
(* the memory and has the initialisers and finalisers run around the       *)
(* program, which meanwhile maps and unmaps memory (MemMap).  All of it is *)
(* one thread: a step is one turn of a loop of the code.                   *)
(*                                                                         *)
(* A file is a record: needed (DT_NEEDED), size, data (words by offset),   *)
(* symbols, relocs, inits and finis (offsets), versions it defines and     *)
(* wants, the versions it asks of other files.  The order of the symbols   *)
(* is the one in which the hash chain visits them.  Symbols are functions  *)
(* and objects, of default visibility.                                     *)
(***************************************************************************)
EXTENDS MemMap

CONSTANTS
    Programs,       \* a set of programs: memory, entry point, files by name
    LibraryName     \* a needed name without its path

VARIABLES
    prog,           \* the program that is run
    stage,          \* which loop is running, or what the program does
    at, entry,      \* the object and the entry of its table the loop is at
    weak,           \* resolve_symbols()'s flag of that name
    nodes,          \* the link nodes, in the order of their list
    mem,            \* the words of the target's memory
    startvec, finivec,  \* the functions still to run, kept in the root node
    pc,             \* the function that runs
    finalizer,      \* whether the entry point was given ac_rtld_fini's address
    ran             \* history: the functions entered

linkVars == <<at, entry, weak>>
vectors == <<startvec, finivec>>
runVars == <<pc, finalizer, ran>>
allVars == <<vars, prog, stage, linkVars, nodes, mem, vectors, runVars>>

Root == prog.files["root"]
File(i) == nodes[i].file
Entries(table) == entry <= Len(table)

-----------------------------------------------------------------------------
(* Loading.                                                                *)

\* suggest_free_region(): behind everything, on a page.
SuggestFreeRegion ==
    LET a == Last(list).addr IN IF a % PageSize = 0 THEN a ELSE ALIGN_ADDR(a)

\* (Slip: the names are compared as they are.)
SameSoname(a, b) == a = b

\* compare_library_soname(): the path does not count.
SameLibrary(a, b) == LibraryName[a] = LibraryName[b]

IsLoaded(name) ==
    \E i \in 2..Len(nodes) : SameLibrary(name, nodes[i].soname)

\* What link_node_setup() makes of a file loaded at an address.
LinkNode(name, file, addr) ==
    [soname |-> name, file |-> file, addr |-> addr,
     symbols |-> file.symbols, copies |-> << >>]

\* new_node(): at the end of the list.
NewNode(node) == Append(nodes, node)

Addresses(offsets, addr) == [k \in 1..Len(offsets) |-> offsets[k] + addr]

\* The program interpreter's functions are not run.
Adds(vector, name, offsets, addr) ==
    IF LibraryName[name] = prog.interpreter THEN vector
    ELSE vector \o Addresses(offsets, addr)

Loaded(m, file, addr) ==
    [a \in DOMAIN m |-> IF a - addr \in DOMAIN file.data THEN file.data[a - addr] ELSE m[a]]

\* A version its needer asks of the library, by the name it uses for it, is
\* missing, and not only a weak wish.
IsOld(needer, name, file) ==
    \E w \in Range(needer.wants) :
        /\ w.file = name
        /\ \/ file.versions = << >>
           \/ w.version \notin Range(file.versions) /\ ~w.weak

Fails == stage' = "failed"

\* One DT_NEEDED entry in load_needed().
LoadNeeded ==
    /\ stage = "load" /\ Entries(File(at).needed)
    /\ entry' = entry + 1
    /\ LET name == File(at).needed[entry]
           file == prog.files[LibraryName[name]]
           addr == SuggestFreeRegion
           found == LibraryName[name] \in DOMAIN prog.files
           load == found /\ addr + file.size <= memsize
       IN
       \/ /\ IsLoaded(name)
          /\ UNCHANGED <<stage, list, nodes, mem, vectors>>
       \/ /\ ~IsLoaded(name) /\ ~load
          /\ Fails
          /\ UNCHANGED <<list, nodes, mem, vectors>>
       \/ /\ ~IsLoaded(name) /\ load
          /\ list' = AddRegion(list, addr, file.size)
          /\ nodes' = NewNode(LinkNode(name, file, addr))
          /\ mem' = Loaded(mem, file, addr)
          /\ startvec' = Adds(startvec, name, file.inits, addr)
          /\ finivec' = Adds(finivec, name, file.finis, addr)
          /\ stage' = IF IsOld(File(at), name, file) THEN "failed" ELSE stage
    /\ UNCHANGED <<memsize, brkaddr, newbrk, grants, prog, at, weak, runVars>>

\* The next object, or the next of the loops over all of them.
Advance(next) ==
    /\ entry' = 1 /\ weak' = FALSE
    /\ IF at < Len(nodes) THEN at' = at + 1 /\ UNCHANGED stage
                          ELSE at' = 1 /\ stage' = next

\* load_libraries() follows the list it extends; behind the last library
\* loadnlink_all() puts the heap.
NextObject ==
    /\ stage = "load" /\ ~Entries(File(at).needed)
    /\ Advance("adjust")
    /\ brkaddr' = IF at = Len(nodes) THEN SuggestFreeRegion ELSE brkaddr
    /\ newbrk' = IF at = Len(nodes) THEN SuggestFreeRegion ELSE newbrk
    /\ UNCHANGED <<list, memsize, grants, prog, nodes, mem, vectors, runVars>>

-----------------------------------------------------------------------------
(* Linking: link().                                                        *)

Linking == UNCHANGED <<vars, prog, vectors, runVars>>

\* find_copy_relocation(): where the program keeps its copy of an object, or 0.
CopyTarget(name) ==
    LET copying == {r \in 1..Len(Root.relocs) :
                       /\ Root.relocs[r].type = "copy"
                       /\ Root.symbols[Root.relocs[r].sym].name = name}
    IN  IF copying = {} THEN 0 ELSE Root.relocs[Min(copying)].offset

Copied(s) == s.type = "object" /\ CopyTarget(s.name) # 0

Adjusted(s, addr) ==
    IF ~s.defined THEN s
    ELSE [s EXCEPT !.value = IF Copied(s) THEN CopyTarget(s.name) ELSE @ + addr]

CopyOf(s, addr) ==
    [dst |-> CopyTarget(s.name), src |-> s.value + addr, size |-> s.size]

\* A turn of the loop over the symbols: schedule_copy() puts a copy in front of
\* those there are.
Scheduling(copies, s, addr) ==
    IF s.defined /\ Copied(s) THEN <<CopyOf(s, addr)>> \o copies ELSE copies

Scheduled(symbols, addr) ==
    LET copies[k \in 0..Len(symbols)] ==
            IF k = 0 THEN << >> ELSE Scheduling(copies[k - 1], symbols[k], addr)
    IN  copies[Len(symbols)]

\* adjust_symbols(): an object loaded at 0, the program, stays as it is.
AdjustSymbols ==
    /\ stage = "adjust"
    /\ LET node == nodes[at] IN
       nodes' = IF node.addr = 0 THEN nodes
                ELSE [nodes EXCEPT
                        ![at].symbols = [k \in 1..Len(node.symbols) |->
                                            Adjusted(node.symbols[k], node.addr)],
                        ![at].copies = Scheduled(node.symbols, node.addr)]
    /\ Advance("resolve")
    /\ Linking /\ UNCHANGED mem

NotFound == 0
Fatal == -1
NoVersion == "none"

\* lookup_version(): the version a reference asks for.
Version(i, s) ==
    LET asked == {w \in Range(File(i).wants) : w.other = s.version}
    IN  IF asked = {} THEN NoVersion ELSE (CHOOSE w \in asked : TRUE).version

\* check_symbol() on one symbol of that name: whether its version is the right
\* one.  Without a wish that is one of the first two, the base definitions.
Accepts(file, s, version) ==
    \/ file.versions = << >>
    \/ ~s.hidden /\ version = NoVersion /\ s.version \in 1..2
    \/ /\ ~s.hidden /\ version # NoVersion
       /\ s.version \in 1..Len(file.versions) /\ file.versions[s.version] = version

\* It has versions, and this symbol's is not among them: the linker gives up.
Unknown(file, s, version) ==
    /\ file.versions # << >> /\ version # NoVersion
    /\ ~s.hidden /\ s.version \notin 1..Len(file.versions)

\* lookup_symbol() in one object: the first strong definition accepted; else
\* the only one there is, in any version, if none was asked for; else the last
\* weak one.
LookupSymbol(i, name, version) ==
    LET symbols == nodes[i].symbols
        file == File(i)
        named == {k \in 1..Len(symbols) : /\ symbols[k].name = name
                                          /\ symbols[k].defined /\ symbols[k].value # 0}
        accepted == {k \in named : Accepts(file, symbols[k], version)}
        strong == {k \in accepted : symbols[k].bind = "strong"}
        visited == {k \in named : strong # {} => k <= Min(strong)}
        aside == IF version = NoVersion THEN named \ accepted ELSE {}
    IN  IF \E k \in visited : Unknown(file, symbols[k], version) THEN Fatal
        ELSE IF strong # {} THEN Min(strong)
        ELSE IF aside # {} /\ Min(aside) = Max(named) THEN Min(aside)
        ELSE IF accepted # {} THEN Max(accepted)
        ELSE NotFound

\* (Slip: the first definition is taken, be it weak.)
FindFirst(name, version) ==
    LET result == [i \in 1..Len(nodes) |-> LookupSymbol(i, name, version)]
        hits == {i \in 1..Len(nodes) : result[i] # NotFound}
    IN  IF hits = {} THEN <<0, NotFound>> ELSE <<Min(hits), result[Min(hits)]>>

\* find_symbol(): the first strong definition in the order of the list, else the
\* first weak one.
FindSymbol(name, version) ==
    LET result == [i \in 1..Len(nodes) |-> LookupSymbol(i, name, version)]
        hits == {i \in 1..Len(nodes) : result[i] # NotFound}
        stops == {i \in hits : \/ result[i] = Fatal
                               \/ nodes[i].symbols[result[i]].bind = "strong"}
        i == IF stops # {} THEN Min(stops) ELSE Min(hits)
    IN  IF hits = {} THEN <<0, NotFound>> ELSE <<i, result[i]>>

\* What resolve_symbols() writes over a reference: from then on its object has
\* a definition.
Bound(s, d) ==
    [s EXCEPT !.value = d.value, !.size = d.size, !.bind = d.bind,
              !.type = d.type, !.defined = TRUE]

\* One relocation in resolve_symbols().  The flag that lets a missing symbol
\* pass is never taken back within an object.
ResolveSymbol ==
    /\ stage = "resolve" /\ Entries(File(at).relocs)
    /\ LET sym == File(at).relocs[entry].sym IN
       IF sym = 0 THEN UNCHANGED <<stage, weak, nodes>>
       ELSE LET s == nodes[at].symbols[sym]
                found == FindSymbol(s.name, Version(at, s))
            IN
            /\ weak' = (weak \/ s.bind = "weak")
            /\ \/ s.defined /\ UNCHANGED <<stage, nodes>>
               \/ /\ ~s.defined /\ found[2] > 0
                  /\ nodes' = [nodes EXCEPT ![at].symbols[sym] =
                                  Bound(s, nodes[found[1]].symbols[found[2]])]
                  /\ UNCHANGED stage
               \/ /\ ~s.defined /\ found[2] = NotFound /\ weak'
                  /\ UNCHANGED <<stage, nodes>>
               \/ /\ ~s.defined
                  /\ found[2] = Fatal \/ (found[2] = NotFound /\ ~weak')
                  /\ Fails /\ UNCHANGED nodes
    /\ entry' = entry + 1
    /\ Linking /\ UNCHANGED <<at, mem>>

ResolveNext ==
    /\ stage = "resolve" /\ ~Entries(File(at).relocs)
    /\ Advance("relocate")
    /\ Linking /\ UNCHANGED <<nodes, mem>>

\* patch_code(): its mask is shifted once too often, the lowest bit is lost.
Patch(m, a, data) == [m EXCEPT ![a] = (data % Word) - (data % 2)]

\* One relocation in apply_relocations().
ApplyRelocation ==
    /\ stage = "relocate" /\ Entries(File(at).relocs)
    /\ LET r == File(at).relocs[entry]
           location == r.offset + nodes[at].addr
           target == IF r.sym = 0 THEN 0 ELSE nodes[at].symbols[r.sym].value
       IN  mem' = CASE r.type = "copy" -> mem
                    [] r.type = "relative" -> Patch(mem, location, mem[location] + nodes[at].addr)
                    [] r.type = "abs" -> Patch(mem, location, target + r.addend)
                    [] r.type = "rel" -> Patch(mem, location, target + r.addend - location)
    /\ entry' = entry + 1
    /\ Linking /\ UNCHANGED <<stage, at, weak, nodes>>

RelocateNext ==
    /\ stage = "relocate" /\ ~Entries(File(at).relocs)
    /\ Advance("copy")
    /\ Linking /\ UNCHANGED <<nodes, mem>>

\* One scheduled copy in apply_pending_copies().
ApplyPendingCopy ==
    /\ stage = "copy" /\ Entries(nodes[at].copies)
    /\ LET c == nodes[at].copies[entry] IN
       mem' = [a \in DOMAIN mem |->
                  IF a - c.dst \in 0..c.size - 1 THEN mem[a - c.dst + c.src] ELSE mem[a]]
    /\ entry' = entry + 1
    /\ Linking /\ UNCHANGED <<stage, at, weak, nodes>>

CopyNext ==
    /\ stage = "copy" /\ ~Entries(nodes[at].copies)
    /\ Advance("boot")
    /\ Linking /\ UNCHANGED <<nodes, mem>>

-----------------------------------------------------------------------------
(* Running.                                                                *)

Running == UNCHANGED <<prog, linkVars, nodes, mem>>

Enters(f) == pc' = f /\ ran' = Append(ran, f)

\* The end of loadnlink_all(): the first function runs first, the entry point
\* takes its turn behind the others.
Boot ==
    /\ stage = "boot"
    /\ IF startvec = << >> THEN Enters(prog.entry) /\ UNCHANGED startvec
       ELSE /\ Enters(Head(startvec))
            /\ startvec' = Append(Tail(startvec), prog.entry)
    /\ stage' = IF startvec = << >> THEN "main" ELSE "init"
    /\ Running /\ UNCHANGED <<vars, finivec, finalizer>>

\* (Slip: the copy loop is left out, only the count goes down.)
RestButLast(vector) == Front(vector)

\* A vector without its first function.
Rest(vector) == Tail(vector)

\* ac_rtld_init(): where an initialiser returns to.
RtldInit ==
    /\ stage = "init" /\ startvec # << >>
    /\ Enters(Head(startvec))
    /\ startvec' = Rest(startvec)
    /\ finalizer' = (Len(startvec) = 1)
    /\ stage' = IF Len(startvec) = 1 THEN "main" ELSE stage
    /\ Running /\ UNCHANGED <<vars, finivec>>

\* ac_rtld_fini(): called by the program when it exits, and where a finaliser
\* returns to.
RtldFini ==
    /\ stage = "fini" \/ (stage = "main" /\ finalizer)
    /\ IF finivec # << >>
       THEN Enters(Head(finivec)) /\ finivec' = Rest(finivec) /\ stage' = "fini"
       ELSE stage' = "done" /\ UNCHANGED <<pc, ran, finivec>>
    /\ Running /\ UNCHANGED <<vars, startvec, finalizer>>

\* A program that was not given ac_rtld_fini just ends.
Exit ==
    /\ stage = "main" /\ ~finalizer
    /\ stage' = "done"
    /\ Running /\ UNCHANGED <<vars, vectors, runVars>>

\* The system calls of MemMap, by the program.
SystemCall ==
    /\ stage = "main"
    /\ Next
    /\ Running /\ UNCHANGED <<stage, vectors, runVars>>

LoaderInit ==
    /\ prog \in Programs
    /\ list = Initiated(prog.entry, prog.end)
    /\ memsize = prog.memsize
    /\ brkaddr = prog.end /\ newbrk = prog.end
    /\ grants = << >>
    /\ stage = IF prog.dynamic THEN "load" ELSE "main"
    /\ at = 1 /\ entry = 1 /\ weak = FALSE
    /\ nodes = IF prog.dynamic THEN <<LinkNode("root", Root, 0)>> ELSE << >>
    /\ mem = Loaded([a \in 0..prog.memsize - 1 |-> 0], Root, 0)
    /\ startvec = IF prog.dynamic THEN Root.inits ELSE << >>
    /\ finivec = IF prog.dynamic THEN Root.finis ELSE << >>
    /\ pc = IF prog.dynamic THEN 0 ELSE prog.entry
    /\ finalizer = FALSE
    /\ ran = IF prog.dynamic THEN << >> ELSE <<prog.entry>>

LoaderNext ==
    \/ LoadNeeded \/ NextObject
    \/ AdjustSymbols
    \/ ResolveSymbol \/ ResolveNext
    \/ ApplyRelocation \/ RelocateNext
    \/ ApplyPendingCopy \/ CopyNext
    \/ Boot \/ RtldInit \/ SystemCall \/ RtldFini \/ Exit

LoaderSpec == LoaderInit /\ [][LoaderNext]_allVars

-----------------------------------------------------------------------------
(* Properties.                                                             *)

\* What the theorems need: programs that fit in their memory, which is a number
\* of pages; libraries are not empty.
ProgramsFit ==
    \A p \in Programs :
        /\ p.memsize \in 1..Word - 1 /\ p.memsize % PageSize = 0
        /\ p.memsize + PageSize < Word /\ SumsFit(p.memsize)
        /\ p.entry \in Nat /\ p.end \in Nat \ {0} /\ p.entry + p.end <= p.memsize
        /\ \A name \in DOMAIN p.files : p.files[name].size \in Nat \ {0}

Symbols == [name : STRING, value : Nat, size : Nat, bind : {"strong", "weak"},
            type : {"func", "object"}, defined : BOOLEAN, version : Nat, hidden : BOOLEAN]
Relocs == [type : {"copy", "relative", "abs", "rel"}, sym : Nat, offset : Nat, addend : Int]

\* Tables that are well-formed: what an object defines lies in it, what it
\* relocates is one of its symbols.
WellFormed(file) ==
    /\ file.needed \in Seq(STRING)
    /\ \A o \in DOMAIN file.data : file.data[o] \in Addr
    /\ file.symbols \in Seq(Symbols) /\ file.relocs \in Seq(Relocs)
    /\ file.inits \in Seq(Nat) /\ file.finis \in Seq(Nat)
    /\ \A k \in 1..Len(file.symbols) :
          file.symbols[k].defined => file.symbols[k].value + file.symbols[k].size <= file.size
    /\ \A k \in 1..Len(file.relocs) : file.relocs[k].sym <= Len(file.symbols)

\* Words have an even number of values.
FilesFit ==
    /\ Word % 2 = 0
    /\ \A p \in Programs :
        /\ p.dynamic \in BOOLEAN /\ "root" \in DOMAIN p.files /\ DOMAIN p.files \subseteq STRING
        /\ \A name \in DOMAIN p.files : WellFormed(p.files[name])

\* A definition that a lookup without a version takes.
IsBase(s) == ~s.hidden /\ s.version \in 1..2

\* Symbols as a static linker writes them: what is defined has an address, and no
\* name is defined twice, but in versions of which one is the base, the last
\* if it is weak; a file does not refer to what it defines.
Unambiguous(file) ==
    /\ \A v, w \in 1..Len(file.versions) : file.versions[v] = file.versions[w] => v = w
    /\ \A k \in 1..Len(file.symbols) :
        LET s == file.symbols[k] IN
        s.defined =>
            /\ s.value # 0
            /\ file.versions # << >> => s.version \in 1..Len(file.versions)
            /\ \A j \in 1..Len(file.symbols) \ {k} :
                LET other == file.symbols[j] IN
                other.name = s.name =>
                    /\ other.defined /\ file.versions # << >>
                    /\ other.version # s.version /\ ~(IsBase(other) /\ IsBase(s))
                    /\ IsBase(s) /\ s.bind = "weak" => j < k

\* The words of its object that a relocation of a file fills.
Fills(p, file, r) ==
    IF r.type # "copy" THEN {r.offset}
    ELSE UNION {r.offset..r.offset + s.size - 1 :
                   s \in {t \in UNION {Range(p.files[f].symbols) : f \in DOMAIN p.files} :
                             /\ t.defined /\ t.type = "object"
                             /\ t.name = file.symbols[r.sym].name}}

\* Relocations as it writes them: each fills words of its own, inside the object,
\* and one that adds to a word adds to one of the file.
Separate(p, file) ==
    /\ DOMAIN file.data \subseteq 0..file.size - 1
    /\ \A k \in 1..Len(file.relocs) :
        LET r == file.relocs[k] IN
        /\ Fills(p, file, r) \subseteq 0..file.size - 1
        /\ r.type = "relative" => r.offset \in DOMAIN file.data
        /\ r.type = "copy" => r.sym # 0 /\ r.offset # 0
        /\ \A j \in 1..Len(file.relocs) \ {k} :
            LET other == file.relocs[j] IN
            /\ Fills(p, file, r) \cap Fills(p, file, other) = {}
            /\ r.type = "copy" /\ other.type = "copy" =>
                  /\ r.offset # other.offset
                  /\ file.symbols[r.sym].name # file.symbols[other.sym].name

\* What the theorem about references needs of the files.
TablesFit ==
    \A p \in Programs :
        p.dynamic =>
            /\ p.files["root"].size <= p.end
            /\ \A name \in DOMAIN p.files :
                  Unambiguous(p.files[name]) /\ Separate(p, p.files[name])

Objects == 1..Len(nodes)
Linked == prog.dynamic /\ stage \in {"boot", "init", "main", "fini", "done"}

\* The state has its type; the objects lie one behind the other on pages of
\* their own, inside the memory and, once loaded, below the heap; none is
\* loaded twice, under whatever path it is asked for.
LoaderTypeOK ==
    /\ stage \in {"load", "adjust", "resolve", "relocate", "copy", "boot",
                  "init", "main", "fini", "done", "failed"}
    /\ at \in 1..Max({1, Len(nodes)}) /\ entry \in Nat \ {0} /\ weak \in BOOLEAN
    /\ mem \in [0..memsize - 1 -> Addr]
    /\ \A i \in 2..Len(nodes) :
        /\ nodes[i].addr % PageSize = 0
        /\ nodes[i].addr >= IF i = 2 THEN prog.end ELSE nodes[i - 1].addr + File(i - 1).size
        /\ nodes[i].addr + File(i).size <= memsize
        /\ Linked => nodes[i].addr + File(i).size <= brkaddr
        /\ \A j \in 2..i - 1 : LibraryName[nodes[i].soname] # LibraryName[nodes[j].soname]

(* What a reference means, by the files alone: no object's table has been   *)
(* written to.                                                              *)

Matches(i, k, version) ==
    LET s == File(i).symbols[k]
        others == {j \in 1..Len(File(i).symbols) \ {k} :
                      File(i).symbols[j].defined /\ File(i).symbols[j].name = s.name}
    IN  \/ File(i).versions = << >>
        \/ /\ version # NoVersion /\ ~s.hidden
           /\ File(i).versions[s.version] = version
        \/ version = NoVersion /\ ((s.version \in 1..2 /\ ~s.hidden) \/ others = {})

Definitions(name, version) ==
    {d \in UNION {{<<i, k>> : k \in 1..Len(File(i).symbols)} : i \in Objects} :
        LET s == File(d[1]).symbols[d[2]] IN
        s.defined /\ s.value # 0 /\ s.name = name /\ Matches(d[1], d[2], version)}

Symbol(d) == File(d[1]).symbols[d[2]]

\* The first strong definition in the order the objects were loaded, else the
\* first weak one.
Definition(name, version) ==
    LET all == Definitions(name, version)
        strong == {d \in all : Symbol(d).bind = "strong"}
        best == IF strong # {} THEN strong ELSE all
    IN  CHOOSE d \in best : \A e \in best : d[1] <= e[1]

Address(d) ==
    IF d[1] = 1 THEN Symbol(d).value
    ELSE IF Copied(Symbol(d)) THEN CopyTarget(Symbol(d).name)
    ELSE Symbol(d).value + nodes[d[1]].addr

References(i) ==
    {r \in Range(File(i).relocs) : r.sym # 0 /\ ~File(i).symbols[r.sym].defined}

Name(i, r) == File(i).symbols[r.sym].name
Asked(i, r) == Version(i, File(i).symbols[r.sym])

\* All objects ask for the same version of this name.  (If they do not, the
\* first reference that is resolved answers for all.)
Agreed(name) ==
    \A i, j \in Objects : \A r \in References(i), q \in References(j) :
        Name(i, r) = name /\ Name(j, q) = name => Asked(i, r) = Asked(j, q)

Meant(i, r) ==
    LET s == File(i).symbols[r.sym] IN
    IF r.sym = 0 THEN 0
    ELSE IF s.defined THEN Address(<<i, r.sym>>)
    ELSE IF Definitions(s.name, Asked(i, r)) = {} THEN s.value
    ELSE Address(Definition(s.name, Asked(i, r)))

\* The word a relocation leaves.
Expected(i, r) ==
    CASE r.type = "relative" -> (File(i).data[r.offset] + nodes[i].addr) % Word
      [] r.type = "abs" -> (Meant(i, r) + r.addend) % Word
      [] r.type = "rel" -> (Meant(i, r) + r.addend - r.offset - nodes[i].addr) % Word

\* patch_code() loses the lowest bit of an odd one.
WordsBound ==
    \A i \in Objects : \A r \in Range(File(i).relocs) :
        /\ r.type # "copy"
        /\ r \in References(i) => Agreed(Name(i, r))
        /\ Expected(i, r) % 2 = 0
        => mem[r.offset + nodes[i].addr] = Expected(i, r)

\* If two libraries define the object, the last one's data stays.
CopiesHold ==
    \A r \in Range(Root.relocs) :
        LET sources == {d \in UNION {{<<i, k>> : k \in 1..Len(File(i).symbols)} :
                                        i \in 2..Len(nodes)} :
                           /\ Symbol(d).defined /\ Symbol(d).type = "object"
                           /\ Symbol(d).name = Name(1, r)}
        IN  r.type = "copy" /\ (\A d, e \in sources : d = e) =>
                \A d \in sources : \A o \in 0..Symbol(d).size - 1 :
                    mem[r.offset + o] = mem[Symbol(d).value + nodes[d[1]].addr + o]

\* A strong reference nobody defines.
Undefined(i, r) ==
    /\ r \in References(i) /\ File(i).symbols[r.sym].bind = "strong"
    /\ Definitions(Name(i, r), Asked(i, r)) = {}

\* A symbol that is weak, or has become so with a weak definition.
IsWeak(i, k) == File(i).symbols[k].bind = "weak" \/ nodes[i].symbols[k].bind = "weak"

\* A weak relocation before it in the same object hides it, because
\* resolve_symbols() keeps its flag; so does another version.
StrongDefined ==
    \A i \in Objects : \A k \in 1..Len(File(i).relocs) :
        LET r == File(i).relocs[k] IN
        /\ r \in References(i) /\ Agreed(Name(i, r))
        /\ \A j \in 1..k - 1 : LET q == File(i).relocs[j] IN q.sym # 0 => ~IsWeak(i, q.sym)
        => ~Undefined(i, r)

\* A library with versions has a reference under an index that is none of them: a
\* lookup that meets it gives up (see Unknown).
Forwards ==
    \E i \in Objects :
        /\ File(i).versions # << >>
        /\ \E r \in References(i) :
              File(i).symbols[r.sym].version \notin 1..Len(File(i).versions)

FailsForReason ==
    \/ \E name \in Range(File(at).needed) :
        LET file == prog.files[LibraryName[name]] IN
        IF LibraryName[name] \notin DOMAIN prog.files THEN TRUE
        ELSE IF IsLoaded(name) THEN IsOld(File(at), name, file)
        ELSE SuggestFreeRegion + file.size > memsize
    \/ \E r \in References(at) : Undefined(at, r)
    \/ Forwards

\* When the linker is done every relocated word holds what its reference means,
\* although the lookups went through tables in which earlier references had
\* already become definitions; the program's copy of an object holds the
\* library's relocated data; no strong symbol is missing.  And it gives a
\* program up only if a library is missing, too old or too large, or a strong
\* symbol is.
ReferencesBound ==
    /\ Linked => WordsBound /\ CopiesHold /\ StrongDefined
    /\ stage = "failed" => FailsForReason

\* Each library follows an object that needs it, and libraries are in the order
\* of the first such objects: breadth first.
NeededBy(i) ==
    Min({j \in Objects : \E k \in 1..Len(File(j).needed) :
                            LibraryName[File(j).needed[k]] = LibraryName[nodes[i].soname]})

BreadthFirst ==
    /\ \A i \in 2..Len(nodes) : NeededBy(i) < i
    /\ \A i, j \in 2..Len(nodes) : i < j => NeededBy(i) <= NeededBy(j)

Functions(i, offsets) ==
    IF i > 1 /\ LibraryName[nodes[i].soname] = prog.interpreter THEN << >>
    ELSE Addresses(offsets, nodes[i].addr)

Initialisers == FlattenSeq([i \in Objects |-> Functions(i, File(i).inits)])
Finalisers == FlattenSeq([i \in Objects |-> Functions(i, File(i).finis)])

\* Everything that is to run in a dynamic program.  The entry point learns of
\* ac_rtld_fini from ac_rtld_init only: without initialisers no finaliser runs.
Schedule ==
    IF Initialisers = << >> THEN <<prog.entry>>
    ELSE Initialisers \o <<prog.entry>> \o Finalisers

\* Objects are loaded breadth first, and the vectors, taken apart from the front
\* by two system calls that may be called at any time, run every initialiser
\* once, in the order of loading, then the program, then every finaliser once.
FunctionsInOrder ==
    prog.dynamic =>
        /\ BreadthFirst
        /\ IsPrefix(ran, Schedule)
        /\ stage = "main" => Last(ran) = prog.entry
        /\ stage = "done" => ran = Schedule
=============================================================================
