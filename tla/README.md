# ArchC in TLA+

ArchC turns an architecture description into a SystemC instruction-set
simulator. This directory holds TLA+ models of the parts of that simulator whose
correctness depends on sequences of calls and on interleavings, the TLC runs that
check them on small instances, and TLAPS proofs of the properties that matter
most, for every value of the constants.

Paths below are relative to `src/src/` (the repository's `src/` directory).

## 1. Inventory

ArchC is two programs in one tree: *generators* that read a description and print
C++ (`acpp`, `acsim`, `accsim`, `actsim`, `acbinutils`), and a *run-time library*
(`aclib`) that the printed code is linked with. A simulator is the library plus the
instruction loop `acsim.c` prints (`EmitInstrExec`, `EmitFetchInit`,
`EmitProcessorBhv`). All behaviour over time is in that pair, and so is this
project.

| Component | State | Operations | Interacts with |
|---|---|---|---|
| Breakpoint table (`ac_gdb/breakpoints.*`) | ascending array, `quant` | add, remove, exists | called by the GDB stub |
| GDB stub (`ac_gdb/ac_gdb.H`) | `first_time`, `step`, table, socket | stop, process_bp, packet layer, commands | called by the loop; blocks on the debugger |
| Target memory map (`ac_rtld/memmap.*`) | node list, `newbrkaddr` | mmap, munmap, brk, add_region | called by the emulated system calls and the loader |
| Cache (`ac_storage/ac_cache*.H`, policies) | lines, replacement state | read, write of words and parts | between the processor's data port and the memory |
| Memory port (`ac_storage/ac_memport.H`) | queue of delayed writes | read, write, commit_delays | processor; storage or TLM port |
| TLM ports (`ac_tlm/*`) | payload in flight, `wake_up` event | transport, b_transport, nb_transport, lock | processor thread, memory and bus |
| Simulation control (`ac_core/ac_module.cpp`, printed loop) | `running_mods`, batch counters, stop flags | set_running, set_stopped | all processors; `sc_stop` |
| Pipeline (`ac_core/ac_stage.H`, `ac_storage/ac_sync_reg.H`) | stage registers, `en`, stall flags | update, stall, flush, suspend | stages of one processor |
| System calls (`ac_syscall/ac_syscall.H`) | heap pointer, host files | open ... sbrk, init/fini | memory map, host |
| Dynamic linker (`ac_rtld/*`) | link-node list, symbol tables, versions, vectors of initialisers and finalisers | load, adjust, resolve, relocate, copy | memory, memory map, system calls |
| Decoder (`ac_decoder/*`) | decision tree, static array of results | create, decode | generator (checks for conflicts), the loop |
| Generators, parser, tools | lists of declarations | print text | - |

Which behaviours are hard, and what makes each component correct:

* **Breakpoint table**: order is established by swaps and relied on by an early
  exit. Correct: it is a bag of addresses; an address in it is always found.
* **GDB stub**: three flags decide whether the target stops, and commands served
  during one stop decide about the next. Two parties each block on reads, packets
  are damaged and sent again. Correct: no breakpoint is run through, none is
  invented, a step is one instruction, a command takes effect once, every command
  is answered.
* **Memory map**: the list is repaired in two passes after every change and searched
  by address. Correct: live mappings are disjoint, below the end of memory, above
  the break, and stay allocated until unmapped.
* **Cache**: victims are written back at a rebuilt address, dirty flags set after
  the store. Correct: the processor cannot tell the cache from the memory.
* **Ports and simulation control**: processors are cooperative threads that give up
  control inside a memory access and at the end of a batch; a byte store is two
  transport calls; all stop through one static counter. Correct: the processors
  share one memory in which each access takes effect at once, none starves, and the
  simulation ends with the last stop and not before.
* **Pipeline**: stages run in one cycle and their registers change at its end; a
  stall, a flush and the suspension of the program counter meet in the same cycle.
  Correct: what leaves the pipeline is the program, in order, nothing lost or twice.
* **Delayed writes**: commit in order of time; reads see what has been committed.
* **Linker**: objects are appended to the list that is being walked, references
  become definitions in tables that later lookups search, versions and weak symbols
  cut across, two system calls take vectors apart from the front. Correct: no object
  overlaps another or is loaded twice, every relocated word means the first strong
  definition in load order, initialisers and finalisers run once, in order.
* **Decoder**: a tree merged from decode lists, searched with a cached field, a stack
  of positions and a static array. Correct: it finds what a linear search finds, with
  operands of this word, and the generator refuses exactly the declarations in which an
  earlier list begins a later one, which the simulator would mix up.

`PROJECT.json` lists the hazards at their lines.

## 2. Plan

In order of importance. *done* means modelled, checked and, where named, proved.

1. `BreakpointTable`, `Breakpoints`, `BreakpointBag`; proofs of order, of `exists()`
   and of the refinement of the bag - *done*.
2. `GdbStub`, which uses the table's operators; proofs of all its safety properties -
   *done*.
3. `MemMap`, and `Loader` on top of it; proofs of all safety properties of the map, alone
   and under the loader, of the layout of the objects, of the order of their functions and of
   what their references mean - *done*.
4. `Cache`, `FlatMemory`; proofs of the refinement and of the policies - *done*.
5. `Platform`, `SharedMemory`: processors, batches, the three ports and
   `running_mods`; proofs of the counter and of the refinement - *done*.
6. `Decoder`: the builder and the search; proofs that conflicts are reported, that
   the search finds the instruction, that the cached field is current and that the operands
   are - *done*.
7. `Pipeline`, `Sequential`; proof of the refinement - *done* for one pipeline.
8. Open: delayed writes (`ac_memport`), `sbrk`, the stub's life cycle.

## 3. Modules

### BreakpointTable, Breakpoints, BreakpointBag, MCBreakpoints

`SortedArray` holds what the methods do to the array, as operators without constants, and
`BreakpointTable` adds the capacity; the stub calls them too. In `Breakpoints`, `bp` is the used prefix of the C++ array, so
`Len(bp)` is `quant`; `reply` is what the last call returned. `Insert` states what the swap loop of `add()` leaves:
`Carried(s, a, i)` is the local `address` after `i` comparisons, entry `i` keeps the
smaller value. `DropFirst` is the copy loop of `remove()`. `Finds` is the search of
`exists()` with its early exit. Every method refuses when `quant >= quantMax`.
`BreakpointBag` is what the caller may rely on: a bag (`count`) of bounded size (`size`)
which, full, refuses everything.

| Run | Bound | Shows |
|---|---|---|
| `breakpoints` | 4 addresses, 4 entries; every sequence of calls, duplicates included | type, order, `exists()` is membership, refinement of the bag |
| `breakpoints_full` | the same | against the comment of `exists()`: a full table denies its entries |

Four entries are enough for an insertion at the front, in the middle and at the
end, and for duplicates beside a different entry; the code has no other case.

### GdbStub, MCGdbStub

One processor, the stub and a debugger. The variable `stage` is the position in
the printed loop: `fetch` (decode or run off the memory), `check` (the hook before
an instruction), `stub` (inside `process_bp()`), `exec` (`ac_pc = decode_pc` and the
behaviour). `mode` is what `process_bp()` is blocked on: the `+` of
`comm_putpacket()` or the next packet of `comm_getpacket()`. The stub runs on the
simulator's one thread, so while it waits no instruction runs; the debugger is the
only other actor.

`Check`, `ReadAck` and `GetPacket` are one blocking read each and the code up to the
next one, the whole command included. `BreakInsert`, `BreakRemove`, `Resume` and
`Serve` are the handlers; `?`, `g`, `G`, `m` and `M` are one `query`, since they change
neither the table nor the flow. The debugger (external) follows the protocol: one
command at a time, `+` or `-` for what it receives, the packet again after `-`. The
connection is TCP: in order, nothing lost. A packet may arrive damaged, up to
`MaxDamage` times.

Left out: `exit()` notifying the debugger, turning the stub on and off at run time,
packets longer than the buffer, end of file on the socket, a packet whose damage
the checksum does not notice.

| Run | Bound | Shows |
|---|---|---|
| `gdb` | 3 instructions with a loop and an exit, 2 table entries, 4 commands, 1 damaged packet, 1 Control-C | no missed and no spurious stop, single step, replies match, debugger and table agree, every command answered |
| `gdb_resume_addr` | the same | against the command table: `c` with an address does not continue at that address |

Four commands allow two settings of breakpoints, a resumption and a command after
the next stop; a flag left over from one stop shows at the next. The bounds on
damage and Control-C bound counters of the environment; nothing in the stub counts
them. `NoMissedBreakpoint`, `ReplyMatches`, `ViewAgrees` and `CommandAnswered` are stated
for executions without Control-C: nothing reads the socket while instructions run,
so `comm_putpacket()` takes the 0x03 for a refusal of its next report and sends it
twice. They also exclude a full table, which is the finding of `breakpoints_full`.

Fairness is `WF(Simulator)` and `WF(GdbReads)`: the simulator is one thread that runs
whenever it is not blocked in `read()`, and a debugger reads its socket. Nothing
obliges the debugger to send a command or to interrupt. Deadlock is not checked:
the program may end, and a debugger may stop sending.

### MemMap, MCMemMap

`list` is the linked list of nodes, `newbrk` is `newbrkaddr`; `grants` is a history
variable, the mappings returned and not yet unmapped. `Mmap`, `Munmap` and `Brk` are
the successful calls (a failing call changes nothing). `FixConsistency` is both loops,
each a recursive function over the list whose turn is an operator of its own (`Replacing`,
`Merging`); `Available` and `NextAddr` are the two results of
`verify_region_availability()`; `SuggestMmapRegion` is the search with its one restart, recursive in the address and in
whether it has restarted. One `munmap` ends one mapping at most, the oldest at its address.
Addresses are unsigned words modulo `Word`, so sums wrap as they do in the code.
`Initiated` is the list after `initiate()`, which gets the entry point of the program
as start and the *end* of its last segment as size, because that is what
`ac_load_elf()` passes.

| Run | Bound | Shows |
|---|---|---|
| `memmap_wrap` | 7 pages of 2 units, words of 32, a size of `Word - 2` | a mapping larger than the memory is granted |
| `memmap_hole` | the same, hints aligned, unaligned, 0 and past the end, sizes 0..3 | `munmap` answers yes and a used node stays |

What the map promises is checked in the run `memmap`, together with the loader that
fills it first.

### Loader, MCLoader

`EXTENDS MemMap`: the dynamic linker from `loadnlink_all()` to the end of the program.
It is one thread, so a step is one turn of one loop of the code, and `stage`, `at` and
`entry` say which loop, which object and which entry of its table. `LoadNeeded` is
one `DT_NEEDED` entry, with the search for a free region, the copy into memory and the
check of versions; `NextObject` moves to the next object of the growing list and, at
the end, sets the break. `AdjustSymbols`, `ResolveSymbol`, `ApplyRelocation` and
`ApplyPendingCopy` are the four loops of `link()`. A file is a record of its tables; a
version is its name, a symbol table is a sequence in the order of the hash chain.
`mem` holds words, so that the relocated values can be looked at. `Scheduled` goes through the
symbols in their order and puts each copy in front, as `schedule_copy()` does.

Then the program runs. `Boot` is the rotation at the end of `loadnlink_all()`, after
which the first initialiser runs and the entry point waits behind the others;
`RtldInit` and `RtldFini` are the two system calls that take the vectors apart;
`SystemCall` is `mmap`, `munmap` and `brk` of the program. External: the start-up code of
the processor model makes the first initialiser return to the address of
`ac_rtld_init`. Initialisers make no calls of their own.

| Run | Bound | Shows |
|---|---|---|
| `memmap` | 11 programs with up to 3 libraries, memories of 5 to 9 pages of 4 units; system calls with 8 addresses and 4 sizes | mappings disjoint, backed, list canonical; layout of the objects; every reference bound to what it means; functions run in order |

The programs have, between them: no library at all; a cycle, a diamond and one
library under two paths; weak definitions before and behind strong ones; a copied
object holding a relocated pointer; the interpreter as a library; two versions of a
name, hidden symbols, a weak wish for a version; a missing library, one too large, one
too old; a missing strong symbol, alone, behind a weak reference and behind one bound to a
weak definition. `ReferencesBound` computes what a reference means
from the files alone and compares it with the memory. It names four conditions under which
the code does not do that, each of which the property fails without:

* two objects ask for different versions of one name (`Agreed`): the first one
  resolved becomes a definition without a version and answers for all;
* a library with version definitions has a reference under an index that is none of them
  (`Forwards`): a lookup that meets it when resolved finds no definition of its index and
  exits with "fatal error";
* a reference that is weak, or bound to a weak definition, comes before a missing strong one
  in the same object: the flag is never reset and the symbol is passed over;
* the word is odd: `patch_code()` builds its mask with one shift too many and
  clears bit 0.

If two libraries define an object that the program copies, the data of the last one stays, and
the property says nothing of it.

The program may end or be given up, so deadlock is not checked.

Left out: symbols other than functions and objects, local and non-default ones, the
translation table of relocation codes, byte order, 8 and 16 bit relocations (which pass
8 and 16 as a number of *bytes*), the patch of `_rtld_global`, a library with relocations
for its PLT only (`reladdr` then is the load address, since the test for 0 comes after the
addition). `ac_rtld_fini` keeps its return address in a static variable, so that two
processors running dynamic programs would share it; the model has one.

### Cache, FlatMemory, MCCache

`cache[s][i]` is line `i` of set `s`; `lru`, `mru` and `fifo` are the state of the
policies, of which the chosen one is used; `mem` is the memory behind the cache and
`recent` a history variable. `policy` and `mode` are template parameters of the C++
classes, chosen in `Init`. A call runs to its end without giving up control, so
`Read`, `Write` and `WritePart` are one step each: lookup, choice of a victim,
write-back of a dirty one, fill, access, policy update. Byte and half-word writes
are a read and a write of the same word; `Merge` abstracts how the part is put in.
`FlatMemory` is the promise: a read returns the last value written.

| Run | Bound | Shows |
|---|---|---|
| `cache` | 2 sets of 2 lines of 2 words, 6 blocks, 4 policies, both modes | no aliases, clean lines equal memory, LRU and PLRUM state, refinement of `FlatMemory` |

Three blocks per set are one more than its lines, so every set evicts, and two words
per block show that a write-back carries the words not written. The run starts from
a memory of zeros and uses some of the words; the theorems need neither bound.

Left out: hit and eviction counters, the access trace, a second cache level (which
`ac_cache_if` does not connect).

### Pipeline, Sequential, MCPipeline

`reg[1]` is `ac_pc` and `reg[s]` the `ac_sync_reg` in front of stage `s`, with what it
shows (`data`), what was written (`new`), `en` and whether an update was requested;
`ctrl[s]` is the stage's `ac_stage_control`. `Fetch` and `Execute(s)` are the printed
behaviours of the first and of the later stages, `Verify` is `ac_verify()`, woken by
the `done` events, and `Update` the update phase that ends the cycle. An instruction
is its address. What it does in a stage is the user's code, and external: it advances
`ac_pc` in the first stage, a branch in `BranchStage` redirects it and flushes the
stages in front, and the instructions of `MayStall[s]` may stall the stage behind them.
A system call waits in the first stage until `flushes_left` nops have gone out.
`Sequential` is the promise: instructions complete one at a time, each followed by its
successor. `completed` is a history variable; its `turn` makes two completions of one
instruction two steps, so an instruction that leaves twice is seen.

| Run | Bound | Shows |
|---|---|---|
| `pipeline` | 5 stages, 4 programs of 12 instructions, every one but a branch may stall in 3 stages, no two cycles in a row | refinement of `Sequential`, flushed stages pass nothing on, stalled ones hold, progress |
| `pipeline_order` | the same, behaviours of a cycle in any order | the comment of `ac_stage.H` on flushing holds only for some orders |

Five stages have one in front of the branch besides the fetch and two behind it, so a
branch meets a stall from behind, from itself held, and with two registers flushed.
The programs branch over instructions fetched for nothing, loop, fall into and
branch to a system call, and run off the memory. `pipeline` runs the behaviours of a
cycle from the first stage to the last (`InOrder`), which SystemC does not promise;
`pipeline_order` shows why it matters. Programs also respect what the code leaves to
its user, as three conditions on the constants, without which the refinement is false:

* `BranchesBeforeStalls`: no instruction stalls a stage before the one in which branches
  are taken. Otherwise `ac_verify()` suspends `ac_pc` in the cycle of the redirection,
  which is lost.
* `NoCallBehindBranch`: no system call stands where the wrong side of a branch would fetch
  it. Otherwise `flushes_left` counts down without it.
* `CallsDrain`: `pipe_maximum_path_length` nops are enough for the instructions in front
  of a system call to leave, however they stall: `(N - 2) * (MaxStalls + 1) + 1`. The
  7 of `actsim.c:61` are exactly enough for the five stages and single stalls of the
  run: with 6 its programs already complete in the wrong order, and with 7 nops and two
  stalls in a row there are programs that do.

`MCPipeline` assumes all three, so the theorem of `PipelineProof` is about its instance
too.

Fairness is `WF(Next)`: the clock does not stop and SystemC runs whatever is runnable;
an instruction is not obliged to stall or not to, so `MaxStalls` bounds the cycles in
a row. Deadlock is not checked: the simulation stops at the end of the memory.

Left out: several pipelines, `async_write`, the decode cache, `ac_instr_counter` (which
`ac_verify()` decrements once per stalled stage and nobody for a flushed instruction).

### Decoder, MCDecoder

Formats, fields and decode lists are the declarations; `PutIDs`, with `PutFormat` for
each format, gives equal fields one id. `tree` is the sequence of nodes in order of allocation, links are positions in it
and 0 is NULL. `phase` is the program: the *generator* builds the tree, stops with an
error at a conflict (`Conflict`), and prints the declarations; the *simulator* builds
it again from them without that test and decodes. The builder stands twice in the
repository, in `ac_decoder.c` and in `ac_decoder_rt.cpp`, the same statements but for
the test and the calls that allocate; one set of actions models both, so a difference that crept in between the two
files would not show. `AddToDecoder`, `IncludeSubcheck`,
`IncludeNext` and `Found` are the turns of the builder's loop, `FoundMatch`,
`FollowSubcheck`, `FollowNext`, `Backtrack` and `NotFound` those of `Decode()`, whose locals
are `d`, `field` and `chosenPath`; `fields` is its static array, which starts as what
`malloc()` leaves. `Copied` is the constructor of `ac_instr` that copies the result.

| Run | Bound | Shows |
|---|---|---|
| `decoder` | words of 3 bits, 3 formats that share and overlap fields, one signed; all lists of 3 of 10 instructions; any sequence of words | the cached field is current, the instruction is the one a linear search finds, operands are of this word, conflicts are reported exactly, building and decoding end |

Three instructions are enough for one to be added beside, below and above another, for
a prefix in both orders and for a duplicate; three levels for a search that
backtracks twice. `ConflictsAreReported` compares the generator's verdict, which it reaches by
one walk per instruction through a tree that grows and loses branches, with all pairs of
lists: the message appears exactly when an earlier list begins a later one, also when the
earlier one's branch has been cut off meanwhile, and the simulator never comes to a node
that has an instruction. `FindsTheInstruction` leaves out the instructions whose list goes
on after a later one's ends: the later one takes the place of their subtree
(`ac_decoder.c:314`), without the message the other order gets. Fairness is `WF(Build)`
and `WF(Search)`, the loops of one thread; nobody is obliged to decode. Deadlock is not
checked, since the generator may end with an error.

Left out: words that span several memory words (`ExpandInstrBuffer`), byte order, and
two ways in which a declaration cannot work: a signed field never equals an unsigned
decode value (`core_actions.c:646` allows it), and the mask of `GetBits()` shifts a
32-bit value by more than 31 bits.

### Platform, SharedMemory, MCPlatform

Several processors, each a SystemC thread that runs the printed loop, on one memory.
`active` is the thread that has control and `thread` what each is doing; control passes
only when a thread waits, which is at the end of a batch (`UpdateMethod`) and inside a
memory access. `Transport` and `Finish` are the two halves of a port call, `Serve` is the
answer: from within a blocking call, or by `nb_transport_bw()`, which notifies
`wake_up`. `beat` counts the calls of one access, since a byte store is a read and a
write; `buf` is what the read returned. `FetchFails`, `ExitCall` and the end of a
program are the ways to `stop()`, `running_mods` and `sc_stopped` what they share.
Instructions are abstracted to what they do to the memory: nothing, load, store, wait
for a value, exit, or not being one. `SharedMemory` is the promise: a memory where each
access takes effect at once, somewhere between its start and its end.

| Run | Bound | Shows |
|---|---|---|
| `platform` | 3 processors, 2 words of 2 bytes, 4 sets of programs, every choice of ports for two of them, batches of 2 | types, the counter, refinement of `SharedMemory`, the simulation ends |

The programs hand over a value through a flag, store to the same and to neighbouring
bytes and words while the third processor stores between them, and stop in all
three ways. With `ac_tlm_port`, whose requests always carry a word, the stores are kept
apart: a byte store there writes its neighbours back, and loses what another
processor stored meanwhile. The memory may answer at once or later, but not inside
`nb_transport_fw()`, where nobody waits for `wake_up` yet.

Fairness is `WF(Kernel)`, the SystemC scheduler goes on, and `SF(Serve(p))`: the memory
answers every call. It is strong because a blocking call that another thread interrupts is
served only when that thread waits. Deadlock is not checked: the simulation ends.

The run models what is printed by default. Under `-nw`, which sets `ACWaitFlag` to 0, the
printed loop counts no instructions and does not wait between them: a processor that spins on
memory through a port that answers at once then keeps control for ever, and `SimulationEnds`
says nothing about it.

Left out: failed transactions (`ac_tlm_port` leaves the buffer as it was when a read fails
and ignores the status of a write; `ac_tlm2_port` prints a message and exits when the read of
a word fails and does not look at the response to a write; `ac_tlm2_nb_port` prints and exits
when the call does not return `TLM_UPDATED`), transfers of several words and
loading through the port (the write of several words is printed as not implemented in
the non-blocking port), `lock()`, interrupts (which run in the writer's thread),
fetching through a port, stopping by signal or by the debugger.

## 4. Proofs

Eight modules hold theorems. Each is about every value of the constants that the
assumptions of its module admit: natural-number addresses, positive capacity, geometry
and sizes, formats and decode lists as the parser accepts them, more than one line per set
for PLRUM (with one line its constructor returns before it allocates the bits it later
reads). Further hypotheses are named below.

`SharedLemmas` - what the others share. A non-empty set of naturals has a least element
(`LeastNat`); from it, induction up to a bound over a *set* (`UpTo`), and that a loop that
stays in a set has its values there (`Recursion`). The last one is what unrolls the
recursive functions of `Decoder` and `MemMap`: the induction theorems of the library take an
operator as a parameter, which the provers here cannot instantiate. The second part is about
the two loops over the breakpoint array. `InsertGrafts`: what the swaps of
`add()` leave is the sequence with the address grafted in at one position, which
keeps it ascending (`InsertOrdered`), holds one address more (`InsertHolds`) and counts it
once more (`GraftCount`). The copy loop of `remove()` is the same step taken back
(`DropGrafts`). `FindsHeld`: in an ascending array the early exit finds what is there. The
third is about a search that comes down a rank with each turn: it ends (`SearchEnds`), and
what it returns is the value where it stopped (`SearchStops`).

`BreakpointsProof` - `IInv == TypeOK /\ CrescentOrder`, inductive. Theorems: `TypeCorrect`,
`AlwaysOrdered`, `ExistsExact` (order is what the early exit needs), `OthersUntouched`, an
action property: no call changes whether another address is in the table; and
`ImplementsBag`, `Spec => RefinesBag`, step by step.

`GdbStubProof` - `IInv == Typed /\ Flags /\ Conversation`. `Typed` adds to `TypeOK` what
may travel. `Flags` says what `step` and `first_time` mean for the resumption under way,
and that an instruction about to run unannounced is one at which the stub would not
stop. `Conversation` holds until Control-C is pressed: it lists whose turn it is, what is
on the line in each direction, and which breakpoints the table holds at that point,
before or after the command in flight. It is what makes retransmission harmless, and it
has to be this precise, because a stray `+` or report would be taken for the
answer to the next command. Theorems: `TypeCorrect`, `StepsOnce`, `RepliesMatch`, `ViewsAgree`,
`NoneMissed` and `NoneSpurious`, for any program, capacity, number of commands, of damaged
packets and of interrupts.

`CacheProof` - `IInv == TypeOK /\ UniqueTags /\ CleanMatches`. None of the three is
needed for its own sake only: without unique tags a fill could shadow a dirty copy,
and without clean lines equal to the memory an eviction without write-back would
lose data. Address arithmetic (`SplitWord`, `JoinWord`, `SameWord`) says that index,
tag and offset determine a word and back. `StepInv` keeps the invariant over a
generic access; `StepView` says what the processor sees afterwards: the memory with
at most the written word changed. Theorems: `TypeCorrect`, `NoAliases`,
`CleanIsClean` and `CacheIsMemory`, `Spec => ImplementsFlat`, for every geometry, memory,
policy and mode. The second part is about the policies: moving a line to the front keeps
the sequence a permutation (`MovedPermutes`), from which `LruSequence` and `LastIsKept`: a
victim always exists and is never the line used last.

`PlatformProof` - `IInv == TypeOK /\ RunningCount /\ StoppedEnded`. `TypeOK` contains
`ThreadOK`, which ties a thread's state to its access; without `StoppedEnded` (a
processor that has stopped never runs again) a second `stop()` could not be excluded
and the counter would not be inductive. `StopCounts` is the arithmetic: removing one
processor from the running ones lowers the cardinality by one. Theorems: `TypeCorrect`,
`CountIsExact` and `SharedMemoryHolds`, the refinement of `SharedMemory` under the
hypothesis `NoWordPort` (no processor uses `ac_tlm_port`; with it the refinement is false), for any
number of processors, programs, addresses and batch size. Each access takes effect with
its last call; a read half of a byte store is a stutter.

`PipelineProof` - for any number of stages. `TypeCorrect` needs no hypothesis;
`StallTakesPlace` and `FlushesTakePlace` need `InOrder`; `PipelineImplementsSequential`,
`Spec => ImplementsSequential`, needs `InOrder` and the three conditions of section 3.
The invariant speaks of every point of a cycle: `Cycle(k)`, the stages before `k` have run.
The *line* at that point is the sequence of what `ac_pc` and the registers will hold
after the coming update for stages that have run, and do hold for the others;
`Program(k)` says that, bubbles left out and up to a branch not yet taken, each entry of the
line is the successor of the one ahead of it, and the first of them the successor of what
completed last. A behaviour that moves an instruction leaves the
line as it is, a branch cuts off what was fetched for nothing, a stall puts a bubble between two
entries, and an update changes nothing but the reading of the line. `Filled` and `Orderly`
say which registers may be written or suspended; `Drain` counts the wait of a system call: each
cycle without a stall adds a bubble, at most `MaxStalls` in a row stall, and none holds the last
register.

`DecoderProof` - `IInv == Underway /\ Idle /\ Results /\ Simulating /\ OperandsAreCurrent /\
InSearch /\ FindsTheInstruction`.
`Underway` carries the history of the generator's build as a function from the number of
steps taken to the builder's state, each the successor of the one before (`Built`): the
simulator's build is somewhere along it, since it never takes the turn at which the generator
would have ended. Each of these states is `Good`:
there is a function from nodes to the set of ids checked on the way to them that agrees
with the links (`LinkedAt`), so that a node which finds an instruction has every field of its
format either on its way or in its list of operands to extract (`ExtractsAt`, and `OperandsAreLeft`
about `Operands`). `Simulating` says that every level of the search stands at a check, that
every field on the way to it has been stored in the static array from this word, and that
the cached field is the one the node asks for. `PutIDsLists`: every field has an id.
That the search finds what a linear search finds needs more of the tree, carried along the
same history: `InOrder`, by which there is a set of live nodes, each with the first list
(`From`) and the number of checks (`Depth`) it stands for, that is `Ranked`. Links lead from a
live node to siblings and children in the order of their first lists, and every list
added so far is in the tree as far as no other list ended on its way (`AddedAt`). Without it
nothing would say which lists a sibling not yet visited can still match. `Walked` is the
stack of the search seen from there: every level but the last stands at a check the word
passes, and no level has gone past a list that fits the word and shares the levels above
(`Ahead`). So the list at which the search ends is the first one that fits, of those whose
subtree no later, shorter list has replaced. `Typed`, a second invariant on top of the first, gives
`TypeOK`: no path is longer than the longest list (`DepthIsBounded`). The verdict on conflicts
comes from `InOrder` too: a node found where the builder stands belongs to a list that begins the
present one (`Meets`); and where it comes to the last check without meeting one, no list before
begins it (`NoneEnds`), because a list that has been added either ends at a live node with an
instruction or was cut off by one that does, and the builder's way leads past that node. So the
lists stay `Apart`, and each step of the history was `Free`. Theorems: `ConflictsFound`,
`FieldKept`, `OperandsExtracted`, `SearchFinds` and `DecoderTyped`, for every set of formats
and instructions.

`LoaderProof` - about `MemMap` alone and under `Loader`; `LoaderInvariant` holds the invariants
of the linker. `MapInv == ListInv /\ SumsFit /\ GrantsHeld`. `ListInv`: the list is `Tidy` (it starts at 0, ends free, ascends, no used region
is empty, no two free ones are neighbours) and the break is between its initial value and the
end of the memory. `GrantsHeld`: every live mapping is the region of one used node exactly
(`Spans`), above the break, and mappings are apart. Disjointness is not inductive
without that: a mapping could be given away again by a node that no longer says used.
`FixConsistencyTidies` is about the two loops: of a list whose used nodes are in place
(`Fixable`) they make a tidy one and keep every used region where it was, by an invariant
of their turns (`Follows`). `AddRegionTidies` and `UnmappedRegion` say that `add_region()`
and `munmap()` hand them such a list. By `SearchEnds` and `SearchStops` the search for a
region, whose recursion is unrolled along a rank that falls (what is left of the memory above
the address, twice), ends and returns what is available or `Failed`;
`AvailableRoom` turns the verdict of `verify_region_availability()` into room inside one
free region. Theorems: `MapTyped`, `MapDisjoint`, `MapBacked`, `MapCanonical`, under the
hypothesis `SumsFit`: no sum of an address, a page and a size that the calls make reaches
`Word`. The run `memmap_wrap` shows what happens otherwise, so the hypothesis is not an
artefact; a target of some hundred megabytes whose programs ask for less than gigabytes
satisfies it. `LoadedMapSafe` says the same of `LoaderSpec`, with the invariant `LoadInv` (no
mapping is granted before the libraries are in place; the memory is a number of pages, so that
rounding up in `suggest_free_region()` stays inside) and the hypothesis `ProgramsFit`: sizes
and ends of programs fit in their memory, which `ac_load_elf()` and `add_region()` check, and
no library is empty. `LoaderTyped` is about the objects themselves, with `LinkInv ==
LinksTyped /\ LaidOut /\ TablesKept` and the words of the memory. `LaidOut` puts every
object behind the one before and remembers whose end is the limit: the end of the region
list while libraries are loaded (`LastAdded`: a region added behind all others ends the
list), the break afterwards. That the loops of `link()` keep it follows from `TablesKept`:
the copies a library schedules come from inside the memory because what a symbol names lies
in its file (`SchedulesBelow`, by induction along the loop of `adjust_symbols()`), so
`apply_pending_copies()` copies words only, and a lookup returns an entry there is (`FindIs`).
Its hypothesis `FilesFit`: the tables of a file are well-formed (a relocation names a symbol of
its object, a definition lies in its file) and words have an even number of values, without
which the bit that `patch_code()` loses could leave the range. `LoaderInOrder` is about what
runs, with `OrderInv == QueueKept /\ VectorsKept` for a program with libraries. `QueueKept`:
every library stands behind the first object that needs it (`FirstNeeds`), these first
objects never go back, and every entry the loop is through with (`Treated`) has its library in
the list. The last part is what makes the object at work the *first* that needs a library just
loaded, and so the order of the list breadth first (`LibraryQueued`). `VectorsKept`: while
libraries are loaded the vectors are the functions of the list so far; from then on what has
run and what is left, put together, is the whole schedule, the entry point behind the
initialisers, and `ac_rtld_fini` is handed over exactly if there is an initialiser.
`FlattenExtends` and `VectorsAdded` say that a library at the end of the list adds its functions
at the end. `LoaderBinds` is about what references mean, `ReferencesBound`, with `BoundInv`:
`LoadInv`, `LinkInv`, and `BindInv` for a program with libraries. `ReferencesBound` speaks of
the end of the loops only, so `BindInv` says of every entry of every table which loop is
through with it (`IsAdjusted`, `IsResolved`, `IsRelocated`, `IsCopied`) and what holds then.
`EntriesKept`: a definition is at its address, a reference is as in the file or bound to what
it means; so a lookup that meets a reference already resolved answers as one that goes on to the
definition. `ReferencesKept`: a resolved reference is bound if anything defines it, or passed
over, with the flag that hides it. `WordsKept`: a word that a relative relocation will change is
still the word of the file, and a relocated one is what the files say (`Expected`), which no
later relocation or copy disturbs. `CopiesKept`: what was copied equals its source, unless
two sources were copied to one place; and a program is given up for one of the reasons the
property lists (`FailsForReason`). The lemmas `ObjectsApart` and `FillsApart` say
that no two relocations fill the same word, in one object or in two. The hypothesis is
`TablesFit`, what a static linker writes: a file defines a name once, or in several versions
with one base among them, at an address other than 0, and does not refer to what it defines
(`Unambiguous`); each relocation fills words of its own inside its object, a relative one a
word of the file (`Separate`). The four conditions of section 3 are in the property and not
among the hypotheses. `MCLoader` assumes all four hypotheses, so TLC evaluates them on the
instance of the run `memmap`.

Only model-checked, and why:

* `CommandAnswered`, `Progress`, `DecoderIsBuilt`, `DecodeReturns`, `SimulationEnds`: liveness
  under fairness, as anything with `ENABLED`, is out of this prover's reach.

Every other property of the passing runs is stated by a theorem.

## 5. Disagreements with the documentation

* A full breakpoint table denies its entries and cannot be emptied
  (`breakpoints_full`).
* `c` or `s` with an address does not continue there: the loop executes the
  instruction it had decoded (`gdb_resume_addr`).
* `addr + size` wraps in `verify_region_availability()` (`memmap_wrap`).
* A free node of length zero hides the used node behind it from `munmap`
  (`memmap_hole`).
* An instruction leaves a flushed stage when the stage runs after the flush in the
  same cycle (`pipeline_order`).

Conditions that properties name because the code fails without them, and no comment
promises otherwise: the four of `ReferencesBound` and the prefix of `FindsTheInstruction`
(section 3), byte stores through `ac_tlm_port`.

## 6. Not modelled

So far: delayed writes, `sbrk`, transfers of several words, failed transactions and
interrupts, end of file at the stub. For good: system calls that only pass data to the
host, relocation formulas per target, statistics and traces, and everything that turns
text into text: the parser, the three generators with the code they print for every
declaration, `acbinutils` with its templates for `bfd` and `gas`, `acverifier`, scripts and
headers of constants. That is most of the tree: `acsim.c` exists three times, `elf32-tiny.h`
and the binutils templates twice, and of the generators only the lines that print the
loop have behaviour over time. So the models stand for a few percent of the lines, those
with state that several calls or several actors share.

## 7. Running

    tlc -workers 2 -config MCCache.cfg MCCache
    tlapm CacheProof.tla

`PROJECT.json` names the module and configuration of every run. All runs end within
two minutes; the proofs of `LoaderProof` take about a quarter of an hour, those of
`DecoderProof` half of that, the others a minute or two.
