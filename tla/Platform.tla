------------------------------ MODULE Platform ------------------------------
(***************************************************************************)
(* Several simulated processors on one memory.  Each is a SystemC thread   *)
(* that runs the loop acsim prints: fetch, decode or system call, execute, *)
(* and after a batch of instructions wait(1, SC_NS).  Threads are          *)
(* cooperative: one runs until it waits, in the loop or inside a memory    *)
(* access.  An access is one transport call of its port, or two: a byte is *)
(* stored by a read and a write.                                           *)
(*                                                                         *)
(* There are three ports: ac_tlm_port, whose requests carry no length and  *)
(* transfer a word, ac_tlm2_port, whose b_transport() may wait or return   *)
(* at once, and ac_tlm2_nb_port, which waits for the event wake_up that    *)
(* the backward call notifies.  The memory and its process are external.   *)
(***************************************************************************)
EXTENDS Integers, Sequences, FiniteSets

CONSTANTS
    Processors,
    Addr,              \* the bytes of the memory
    WordBytes,         \* bytes of a word
    instr_batch_size,
    Setups             \* [program, port] of every processor

None == "none"

\* "await" is a load and a branch back to it.
IsAccess(op) == op.do \in {"load", "await", "store"}
Bytes(op)    == op.addr..op.addr + op.size - 1

\* An instruction, as far as it concerns memory and control.
IsInstruction(op) ==
    \/ op.do \in {"alu", "exit", "unidentified"}
    \/ /\ IsAccess(op)
       /\ op.addr \in Nat /\ op.size \in {1, WordBytes} /\ Bytes(op) \subseteq Addr
       /\ op.do # "load" => op.value \in Nat

ASSUME PlatformAssumption ==
    /\ IsFiniteSet(Processors) /\ Processors # {} /\ None \notin Processors
    /\ Addr \subseteq Nat
    /\ WordBytes \in Nat \ {0} /\ instr_batch_size \in Nat
    /\ \A s \in Setups : \A p \in Processors :
          /\ s.port[p] \in {"tlm1", "tlm2", "nb"} /\ Len(s.program[p]) \in Nat
          /\ \A n \in 1..Len(s.program[p]) : IsInstruction(s.program[p][n])

VARIABLES
    setup,
    active,         \* the thread that runs, None when the kernel does
    thread,         \* "ready", "timed" (in wait(1, SC_NS)), "blocked", "ended"
    ac_pc, ac_stop_flag, instr_in_batch,
    running_mods,   \* static counter of all modules
    sc_stopped,     \* sc_stop() was called
    beat,           \* transport calls of the current access so far
    served,         \* the last of them was answered
    buf,            \* the data of the last answer to a read
    mem

procVars == <<ac_pc, ac_stop_flag, instr_in_batch>>
stopVars == <<running_mods, sc_stopped>>
portVars == <<beat, served, buf>>
vars == <<setup, active, thread, procVars, stopVars, portVars, mem>>

-----------------------------------------------------------------------------
(* Transport calls.                                                        *)

Program(p) == setup.program[p]
Kind(p)    == setup.port[p]
Fetched(p) == Program(p)[ac_pc[p]]
InBounds(p) == ac_pc[p] \in 1..Len(Program(p))

\* The transport calls of an access, in the order of the port's switch.
Beats(op) ==
    IF op.do # "store" THEN <<"READ">>
    ELSE IF op.size = WordBytes THEN <<"WRITE">> ELSE <<"READ", "WRITE">>

\* (Slip: data_length is that of a word for every store.)
SpanWord(p, op) == (op.addr..op.addr + WordBytes - 1) \cap Addr

\* The bytes a call transfers: data_length, or a word on ac_tlm_port.
Span(p, op) ==
    IF Kind(p) = "tlm1" THEN (op.addr..op.addr + WordBytes - 1) \cap Addr
    ELSE Bytes(op)

\* What a write call carries: the value over the data read before.
Carried(p, op) ==
    [b \in Span(p, op) |-> IF b \in Bytes(op) THEN op.value ELSE buf[p][b]]

-----------------------------------------------------------------------------
(* stop() and the end of the loop body.                                    *)

\* (Slip: the counter is tested before it is decremented.)
StopLate(p) ==
    /\ ac_stop_flag' = [ac_stop_flag EXCEPT ![p] = TRUE]
    /\ running_mods' = running_mods - 1
    /\ sc_stopped' = (sc_stopped \/ running_mods = 0)

\* stop() sets the flag and calls set_stopped().
Stop(p) ==
    /\ ac_stop_flag' = [ac_stop_flag EXCEPT ![p] = TRUE]
    /\ running_mods' = running_mods - 1
    /\ sc_stopped' = (sc_stopped \/ running_mods' = 0)

Ends(p) == thread' = [thread EXCEPT ![p] = "ended"] /\ active' = None

\* (Slip: the batch is never over.)
UpdateMethodNoWait(p) == UNCHANGED <<instr_in_batch, thread, active>>

\* (Slip: =< for <.)
UpdateMethodLate(p) ==
    IF instr_in_batch[p] =< instr_batch_size
    THEN /\ instr_in_batch' = [instr_in_batch EXCEPT ![p] = @ + 1]
         /\ UNCHANGED <<thread, active>>
    ELSE /\ instr_in_batch' = [instr_in_batch EXCEPT ![p] = 0]
         /\ thread' = [thread EXCEPT ![p] = "timed"] /\ active' = None

\* EmitUpdateMethod(): the instruction counts, or the batch is over.  This is printed
\* unless the option -nw has cleared ACWaitFlag, which is not modelled.
UpdateMethod(p) ==
    IF instr_in_batch[p] < instr_batch_size
    THEN /\ instr_in_batch' = [instr_in_batch EXCEPT ![p] = @ + 1]
         /\ UNCHANGED <<thread, active>>
    ELSE /\ instr_in_batch' = [instr_in_batch EXCEPT ![p] = 0]
         /\ thread' = [thread EXCEPT ![p] = "timed"] /\ active' = None

-----------------------------------------------------------------------------
(* The thread of a processor.                                              *)

AtFetch(p) == active = p /\ beat[p] = 0

\* bhv_pc >= get_size(), or ins_id = 0: stop() and return.
FetchFails(p) ==
    /\ AtFetch(p)
    /\ InBounds(p) => Fetched(p).do = "unidentified"
    /\ Stop(p) /\ Ends(p)
    /\ UNCHANGED <<setup, ac_pc, instr_in_batch, portVars, mem>>

\* The case of _exit(): the flag ends the loop behind the switch.
ExitCall(p) ==
    /\ AtFetch(p) /\ InBounds(p) /\ Fetched(p).do = "exit"
    /\ Stop(p) /\ Ends(p)
    /\ UNCHANGED <<setup, ac_pc, instr_in_batch, portVars, mem>>

Execute(p) ==
    /\ AtFetch(p) /\ InBounds(p) /\ Fetched(p).do = "alu"
    /\ ac_pc' = [ac_pc EXCEPT ![p] = @ + 1]
    /\ UpdateMethod(p)
    /\ UNCHANGED <<setup, ac_stop_flag, stopVars, portVars, mem>>

\* The next transport call.  ac_tlm2_nb_port goes on to wait(wake_up); the
\* blocking calls are still running in the thread of the processor.
Transport(p) ==
    /\ active = p /\ InBounds(p) /\ IsAccess(Fetched(p))
    /\ beat[p] = 0 \/ served[p]
    /\ beat[p] < Len(Beats(Fetched(p)))
    /\ beat' = [beat EXCEPT ![p] = @ + 1]
    /\ served' = [served EXCEPT ![p] = FALSE]
    /\ thread' = [thread EXCEPT ![p] = "blocked"]
    /\ active' = IF Kind(p) = "nb" THEN None ELSE p
    /\ UNCHANGED <<setup, procVars, stopVars, buf, mem>>

\* The call returned or the event came: the access ends, and the instruction.
Finish(p) ==
    /\ active = p /\ served[p] /\ beat[p] = Len(Beats(Fetched(p)))
    /\ LET op   == Fetched(p)
           back == op.do = "await" /\ buf[p][op.addr] # op.value
       IN  ac_pc' = [ac_pc EXCEPT ![p] = IF back THEN @ ELSE @ + 1]
    /\ beat' = [beat EXCEPT ![p] = 0] /\ served' = [served EXCEPT ![p] = FALSE]
    /\ buf' = [buf EXCEPT ![p] = <<>>]
    /\ UpdateMethod(p)
    /\ UNCHANGED <<setup, ac_stop_flag, stopVars, mem>>

-----------------------------------------------------------------------------
(* The memory, external, and the kernel.                                   *)

Outstanding(p) == thread[p] = "blocked" /\ ~served[p]

\* The memory answers: inside a blocking call, or from its own process.  The
\* call returns, or nb_transport_bw() notifies wake_up.
Serve(p) ==
    /\ Outstanding(p) /\ active \in {None, p} /\ ~(active = None /\ sc_stopped)
    /\ LET op == Fetched(p)
       IN  IF Beats(op)[beat[p]] = "READ"
           THEN /\ buf' = [buf EXCEPT ![p] = [b \in Span(p, op) |-> mem[b]]]
                /\ UNCHANGED mem
           ELSE /\ mem' = [b \in Addr |-> IF b \in Span(p, op) THEN Carried(p, op)[b]
                                          ELSE mem[b]]
                /\ UNCHANGED buf
    /\ served' = [served EXCEPT ![p] = TRUE]
    /\ thread' = [thread EXCEPT ![p] = "ready"]
    /\ UNCHANGED <<setup, active, procVars, stopVars, beat>>

\* A blocking call waits for the memory's process.
TargetWaits(p) ==
    /\ active = p /\ Outstanding(p)
    /\ active' = None
    /\ UNCHANGED <<setup, thread, procVars, stopVars, portVars, mem>>

\* A runnable thread gets its turn, in no fixed order.
Dispatch(p) ==
    /\ active = None /\ thread[p] = "ready"
    /\ active' = p
    /\ UNCHANGED <<setup, thread, procVars, stopVars, portVars, mem>>

\* When no thread is runnable, the time goes on.
Advance ==
    /\ active = None /\ ~sc_stopped
    /\ \A p \in Processors : thread[p] # "ready"
    /\ \E p \in Processors : thread[p] = "timed"
    /\ thread' = [p \in Processors |-> IF thread[p] = "timed" THEN "ready" ELSE thread[p]]
    /\ UNCHANGED <<setup, active, procVars, stopVars, portVars, mem>>

-----------------------------------------------------------------------------
\* init() of every processor called set_running().
Init ==
    /\ setup \in Setups
    /\ active = None /\ thread = [p \in Processors |-> "ready"]
    /\ ac_pc = [p \in Processors |-> 1]
    /\ ac_stop_flag = [p \in Processors |-> FALSE]
    /\ instr_in_batch = [p \in Processors |-> 0]
    /\ running_mods = Cardinality(Processors) /\ sc_stopped = FALSE
    /\ beat = [p \in Processors |-> 0] /\ served = [p \in Processors |-> FALSE]
    /\ buf = [p \in Processors |-> <<>>] /\ mem = [b \in Addr |-> 0]

Processor(p) ==
    FetchFails(p) \/ ExitCall(p) \/ Execute(p) \/ Transport(p) \/ Finish(p)

Kernel == Advance \/ \E p \in Processors : Processor(p) \/ TargetWaits(p) \/ Dispatch(p)

Next == Kernel \/ \E p \in Processors : Serve(p)

\* The kernel always goes on; the memory answers every call some time.
Spec == Init /\ [][Next]_vars /\ WF_vars(Kernel)
             /\ \A p \in Processors : SF_vars(Serve(p))

-----------------------------------------------------------------------------
(* Properties.                                                             *)

\* Between two instructions no call is under way, a thread waits for an answer
\* exactly while one is missing, and one that runs is ready or inside a blocking
\* call.
ThreadOK(p) ==
    /\ ac_pc[p] \in 1..Len(Program(p)) + 1
    /\ beat[p] = 0 => ~served[p]
    /\ beat[p] > 0 => /\ InBounds(p) /\ IsAccess(Fetched(p))
                      /\ beat[p] =< Len(Beats(Fetched(p)))
    /\ beat[p] = 2 \/ (served[p] /\ Beats(Fetched(p))[1] = "READ") =>
           buf[p] \in [Span(p, Fetched(p)) -> Nat]
    /\ thread[p] \in {"timed", "ended"} => beat[p] = 0
    /\ thread[p] = "blocked" <=> beat[p] > 0 /\ ~served[p]
    /\ active = p => thread[p] = "ready" \/ (thread[p] = "blocked" /\ Kind(p) # "nb")

\* Every variable has its type; a batch is as long as its counter allows.
TypeOK ==
    /\ setup \in Setups /\ active \in Processors \cup {None}
    /\ thread \in [Processors -> {"ready", "timed", "blocked", "ended"}]
    /\ ac_pc \in [Processors -> Nat] /\ ac_stop_flag \in [Processors -> BOOLEAN]
    /\ instr_in_batch \in [Processors -> 0..instr_batch_size]
    /\ beat \in [Processors -> 0..2] /\ served \in [Processors -> BOOLEAN]
    /\ buf = [p \in Processors |-> buf[p]]
    /\ sc_stopped \in BOOLEAN /\ mem \in [Addr -> Nat]
    /\ \A p \in Processors : ThreadOK(p)

\* The static counter is the number of processors that have not stopped, on
\* every path to stop(), and the simulation is stopped with the last of them
\* and not while another one runs.
RunningCount ==
    /\ running_mods = Cardinality({p \in Processors : ~ac_stop_flag[p]})
    /\ sc_stopped <=> running_mods = 0

\* What the access under way is for its program; "await" is a load.
AccessOf(op) ==
    IF op.do = "store"
    THEN [do |-> "store", addr |-> op.addr, size |-> op.size, value |-> op.value]
    ELSE [do |-> "load", addr |-> op.addr, size |-> op.size]

Access(p) == IF beat[p] = 0 THEN [do |-> "none"] ELSE AccessOf(Fetched(p))

TookEffect(p) == beat[p] > 0 /\ served[p] /\ beat[p] = Len(Beats(Fetched(p)))

AccessSet ==
    {AccessOf(op) : op \in {o \in UNION {{s.program[p][n] : n \in 1..Len(s.program[p])} :
                                         s \in Setups, p \in Processors} : IsAccess(o)}}

Got(p) ==
    IF ~TookEffect(p) THEN <<>>
    ELSE IF Fetched(p).do = "store" THEN <<"done">>
    ELSE [b \in Bytes(Fetched(p)) |-> buf[p][b]]

Shared == INSTANCE SharedMemory WITH
    Accesses <- AccessSet,
    access <- [p \in Processors |-> Access(p)], got <- [p \in Processors |-> Got(p)]

\* Through any of the ports the processors share a memory in which each access
\* takes effect at once: a byte store, which is two calls with other
\* processors between them, loses no store of another processor to the bytes
\* around it.  On ac_tlm_port this needs that nobody else stores there.
ImplementsShared == Shared!Spec

\* Every program reaches its stop and the simulation ends: no processor
\* starves while another one spins on memory, because its batch ends, and
\* every answer wakes the processor that waits for it.
SimulationEnds == <>sc_stopped

=============================================================================
