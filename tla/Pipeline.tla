------------------------------ MODULE Pipeline ------------------------------
(***************************************************************************)
(* The pipeline of a cycle-accurate simulator: the stages actsim generates *)
(* (CreateStgImpl), on top of class ac_stage (ac_stage.H) and of the       *)
(* synchronous registers between them (ac_sync_reg.H).                     *)
(*                                                                         *)
(* A clock edge makes the behaviour of every stage runnable; SystemC runs  *)
(* them one after the other, and the processor's ac_verify() whenever a    *)
(* stage has notified done.  When none is left the update phase copies the *)
(* registers written in this cycle.                                        *)
(*                                                                         *)
(* What an instruction does in a stage is the user's code (external): it   *)
(* advances ac_pc in the first stage, a branch redirects it and flushes    *)
(* the stages behind it, and an instruction may have to stall the stage    *)
(* right behind it.                                                        *)
(***************************************************************************)
EXTENDS Integers

CONSTANTS
    N,             \* stages
    Size,          \* instructions in the memory
    Targets,       \* programs: each maps the branches to where they go
    BranchStage,   \* the stage in which branches are taken
    MayStall,      \* MayStall[s]: instructions that in stage s may stall stage s - 1
    SysCalls,      \* addresses of system calls, which return to Return
    Return,
    PathLength,    \* pipe_maximum_path_length: nops issued before a system call
    InOrder,       \* the behaviours of a cycle run from the first stage to the last
    MaxStalls      \* bound: cycles in a row with a stall

Stage == 1..N
Addr  == 0..Size - 1
Entry == 0         \* ac_start_addr
Nop   == -1

ASSUME PipelineAssumption ==
    /\ N \in Nat /\ N > 1 /\ Size \in Nat \ {0}
    /\ BranchStage \in 2..N /\ PathLength \in Nat /\ MaxStalls \in Nat
    /\ MayStall \in [2..N -> SUBSET Addr]
    /\ SysCalls \subseteq Addr /\ Return \in Addr /\ InOrder \in BOOLEAN
    /\ \A t \in Targets : DOMAIN t \subseteq Addr \ SysCalls
                          /\ \A a \in DOMAIN t : t[a] \in Addr
    /\ \A t \in Targets, s \in 2..N : DOMAIN t \cap MayStall[s] = {}

VARIABLES
    target,        \* the program
    reg,           \* reg[1] is ac_pc, reg[s] the register in front of stage s
    ctrl,          \* the ac_stage_control of each stage
    pending,       \* stages whose behaviour has yet to run in this cycle
    verify,        \* ac_verify() is runnable
    flushesLeft,   \* flushes_left of the first stage
    stopFlag,      \* ac_stop_flag
    stalls,        \* cycles in a row with a stall
    completed      \* history: the last instruction that left the pipeline

vars == <<target, reg, ctrl, pending, verify, flushesLeft, stopFlag, stalls,
          completed>>

-----------------------------------------------------------------------------
(* ac_sync_reg.                                                            *)

Register(v) == [data |-> v, new |-> v, en |-> TRUE, req |-> FALSE]

Written(r, v) == [r EXCEPT !.new = v, !.req = TRUE]
Suspended(r)  == [r EXCEPT !.en = FALSE, !.req = TRUE]

\* (Slip: a register once suspended is never enabled again.)
UpdatedOnce(r) ==
    IF ~r.req THEN r
    ELSE IF r.en THEN [r EXCEPT !.data = r.new, !.req = FALSE]
                 ELSE [r EXCEPT !.req = FALSE]

\* update(), in the update phase of a cycle that requested it.
Updated(r) ==
    IF ~r.req THEN r
    ELSE IF r.en THEN [r EXCEPT !.data = r.new, !.req = FALSE]
                 ELSE [r EXCEPT !.en = TRUE, !.req = FALSE]

-----------------------------------------------------------------------------
(* ac_stage.  Calls are functions of the registers, since one behaviour    *)
(* makes several of them.                                                  *)

\* regout->write(v), in every stage but the last.
Passes(regs, s, v) ==
    IF s < N THEN [regs EXCEPT ![s + 1] = Written(@, v)] ELSE regs

\* (Slip: stall() suspends its own register only.)
StallOneRegs(regs, s) ==
    [k \in Stage |-> IF k = s /\ k > 1 THEN Suspended(Passes(regs, s, Nop)[k])
                                       ELSE Passes(regs, s, Nop)[k]]

\* stall(): a bubble goes out, and the registers up to this stage hold.
StallRegs(regs, s) ==
    [k \in Stage |-> IF k \in 2..s THEN Suspended(Passes(regs, s, Nop)[k])
                                   ELSE Passes(regs, s, Nop)[k]]

StallCtrl(c, s) == [c EXCEPT ![s].stallNext = TRUE, ![s].req = TRUE]

\* (Slip: flush() marks the stage but leaves its register alone.)
MarkOnly(regs, s) == regs

\* flush() of all stages in front of s.
FlushRegs(regs, s) ==
    [k \in Stage |-> IF k \in 2..s THEN Written(regs[k], Nop) ELSE regs[k]]

FlushCtrl(c, s) ==
    [k \in Stage |-> IF k < s THEN [c[k] EXCEPT !.flushNext = TRUE, !.req = TRUE]
                              ELSE c[k]]

\* The beginning of every behaviour: if (is_stalled()) ctrl.request_update().
Begun(c, s) == [c EXCEPT ![s].req = @ \/ c[s].stallNow]

UpdatedCtrl(c) ==
    IF c.req THEN [flushNext |-> FALSE, stallNow |-> c.stallNext,
                   stallNext |-> FALSE, req |-> FALSE]
             ELSE c

-----------------------------------------------------------------------------
Init ==
    /\ target \in Targets
    /\ reg = [s \in Stage |-> Register(IF s = 1 THEN Entry ELSE Nop)]
    /\ ctrl = [s \in Stage |-> [flushNext |-> FALSE, stallNow |-> FALSE,
                                stallNext |-> FALSE, req |-> FALSE]]
    /\ pending = Stage /\ verify = FALSE
    /\ flushesLeft = PathLength
    /\ stopFlag = FALSE
    /\ stalls = 0
    /\ completed = [addr |-> Nop, turn |-> 0]

\* One behaviour runs: after it, done has been notified.
Runs(s) ==
    /\ ~stopFlag
    /\ s \in pending
    /\ InOrder => \A k \in pending : s <= k
    /\ pending' = pending \ {s}
    /\ verify' = TRUE

Completes(a) ==
    completed' = [addr |-> a, turn |-> 1 - completed.turn]

\* The first stage fetches, decodes and executes its part; it stops the
\* simulation at a program counter beyond the memory.
FetchInstruction ==
    LET a == reg[1].data IN
    /\ a \in Addr \ SysCalls
    /\ reg' = Passes([reg EXCEPT ![1] = Written(@, a + 1)], 1, a)
    /\ UNCHANGED <<flushesLeft, stopFlag, completed>>

FetchBeyond ==
    /\ reg[1].data \notin Addr
    /\ stopFlag' = TRUE
    /\ UNCHANGED <<reg, flushesLeft, completed>>

Drained == flushesLeft = 0

\* AC_SYSC: at the address of a system call nops are issued while flushes_left
\* counts down, then the call runs, in the first stage, and returns.
FetchSysCall ==
    /\ reg[1].data \in SysCalls
    /\ \/ /\ ~Drained
          /\ flushesLeft' = flushesLeft - 1
          /\ reg' = Passes(reg, 1, Nop)
          /\ UNCHANGED completed
       \/ /\ Drained
          /\ flushesLeft' = PathLength
          /\ reg' = Passes([reg EXCEPT ![1] = Written(@, Return)], 1, Nop)
          /\ Completes(reg[1].data)
    /\ UNCHANGED stopFlag

Fetch ==
    /\ Runs(1)
    /\ FetchInstruction \/ FetchBeyond \/ FetchSysCall
    /\ ctrl' = Begun(ctrl, 1)
    /\ UNCHANGED <<target, stalls>>

\* Any later stage: the instruction's behaviour, then regout->write().
Execute(s) ==
    LET a == reg[s].data IN
    /\ Runs(s)
    /\ \/ /\ s = BranchStage /\ a \in DOMAIN target
          /\ reg' = Passes(FlushRegs([reg EXCEPT ![1] = Written(@, target[a])], s),
                           s, a)
          /\ ctrl' = Begun(FlushCtrl(ctrl, s), s)
       \/ /\ a \in MayStall[s] /\ stalls < MaxStalls
          /\ reg' = Passes(StallRegs(reg, s - 1), s, a)
          /\ ctrl' = Begun(StallCtrl(ctrl, s - 1), s)
       \/ /\ s # BranchStage \/ a \notin DOMAIN target
          /\ reg' = Passes(reg, s, a)
          /\ ctrl' = Begun(ctrl, s)
    /\ IF s = N /\ a # Nop THEN Completes(a) ELSE UNCHANGED completed
    /\ UNCHANGED <<target, flushesLeft, stopFlag, stalls>>

\* (Slip: ac_verify() leaves ac_pc alone.)
Ignores == FALSE

\* Some stage but the last will_stall().
WillStall == \E s \in 1..N - 1 : ctrl[s].stallNext

\* ac_verify(), woken by the done events.
Verify ==
    /\ verify
    /\ verify' = FALSE
    /\ reg' = IF WillStall THEN [reg EXCEPT ![1] = Suspended(@)] ELSE reg
    /\ UNCHANGED <<target, ctrl, pending, flushesLeft, stopFlag, stalls, completed>>

\* The update phase, and the next clock edge.
Update ==
    /\ ~stopFlag
    /\ pending = {} /\ ~verify
    /\ reg' = [s \in Stage |-> Updated(reg[s])]
    /\ ctrl' = [s \in Stage |-> UpdatedCtrl(ctrl[s])]
    /\ pending' = Stage
    /\ stalls' = IF WillStall THEN stalls + 1 ELSE 0
    /\ UNCHANGED <<target, verify, flushesLeft, stopFlag, completed>>

Next == Fetch \/ (\E s \in 2..N : Execute(s)) \/ Verify \/ Update

\* The clock never stops and SystemC runs whatever is runnable.
Spec == Init /\ [][Next]_vars /\ WF_vars(Next)

-----------------------------------------------------------------------------
(* Conditions on the constants under which instructions keep their order   *)
(* (PipelineProof).  Without the second, a branch and ac_verify() may meet *)
(* at ac_pc; without the third, a call fetched for nothing leaves          *)
(* flushes_left short.                                                     *)

\* However it stalls, the pipeline is empty when the nops have been issued: an
\* instruction that moves into the last stage has left it one cycle later.
CallsDrain == SysCalls # {} => PathLength >= (N - 2) * (MaxStalls + 1) + 1

\* No instruction stalls a stage before the one in which branches are taken.
BranchesBeforeStalls == \A s \in 2..BranchStage - 1 : MayStall[s] = {}

\* No system call is fetched behind a branch that is yet to be taken.
NoCallBehindBranch ==
    \A t \in Targets : \A a \in DOMAIN t, j \in 1..BranchStage - 1 :
        a + j \notin SysCalls

-----------------------------------------------------------------------------
(* Properties.                                                             *)

\* Ranges; and at a clock edge no request and no suspension is left over.
TypeOK ==
    /\ target \in Targets
    /\ \A s \in Stage :
          /\ reg[s].data \in Addr \cup {Nop, Size}
          /\ pending = Stage /\ ~verify => reg[s].en /\ ~reg[s].req
    /\ reg[1].data # Nop
    /\ pending \subseteq Stage /\ verify \in BOOLEAN
    /\ flushesLeft \in 0..PathLength /\ stalls \in 0..MaxStalls

\* Where the program goes from its branches and its system calls.
Jumps == [a \in DOMAIN target \cup SysCalls |->
            IF a \in SysCalls THEN Return ELSE target[a]]

Machine == INSTANCE Sequential WITH target <- Jumps

\* Whatever is stalled and flushed, the instructions that leave the pipeline,
\* and the system calls that run in its first stage, are those of the program
\* in its order: none lost, none twice, none from the wrong side of a branch.
ImplementsSequential == Machine!Spec

\* "Flushing already took place" (ac_stage.H): the instruction in a flushed stage
\* does not move on to the next one.
FlushTakesPlace ==
    [][Update => \A s \in 1..N - 1 : ctrl[s].flushNext =>
            reg[s + 1].data' \in {Nop, reg[s + 1].data}]_vars

\* After stall() the stage and all before it keep what they hold, and the stage
\* behind gets no second copy of it.
StalledStays ==
    [][Update => \A s \in 1..N - 1 : ctrl[s].stallNext =>
            /\ \A k \in 1..s : reg[k].data' = reg[k].data
            /\ reg[s + 1].data' \in {Nop, reg[s + 1].data}]_vars

\* However instructions stall, the pipeline goes on to the next one until the
\* program leaves the memory: a suspension never outlasts its cycle.
Progress == []<><<completed'.addr # completed.addr>>_vars \/ <>stopFlag
=============================================================================
