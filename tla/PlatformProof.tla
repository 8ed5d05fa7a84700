---------------------------- MODULE PlatformProof ----------------------------
(***************************************************************************)
(* Proofs about Platform, for every number of processors, every program,   *)
(* memory and batch size.  The inductive invariant is TypeOK with the      *)
(* count of running processors and the fact that a processor whose stop    *)
(* flag is set has left its loop: no path calls stop() a second time.      *)
(***************************************************************************)
EXTENDS Platform, FiniteSetTheorems, TLAPS

Running == {p \in Processors : ~ac_stop_flag[p]}

StoppedEnded == \A p \in Processors : ac_stop_flag[p] => thread[p] = "ended"

IInv == TypeOK /\ RunningCount /\ StoppedEnded

\* An access is one or two calls; two are the read and the write of a byte.
LEMMA BeatsShape ==
    ASSUME NEW op
    PROVE  /\ Len(Beats(op)) \in 1..2
           /\ Len(Beats(op)) = 2 => Beats(op)[1] = "READ" /\ op.do = "store"
           /\ Beats(op)[Len(Beats(op))] = "WRITE" <=> op.do = "store"
           /\ Beats(op)[Len(Beats(op))] = "READ" <=> op.do # "store"
BY DEF Beats

\* What a processor fetches inside its program is an instruction, and its
\* call transfers bytes of the memory.
LEMMA FetchedIsInstruction ==
    ASSUME TypeOK, NEW p \in Processors, InBounds(p)
    PROVE  IsInstruction(Fetched(p))
BY PlatformAssumption DEF TypeOK, InBounds, Fetched, Program

LEMMA SpanInMemory ==
    ASSUME TypeOK, NEW p \in Processors, InBounds(p), IsAccess(Fetched(p))
    PROVE  Span(p, Fetched(p)) \subseteq Addr
<1>1. Bytes(Fetched(p)) \subseteq Addr
  BY FetchedIsInstruction DEF IsInstruction, IsAccess
<1>2. QED BY <1>1 DEF Span

\* A processor none of whose variables a step changes stays as it is.
LEMMA ThreadUntouched ==
    ASSUME NEW q, ThreadOK(q), UNCHANGED setup,
           ac_pc'[q] = ac_pc[q], beat'[q] = beat[q], served'[q] = served[q],
           buf'[q] = buf[q], thread'[q] = thread[q],
           active' = q => active = q
    PROVE  ThreadOK(q)'
BY DEF ThreadOK, InBounds, Fetched, Program, Kind, Span

\* stop() of a processor that had not stopped keeps the count.
LEMMA StopCounts ==
    ASSUME TypeOK, RunningCount, NEW p \in Processors, ~ac_stop_flag[p], Stop(p)
    PROVE  RunningCount'
<1>1. Running' = Running \ {p}
  BY DEF Running, Stop, TypeOK
<1>2. p \in Running /\ IsFiniteSet(Running)
  BY PlatformAssumption, FS_Subset DEF Running
<1>3. Cardinality(Running \ {p}) = Cardinality(Running) - 1
  BY <1>2, FS_RemoveElement
<1>4. Cardinality(Running) \in Nat /\ Cardinality(Running) = running_mods
  BY <1>2, FS_CardinalityType DEF RunningCount, Running
<1>5. running_mods # 0
  BY <1>2, <1>4, FS_EmptySet
<1>6. running_mods' = Cardinality(Running')
  BY <1>1, <1>3, <1>4 DEF Stop
<1>7. sc_stopped' <=> running_mods' = 0
  BY <1>4, <1>5 DEF Stop, RunningCount
<1>8. QED BY <1>6, <1>7 DEF RunningCount, Running

LEMMA InitIInv == Init => IInv
<1> SUFFICES ASSUME Init PROVE IInv
  OBVIOUS
<1>1. \A p \in Processors : ThreadOK(p)
  <2> SUFFICES ASSUME NEW p \in Processors PROVE ThreadOK(p)
    OBVIOUS
  <2>1. Len(Program(p)) \in Nat
    BY PlatformAssumption DEF Init, Program
  <2>2. active # p
    BY PlatformAssumption DEF Init
  <2>3. QED BY <2>1, <2>2 DEF Init, ThreadOK
<1>2. TypeOK
  <2>1. buf = [p \in Processors |-> buf[p]] /\ mem \in [Addr -> Nat]
    BY DEF Init
  <2>2. instr_in_batch \in [Processors -> 0..instr_batch_size]
    BY PlatformAssumption DEF Init
  <2>3. /\ ac_pc \in [Processors -> Nat] /\ ac_stop_flag \in [Processors -> BOOLEAN]
        /\ beat \in [Processors -> 0..2] /\ served \in [Processors -> BOOLEAN]
        /\ thread \in [Processors -> {"ready", "timed", "blocked", "ended"}]
    BY DEF Init
  <2>4. QED BY <1>1, <2>1, <2>2, <2>3 DEF Init, TypeOK
<1>3. {p \in Processors : ~ac_stop_flag[p]} = Processors
  BY DEF Init
<1>4. RunningCount
  <2>1. Cardinality(Processors) # 0
    BY PlatformAssumption, FS_EmptySet
  <2>2. QED BY <1>3, <2>1 DEF Init, RunningCount
<1>5. QED BY <1>2, <1>4 DEF Init, IInv, StoppedEnded

-----------------------------------------------------------------------------
(* One step of each kind.                                                  *)

LEMMA ActiveRuns ==
    ASSUME IInv, NEW p \in Processors, active = p
    PROVE  thread[p] # "ended" /\ ~ac_stop_flag[p]
BY DEF IInv, TypeOK, ThreadOK, StoppedEnded

\* A thread that stops between two instructions.
LEMMA StopStep ==
    ASSUME IInv, NEW p \in Processors, AtFetch(p), Stop(p), Ends(p),
           UNCHANGED <<setup, ac_pc, instr_in_batch, portVars, mem>>
    PROVE  IInv'
<1> USE DEF portVars
<1>1. RunningCount'
  BY ActiveRuns, StopCounts DEF IInv, AtFetch
<1>2. StoppedEnded'
  BY DEF IInv, TypeOK, StoppedEnded, Stop, Ends
<1>3. ASSUME NEW q \in Processors PROVE ThreadOK(q)'
  <2>1. CASE q = p
    <3>1. thread'[p] = "ended" /\ active' # p /\ beat[p] = 0
      BY PlatformAssumption DEF Ends, IInv, TypeOK, AtFetch
    <3>2. ThreadOK(p)
      BY DEF IInv, TypeOK
    <3>3. UNCHANGED <<setup, ac_pc, beat, served, buf>>
      OBVIOUS
    <3>4. QED BY <2>1, <3>1, <3>2, <3>3
               DEF ThreadOK, InBounds, Fetched, Program, Kind, Span
  <2>2. CASE q # p
    <3>1. thread'[q] = thread[q] /\ active' # q
      BY <2>2, PlatformAssumption DEF Ends, IInv, TypeOK
    <3>2. ThreadOK(q)
      BY DEF IInv, TypeOK
    <3>3. QED BY <3>1, <3>2, ThreadUntouched
  <2>3. QED BY <2>1, <2>2
<1>4. TypeOK'
  <2>1. /\ ac_stop_flag' \in [Processors -> BOOLEAN] /\ sc_stopped' \in BOOLEAN
        /\ thread' \in [Processors -> {"ready", "timed", "blocked", "ended"}]
        /\ active' \in Processors \cup {None}
    BY DEF IInv, TypeOK, Stop, Ends
  <2>2. QED BY <1>3, <2>1 DEF IInv, TypeOK
<1>5. QED BY <1>1, <1>2, <1>4 DEF IInv

\* The steps that stop nobody keep the count.
LEMMA CountUntouched ==
    ASSUME IInv, UNCHANGED <<ac_stop_flag, stopVars>>
    PROVE  RunningCount'
BY DEF IInv, RunningCount, stopVars

\* The end of an instruction moves its thread only.
LEMMA UpdateMethodStep ==
    ASSUME IInv, NEW p \in Processors, active = p, thread[p] = "ready", UpdateMethod(p)
    PROVE  /\ instr_in_batch' \in [Processors -> 0..instr_batch_size]
           /\ thread' \in [Processors -> {"ready", "timed", "blocked", "ended"}]
           /\ \A q \in Processors : q # p => thread'[q] = thread[q] /\ active' # q
           /\ \/ thread'[p] = "ready" /\ active' = p
              \/ thread'[p] = "timed" /\ active' = None
<1>1. CASE instr_in_batch[p] < instr_batch_size
  <2>1. instr_in_batch[p] + 1 \in 0..instr_batch_size
    BY <1>1, PlatformAssumption DEF IInv, TypeOK
  <2>2. QED BY <1>1, <2>1 DEF UpdateMethod, IInv, TypeOK
<1>2. CASE ~(instr_in_batch[p] < instr_batch_size)
  <2>1. 0 \in 0..instr_batch_size
    BY PlatformAssumption
  <2>2. \A q \in Processors : active' # q
    BY <1>2, PlatformAssumption DEF UpdateMethod
  <2>3. QED BY <1>2, <2>1, <2>2 DEF UpdateMethod, IInv, TypeOK
<1>3. QED BY <1>1, <1>2

LEMMA ExecuteStep ==
    ASSUME IInv, NEW p \in Processors, Execute(p)
    PROVE  IInv'
<1> USE DEF portVars
<1>1. active = p /\ beat[p] = 0 /\ ThreadOK(p) /\ thread[p] = "ready"
  BY DEF IInv, TypeOK, ThreadOK, Execute, AtFetch
<1>2. /\ instr_in_batch' \in [Processors -> 0..instr_batch_size]
      /\ thread' \in [Processors -> {"ready", "timed", "blocked", "ended"}]
      /\ \A q \in Processors : q # p => thread'[q] = thread[q] /\ active' # q
      /\ \/ thread'[p] = "ready" /\ active' = p
         \/ thread'[p] = "timed" /\ active' = None
  BY <1>1, UpdateMethodStep DEF Execute
<1>3. ac_pc' \in [Processors -> Nat] /\ ac_pc'[p] \in 1..Len(Program(p))' + 1
  BY PlatformAssumption DEF Execute, IInv, TypeOK, InBounds, Program
<1>4. ASSUME NEW q \in Processors PROVE ThreadOK(q)'
  <2>1. CASE q = p
    <3>1. beat'[p] = 0 /\ ~served'[p] /\ active' \in {p, None}
      BY <1>1, <1>2 DEF ThreadOK, Execute
    <3>2. QED BY <1>2, <1>3, <2>1, <3>1, PlatformAssumption DEF ThreadOK
  <2>2. CASE q # p
    <3>1. ac_pc'[q] = ac_pc[q] /\ thread'[q] = thread[q] /\ active' # q
      BY <1>2, <2>2 DEF Execute, IInv, TypeOK
    <3>2. ThreadOK(q)
      BY DEF IInv, TypeOK
    <3>3. QED BY <3>1, <3>2, ThreadUntouched DEF Execute
  <2>3. QED BY <2>1, <2>2
<1>5. TypeOK'
  <2>1. active' \in Processors \cup {None}
    BY <1>2
  <2>2. QED BY <1>2, <1>3, <1>4, <2>1 DEF IInv, TypeOK, Execute, stopVars
<1>6. StoppedEnded'
  BY <1>1, <1>2, ActiveRuns DEF StoppedEnded, IInv, Execute
<1>7. QED BY <1>5, <1>6, CountUntouched DEF IInv, Execute

LEMMA TransportStep ==
    ASSUME IInv, NEW p \in Processors, Transport(p)
    PROVE  IInv'
<1>1. ThreadOK(p) /\ active = p /\ InBounds(p) /\ IsAccess(Fetched(p))
  BY DEF IInv, TypeOK, Transport
<1>2. /\ beat' \in [Processors -> 0..2] /\ beat'[p] = beat[p] + 1
      /\ beat'[p] =< Len(Beats(Fetched(p)))
  <2>1. /\ Len(Beats(Fetched(p))) \in 1..2 /\ beat \in [Processors -> 0..2]
        /\ beat[p] < Len(Beats(Fetched(p))) /\ beat' = [beat EXCEPT ![p] = beat[p] + 1]
    BY BeatsShape DEF Transport, IInv, TypeOK
  <2>2. QED BY <2>1
<1>3. /\ thread' \in [Processors -> {"ready", "timed", "blocked", "ended"}]
      /\ thread'[p] = "blocked" /\ served' \in [Processors -> BOOLEAN] /\ ~served'[p]
      /\ active' = IF Kind(p) = "nb" THEN None ELSE p
  BY DEF Transport, IInv, TypeOK
<1>4. ASSUME NEW q \in Processors PROVE ThreadOK(q)'
  <2>1. CASE q = p
    <3>1. beat'[p] = 2 => buf[p] \in [Span(p, Fetched(p)) -> Nat]
      <4> SUFFICES ASSUME beat'[p] = 2 PROVE buf[p] \in [Span(p, Fetched(p)) -> Nat]
        OBVIOUS
      <4>1. beat[p] = 1 /\ served[p] /\ Len(Beats(Fetched(p))) = 2
        <5>1. Len(Beats(Fetched(p))) \in 1..2 /\ beat[p] \in 0..2
          BY BeatsShape DEF IInv, TypeOK
        <5>2. beat[p] + 1 = 2 /\ beat[p] < Len(Beats(Fetched(p)))
          BY <1>2 DEF Transport
        <5>3. beat[p] = 1 /\ beat[p] # 0 /\ Len(Beats(Fetched(p))) = 2
          <6> DEFINE k == beat[p]
                     n == Len(Beats(Fetched(p)))
          <6>1. k \in 0..2 /\ n \in 1..2 /\ k + 1 = 2 /\ k < n
            BY <5>1, <5>2
          <6> HIDE DEF k, n
          <6>2. k = 1 /\ k # 0 /\ n = 2
            BY <6>1
          <6>3. QED BY <6>2 DEF k, n
        <5>4. served[p]
          BY <5>3 DEF Transport
        <5>5. QED BY <5>3, <5>4
      <4>2. Beats(Fetched(p))[1] = "READ"
        BY <4>1, BeatsShape
      <4>3. QED BY <1>1, <4>1, <4>2 DEF ThreadOK
    <3>2. /\ Fetched(p)' = Fetched(p) /\ Span(p, Fetched(p))' = Span(p, Fetched(p))
          /\ Kind(p)' = Kind(p) /\ InBounds(p)' /\ buf' = buf /\ Program(p)' = Program(p)
          /\ ac_pc' = ac_pc
      BY <1>1 DEF Transport, procVars, Fetched, Program, Kind, Span, InBounds
    <3>3. beat'[p] > 0 /\ beat[p] \in 0..2
      BY <1>2 DEF IInv, TypeOK
    <3>4. active' = p => Kind(p)' # "nb"
      BY <1>3, <3>2, PlatformAssumption
    <3>5. Beats(Fetched(p))' = Beats(Fetched(p))
      BY <3>2 DEF Beats
    <3>6. QED BY <1>1, <1>2, <1>3, <2>1, <3>1, <3>2, <3>3, <3>4, <3>5 DEF ThreadOK
  <2>2. CASE q # p
    <3>1. /\ beat'[q] = beat[q] /\ served'[q] = served[q] /\ thread'[q] = thread[q]
          /\ active' # q
      BY <1>3, <2>2, PlatformAssumption DEF Transport, IInv, TypeOK
    <3>2. ThreadOK(q)
      BY DEF IInv, TypeOK
    <3>3. QED BY <3>1, <3>2, ThreadUntouched DEF Transport, procVars
  <2>3. QED BY <2>1, <2>2
<1>5. TypeOK'
  <2>1. active' \in Processors \cup {None}
    BY <1>3
  <2>2. QED BY <1>2, <1>3, <1>4, <2>1 DEF IInv, TypeOK, Transport, procVars, stopVars
<1>6. StoppedEnded'
  BY <1>1, <1>3, ActiveRuns DEF StoppedEnded, IInv, TypeOK, Transport, procVars
<1>7. QED BY <1>5, <1>6, CountUntouched DEF IInv, Transport, procVars

LEMMA FinishStep ==
    ASSUME IInv, NEW p \in Processors, Finish(p)
    PROVE  IInv'
<1>1. /\ ThreadOK(p) /\ active = p /\ served[p] /\ beat[p] > 0 /\ InBounds(p)
      /\ thread[p] = "ready"
  <2>1. beat[p] > 0
    <3>1. Len(Beats(Fetched(p))) \in 1..2 /\ beat[p] = Len(Beats(Fetched(p)))
      BY BeatsShape DEF Finish
    <3>2. QED BY <3>1
  <2>2. QED BY <2>1 DEF IInv, TypeOK, ThreadOK, Finish
<1>2. /\ instr_in_batch' \in [Processors -> 0..instr_batch_size]
      /\ thread' \in [Processors -> {"ready", "timed", "blocked", "ended"}]
      /\ \A q \in Processors : q # p => thread'[q] = thread[q] /\ active' # q
      /\ \/ thread'[p] = "ready" /\ active' = p
         \/ thread'[p] = "timed" /\ active' = None
  BY <1>1, UpdateMethodStep DEF Finish
<1>3. ac_pc' \in [Processors -> Nat] /\ ac_pc'[p] \in 1..Len(Program(p))' + 1
  <2>1. ac_pc'[p] \in {ac_pc[p], ac_pc[p] + 1} /\ ac_pc[p] \in Nat
    BY DEF Finish, IInv, TypeOK
  <2>2. ac_pc' \in [Processors -> Nat]
    BY DEF Finish, IInv, TypeOK
  <2>3. Program(p)' = Program(p) /\ Len(Program(p)) \in Nat
    BY PlatformAssumption DEF Finish, Program, IInv, TypeOK
  <2>4. QED BY <1>1, <2>1, <2>2, <2>3 DEF InBounds
<1>4. /\ beat' \in [Processors -> 0..2] /\ beat'[p] = 0
      /\ served' \in [Processors -> BOOLEAN] /\ ~served'[p]
      /\ buf' = [q \in Processors |-> buf'[q]]
  <2>1. buf' = [buf EXCEPT ![p] = <<>>] /\ buf = [q \in Processors |-> buf[q]]
    BY DEF Finish, IInv, TypeOK
  <2>2. buf' = [q \in Processors |-> IF q = p THEN <<>> ELSE buf[q]]
    BY <2>1
  <2>3. buf' = [q \in Processors |-> buf'[q]]
    BY <2>2
  <2>4. QED BY <2>3 DEF Finish, IInv, TypeOK
<1>5. ASSUME NEW q \in Processors PROVE ThreadOK(q)'
  <2>1. CASE q = p
    BY <1>2, <1>3, <1>4, <2>1, PlatformAssumption DEF ThreadOK
  <2>2. CASE q # p
    <3>1. /\ ac_pc'[q] = ac_pc[q] /\ thread'[q] = thread[q] /\ active' # q
          /\ beat'[q] = beat[q] /\ served'[q] = served[q] /\ buf'[q] = buf[q]
      BY <1>2, <2>2 DEF Finish, IInv, TypeOK
    <3>2. ThreadOK(q)
      BY DEF IInv, TypeOK
    <3>3. QED BY <3>1, <3>2, ThreadUntouched DEF Finish
  <2>3. QED BY <2>1, <2>2
<1>6. TypeOK'
  <2>1. active' \in Processors \cup {None}
    BY <1>2
  <2>2. QED BY <1>2, <1>3, <1>4, <1>5, <2>1 DEF IInv, TypeOK, Finish, stopVars
<1>7. StoppedEnded'
  BY <1>1, <1>2, ActiveRuns DEF StoppedEnded, IInv, Finish
<1>8. QED BY <1>6, <1>7, CountUntouched DEF IInv, Finish

\* The answer to a call: what was read has the bytes of the call, and what is
\* written is a value for each of them.
LEMMA CarriedTyped ==
    ASSUME TypeOK, NEW p \in Processors, InBounds(p), IsAccess(Fetched(p)),
           Fetched(p).do = "store",
           beat[p] = 2 \/ Kind(p) # "tlm1" \/ Fetched(p).size = WordBytes
    PROVE  Carried(p, Fetched(p)) \in [Span(p, Fetched(p)) -> Nat]
<1>1. Fetched(p).value \in Nat
  BY FetchedIsInstruction DEF IsInstruction
<1>2. ASSUME NEW b \in Span(p, Fetched(p)), b \notin Bytes(Fetched(p))
      PROVE  buf[p][b] \in Nat
  <2>1. CASE beat[p] = 2
    BY <1>2, <2>1 DEF TypeOK, ThreadOK
  <2>2. CASE Kind(p) # "tlm1"
    BY <1>2, <2>2 DEF Span
  <2>3. CASE Fetched(p).size = WordBytes
    BY <1>2, <2>3 DEF Span, Bytes
  <2>4. QED BY <2>1, <2>2, <2>3
<1>3. QED BY <1>1, <1>2 DEF Carried

LEMMA ServeStep ==
    ASSUME IInv, NEW p \in Processors, Serve(p)
    PROVE  IInv'
<1> DEFINE op == Fetched(p)
<1>1. /\ ThreadOK(p) /\ thread[p] = "blocked" /\ ~served[p] /\ beat[p] > 0
      /\ InBounds(p) /\ IsAccess(op) /\ beat[p] =< Len(Beats(op))
  BY DEF IInv, TypeOK, ThreadOK, Serve, Outstanding
<1>2. /\ served' \in [Processors -> BOOLEAN] /\ served'[p]
      /\ thread' \in [Processors -> {"ready", "timed", "blocked", "ended"}]
      /\ thread'[p] = "ready" /\ UNCHANGED <<setup, active, ac_pc, beat>>
  BY DEF IInv, TypeOK, Serve, procVars
<1>3. Fetched(p)' = Fetched(p) /\ Span(p, op)' = Span(p, op) /\ InBounds(p)'
      /\ Program(p)' = Program(p)
  BY <1>1, <1>2 DEF Fetched, Program, Kind, Span, InBounds
<1>4. Span(p, op) \subseteq Addr
  BY <1>1, SpanInMemory DEF IInv
<1>5. /\ mem' \in [Addr -> Nat] /\ buf' = [q \in Processors |-> buf'[q]]
      /\ \A q \in Processors : q # p => buf'[q] = buf[q]
      /\ beat[p] = 2 \/ Beats(op)[1] = "READ" => buf'[p] \in [Span(p, op) -> Nat]
  <2>1. Len(Beats(op)) \in 1..2 /\ beat[p] \in 0..2
    BY BeatsShape DEF IInv, TypeOK
  <2>2. CASE Beats(op)[beat[p]] = "READ"
    <3>1. mem' = mem /\ buf' = [buf EXCEPT ![p] = [b \in Span(p, op) |-> mem[b]]]
      BY <2>2 DEF Serve
    <3>2. [b \in Span(p, op) |-> mem[b]] \in [Span(p, op) -> Nat]
      BY <1>4 DEF IInv, TypeOK
    <3>3. buf = [q \in Processors |-> buf[q]] /\ mem \in [Addr -> Nat]
      BY DEF IInv, TypeOK
    <3>4. buf' = [q \in Processors |->
                     IF q = p THEN [b \in Span(p, op) |-> mem[b]] ELSE buf[q]]
      BY <3>1, <3>3
    <3> HIDE DEF op
    <3>5. buf'[p] = [b \in Span(p, op) |-> mem[b]] /\ buf' = [q \in Processors |-> buf'[q]]
          /\ \A q \in Processors : q # p => buf'[q] = buf[q]
      BY <3>4
    <3>6. QED BY <3>1, <3>2, <3>3, <3>5
  <2>3. CASE Beats(op)[beat[p]] # "READ"
    <3>1. /\ buf' = buf
          /\ mem' = [b \in Addr |-> IF b \in Span(p, op) THEN Carried(p, op)[b] ELSE mem[b]]
      BY <2>3 DEF Serve
    <3>2. /\ op.do = "store"
          /\ beat[p] = 2 \/ op.size = WordBytes
      BY <1>1, <2>1, <2>3 DEF Beats
    <3>3. Carried(p, op) \in [Span(p, op) -> Nat]
      BY <1>1, <3>2, CarriedTyped DEF IInv
    <3>4. mem' \in [Addr -> Nat]
      BY <3>1, <3>3 DEF IInv, TypeOK
    <3>5. beat[p] = 2 => buf[p] \in [Span(p, op) -> Nat]
      BY <1>1 DEF ThreadOK
    <3>6. beat[p] # 2 => Beats(op)[1] # "READ"
      BY <1>1, <2>1, <2>3
    <3>7. QED BY <3>1, <3>4, <3>5, <3>6 DEF IInv, TypeOK
  <2>4. QED BY <2>2, <2>3
<1>6. ASSUME NEW q \in Processors PROVE ThreadOK(q)'
  <2>1. CASE q = p
    <3>1. Beats(op)' = Beats(op)
      BY <1>3 DEF Beats
    <3>2. QED BY <1>1, <1>2, <1>3, <1>5, <2>1, <3>1 DEF ThreadOK
  <2>2. CASE q # p
    <3>1. served'[q] = served[q] /\ thread'[q] = thread[q] /\ buf'[q] = buf[q]
      BY <1>5, <2>2 DEF Serve, IInv, TypeOK
    <3>2. ThreadOK(q)
      BY DEF IInv, TypeOK
    <3>3. QED BY <1>2, <3>1, <3>2, ThreadUntouched
  <2>3. QED BY <2>1, <2>2
<1>7. TypeOK'
  BY <1>2, <1>5, <1>6 DEF IInv, TypeOK, Serve, procVars, stopVars
<1>8. StoppedEnded'
  BY <1>1 DEF StoppedEnded, IInv, TypeOK, Serve, procVars
<1>9. QED BY <1>7, <1>8, CountUntouched DEF IInv, Serve, procVars

LEMMA TargetWaitsStep ==
    ASSUME IInv, NEW p \in Processors, TargetWaits(p)
    PROVE  IInv'
<1> USE DEF procVars, stopVars, portVars
<1>1. ASSUME NEW q \in Processors PROVE ThreadOK(q)'
  BY ThreadUntouched, PlatformAssumption DEF TargetWaits, IInv, TypeOK
<1>2. TypeOK'
  BY <1>1 DEF IInv, TypeOK, TargetWaits
<1>3. StoppedEnded' /\ RunningCount'
  BY DEF IInv, StoppedEnded, RunningCount, TargetWaits
<1>4. QED BY <1>2, <1>3 DEF IInv

LEMMA DispatchStep ==
    ASSUME IInv, NEW p \in Processors, Dispatch(p)
    PROVE  IInv'
<1> USE DEF procVars, stopVars, portVars
<1>1. ASSUME NEW q \in Processors PROVE ThreadOK(q)'
  <2>1. CASE q = p
    BY <2>1 DEF Dispatch, IInv, TypeOK, ThreadOK, InBounds, Fetched, Program, Kind, Span
  <2>2. CASE q # p
    BY <2>2, ThreadUntouched DEF Dispatch, IInv, TypeOK
  <2>3. QED BY <2>1, <2>2
<1>2. TypeOK'
  BY <1>1 DEF IInv, TypeOK, Dispatch
<1>3. StoppedEnded' /\ RunningCount'
  BY DEF IInv, StoppedEnded, RunningCount, Dispatch
<1>4. QED BY <1>2, <1>3 DEF IInv

LEMMA AdvanceStep ==
    ASSUME IInv, Advance
    PROVE  IInv'
<1> USE DEF procVars, stopVars, portVars
<1>1. /\ thread' \in [Processors -> {"ready", "timed", "blocked", "ended"}]
      /\ \A q \in Processors : /\ thread'[q] # "timed"
                               /\ thread'[q] = thread[q] \/
                                     (thread[q] = "timed" /\ thread'[q] = "ready")
  BY DEF Advance, IInv, TypeOK
<1>2. ASSUME NEW q \in Processors PROVE ThreadOK(q)'
  <2>1. ThreadOK(q) /\ active' # q
    BY PlatformAssumption DEF Advance, IInv, TypeOK
  <2>2. beat[q] = 0 \/ thread'[q] = thread[q]
    BY <1>1, <2>1 DEF ThreadOK
  <2>3. QED BY <1>1, <2>1, <2>2
             DEF Advance, ThreadOK, InBounds, Fetched, Program, Kind, Span
<1>3. TypeOK'
  BY <1>1, <1>2 DEF IInv, TypeOK, Advance
<1>4. StoppedEnded' /\ RunningCount'
  BY <1>1 DEF IInv, StoppedEnded, RunningCount, Advance
<1>5. QED BY <1>3, <1>4 DEF IInv

LEMMA StutterStep == ASSUME IInv, UNCHANGED vars PROVE IInv'
BY DEF IInv, TypeOK, ThreadOK, InBounds, Fetched, Program, Kind, Span, RunningCount,
       StoppedEnded, vars, procVars, stopVars, portVars

LEMMA IInvStep == IInv /\ [Next]_vars => IInv'
<1> SUFFICES ASSUME IInv, [Next]_vars PROVE IInv'
  OBVIOUS
<1>1. ASSUME NEW p \in Processors, FetchFails(p) PROVE IInv'
  BY <1>1, StopStep DEF FetchFails
<1>2. ASSUME NEW p \in Processors, ExitCall(p) PROVE IInv'
  BY <1>2, StopStep DEF ExitCall
<1>3. CASE UNCHANGED vars
  BY <1>3, StutterStep
<1>4. QED
  BY <1>1, <1>2, <1>3, ExecuteStep, TransportStep, FinishStep, ServeStep,
     TargetWaitsStep, DispatchStep, AdvanceStep
  DEF Next, Kernel, Processor

-----------------------------------------------------------------------------
\* Types, and that a thread waits for an answer exactly while one is missing,
\* for every number of processors, every program and every mix of ports.
THEOREM TypeCorrect == Spec => []TypeOK
<1>1. IInv => TypeOK
  BY DEF IInv
<1>2. QED BY <1>1, InitIInv, IInvStep, PTL DEF Spec

\* Whatever way the processors stop, running_mods counts those that have not,
\* and sc_stop() is called with the last of them.
THEOREM CountIsExact == Spec => []RunningCount
<1>1. IInv => RunningCount
  BY DEF IInv
<1>2. QED BY <1>1, InitIInv, IInvStep, PTL DEF Spec

-----------------------------------------------------------------------------
(* Without ac_tlm_port a call transfers the bytes of its access and nothing *)
(* else, so the platform implements SharedMemory: a load and a store take   *)
(* effect when the last call of the access is answered.                     *)

SharedStep ==
    [Shared!Next]_<<mem, [p \in Processors |-> Access(p)], [p \in Processors |-> Got(p)]>>

NoWordPort == \A s \in Setups, p \in Processors : s.port[p] # "tlm1"

LEMMA InitRefines == ASSUME Init PROVE Shared!Init
BY DEF Init, Shared!Init, Access, Got, TookEffect, Shared!None, Shared!Pending

\* What SharedMemory sees of a processor follows from these variables.
LEMMA ViewUntouched ==
    ASSUME NEW q, UNCHANGED setup, beat'[q] = beat[q], served'[q] = served[q],
           beat[q] > 0 => ac_pc'[q] = ac_pc[q] /\ buf'[q] = buf[q], beat[q] \in Nat
    PROVE  Access(q)' = Access(q) /\ Got(q)' = Got(q)
<1>1. CASE beat[q] = 0
  BY <1>1 DEF Access, Got, TookEffect
<1>2. CASE beat[q] > 0
  <2>1. Fetched(q)' = Fetched(q) /\ buf'[q] = buf[q]
    BY <1>2 DEF Fetched, Program
  <2>2. Beats(Fetched(q))' = Beats(Fetched(q)) /\ Bytes(Fetched(q))' = Bytes(Fetched(q))
        /\ AccessOf(Fetched(q))' = AccessOf(Fetched(q))
    BY <2>1 DEF Beats, Bytes, AccessOf
  <2>3. QED BY <2>1, <2>2 DEF Access, Got, TookEffect
<1>3. QED BY <1>1, <1>2

\* A step that leaves all views and the memory alone is a stutter.
LEMMA ViewsSame ==
    ASSUME \A q \in Processors : Access(q)' = Access(q) /\ Got(q)' = Got(q), mem' = mem
    PROVE  SharedStep
BY DEF SharedStep

\* The first call of an access starts it, the second changes nothing yet.
LEMMA TransportRefines ==
    ASSUME IInv, NEW p \in Processors, Transport(p)
    PROVE  SharedStep
<1> DEFINE op == Fetched(p)
<1>1. InBounds(p) /\ IsAccess(op) /\ mem' = mem /\ Fetched(p)' = op
  BY DEF Transport, Fetched, Program, procVars
<1>2. \A q \in Processors : q # p => Access(q)' = Access(q) /\ Got(q)' = Got(q)
  <2> SUFFICES ASSUME NEW q \in Processors, q # p
               PROVE  Access(q)' = Access(q) /\ Got(q)' = Got(q)
    OBVIOUS
  <2>1. /\ UNCHANGED setup /\ ac_pc'[q] = ac_pc[q] /\ buf'[q] = buf[q]
        /\ beat'[q] = beat[q] /\ served'[q] = served[q] /\ beat[q] \in Nat
    <3>1. /\ ac_pc \in [Processors -> Nat] /\ beat \in [Processors -> 0..2]
          /\ served \in [Processors -> BOOLEAN]
      BY DEF IInv, TypeOK
    <3>2. /\ beat' = [beat EXCEPT ![p] = @ + 1] /\ served' = [served EXCEPT ![p] = FALSE]
          /\ UNCHANGED <<setup, ac_pc, buf>>
      BY DEF Transport, procVars
    <3>3. QED BY <3>1, <3>2
  <2>2. QED BY <2>1, ViewUntouched
<1>3. beat'[p] = beat[p] + 1 /\ beat[p] \in 0..2 /\ served'[p] = FALSE
  BY DEF Transport, IInv, TypeOK
<1>4. Got(p)' = Shared!Pending /\ Access(p)' = AccessOf(op)
  <2>1. AccessOf(op)' = AccessOf(op)
    BY <1>1 DEF AccessOf
  <2>2. beat'[p] # 0
    BY <1>3
  <2>3. QED BY <1>1, <1>3, <2>1, <2>2 DEF Got, TookEffect, Access, Shared!Pending
<1>5. CASE beat[p] = 0
  <2>1. Access(p) = Shared!None
    BY <1>5 DEF Access, Shared!None
  <2>2. AccessOf(op) \in AccessSet
    <3>1. op \in UNION {{s.program[x][n] : n \in 1..Len(s.program[x])} :
                         s \in Setups, x \in Processors}
      <4>1. op \in {setup.program[p][n] : n \in 1..Len(setup.program[p])}
        BY <1>1 DEF InBounds, Fetched, Program
      <4>2. setup \in Setups
        BY DEF IInv, TypeOK
      <4> DEFINE Code(s, x) == {s.program[x][n] : n \in 1..Len(s.program[x])}
      <4>3. op \in Code(setup, p)
        BY <4>1
      <4> HIDE DEF Code, op
      <4>4. op \in UNION {Code(s, x) : s \in Setups, x \in Processors}
        BY <4>2, <4>3
      <4>5. QED BY <4>4 DEF Code
    <3>2. QED BY <1>1, <3>1 DEF AccessSet
  <2>3. Shared!Start(p)
    BY <1>1, <1>2, <1>4, <2>1, <2>2 DEF Shared!Start
  <2>4. QED BY <2>3 DEF Shared!Next, SharedStep
<1>6. CASE beat[p] # 0
  <2>1. Access(p) = AccessOf(op)
    BY <1>6 DEF Access
  <2>2. beat[p] # Len(Beats(op))
    BY <1>3 DEF Transport
  <2>3. Got(p) = Shared!Pending
    BY <2>2 DEF Got, TookEffect, Shared!Pending
  <2>4. QED BY <1>1, <1>2, <1>4, <2>1, <2>3, ViewsSame
<1>7. QED BY <1>5, <1>6

\* The answer to the last call is the moment the access takes effect.
LEMMA ServeRefines ==
    ASSUME NoWordPort, IInv, NEW p \in Processors, Serve(p)
    PROVE  SharedStep
<1> DEFINE op == Fetched(p)
<1>1. /\ beat[p] > 0 /\ ~served[p] /\ InBounds(p) /\ IsAccess(op) /\ beat[p] \in 0..2
      /\ beat[p] =< Len(Beats(op))
  BY DEF IInv, TypeOK, ThreadOK, Serve, Outstanding
<1>2. Fetched(p)' = op /\ beat' = beat /\ served'[p]
  BY DEF Serve, Fetched, Program, procVars, IInv, TypeOK
<1>3. \A q \in Processors : q # p => Access(q)' = Access(q) /\ Got(q)' = Got(q)
  <2>1. ASSUME NEW q \in Processors, q # p
        PROVE  served'[q] = served[q] /\ buf'[q] = buf[q]
    <3>1. CASE buf' = buf
      BY <2>1, <3>1 DEF Serve, IInv, TypeOK
    <3>2. CASE buf' = [buf EXCEPT ![p] = [b \in Span(p, op) |-> mem[b]]]
      <4>1. buf = [x \in Processors |-> buf[x]]
        BY DEF IInv, TypeOK
      <4>2. QED BY <2>1, <3>2, <4>1 DEF Serve, IInv, TypeOK
    <3>3. QED BY <3>1, <3>2 DEF Serve
  <2>2. ASSUME NEW q \in Processors, q # p
        PROVE  Access(q)' = Access(q) /\ Got(q)' = Got(q)
    <3>1. /\ UNCHANGED setup /\ ac_pc'[q] = ac_pc[q] /\ beat'[q] = beat[q]
          /\ beat[q] \in Nat
      BY DEF Serve, procVars, IInv, TypeOK
    <3>2. QED BY <2>1, <2>2, <3>1, ViewUntouched
  <2>3. QED BY <2>2
<1>4. Access(p) = AccessOf(op) /\ Access(p)' = AccessOf(op) /\ Got(p) = Shared!Pending
  <2>1. AccessOf(op)' = AccessOf(op)
    BY <1>2 DEF AccessOf
  <2>2. QED BY <1>1, <1>2, <2>1 DEF Access, Got, TookEffect, Shared!Pending
<1>5. Span(p, op) = Bytes(op)
  BY DEF Span, Kind, NoWordPort, IInv, TypeOK
<1>6. Bytes(op) \subseteq Addr /\ Shared!Bytes(AccessOf(op)) = Bytes(op)
  BY <1>1, FetchedIsInstruction
  DEF IInv, IsInstruction, IsAccess, AccessOf, Bytes, Shared!Bytes
<1>7. Beats(op)' = Beats(op) /\ Bytes(op)' = Bytes(op)
  BY <1>2 DEF Beats, Bytes
<1>8. CASE beat[p] # Len(Beats(op))
  <2>1. Got(p)' = Shared!Pending
    BY <1>2, <1>7, <1>8 DEF Got, TookEffect, Shared!Pending
  <2>2. beat[p] = 1 /\ Len(Beats(op)) = 2
    <3> DEFINE n == Len(Beats(op))
               k == beat[p]
    <3>1. n \in 1..2 /\ k \in 0..2 /\ k > 0 /\ k =< n /\ k # n
      BY <1>1, <1>8, BeatsShape
    <3> HIDE DEF n, k
    <3>2. k = 1 /\ n = 2
      BY <3>1
    <3>3. QED BY <3>2 DEF k, n
  <2>3. Beats(op)[beat[p]] = "READ"
    BY <2>2, BeatsShape
  <2>4. mem' = mem
    BY <2>3 DEF Serve
  <2>5. QED BY <1>3, <1>4, <2>1, <2>4, ViewsSame
<1>9. CASE beat[p] = Len(Beats(op)) /\ op.do # "store"
  <2>1. Beats(op)[beat[p]] = "READ"
    BY <1>9, BeatsShape
  <2>2. mem' = mem /\ buf' = [buf EXCEPT ![p] = [b \in Bytes(op) |-> mem[b]]]
    BY <1>5, <2>1 DEF Serve
  <2>3. buf'[p] = [b \in Bytes(op) |-> mem[b]]
    <3>1. buf = [x \in Processors |-> buf[x]]
      BY DEF IInv, TypeOK
    <3>2. buf' = [x \in Processors |-> IF x = p THEN [b \in Bytes(op) |-> mem[b]] ELSE buf[x]]
      BY <2>2, <3>1
    <3>3. QED BY <3>2
  <2>4. Got(p)' = [b \in Bytes(op) |-> mem[b]]
    BY <1>1, <1>2, <1>7, <1>9, <2>3 DEF Got, TookEffect
  <2>5. AccessOf(op).do = "load" /\ AccessOf(op) # Shared!None
    BY <1>9 DEF AccessOf, Shared!None
  <2>6. Shared!Load(p)
    BY <1>3, <1>4, <1>6, <2>2, <2>4, <2>5 DEF Shared!Load
  <2>7. QED BY <2>6 DEF Shared!Next, SharedStep
<1>10. CASE beat[p] = Len(Beats(op)) /\ op.do = "store"
  <2>1. Beats(op)[beat[p]] = "WRITE"
    BY <1>10, BeatsShape
  <2>2. mem' = [b \in Addr |-> IF b \in Bytes(op) THEN Carried(p, op)[b] ELSE mem[b]]
    BY <1>5, <2>1 DEF Serve
  <2>3. \A b \in Bytes(op) : Carried(p, op)[b] = op.value
    BY <1>5 DEF Carried
  <2>4. Got(p)' = Shared!Done
    BY <1>1, <1>2, <1>7, <1>10 DEF Got, TookEffect, Shared!Done
  <2>5. /\ AccessOf(op).do = "store" /\ AccessOf(op).value = op.value
        /\ AccessOf(op) # Shared!None
    BY <1>10 DEF AccessOf, Shared!None
  <2>6. Shared!Store(p)
    BY <1>3, <1>4, <1>6, <2>2, <2>3, <2>4, <2>5 DEF Shared!Store
  <2>7. QED BY <2>6 DEF Shared!Next, SharedStep
<1>11. QED BY <1>8, <1>9, <1>10

\* The end of the instruction is the end of its access.
LEMMA FinishRefines ==
    ASSUME IInv, NEW p \in Processors, Finish(p)
    PROVE  SharedStep
<1> DEFINE op == Fetched(p)
<1>1. beat[p] = Len(Beats(op)) /\ served[p] /\ mem' = mem
  BY DEF Finish
<1>2. beat[p] > 0 /\ beat[p] # 0
  <2> HIDE DEF op
  <2>1. Len(Beats(op)) \in 1..2
    BY BeatsShape
  <2>2. QED BY <1>1, <2>1
<1>3. Access(p) = AccessOf(op) /\ AccessOf(op) # Shared!None
  BY <1>2 DEF Access, AccessOf, Shared!None
<1>4. Got(p) # Shared!Pending
  <2>1. TookEffect(p)
    BY <1>1, <1>2 DEF TookEffect
  <2>2. CASE op.do = "store"
    BY <2>1, <2>2 DEF Got, Shared!Pending
  <2>3. CASE op.do # "store"
    <3>1. Got(p) = [b \in Bytes(op) |-> buf[p][b]]
      BY <2>1, <2>3 DEF Got
    <3>2. IsInstruction(op) /\ IsAccess(op)
      BY <1>2, FetchedIsInstruction DEF IInv, TypeOK, ThreadOK
    <3>3. op.addr \in Bytes(op)
      BY <3>2, PlatformAssumption DEF IsInstruction, IsAccess, Bytes
    <3>4. QED BY <3>1, <3>3 DEF Shared!Pending
  <2>4. QED BY <2>2, <2>3
<1>5. beat'[p] = 0
  BY DEF Finish, IInv, TypeOK
<1>6. Access(p)' = Shared!None /\ Got(p)' = Shared!Pending
  BY <1>5 DEF Access, Got, TookEffect, Shared!None, Shared!Pending
<1>7. \A q \in Processors : q # p => Access(q)' = Access(q) /\ Got(q)' = Got(q)
  <2> SUFFICES ASSUME NEW q \in Processors, q # p
               PROVE  Access(q)' = Access(q) /\ Got(q)' = Got(q)
    OBVIOUS
  <2>1. buf' = [buf EXCEPT ![p] = <<>>] /\ buf = [x \in Processors |-> buf[x]]
    BY DEF Finish, IInv, TypeOK
  <2>2. /\ UNCHANGED setup /\ ac_pc'[q] = ac_pc[q] /\ beat'[q] = beat[q]
        /\ served'[q] = served[q] /\ beat[q] \in Nat
    <3>1. /\ ac_pc \in [Processors -> Nat] /\ beat \in [Processors -> 0..2]
          /\ served \in [Processors -> BOOLEAN]
      BY DEF IInv, TypeOK
    <3>2. /\ \E v : ac_pc' = [ac_pc EXCEPT ![p] = v]
          /\ beat' = [beat EXCEPT ![p] = 0] /\ served' = [served EXCEPT ![p] = FALSE]
          /\ UNCHANGED setup
      BY DEF Finish
    <3>3. QED BY <3>1, <3>2
  <2>3. buf'[q] = buf[q]
    BY <2>1
  <2>4. QED BY <2>2, <2>3, ViewUntouched
<1>8. Shared!Finish(p)
  BY <1>1, <1>3, <1>4, <1>6, <1>7 DEF Shared!Finish
<1>9. QED BY <1>8 DEF Shared!Next, SharedStep

\* The other steps are outside every access.
LEMMA OutsideRefines ==
    ASSUME IInv, UNCHANGED <<setup, portVars, mem>>,
           \A q \in Processors : beat[q] > 0 => ac_pc'[q] = ac_pc[q]
    PROVE  SharedStep
<1>1. ASSUME NEW q \in Processors
      PROVE  Access(q)' = Access(q) /\ Got(q)' = Got(q)
  <2>1. beat[q] \in Nat /\ beat' = beat /\ served' = served /\ buf' = buf
    BY DEF portVars, IInv, TypeOK
  <2>2. QED BY <2>1, ViewUntouched
<1>2. QED BY <1>1, ViewsSame

LEMMA NextRefines ==
    ASSUME NoWordPort, IInv, [Next]_vars
    PROVE  SharedStep
<1>1. ASSUME NEW p \in Processors, Execute(p)
      PROVE  \A q \in Processors : beat[q] > 0 => ac_pc'[q] = ac_pc[q]
  BY <1>1 DEF Execute, AtFetch, IInv, TypeOK
<1>2. ASSUME NEW p \in Processors,
             FetchFails(p) \/ ExitCall(p) \/ TargetWaits(p) \/ Dispatch(p)
      PROVE  UNCHANGED <<setup, portVars, mem>> /\ ac_pc' = ac_pc
  BY <1>2 DEF FetchFails, ExitCall, TargetWaits, Dispatch, procVars
<1>3. CASE Advance \/ UNCHANGED vars
  BY <1>3, OutsideRefines DEF Advance, vars, procVars
<1>4. ASSUME NEW p \in Processors, Execute(p)
      PROVE  SharedStep
  BY <1>1, <1>4, OutsideRefines DEF Execute
<1>5. QED
  BY <1>2, <1>3, <1>4, OutsideRefines, TransportRefines, ServeRefines, FinishRefines
  DEF Next, Kernel, Processor

\* For every number of processors, every program and memory size: through
\* ac_tlm2_port and ac_tlm2_nb_port the processors share a memory of bytes
\* whose loads and stores take effect at once.
THEOREM SharedMemoryHolds == NoWordPort => (Spec => ImplementsShared)
<1> SUFFICES ASSUME NoWordPort PROVE Spec => ImplementsShared
  OBVIOUS
<1>1. Init => Shared!Init
  BY InitRefines
<1>2. IInv /\ [Next]_vars =>
          [Shared!Next]_<<mem, [p \in Processors |-> Access(p)], [p \in Processors |-> Got(p)]>>
  BY NextRefines DEF SharedStep
<1>3. QED
  BY <1>1, <1>2, InitIInv, IInvStep, PTL DEF Spec, ImplementsShared, Shared!Spec
=============================================================================
