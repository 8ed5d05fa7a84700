--------------------------- MODULE PipelineProof ---------------------------
(***************************************************************************)
(* Proofs about Pipeline, for every number of stages, every program and    *)
(* every choice of the instructions that stall.                            *)
(***************************************************************************)
EXTENDS Pipeline, SharedLemmas, TLAPS

USE DEF Stage, Addr, Nop, Entry

Datum    == Addr \cup {Nop, Size}
Contents == [data : Datum, new : Datum, en : BOOLEAN, req : BOOLEAN]
Control  == [flushNext : BOOLEAN, stallNow : BOOLEAN, stallNext : BOOLEAN, req : BOOLEAN]

\* The registers a behaviour may leave: a suspension is always with a request,
\* and no bubble is ever on its way into ac_pc.
Registers ==
    {r \in [Stage -> Contents] :
        /\ r[1].data # Nop /\ r[1].new # Nop
        /\ \A s \in Stage : r[s].en \/ r[s].req}

Requested ==
    \A s \in Stage : ctrl[s].stallNext \/ ctrl[s].flushNext => ctrl[s].req

Typed ==
    /\ TypeOK
    /\ reg \in Registers /\ ctrl \in [Stage -> Control] /\ Requested
    /\ completed \in [addr : Datum, turn : {0, 1}]
    /\ pending = Stage => ~verify
    /\ WillStall => stalls < MaxStalls

-----------------------------------------------------------------------------
(* What the calls do to the registers.                                     *)

LEMMA Sizes == N \in Nat /\ N > 1 /\ 1 \in Stage /\ Size \in Nat /\ Size > 0
BY PipelineAssumption

LEMMA WrittenType ==
    ASSUME NEW r \in Contents, NEW v \in Datum
    PROVE  /\ Written(r, v) \in Contents
           /\ Written(r, v).data = r.data /\ Written(r, v).new = v
           /\ Written(r, v).en = r.en /\ Written(r, v).req
BY DEF Written, Contents

LEMMA SuspendedType ==
    ASSUME NEW r \in Contents
    PROVE  /\ Suspended(r) \in Contents
           /\ Suspended(r).data = r.data /\ Suspended(r).new = r.new
           /\ ~Suspended(r).en /\ Suspended(r).req
BY DEF Suspended, Contents

LEMMA PassesType ==
    ASSUME NEW r \in Registers, NEW s \in Stage, NEW v \in Datum
    PROVE  /\ Passes(r, s, v) \in Registers
           /\ \A k \in Stage : Passes(r, s, v)[k] =
                 IF k = s + 1 THEN Written(r[k], v) ELSE r[k]
<1> DEFINE q == Passes(r, s, v)
<1>1. r \in [Stage -> Contents]
  BY DEF Registers
<1>2. \A k \in Stage : q[k] = IF k = s + 1 THEN Written(r[k], v) ELSE r[k]
  BY <1>1, Sizes DEF Passes
<1>3. q \in [Stage -> Contents]
  BY <1>1, <1>2, WrittenType, Sizes DEF Passes
<1> HIDE DEF q
<1>4. \A k \in Stage : q[k].en \/ q[k].req
  BY <1>1, <1>2, WrittenType DEF Registers
<1>5. q[1] = r[1]
  BY <1>2, Sizes
<1>6. QED BY <1>2, <1>3, <1>4, <1>5 DEF Registers, q

LEMMA StallType ==
    ASSUME NEW r \in Registers, NEW s \in 1..N - 1
    PROVE  /\ StallRegs(r, s) \in Registers
           /\ \A k \in Stage : StallRegs(r, s)[k] =
                 IF k \in 2..s THEN Suspended(r[k])
                 ELSE IF k = s + 1 THEN Written(r[k], Nop) ELSE r[k]
<1> DEFINE p == Passes(r, s, Nop)
           q == StallRegs(r, s)
<1>1. s \in Stage /\ Nop \in Datum
  BY Sizes DEF Datum
<1>2. p \in Registers /\ \A k \in Stage : p[k] = IF k = s + 1 THEN Written(r[k], Nop) ELSE r[k]
  BY <1>1, PassesType
<1>3. \A k \in Stage : p[k] \in Contents
  BY <1>2 DEF Registers
<1>4. q = [k \in Stage |-> IF k \in 2..s THEN Suspended(p[k]) ELSE p[k]]
  BY DEF StallRegs
<1> HIDE DEF p, q
<1>5. q \in [Stage -> Contents]
  BY <1>3, <1>4, SuspendedType
<1>6. \A k \in Stage : q[k].en \/ q[k].req
  BY <1>2, <1>3, <1>4, SuspendedType DEF Registers
<1>7. q[1].data # Nop /\ q[1].new # Nop
  BY <1>2, <1>4, Sizes DEF Registers
<1>8. \A k \in Stage : q[k] = IF k \in 2..s THEN Suspended(r[k])
                              ELSE IF k = s + 1 THEN Written(r[k], Nop) ELSE r[k]
  BY <1>1, <1>2, <1>4
<1>9. QED BY <1>5, <1>6, <1>7, <1>8 DEF Registers, q

LEMMA FlushType ==
    ASSUME NEW r \in Registers, NEW s \in Stage
    PROVE  /\ FlushRegs(r, s) \in Registers
           /\ \A k \in Stage : FlushRegs(r, s)[k] =
                 IF k \in 2..s THEN Written(r[k], Nop) ELSE r[k]
<1> DEFINE q == FlushRegs(r, s)
<1>1. \A k \in Stage : r[k] \in Contents
  BY DEF Registers
<1>2. q = [k \in Stage |-> IF k \in 2..s THEN Written(r[k], Nop) ELSE r[k]]
  BY DEF FlushRegs
<1>3. Nop \in Datum
  BY DEF Datum
<1> HIDE DEF q
<1>4. q \in [Stage -> Contents]
  BY <1>1, <1>2, <1>3, WrittenType
<1>5. \A k \in Stage : q[k].en \/ q[k].req
  BY <1>1, <1>2, <1>3, WrittenType DEF Registers
<1>6. q[1].data # Nop /\ q[1].new # Nop
  BY <1>2, Sizes DEF Registers
<1>7. QED BY <1>2, <1>4, <1>5, <1>6 DEF Registers, q

\* A write into ac_pc, which is never a bubble.
LEMMA JumpType ==
    ASSUME NEW r \in Registers, NEW v \in Datum \ {Nop}
    PROVE  /\ [r EXCEPT ![1] = Written(@, v)] \in Registers
           /\ \A k \in Stage : [r EXCEPT ![1] = Written(@, v)][k] =
                 IF k = 1 THEN Written(r[k], v) ELSE r[k]
<1> DEFINE q == [r EXCEPT ![1] = Written(@, v)]
<1>1. \A k \in Stage : q[k] = IF k = 1 THEN Written(r[k], v) ELSE r[k]
  BY Sizes DEF Registers
<1>2. \A k \in Stage : r[k] \in Contents /\ Written(r[k], v) \in Contents
  BY WrittenType DEF Registers
<1>3. q \in [Stage -> Contents]
  BY <1>2, Sizes DEF Registers
<1> HIDE DEF q
<1>4. \A k \in Stage : q[k].en \/ q[k].req
  BY <1>1, <1>2, WrittenType DEF Registers
<1>5. q[1].data # Nop /\ q[1].new # Nop
  <2>1. r[1].data # Nop /\ q[1] = Written(r[1], v)
    BY <1>1, Sizes DEF Registers
  <2>2. QED BY <1>2, <2>1, WrittenType, Sizes DEF Registers
<1>6. QED BY <1>1, <1>3, <1>4, <1>5 DEF Registers, q

\* The update phase leaves neither a request nor a suspension.
LEMMA UpdatedType ==
    ASSUME NEW r \in Registers, NEW k \in Stage
    PROVE  /\ Updated(r[k]) \in Contents
           /\ Updated(r[k]).en /\ ~Updated(r[k]).req
           /\ Updated(r[k]).new = r[k].new
           /\ Updated(r[k]).data = IF r[k].req /\ r[k].en THEN r[k].new ELSE r[k].data
<1>1. r[k] \in Contents /\ (r[k].en \/ r[k].req)
  BY DEF Registers
<1>2. CASE ~r[k].req
  BY <1>1, <1>2 DEF Updated, Contents
<1>3. CASE r[k].req /\ r[k].en
  BY <1>1, <1>3 DEF Updated, Contents
<1>4. CASE r[k].req /\ ~r[k].en
  BY <1>1, <1>4 DEF Updated, Contents
<1>5. QED BY <1>2, <1>3, <1>4

-----------------------------------------------------------------------------
(* What the calls do to the controls.                                      *)

LEMMA BegunType ==
    ASSUME NEW c \in [Stage -> Control], NEW s \in Stage
    PROVE  /\ Begun(c, s) \in [Stage -> Control]
           /\ \A k \in Stage : /\ Begun(c, s)[k].stallNext <=> c[k].stallNext
                               /\ Begun(c, s)[k].flushNext <=> c[k].flushNext
                               /\ c[k].req => Begun(c, s)[k].req
BY DEF Begun, Control

LEMMA StallCtrlType ==
    ASSUME NEW c \in [Stage -> Control], NEW s \in Stage
    PROVE  /\ StallCtrl(c, s) \in [Stage -> Control]
           /\ \A k \in Stage :
                 /\ StallCtrl(c, s)[k].stallNext <=> k = s \/ c[k].stallNext
                 /\ StallCtrl(c, s)[k].flushNext <=> c[k].flushNext
                 /\ k = s \/ c[k].req => StallCtrl(c, s)[k].req
BY DEF StallCtrl, Control

LEMMA FlushCtrlType ==
    ASSUME NEW c \in [Stage -> Control], NEW s \in Stage
    PROVE  /\ FlushCtrl(c, s) \in [Stage -> Control]
           /\ \A k \in Stage :
                 /\ FlushCtrl(c, s)[k].stallNext <=> c[k].stallNext
                 /\ FlushCtrl(c, s)[k].flushNext <=> k < s \/ c[k].flushNext
                 /\ k < s \/ c[k].req => FlushCtrl(c, s)[k].req
BY DEF FlushCtrl, Control

LEMMA UpdatedCtrlType ==
    ASSUME NEW c \in Control
    PROVE  /\ UpdatedCtrl(c) \in Control
           /\ UpdatedCtrl(c).stallNext <=> c.stallNext /\ ~c.req
           /\ UpdatedCtrl(c).flushNext <=> c.flushNext /\ ~c.req
<1>1. CASE c.req
  BY <1>1 DEF UpdatedCtrl, Control
<1>2. CASE ~c.req
  BY <1>2 DEF UpdatedCtrl, Control
<1>3. QED BY <1>1, <1>2

-----------------------------------------------------------------------------
(* What each behaviour does, register by register.                         *)

\* Nothing is forgotten of the controls, and the flags change as given.
Marks(stalled, flushed) ==
    /\ ctrl' \in [Stage -> Control]
    /\ \A k \in Stage :
          /\ ctrl'[k].stallNext <=> k \in stalled \/ ctrl[k].stallNext
          /\ ctrl'[k].flushNext <=> k \in flushed \/ ctrl[k].flushNext
          /\ k \in stalled \cup flushed \/ ctrl[k].req => ctrl'[k].req

\* The instruction moves on.
Moves(s) ==
    /\ s # BranchStage \/ reg[s].data \notin DOMAIN target
    /\ Marks({}, {})
    /\ \A k \in Stage : reg'[k] = IF k = s + 1 THEN Written(reg[k], reg[s].data)
                                   ELSE reg[k]

\* It branches: the registers up to its own are flushed.
Branches(s) ==
    /\ s = BranchStage /\ reg[s].data \in DOMAIN target
    /\ Marks({}, 1..s - 1)
    /\ \A k \in Stage : reg'[k] =
          IF k = 1 THEN Written(reg[k], target[reg[s].data])
          ELSE IF k \in 2..s THEN Written(reg[k], Nop)
          ELSE IF k = s + 1 THEN Written(reg[k], reg[s].data)
          ELSE reg[k]

\* It stalls the stage behind it: the registers before its own are suspended.
Stalls(s) ==
    /\ reg[s].data \in MayStall[s] /\ stalls < MaxStalls
    /\ Marks({s - 1}, {})
    /\ \A k \in Stage : reg'[k] =
          IF k \in 2..s - 1 THEN Suspended(reg[k])
          ELSE IF k = s THEN Written(reg[k], Nop)
          ELSE IF k = s + 1 THEN Written(reg[k], reg[s].data)
          ELSE reg[k]

LEMMA ExecuteEffect ==
    ASSUME Typed, NEW s \in 2..N, Execute(s)
    PROVE  reg' \in Registers /\ (Moves(s) \/ Branches(s) \/ Stalls(s))
<1> DEFINE a == reg[s].data
<1>1. s \in Stage /\ reg \in Registers /\ ctrl \in [Stage -> Control] /\ a \in Datum
  BY Sizes DEF Typed, Registers, Contents
<1>2. CASE /\ s = BranchStage /\ a \in DOMAIN target
           /\ reg' = Passes(FlushRegs([reg EXCEPT ![1] = Written(@, target[a])], s), s, a)
           /\ ctrl' = Begun(FlushCtrl(ctrl, s), s)
  <2> DEFINE r1 == [reg EXCEPT ![1] = Written(@, target[a])]
             r2 == FlushRegs(r1, s)
             c1 == FlushCtrl(ctrl, s)
  <2>1. target[a] \in Datum \ {Nop}
    <3>1. target[a] \in Addr
      BY <1>2, PipelineAssumption DEF Typed, TypeOK
    <3>2. QED BY <3>1, Sizes DEF Datum
  <2>2. r1 \in Registers /\ \A k \in Stage : r1[k] =
           IF k = 1 THEN Written(reg[k], target[a]) ELSE reg[k]
    BY <1>1, <2>1, JumpType
  <2> HIDE DEF r1
  <2>3. r2 \in Registers /\ \A k \in Stage : r2[k] =
           IF k \in 2..s THEN Written(r1[k], Nop) ELSE r1[k]
    BY <1>1, <2>2, FlushType
  <2> HIDE DEF r2
  <2>4. reg' = Passes(r2, s, a)
    BY <1>2 DEF r1, r2
  <2>5. reg' \in Registers /\ \A k \in Stage : reg'[k] =
           IF k = s + 1 THEN Written(r2[k], a) ELSE r2[k]
    BY <1>1, <2>3, <2>4, PassesType
  <2>6. \A k \in Stage : reg'[k] =
           IF k = 1 THEN Written(reg[k], target[a])
           ELSE IF k \in 2..s THEN Written(reg[k], Nop)
           ELSE IF k = s + 1 THEN Written(reg[k], a)
           ELSE reg[k]
    BY <1>1, <2>2, <2>3, <2>5
  <2>7. /\ c1 \in [Stage -> Control]
        /\ \A k \in Stage : /\ c1[k].stallNext <=> ctrl[k].stallNext
                            /\ c1[k].flushNext <=> k < s \/ ctrl[k].flushNext
                            /\ k < s \/ ctrl[k].req => c1[k].req
    BY <1>1, FlushCtrlType
  <2> HIDE DEF c1
  <2>8. ctrl' = Begun(c1, s)
    BY <1>2 DEF c1
  <2>9. /\ ctrl' \in [Stage -> Control]
        /\ \A k \in Stage : /\ ctrl'[k].stallNext <=> c1[k].stallNext
                            /\ ctrl'[k].flushNext <=> c1[k].flushNext
                            /\ c1[k].req => ctrl'[k].req
    BY <1>1, <2>7, <2>8, BegunType
  <2>10. Marks({}, 1..s - 1)
    BY <2>7, <2>9, Sizes DEF Marks
  <2>11. QED BY <1>2, <2>5, <2>6, <2>10 DEF Branches
<1>3. CASE /\ a \in MayStall[s] /\ stalls < MaxStalls
           /\ reg' = Passes(StallRegs(reg, s - 1), s, a)
           /\ ctrl' = Begun(StallCtrl(ctrl, s - 1), s)
  <2> DEFINE r1 == StallRegs(reg, s - 1)
             c1 == StallCtrl(ctrl, s - 1)
  <2>1. s - 1 \in 1..N - 1 /\ s - 1 \in Stage
    BY Sizes
  <2>2. r1 \in Registers /\ \A k \in Stage : r1[k] =
           IF k \in 2..s - 1 THEN Suspended(reg[k])
           ELSE IF k = (s - 1) + 1 THEN Written(reg[k], Nop) ELSE reg[k]
    BY <1>1, <2>1, StallType
  <2> HIDE DEF r1
  <2>3. reg' = Passes(r1, s, a)
    BY <1>3 DEF r1
  <2>4. reg' \in Registers /\ \A k \in Stage : reg'[k] =
           IF k = s + 1 THEN Written(r1[k], a) ELSE r1[k]
    BY <1>1, <2>2, <2>3, PassesType
  <2>5. \A k \in Stage : reg'[k] =
           IF k \in 2..s - 1 THEN Suspended(reg[k])
           ELSE IF k = s THEN Written(reg[k], Nop)
           ELSE IF k = s + 1 THEN Written(reg[k], a)
           ELSE reg[k]
    BY <1>1, <2>2, <2>4
  <2>6. /\ c1 \in [Stage -> Control]
        /\ \A k \in Stage : /\ c1[k].stallNext <=> k = s - 1 \/ ctrl[k].stallNext
                            /\ c1[k].flushNext <=> ctrl[k].flushNext
                            /\ k = s - 1 \/ ctrl[k].req => c1[k].req
    BY <1>1, <2>1, StallCtrlType
  <2> HIDE DEF c1
  <2>7. ctrl' = Begun(c1, s)
    BY <1>3 DEF c1
  <2>8. /\ ctrl' \in [Stage -> Control]
        /\ \A k \in Stage : /\ ctrl'[k].stallNext <=> c1[k].stallNext
                            /\ ctrl'[k].flushNext <=> c1[k].flushNext
                            /\ c1[k].req => ctrl'[k].req
    BY <1>1, <2>6, <2>7, BegunType
  <2>9. Marks({s - 1}, {})
    BY <2>6, <2>8 DEF Marks
  <2>10. QED BY <1>3, <2>4, <2>5, <2>9 DEF Stalls
<1>4. CASE /\ s # BranchStage \/ a \notin DOMAIN target
           /\ reg' = Passes(reg, s, a) /\ ctrl' = Begun(ctrl, s)
  <2>1. reg' \in Registers /\ \A k \in Stage : reg'[k] =
           IF k = s + 1 THEN Written(reg[k], a) ELSE reg[k]
    BY <1>1, <1>4, PassesType
  <2>2. Marks({}, {})
    BY <1>1, <1>4, BegunType DEF Marks
  <2>3. QED BY <1>4, <2>1, <2>2 DEF Moves
<1>5. QED BY <1>2, <1>3, <1>4 DEF Execute

\* The first stage issues v and goes on to the address next.
Issues(next, v) ==
    \A k \in Stage : reg'[k] = IF k = 1 THEN Written(reg[k], next)
                              ELSE IF k = 2 THEN Written(reg[k], v)
                              ELSE reg[k]

LEMMA FetchEffect ==
    ASSUME Typed, Fetch
    PROVE  /\ reg' \in Registers /\ Marks({}, {})
           /\ \/ reg[1].data \in Addr \ SysCalls /\ Issues(reg[1].data + 1, reg[1].data)
              \/ reg[1].data \notin Addr /\ reg' = reg
              \/ /\ reg[1].data \in SysCalls /\ ~Drained
                 /\ \A k \in Stage : reg'[k] = IF k = 2 THEN Written(reg[k], Nop)
                                                       ELSE reg[k]
              \/ reg[1].data \in SysCalls /\ Drained /\ Issues(Return, Nop)
<1> DEFINE a == reg[1].data
           Jump(v) == [reg EXCEPT ![1] = Written(@, v)]
<1>1. /\ reg \in Registers /\ ctrl \in [Stage -> Control] /\ a \in Datum
      /\ Nop \in Datum /\ 2 \in Stage
  BY Sizes DEF Typed, Registers, Contents, Datum
<1>2. Marks({}, {})
  BY <1>1, BegunType, Sizes DEF Fetch, Marks
<1>3. ASSUME NEW next \in Datum \ {Nop}, NEW v \in Datum, reg' = Passes(Jump(next), 1, v)
      PROVE  reg' \in Registers /\ Issues(next, v)
  <2>1. Jump(next) \in Registers /\ \A k \in Stage : Jump(next)[k] =
           IF k = 1 THEN Written(reg[k], next) ELSE reg[k]
    BY <1>1, JumpType
  <2> HIDE DEF Jump
  <2>2. reg' \in Registers /\ \A k \in Stage : reg'[k] =
           IF k = 1 + 1 THEN Written(Jump(next)[k], v) ELSE Jump(next)[k]
    BY <1>3, <2>1, PassesType, Sizes
  <2>3. QED BY <2>1, <2>2 DEF Issues
<1>4. CASE FetchInstruction
  <2>1. a \in Addr \ SysCalls /\ reg' = Passes(Jump(a + 1), 1, a)
    BY <1>4 DEF FetchInstruction
  <2>2. a + 1 \in Datum \ {Nop}
    BY <2>1, Sizes DEF Datum
  <2>3. QED BY <1>1, <1>2, <1>3, <2>1, <2>2
<1>5. CASE FetchBeyond
  BY <1>1, <1>2, <1>5 DEF FetchBeyond
<1>6. CASE FetchSysCall
  <2>1. CASE ~Drained /\ reg' = Passes(reg, 1, Nop)
    <3>1. reg' \in Registers /\ \A k \in Stage : reg'[k] =
             IF k = 1 + 1 THEN Written(reg[k], Nop) ELSE reg[k]
      BY <1>1, <2>1, PassesType, Sizes
    <3>2. QED BY <1>2, <1>6, <2>1, <3>1 DEF FetchSysCall
  <2>2. CASE Drained /\ reg' = Passes(Jump(Return), 1, Nop)
    <3>1. Return \in Datum \ {Nop}
      BY PipelineAssumption, Sizes DEF Datum
    <3>2. QED BY <1>1, <1>2, <1>3, <1>6, <2>2, <3>1 DEF FetchSysCall
  <2>3. QED BY <1>6, <2>1, <2>2 DEF FetchSysCall
<1>7. QED BY <1>4, <1>5, <1>6 DEF Fetch

\* Whether a stage will stall is what its control says.
LEMMA WillStallMarks ==
    ASSUME NEW S, NEW F, Marks(S, F)
    PROVE  WillStall' <=> WillStall \/ S \cap 1..N - 1 # {}
BY Sizes DEF Marks, WillStall

LEMMA VerifyEffect ==
    ASSUME Typed, Verify
    PROVE  /\ reg' \in Registers
           /\ \A k \in Stage : reg'[k] = IF WillStall /\ k = 1 THEN Suspended(reg[k])
                                                             ELSE reg[k]
<1>1. reg \in Registers
  BY DEF Typed
<1>2. CASE WillStall
  <2>1. reg' = [reg EXCEPT ![1] = Suspended(@)]
    BY <1>2 DEF Verify
  <2>2. \A k \in Stage : reg'[k] = IF k = 1 THEN Suspended(reg[k]) ELSE reg[k]
    BY <1>1, <2>1, Sizes DEF Registers
  <2>3. \A k \in Stage : reg[k] \in Contents
    BY <1>1 DEF Registers
  <2>4. reg' \in [Stage -> Contents]
    BY <1>1, <2>1, <2>3, SuspendedType, Sizes DEF Registers
  <2>5. \A k \in Stage : reg'[k].en \/ reg'[k].req
    BY <1>1, <2>2, <2>3, SuspendedType DEF Registers
  <2>6. reg'[1].data # Nop /\ reg'[1].new # Nop
    BY <1>1, <2>2, <2>3, SuspendedType, Sizes DEF Registers
  <2>7. QED BY <1>2, <2>2, <2>4, <2>5, <2>6 DEF Registers
<1>3. CASE ~WillStall
  BY <1>1, <1>3 DEF Verify
<1>4. QED BY <1>2, <1>3

LEMMA UpdateEffect ==
    ASSUME Typed, Update
    PROVE  /\ reg' \in Registers /\ ctrl' \in [Stage -> Control]
           /\ \A k \in Stage :
                 /\ reg'[k].en /\ ~reg'[k].req
                 /\ reg'[k].data = IF reg[k].req /\ reg[k].en THEN reg[k].new
                                                             ELSE reg[k].data
           /\ \A k \in Stage :
                 /\ ctrl'[k].stallNext <=> ctrl[k].stallNext /\ ~ctrl[k].req
                 /\ ctrl'[k].flushNext <=> ctrl[k].flushNext /\ ~ctrl[k].req
<1>1. reg \in Registers /\ ctrl \in [Stage -> Control]
  BY DEF Typed
<1>2. \A k \in Stage : reg'[k] = Updated(reg[k]) /\ ctrl'[k] = UpdatedCtrl(ctrl[k])
  BY DEF Update
<1>3. reg' \in [Stage -> Contents] /\ ctrl' \in [Stage -> Control]
  BY <1>1, UpdatedType, UpdatedCtrlType DEF Update
<1>4. \A k \in Stage :
         /\ reg'[k].en /\ ~reg'[k].req
         /\ reg'[k].data = IF reg[k].req /\ reg[k].en THEN reg[k].new
                                                     ELSE reg[k].data
  BY <1>1, <1>2, UpdatedType
<1>5. \A k \in Stage :
         /\ ctrl'[k].stallNext <=> ctrl[k].stallNext /\ ~ctrl[k].req
         /\ ctrl'[k].flushNext <=> ctrl[k].flushNext /\ ~ctrl[k].req
  BY <1>1, <1>2, UpdatedCtrlType
<1>6. reg'[1].data # Nop /\ reg'[1].new # Nop
  <2>1. reg'[1].new = reg[1].new
    BY <1>1, <1>2, UpdatedType, Sizes
  <2>2. QED BY <1>1, <1>4, <2>1, Sizes DEF Registers
<1>7. \A k \in Stage : reg'[k].en \/ reg'[k].req
  BY <1>4
<1>8. reg' \in Registers
  BY <1>3, <1>6, <1>7 DEF Registers
<1>9. QED BY <1>3, <1>4, <1>5, <1>8

-----------------------------------------------------------------------------
(* Types.                                                                  *)

\* The order of the behaviours and the number of stalls are all that ties the
\* other variables together.
LEMMA RegistersTyped ==
    ASSUME NEW r \in Registers
    PROVE  /\ \A s \in Stage : r[s].data \in Addr \cup {Nop, Size}
           /\ r[1].data # Nop
BY DEF Registers, Contents, Datum

LEMMA RunsTyped ==
    ASSUME Typed, NEW s \in Stage, Runs(s), reg' \in Registers,
           NEW S, NEW F, Marks(S, F), S \cap 1..N - 1 # {} => stalls < MaxStalls,
           flushesLeft' \in 0..PathLength, UNCHANGED <<target, stalls>>,
           completed' \in [addr : Datum, turn : {0, 1}]
    PROVE  Typed'
<1>1. pending' \subseteq Stage /\ pending' # Stage /\ verify'
  BY DEF Runs, Typed, TypeOK
<1>2. WillStall' => stalls' < MaxStalls'
  BY WillStallMarks DEF Typed
<1>3. /\ target' \in Targets /\ stalls' \in 0..MaxStalls
      /\ ctrl' \in [Stage -> Control]
  BY DEF Typed, TypeOK, Marks
<1>4. /\ \A k \in Stage : reg'[k].data \in Addr \cup {Nop, Size}
      /\ reg'[1].data # Nop
  BY RegistersTyped
<1>5. verify' \in BOOLEAN
  BY DEF Runs
<1>6. TypeOK'
  BY <1>1, <1>3, <1>4, <1>5 DEF TypeOK
<1>7. Requested'
  BY DEF Typed, Requested, Marks
<1>8. QED BY <1>1, <1>2, <1>3, <1>6, <1>7 DEF Typed

LEMMA TypedStep == Typed /\ [Next]_vars => Typed'
<1> SUFFICES ASSUME Typed, [Next]_vars PROVE Typed'
  OBVIOUS
<1> DEFINE Ends == [addr : Datum, turn : {0, 1}]
<1>1. ASSUME NEW a \in Datum, Completes(a) PROVE completed' \in Ends
  BY <1>1 DEF Completes, Typed
<1>2. completed \in Ends /\ flushesLeft \in 0..PathLength
  BY DEF Typed, TypeOK
<1>3. CASE Fetch
  <2>1. Runs(1) /\ 1 \in Stage /\ UNCHANGED <<target, stalls>>
    BY <1>3, Sizes DEF Fetch
  <2>2. flushesLeft' \in 0..PathLength
    BY <1>2, <1>3, PipelineAssumption
    DEF Fetch, FetchInstruction, FetchBeyond, FetchSysCall, Drained
  <2>3. completed' \in Ends
    <3>1. SysCalls \subseteq Addr
      BY PipelineAssumption
    <3>2. QED BY <1>1, <1>2, <1>3, <3>1
              DEF Fetch, FetchInstruction, FetchBeyond, FetchSysCall, Datum
  <2>4. reg' \in Registers /\ Marks({}, {})
    BY <1>3, FetchEffect
  <2>5. QED BY <2>1, <2>2, <2>3, <2>4, RunsTyped
<1>4. ASSUME NEW s \in 2..N, Execute(s) PROVE Typed'
  <2>1. Runs(s) /\ s \in Stage /\ UNCHANGED <<target, stalls, flushesLeft>>
    BY <1>4, Sizes DEF Execute
  <2>2. completed' \in Ends
    <3>1. CASE s = N /\ reg[s].data # Nop
      <4>1. reg[s].data \in Datum
        BY <2>1 DEF Typed, Registers, Contents
      <4>2. QED BY <1>1, <1>4, <3>1, <4>1 DEF Execute
    <3>2. CASE ~(s = N /\ reg[s].data # Nop)
      BY <1>2, <1>4, <3>2 DEF Execute
    <3>3. QED BY <3>1, <3>2
  <2>3. PICK S, F : Marks(S, F) /\ (S \cap 1..N - 1 # {} => stalls < MaxStalls)
    <3>1. CASE Moves(s)
      BY <3>1 DEF Moves
    <3>2. CASE Branches(s)
      BY <3>2 DEF Branches
    <3>3. CASE Stalls(s)
      BY <3>3 DEF Stalls
    <3>4. QED BY <1>4, <3>1, <3>2, <3>3, ExecuteEffect
  <2>4. reg' \in Registers
    BY <1>4, ExecuteEffect
  <2>5. QED BY <1>2, <2>1, <2>2, <2>3, <2>4, RunsTyped
<1>5. CASE Verify
  <2>1. reg' \in Registers
    BY <1>5, VerifyEffect
  <2>2. /\ \A k \in Stage : reg'[k].data \in Addr \cup {Nop, Size}
        /\ reg'[1].data # Nop
    BY <2>1, RegistersTyped
  <2>3. pending' # Stage /\ ~verify' /\ pending' \subseteq Stage
    BY <1>5 DEF Verify, Typed, TypeOK
  <2>4. WillStall' <=> WillStall
    BY <1>5 DEF Verify, WillStall
  <2>5. TypeOK'
    BY <1>5, <2>2, <2>3 DEF Verify, Typed, TypeOK
  <2>6. Requested'
    BY <1>5 DEF Verify, Typed, Requested
  <2>7. QED BY <1>2, <1>5, <2>1, <2>3, <2>4, <2>5, <2>6 DEF Verify, Typed
<1>6. CASE Update
  <2>1. /\ reg' \in Registers /\ ctrl' \in [Stage -> Control]
        /\ \A k \in Stage : reg'[k].en /\ ~reg'[k].req
    BY <1>6, UpdateEffect
  <2>2. /\ \A k \in Stage : reg'[k].data \in Addr \cup {Nop, Size}
        /\ reg'[1].data # Nop
    BY <2>1, RegistersTyped
  <2>3. pending' = Stage /\ ~verify' /\ verify' \in BOOLEAN
    BY <1>6 DEF Update, Typed, TypeOK
  <2>4. stalls' \in 0..MaxStalls
    BY <1>6, PipelineAssumption DEF Update, Typed, TypeOK
  <2>5. TypeOK'
    BY <1>6, <2>1, <2>2, <2>3, <2>4 DEF Update, Typed, TypeOK
  <2>6. Requested' /\ ~WillStall'
    <3>1. \A k \in Stage : ~ctrl'[k].stallNext /\ ~ctrl'[k].flushNext
      BY <1>6, UpdateEffect DEF Typed, Requested
    <3>2. QED BY <3>1, Sizes DEF Requested, WillStall
  <2>7. QED BY <1>2, <1>6, <2>1, <2>3, <2>5, <2>6 DEF Update, Typed
<1>7. CASE UNCHANGED vars
  <2>1. WillStall' <=> WillStall
    BY <1>7 DEF vars, WillStall
  <2>2. QED BY <1>7, <2>1 DEF vars, Typed, TypeOK, Requested
<1>8. QED BY <1>3, <1>4, <1>5, <1>6, <1>7 DEF Next

LEMMA InitTyped == Init => Typed
<1> SUFFICES ASSUME Init PROVE Typed
  OBVIOUS
<1>1. 0 \in Datum \ {Nop} /\ Nop \in Datum
  BY Sizes DEF Datum
<1>2. \A v \in Datum :
         /\ Register(v) \in Contents
         /\ Register(v).data = v /\ Register(v).new = v
         /\ Register(v).en /\ ~Register(v).req
  BY DEF Register, Contents
<1>3. \A s \in Stage : reg[s] = Register(IF s = 1 THEN Entry ELSE Nop)
  BY DEF Init
<1>4. reg \in [Stage -> Contents]
  BY <1>1, <1>2 DEF Init
<1>5. \A s \in Stage : reg[s].en /\ ~reg[s].req
  BY <1>1, <1>2, <1>3
<1>6. reg[1].data # Nop /\ reg[1].new # Nop
  <2>1. reg[1] = Register(0)
    BY <1>3, Sizes
  <2>2. QED BY <1>1, <1>2, <2>1
<1>7. reg \in Registers
  BY <1>4, <1>5, <1>6 DEF Registers
<1>8. /\ \A s \in Stage : reg[s].data \in Addr \cup {Nop, Size}
      /\ reg[1].data # Nop
  BY <1>7, RegistersTyped
<1>9. TypeOK
  <2>1. target \in Targets /\ pending = Stage /\ verify = FALSE
    BY DEF Init
  <2>2. flushesLeft \in 0..PathLength /\ stalls \in 0..MaxStalls
    BY PipelineAssumption DEF Init
  <2>3. QED BY <1>5, <1>8, <2>1, <2>2 DEF TypeOK
<1>10. ctrl \in [Stage -> Control] /\ Requested /\ ~WillStall
  <2> DEFINE c == [flushNext |-> FALSE, stallNow |-> FALSE, stallNext |-> FALSE,
                   req |-> FALSE]
  <2>1. c \in Control /\ ~c.stallNext /\ ~c.flushNext
    BY DEF Control
  <2>2. ctrl = [s \in Stage |-> c]
    BY DEF Init
  <2> HIDE DEF c
  <2>3. \A s \in Stage : ctrl[s] = c
    BY <2>2
  <2>4. QED BY <2>1, <2>2, <2>3, Sizes DEF Requested, WillStall
<1>11. QED BY <1>1, <1>7, <1>9, <1>10 DEF Init, Typed

LEMMA AlwaysTyped == Spec => []Typed
BY InitTyped, TypedStep, PTL DEF Spec

\* Whatever the order of the behaviours in a cycle, the contents of the
\* registers have their ranges, no bubble ever gets into ac_pc, the two
\* counters stay in theirs, and at a clock edge no request and no suspension
\* is left over.
THEOREM TypeCorrect == Spec => []TypeOK
<1>1. Typed => TypeOK
  BY DEF Typed
<1>2. QED BY <1>1, AlwaysTyped, PTL

-----------------------------------------------------------------------------
(* Stalls and flushes, when the behaviours of a cycle run from the first   *)
(* stage to the last.                                                      *)

\* Where the cycle is: the stages before k have run.  The registers of the
\* others are as at the clock edge, but for the one stage k - 1 has written.
Unused(k) ==
    \A s \in Stage : /\ s >= k => reg[s].en
                     /\ s > k \/ k = 1 => ~reg[s].req

\* A stage that will stall was told so by the next one, which has run.  It and
\* those before it are suspended, ac_pc by ac_verify(), and what goes into the
\* next register, if anything does, is a bubble.
StallsHold(k) ==
    \A s \in 1..N - 1 : ctrl[s].stallNext =>
        /\ s + 1 < k
        /\ verify \/ ~reg[1].en
        /\ \A j \in 2..s : ~reg[j].en
        /\ reg[s + 1].en => reg[s + 1].new = Nop /\ reg[s + 1].req

Cycle(k) == pending = k..N /\ Unused(k) /\ StallsHold(k)

LEMMA InTurn ==
    ASSUME InOrder, Typed, NEW k \in 1..N + 1, Cycle(k), NEW s \in Stage, Runs(s)
    PROVE  s = k /\ k \in Stage /\ pending' = k + 1..N /\ verify'
<1>1. s \in k..N /\ \A j \in k..N : s <= j
  BY DEF Runs, Cycle
<1>2. s = k
  BY <1>1, Sizes
<1>3. QED BY <1>2, Sizes DEF Runs, Cycle

\* What a write and a suspension do, for the registers there are.
LEMMA Writes ==
    ASSUME Typed, NEW j \in Stage, NEW v \in Datum
    PROVE  /\ Written(reg[j], v).data = reg[j].data /\ Written(reg[j], v).new = v
           /\ Written(reg[j], v).en <=> reg[j].en
           /\ Written(reg[j], v).req
           /\ Suspended(reg[j]).data = reg[j].data
           /\ ~Suspended(reg[j]).en
           /\ Suspended(reg[j]).req
<1>1. reg[j] \in Contents
  BY DEF Typed, Registers
<1>2. QED BY <1>1, WrittenType, SuspendedType

LEMMA CycleFetch ==
    ASSUME Typed, Cycle(1), Fetch, pending' = 2..N
    PROVE  Cycle(2)'
<1>1. \A s \in Stage : s > 2 => reg'[s] = reg[s]
  BY FetchEffect DEF Issues
<1>2. \A s \in Stage : s >= 2 => reg'[s].en
  <2>1. \A s \in Stage : reg[s].en
    BY Sizes DEF Cycle, Unused
  <2>2. \A s \in Stage :
           s > 1 => reg'[s] = reg[s] \/ \E v \in Datum : reg'[s] = Written(reg[s], v)
    <3>1. reg[1].data \in Datum /\ Nop \in Datum
      BY Sizes DEF Typed, Registers, Contents, Datum
    <3>2. QED BY <3>1, FetchEffect DEF Issues
  <2>3. QED BY <2>1, <2>2, Writes, Sizes
<1>3. Unused(2)'
  BY <1>1, <1>2, Sizes DEF Cycle, Unused
<1>4. \A s \in 1..N - 1 : ~ctrl'[s].stallNext
  <2>1. \A s \in 1..N - 1 : ~ctrl[s].stallNext
    BY Sizes DEF Cycle, StallsHold
  <2>2. QED BY <2>1, FetchEffect, Sizes DEF Marks
<1>5. QED BY <1>3, <1>4 DEF Cycle, StallsHold

LEMMA CycleExecute ==
    ASSUME Typed, NEW k \in 2..N, Cycle(k), Execute(k), pending' = k + 1..N, verify'
    PROVE  Cycle(k + 1)'
<1>1. Moves(k) \/ Branches(k) \/ Stalls(k)
  BY ExecuteEffect
<1>2. /\ k \in Stage /\ reg[k].data \in Datum /\ Nop \in Datum
      /\ reg[k].data \in DOMAIN target => target[reg[k].data] \in Datum
  BY Sizes, PipelineAssumption DEF Typed, TypeOK, Registers, Contents, Datum
<1>3. Unused(k + 1)'
  <2> SUFFICES ASSUME NEW s \in Stage, s >= k + 1
               PROVE  reg'[s].en /\ (s > k + 1 => ~reg'[s].req)
    BY Sizes DEF Unused
  <2>1. reg[s].en /\ ~reg[s].req
    BY DEF Cycle, Unused
  <2>2. reg'[s] = IF s = k + 1 THEN Written(reg[s], reg[k].data) ELSE reg[s]
    BY <1>1 DEF Moves, Branches, Stalls
  <2>3. QED BY <1>2, <2>1, <2>2, Writes
<1>4. ASSUME NEW s \in 1..N - 1, ctrl'[s].stallNext
      PROVE  /\ s + 1 < k + 1
             /\ \A j \in 2..s : ~reg'[j].en
             /\ reg'[s + 1].en => reg'[s + 1].new = Nop /\ reg'[s + 1].req
  <2>1. s \in Stage /\ s + 1 \in Stage
    BY Sizes
  <2>2. CASE ctrl[s].stallNext
    <3>1. /\ s + 1 < k /\ \A j \in 2..s : ~reg[j].en
          /\ reg[s + 1].en => reg[s + 1].new = Nop /\ reg[s + 1].req
      BY <2>2 DEF Cycle, StallsHold
    <3>2. CASE Moves(k)
      <4>1. \A j \in 2..s + 1 : reg'[j] = reg[j]
        BY <3>1, <3>2, Sizes DEF Moves
      <4>2. QED BY <3>1, <4>1
    <3>3. CASE Branches(k)
      <4>1. \A j \in 2..s + 1 : reg'[j] = Written(reg[j], Nop) /\ j \in Stage
        BY <3>1, <3>3, Sizes DEF Branches
      <4>2. QED BY <1>2, <3>1, <4>1, Writes
    <3>4. CASE Stalls(k)
      <4>1. \A j \in 2..s + 1 : reg'[j] = Suspended(reg[j]) /\ j \in Stage
        BY <3>1, <3>4, Sizes DEF Stalls
      <4>2. \A j \in 2..s + 1 : ~reg'[j].en
        BY <1>2, <4>1, Writes
      <4>3. QED BY <3>1, <4>2
    <3>5. QED BY <1>1, <3>2, <3>3, <3>4
  <2>3. CASE ~ctrl[s].stallNext
    <3>1. Stalls(k) /\ s = k - 1
      BY <1>1, <1>4, <2>1, <2>3 DEF Moves, Branches, Stalls, Marks
    <3>2. \A j \in 2..s : reg'[j] = Suspended(reg[j]) /\ j \in Stage
      BY <3>1, Sizes DEF Stalls
    <3>3. reg'[s + 1] = Written(reg[s + 1], Nop)
      BY <1>2, <3>1 DEF Stalls
    <3>4. QED BY <1>2, <2>1, <3>1, <3>2, <3>3, Writes
  <2>4. QED BY <2>2, <2>3
<1>5. StallsHold(k + 1)'
  BY <1>4 DEF StallsHold
<1>6. QED BY <1>3, <1>5 DEF Cycle

LEMMA CycleVerify ==
    ASSUME Typed, NEW k \in 1..N + 1, Cycle(k), Verify
    PROVE  Cycle(k)'
<1>1. k # 1 /\ UNCHANGED <<pending, ctrl>>
  BY DEF Verify, Cycle, Typed
<1>2. \A s \in Stage : s # 1 => reg'[s] = reg[s]
  BY VerifyEffect
<1>3. Unused(k)'
  BY <1>1, <1>2 DEF Cycle, Unused
<1>4. ASSUME NEW s \in 1..N - 1, ctrl'[s].stallNext
      PROVE  /\ s + 1 < k /\ ~reg'[1].en
             /\ \A j \in 2..s : ~reg'[j].en
             /\ reg'[s + 1].en => reg'[s + 1].new = Nop /\ reg'[s + 1].req
  <2>1. WillStall /\ ctrl[s].stallNext
    BY <1>1, <1>4 DEF WillStall
  <2>2. reg'[1] = Suspended(reg[1])
    BY <2>1, VerifyEffect, Sizes
  <2>3. ~reg'[1].en
    BY <2>2, Writes, Sizes DEF Datum
  <2>4. \A j \in 2..s + 1 : reg'[j] = reg[j]
    BY <1>2, Sizes
  <2>5. QED BY <2>1, <2>3, <2>4 DEF Cycle, StallsHold
<1>5. StallsHold(k)'
  BY <1>4 DEF StallsHold
<1>6. QED BY <1>1, <1>3, <1>5 DEF Cycle

LEMMA CycleUpdate ==
    ASSUME Typed, NEW k \in 1..N + 1, Cycle(k), Update
    PROVE  k = N + 1 /\ Cycle(1)'
<1>1. k = N + 1
  BY Sizes DEF Update, Cycle
<1>2. Unused(1)'
  BY UpdateEffect DEF Unused
<1>3. \A s \in 1..N - 1 : ~ctrl'[s].stallNext
  BY UpdateEffect, Sizes DEF Typed, Requested
<1>4. pending' = 1..N
  BY DEF Update
<1>5. QED BY <1>1, <1>2, <1>3, <1>4 DEF Cycle, StallsHold

\* The cycle goes from stage to stage, then to the update phase; ac_verify()
\* comes in between.
LEMMA Turn ==
    ASSUME InOrder, Typed, NEW k \in 1..N + 1, Cycle(k), Next
    PROVE  \/ k = 1 /\ Fetch /\ Cycle(2)'
           \/ k \in 2..N /\ Execute(k) /\ Cycle(k + 1)'
           \/ k # 1 /\ Verify /\ Cycle(k)'
           \/ k = N + 1 /\ Update /\ Cycle(1)'
<1>1. CASE Fetch
  <2>1. k = 1 /\ pending' = 2..N
    BY <1>1, InTurn, Sizes DEF Fetch
  <2>2. QED BY <1>1, <2>1, CycleFetch
<1>2. CASE \E s \in 2..N : Execute(s)
  <2>1. PICK s \in 2..N : Execute(s)
    BY <1>2
  <2>2. s = k /\ pending' = k + 1..N /\ verify'
    BY <2>1, InTurn, Sizes DEF Execute
  <2>3. QED BY <2>1, <2>2, CycleExecute
<1>3. CASE Verify
  <2>1. k # 1
    BY <1>3 DEF Verify, Cycle, Typed
  <2>2. QED BY <1>3, <2>1, CycleVerify
<1>4. CASE Update
  BY <1>4, CycleUpdate
<1>5. QED BY <1>1, <1>2, <1>3, <1>4 DEF Next

LEMMA InitCycle == Init => Cycle(1)
<1> SUFFICES ASSUME Init PROVE Cycle(1)
  OBVIOUS
<1>1. Unused(1)
  <2>1. \A s \in Stage : reg[s].en /\ ~reg[s].req
    BY InitTyped, Sizes DEF Typed, TypeOK, Init
  <2>2. QED BY <2>1 DEF Unused
<1>2. \A s \in 1..N - 1 : ~ctrl[s].stallNext
  BY Sizes DEF Init
<1>3. QED BY <1>1, <1>2 DEF Init, Cycle, StallsHold

LEMMA CycleUnchanged == ASSUME UNCHANGED vars, NEW k, Cycle(k) PROVE Cycle(k)'
BY DEF vars, Cycle, Unused, StallsHold

-----------------------------------------------------------------------------
(* Flushes.                                                                *)

\* Only the stages in front of the one that branches are flushed, after it
\* has run, and a bubble goes into the register behind each.
FlushesHold(k) ==
    \A s \in 1..N - 1 : ctrl[s].flushNext =>
        /\ s < BranchStage /\ BranchStage < k
        /\ reg[s + 1].en => reg[s + 1].new = Nop /\ reg[s + 1].req

LEMMA FlushFetch ==
    ASSUME Typed, FlushesHold(1), Fetch
    PROVE  FlushesHold(2)'
<1>1. \A s \in 1..N - 1 : ~ctrl[s].flushNext
  BY PipelineAssumption DEF FlushesHold
<1>2. \A s \in 1..N - 1 : ~ctrl'[s].flushNext
  BY <1>1, FetchEffect, Sizes DEF Marks
<1>3. QED BY <1>2 DEF FlushesHold

LEMMA FlushExecute ==
    ASSUME Typed, NEW k \in 2..N, FlushesHold(k), Execute(k)
    PROVE  FlushesHold(k + 1)'
<1>1. Moves(k) \/ Branches(k) \/ Stalls(k)
  BY ExecuteEffect
<1>2. k \in Stage /\ Nop \in Datum /\ BranchStage \in 2..N
  BY Sizes, PipelineAssumption DEF Datum
<1>3. ASSUME NEW s \in 1..N - 1, ctrl'[s].flushNext
      PROVE  /\ s < BranchStage /\ BranchStage < k + 1
             /\ reg'[s + 1].en => reg'[s + 1].new = Nop /\ reg'[s + 1].req
  <2>1. s \in Stage /\ s + 1 \in Stage
    BY Sizes
  <2>2. CASE ctrl[s].flushNext
    <3>1. /\ s < BranchStage /\ BranchStage < k
          /\ reg[s + 1].en => reg[s + 1].new = Nop /\ reg[s + 1].req
      BY <2>2 DEF FlushesHold
    <3>2. CASE Moves(k)
      <4>1. reg'[s + 1] = reg[s + 1]
        BY <1>2, <2>1, <3>1, <3>2 DEF Moves
      <4>2. QED BY <1>2, <3>1, <4>1
    <3>3. CASE Branches(k)
      BY <3>1, <3>3 DEF Branches
    <3>4. CASE Stalls(k)
      <4>1. reg'[s + 1] = Suspended(reg[s + 1])
        BY <1>2, <2>1, <3>1, <3>4 DEF Stalls
      <4>2. QED BY <1>2, <2>1, <3>1, <4>1, Writes
    <3>5. QED BY <1>1, <3>2, <3>3, <3>4
  <2>3. CASE ~ctrl[s].flushNext
    <3>1. Branches(k) /\ s < k /\ k = BranchStage
      <4>1. ~Marks({}, {}) /\ ~Marks({k - 1}, {})
        BY <1>3, <2>1, <2>3 DEF Marks
      <4>2. Branches(k) /\ Marks({}, 1..k - 1)
        BY <1>1, <4>1 DEF Moves, Branches, Stalls
      <4>3. s \in 1..k - 1
        BY <1>3, <2>1, <2>3, <4>2 DEF Marks
      <4>4. QED BY <4>2, <4>3 DEF Branches
    <3>2. reg'[s + 1] = Written(reg[s + 1], Nop)
      BY <2>1, <3>1 DEF Branches
    <3>3. QED BY <1>2, <2>1, <3>1, <3>2, Writes
  <2>4. QED BY <2>2, <2>3
<1>4. QED BY <1>3 DEF FlushesHold

LEMMA FlushVerify ==
    ASSUME Typed, NEW k \in 1..N + 1, FlushesHold(k), Verify
    PROVE  FlushesHold(k)'
<1>1. ctrl' = ctrl
  BY DEF Verify
<1>2. \A s \in 1..N - 1 : reg'[s + 1] = reg[s + 1]
  BY VerifyEffect, Sizes
<1>3. QED BY <1>1, <1>2 DEF FlushesHold

LEMMA FlushUpdate == ASSUME Typed, Update PROVE FlushesHold(1)'
<1>1. \A s \in Stage : ~ctrl'[s].flushNext
  BY UpdateEffect DEF Typed, Requested
<1>2. QED BY <1>1, Sizes DEF FlushesHold

IInv == Typed /\ \E k \in 1..N + 1 : Cycle(k) /\ FlushesHold(k)

LEMMA IInvStep == InOrder /\ IInv /\ [Next]_vars => IInv'
<1> SUFFICES ASSUME InOrder, IInv, [Next]_vars PROVE IInv'
  OBVIOUS
<1>1. PICK k \in 1..N + 1 : Cycle(k) /\ FlushesHold(k)
  BY DEF IInv
<1>2. \E j \in 1..N + 1 : Cycle(j)' /\ FlushesHold(j)'
  <2>1. CASE Next
    <3>1. CASE k = 1 /\ Fetch /\ Cycle(2)'
      BY <1>1, <3>1, FlushFetch, Sizes DEF IInv
    <3>2. CASE k \in 2..N /\ Execute(k) /\ Cycle(k + 1)'
      BY <1>1, <3>2, FlushExecute, Sizes DEF IInv
    <3>3. CASE Verify /\ Cycle(k)'
      BY <1>1, <3>3, FlushVerify DEF IInv
    <3>4. CASE Update /\ Cycle(1)'
      BY <1>1, <3>4, FlushUpdate, Sizes DEF IInv
    <3>5. QED BY <1>1, <2>1, <3>1, <3>2, <3>3, <3>4, Turn DEF IInv
  <2>2. CASE UNCHANGED vars
    <3>1. FlushesHold(k)'
      BY <1>1, <2>2 DEF vars, FlushesHold
    <3>2. QED BY <1>1, <2>2, <3>1, CycleUnchanged
  <2>3. QED BY <2>1, <2>2
<1>3. QED BY <1>2, TypedStep DEF IInv

LEMMA InitIInv == Init => IInv
<1> SUFFICES ASSUME Init PROVE IInv
  OBVIOUS
<1>1. \A s \in 1..N - 1 : ~ctrl[s].flushNext
  BY Sizes DEF Init
<1>2. FlushesHold(1)
  BY <1>1 DEF FlushesHold
<1>3. QED BY <1>2, InitTyped, InitCycle, Sizes DEF IInv

LEMMA Invariance == InOrder => (Spec => []IInv)
<1> SUFFICES ASSUME InOrder PROVE Spec => []IInv
  OBVIOUS
<1>1. IInv /\ [Next]_vars => IInv'
  BY IInvStep
<1>2. QED BY <1>1, InitIInv, PTL DEF Spec

\* When the behaviours run in the order of the stages, stall() never loses and
\* never duplicates an instruction: the stage and all before it keep what they
\* hold, ac_pc included, and the next register gets a bubble or holds too.
THEOREM StallTakesPlace == InOrder => (Spec => StalledStays)
<1> SUFFICES ASSUME InOrder PROVE Spec => StalledStays
  OBVIOUS
<1> DEFINE Stays == Update => \A s \in 1..N - 1 : ctrl[s].stallNext =>
                       /\ \A k \in 1..s : reg[k].data' = reg[k].data
                       /\ reg[s + 1].data' \in {Nop, reg[s + 1].data}
<1>1. IInv /\ [Next]_vars => [Stays]_vars
  <2> SUFFICES ASSUME IInv, Update, NEW s \in 1..N - 1, ctrl[s].stallNext
               PROVE  /\ \A k \in 1..s : reg'[k].data = reg[k].data
                      /\ reg'[s + 1].data \in {Nop, reg[s + 1].data}
    OBVIOUS
  <2>1. PICK k \in 1..N + 1 : Cycle(k)
    BY DEF IInv
  <2>2. /\ \A j \in 2..s : ~reg[j].en
        /\ ~reg[1].en
        /\ reg[s + 1].en => reg[s + 1].new = Nop
    BY <2>1 DEF Cycle, StallsHold, Update
  <2>3. \A j \in Stage :
           reg'[j].data = IF reg[j].req /\ reg[j].en THEN reg[j].new ELSE reg[j].data
    BY UpdateEffect DEF IInv
  <2>4. s + 1 \in Stage /\ \A j \in 1..s : j \in Stage /\ ~reg[j].en
    BY <2>2, Sizes
  <2>5. QED BY <2>2, <2>3, <2>4
<1>2. QED BY <1>1, Invariance, PTL DEF Spec, StalledStays

\* When the behaviours run in the order of the stages, "flushing already took
\* place" (ac_stage.H): the instruction of a flushed stage goes nowhere.
THEOREM FlushesTakePlace == InOrder => (Spec => FlushTakesPlace)
<1> SUFFICES ASSUME InOrder PROVE Spec => FlushTakesPlace
  OBVIOUS
<1> DEFINE Dropped == Update => \A s \in 1..N - 1 : ctrl[s].flushNext =>
                         reg[s + 1].data' \in {Nop, reg[s + 1].data}
<1>1. IInv /\ [Next]_vars => [Dropped]_vars
  <2> SUFFICES ASSUME IInv, Update, NEW s \in 1..N - 1, ctrl[s].flushNext
               PROVE  reg'[s + 1].data \in {Nop, reg[s + 1].data}
    OBVIOUS
  <2>1. reg[s + 1].en => reg[s + 1].new = Nop
    BY DEF IInv, FlushesHold
  <2>2. s + 1 \in Stage
    BY Sizes
  <2>3. reg'[s + 1].data = IF reg[s + 1].req /\ reg[s + 1].en THEN reg[s + 1].new
                                                            ELSE reg[s + 1].data
    BY <2>2, UpdateEffect DEF IInv
  <2>4. QED BY <2>1, <2>3
<1>2. QED BY <1>1, Invariance, PTL DEF Spec, FlushTakesPlace

-----------------------------------------------------------------------------
(* The instructions in the pipeline, as a line: v[s] is at place s, a      *)
(* bubble or an instruction; c completed last.  A branch at place r or     *)
(* beyond has been taken, the others are as yet followed by what is behind *)
(* them in the memory.                                                     *)

Places == 1..N + 1

Follow(t, a, taken) == IF taken /\ a \in DOMAIN t THEN t[a] ELSE a + 1

\* e[s] is the address the next instruction at place s or before must have.
Fits(t, v, r, c, e) ==
    /\ e \in [0..N + 1 -> Int]
    /\ e[N + 1] = Follow(t, c, TRUE)
    /\ \A s \in Places :
          /\ v[s] \in {Nop, e[s]}
          /\ e[s - 1] = IF v[s] = Nop THEN e[s] ELSE Follow(t, v[s], s >= r)

InLine(t, v, r, c) == \E e : Fits(t, v, r, c, e)

\* The jumps of a program with those back from its system calls.
IsProgram(t) == DOMAIN t \subseteq Addr /\ \A a \in DOMAIN t : t[a] \in Addr

LEMMA JumpsProgram ==
    ASSUME Typed
    PROVE  /\ IsProgram(Jumps)
           /\ DOMAIN Jumps = DOMAIN target \cup SysCalls
           /\ \A a \in DOMAIN target : Jumps[a] = target[a]
           /\ \A a \in SysCalls : Jumps[a] = Return
<1>1. target \in Targets
  BY DEF Typed, TypeOK
<1>2. QED BY <1>1, PipelineAssumption DEF IsProgram, Jumps

LEMMA FollowType ==
    ASSUME NEW t, IsProgram(t), NEW a \in Int, NEW taken
    PROVE  Follow(t, a, taken) \in Int
BY Sizes DEF Follow, IsProgram

\* At the clock edge all move up one place and the next one is fetched.
LEMMA LineFetch ==
    ASSUME NEW t, IsProgram(t), NEW v, NEW c \in Int, InLine(t, v, BranchStage + 1, c),
           v[1] \in Nat, v[N + 1] = Nop,
           NEW w, w[1] = v[1] + 1, \A s \in 2..N + 1 : w[s] = v[s - 1]
    PROVE  InLine(t, w, BranchStage + 2, c)
<1> DEFINE B == BranchStage
<1>1. PICK e : Fits(t, v, B + 1, c, e)
  BY DEF InLine
<1> DEFINE f == [s \in 0..N + 1 |-> IF s = 0 THEN v[1] + 2 ELSE e[s - 1]]
<1>2. B \in 2..N /\ N \in Nat /\ N > 1
  BY PipelineAssumption
<1>3. f \in [0..N + 1 -> Int]
  <2>1. \A s \in 1..N + 1 : e[s - 1] \in Int
    BY <1>1, <1>2 DEF Fits
  <2>2. QED BY <2>1
<1>4. f[N + 1] = Follow(t, c, TRUE)
  <2>1. N + 1 \in Places /\ (N + 1) - 1 = N
    BY <1>2 DEF Places
  <2>2. e[(N + 1) - 1] = e[N + 1]
    BY <1>1, <2>1 DEF Fits
  <2>3. f[N + 1] = e[(N + 1) - 1]
    BY <1>2
  <2>4. QED BY <1>1, <2>2, <2>3 DEF Fits
<1>5. ASSUME NEW s \in Places
      PROVE  /\ w[s] \in {Nop, f[s]}
             /\ f[s - 1] = IF w[s] = Nop THEN f[s] ELSE Follow(t, w[s], s >= B + 2)
  <2>1. CASE s = 1
    <3>1. e[0] = v[1] + 1
      <4>1. 1 \in Places /\ 1 - 1 = 0 /\ v[1] # Nop /\ ~(1 >= B + 1)
        BY <1>2 DEF Places
      <4>2. e[1 - 1] = Follow(t, v[1], 1 >= B + 1)
        BY <1>1, <4>1 DEF Fits
      <4>3. QED BY <4>1, <4>2 DEF Follow
    <3>2. f[1] = v[1] + 1 /\ f[0] = v[1] + 2
      BY <1>2, <3>1
    <3>3. ~(1 >= B + 2) /\ 1 - 1 = 0 /\ v[1] + 1 + 1 = v[1] + 2
      BY <1>2
    <3> HIDE DEF f
    <3>4. Follow(t, w[1], 1 >= B + 2) = v[1] + 2 /\ w[1] # Nop
      BY <3>3 DEF Follow
    <3>5. /\ w[1] \in {Nop, f[1]}
          /\ f[1 - 1] = IF w[1] = Nop THEN f[1] ELSE Follow(t, w[1], 1 >= B + 2)
      BY <3>2, <3>3, <3>4
    <3>6. QED BY <2>1, <3>5
  <2>2. CASE s # 1
    <3>1. s - 1 \in Places /\ s \in 2..N + 1
      BY <1>2, <2>2 DEF Places
    <3>2. /\ v[s - 1] \in {Nop, e[s - 1]}
          /\ e[(s - 1) - 1] = IF v[s - 1] = Nop THEN e[s - 1]
                              ELSE Follow(t, v[s - 1], s - 1 >= B + 1)
      BY <1>1, <3>1 DEF Fits
    <3>3. w[s] = v[s - 1] /\ f[s] = e[s - 1] /\ f[s - 1] = e[(s - 1) - 1]
      <4>1. s \in 0..N + 1 /\ s # 0 /\ s - 1 \in 0..N + 1 /\ s - 1 # 0
        BY <1>2, <3>1
      <4>2. w[s] = v[s - 1]
        BY <3>1
      <4> QED BY <4>1, <4>2
    <3>4. (s - 1 >= B + 1) <=> (s >= B + 2)
      BY <1>2, <3>1
    <3> HIDE DEF f
    <3>5. QED BY <3>2, <3>3, <3>4 DEF Follow
  <2>3. QED BY <2>1, <2>2
<1>6. Fits(t, w, B + 2, c, f)
  <2> HIDE DEF f
  <2> QED BY <1>3, <1>4, <1>5 DEF Fits
<1>7. QED BY <1>6 DEF InLine

\* Once the instruction at the place of a branch is none, the line is as if
\* its branch had been taken.
LEMMA LineResolved ==
    ASSUME NEW t, IsProgram(t), NEW v, NEW r \in Int, NEW c, InLine(t, v, r + 1, c),
           v[r] \notin DOMAIN t
    PROVE  InLine(t, v, r, c)
<1>1. PICK e : Fits(t, v, r + 1, c, e)
  BY DEF InLine
<1>2. ASSUME NEW s \in Places
      PROVE  Follow(t, v[s], s >= r) = Follow(t, v[s], s >= r + 1)
  <2>1. CASE s = r
    BY <2>1 DEF Follow
  <2>2. CASE s # r
    <3>1. s \in Int
      BY Sizes DEF Places
    <3>2. (s >= r) <=> (s >= r + 1)
      BY <2>2, <3>1
    <3>3. QED BY <3>2 DEF Follow
  <2>3. QED BY <2>1, <2>2
<1>3. Fits(t, v, r, c, e)
  BY <1>1, <1>2 DEF Fits
<1>4. QED BY <1>3 DEF InLine

\* A branch at place BranchStage + 1 is taken; what is behind it goes.
LEMMA LineBranch ==
    ASSUME NEW t, IsProgram(t), NEW v, NEW c, InLine(t, v, BranchStage + 2, c),
           v[BranchStage + 1] \in DOMAIN t,
           NEW w, w[1] = t[v[BranchStage + 1]], \A s \in 2..BranchStage : w[s] = Nop,
           \A s \in BranchStage + 1..N + 1 : w[s] = v[s]
    PROVE  InLine(t, w, BranchStage + 1, c)
<1> DEFINE B == BranchStage
           a == t[v[B + 1]]
<1>1. PICK e : Fits(t, v, B + 2, c, e)
  BY DEF InLine
<1> DEFINE f == [s \in 0..N + 1 |-> IF s = 0 THEN a + 1 ELSE IF s <= B THEN a ELSE e[s]]
<1>2. B \in 2..N /\ N \in Nat /\ N > 1 /\ a \in Nat
  BY PipelineAssumption DEF IsProgram
<1>3. f \in [0..N + 1 -> Int]
  <2>1. \A s \in 0..N + 1 : e[s] \in Int
    BY <1>1 DEF Fits
  <2>2. a \in Int /\ a + 1 \in Int
    BY <1>2
  <2> HIDE DEF a
  <2>3. QED BY <2>1, <2>2
<1>4. f[N + 1] = Follow(t, c, TRUE)
  <2>1. f[N + 1] = e[N + 1]
    BY <1>2
  <2>2. QED BY <1>1, <2>1 DEF Fits
<1>5. ASSUME NEW s \in Places
      PROVE  /\ w[s] \in {Nop, f[s]}
             /\ f[s - 1] = IF w[s] = Nop THEN f[s] ELSE Follow(t, w[s], s >= B + 1)
  <2>0. /\ s \in 1..N + 1 /\ v[s] \in {Nop, e[s]}
        /\ e[s - 1] = IF v[s] = Nop THEN e[s] ELSE Follow(t, v[s], s >= B + 2)
    BY <1>1 DEF Fits, Places
  <2>1. CASE s = 1
    <3>1. f[1] = a /\ f[0] = a + 1 /\ w[1] = a
      BY <1>2
    <3>2. QED BY <1>2, <2>1, <3>1 DEF Follow
  <2>2. CASE s \in 2..B
    <3>1. f[s] = a /\ f[s - 1] = a /\ w[s] = Nop
      BY <1>2, <2>0, <2>2
    <3>2. QED BY <3>1
  <2>3. CASE s = B + 1
    <3>1. f[s] = e[s] /\ f[s - 1] = a /\ w[s] = v[s]
      BY <1>2, <2>0, <2>3
    <3>2. v[s] # Nop /\ Follow(t, v[s], s >= B + 1) = a
      BY <1>2, <2>3, Sizes DEF Follow, IsProgram
    <3>3. QED BY <2>0, <3>1, <3>2
  <2>4. CASE s > B + 1
    <3>1. f[s] = e[s] /\ f[s - 1] = e[s - 1] /\ w[s] = v[s]
      BY <1>2, <2>0, <2>4
    <3>2. s >= B + 1 /\ s >= B + 2
      BY <1>2, <2>0, <2>4
    <3> HIDE DEF f
    <3>3. QED BY <2>0, <3>1, <3>2 DEF Follow
  <2>5. QED BY <1>2, <2>0, <2>1, <2>2, <2>3, <2>4
<1>6. Fits(t, w, B + 1, c, f)
  <2> HIDE DEF f
  <2> QED BY <1>3, <1>4, <1>5 DEF Fits
<1>7. QED BY <1>6 DEF InLine

\* Those before place k stay, and leave a bubble in front of the others.
LEMMA LineBubble ==
    ASSUME NEW t, IsProgram(t), NEW v, NEW c, InLine(t, v, BranchStage + 1, c),
           v[N + 1] = Nop, NEW k \in 2..N, NEW r \in Int,
           \A s \in 1..k - 1 : (s >= r) <=> (s >= BranchStage + 1),
           \A s \in k..N : Follow(t, v[s], s + 1 >= r) = Follow(t, v[s], s >= BranchStage + 1),
           NEW w, \A s \in 1..k - 1 : w[s] = v[s], w[k] = Nop,
           \A s \in k + 1..N + 1 : w[s] = v[s - 1]
    PROVE  InLine(t, w, r, c)
<1> DEFINE B == BranchStage
<1>1. PICK e : Fits(t, v, B + 1, c, e)
  BY DEF InLine
<1> DEFINE f == [s \in 0..N + 1 |-> IF s < k THEN e[s] ELSE e[s - 1]]
<1>2. B \in 2..N /\ N \in Nat /\ N > 1
  BY PipelineAssumption
<1>3. f \in [0..N + 1 -> Int]
  <2>1. \A s \in 0..N + 1 : e[s] \in Int
    BY <1>1 DEF Fits
  <2>2. \A s \in k..N + 1 : e[s - 1] \in Int
    BY <2>1, <1>2
  <2>3. QED BY <2>1, <2>2, <1>2
<1>4. f[N + 1] = Follow(t, c, TRUE)
  <2>1. N + 1 \in Places /\ (N + 1) - 1 = N
    BY <1>2 DEF Places
  <2>2. e[(N + 1) - 1] = e[N + 1]
    BY <1>1, <2>1 DEF Fits
  <2>3. f[N + 1] = e[(N + 1) - 1]
    BY <1>2
  <2>4. QED BY <1>1, <2>2, <2>3 DEF Fits
<1>5. ASSUME NEW s \in Places
      PROVE  /\ w[s] \in {Nop, f[s]}
             /\ f[s - 1] = IF w[s] = Nop THEN f[s] ELSE Follow(t, w[s], s >= r)
  <2>1. s \in 1..N + 1
    BY DEF Places
  <2>2. CASE s < k
    <3>1. f[s] = e[s] /\ f[s - 1] = e[s - 1] /\ w[s] = v[s]
      BY <1>2, <2>1, <2>2
    <3>2. (s >= r) <=> (s >= B + 1)
      BY <2>1, <2>2
    <3>3. Follow(t, v[s], s >= r) = Follow(t, v[s], s >= B + 1)
      BY <3>2 DEF Follow
    <3> HIDE DEF f
    <3>4. QED BY <1>1, <3>1, <3>3 DEF Fits
  <2>3. CASE s = k
    <3>1. f[s] = e[s - 1] /\ f[s - 1] = e[s - 1] /\ w[s] = Nop
      BY <1>2, <2>1, <2>3
    <3> HIDE DEF f
    <3>2. QED BY <3>1
  <2>4. CASE s > k
    <3>1. s - 1 \in Places /\ s \in k + 1..N + 1
      BY <1>2, <2>1, <2>4 DEF Places
    <3>2. /\ v[s - 1] \in {Nop, e[s - 1]}
          /\ e[(s - 1) - 1] = IF v[s - 1] = Nop THEN e[s - 1]
                              ELSE Follow(t, v[s - 1], s - 1 >= B + 1)
      BY <1>1, <3>1 DEF Fits
    <3>3. w[s] = v[s - 1] /\ f[s] = e[s - 1] /\ f[s - 1] = e[(s - 1) - 1]
      BY <1>2, <3>1
    <3>4. Follow(t, v[s - 1], s - 1 >= B + 1) = Follow(t, w[s], s >= r)
      <4>1. s - 1 \in k..N /\ (s - 1) + 1 = s
        BY <1>2, <3>1
      <4>2. Follow(t, v[s - 1], (s - 1) + 1 >= r) = Follow(t, v[s - 1], s - 1 >= B + 1)
        BY <4>1
      <4>3. QED BY <3>3, <4>1, <4>2
    <3> HIDE DEF f
    <3>5. QED BY <3>2, <3>3, <3>4
  <2>5. QED BY <1>2, <2>1, <2>2, <2>3, <2>4
<1>6. Fits(t, w, r, c, f)
  <2> HIDE DEF f
  <2> QED BY <1>3, <1>4, <1>5 DEF Fits
<1>7. QED BY <1>6 DEF InLine

\* The last one completes.  It is the one that had to.
LEMMA LineComplete ==
    ASSUME NEW t, IsProgram(t), NEW v, NEW c, NEW r \in 1..N + 1, InLine(t, v, r, c),
           v[N + 1] # Nop, NEW w, w[N + 1] = Nop, \A s \in 1..N : w[s] = v[s]
    PROVE  v[N + 1] = Follow(t, c, TRUE) /\ InLine(t, w, r, v[N + 1])
<1> DEFINE a == v[N + 1]
<1>1. PICK e : Fits(t, v, r, c, e)
  BY DEF InLine
<1>2. N + 1 \in Places /\ N + 1 >= r /\ N \in Nat
  BY Sizes DEF Places
<1>3. a = e[N + 1] /\ a \in Int
  <2>1. v[N + 1] \in {Nop, e[N + 1]}
    BY <1>1, <1>2 DEF Fits
  <2>2. N + 1 \in 0..N + 1
    BY <1>2
  <2>3. e[N + 1] \in Int
    BY <1>1, <2>2 DEF Fits
  <2>4. QED BY <2>1, <2>3
<1>4. e[(N + 1) - 1] = Follow(t, a, TRUE)
  BY <1>1, <1>2 DEF Fits, Follow
<1> DEFINE f == [e EXCEPT ![N + 1] = Follow(t, a, TRUE)]
<1>5. f \in [0..N + 1 -> Int]
  BY <1>1, <1>3, FollowType DEF Fits
<1>6. /\ f[N + 1] = Follow(t, a, TRUE)
      /\ \A s \in 0..N : f[s] = e[s]
  <2>1. N + 1 \in 0..N + 1 /\ \A s \in 0..N : s \in 0..N + 1 /\ s # N + 1
    BY <1>2
  <2>2. e \in [0..N + 1 -> Int]
    BY <1>1 DEF Fits
  <2> HIDE DEF a
  <2>3. QED BY <2>1, <2>2
<1>7. ASSUME NEW s \in Places
      PROVE  /\ w[s] \in {Nop, f[s]}
             /\ f[s - 1] = IF w[s] = Nop THEN f[s] ELSE Follow(t, w[s], s >= r)
  <2>1. s \in 1..N + 1 /\ s - 1 \in 0..N
    BY <1>2 DEF Places
  <2> HIDE DEF f
  <2>2. CASE s = N + 1
    BY <1>4, <1>6, <2>1, <2>2
  <2>3. CASE s # N + 1
    <3>1. w[s] = v[s] /\ f[s] = e[s] /\ f[s - 1] = e[s - 1]
      BY <1>2, <1>6, <2>1, <2>3
    <3>2. QED BY <1>1, <3>1 DEF Fits
  <2>4. QED BY <2>2, <2>3
<1>8. Fits(t, w, r, a, f)
  <2> HIDE DEF f
  <2> QED BY <1>5, <1>6, <1>7 DEF Fits
<1>9. QED BY <1>1, <1>3, <1>8 DEF InLine, Fits

\* With bubbles only behind ac_pc, it is there that the next one is.
LEMMA LineEmpty ==
    ASSUME NEW t, NEW v, NEW r, NEW c, InLine(t, v, r, c), v[1] # Nop,
           \A s \in 2..N + 1 : v[s] = Nop
    PROVE  v[1] = Follow(t, c, TRUE)
<1>1. PICK e : Fits(t, v, r, c, e)
  BY DEF InLine
<1> DEFINE T == {j \in 0..N : e[N + 1 - j] # e[N + 1]}
<1>2. N \in Nat /\ N > 1
  BY Sizes
<1>3. T = {}
  <2> SUFFICES ASSUME T # {} PROVE FALSE
    OBVIOUS
  <2>1. PICK m \in T : \A j \in T : m <= j
    <3>1. T \subseteq Nat
      BY <1>2
    <3> HIDE DEF T
    <3>2. QED BY <3>1, LeastNat
  <2>2. m # 0 /\ m \in 0..N
    BY <1>2, <2>1
  <2>3. m - 1 \notin T /\ m - 1 \in 0..N
    BY <1>2, <2>1, <2>2
  <2>4. e[N + 1 - (m - 1)] = e[N + 1]
    BY <2>3
  <2> DEFINE s == N + 1 - (m - 1)
  <2>5. s \in Places /\ s \in 2..N + 1 /\ s - 1 = N + 1 - m
    BY <1>2, <2>2 DEF Places
  <2> HIDE DEF s
  <2>6. e[s - 1] = e[s]
    BY <1>1, <2>5 DEF Fits
  <2>7. QED BY <2>1, <2>4, <2>5, <2>6 DEF s
<1>4. e[1] = e[N + 1]
  <2>1. N \in 0..N /\ N + 1 - N = 1
    BY <1>2
  <2>2. e[N + 1 - N] = e[N + 1]
    BY <1>3, <2>1
  <2>3. QED BY <2>1, <2>2
<1>5. v[1] = e[1]
  BY <1>1, <1>2 DEF Fits, Places
<1>6. QED BY <1>1, <1>4, <1>5 DEF Fits

\* What is fetched behind a branch not yet taken comes from right behind it.
LEMMA LineShadow ==
    ASSUME NEW t, IsProgram(t), NEW v, NEW c, InLine(t, v, BranchStage + 1, c),
           v[1] # Nop, NEW p \in 2..BranchStage, v[p] \in DOMAIN t
    PROVE  \E j \in 1..BranchStage - 1 : v[1] = v[p] + j
<1> DEFINE B == BranchStage
<1>1. PICK e : Fits(t, v, B + 1, c, e)
  BY DEF InLine
<1>2. N \in Nat /\ N > 1 /\ B \in 2..N /\ v[p] \in Nat
  BY PipelineAssumption DEF IsProgram
<1> DEFINE T == {j \in 0..p - 2 : e[p - 1 - j] \notin v[p] + 1..v[p] + 1 + j}
<1>3. T = {}
  <2> SUFFICES ASSUME T # {} PROVE FALSE
    OBVIOUS
  <2>1. PICK m \in T : \A j \in T : m <= j
    <3>1. T \subseteq Nat
      BY <1>2
    <3> HIDE DEF T
    <3>2. QED BY <3>1, LeastNat
  <2>2. m \in 0..p - 2 /\ e[p - 1 - m] \notin v[p] + 1..v[p] + 1 + m
    BY <2>1
  <2>3. CASE m = 0
    <3>1. p \in Places /\ v[p] # Nop /\ ~(p >= B + 1) /\ p - 1 - m = p - 1
      BY <1>2, <2>3 DEF Places
    <3>2. e[p - 1] = v[p] + 1
      <4>1. e[p - 1] = Follow(t, v[p], p >= B + 1)
        BY <1>1, <3>1 DEF Fits
      <4>2. QED BY <3>1, <4>1 DEF Follow
    <3>3. QED BY <1>2, <2>2, <2>3, <3>1, <3>2
  <2>4. CASE m # 0
    <3>1. m - 1 \notin T /\ m - 1 \in 0..p - 2
      BY <1>2, <2>1, <2>2, <2>4
    <3>2. e[p - 1 - (m - 1)] \in v[p] + 1..v[p] + 1 + (m - 1)
      BY <3>1
    <3> DEFINE s == p - 1 - (m - 1)
    <3>3. /\ s \in Places /\ s - 1 = p - 1 - m /\ ~(s >= B + 1)
          /\ v[p] + 1 + (m - 1) = v[p] + m /\ m \in Nat
      BY <1>2, <2>2, <2>4 DEF Places
    <3> HIDE DEF s
    <3>4. e[s] \in v[p] + 1..v[p] + m
      BY <3>2, <3>3 DEF s
    <3>5. e[s - 1] = e[s] \/ e[s - 1] = e[s] + 1
      BY <1>1, <3>3 DEF Fits, Follow
    <3>6. QED BY <1>2, <2>2, <3>3, <3>4, <3>5
  <2>5. QED BY <2>3, <2>4
<1>4. v[1] = e[1]
  <2>1. 1 \in Places
    BY <1>2 DEF Places
  <2>2. QED BY <1>1, <2>1 DEF Fits
<1>5. e[1] \in v[p] + 1..v[p] + 1 + (p - 2)
  <2>1. p - 2 \in 0..p - 2 /\ p - 1 - (p - 2) = 1
    BY <1>2
  <2>2. e[p - 1 - (p - 2)] \in v[p] + 1..v[p] + 1 + (p - 2)
    BY <1>3, <2>1
  <2>3. QED BY <2>1, <2>2
<1>6. e[1] - v[p] \in 1..B - 1 /\ e[1] = v[p] + (e[1] - v[p])
  BY <1>2, <1>5
<1>7. QED BY <1>4, <1>6

\* A line of one.
LEMMA LineAlone ==
    ASSUME NEW t, NEW v, NEW c, NEW r \in Int, r > 1, v[1] \in Nat,
           v[1] = (IF c \in DOMAIN t THEN t[c] ELSE c + 1),
           \A s \in 2..N + 1 : v[s] = Nop
    PROVE  InLine(t, v, r, c)
<1> DEFINE e == [s \in 0..N + 1 |-> IF s = 0 THEN v[1] + 1 ELSE v[1]]
<1>1. e \in [0..N + 1 -> Int]
  OBVIOUS
<1>2. e[N + 1] = Follow(t, c, TRUE)
  BY Sizes DEF Follow
<1>3. ASSUME NEW s \in Places
      PROVE  /\ v[s] \in {Nop, e[s]}
             /\ e[s - 1] = IF v[s] = Nop THEN e[s] ELSE Follow(t, v[s], s >= r)
  <2>1. s \in 1..N + 1 /\ e[0] = v[1] + 1 /\ e[1] = v[1]
    BY Sizes DEF Places
  <2>2. CASE s = 1
    BY <2>1, <2>2 DEF Follow
  <2>3. CASE s # 1
    <3>1. v[s] = Nop /\ e[s - 1] = v[1] /\ e[s] = v[1]
      BY <2>1, <2>3, Sizes
    <3>2. QED BY <3>1
  <2>4. QED BY <2>2, <2>3
<1>4. Fits(t, v, r, c, e)
  <2> HIDE DEF e
  <2> QED BY <1>1, <1>2, <1>3 DEF Fits
<1>5. QED BY <1>4 DEF InLine

-----------------------------------------------------------------------------
(* The instructions in the registers are in the order of the program.      *)

\* What a register holds after the update phase.
After(r) == IF r.req /\ r.en THEN r.new ELSE r.data

\* At a clock edge: what the registers hold.
Held(regs) == [s \in Places |-> IF s <= N THEN regs[s].data ELSE Nop]

\* When the stages before k have run: what those behind them will hold, p first.
Line(regs, p, k) ==
    [s \in Places |-> IF s = 1 THEN p
                      ELSE IF s > k THEN regs[s - 1].data
                      ELSE IF s <= N THEN After(regs[s])
                      ELSE Nop]

\* ac_verify() is still to run, but what it will do is known.
NextPc == IF WillStall THEN reg[1].data ELSE After(reg[1])

Taken(k) == IF k <= BranchStage THEN BranchStage + 2 ELSE BranchStage + 1

Program(k) ==
    /\ k <= N /\ (k = 1 \/ \E s \in 2..N : reg[s].data # Nop) =>
          InLine(Jumps, Held(reg), BranchStage + 1, completed.addr)
    /\ k >= 2 => InLine(Jumps, Line(reg, NextPc, k), Taken(k), completed.addr)

\* The machine makes a step, or none.
Completed ==
    \/ completed' = completed
    \/ completed' = [addr |-> Follow(Jumps, completed.addr, TRUE),
                     turn |-> 1 - completed.turn]

\* Registers are suspended only in a cycle that stalls, and only for a stage
\* from the one of the branches on; the last one is never.  System calls never
\* leave the first stage.
Orderly ==
    /\ \A s \in 1..N - 1 : ctrl[s].stallNext => s + 1 >= BranchStage
    /\ \A s \in Stage : ~reg[s].en => WillStall
    /\ reg[N].en
    /\ \A s \in 2..N : reg[s].data \notin SysCalls /\ reg[s].new \notin SysCalls

\* Behind a stage that has run the register is written with what it had or a
\* bubble.
Filled(k) ==
    \A s \in 2..N : s <= k /\ reg[s].en =>
        reg[s].req /\ reg[s].new \in {Nop, reg[s - 1].data}

LEMMA FetchOutcome ==
    ASSUME Typed, Fetch, ~stopFlag'
    PROVE  \/ /\ reg[1].data \in Addr \ SysCalls
              /\ Issues(reg[1].data + 1, reg[1].data)
              /\ UNCHANGED <<flushesLeft, completed>>
           \/ /\ reg[1].data \in SysCalls /\ ~Drained
              /\ \A k \in Stage : reg'[k] = IF k = 2 THEN Written(reg[k], Nop)
                                                     ELSE reg[k]
              /\ flushesLeft' = flushesLeft - 1 /\ completed' = completed
           \/ /\ reg[1].data \in SysCalls /\ Drained
              /\ Issues(Return, Nop)
              /\ flushesLeft' = PathLength /\ Completes(reg[1].data)
<1>1. SysCalls \subseteq Addr
  BY PipelineAssumption
<1>2. CASE FetchInstruction
  BY <1>1, <1>2, FetchEffect DEF FetchInstruction
<1>3. CASE FetchSysCall
  BY <1>1, <1>3, FetchEffect DEF FetchSysCall
<1>4. QED BY <1>2, <1>3 DEF Fetch, FetchBeyond

LEMMA OrderlyFetch ==
    ASSUME Typed, Cycle(1), Orderly, Fetch
    PROVE  Orderly' /\ (~stopFlag' => Filled(2)')
<1>1. 2 \in Stage /\ Nop \in Datum /\ Nop \notin SysCalls /\ reg[1].data \in Datum
  BY Sizes, PipelineAssumption DEF Typed, Registers, Contents, Datum
<1>2. \A s \in 1..N - 1 : ctrl'[s].stallNext => s + 1 >= BranchStage
  BY FetchEffect, Sizes DEF Marks, Orderly
<1>3. \A s \in 2..N : s \in Stage
                      /\ \/ reg'[s] = reg[s]
                         \/ s = 2 /\ reg'[s] = Written(reg[s], Nop)
                         \/ /\ s = 2 /\ reg'[s] = Written(reg[s], reg[1].data)
                            /\ reg[1].data \notin SysCalls
  BY FetchEffect, Sizes DEF Issues
<1>4. \A s \in Stage : reg[s].en
  BY Sizes DEF Cycle, Unused
<1>5. reg'[1].en /\ reg'[1].data = reg[1].data
  <2>1. reg'[1] = reg[1] \/ \E v \in Datum : reg'[1] = Written(reg[1], v)
    <3>1. Return \in Datum /\ (reg[1].data \in Addr => reg[1].data + 1 \in Datum)
      BY PipelineAssumption, Sizes DEF Datum
    <3>2. QED BY <3>1, FetchEffect, Sizes DEF Issues
  <2>2. QED BY <1>4, <2>1, Writes, Sizes
<1>6. \A s \in Stage : reg'[s].en
  BY <1>1, <1>3, <1>4, <1>5, Writes, Sizes
<1>7. \A s \in 2..N : reg'[s].data \notin SysCalls /\ reg'[s].new \notin SysCalls
  BY <1>1, <1>3, Writes DEF Orderly
<1>8. ASSUME ~stopFlag' PROVE reg'[2].req /\ reg'[2].new \in {Nop, reg'[1].data}
  <2>1. reg'[2] = Written(reg[2], Nop) \/ reg'[2] = Written(reg[2], reg[1].data)
    BY <1>1, <1>8, FetchOutcome DEF Issues
  <2>2. QED BY <1>1, <1>5, <2>1, Writes
<1>9. QED BY <1>2, <1>6, <1>7, <1>8, Sizes DEF Orderly, Filled

LEMMA OrderlyExecute ==
    ASSUME BranchesBeforeStalls, Typed, NEW k \in 2..N, Cycle(k), Orderly, Filled(k),
           Execute(k)
    PROVE  Orderly' /\ Filled(k + 1)'
<1>1. Moves(k) \/ Branches(k) \/ Stalls(k)
  BY ExecuteEffect
<1>2. /\ k \in Stage /\ reg[k].data \in Datum /\ Nop \in Datum /\ Nop \notin SysCalls
      /\ reg[k].data \in DOMAIN target => target[reg[k].data] \in Datum
  BY Sizes, PipelineAssumption DEF Typed, TypeOK, Registers, Contents, Datum
<1>3. ASSUME NEW s \in 1..N - 1, ctrl'[s].stallNext PROVE s + 1 >= BranchStage
  <2>1. CASE Stalls(k) /\ s = k - 1
    <3>1. MayStall[k] # {}
      BY <2>1 DEF Stalls
    <3>2. k \notin 2..BranchStage - 1
      BY <3>1 DEF BranchesBeforeStalls
    <3>3. QED BY <2>1, <3>2, PipelineAssumption
  <2>2. CASE ~(Stalls(k) /\ s = k - 1)
    <3>1. ctrl[s].stallNext
      BY <1>1, <1>3, <2>2, Sizes DEF Moves, Branches, Stalls, Marks
    <3>2. QED BY <3>1 DEF Orderly
  <2>3. QED BY <2>1, <2>2
<1>4. WillStall => WillStall'
  <2>1. PICK S, F : Marks(S, F)
    BY <1>1 DEF Moves, Branches, Stalls
  <2>2. QED BY <2>1, WillStallMarks
<1>5. Stalls(k) => WillStall'
  <2>1. ASSUME Stalls(k) PROVE ctrl'[k - 1].stallNext /\ k - 1 \in 1..N - 1
    BY <2>1, Sizes DEF Stalls, Marks
  <2>2. QED BY <2>1 DEF WillStall
<1>6. ASSUME NEW s \in Stage
      PROVE  /\ reg'[s].data = reg[s].data
             /\ \/ reg'[s] = reg[s]
                \/ Stalls(k) /\ s < k /\ reg'[s] = Suspended(reg[s])
                \/ s <= k /\ reg'[s] = Written(reg[s], Nop)
                \/ s = k + 1 /\ reg'[s] = Written(reg[s], reg[k].data)
                \/ s = 1 /\ \E v \in Datum : reg'[s] = Written(reg[s], v)
  <2>1. CASE Moves(k)
    BY <1>2, <2>1, Writes DEF Moves
  <2>2. CASE Branches(k)
    <3>1. \/ reg'[s] = reg[s]
          \/ s <= k /\ reg'[s] = Written(reg[s], Nop)
          \/ s = k + 1 /\ reg'[s] = Written(reg[s], reg[k].data)
          \/ s = 1 /\ \E v \in Datum : reg'[s] = Written(reg[s], v)
      BY <1>2, <2>2 DEF Branches
    <3>2. QED BY <1>2, <3>1, Writes
  <2>3. CASE Stalls(k)
    <3>1. \/ reg'[s] = reg[s]
          \/ s < k /\ reg'[s] = Suspended(reg[s])
          \/ s <= k /\ reg'[s] = Written(reg[s], Nop)
          \/ s = k + 1 /\ reg'[s] = Written(reg[s], reg[k].data)
      BY <1>2, <2>3 DEF Stalls
    <3>2. QED BY <1>2, <2>3, <3>1, Writes
  <2>4. QED BY <1>1, <2>1, <2>2, <2>3
<1>7. ASSUME NEW s \in Stage, ~reg'[s].en PROVE WillStall'
  <2>1. CASE Stalls(k)
    BY <1>5, <2>1
  <2>2. CASE ~Stalls(k)
    <3>1. ~reg[s].en
      BY <1>2, <1>6, <1>7, <2>2, Writes
    <3>2. QED BY <1>4, <3>1 DEF Orderly
  <2>3. QED BY <2>1, <2>2
<1>8. ASSUME NEW s \in 2..N PROVE reg'[s].data \notin SysCalls /\ reg'[s].new \notin SysCalls
  <2>1. s \in Stage /\ reg[k].data \notin SysCalls /\ reg[s].data \notin SysCalls
        /\ reg[s].new \notin SysCalls
    BY Sizes DEF Orderly
  <2>2. \/ reg'[s] = reg[s]
        \/ reg'[s] = Suspended(reg[s])
        \/ reg'[s] = Written(reg[s], Nop)
        \/ reg'[s] = Written(reg[s], reg[k].data)
    BY <1>6, <2>1
  <2>3. reg[s] \in Contents /\ Suspended(reg[s]).new = reg[s].new
    BY <2>1 DEF Typed, Registers, Contents, Suspended
  <2>4. QED BY <1>2, <1>6, <2>1, <2>2, <2>3, Writes
<1>9. ASSUME NEW s \in 2..N, s <= k + 1, reg'[s].en
      PROVE  reg'[s].req /\ reg'[s].new \in {Nop, reg'[s - 1].data}
  <2>1. s \in Stage /\ s - 1 \in Stage
    BY Sizes
  <2>2. reg'[s - 1].data = reg[s - 1].data
    BY <1>6, <2>1
  <2>3. CASE reg'[s] = reg[s] /\ s <= k
    BY <1>9, <2>2, <2>3 DEF Filled
  <2>4. CASE reg'[s] = Suspended(reg[s])
    BY <1>2, <1>9, <2>1, <2>4, Writes
  <2>5. CASE reg'[s] = Written(reg[s], Nop)
    BY <1>2, <2>1, <2>5, Writes
  <2>6. CASE s = k + 1 /\ reg'[s] = Written(reg[s], reg[k].data)
    BY <1>2, <2>1, <2>2, <2>6, Writes
  <2>7. s = k + 1 => reg'[s] = Written(reg[s], reg[k].data)
    BY <1>1, <2>1 DEF Moves, Branches, Stalls
  <2>8. QED BY <1>6, <1>9, <2>1, <2>3, <2>4, <2>5, <2>6, <2>7
<1>10. reg'[N].en
  <2>1. N \in Stage /\ ~(N < k) /\ N # 1 /\ reg[N].en
    BY Sizes DEF Orderly
  <2>2. QED BY <1>2, <1>6, <2>1, Writes
<1>11. QED BY <1>3, <1>7, <1>8, <1>9, <1>10 DEF Orderly, Filled

LEMMA OrderlyVerify ==
    ASSUME Typed, NEW k \in 2..N + 1, Orderly, Filled(k), Verify
    PROVE  Orderly' /\ Filled(k)'
<1>1. ctrl' = ctrl /\ (WillStall' <=> WillStall)
  BY DEF Verify, WillStall
<1>2. \A s \in 2..N : reg'[s] = reg[s]
  BY VerifyEffect
<1>3. reg'[1].data = reg[1].data /\ (reg'[1] = reg[1] \/ WillStall)
  BY VerifyEffect, Writes, Sizes DEF Datum
<1>4. \A s \in Stage : ~reg'[s].en => WillStall
  BY <1>2, <1>3, Sizes DEF Orderly
<1>5. \A s \in 2..N : reg'[s - 1].data = reg[s - 1].data
  BY <1>2, <1>3, Sizes
<1>6. reg'[N].en
  BY <1>2, Sizes DEF Orderly
<1>7. QED BY <1>1, <1>2, <1>4, <1>5, <1>6 DEF Orderly, Filled

LEMMA OrderlyUpdate ==
    ASSUME Typed, Orderly, Update
    PROVE  Orderly' /\ Filled(1)'
<1>1. \A s \in 1..N - 1 : ~ctrl'[s].stallNext
  BY UpdateEffect, Sizes DEF Typed, Requested
<1>2. \A s \in Stage : reg'[s].en
  BY UpdateEffect
<1>3. ASSUME NEW s \in 2..N PROVE reg'[s].data \notin SysCalls /\ reg'[s].new \notin SysCalls
  <2>1. s \in Stage /\ reg[s].data \notin SysCalls /\ reg[s].new \notin SysCalls
    BY Sizes DEF Orderly
  <2>2. reg'[s].data \in {reg[s].data, reg[s].new}
    BY <2>1, UpdateEffect
  <2>3. reg \in Registers /\ reg'[s] = Updated(reg[s])
    BY <2>1 DEF Typed, Update
  <2>4. reg'[s].new = reg[s].new
    BY <2>1, <2>3, UpdatedType
  <2>5. QED BY <2>1, <2>2, <2>4
<1>4. Filled(1)'
  BY DEF Filled
<1>5. QED BY <1>1, <1>2, <1>3, <1>4, Sizes DEF Orderly

\* The lines, place by place.
LEMMA LineAt ==
    ASSUME NEW R, NEW p, NEW k \in 2..N + 1
    PROVE  /\ Line(R, p, k)[1] = p
           /\ \A s \in 2..N : s <= k => Line(R, p, k)[s] = After(R[s])
           /\ \A s \in 2..N + 1 : s > k => Line(R, p, k)[s] = R[s - 1].data
           /\ k = N + 1 => Line(R, p, k)[k] = Nop
<1>1. \A s \in 1..N + 1 : Line(R, p, k)[s] =
         IF s = 1 THEN p
         ELSE IF s > k THEN R[s - 1].data
         ELSE IF s <= N THEN After(R[s]) ELSE Nop
  BY DEF Line, Places
<1>2. \A s \in 1..N + 1 : s = 1 => Line(R, p, k)[s] = p
  BY <1>1
<1>3. \A s \in 2..N : s <= k => Line(R, p, k)[s] = After(R[s])
  <2>1. \A s \in 2..N : s \in 1..N + 1 /\ s # 1 /\ s <= N
    BY Sizes
  <2>2. \A s \in 2..N : s <= k => ~(s > k)
    BY Sizes
  <2>3. QED BY <1>1, <2>1, <2>2
<1>4. \A s \in 2..N + 1 : s > k => Line(R, p, k)[s] = R[s - 1].data
  <2>1. \A s \in 2..N + 1 : s \in 1..N + 1 /\ s # 1
    BY Sizes
  <2>2. QED BY <1>1, <2>1
<1>5. k = N + 1 => Line(R, p, k)[k] = Nop
  <2>1. k = N + 1 => k \in 1..N + 1 /\ k # 1 /\ ~(k > k) /\ ~(k <= N)
    BY Sizes
  <2>2. QED BY <1>1, <2>1
<1>6. 1 \in 1..N + 1
  BY Sizes
<1>7. QED BY <1>2, <1>3, <1>4, <1>5, <1>6

LEMMA HeldAt ==
    ASSUME NEW R
    PROVE  Held(R)[N + 1] = Nop /\ \A s \in 1..N : Held(R)[s] = R[s].data
<1>1. \A s \in 1..N + 1 : Held(R)[s] = IF s <= N THEN R[s].data ELSE Nop
  BY DEF Held, Places
<1>2. N + 1 \in 1..N + 1 /\ ~(N + 1 <= N) /\ \A s \in 1..N : s \in 1..N + 1 /\ s <= N
  BY Sizes
<1>3. QED BY <1>1, <1>2

LEMMA HeldSame ==
    ASSUME NEW R, NEW S, \A s \in Stage : R[s].data = S[s].data
    PROVE  Held(R) = Held(S)
<1>1. \A s \in Places : s <= N => s \in Stage
  BY Sizes DEF Places
<1>2. \A s \in Places : (IF s <= N THEN R[s].data ELSE Nop) = IF s <= N THEN S[s].data ELSE Nop
  BY <1>1
<1>3. QED BY <1>2 DEF Held

LEMMA AfterWrites ==
    ASSUME Typed, NEW j \in Stage, NEW v \in Datum
    PROVE  /\ After(Written(reg[j], v)) = IF reg[j].en THEN v ELSE reg[j].data
           /\ After(Suspended(reg[j])) = reg[j].data
BY Writes DEF After

\* Nothing is branched, called or stalled before the first stage has run.
LEMMA ProgramFetch ==
    ASSUME Typed, Cycle(1), Program(1), Fetch, ~stopFlag',
           reg[1].data \in SysCalls /\ Drained => \A s \in 2..N : reg[s].data = Nop
    PROVE  Program(2)' /\ Completed
<1> DEFINE v == Held(reg)
           c == completed.addr
           a == reg[1].data
           w == Line(reg', NextPc', 2)
<1>1. /\ 2 \in Stage /\ 2 \in 2..N + 1 /\ Nop \in Datum /\ a \in Datum \ {Nop}
      /\ reg[1] \in Contents /\ 1 \in Stage
  BY Sizes DEF Typed, Registers, Contents, Datum
<1>2. /\ \A s \in Stage : reg[s].en /\ ~reg[s].req
      /\ ~WillStall'
  <2>1. ~WillStall
    BY Sizes DEF Cycle, StallsHold, WillStall
  <2>2. ~WillStall'
    BY <2>1, FetchEffect, WillStallMarks
  <2>3. QED BY <2>2, Sizes DEF Cycle, Unused
<1>3. w[1] = After(reg'[1])
  BY <1>1, <1>2, LineAt DEF NextPc
<1>4. w[2] = After(reg'[2]) /\ \A s \in 3..N + 1 : w[s] = reg'[s - 1].data
  BY <1>1, LineAt, Sizes
<1>5. \A s \in Stage : v[s] = reg[s].data
  BY HeldAt
<1>6. v[N + 1] = Nop
  BY HeldAt
<1>7. InLine(Jumps, v, BranchStage + 1, c)
  BY Sizes DEF Program
<1>8. Jumps' = Jumps
  BY DEF Fetch, Jumps
<1>9. IsProgram(Jumps) /\ c \in Int
  BY JumpsProgram, Sizes DEF Typed, Datum
<1> HIDE DEF w, v
<1>10. SUFFICES /\ InLine(Jumps, w, BranchStage + 2, completed'.addr)
                /\ Completed
                /\ completed' = completed \/ \A s \in 2..N : reg[s].data = Nop
  <2>1. \A s \in Stage : reg'[s].data = reg[s].data
    <3>1. \A s \in Stage : reg'[s] = reg[s] \/ \E x \in Datum : reg'[s] = Written(reg[s], x)
      <4>1. Return \in Datum /\ (a \in Addr => a + 1 \in Datum)
        BY PipelineAssumption, Sizes DEF Datum
      <4>2. QED BY <1>1, <4>1, FetchEffect DEF Issues
    <3>2. QED BY <3>1, Writes
  <2>2. Held(reg') = Held(reg)
    BY <2>1, HeldSame
  <2>3. Taken(2) = BranchStage + 2
    BY PipelineAssumption DEF Taken
  <2>4. InLine(Jumps', w, Taken(2), completed'.addr)
    BY <1>8, <1>10, <2>3
  <2>5. ASSUME \E s \in 2..N : reg'[s].data # Nop
        PROVE  InLine(Jumps', Held(reg'), BranchStage + 1, completed'.addr)
    <3>1. completed' = completed
      BY <1>10, <2>1, <2>5
    <3>2. QED BY <1>7, <1>8, <2>2, <3>1 DEF v
  <2>6. QED BY <1>10, <2>4, <2>5 DEF Program, w
<1>11. CASE a \in Addr \ SysCalls /\ Issues(a + 1, a) /\ completed' = completed
  <2>1. reg'[1] = Written(reg[1], a + 1) /\ reg'[2] = Written(reg[2], a)
        /\ \A s \in 3..N : reg'[s] = reg[s]
    BY <1>1, <1>11 DEF Issues
  <2>2. a + 1 \in Datum /\ a \in Nat
    BY <1>11, Sizes DEF Datum
  <2>3. w[1] = a + 1 /\ w[2] = a
    BY <1>1, <1>2, <1>3, <1>4, <2>1, <2>2, AfterWrites
  <2>4. \A s \in 3..N + 1 : w[s] = v[s - 1]
    <3>1. reg'[2].data = reg[2].data
      BY <1>1, <2>1, Writes
    <3>2. \A s \in 3..N + 1 : s - 1 \in 2..N /\ (s - 1 = 2 \/ s - 1 \in 3..N)
      BY Sizes
    <3>3. QED BY <1>4, <1>5, <2>1, <3>1, <3>2
  <2>5. \A s \in 2..N + 1 : w[s] = v[s - 1]
    BY <1>1, <1>5, <2>3, <2>4
  <2>6. w[1] = v[1] + 1 /\ v[1] \in Nat
    BY <1>1, <1>5, <2>2, <2>3
  <2>7. InLine(Jumps, w, BranchStage + 2, c)
    BY <1>6, <1>7, <1>9, <2>5, <2>6, LineFetch
  <2>8. QED BY <1>11, <2>7 DEF Completed
<1>12. CASE /\ \A k \in Stage : reg'[k] = IF k = 2 THEN Written(reg[k], Nop) ELSE reg[k]
            /\ completed' = completed
  <2>1. w[1] = v[1] /\ w[2] = Nop
    BY <1>1, <1>2, <1>3, <1>4, <1>5, <1>12, AfterWrites DEF After
  <2>2. \A s \in 3..N + 1 : w[s] = v[s - 1]
    <3>1. \A s \in 2..N : s \in Stage /\ reg'[s].data = reg[s].data
      BY <1>1, <1>12, Writes, Sizes
    <3>2. \A s \in 3..N + 1 : s - 1 \in 2..N
      BY Sizes
    <3>3. QED BY <1>4, <1>5, <3>1, <3>2
  <2>3. InLine(Jumps, w, BranchStage + 2, c)
    <3>1. \A s \in 1..2 - 1 : w[s] = v[s]
      BY <2>1
    <3>2. \A s \in 1..2 - 1 : (s >= BranchStage + 2) <=> (s >= BranchStage + 1)
      BY PipelineAssumption
    <3>3. ASSUME NEW s \in 2..N
          PROVE  Follow(Jumps, v[s], s + 1 >= BranchStage + 2)
               = Follow(Jumps, v[s], s >= BranchStage + 1)
      <4>1. (s + 1 >= BranchStage + 2) <=> (s >= BranchStage + 1)
        BY PipelineAssumption
      <4>2. QED BY <4>1 DEF Follow
    <3>4. BranchStage + 2 \in Int /\ 2 \in 2..N /\ \A s \in 2 + 1..N + 1 : w[s] = v[s - 1]
      BY <2>2, PipelineAssumption
    <3>5. QED BY <1>6, <1>7, <1>9, <2>1, <3>1, <3>2, <3>3, <3>4, LineBubble
  <2>4. QED BY <1>12, <2>3 DEF Completed
<1>13. CASE /\ a \in SysCalls /\ Drained /\ Issues(Return, Nop)
            /\ Completes(a)
  <2>1. reg'[1] = Written(reg[1], Return) /\ reg'[2] = Written(reg[2], Nop)
        /\ \A s \in 3..N : reg'[s] = reg[s]
    BY <1>1, <1>13 DEF Issues
  <2>2. Return \in Datum /\ Return \in Nat
    BY PipelineAssumption, Sizes DEF Datum
  <2>3. w[1] = Return /\ w[2] = Nop
    BY <1>1, <1>2, <1>3, <1>4, <2>1, <2>2, AfterWrites
  <2>4. \A s \in 2..N : v[s] = Nop /\ reg[s].data = Nop
    BY <1>5, <1>13, Sizes
  <2>5. \A s \in 3..N + 1 : w[s] = Nop
    <3>1. reg'[2].data = reg[2].data
      BY <1>1, <2>1, Writes
    <3>2. \A s \in 3..N + 1 : s - 1 \in 2..N /\ (s - 1 = 2 \/ s - 1 \in 3..N)
      BY Sizes
    <3>3. QED BY <1>4, <2>1, <2>4, <3>1, <3>2
  <2>6. v[1] = a /\ v[1] # Nop /\ \A s \in 2..N + 1 : v[s] = Nop
    <3>1. \A s \in 2..N + 1 : s \in 2..N \/ s = N + 1
      BY Sizes
    <3>2. QED BY <1>1, <1>5, <1>6, <2>4, <3>1
  <2>7. v[1] = Follow(Jumps, c, TRUE)
    BY <1>7, <2>6, LineEmpty
  <2>8. completed' = [addr |-> a, turn |-> 1 - completed.turn]
    BY <1>13 DEF Completes
  <2>9. Completed
    BY <2>6, <2>7, <2>8 DEF Completed
  <2>10. w[1] = (IF a \in DOMAIN Jumps THEN Jumps[a] ELSE a + 1) /\ w[1] \in Nat
    BY <1>13, <2>2, <2>3, JumpsProgram
  <2>11. \A s \in 2..N + 1 : w[s] = Nop
    BY <2>3, <2>5
  <2>12. BranchStage + 2 \in Int /\ BranchStage + 2 > 1
    BY PipelineAssumption
  <2>13. InLine(Jumps, w, BranchStage + 2, a)
    BY <2>10, <2>11, <2>12, LineAlone
  <2>14. QED BY <2>4, <2>8, <2>9, <2>13
<1>14. QED BY <1>11, <1>12, <1>13, FetchOutcome

\* The line after stage k has run, with the instruction that completes, if one
\* does, still in it.
Reached(k) ==
    [s \in Places |-> IF s = 1 THEN NextPc'
                      ELSE IF s <= k THEN After(reg'[s]) ELSE reg[s - 1].data]

LEMMA ReachedAt ==
    ASSUME NEW k \in 2..N
    PROVE  /\ Reached(k)[1] = NextPc'
           /\ \A s \in 2..k : Reached(k)[s] = After(reg'[s])
           /\ \A s \in k + 1..N + 1 : Reached(k)[s] = reg[s - 1].data
<1>1. \A s \in 1..N + 1 : Reached(k)[s] =
         IF s = 1 THEN NextPc'
         ELSE IF s <= k THEN After(reg'[s]) ELSE reg[s - 1].data
  BY DEF Reached, Places
<1>2. 1 \in 1..N + 1 /\ \A s \in 2..k : s \in 1..N + 1 /\ s # 1 /\ s <= k
  BY Sizes
<1>3. \A s \in k + 1..N + 1 : s \in 1..N + 1 /\ s # 1 /\ ~(s <= k)
  BY Sizes
<1>4. QED BY <1>1, <1>2, <1>3

\* Line(k), in the terms of Reached(k).
LEMMA LineBefore ==
    ASSUME NEW k \in 2..N
    PROVE  LET v == Line(reg, NextPc, k) IN
           /\ v[1] = NextPc
           /\ \A s \in 2..k : v[s] = After(reg[s])
           /\ \A s \in k + 1..N + 1 : v[s] = reg[s - 1].data
<1>1. k \in 2..N + 1 /\ \A s \in 2..k : s \in 2..N /\ s <= k
  BY Sizes
<1>2. \A s \in k + 1..N + 1 : s \in 2..N + 1 /\ s > k
  BY Sizes
<1>3. QED BY <1>1, <1>2, LineAt

\* All moves on: only a branch not taken changes from pending to done.
LEMMA ReachedMoves ==
    ASSUME Typed, NEW k \in 2..N, Orderly, Program(k), Moves(k)
    PROVE  InLine(Jumps, Reached(k), Taken(k + 1), completed.addr)
<1> DEFINE v == Line(reg, NextPc, k)
           u == Reached(k)
<1>1. InLine(Jumps, v, Taken(k), completed.addr)
  BY Sizes DEF Program
<1>2. NextPc' = NextPc
  <2>1. WillStall' <=> WillStall
    BY WillStallMarks DEF Moves
  <2>2. reg'[1] = reg[1]
    BY Sizes DEF Moves
  <2>3. QED BY <2>1, <2>2 DEF NextPc
<1>3. \A s \in 2..k : reg'[s] = reg[s]
  BY Sizes DEF Moves
<1>4. u = v
  <2>1. \A s \in Places : s = 1 \/ s \in 2..k \/ s \in k + 1..N + 1
    BY Sizes DEF Places
  <2>2. \A s \in Places : u[s] = v[s]
    BY <1>2, <1>3, <2>1, ReachedAt, LineBefore
  <2>3. QED BY <2>2 DEF Reached, Line
<1>5. CASE k # BranchStage
  <2>1. Taken(k + 1) = Taken(k)
    BY <1>5, PipelineAssumption DEF Taken
  <2>2. QED BY <1>1, <1>4, <2>1
<1>6. CASE k = BranchStage
  <2>1. Taken(k) = (BranchStage + 1) + 1 /\ Taken(k + 1) = BranchStage + 1
    BY <1>6, PipelineAssumption DEF Taken
  <2>2. k + 1 \in k + 1..N + 1 /\ (k + 1) - 1 = k
    BY Sizes
  <2>3. v[k + 1] = reg[k].data
    BY <2>2, LineBefore
  <2>4. v[BranchStage + 1] \notin DOMAIN Jumps
    BY <1>6, <2>3, JumpsProgram DEF Moves, Orderly
  <2>5. BranchStage + 1 \in Int /\ IsProgram(Jumps)
    BY JumpsProgram, PipelineAssumption
  <2> HIDE DEF u, v
  <2>6. InLine(Jumps, v, (BranchStage + 1) + 1, completed.addr)
    BY <1>1, <2>1
  <2>7. InLine(Jumps, v, BranchStage + 1, completed.addr)
    BY <2>4, <2>5, <2>6, LineResolved
  <2>8. QED BY <1>4, <2>1, <2>7 DEF u
<1>7. QED BY <1>5, <1>6

\* A branch is taken.  No stage stalls, so what it writes takes place.
LEMMA ReachedBranches ==
    ASSUME Typed, NEW k \in 2..N, Cycle(k), Orderly, Program(k), Branches(k)
    PROVE  InLine(Jumps, Reached(k), Taken(k + 1), completed.addr)
<1> DEFINE v == Line(reg, NextPc, k)
           u == Reached(k)
           b == reg[k].data
<1>1. InLine(Jumps, v, Taken(k), completed.addr)
  BY Sizes DEF Program
<1>2. k = BranchStage /\ b \in DOMAIN target
  BY DEF Branches
<1>3. ~WillStall
  <2> SUFFICES ASSUME NEW s \in 1..N - 1, ctrl[s].stallNext PROVE FALSE
    BY DEF WillStall
  <2>1. s + 1 < k /\ s + 1 >= BranchStage
    BY DEF Cycle, StallsHold, Orderly
  <2>2. QED BY <1>2, <2>1, PipelineAssumption
<1>4. ~WillStall' /\ \A s \in Stage : reg[s].en
  <2>1. 1..k - 1 \cap {} = {}
    OBVIOUS
  <2>2. ~WillStall'
    BY <1>3, WillStallMarks DEF Branches
  <2>3. QED BY <1>3, <2>2 DEF Orderly
<1>5. target[b] \in Datum /\ Nop \in Datum /\ 1 \in Stage
  BY <1>2, PipelineAssumption, Sizes DEF Typed, TypeOK, Datum
<1>6. reg'[1] = Written(reg[1], target[b])
  BY Sizes DEF Branches
<1>7. u[1] = target[b]
  <2>1. NextPc' = After(reg'[1])
    BY <1>4 DEF NextPc
  <2>2. After(reg'[1]) = target[b]
    BY <1>4, <1>5, <1>6, AfterWrites
  <2>3. QED BY <2>1, <2>2, ReachedAt
<1>8. \A s \in 2..BranchStage : u[s] = Nop
  <2>1. \A s \in 2..k : s \in Stage /\ reg'[s] = Written(reg[s], Nop)
    BY Sizes DEF Branches
  <2>2. \A s \in 2..k : After(reg'[s]) = Nop
    BY <1>4, <1>5, <2>1, AfterWrites
  <2>3. QED BY <1>2, <2>2, ReachedAt
<1>9. \A s \in BranchStage + 1..N + 1 : u[s] = v[s]
  BY <1>2, ReachedAt, LineBefore
<1>10. v[BranchStage + 1] = b
  <2>1. k + 1 \in k + 1..N + 1 /\ (k + 1) - 1 = k
    BY Sizes
  <2>2. QED BY <1>2, <2>1, LineBefore
<1>11. b \in DOMAIN Jumps /\ u[1] = Jumps[b] /\ IsProgram(Jumps)
  BY <1>2, <1>7, JumpsProgram
<1>12. Taken(k) = BranchStage + 2 /\ Taken(k + 1) = BranchStage + 1
  BY <1>2, PipelineAssumption DEF Taken
<1> HIDE DEF u, v
<1>13. InLine(Jumps, u, BranchStage + 1, completed.addr)
  <2>1. InLine(Jumps, v, BranchStage + 2, completed.addr)
    BY <1>1, <1>12
  <2>2. v[BranchStage + 1] \in DOMAIN Jumps /\ u[1] = Jumps[v[BranchStage + 1]]
    BY <1>10, <1>11
  <2>3. QED BY <1>8, <1>9, <1>11, <2>1, <2>2, LineBranch
<1>14. QED BY <1>12, <1>13 DEF u

\* The stages before k stay as they were at the clock edge.
LEMMA ReachedStalls ==
    ASSUME BranchesBeforeStalls, Typed, NEW k \in 2..N, Cycle(k), Orderly, Program(k),
           Stalls(k)
    PROVE  InLine(Jumps, Reached(k), Taken(k + 1), completed.addr)
<1> DEFINE v == Held(reg)
           u == Reached(k)
           B == BranchStage
<1>1. /\ reg[k].data \in Addr /\ reg[k].data \notin DOMAIN target
      /\ reg[k].data \in MayStall[k] /\ k \in Stage /\ Nop \in Datum
  BY PipelineAssumption, Sizes DEF Stalls, Typed, TypeOK, Datum
<1>2. k >= B /\ B \in 2..N
  <2>1. k \notin 2..B - 1
    BY <1>1 DEF BranchesBeforeStalls
  <2>2. QED BY <2>1, PipelineAssumption
<1>3. InLine(Jumps, v, B + 1, completed.addr)
  <2>1. reg[k].data # Nop
    BY <1>1
  <2>2. QED BY <2>1, Sizes DEF Program
<1>4. u[1] = reg[1].data
  <2>1. Marks({k - 1}, {}) /\ k - 1 \in {k - 1} \cap 1..N - 1
    BY Sizes DEF Stalls
  <2>2. WillStall'
    BY <2>1, WillStallMarks
  <2>3. NextPc' = reg'[1].data
    BY <2>2 DEF NextPc
  <2>4. reg'[1] = reg[1]
    BY Sizes DEF Stalls
  <2>5. QED BY <2>3, <2>4, ReachedAt
<1>5. \A s \in 2..k - 1 : u[s] = reg[s].data
  <2>1. \A s \in 2..k - 1 : s \in Stage /\ s \in 2..k /\ reg'[s] = Suspended(reg[s])
    BY Sizes DEF Stalls
  <2>2. \A s \in 2..k - 1 : After(reg'[s]) = reg[s].data
    BY <1>1, <2>1, AfterWrites
  <2>3. QED BY <2>1, <2>2, ReachedAt
<1>6. u[k] = Nop
  <2>1. reg'[k] = Written(reg[k], Nop) /\ reg[k].en /\ k \in 2..k
    BY <1>1, Sizes DEF Stalls, Cycle, Unused
  <2>2. After(reg'[k]) = Nop
    BY <1>1, <2>1, AfterWrites
  <2>3. QED BY <2>1, <2>2, ReachedAt
<1>7. \A s \in 1..k - 1 : u[s] = v[s]
  <2>1. \A s \in 1..k - 1 : s \in 1..N /\ (s = 1 \/ s \in 2..k - 1)
    BY Sizes
  <2>2. QED BY <1>4, <1>5, <2>1, HeldAt
<1>8. \A s \in k + 1..N + 1 : u[s] = v[s - 1]
  <2>1. \A s \in k + 1..N + 1 : s - 1 \in 1..N
    BY Sizes
  <2>2. QED BY <2>1, ReachedAt, HeldAt
<1>9. ASSUME NEW s \in k..N
      PROVE  Follow(Jumps, v[s], s + 1 >= B + 1) = Follow(Jumps, v[s], s >= B + 1)
  <2>1. CASE s = k
    <3>1. v[s] = reg[k].data
      BY <2>1, HeldAt, Sizes
    <3>2. v[s] \notin DOMAIN Jumps
      BY <1>1, <3>1, JumpsProgram DEF Orderly
    <3> HIDE DEF v
    <3>3. QED BY <3>2 DEF Follow
  <2>2. CASE s # k
    <3>1. (s + 1 >= B + 1) <=> (s >= B + 1)
      BY <1>2, <2>2, Sizes
    <3>2. QED BY <3>1 DEF Follow
  <2>3. QED BY <2>1, <2>2
<1>10. v[N + 1] = Nop
  BY HeldAt
<1>11. IsProgram(Jumps) /\ B + 1 \in Int /\ Taken(k + 1) = B + 1
  BY <1>2, JumpsProgram DEF Taken
<1>12. \A s \in 1..k - 1 : (s >= B + 1) <=> (s >= B + 1)
  OBVIOUS
<1> HIDE DEF u, v
<1>13. InLine(Jumps, u, B + 1, completed.addr)
  BY <1>3, <1>6, <1>7, <1>8, <1>9, <1>10, <1>11, <1>12, LineBubble
<1>14. QED BY <1>11, <1>13 DEF u

\* Behind the last stage the instruction completes, and is the one that had to.
LEMMA ProgramExecute ==
    ASSUME BranchesBeforeStalls, Typed, NEW k \in 2..N, Cycle(k), Orderly, Program(k),
           Execute(k)
    PROVE  Program(k + 1)' /\ Completed
<1> DEFINE u == Reached(k)
           w == Line(reg', NextPc', k + 1)
           r == Taken(k + 1)
           c == completed.addr
<1>1. Moves(k) \/ Branches(k) \/ Stalls(k)
  BY ExecuteEffect
<1>2. InLine(Jumps, u, r, c)
  BY <1>1, ReachedMoves, ReachedBranches, ReachedStalls
<1>3. \A s \in Stage : reg'[s].data = reg[s].data
  <2>1. \A s \in Stage : \/ reg'[s] = reg[s]
                         \/ reg'[s] = Suspended(reg[s])
                         \/ \E x \in Datum : reg'[s] = Written(reg[s], x)
    <3>1. /\ k \in Stage /\ reg[k].data \in Datum /\ Nop \in Datum
          /\ reg[k].data \in DOMAIN target => target[reg[k].data] \in Datum
      BY Sizes, PipelineAssumption DEF Typed, TypeOK, Registers, Contents, Datum
    <3>2. QED BY <1>1, <3>1 DEF Moves, Branches, Stalls
  <2>2. QED BY <2>1, Writes DEF Datum
<1>4. reg'[k + 1] = Written(reg[k + 1], reg[k].data) \/ k = N
  BY <1>1, Sizes DEF Moves, Branches, Stalls
<1>5. \A s \in 1..N : w[s] = u[s]
  <2>1. w[1] = u[1]
    BY LineAt, ReachedAt, Sizes
  <2>2. \A s \in 2..k : w[s] = u[s]
    <3>1. k + 1 \in 2..N + 1 /\ \A s \in 2..k : s \in 2..N /\ s <= k + 1
      BY Sizes
    <3>2. QED BY <3>1, LineAt, ReachedAt
  <2>3. k # N => w[k + 1] = u[k + 1]
    <3>1. k # N => k + 1 \in Stage /\ k + 1 \in 2..N /\ k + 1 <= k + 1 /\ (k + 1) - 1 = k
                   /\ reg[k].data \in Datum
      BY Sizes DEF Typed, Registers, Contents
    <3>2. reg[k + 1].en \/ k = N
      BY <3>1, Sizes DEF Cycle, Unused
    <3>3. k # N => After(reg'[k + 1]) = reg[k].data
      BY <1>4, <3>1, <3>2, AfterWrites
    <3>4. k + 1 \in 2..N + 1 /\ k + 1 \in k + 1..N + 1
      BY Sizes
    <3>5. QED BY <3>1, <3>3, <3>4, LineAt, ReachedAt
  <2>4. \A s \in k + 2..N : w[s] = u[s]
    <3>1. k + 1 \in 2..N + 1
      BY Sizes
    <3>2. \A s \in k + 2..N : s \in 2..N + 1 /\ s > k + 1 /\ s - 1 \in Stage
                              /\ s \in k + 1..N + 1
      BY Sizes
    <3>3. QED BY <1>3, <3>1, <3>2, LineAt, ReachedAt
  <2>5. \A s \in 1..N : s = 1 \/ s \in 2..k \/ (s = k + 1 /\ k # N) \/ s \in k + 2..N
    BY Sizes
  <2>6. QED BY <2>1, <2>2, <2>3, <2>4, <2>5
<1>6. u[N + 1] = reg[N].data
  <2>1. N + 1 \in k + 1..N + 1 /\ (N + 1) - 1 = N
    BY Sizes
  <2>2. QED BY <2>1, ReachedAt
<1>7. w[N + 1] = IF k = N THEN Nop ELSE reg[N].data
  <2>1. CASE k = N
    BY <2>1, LineAt, Sizes
  <2>2. CASE k # N
    <3>1. k + 1 \in 2..N + 1 /\ N + 1 \in 2..N + 1 /\ N + 1 > k + 1 /\ (N + 1) - 1 = N
          /\ N \in Stage
      BY <2>2, Sizes
    <3>2. QED BY <1>3, <2>2, <3>1, LineAt
  <2>3. QED BY <2>1, <2>2
<1>8. Jumps' = Jumps /\ IsProgram(Jumps)
  BY JumpsProgram DEF Execute, Jumps
<1>9. r \in 1..N + 1 \/ k # N
  BY PipelineAssumption DEF Taken
<1>10. InLine(Jumps, w, r, completed'.addr) /\ Completed
  <2>1. CASE k = N /\ reg[N].data # Nop
    <3>1. completed' = [addr |-> u[N + 1], turn |-> 1 - completed.turn]
      BY <1>6, <2>1 DEF Execute, Completes
    <3>2. u[N + 1] # Nop /\ w[N + 1] = Nop /\ r \in 1..N + 1
      BY <1>6, <1>7, <1>9, <2>1
    <3> HIDE DEF u, w, r
    <3>3. u[N + 1] = Follow(Jumps, c, TRUE) /\ InLine(Jumps, w, r, u[N + 1])
      BY <1>2, <1>5, <1>8, <3>2, LineComplete
    <3>4. QED BY <3>1, <3>3 DEF Completed
  <2>2. CASE k # N \/ reg[N].data = Nop
    <3>1. completed' = completed
      BY <2>2 DEF Execute
    <3>2. w[N + 1] = u[N + 1]
      BY <1>6, <1>7, <2>2
    <3>3. \A s \in Places : w[s] = u[s]
      <4>1. \A s \in Places : s \in 1..N \/ s = N + 1
        BY Sizes DEF Places
      <4>2. QED BY <1>5, <3>2, <4>1
    <3>4. w = u
      BY <3>3 DEF Line, Reached
    <3>5. QED BY <1>2, <3>1, <3>4 DEF Completed
  <2>3. QED BY <2>1, <2>2
<1>11. ASSUME k + 1 <= N, \E s \in 2..N : reg'[s].data # Nop
       PROVE  InLine(Jumps', Held(reg'), BranchStage + 1, completed'.addr)
  <2>1. completed' = completed
    BY <1>11, Sizes DEF Execute
  <2>2. Held(reg') = Held(reg)
    BY <1>3, HeldSame
  <2>3. \E s \in 2..N : reg[s].data # Nop
    BY <1>3, <1>11, Sizes
  <2>4. InLine(Jumps, Held(reg), BranchStage + 1, c)
    BY <2>3, Sizes DEF Program
  <2>5. QED BY <1>8, <2>1, <2>2, <2>4
<1>12. k + 1 # 1
  BY Sizes
<1>13. InLine(Jumps', w, r, completed'.addr)
  BY <1>8, <1>10
<1> HIDE DEF c, u
<1>14. QED BY <1>10, <1>11, <1>12, <1>13 DEF Program

LEMMA ProgramVerify ==
    ASSUME Typed, NEW k \in 2..N + 1, Program(k), Verify
    PROVE  Program(k)' /\ Completed
<1>1. \A s \in 2..N : reg'[s] = reg[s]
  BY VerifyEffect
<1>2. reg'[1].data = reg[1].data /\ (reg'[1] = reg[1] \/ WillStall)
  BY VerifyEffect, Writes, Sizes DEF Datum
<1>3. WillStall' <=> WillStall
  BY DEF Verify, WillStall
<1>4. NextPc' = NextPc
  BY <1>2, <1>3 DEF NextPc
<1>5. \A s \in Stage : reg'[s].data = reg[s].data
  BY <1>1, <1>2, Sizes
<1>6. Held(reg') = Held(reg)
  BY <1>5, HeldSame
<1>7. Line(reg', NextPc', k) = Line(reg, NextPc, k)
  <2>1. \A s \in Places : Line(reg', NextPc, k)[s] = Line(reg, NextPc, k)[s]
    <3>1. \A s \in Places : s = 1 \/ (s \in 2..N + 1 /\ s > k /\ s - 1 \in Stage)
                            \/ (s \in 2..N /\ s <= k) \/ (s = N + 1 /\ k = N + 1)
      BY Sizes DEF Places
    <3>2. QED BY <1>1, <1>5, <3>1, LineAt
  <2>2. QED BY <1>4, <2>1 DEF Line
<1>8. Jumps' = Jumps /\ completed' = completed
  BY DEF Verify, Jumps
<1>9. (\E s \in 2..N : reg'[s].data # Nop) => \E s \in 2..N : reg[s].data # Nop
  BY <1>1
<1>10. QED BY <1>6, <1>7, <1>8, <1>9 DEF Program, Completed

LEMMA ProgramUpdate ==
    ASSUME Typed, Cycle(N + 1), Program(N + 1), Update
    PROVE  Program(1)' /\ Completed
<1>1. \A s \in Stage : reg'[s].data = After(reg[s])
  BY UpdateEffect DEF After
<1>2. NextPc = After(reg[1])
  <2>1. CASE WillStall
    <3>1. ~reg[1].en
      BY <2>1 DEF WillStall, Cycle, StallsHold, Update
    <3>2. QED BY <2>1, <3>1 DEF NextPc, After
  <2>2. CASE ~WillStall
    BY <2>2 DEF NextPc
  <2>3. QED BY <2>1, <2>2
<1>3. Held(reg') = Line(reg, NextPc, N + 1)
  <2>1. \A s \in Places : s \in 1..N \/ s = N + 1
    BY Sizes DEF Places
  <2>2. \A s \in 1..N : s = 1 \/ (s \in 2..N /\ s <= N + 1)
    BY Sizes
  <2>3. N + 1 \in 2..N + 1
    BY Sizes
  <2>4. \A s \in 1..N : Held(reg')[s] = Line(reg, NextPc, N + 1)[s]
    BY <1>1, <1>2, <2>2, <2>3, HeldAt, LineAt
  <2>5. Held(reg')[N + 1] = Line(reg, NextPc, N + 1)[N + 1]
    BY <2>3, HeldAt, LineAt
  <2>6. \A s \in Places : Held(reg')[s] = Line(reg, NextPc, N + 1)[s]
    BY <2>1, <2>4, <2>5
  <2>7. QED BY <2>6 DEF Held, Line
<1>4. Jumps' = Jumps /\ completed' = completed
  BY DEF Update, Jumps
<1>5. InLine(Jumps, Line(reg, NextPc, N + 1), Taken(N + 1), completed.addr)
  BY Sizes DEF Program
<1>6. Taken(N + 1) = BranchStage + 1
  BY PipelineAssumption DEF Taken
<1>7. InLine(Jumps', Held(reg'), BranchStage + 1, completed'.addr)
  BY <1>3, <1>4, <1>5, <1>6
<1>8. QED BY <1>4, <1>7 DEF Program, Completed

-----------------------------------------------------------------------------
(* Before a system call runs the pipeline has drained.  Every cycle of the *)
(* wait that stalls nothing adds a bubble behind the first stage, at most  *)
(* MaxStalls in a row stall, and none of them holds the last stage.        *)

Budget == MaxStalls + 1

\* The registers hold bubbles, m of them or all.
Bubbles(m) == \A s \in 2..N : s <= m + 1 => reg[s].data = Nop

\* The cycles it takes to issue m bubbles.
Cycles(m) == m * Budget + IF m = N - 2 THEN 0 ELSE stalls

\* All the bubbles, or some and no more nops than the cycles they took.
Issued(k, m) ==
    /\ Bubbles(m)
    /\ m >= N - 1 \/ PathLength - flushesLeft <= Cycles(m) + IF k = 1 THEN 0 ELSE 1

\* In a wait ac_pc stays, bubbles are issued and nothing is about to branch.
Waits(k) ==
    /\ reg[1].data \in SysCalls
    /\ \E m \in Nat : Issued(k, m)
    /\ k >= 2 => /\ reg[1].en => ~reg[1].req
                 /\ reg[2].en => reg[2].new = Nop
                 /\ \A s \in 2..BranchStage : reg[s].data \notin DOMAIN target

Drain(k) == flushesLeft = PathLength \/ Waits(k)

LEMMA Budgeted ==
    ASSUME Typed
    PROVE  /\ stalls \in 0..MaxStalls /\ MaxStalls \in Nat /\ Budget = MaxStalls + 1
           /\ Budget \in Nat /\ PathLength \in Nat /\ flushesLeft \in 0..PathLength
           /\ N - 2 \in Nat
           /\ \A m \in Nat : /\ m * Budget \in Nat
                            /\ (m + 1) * Budget = m * Budget + Budget
<1>1. MaxStalls \in Nat /\ Budget = MaxStalls + 1 /\ Budget \in Nat
  BY PipelineAssumption DEF Budget
<1>2. \A m \in Nat : m * Budget \in Nat /\ (m + 1) * Budget = m * Budget + Budget
  BY <1>1
<1>3. QED BY <1>1, <1>2, PipelineAssumption DEF Typed, TypeOK

\* The nops issued are enough.
LEMMA DrainEmpties ==
    ASSUME CallsDrain, Typed, Drain(1), reg[1].data \in SysCalls, Drained
    PROVE  \A s \in 2..N : reg[s].data = Nop
<1>1. PathLength >= (N - 2) * Budget + 1 /\ flushesLeft = 0
  BY DEF CallsDrain, Budget, Drained
<1>2. PICK m \in Nat : Issued(1, m)
  <2>1. (N - 2) * Budget \in Nat /\ PathLength \in Nat
    BY Budgeted
  <2>2. flushesLeft # PathLength
    BY <1>1, <2>1
  <2>3. QED BY <2>2 DEF Drain, Waits
<1>3. m >= N - 1
  <2> SUFFICES ASSUME m < N - 1 PROVE FALSE
    BY Sizes
  <2>1. PathLength - 0 <= Cycles(m) + 0
    BY <1>1, <1>2, Sizes DEF Issued
  <2>2. CASE m = N - 2
    <3>1. Cycles(m) = (N - 2) * Budget + 0
      BY <2>2 DEF Cycles
    <3>2. QED BY <1>1, <2>1, <3>1, Budgeted
  <2>3. CASE m # N - 2
    <3>1. Cycles(m) = m * Budget + stalls
      BY <2>3 DEF Cycles
    <3>2. m + 1 <= N - 2 /\ m + 1 \in Nat
      BY <2>3, Sizes
    <3>3. (m + 1) * Budget <= (N - 2) * Budget
      <4>1. N - 2 \in Nat /\ Budget \in Nat
        BY Budgeted
      <4>2. QED BY <3>2, <4>1
    <3>4. (m + 1) * Budget = m * Budget + Budget /\ stalls < Budget
      BY Budgeted
    <3>5. m * Budget \in Nat /\ (N - 2) * Budget \in Nat
      BY Budgeted
    <3>6. QED BY <1>1, <2>1, <3>1, <3>3, <3>4, <3>5, Budgeted
  <2>4. QED BY <2>2, <2>3
<1>4. \A s \in 2..N : s <= m + 1
  BY <1>3, Sizes
<1>5. QED BY <1>2, <1>4 DEF Bubbles, Issued

\* A system call is not fetched behind a branch.
LEMMA NothingBranches ==
    ASSUME NoCallBehindBranch, Typed, Program(1), Orderly, reg[1].data \in SysCalls
    PROVE  \A s \in 2..BranchStage : reg[s].data \notin DOMAIN target
<1> SUFFICES ASSUME NEW p \in 2..BranchStage, reg[p].data \in DOMAIN target
             PROVE  FALSE
  OBVIOUS
<1> DEFINE v == Held(reg)
<1>1. v[1] = reg[1].data /\ v[p] = reg[p].data
  BY HeldAt, PipelineAssumption
<1>2. InLine(Jumps, v, BranchStage + 1, completed.addr)
  BY Sizes DEF Program
<1>3. v[1] # Nop /\ v[p] \in DOMAIN Jumps /\ IsProgram(Jumps)
  BY <1>1, JumpsProgram, PipelineAssumption
<1>4. \E j \in 1..BranchStage - 1 : v[1] = v[p] + j
  <2> HIDE DEF v
  <2> QED BY <1>2, <1>3, LineShadow
<1>5. PICK j \in 1..BranchStage - 1 : reg[1].data = reg[p].data + j
  BY <1>1, <1>4
<1>6. target \in Targets
  BY DEF Typed, TypeOK
<1>7. reg[p].data + j \notin SysCalls
  BY <1>6 DEF NoCallBehindBranch
<1>8. QED BY <1>5, <1>7

LEMMA DrainFetch ==
    ASSUME NoCallBehindBranch, Typed, Cycle(1), Program(1), Orderly, Drain(1), Fetch,
           ~stopFlag'
    PROVE  Drain(2)'
<1>1. /\ reg[1].data \in Addr \ SysCalls
      /\ UNCHANGED flushesLeft
      => Drain(2)'
  BY DEF Drain, Waits, Issued
<1>2. CASE /\ reg[1].data \in SysCalls /\ ~Drained
           /\ \A k \in Stage : reg'[k] = IF k = 2 THEN Written(reg[k], Nop) ELSE reg[k]
           /\ flushesLeft' = flushesLeft - 1
  <2>1. /\ 1 \in Stage /\ 2 \in Stage /\ Nop \in Datum /\ target' = target
        /\ stalls' = stalls /\ stalls \in Nat /\ PathLength \in Nat
        /\ flushesLeft \in Int /\ Budget \in Nat
    BY Sizes, PipelineAssumption DEF Datum, Fetch, Typed, TypeOK, Budget
  <2>2. \A s \in Stage : reg'[s].data = reg[s].data
    BY <1>2, <2>1, Writes
  <2>3. reg'[1] = reg[1] /\ ~reg[1].req /\ reg'[2].new = Nop
    BY <1>2, <2>1, Writes DEF Cycle, Unused
  <2>4. \A s \in 2..BranchStage : reg'[s].data \notin DOMAIN target
    <3>1. \A s \in 2..BranchStage : s \in Stage
      BY PipelineAssumption
    <3>2. QED BY <1>2, <2>2, <3>1, NothingBranches
  <2>5. \E m \in Nat : Issued(1, m)
    <3>1. CASE flushesLeft = PathLength
      <4>1. Bubbles(0) /\ 0 * Budget = 0
        BY <2>1 DEF Bubbles
      <4>2. Cycles(0) \in Nat
        BY <2>1, <4>1 DEF Cycles
      <4>3. PathLength - flushesLeft <= Cycles(0) + 0
        BY <2>1, <3>1, <4>2
      <4>4. QED BY <4>1, <4>3 DEF Issued
    <3>2. CASE Waits(1)
      BY <3>2 DEF Waits
    <3>3. QED BY <3>1, <3>2 DEF Drain
  <2>6. PICK m \in Nat : Issued(1, m)
    BY <2>5
  <2>7. Cycles(m)' = Cycles(m) /\ Cycles(m) \in Nat
    <3>1. Cycles(m)' = Cycles(m)
      BY <2>1 DEF Cycles, Budget
    <3>2. m * Budget \in Nat
      BY Budgeted
    <3>3. Cycles(m) \in Nat
      BY <2>1, <3>2 DEF Cycles
    <3>4. QED BY <3>1, <3>3
  <2>8. m >= N - 1 \/ PathLength - flushesLeft' <= Cycles(m)' + 1
    BY <1>2, <2>1, <2>6, <2>7 DEF Issued
  <2>9. Bubbles(m)'
    BY <2>2, <2>6, Sizes DEF Bubbles, Issued
  <2>10. QED BY <1>2, <2>1, <2>2, <2>3, <2>4, <2>8, <2>9 DEF Drain, Waits, Issued
<1>3. QED
  <2>1. reg[1].data \in Addr \ SysCalls => flushesLeft = PathLength
    BY DEF Drain, Waits, Issued
  <2>2. QED BY <1>2, <2>1, FetchOutcome DEF Drain

LEMMA DrainExecute ==
    ASSUME Typed, NEW k \in 2..N, Drain(k), Execute(k)
    PROVE  Drain(k + 1)'
<1>1. UNCHANGED <<flushesLeft, stalls, target>>
  BY DEF Execute
<1>2. CASE flushesLeft = PathLength
  BY <1>1, <1>2 DEF Drain
<1>3. CASE Waits(k)
  <2>1. /\ k # 1 /\ k >= 2 /\ k + 1 # 1 /\ k + 1 >= 2 /\ k \in Stage /\ Nop \in Datum
        /\ reg[k].data \in Datum /\ 1 \in Stage /\ 2 \in Stage
    BY Sizes DEF Typed, Registers, Contents, Datum
  <2>2. Moves(k) \/ Stalls(k)
    <3>1. ~Branches(k)
      BY <1>3, <2>1 DEF Waits, Branches
    <3>2. QED BY <3>1, ExecuteEffect
  <2>3. \A s \in Stage : /\ reg'[s].data = reg[s].data
                         /\ s = 1 => reg'[s] = reg[s]
                         /\ s = 2 => \/ reg'[s] = reg[s] \/ ~reg'[s].en
                                     \/ reg'[s].new = Nop
    <3>1. \A s \in Stage : \/ reg'[s] = reg[s]
                           \/ s >= 2 /\ reg'[s] = Suspended(reg[s])
                           \/ s >= 2 /\ reg'[s] = Written(reg[s], Nop)
                           \/ s >= 3 /\ reg'[s] = Written(reg[s], reg[k].data)
      BY <2>1, <2>2 DEF Moves, Stalls
    <3>2. QED BY <2>1, <3>1, Writes
  <2>4. \A m \in Nat : Bubbles(m) => Bubbles(m)'
    BY <2>3, Sizes DEF Bubbles
  <2>5. \A s \in 2..BranchStage : reg'[s].data \notin DOMAIN target
    <3>1. \A s \in 2..BranchStage : s \in Stage
      BY PipelineAssumption
    <3>2. QED BY <1>3, <2>1, <2>3, <3>1 DEF Waits
  <2>6. PICK m \in Nat : Issued(k, m)
    BY <1>3 DEF Waits
  <2>7. Cycles(m)' = Cycles(m)
    BY <1>1 DEF Cycles, Budget
  <2>8. Bubbles(m)' /\ (m >= N - 1 \/ PathLength - flushesLeft' <= Cycles(m)' + 1)
    BY <1>1, <2>1, <2>4, <2>6, <2>7 DEF Issued
  <2>9. reg'[1].data \in SysCalls
    BY <1>3, <2>1, <2>3 DEF Waits
  <2>10. /\ reg'[1].en => ~reg'[1].req
         /\ reg'[2].en => reg'[2].new = Nop
    BY <1>3, <2>1, <2>3 DEF Waits
  <2>11. QED BY <1>1, <2>1, <2>5, <2>8, <2>9, <2>10 DEF Drain, Waits, Issued
<1>4. QED BY <1>2, <1>3 DEF Drain

LEMMA DrainVerify ==
    ASSUME Typed, NEW k \in 2..N + 1, Drain(k), Verify
    PROVE  Drain(k)'
<1>1. UNCHANGED <<flushesLeft, stalls, target>>
  BY DEF Verify
<1>2. CASE flushesLeft = PathLength
  BY <1>1, <1>2 DEF Drain
<1>3. CASE Waits(k)
  <2>1. k # 1 /\ k >= 2 /\ 1 \in Stage /\ 2 \in 2..N
    BY Sizes
  <2>2. /\ \A s \in 2..N : reg'[s] = reg[s]
        /\ reg'[1].data = reg[1].data
        /\ reg'[1] = reg[1] \/ ~reg'[1].en
    BY <2>1, VerifyEffect, Writes DEF Datum
  <2>3. \A s \in 2..BranchStage : reg'[s].data \notin DOMAIN target
    <3>1. \A s \in 2..BranchStage : s \in 2..N
      BY PipelineAssumption
    <3>2. QED BY <1>3, <2>1, <2>2, <3>1 DEF Waits
  <2>4. PICK m \in Nat : Issued(k, m)
    BY <1>3 DEF Waits
  <2>5. Cycles(m)' = Cycles(m) /\ Bubbles(m)'
    BY <1>1, <2>2, <2>4 DEF Cycles, Budget, Bubbles, Issued
  <2>6. m >= N - 1 \/ PathLength - flushesLeft' <= Cycles(m)' + 1
    BY <1>1, <2>1, <2>4, <2>5 DEF Issued
  <2>7. /\ reg'[1].data \in SysCalls
        /\ reg'[1].en => ~reg'[1].req
        /\ reg'[2].en => reg'[2].new = Nop
    BY <1>3, <2>1, <2>2 DEF Waits
  <2>8. QED BY <1>1, <2>1, <2>3, <2>5, <2>6, <2>7 DEF Drain, Waits, Issued
<1>4. QED BY <1>2, <1>3 DEF Drain

LEMMA DrainUpdate ==
    ASSUME Typed, Orderly, Filled(N + 1), Drain(N + 1), Update
    PROVE  Drain(1)'
<1>1. flushesLeft' = flushesLeft
  BY DEF Update
<1>2. CASE flushesLeft = PathLength
  BY <1>1, <1>2 DEF Drain
<1>3. CASE Waits(N + 1)
  <2>1. /\ N + 1 # 1 /\ N + 1 >= 2 /\ 1 \in Stage /\ 2 \in 2..N
    BY Sizes
  <2>2. \A s \in Stage : reg'[s].data = After(reg[s])
    BY UpdateEffect DEF After
  <2>3. reg'[1].data \in SysCalls
    <3>1. reg[1].data \in SysCalls /\ (reg[1].en => ~reg[1].req)
      BY <1>3, <2>1 DEF Waits
    <3>2. After(reg[1]) = reg[1].data
      BY <3>1 DEF After
    <3>3. QED BY <2>1, <2>2, <3>1, <3>2
  <2>4. PICK m \in Nat : Issued(N + 1, m)
    BY <1>3 DEF Waits
  <2>5. \A s \in 2..N : reg[s].en => /\ reg[s].req
                                     /\ s = 2 => After(reg[s]) = Nop
                                     /\ After(reg[s]) \in {Nop, reg[s - 1].data}
    <3>1. \A s \in 2..N : s <= N + 1
      BY Sizes
    <3>2. reg[2].en => reg[2].new = Nop
      BY <1>3, <2>1 DEF Waits
    <3>3. QED BY <3>1, <3>2 DEF Filled, After
  <2>6. ASSUME NEW s \in 2..N, s <= m + 1 PROVE reg'[s].data = Nop
    <3>1. reg[s].data = Nop /\ s \in Stage /\ (s = 2 \/ reg[s - 1].data = Nop)
      <4>1. s # 2 => s - 1 \in 2..N /\ s - 1 <= m + 1
        BY <2>6, Sizes
      <4>2. s \in Stage
        BY Sizes
      <4>3. \A q \in 2..N : q <= m + 1 => reg[q].data = Nop
        BY <2>4 DEF Bubbles, Issued
      <4>4. ASSUME s # 2 PROVE reg[s - 1].data = Nop
        <5>1. s - 1 \in 2..N /\ s - 1 <= m + 1
          BY <4>1, <4>4
        <5>2. QED BY <4>3, <5>1
      <4>5. QED BY <2>6, <4>2, <4>3, <4>4
    <3>2. CASE reg[s].en
      BY <2>2, <2>5, <3>1, <3>2
    <3>3. CASE ~reg[s].en
      <4>1. After(reg[s]) = reg[s].data
        BY <3>3 DEF After
      <4>2. QED BY <2>2, <3>1, <4>1
    <3>4. QED BY <3>2, <3>3
  <2>7. ASSUME NEW s \in 2..N, s <= (m + 1) + 1, reg[s].en PROVE reg'[s].data = Nop
    <3>1. s \in Stage /\ (s = 2 \/ reg[s - 1].data = Nop)
      <4>1. s # 2 => s - 1 \in 2..N /\ s - 1 <= m + 1
        BY <2>7, Sizes
      <4>2. s \in Stage
        BY Sizes
      <4>3. \A q \in 2..N : q <= m + 1 => reg[q].data = Nop
        BY <2>4 DEF Bubbles, Issued
      <4>4. ASSUME s # 2 PROVE reg[s - 1].data = Nop
        <5>1. s - 1 \in 2..N /\ s - 1 <= m + 1
          BY <4>1, <4>4
        <5>2. QED BY <4>3, <5>1
      <4>5. QED BY <4>2, <4>4
    <3>2. QED BY <2>2, <2>5, <2>7, <3>1
  <2>8. CASE m >= N - 1
    <3>1. Bubbles(m)'
      BY <2>6 DEF Bubbles
    <3>2. QED BY <2>3, <2>8, <3>1 DEF Drain, Waits, Issued
  <2>9. CASE m = N - 2
    <3>1. ASSUME NEW s \in 2..N PROVE reg'[s].data = Nop
      <4>1. s # N => s <= m + 1
        BY <2>9, Sizes
      <4>2. s = N => s <= (m + 1) + 1 /\ reg[s].en
        BY <2>9, Sizes DEF Orderly
      <4>3. QED BY <2>6, <2>7, <4>1, <4>2
    <3>2. Bubbles(m + 1)' /\ m + 1 \in Nat /\ m + 1 >= N - 1
      BY <2>9, <3>1, Sizes DEF Bubbles
    <3>3. QED BY <2>3, <3>2 DEF Drain, Waits, Issued
  <2>10. CASE m < N - 2
    <3>1. PathLength - flushesLeft <= m * Budget + stalls + 1
      BY <2>1, <2>4, <2>10, Sizes DEF Cycles, Issued
    <3>2. CASE WillStall
      <4>1. stalls' = stalls + 1
        BY <3>2 DEF Update
      <4>2. Cycles(m)' = m * Budget + (stalls + 1)
        BY <2>10, <4>1, Sizes DEF Cycles, Budget
      <4>3. PathLength - flushesLeft' <= Cycles(m)' + 0
        BY <1>1, <3>1, <4>2, Budgeted
      <4>4. Bubbles(m)'
        BY <2>6 DEF Bubbles
      <4>5. QED BY <2>3, <4>3, <4>4 DEF Drain, Waits, Issued
    <3>3. CASE ~WillStall
      <4>1. stalls' = 0
        BY <3>3 DEF Update
      <4>2. Cycles(m + 1)' = (m + 1) * Budget + 0
        BY <4>1 DEF Cycles, Budget
      <4>3. PathLength - flushesLeft' <= Cycles(m + 1)' + 0
        BY <1>1, <3>1, <4>2, Budgeted
      <4>4. \A s \in 2..N : reg[s].en
        BY <3>3, Sizes DEF Orderly
      <4>5. Bubbles(m + 1)' /\ m + 1 \in Nat
        BY <2>7, <4>4 DEF Bubbles
      <4>6. QED BY <2>3, <4>3, <4>5 DEF Drain, Waits, Issued
    <3>4. QED BY <3>2, <3>3
  <2>11. QED BY <2>8, <2>9, <2>10, Sizes
<1>4. QED BY <1>2, <1>3 DEF Drain

-----------------------------------------------------------------------------
(* The pipeline implements the sequential machine.                         *)

\* After the simulation has stopped only ac_verify() may still run.
AtTurn(k) == Orderly /\ (~stopFlag => Filled(k) /\ Program(k) /\ Drain(k))

OrderInv == Typed /\ \E k \in 1..N + 1 : Cycle(k) /\ AtTurn(k)

\* The conditions, of which the last three are on the program and its calls.
Conditions == InOrder /\ BranchesBeforeStalls /\ NoCallBehindBranch /\ CallsDrain

LEMMA OrderStep ==
    ASSUME Conditions, OrderInv, [Next]_vars
    PROVE  OrderInv' /\ Completed /\ Jumps' = Jumps
<1>1. PICK k \in 1..N + 1 : Cycle(k) /\ AtTurn(k)
  BY DEF OrderInv
<1>2. Typed /\ InOrder /\ BranchesBeforeStalls /\ NoCallBehindBranch /\ CallsDrain
  BY DEF OrderInv, Conditions
<1>3. (\E j \in 1..N + 1 : Cycle(j)' /\ AtTurn(j)') /\ Completed
  <2>1. CASE k = 1 /\ Fetch /\ Cycle(2)'
    <3>1. ~stopFlag
      BY <2>1 DEF Fetch, Runs
    <3>2. Orderly /\ Program(1) /\ Drain(1)
      BY <1>1, <2>1, <3>1 DEF AtTurn
    <3>3. Orderly' /\ (~stopFlag' => Filled(2)')
      BY <1>1, <1>2, <2>1, <3>2, OrderlyFetch
    <3>4. ASSUME ~stopFlag' PROVE Program(2)' /\ Drain(2)' /\ Completed
      <4>1. reg[1].data \in SysCalls /\ Drained => \A s \in 2..N : reg[s].data = Nop
        BY <1>2, <3>2, DrainEmpties
      <4>2. Program(2)' /\ Completed
        BY <1>1, <1>2, <2>1, <3>2, <3>4, <4>1, ProgramFetch
      <4>3. Drain(2)'
        BY <1>1, <1>2, <2>1, <3>2, <3>4, DrainFetch
      <4>4. QED BY <4>2, <4>3
    <3>5. stopFlag' => Completed
      BY <2>1, <3>1 DEF Fetch, FetchInstruction, FetchBeyond, FetchSysCall, Completed
    <3>6. 2 \in 1..N + 1
      BY Sizes
    <3>7. QED BY <2>1, <3>3, <3>4, <3>5, <3>6 DEF AtTurn
  <2>2. CASE k \in 2..N /\ Execute(k) /\ Cycle(k + 1)'
    <3>1. ~stopFlag
      BY <2>2 DEF Execute, Runs
    <3>2. Orderly /\ Filled(k) /\ Program(k) /\ Drain(k)
      BY <1>1, <3>1 DEF AtTurn
    <3>3. Orderly' /\ Filled(k + 1)'
      BY <1>1, <1>2, <2>2, <3>2, OrderlyExecute
    <3>4. Program(k + 1)' /\ Completed
      BY <1>1, <1>2, <2>2, <3>2, ProgramExecute
    <3>5. Drain(k + 1)'
      BY <1>2, <2>2, <3>2, DrainExecute
    <3>6. k + 1 \in 1..N + 1
      BY <2>2, Sizes
    <3>7. QED BY <2>2, <3>3, <3>4, <3>5, <3>6 DEF AtTurn
  <2>3. CASE k # 1 /\ Verify /\ Cycle(k)'
    <3>1. stopFlag' = stopFlag /\ completed' = completed /\ k \in 2..N + 1
      BY <2>3, Sizes DEF Verify
    <3>2. CASE stopFlag
      <4>1. ctrl' = ctrl /\ (WillStall' <=> WillStall)
        BY <2>3 DEF Verify, WillStall
      <4>2. \A s \in 2..N : reg'[s] = reg[s]
        BY <1>2, <2>3, VerifyEffect
      <4>3. reg'[1] = reg[1] \/ WillStall
        BY <1>2, <2>3, VerifyEffect, Sizes
      <4>4. \A s \in Stage : ~reg'[s].en => WillStall
        BY <1>1, <4>2, <4>3, Sizes DEF AtTurn, Orderly
      <4>5. Orderly'
        BY <1>1, <4>1, <4>2, <4>4, Sizes DEF AtTurn, Orderly
      <4>6. QED BY <2>3, <3>1, <3>2, <4>5 DEF AtTurn, Completed
    <3>3. CASE ~stopFlag
      <4>1. Orderly /\ Filled(k) /\ Program(k) /\ Drain(k)
        BY <1>1, <3>3 DEF AtTurn
      <4>2. Orderly' /\ Filled(k)'
        BY <1>2, <2>3, <3>1, <4>1, OrderlyVerify
      <4>3. Program(k)' /\ Completed
        BY <1>2, <2>3, <3>1, <4>1, ProgramVerify
      <4>4. Drain(k)'
        BY <1>2, <2>3, <3>1, <4>1, DrainVerify
      <4>5. QED BY <2>3, <4>2, <4>3, <4>4 DEF AtTurn
    <3>4. QED BY <3>2, <3>3
  <2>4. CASE k = N + 1 /\ Update /\ Cycle(1)'
    <3>1. ~stopFlag
      BY <2>4 DEF Update
    <3>2. Orderly /\ Filled(N + 1) /\ Program(N + 1) /\ Drain(N + 1) /\ Cycle(N + 1)
      BY <1>1, <2>4, <3>1 DEF AtTurn
    <3>3. Orderly' /\ Filled(1)'
      BY <1>2, <2>4, <3>2, OrderlyUpdate
    <3>4. Program(1)' /\ Completed
      BY <1>2, <2>4, <3>2, ProgramUpdate
    <3>5. Drain(1)'
      BY <1>2, <2>4, <3>2, DrainUpdate
    <3>6. 1 \in 1..N + 1
      BY Sizes
    <3>7. QED BY <2>4, <3>3, <3>4, <3>5, <3>6 DEF AtTurn
  <2>5. CASE UNCHANGED vars
    <3>1. Cycle(k)'
      BY <1>1, <2>5, CycleUnchanged
    <3>2. AtTurn(k)'
      <4>1. UNCHANGED <<reg, ctrl, stopFlag, completed, target, flushesLeft, stalls>>
        BY <2>5 DEF vars
      <4>2. Orderly' /\ (WillStall' <=> WillStall)
        BY <1>1, <4>1 DEF AtTurn, Orderly, WillStall
      <4>3. NextPc' = NextPc /\ Jumps' = Jumps
        BY <4>1, <4>2 DEF NextPc, Jumps
      <4>4. ASSUME ~stopFlag PROVE Filled(k)' /\ Program(k)' /\ Drain(k)'
        <5>1. Filled(k) /\ Program(k) /\ Drain(k)
          BY <1>1, <4>4 DEF AtTurn
        <5>2. Filled(k)'
          BY <4>1, <5>1 DEF Filled
        <5>3. Program(k)'
          BY <4>1, <4>3, <5>1 DEF Program
        <5>4. Drain(k)'
          BY <4>1, <5>1 DEF Drain, Waits, Issued, Bubbles, Cycles, Budget
        <5>5. QED BY <5>2, <5>3, <5>4
      <4>5. QED BY <4>1, <4>2, <4>4 DEF AtTurn
    <3>3. Completed
      BY <2>5 DEF vars, Completed
    <3>4. QED BY <3>1, <3>2, <3>3
  <2>6. QED BY <1>1, <1>2, <2>1, <2>2, <2>3, <2>4, <2>5, Turn
<1>4. Typed'
  BY <1>2, TypedStep
<1>5. Jumps' = Jumps
  BY DEF Next, Fetch, Execute, Verify, Update, vars, Jumps
<1>6. QED BY <1>3, <1>4, <1>5 DEF OrderInv

LEMMA InitOrder == Init => OrderInv
<1> SUFFICES ASSUME Init PROVE OrderInv
  OBVIOUS
<1>1. Typed /\ Cycle(1) /\ 1 \in 1..N + 1 /\ 1 \in Stage
  BY InitTyped, InitCycle, Sizes
<1>2. \A s \in Stage : reg[s] = Register(IF s = 1 THEN 0 ELSE -1)
  BY DEF Init
<1>3. /\ reg[1].data = 0
      /\ \A s \in Stage : reg[s].en
      /\ \A s \in 2..N : reg[s].data = -1 /\ reg[s].new = -1
  <2>1. reg[1] = Register(0)
    BY <1>1, <1>2
  <2>2. \A s \in 2..N : reg[s] = Register(-1)
    <3>1. \A s \in 2..N : s \in Stage /\ s # 1
      BY Sizes
    <3>2. QED BY <1>2, <3>1
  <2>3. \A s \in Stage : reg[s].en
    BY <1>1 DEF Init, Typed, TypeOK
  <2>4. QED BY <2>1, <2>2, <2>3 DEF Register
<1>4. \A s \in 1..N - 1 : ~ctrl[s].stallNext
  BY Sizes DEF Init
<1>5. Orderly
  BY <1>3, <1>4, PipelineAssumption DEF Orderly
<1>6. Filled(1) /\ Drain(1)
  <2>1. Filled(1)
    BY DEF Filled
  <2>2. QED BY <2>1 DEF Init, Drain
<1>7. Program(1)
  <2> DEFINE v == Held(reg)
  <2>1. v[1] = 0 /\ \A s \in 2..N + 1 : v[s] = -1
    <3>1. \A s \in 2..N + 1 : s \in 2..N \/ s = N + 1
      BY Sizes
    <3>2. QED BY <1>1, <1>3, <3>1, HeldAt, Sizes
  <2>2. completed.addr = -1
    BY DEF Init
  <2>3. -1 \notin DOMAIN Jumps
    BY <1>1, JumpsProgram, Sizes DEF IsProgram
  <2> HIDE DEF v
  <2>4. v[1] = (IF -1 \in DOMAIN Jumps THEN Jumps[-1] ELSE -1 + 1)
    BY <2>1, <2>3
  <2>5. BranchStage + 1 \in Int /\ BranchStage + 1 > 1
    BY PipelineAssumption
  <2>6. InLine(Jumps, v, BranchStage + 1, -1)
    BY <2>1, <2>4, <2>5, LineAlone
  <2>7. QED BY <2>2, <2>6 DEF Program, v
<1>8. QED BY <1>1, <1>5, <1>6, <1>7 DEF OrderInv, AtTurn

\* Whatever stalls and flushes, the instructions that leave the pipeline and the
\* system calls are those of the program in its order: the pipeline implements
\* the sequential machine when the behaviours run in the order of the stages,
\* nothing stalls in front of the stage of the branches, the nops cover the
\* longest wait, and no call is fetched behind a branch.
THEOREM PipelineImplementsSequential == Conditions => (Spec => ImplementsSequential)
<1> SUFFICES ASSUME Conditions PROVE Spec => ImplementsSequential
  OBVIOUS
<1>1. Init => Machine!Init
  BY DEF Init, Machine!Init, Machine!Nowhere
<1>2. OrderInv /\ [Next]_vars => OrderInv'
  BY OrderStep
<1>3. OrderInv /\ [Next]_vars => [Machine!Next]_<<Jumps, completed>>
  <2> SUFFICES ASSUME OrderInv, [Next]_vars
               PROVE  [Machine!Next]_<<Jumps, completed>>
    OBVIOUS
  <2>1. Completed /\ Jumps' = Jumps
    BY OrderStep
  <2>2. CASE completed' = completed
    BY <2>1, <2>2
  <2>3. CASE completed' = [addr |-> Follow(Jumps, completed.addr, TRUE),
                           turn |-> 1 - completed.turn]
    <3>1. -1 \notin DOMAIN Jumps
      BY JumpsProgram, Sizes DEF IsProgram, OrderInv
    <3>2. Follow(Jumps, completed.addr, TRUE)
             = IF completed.addr = -1 THEN 0 ELSE Machine!Succ(completed.addr)
      BY <3>1 DEF Follow, Machine!Succ
    <3>3. QED BY <2>1, <2>3, <3>2 DEF Machine!Next, Machine!Nowhere
  <2>4. QED BY <2>1, <2>2, <2>3 DEF Completed
<1>4. QED BY <1>1, <1>2, <1>3, InitOrder, PTL DEF Spec, ImplementsSequential, Machine!Spec
=============================================================================
