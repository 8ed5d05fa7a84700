---------------------------- MODULE GdbStubProof ----------------------------
(***************************************************************************)
(* Proofs about GdbStub, for every program, every capacity of the table,   *)
(* any number of commands, damaged packets and interrupts.                 *)
(*                                                                         *)
(* The inductive invariant has three parts: the types of what travels      *)
(* (Typed), what the flags of the stub say about the current resumption    *)
(* (Flags) and, while Control-C has not been pressed, the state of the     *)
(* conversation (Conversation): whose turn it is, what is on the line, and *)
(* which breakpoints the table holds at that point of it.                  *)
(***************************************************************************)
EXTENDS GdbStub, SharedLemmas

-----------------------------------------------------------------------------
(* The inductive invariant.                                                *)

StubItems == {Ack, Nack, CtrlC} \cup
             {Packet(c, g) : c \in Commands \cup {NoCommand}, g \in BOOLEAN}

Typed ==
    /\ TypeOK
    /\ step \in BOOLEAN /\ firstTime \in BOOLEAN /\ announced \in BOOLEAN
    /\ ran \in 0..2 /\ interrupts \in Nat
    /\ resume.how \in {"start", "c", "s"}
    /\ toStub \in Seq(StubItems) /\ sent \in Commands \cup {NoCommand}
    /\ IsFiniteSet(view) /\ Ordered(bp)

\* The step flag is that of the last resumption; an instruction that is going
\* to run without an announced stop is one at which the stub would not stop.
Flags ==
    /\ resume.how = "s" => step /\ ran <= 1
    /\ resume.how = "s" /\ stage = "exec" => ran = 0
    /\ resume.how = "c" => ~step /\ ~firstTime
    /\ stage = "exec" => announced \/ ~Stops(decoded)

\* The table holds exactly the breakpoints S, unless it has ever been full.
Tracks(S) ==
    Len(bp) < QuantMax => Len(bp) = Cardinality(S) /\ \A a \in S : Holds(bp, a)

\* The debugger waits for the reply to its last command, or for a stop report.
Resumes(c) == c.cmd \in {"c", "s", "none"}
Expecting  == dbg = IF Resumes(sent) THEN "running" ELSE "waiting"

\* The table before and after the stub has served the last command.
Unserved == IF sent.cmd = "z" THEN view \cup {sent.addr} ELSE view
Served   == IF sent.cmd = "Z" THEN view \cup {sent.addr} ELSE view

\* The target runs; the '+' for the command that resumed it may be on its way.
Running ==
    /\ mode = "off" /\ toStub = << >> /\ toGdb \in {<< >>, <<Ack>>}
    /\ dbg = "running" /\ Resumes(sent) /\ Tracks(view)

\* The stub's packet is on its way, or refused.
Answering ==
    /\ mode = "ack" /\ Expecting
    /\ \/ /\ toStub = << >>
          /\ \E g \in BOOLEAN : \/ toGdb = <<Packet(out, g)>>
                                \/ toGdb = <<Ack, Packet(out, g)>>
       \/ toStub = <<Nack>> /\ toGdb = << >>
    /\ IF Resumes(sent) THEN out = StopReport
       ELSE /\ out.answers = sent
            /\ sent.cmd = "Z" /\ Len(bp) < QuantMax => out.text = "OK"
    /\ Tracks(Served)

\* It has been accepted.
Idle ==
    /\ dbg = "idle" /\ toGdb = << >>
    /\ \/ mode = "ack" /\ toStub = <<Ack>>
       \/ mode = "packet" /\ toStub = << >>
    /\ Tracks(view)

\* A command is on its way, or refused.
Commanding ==
    /\ Expecting /\ sent \in Commands
    /\ \/ /\ mode = "ack" /\ toGdb = << >>
          /\ \E g \in BOOLEAN : toStub = <<Ack, Packet(sent, g)>>
       \/ /\ mode = "packet" /\ toGdb = << >>
          /\ \E g \in BOOLEAN : toStub = <<Packet(sent, g)>>
       \/ mode = "packet" /\ toStub = << >> /\ toGdb = <<Nack>>
    /\ sent.cmd \in {"Z", "z"} => sent.addr \notin view
    /\ Tracks(Unserved)

Conversation ==
    interrupts = 0 =>
        ~mismatch /\ (Running \/ Answering \/ Idle \/ Commanding)

IInv == Typed /\ Flags /\ Conversation

-----------------------------------------------------------------------------
(* The line: sequences of at most two items, and the records on it.        *)

LEMMA OneItem ==
    ASSUME NEW x
    PROVE  /\ <<x>> # << >> /\ Head(<<x>>) = x /\ Tail(<<x>>) = << >>
           /\ Append(<< >>, x) = <<x>>
OBVIOUS

LEMMA TwoItems ==
    ASSUME NEW x, NEW y
    PROVE  /\ <<x, y>> # << >> /\ Head(<<x, y>>) = x /\ Tail(<<x, y>>) = <<y>>
           /\ Append(<<x>>, y) = <<x, y>>
<1>1. <<x, y>> # << >> /\ Head(<<x, y>>) = x /\ Tail(<<x, y>>) = <<y>>
  OBVIOUS
<1>2. Append(<<x>>, y) = <<x, y>>
  <2> DEFINE s == Append(<<x>>, y)  t == <<x, y>>
  <2>1. <<x>> \in Seq({x, y}) /\ t \in Seq({x, y}) /\ Len(t) = 2
    OBVIOUS
  <2>2. s \in Seq({x, y}) /\ Len(s) = 2
    BY <2>1
  <2>3. s[1] = x /\ s[2] = y /\ t[1] = x /\ t[2] = y
    BY <2>1
  <2> HIDE DEF s, t
  <2>4. \A i \in 1..Len(s) : s[i] = t[i]
    BY <2>2, <2>3
  <2>5. s = t
    BY <2>1, <2>2, <2>4, SeqEqual
  <2>6. QED BY <2>5 DEF s, t
<1>3. QED BY <1>1, <1>2

\* comm_putpacket() behind at most one '+'.
LEMMA PutShape ==
    ASSUME NEW q, NEW prefix, NEW x,
           \/ q = << >> /\ prefix \in {<< >>, <<Ack>>}
           \/ q = <<Ack>> /\ prefix = << >>
    PROVE  q \o prefix \o <<x>> \in {<<x>>, <<Ack, x>>}
<1>1. \A y : << >> \o << >> \o <<y>> = <<y>>
  OBVIOUS
<1>2. << >> \o <<Ack>> = <<Ack>> /\ <<Ack>> \o << >> = <<Ack>>
  OBVIOUS
<1>3. <<Ack>> \o <<x>> = <<Ack, x>>
  <2>1. <<Ack>> \in Seq({Ack, x}) /\ x \in {Ack, x}
    OBVIOUS
  <2>2. Append(<<Ack>>, x) = <<Ack>> \o <<x>>
    BY ONLY <2>1, AppendIsConcat
  <2>3. QED BY <2>2, TwoItems
<1>4. QED BY <1>1, <1>2, <1>3

LEMMA Items ==
    ASSUME NEW b, NEW g \in BOOLEAN
    PROVE  /\ Packet(b, g).kind = "$" /\ (g <=> Packet(b, g).good)
           /\ Packet(b, g).body = b
           /\ Packet(b, g) # Ack /\ Packet(b, g) # Nack /\ Nack # Ack
           /\ Ack.kind = "+" /\ Nack.kind = "-" /\ CtrlC.kind = "^C"
BY DEF Packet, Ack, Nack, CtrlC

LEMMA CommandShape ==
    ASSUME NEW c \in Commands \cup {NoCommand}
    PROVE  /\ c.cmd \in {"c", "s", "Z", "z", "query", "k", "none"}
           /\ c.cmd = "none" <=> c \notin Commands
           /\ c.cmd \in {"c", "s"} => c.addr \in Named \cup {NoAddress}
           /\ c.cmd \in {"Z", "z"} => c.addr \in Address
           /\ c # Garbled
BY DEF Commands, Command, NoCommand, Garbled

-----------------------------------------------------------------------------
(* The table in the state of the stub.                                     *)

LEMMA TableFacts ==
    ASSUME Typed
    PROVE  /\ bp \in Seq(Address) /\ bp \in Seq(Nat) /\ Ordered(bp)
           /\ Len(bp) \in Nat /\ Len(bp) <= QuantMax /\ QuantMax \in Nat
           /\ Refuses(bp) <=> ~(Len(bp) < QuantMax)
<1>1. bp \in Seq(Address) /\ Ordered(bp) /\ Len(bp) <= QuantMax
  BY DEF Typed, TypeOK
<1>2. bp \in Seq(Nat)
  BY <1>1, AddressAssumption, SeqMonotonic
<1>3. QuantMax \in Nat /\ Len(bp) \in Nat
  BY <1>1, QuantMaxAssumption
<1>4. QED BY <1>1, <1>2, <1>3 DEF Refuses

LEMMA InsertEffect ==
    ASSUME Typed, ~Refuses(bp), NEW a \in Address
    PROVE  /\ Insert(bp, a) \in Seq(Address) /\ Ordered(Insert(bp, a))
           /\ Len(Insert(bp, a)) = Len(bp) + 1 /\ Len(bp) + 1 <= QuantMax
           /\ Holds(Insert(bp, a), a)
           /\ \A x \in Address : Holds(bp, x) => Holds(Insert(bp, a), x)
<1>1. a \in Nat /\ Address \subseteq Nat
  BY AddressAssumption
<1>2. \A x \in Nat : Holds(Insert(bp, a), x) <=> x = a \/ Holds(bp, x)
  BY <1>1, TableFacts, InsertHolds
<1>3. Ordered(Insert(bp, a))
  BY <1>1, TableFacts, InsertOrdered
<1>4. Insert(bp, a) \in Seq(Address) /\ Len(Insert(bp, a)) = Len(bp) + 1
  BY <1>1, TableFacts, InsertType
<1>5. QED BY <1>1, <1>2, <1>3, <1>4, TableFacts

LEMMA DropEffect ==
    ASSUME Typed, NEW a \in Address, Holds(bp, a)
    PROVE  /\ DropFirst(bp, a) \in Seq(Address) /\ Ordered(DropFirst(bp, a))
           /\ Len(DropFirst(bp, a)) = Len(bp) - 1 /\ Len(bp) - 1 <= QuantMax
           /\ \A x \in Address : Holds(bp, x) /\ x # a => Holds(DropFirst(bp, a), x)
<1>1. a \in Nat /\ Address \subseteq Nat
  BY AddressAssumption
<1>2. QED BY <1>1, TableFacts, DropFirstOrdered, DropFirstType

-----------------------------------------------------------------------------
(* Types.                                                                  *)

LEMMA PutPacketType ==
    ASSUME NEW prefix, NEW r, PutPacket(prefix, r)
    PROVE  mode' = "ack" /\ out' = r
BY DEF PutPacket

\* What the stub takes from the line is a command, or no packet at all.
LEMMA HeadType ==
    ASSUME Typed, toStub # << >>
    PROVE  /\ Head(toStub) \in StubItems /\ Tail(toStub) \in Seq(StubItems)
           /\ Head(toStub).kind = "$" /\ ChecksumHolds(Head(toStub)) =>
                 Received(Head(toStub)) \in Commands \cup {NoCommand}
<1>1. Head(toStub) \in StubItems /\ Tail(toStub) \in Seq(StubItems)
  BY DEF Typed
<1>2. CASE Head(toStub) \in {Ack, Nack, CtrlC}
  BY <1>1, <1>2 DEF Ack, Nack, CtrlC
<1>3. ASSUME NEW c \in Commands \cup {NoCommand}, NEW g \in BOOLEAN,
             Head(toStub) = Packet(c, g), ChecksumHolds(Head(toStub))
      PROVE  Received(Head(toStub)) \in Commands \cup {NoCommand}
  BY <1>3, Items DEF ChecksumHolds, Received
<1>4. QED BY <1>1, <1>2, <1>3 DEF StubItems

LEMMA SentItem ==
    ASSUME NEW c \in Commands \cup {NoCommand}, NEW g \in BOOLEAN
    PROVE  Packet(c, g) \in StubItems
BY DEF StubItems

LEMMA ServeTyped ==
    ASSUME Typed, NEW c \in Commands \cup {NoCommand}, Serve(c), stage = "stub",
           UNCHANGED <<decoded, firstTime, announced, dbgVars>>,
           toStub' \in Seq(StubItems)
    PROVE  Typed'
<1> USE DEF Typed, TypeOK, dbgVars
<1>1. mode' = "ack"
  BY CommandShape, PutPacketType DEF Serve, BreakInsert, BreakRemove
<1>2. bp' \in Seq(Address) /\ Len(bp') <= QuantMax /\ Ordered(bp')
  <2>1. CASE c.cmd = "Z" /\ BreakInsert(c)
    <3>1. CASE UNCHANGED bp
      BY <3>1
    <3>2. CASE ~Refuses(bp) /\ bp' = Insert(bp, c.addr)
      BY <2>1, <3>2, CommandShape, InsertEffect
    <3>3. QED BY <2>1, <3>1, <3>2 DEF BreakInsert
  <2>2. CASE c.cmd = "z" /\ BreakRemove(c)
    <3>1. CASE UNCHANGED bp
      BY <3>1
    <3>2. CASE Holds(bp, c.addr) /\ bp' = DropFirst(bp, c.addr)
      BY <2>2, <3>2, CommandShape, DropEffect
    <3>3. QED BY <2>2, <3>1, <3>2 DEF BreakRemove
  <2>3. CASE UNCHANGED bp
    BY <2>3
  <2>4. QED BY <2>1, <2>2, <2>3 DEF Serve
<1>3. QED BY <1>1, <1>2 DEF Serve

LEMMA ResumeTyped ==
    ASSUME Typed, NEW c \in Commands \cup {NoCommand}, c.cmd \in {"c", "s"}, Resume(c),
           UNCHANGED <<decoded, firstTime, announced, dbgVars>>,
           toStub' \in Seq(StubItems)
    PROVE  Typed'
<1>1. pc' \in Address \cup {Outside}
  BY CommandShape, GdbStubAssumption DEF Typed, TypeOK, Resume
<1>2. step' \in BOOLEAN
  BY DEF Resume, StepAfter
<1>3. resume'.how \in {"start", "c", "s"}
  BY DEF Resume
<1>4. QED BY <1>1, <1>2, <1>3 DEF Typed, TypeOK, Resume, dbgVars

LEMMA TypedStep == Typed /\ [Next]_vars => Typed'
<1> SUFFICES ASSUME Typed, [Next]_vars PROVE Typed'
  OBVIOUS
<1>1. CASE Fetch
  BY <1>1 DEF Fetch, Typed, TypeOK, stubVars, dbgVars
<1>2. CASE Check
  <2>1. CASE Stops(decoded) /\ stage' = "stub" /\ firstTime' = FALSE
             /\ announced' = TRUE /\ PutPacket(<< >>, StopReport)
    <3>1. mode' = "ack"
      BY <2>1, PutPacketType
    <3>2. QED BY <1>2, <2>1, <3>1 DEF Check, Typed, TypeOK, dbgVars
  <2>2. CASE stage' = "exec"
             /\ UNCHANGED <<firstTime, mode, out, toGdb, damage, announced>>
    BY <1>2, <2>2 DEF Check, Typed, TypeOK, dbgVars
  <2>3. QED BY <1>2, <2>1, <2>2 DEF Check
<1>3. CASE Exec
  <2>1. pc' \in Address \cup {Outside}
    BY <1>3, GdbStubAssumption DEF Exec, Typed, TypeOK
  <2>2. ran' \in 0..2
    BY <1>3 DEF Exec, Typed
  <2>3. QED BY <1>3, <2>1, <2>2 DEF Exec, Typed, TypeOK, stubVars, dbgVars
<1>4. CASE ReadAck
  <2>1. mode' \in {"ack", "packet"}
    BY <1>4, PutPacketType DEF ReadAck
  <2>2. toStub' \in Seq(StubItems)
    BY <1>4, HeadType DEF ReadAck
  <2>3. QED BY <1>4, <2>1, <2>2
            DEF ReadAck, Typed, TypeOK, procVars, dbgVars, histVars
<1>5. CASE GetPacket
  <2>1. toStub' \in Seq(StubItems)
    BY <1>5, HeadType DEF GetPacket
  <2>2. CASE UNCHANGED <<procVars, stubVars, histVars>>
    BY <1>5, <2>1, <2>2
    DEF GetPacket, Typed, TypeOK, procVars, stubVars, dbgVars, histVars
  <2> DEFINE c == Received(Head(toStub))
  <2>3. CASE /\ c \in Commands \cup {NoCommand}
             /\ IF c.cmd \in {"c", "s"} THEN Resume(c) ELSE Serve(c)
             /\ UNCHANGED <<decoded, firstTime, announced>>
    <3> HIDE DEF c
    <3>1. stage = "stub" /\ UNCHANGED dbgVars
      BY <1>5 DEF GetPacket
    <3>2. QED BY <2>1, <2>3, <3>1, ServeTyped, ResumeTyped
  <2>4. QED BY <1>5, <2>2, <2>3, HeadType DEF GetPacket
<1>6. CASE SendCommand
  <2>1. PICK c \in Commands, g \in BOOLEAN :
            /\ toStub' = Append(toStub, Packet(c, g)) /\ sent' = c
            /\ view' = IF c.cmd = "z" THEN view \ {c.addr} ELSE view
            /\ dbg' = IF c.cmd \in {"c", "s"} THEN "running" ELSE "waiting"
    BY <1>6 DEF SendCommand
  <2>2. toStub' \in Seq(StubItems)
    BY <2>1, SentItem, AppendProperties DEF Typed
  <2>3. IsFiniteSet(view') /\ view' \subseteq Address
    BY <2>1, FS_Subset DEF Typed, TypeOK
  <2>4. QED BY <1>6, <2>1, <2>2, <2>3
            DEF SendCommand, Typed, TypeOK, procVars, stubVars, histVars
<1>7. CASE GdbReads
  <2>1. toStub' \in Seq(StubItems)
    <3>1. Ack \in StubItems /\ Nack \in StubItems
      BY DEF StubItems
    <3>2. \A g \in BOOLEAN : Packet(sent, g) \in StubItems
      BY SentItem DEF Typed
    <3>3. toStub' = toStub \/ \E x \in StubItems : toStub' = Append(toStub, x)
      BY <1>7, <3>1, <3>2 DEF GdbReads
    <3>4. QED BY <3>3, AppendProperties DEF Typed
  <2>2. dbg' \in {"running", "idle", "waiting"}
    BY <1>7 DEF GdbReads, TakeReply, Typed, TypeOK
  <2>3. IsFiniteSet(view') /\ view' \subseteq Address
    <3>1. CASE UNCHANGED view
      BY <3>1 DEF Typed, TypeOK
    <3>2. CASE sent.cmd = "Z" /\ view' = view \cup {sent.addr}
      <4>1. IsFiniteSet(view) /\ view \subseteq Address /\ sent.addr \in Address
        BY <3>2, CommandShape DEF Typed, TypeOK
      <4>2. IsFiniteSet(view \cup {sent.addr})
        BY <4>1, FS_AddElement
      <4>3. QED BY <3>2, <4>1, <4>2
    <3>3. QED BY <1>7, <3>1, <3>2 DEF GdbReads, TakeReply
  <2>4. QED BY <1>7, <2>1, <2>2, <2>3
            DEF GdbReads, Typed, TypeOK, procVars, stubVars, histVars
<1>8. CASE Interrupt
  <2>1. toStub' \in Seq(StubItems)
    BY <1>8, AppendProperties DEF Interrupt, Typed, StubItems
  <2>2. QED BY <1>8, <2>1
            DEF Interrupt, Typed, TypeOK, procVars, stubVars, histVars
<1>9. CASE UNCHANGED vars
  BY <1>9 DEF vars, Typed, TypeOK, procVars, stubVars, dbgVars, histVars
<1>10. QED BY <1>1, <1>2, <1>3, <1>4, <1>5, <1>6, <1>7, <1>8, <1>9
           DEF Next, Simulator

-----------------------------------------------------------------------------
(* The flags of the stub.                                                  *)

\* Steps that touch neither the processor nor the stub's own flags.
LEMMA FlagsUntouched ==
    ASSUME Flags, UNCHANGED <<stage, step, ran, resume, firstTime, decoded, announced, bp>>
    PROVE  Flags'
BY DEF Flags, Stops, ExistsResult, Refuses, Finds

LEMMA ServeFlags ==
    ASSUME Typed, Flags, NEW c, Serve(c), stage = "stub",
           UNCHANGED <<decoded, firstTime, announced>>
    PROVE  Flags'
BY DEF Flags, Serve

LEMMA ResumeFlags ==
    ASSUME Typed, Flags, NEW c, c.cmd \in {"c", "s"}, Resume(c), stage = "stub",
           UNCHANGED <<decoded, firstTime, announced>>
    PROVE  Flags'
<1>1. announced /\ ~firstTime
  BY DEF Typed, TypeOK
<1>2. resume'.how = c.cmd /\ ran' = 0
  BY DEF Resume
<1>3. (c.cmd = "s" => step') /\ (c.cmd = "c" => ~step')
  BY DEF Resume, StepAfter
<1>4. QED BY <1>1, <1>2, <1>3 DEF Flags

LEMMA FlagsStep == Typed /\ Flags /\ [Next]_vars => Flags'
<1> SUFFICES ASSUME Typed, Flags, [Next]_vars PROVE Flags'
  OBVIOUS
<1>1. CASE Fetch
  <2>1. stage' # "exec"
    BY <1>1 DEF Fetch
  <2>2. QED BY <1>1, <2>1 DEF Fetch, Flags, stubVars
<1>2. CASE Check
  <2>1. CASE stage' = "stub" /\ firstTime' = FALSE
    BY <1>2, <2>1 DEF Check, Flags
  <2>2. CASE ~Stops(decoded) /\ UNCHANGED firstTime
    <3>1. ~step /\ UNCHANGED <<decoded, step, bp, resume, ran>>
      BY <1>2, <2>2 DEF Check, Stops
    <3>2. ~Stops(decoded)'
      BY <2>2, <3>1 DEF Stops, ExistsResult, Refuses, Finds
    <3>3. QED BY <2>2, <3>1, <3>2 DEF Flags
  <2>3. QED BY <1>2, <2>1, <2>2 DEF Check
<1>3. CASE Exec
  <2>1. stage = "exec" /\ stage' # "exec" /\ ran' \in {ran, ran + 1}
        /\ UNCHANGED <<step, firstTime, resume>>
    BY <1>3 DEF Exec, stubVars
  <2>2. resume.how = "s" => ran' <= 1
    BY <1>3, <2>1 DEF Exec, Flags
  <2>3. QED BY <2>1, <2>2 DEF Flags
<1>4. CASE ReadAck
  BY <1>4, FlagsUntouched DEF ReadAck, procVars, histVars, PutPacket
<1>5. CASE GetPacket
  <2>1. CASE UNCHANGED <<procVars, stubVars, histVars>>
    BY <2>1, FlagsUntouched DEF procVars, stubVars, histVars
  <2> DEFINE c == Received(Head(toStub))
  <2>2. CASE /\ IF c.cmd \in {"c", "s"} THEN Resume(c) ELSE Serve(c)
             /\ UNCHANGED <<decoded, firstTime, announced>>
    <3> HIDE DEF c
    <3>1. stage = "stub"
      BY <1>5 DEF GetPacket
    <3>2. QED BY <2>2, <3>1, ServeFlags, ResumeFlags
  <2>3. QED BY <1>5, <2>1, <2>2 DEF GetPacket
<1>6. CASE SendCommand \/ GdbReads \/ Interrupt
  BY <1>6, FlagsUntouched
  DEF SendCommand, GdbReads, Interrupt, procVars, stubVars, histVars
<1>7. CASE UNCHANGED vars
  BY <1>7, FlagsUntouched DEF vars, procVars, stubVars, histVars
<1>8. QED BY <1>1, <1>2, <1>3, <1>4, <1>5, <1>6, <1>7 DEF Next, Simulator

-----------------------------------------------------------------------------
(* The conversation.                                                       *)

LEMMA Expected ==
    ASSUME Typed, Expecting
    PROVE  /\ dbg = "running" <=> Resumes(sent)
           /\ dbg = "waiting" <=> ~Resumes(sent)
           /\ dbg # "idle"
BY DEF Expecting

\* In each state of the line, what its ends read next.
LEMMA LineHeads ==
    ASSUME Running \/ Answering \/ Idle \/ Commanding
    PROVE  /\ mode = "ack" /\ toStub # << >> => ~Running
           /\ mode = "packet" /\ toStub # << >> =>
                 Commanding /\ \E g \in BOOLEAN : toStub = <<Packet(sent, g)>>
                           /\ toGdb = << >>
           /\ dbg = "idle" => Idle
BY OneItem, TwoItems DEF Running, Answering, Idle, Commanding, Expecting

\* The stub sends a packet (with a '+' before it): the answer is on its way.
LEMMA PutAnswers ==
    ASSUME Typed, NEW prefix, NEW r, PutPacket(prefix, r),
           toStub' = << >>,
           \/ toGdb = << >> /\ prefix \in {<< >>, <<Ack>>}
           \/ toGdb = <<Ack>> /\ prefix = << >>,
           Expecting', UNCHANGED sent,
           IF Resumes(sent) THEN r = StopReport
           ELSE r.answers = sent /\ (sent.cmd = "Z" /\ Len(bp') < QuantMax => r.text = "OK"),
           Tracks(Served)'
    PROVE  Answering'
<1>1. mode' = "ack" /\ out' = r
  BY PutPacketType
<1>2. PICK g \in BOOLEAN : toGdb' = toGdb \o prefix \o <<Packet(r, g)>>
  BY DEF PutPacket
<1>3. toGdb' \in {<<Packet(r, g)>>, <<Ack, Packet(r, g)>>}
  BY <1>2, PutShape
<1>4. QED BY <1>1, <1>3 DEF Answering, Resumes

\* The processor between two stops.
LEMMA ProcessorTurn ==
    ASSUME Typed, Running, Fetch \/ Check \/ Exec
    PROVE  Running' \/ Answering'
<1>1. CASE Fetch \/ Exec
  BY <1>1 DEF Fetch, Exec, Running, stubVars, dbgVars, Tracks, Resumes
<1>2. CASE Check
  <2>1. CASE UNCHANGED <<mode, out, toGdb>>
    BY <1>2, <2>1 DEF Check, Running, dbgVars, Tracks, Resumes
  <2>2. CASE PutPacket(<< >>, StopReport)
    <3>1. toStub' = << >> /\ (toGdb = << >> \/ toGdb = <<Ack>>)
          /\ UNCHANGED <<sent, view, bp, dbg>>
      BY <1>2 DEF Check, Running, dbgVars
    <3>2. Expecting' /\ Resumes(sent)
      BY <3>1 DEF Expecting, Running, Resumes
    <3>3. Tracks(Served)'
      BY <3>1 DEF Running, Tracks, Served, Resumes
    <3>4. QED BY <2>2, <3>1, <3>2, <3>3, PutAnswers
  <2>3. QED BY <1>2, <2>1, <2>2 DEF Check
<1>3. QED BY <1>1, <1>2

\* A '+' ends the stub's turn, a '-' has it say the same again.
LEMMA AckTurn ==
    ASSUME Typed, Answering \/ Idle \/ Commanding, ReadAck
    PROVE  Answering' \/ Idle' \/ Commanding'
<1>1. mode = "ack" /\ toStub # << >> /\ toStub' = Tail(toStub)
      /\ UNCHANGED <<bp, sent, view, dbg>>
  BY DEF ReadAck, dbgVars
<1>2. ASSUME Head(toStub) = Ack PROVE mode' = "packet" /\ UNCHANGED <<out, toGdb>>
  BY <1>2 DEF ReadAck, Acknowledges
<1>3. CASE Answering
  <2>1. toStub = <<Nack>> /\ toGdb = << >>
    BY <1>1, <1>3 DEF Answering
  <2>2. PutPacket(<< >>, out) /\ toStub' = << >>
    BY <1>1, <2>1, OneItem, Items DEF ReadAck, Acknowledges
  <2>3. Expecting' /\ Tracks(Served)'
    BY <1>1, <1>3 DEF Answering, Expecting, Resumes, Tracks, Served
  <2>4. IF Resumes(sent) THEN out = StopReport
        ELSE out.answers = sent /\ (sent.cmd = "Z" /\ Len(bp') < QuantMax => out.text = "OK")
    BY <1>1, <1>3 DEF Answering
  <2>5. QED BY <1>1, <2>1, <2>2, <2>3, <2>4, PutAnswers
<1>4. CASE Idle
  <2>1. toStub = <<Ack>>
    BY <1>1, <1>4 DEF Idle
  <2>2. QED BY <1>1, <1>2, <1>4, <2>1, OneItem DEF Idle, Tracks
<1>5. CASE Commanding
  <2>1. PICK g \in BOOLEAN : toStub = <<Ack, Packet(sent, g)>>
    BY <1>1, <1>5 DEF Commanding
  <2>2. toStub' = <<Packet(sent', g)>> /\ mode' = "packet" /\ toGdb' = << >>
    BY <1>1, <1>2, <1>5, <2>1, TwoItems DEF Commanding
  <2>3. QED BY <1>1, <1>5, <2>2
            DEF Commanding, Expecting, Resumes, Tracks, Unserved
<1>6. QED BY <1>3, <1>4, <1>5

\* The table does what the command says, once.
LEMMA ServeTracks ==
    ASSUME Typed, Commanding, Serve(sent), UNCHANGED <<sent, view>>
    PROVE  /\ Tracks(Served)'
           /\ sent.cmd = "Z" /\ Len(bp') < QuantMax => out'.text = "OK"
           /\ out'.answers = sent
<1>1. out'.answers = sent
  <2>1. \E text : PutPacket(<<Ack>>, Reply(text, sent))
    BY DEF Serve, BreakInsert, BreakRemove
  <2>2. PICK text : out' = Reply(text, sent)
    BY <2>1, PutPacketType
  <2>3. QED BY <2>2 DEF Reply
<1>2. CASE sent.cmd = "Z"
  <2>1. BreakInsert(sent) /\ sent.addr \in Address \ view
    BY <1>2, CommandShape DEF Serve, Commanding, Typed, Garbled, Command
  <2>2. CASE Refuses(bp) /\ UNCHANGED bp
    BY <1>1, <2>2, TableFacts DEF Tracks
  <2>3. CASE ~Refuses(bp) /\ bp' = Insert(bp, sent.addr)
    <3>1. out'.text = "OK"
      BY <2>1, <2>3, PutPacketType DEF BreakInsert, Reply
    <3>2. Len(bp) = Cardinality(view) /\ \A a \in view : Holds(bp, a)
      BY <1>2, <2>3, TableFacts DEF Commanding, Tracks, Unserved
    <3>3. Len(bp') = Len(bp) + 1 /\ \A a \in view \cup {sent.addr} : Holds(bp', a)
      BY <2>1, <2>3, <3>2, InsertEffect DEF Typed, TypeOK
    <3>4. Cardinality(view \cup {sent.addr}) = Cardinality(view) + 1
      BY <2>1, FS_AddElement DEF Typed
    <3>5. QED BY <1>1, <1>2, <3>1, <3>2, <3>3, <3>4 DEF Tracks, Served
  <2>4. QED BY <2>1, <2>2, <2>3 DEF BreakInsert
<1>3. CASE sent.cmd = "z"
  <2>1. BreakRemove(sent) /\ sent.addr \in Address \ view
    BY <1>3, CommandShape DEF Serve, Commanding, Typed, Garbled, Command
  <2>2. CASE Refuses(bp) /\ UNCHANGED bp
    BY <1>1, <1>3, <2>2, TableFacts DEF Tracks
  <2>3. CASE ~Refuses(bp)
    <3>1. /\ Len(bp) = Cardinality(view \cup {sent.addr})
          /\ \A a \in view \cup {sent.addr} : Holds(bp, a)
      BY <1>3, <2>3, TableFacts DEF Commanding, Tracks, Unserved
    <3>2. bp' = DropFirst(bp, sent.addr)
      BY <2>1, <2>3, <3>1 DEF BreakRemove
    <3>3. Len(bp') = Len(bp) - 1 /\ \A a \in view : Holds(bp', a)
      BY <2>1, <3>1, <3>2, DropEffect DEF Typed, TypeOK
    <3>4. Cardinality(view \cup {sent.addr}) = Cardinality(view) + 1
          /\ Cardinality(view) \in Nat
      BY <2>1, FS_AddElement, FS_CardinalityType DEF Typed
    <3>5. QED BY <1>1, <1>3, <3>1, <3>3, <3>4 DEF Tracks, Served
  <2>4. QED BY <2>1, <2>2, <2>3 DEF BreakRemove
<1>4. CASE sent.cmd \notin {"Z", "z"}
  <2>1. UNCHANGED bp
    BY <1>4 DEF Serve
  <2>2. QED BY <1>1, <1>4, <2>1 DEF Commanding, Tracks, Served, Unserved
<1>5. QED BY <1>2, <1>3, <1>4

\* The stub reads a packet: '-' if it is damaged, else it resumes or answers.
LEMMA PacketTurn ==
    ASSUME Typed, Running \/ Answering \/ Idle \/ Commanding, GetPacket
    PROVE  Running' \/ Answering' \/ Commanding'
<1>1. /\ mode = "packet" /\ toStub # << >> /\ toStub' = Tail(toStub)
      /\ UNCHANGED <<sent, view, dbg>>
  BY DEF GetPacket, dbgVars
<1>2. Commanding /\ toGdb = << >>
  BY <1>1, LineHeads
<1>3. PICK g \in BOOLEAN : toStub = <<Packet(sent, g)>>
  BY <1>1, LineHeads
<1>4. Head(toStub) = Packet(sent, g) /\ toStub' = << >>
  BY <1>1, <1>3, OneItem
<1>5. Expecting' /\ UNCHANGED Resumes(sent)
  BY <1>1, <1>2 DEF Commanding, Expecting, Resumes
<1>6. CASE ~g
  <2>1. toGdb' = <<Nack>> /\ UNCHANGED <<mode, bp>>
    BY <1>2, <1>4, <1>6, Items, OneItem DEF GetPacket, ChecksumHolds, stubVars
  <2>2. QED BY <1>1, <1>2, <1>4, <1>5, <2>1 DEF Commanding, Tracks, Unserved
<1>7. CASE g
  <2>1. Received(Packet(sent, g)) = sent
    BY <1>7, Items DEF Received
  <2>2. IF sent.cmd \in {"c", "s"} THEN Resume(sent) ELSE Serve(sent)
    <3> DEFINE p == Packet(sent, g)
    <3>1. p.kind = "$" /\ ChecksumHolds(p) /\ Received(p) = sent
      BY <1>7, <2>1, Items DEF ChecksumHolds
    <3> HIDE DEF p
    <3>2. IF Received(p).cmd \in {"c", "s"} THEN Resume(Received(p))
                                           ELSE Serve(Received(p))
      BY <1>4, <3>1, Zenon DEF GetPacket, p
    <3>3. QED BY <3>1, <3>2, Zenon
  <2>3. CASE sent.cmd \in {"c", "s"}
    <3>1. mode' = "off" /\ toGdb' = <<Ack>> /\ UNCHANGED bp
      BY <1>2, <2>2, <2>3, OneItem DEF Resume
    <3>2. dbg' = "running" /\ Resumes(sent)'
      BY <1>1, <1>5, <2>3 DEF Expecting, Resumes
    <3>3. Tracks(view)'
      BY <1>1, <1>2, <2>3, <3>1 DEF Commanding, Tracks, Unserved
    <3>4. QED BY <1>4, <3>1, <3>2, <3>3 DEF Running
  <2>4. CASE sent.cmd \notin {"c", "s"}
    <3>1. \E text : PutPacket(<<Ack>>, Reply(text, sent))
      BY <2>2, <2>4 DEF Serve, BreakInsert, BreakRemove
    <3>2. PICK text : PutPacket(<<Ack>>, Reply(text, sent))
      BY <3>1
    <3>3. out' = Reply(text, sent)
      BY <3>2, PutPacketType
    <3>4. /\ Tracks(Served)' /\ Reply(text, sent).answers = sent
          /\ sent.cmd = "Z" /\ Len(bp') < QuantMax => Reply(text, sent).text = "OK"
      BY <1>1, <1>2, <2>2, <2>4, <3>3, ServeTracks
    <3>5. ~Resumes(sent)
      BY <1>2, <2>4, CommandShape DEF Commanding, Resumes
    <3>6. QED BY <1>1, <1>2, <1>4, <1>5, <3>2, <3>4, <3>5, PutAnswers
  <2>5. QED BY <2>3, <2>4
<1>8. QED BY <1>6, <1>7

\* The debugger's turn.
LEMMA SendTurn ==
    ASSUME Typed, Running \/ Answering \/ Idle \/ Commanding, SendCommand
    PROVE  Commanding'
<1>1. Idle /\ UNCHANGED <<bp, mode, toGdb>>
  BY LineHeads DEF SendCommand, stubVars
<1>2. PICK c \in Commands, g \in BOOLEAN :
          /\ c.cmd = "Z" => c.addr \notin view
          /\ c.cmd = "z" => c.addr \in view
          /\ toStub' = Append(toStub, Packet(c, g)) /\ sent' = c
          /\ view' = IF c.cmd = "z" THEN view \ {c.addr} ELSE view
          /\ dbg' = IF c.cmd \in {"c", "s"} THEN "running" ELSE "waiting"
  BY DEF SendCommand
<1>3. \/ toStub' = <<Packet(c, g)>> /\ mode' = "packet"
      \/ toStub' = <<Ack, Packet(c, g)>> /\ mode' = "ack"
  <2>1. \/ mode = "ack" /\ toStub = <<Ack>>
        \/ mode = "packet" /\ toStub = << >>
    BY <1>1 DEF Idle
  <2>2. Append(<<Ack>>, Packet(c, g)) = <<Ack, Packet(c, g)>>
        /\ Append(<< >>, Packet(c, g)) = <<Packet(c, g)>>
    BY OneItem, TwoItems
  <2>3. QED BY <1>1, <1>2, <2>1, <2>2
<1>4. Expecting'
  BY <1>2, CommandShape DEF Expecting, Resumes
<1>5. sent'.cmd \in {"Z", "z"} => sent'.addr \notin view'
  BY <1>2
<1>6. Unserved' = view
  BY <1>2 DEF Unserved
<1>7. Tracks(Unserved)'
  BY <1>1, <1>6 DEF Idle, Tracks
<1>8. QED BY <1>1, <1>2, <1>3, <1>4, <1>5, <1>7 DEF Idle, Commanding

LEMMA DebuggerTurn ==
    ASSUME Typed, ~mismatch, Running \/ Answering \/ Idle \/ Commanding, GdbReads
    PROVE  ~mismatch' /\ (Running' \/ Answering' \/ Idle' \/ Commanding')
<1>1. /\ toGdb # << >> /\ toGdb' = Tail(toGdb)
      /\ UNCHANGED <<bp, mode, out, sent>>
  BY DEF GdbReads, stubVars
<1>2. CASE Running
  <2>1. toGdb = <<Ack>>
    BY <1>1, <1>2 DEF Running
  <2>2. Head(toGdb) = Ack /\ toGdb' = << >>
    BY <1>1, <2>1, OneItem
  <2>3. UNCHANGED <<toStub, dbg, view, mismatch>>
    BY <2>2, Items DEF GdbReads
  <2>4. QED BY <1>1, <1>2, <2>2, <2>3 DEF Running, Tracks, Resumes
<1>3. CASE Answering
  <2>1. PICK g \in BOOLEAN : toGdb \in {<<Packet(out, g)>>, <<Ack, Packet(out, g)>>}
    BY <1>1, <1>3 DEF Answering
  <2>2. CASE toGdb = <<Ack, Packet(out, g)>>
    <3>1. Head(toGdb) = Ack /\ toGdb' = <<Packet(out', g)>>
      BY <1>1, <2>2, TwoItems
    <3>2. UNCHANGED <<toStub, dbg, view, mismatch>>
      BY <3>1, Items DEF GdbReads
    <3>3. toStub = << >>
      BY <1>1, <1>3 DEF Answering
    <3>4. QED BY <1>1, <1>3, <3>1, <3>2, <3>3
              DEF Answering, Expecting, Resumes, Tracks, Served
  <2>3. CASE toGdb = <<Packet(out, g)>>
    <3>1. Head(toGdb) = Packet(out, g) /\ toGdb' = << >>
      BY <1>1, <2>3, OneItem
    <3>2. toStub = << >>
      BY <1>1, <1>3 DEF Answering
    <3>3. CASE ~g
      <4>1. toStub' = <<Nack>> /\ UNCHANGED <<dbg, view, mismatch>>
        BY <3>1, <3>2, <3>3, Items, OneItem DEF GdbReads
      <4>2. QED BY <1>1, <1>3, <3>1, <4>1
                DEF Answering, Expecting, Resumes, Tracks, Served
    <3>4. CASE g
      <4>1. toStub' = <<Ack>> /\ TakeReply(out)
        <5> DEFINE p == Packet(out, g)
        <5>1. p.kind = "$" /\ p.good /\ p.body = out /\ p # Ack /\ p # Nack
          BY <3>4, Items
        <5> HIDE DEF p
        <5>2. toStub' = Append(toStub, Ack) /\ TakeReply(p.body)
          BY <3>1, <5>1, Zenon DEF GdbReads, p
        <5>3. TakeReply(out)
          BY <5>1, <5>2, Zenon
        <5>4. QED BY <3>2, <5>2, <5>3, OneItem
      <4>2. ~mismatch'
        BY <1>3, <4>1, Expected DEF TakeReply, Answering
      <4>3. Tracks(view)'
        <5>1. Len(bp) < QuantMax => view' = Served
          BY <1>3, <4>1, Expected DEF TakeReply, Answering, Served, Resumes
        <5>2. QED BY <1>1, <1>3, <5>1 DEF Answering, Tracks
      <4>4. dbg' = "idle" /\ mode' = "ack"
        BY <1>1, <1>3, <4>1 DEF TakeReply, Answering
      <4>5. QED BY <3>1, <4>1, <4>2, <4>3, <4>4 DEF Idle
    <3>5. QED BY <3>3, <3>4
  <2>4. QED BY <2>1, <2>2, <2>3
<1>4. CASE Commanding
  <2>1. toGdb = <<Nack>> /\ toStub = << >> /\ mode = "packet"
    BY <1>1, <1>4 DEF Commanding
  <2>2. Head(toGdb) = Nack /\ toGdb' = << >>
    BY <1>1, <2>1, OneItem
  <2>3. PICK g \in BOOLEAN : toStub' = Append(toStub, Packet(sent, g))
    BY <2>2, Items DEF GdbReads
  <2>4. UNCHANGED <<dbg, view, mismatch>>
    BY <2>2, Items DEF GdbReads
  <2>5. toStub' = <<Packet(sent', g)>>
    BY <1>1, <2>1, <2>3, OneItem
  <2>6. QED BY <1>1, <1>4, <2>1, <2>2, <2>4, <2>5
            DEF Commanding, Expecting, Resumes, Tracks, Unserved
<1>5. ~Idle
  BY <1>1 DEF Idle
<1>6. QED BY <1>2, <1>3, <1>4, <1>5

LEMMA ConversationStep ==
    Typed /\ Conversation /\ [Next]_vars => Conversation'
<1> SUFFICES ASSUME Typed, Conversation, [Next]_vars, interrupts' = 0
             PROVE  ~mismatch' /\ (Running' \/ Answering' \/ Idle' \/ Commanding')
  BY DEF Conversation
<1>1. CASE Interrupt
  BY <1>1 DEF Interrupt, Typed
<1>2. CASE ~Interrupt
  <2>1. UNCHANGED interrupts
    BY <1>2 DEF Next, Simulator, Fetch, Check, Exec, ReadAck, GetPacket, SendCommand,
                GdbReads, dbgVars, vars
  <2>2. ~mismatch /\ (Running \/ Answering \/ Idle \/ Commanding)
    BY <2>1 DEF Conversation
  <2>3. CASE Fetch \/ Check \/ Exec
    <3>1. Running /\ ~mismatch'
      BY <2>2, <2>3 DEF Fetch, Check, Exec, Answering, Idle, Commanding,
                        Typed, TypeOK, dbgVars
    <3>2. QED BY <2>3, <3>1, ProcessorTurn
  <2>4. CASE ReadAck
    <3>1. ~mismatch' /\ ~Running
      BY <2>2, <2>4 DEF ReadAck, Running, dbgVars
    <3>2. QED BY <2>2, <2>4, <3>1, AckTurn
  <2>5. CASE GetPacket
    <3>1. ~mismatch'
      BY <2>2, <2>5 DEF GetPacket, dbgVars
    <3>2. QED BY <2>2, <2>5, <3>1, PacketTurn
  <2>6. CASE SendCommand
    <3>1. ~mismatch'
      BY <2>2, <2>6 DEF SendCommand
    <3>2. QED BY <2>2, <2>6, <3>1, SendTurn
  <2>7. CASE GdbReads
    BY <2>2, <2>7, DebuggerTurn
  <2>8. CASE UNCHANGED vars
    BY <2>2, <2>8 DEF vars, stubVars, dbgVars, Running, Answering, Idle, Commanding,
                      Expecting, Resumes, Tracks, Served, Unserved
  <2>9. QED BY <1>2, <2>3, <2>4, <2>5, <2>6, <2>7, <2>8 DEF Next, Simulator
<1>3. QED BY <1>1, <1>2

-----------------------------------------------------------------------------
LEMMA InitIInv == Init => IInv
<1> SUFFICES ASSUME Init PROVE IInv
  OBVIOUS
<1>1. Cardinality({}) = 0 /\ IsFiniteSet({})
  BY FS_EmptySet
<1>2. TypeOK
  BY GdbStubAssumption, QuantMaxAssumption DEF Init, TypeOK
<1>3. toStub \in Seq(StubItems)
  BY DEF Init
<1>4. Typed
  <2>1. Ordered(bp)
    BY DEF Init, Ordered
  <2>2. step \in BOOLEAN /\ firstTime \in BOOLEAN /\ announced \in BOOLEAN
    BY DEF Init
  <2>3. ran \in 0..2 /\ interrupts \in Nat
    BY DEF Init
  <2>4. resume.how \in {"start", "c", "s"}
    BY DEF Init
  <2>5. sent \in Commands \cup {NoCommand} /\ IsFiniteSet(view)
    BY <1>1 DEF Init
  <2>6. QED BY <1>2, <1>3, <2>1, <2>2, <2>3, <2>4, <2>5 DEF Typed
<1>5. Flags
  BY DEF Init, Flags
<1>6. Running /\ ~mismatch
  BY <1>1 DEF Init, Running, Resumes, NoCommand, Command, Tracks
<1>7. QED BY <1>4, <1>5, <1>6 DEF IInv, Conversation

LEMMA Invariance == Spec => []IInv
<1>1. IInv /\ [Next]_vars => IInv'
  BY TypedStep, FlagsStep, ConversationStep DEF IInv
<1>2. QED BY InitIInv, <1>1, PTL DEF Spec

\* The stub waits on the connection exactly while process_bp() runs, having
\* announced its stop, and its table never overflows, whatever the debugger
\* sends, the connection damages and the user interrupts.
THEOREM TypeCorrect == Spec => []TypeOK
<1>1. IInv => TypeOK
  BY DEF IInv, Typed
<1>2. QED BY <1>1, Invariance, PTL

\* After "s" no second instruction runs before the stub reports.
THEOREM StepsOnce == Spec => []SingleStep
<1>1. IInv => SingleStep
  BY DEF IInv, Flags, SingleStep
<1>2. QED BY <1>1, Invariance, PTL

\* Acknowledgements, refusals and retransmissions never make the debugger take
\* one command's reply for another's, or for a stop report.
THEOREM RepliesMatch == Spec => []ReplyMatches
<1>1. IInv => ReplyMatches
  BY DEF IInv, Conversation, ReplyMatches
<1>2. QED BY <1>1, Invariance, PTL

\* When the debugger has its reply, the table holds what it believes, and each
\* breakpoint once: no command was lost or executed twice.
THEOREM ViewsAgree == Spec => []ViewAgrees
<1>1. IInv => ViewAgrees
  <2> SUFFICES ASSUME IInv, dbg = "idle", interrupts = 0, Len(bp) < QuantMax
               PROVE  Len(bp) = Cardinality(view) /\ \A a \in view : Holds(bp, a)
    BY DEF ViewAgrees
  <2>1. Idle
    BY LineHeads DEF IInv, Conversation
  <2>2. QED BY <2>1 DEF Idle, Tracks
<1>2. QED BY <1>1, Invariance, PTL

\* An instruction with a breakpoint does not run before the stub has stopped
\* there: the debugger's belief, the order of the table and the early exit of
\* exists() together.
THEOREM NoneMissed == Spec => []NoMissedBreakpoint
<1>1. IInv => NoMissedBreakpoint
  <2> SUFFICES ASSUME IInv, stage = "exec", decoded \in view, Len(bp) < QuantMax,
                      interrupts = 0
               PROVE  announced
    BY DEF NoMissedBreakpoint
  <2>1. Typed /\ Flags /\ Conversation
    BY DEF IInv
  <2>2. mode = "off"
    BY <2>1 DEF Typed, TypeOK
  <2>3. Running
    BY <2>1, <2>2 DEF Conversation, Answering, Idle, Commanding
  <2>4. Holds(bp, decoded)
    BY <2>3 DEF Running, Tracks
  <2>5. Finds(bp, decoded) /\ ~Refuses(bp)
    BY <2>1, <2>4, TableFacts, FindsHeld
  <2>6. Stops(decoded)
    BY <2>5 DEF Stops, ExistsResult
  <2>7. QED BY <2>1, <2>6 DEF Flags
<1>2. QED BY <1>1, Invariance, PTL

\* After "c" the processor stops nowhere else than at an entry of the table.
THEOREM NoneSpurious == Spec => NoSpuriousStop
<1> DEFINE Goal == stage = "check" /\ stage' = "stub" /\ resume.how = "c"
                       => Holds(bp, decoded)
<1>1. IInv /\ [Next]_vars => [Goal]_vars
  <2> SUFFICES ASSUME IInv, Next, stage = "check", stage' = "stub", resume.how = "c"
               PROVE  Holds(bp, decoded)
    OBVIOUS
  <2>1. Check
    BY DEF Next, Simulator, Fetch, Exec, ReadAck, GetPacket, SendCommand, GdbReads,
           Interrupt, procVars
  <2>2. Stops(decoded)
    BY <2>1 DEF Check
  <2>3. ~step /\ ~firstTime
    BY DEF IInv, Flags
  <2>4. Finds(bp, decoded)
    BY <2>2, <2>3 DEF Stops, ExistsResult
  <2>5. QED BY <2>4 DEF Finds, Holds
<1>2. QED BY <1>1, Invariance, PTL DEF Spec, NoSpuriousStop
=============================================================================
