------------------------------ MODULE GdbStub ------------------------------
(***************************************************************************)
(* One simulated processor under the GDB stub (class AC_GDB of             *)
(* src/aclib/ac_gdb/ac_gdb.H), with the debugger at the other end of the   *)
(* connection.                                                             *)
(*                                                                         *)
(*   - the processor is the loop acsim generates (EmitFetchInit,           *)
(*     EmitInstrExec): before it executes the instruction it has decoded   *)
(*     it asks the stub whether to stop there;                             *)
(*   - the stub owns the breakpoint table (module Breakpoints) and the     *)
(*     whole simulation while process_bp() runs: every read is blocking;   *)
(*   - the debugger is external.  It acknowledges what it receives, sends  *)
(*     one command at a time, retransmits after '-' and may press          *)
(*     Control-C while the target runs.                                    *)
(*                                                                         *)
(* The connection delivers in order and loses nothing (TCP).  A packet may *)
(* arrive damaged; the checksum then fails.  Single characters ('+', '-'   *)
(* and a raw 0x03) and whole packets are the items of the two queues.      *)
(***************************************************************************)
EXTENDS BreakpointTable

CONSTANTS
    \* (Address, of BreakpointTable, is the set of addresses of instructions.)
    Succ,           \* Succ[a]: where the instruction at a may go next
    Entry,          \* ac_start_addr
    Named,          \* addresses "c" and "s" may name
    MaxCommands,    \* bound: commands the debugger sends
    MaxDamage,      \* bound: packets damaged on the way
    MaxInterrupts   \* bound: times Control-C is pressed

Outside == -1       \* a program counter beyond APP_MEM->get_size()
NoAddress == -1     \* "c" and "s" without an address

ASSUME GdbStubAssumption ==
    /\ Entry \in Address /\ Named \subseteq Address
    /\ Succ \in [Address -> SUBSET (Address \cup {Outside})]

VARIABLES
    \* the processor
    pc,             \* ac_pc
    decoded,        \* decode_pc
    stage,          \* where the generated loop is
    stopFlag,       \* ac_stop_flag
    \* the stub
    bp,             \* the breakpoint table
    firstTime,
    step,
    mode,           \* what process_bp() is blocked on
    out,            \* the packet comm_putpacket() is sending
    \* the connection
    toStub,
    toGdb,
    \* the debugger
    dbg,            \* "running", "idle" or "waiting" for a reply
    sent,           \* the last command it sent
    view,           \* the breakpoints it believes are set
    commands,
    damage,
    interrupts,
    mismatch,       \* a reply was taken for the reply to another command
    \* history of the current resumption
    resume,         \* [how |-> "c" or "s", at |-> address or NoAddress]
    ran,            \* instructions executed since, counted up to 2
    announced       \* the stub reported a stop at the decoded instruction

procVars == <<pc, decoded, stage, stopFlag>>
stubVars == <<bp, firstTime, step, mode, out>>
dbgVars  == <<dbg, sent, view, commands, interrupts, mismatch>>
histVars == <<resume, ran, announced>>
vars == <<procVars, stubVars, toStub, toGdb, dbgVars, damage, histVars>>

-----------------------------------------------------------------------------
(* Messages.                                                               *)

Ack   == [kind |-> "+"]
Nack  == [kind |-> "-"]
CtrlC == [kind |-> "^C"]

Command(c, a) == [cmd |-> c, addr |-> a]
NoCommand == Command("none", NoAddress)
Garbled   == Command("garbled", NoAddress)

\* "query" stands for ?, g, G, m and M: answered, without effect on the
\* table or on the control flow.
Commands ==
    {Command(c, a) : c \in {"c", "s"}, a \in Named \cup {NoAddress}}
    \cup {Command(c, a) : c \in {"Z", "z"}, a \in Address}
    \cup {Command(c, NoAddress) : c \in {"query", "k"}}

\* What a reply says and, as a history, the command it answers.
Reply(text, cmd) == [text |-> text, answers |-> cmd]
StopReport == Reply("S05", NoCommand)

Packet(body, good) == [kind |-> "$", body |-> body, good |-> good]

\* A packet arrives as sent or, while the bound allows it, damaged.
Travels(good) == \/ good /\ UNCHANGED damage
                 \/ ~good /\ damage < MaxDamage /\ damage' = damage + 1

-----------------------------------------------------------------------------
Init ==
    /\ pc = Entry /\ decoded = Entry /\ stage = "fetch" /\ stopFlag = FALSE
    /\ bp = << >> /\ firstTime = TRUE /\ step = FALSE
    /\ mode = "off" /\ out = StopReport
    /\ toStub = << >> /\ toGdb = << >>
    /\ dbg = "running" /\ sent = NoCommand /\ view = {}
    /\ commands = 0 /\ damage = 0 /\ interrupts = 0 /\ mismatch = FALSE
    /\ resume = [how |-> "start", at |-> NoAddress]
    /\ ran = 0 /\ announced = FALSE

(***************************************************************************)
(* The processor.                                                          *)
(***************************************************************************)

\* Top of the loop: the program counter is decoded, or the processor stops
\* because it has run off the memory.
Fetch ==
    /\ stage = "fetch"
    /\ announced' = FALSE
    /\ \/ /\ pc \in Address
          /\ decoded' = pc
          /\ stage' = "check"
          /\ UNCHANGED stopFlag
       \/ /\ pc = Outside
          /\ stopFlag' = TRUE
          /\ stage' = "ended"
          /\ UNCHANGED decoded
    /\ UNCHANGED <<pc, stubVars, toStub, toGdb, dbgVars, damage, resume, ran>>

\* (Slip: the table is not consulted.)
StopsWithoutTable(a) == firstTime \/ step

\* AC_GDB::stop(decode_pc), with the stub enabled.
Stops(a) == firstTime \/ step \/ ExistsResult(bp, a) = 1

\* comm_putpacket(): after the characters in prefix the packet goes out, and
\* the stub waits for a character in return.
PutPacket(prefix, reply) ==
    /\ out' = reply
    /\ mode' = "ack"
    /\ \E good \in BOOLEAN :
          /\ Travels(good)
          /\ toGdb' = toGdb \o prefix \o <<Packet(reply, good)>>

\* The hook before the instruction: process_bp() starts by reporting S05.
Check ==
    /\ stage = "check"
    /\ \/ /\ Stops(decoded)
          /\ stage' = "stub"
          /\ firstTime' = FALSE
          /\ announced' = TRUE
          /\ PutPacket(<< >>, StopReport)
       \/ /\ ~Stops(decoded)
          /\ stage' = "exec"
          /\ UNCHANGED <<firstTime, mode, out, toGdb, damage, announced>>
    /\ UNCHANGED <<pc, decoded, stopFlag, bp, step, toStub, dbgVars, resume, ran>>

\* ac_pc = decode_pc, then the behaviour of the instruction, which goes to a
\* successor; at the end of the loop body the stop flag ends the process.
Exec ==
    /\ stage = "exec"
    /\ \E next \in Succ[decoded] : pc' = next
    /\ ran' = IF ran < 2 THEN ran + 1 ELSE ran
    /\ stage' = IF stopFlag THEN "ended" ELSE "fetch"
    /\ UNCHANGED <<decoded, stopFlag, stubVars, toStub, toGdb, dbgVars, damage,
                   resume, announced>>

(***************************************************************************)
(* The stub, inside process_bp().                                          *)
(***************************************************************************)

\* (Slip: any character ends the wait.)
AnyCharacter(item) == TRUE

Acknowledges(item) == item = Ack

\* The end of comm_putpacket(): anything but '+' has the packet sent again.
ReadAck ==
    /\ stage = "stub" /\ mode = "ack" /\ toStub # << >>
    /\ toStub' = Tail(toStub)
    /\ \/ /\ Acknowledges(Head(toStub))
          /\ mode' = "packet"
          /\ UNCHANGED <<out, toGdb, damage>>
       \/ /\ ~Acknowledges(Head(toStub))
          /\ PutPacket(<< >>, out)
    /\ UNCHANGED <<procVars, bp, firstTime, step, dbgVars, histVars>>

BreakInsert(cmd) ==
    \/ /\ Refuses(bp)
       /\ UNCHANGED bp
       /\ PutPacket(<<Ack>>, Reply("E00", cmd))
    \/ /\ ~Refuses(bp)
       /\ bp' = Insert(bp, cmd.addr)
       /\ PutPacket(<<Ack>>, Reply("OK", cmd))

\* (Slip: E00 and OK are right, but the entry stays.)
BreakRemoveForgets(cmd) ==
    /\ UNCHANGED bp
    /\ PutPacket(<<Ack>>, Reply("OK", cmd))

BreakRemove(cmd) ==
    \/ /\ Refuses(bp) \/ ~Holds(bp, cmd.addr)
       /\ UNCHANGED bp
       /\ PutPacket(<<Ack>>, Reply("E00", cmd))
    \/ /\ ~Refuses(bp)
       /\ Holds(bp, cmd.addr)
       /\ bp' = DropFirst(bp, cmd.addr)
       /\ PutPacket(<<Ack>>, Reply("OK", cmd))

\* (Slips: continue_execution() leaves step alone; stepmode() never sets it.)
KeepsStep(cmd)  == step \/ cmd.cmd = "s"
ForgetsStep(cmd) == FALSE

StepAfter(cmd) == cmd.cmd = "s"

\* continue_execution() and stepmode(): they answer nothing and return to the
\* processor, after setting ac_pc if the command names an address.
Resume(cmd) ==
    /\ step' = StepAfter(cmd)
    /\ pc' = IF cmd.addr = NoAddress THEN pc ELSE cmd.addr
    /\ stage' = "exec"
    /\ mode' = "off"
    /\ toGdb' = Append(toGdb, Ack)
    /\ resume' = [how |-> cmd.cmd, at |-> cmd.addr]
    /\ ran' = 0
    /\ UNCHANGED <<stopFlag, bp, out, damage>>

\* The switch of process_bp() on a command that keeps the stub in its loop.
Serve(cmd) ==
    /\ \/ cmd.cmd = "Z" /\ BreakInsert(cmd) /\ UNCHANGED stopFlag
       \/ cmd.cmd = "z" /\ BreakRemove(cmd) /\ UNCHANGED stopFlag
       \/ /\ cmd.cmd = "query"
          /\ PutPacket(<<Ack>>, Reply("data", cmd))
          /\ UNCHANGED <<bp, stopFlag>>
       \/ /\ cmd.cmd = "k"
          /\ stopFlag' = TRUE
          /\ PutPacket(<<Ack>>, Reply("", cmd))
          /\ UNCHANGED bp
       \/ /\ cmd = Garbled
          /\ PutPacket(<<Ack>>, Reply("", cmd))
          /\ UNCHANGED <<bp, stopFlag>>
    /\ UNCHANGED <<pc, step, stage, resume, ran>>

\* (Slip: the checksum is read but not compared.)
NoChecksum(p) == TRUE

ChecksumHolds(p) == p.good

\* What the buffer holds: a damaged packet has an unknown text.
Received(p) == IF p.good THEN p.body ELSE Garbled

\* comm_getpacket() and the switch: characters before '$' are dropped, a
\* packet with a wrong checksum is answered '-'.
GetPacket ==
    /\ stage = "stub" /\ mode = "packet" /\ toStub # << >>
    /\ toStub' = Tail(toStub)
    /\ LET p == Head(toStub) IN
       \/ /\ p.kind # "$"
          /\ UNCHANGED <<procVars, stubVars, toGdb, damage, histVars>>
       \/ /\ p.kind = "$" /\ ~ChecksumHolds(p)
          /\ toGdb' = Append(toGdb, Nack)
          /\ UNCHANGED <<procVars, stubVars, damage, histVars>>
       \/ /\ p.kind = "$" /\ ChecksumHolds(p)
          /\ IF Received(p).cmd \in {"c", "s"} THEN Resume(Received(p))
                                               ELSE Serve(Received(p))
          /\ UNCHANGED <<decoded, firstTime, announced>>
    /\ UNCHANGED dbgVars

(***************************************************************************)
(* The debugger (external).                                                *)
(***************************************************************************)

\* One command at a time; it sets only breakpoints it has not set, and
\* forgets the one it asks to remove.
SendCommand ==
    /\ dbg = "idle" /\ commands < MaxCommands
    /\ \E cmd \in Commands, good \in BOOLEAN :
          /\ cmd.cmd = "Z" => cmd.addr \notin view
          /\ cmd.cmd = "z" => cmd.addr \in view
          /\ Travels(good)
          /\ toStub' = Append(toStub, Packet(cmd, good))
          /\ sent' = cmd
          /\ view' = IF cmd.cmd = "z" THEN view \ {cmd.addr} ELSE view
          /\ dbg' = IF cmd.cmd \in {"c", "s"} THEN "running" ELSE "waiting"
    /\ commands' = commands + 1
    /\ UNCHANGED <<procVars, stubVars, toGdb, interrupts, mismatch, histVars>>

\* A reply or a stop report that arrived whole.
TakeReply(r) ==
    /\ dbg' = "idle"
    /\ mismatch' = (mismatch \/ \/ dbg = "running" /\ r # StopReport
                                \/ dbg = "waiting" /\ r.answers # sent)
    /\ view' = IF dbg = "waiting" /\ sent.cmd = "Z" /\ r.text = "OK"
               THEN view \cup {sent.addr} ELSE view

GdbReads ==
    /\ toGdb # << >>
    /\ toGdb' = Tail(toGdb)
    /\ LET m == Head(toGdb) IN
       \/ /\ m = Ack
          /\ UNCHANGED <<toStub, dbg, view, mismatch, damage>>
       \/ /\ m = Nack
          /\ \E good \in BOOLEAN : /\ Travels(good)
                                   /\ toStub' = Append(toStub, Packet(sent, good))
          /\ UNCHANGED <<dbg, view, mismatch>>
       \/ /\ m.kind = "$" /\ ~m.good
          /\ toStub' = Append(toStub, Nack)
          /\ UNCHANGED <<dbg, view, mismatch, damage>>
       \/ /\ m.kind = "$" /\ m.good
          /\ toStub' = Append(toStub, Ack)
          /\ TakeReply(m.body)
          /\ UNCHANGED damage
    /\ UNCHANGED <<procVars, stubVars, sent, commands, interrupts, histVars>>

\* Control-C while the target runs is a raw 0x03, outside any packet.
Interrupt ==
    /\ dbg = "running" /\ interrupts < MaxInterrupts
    /\ interrupts' = interrupts + 1
    /\ toStub' = Append(toStub, CtrlC)
    /\ UNCHANGED <<procVars, stubVars, toGdb, dbg, sent, view, commands, mismatch,
                   damage, histVars>>

-----------------------------------------------------------------------------
Simulator == Fetch \/ Check \/ Exec \/ ReadAck \/ GetPacket

Next == Simulator \/ SendCommand \/ GdbReads \/ Interrupt

\* The simulator is one thread that runs whenever it is not blocked in read(),
\* and a debugger takes what arrives; it need not send or interrupt.
Spec == Init /\ [][Next]_vars /\ WF_vars(Simulator) /\ WF_vars(GdbReads)

-----------------------------------------------------------------------------
(* Properties.                                                             *)

\* Ranges of the state; above all, the stub waits on the connection exactly
\* while process_bp() runs, and a stop has been announced all that time.
TypeOK ==
    /\ pc \in Address \cup {Outside} /\ decoded \in Address
    /\ stage \in {"fetch", "check", "stub", "exec", "ended"}
    /\ bp \in Seq(Address) /\ Len(bp) <= QuantMax
    /\ mode \in {"off", "ack", "packet"}
    /\ (stage = "stub") = (mode # "off")
    /\ stage = "stub" => announced /\ ~firstTime
    /\ dbg \in {"running", "idle", "waiting"} /\ view \subseteq Address

\* An instruction at which the debugger believes a breakpoint is set is never
\* executed without the stub having stopped there first, whatever the commands
\* and the damage to packets before.  Two things void it: a full table, for which
\* exists() is blind (module Breakpoints), and Control-C, after which a repeated
\* stop report can pass for the OK of a Z that never arrived.
NoMissedBreakpoint ==
    (/\ stage = "exec" /\ decoded \in view
     /\ Len(bp) < QuantMax /\ interrupts = 0) => announced

\* After "c" the target stops only at an entry of the table.
NoSpuriousStop ==
    [][(stage = "check" /\ stage' = "stub" /\ resume.how = "c")
            => Holds(bp, decoded)]_vars

\* After "s" the target executes one instruction and reports again.
SingleStep == resume.how = "s" => ran <= 1

\* Whatever packets are damaged and sent again, what the debugger takes for a
\* reply answers its last command, and what it takes for a stop report is one.
\* Control-C is left out: a raw 0x03 makes comm_putpacket() repeat itself.
ReplyMatches == interrupts = 0 => ~mismatch

\* A retransmission never makes the stub execute a command twice or skip one:
\* between commands the table holds the debugger's breakpoints, each once.
ViewAgrees ==
    (dbg = "idle" /\ interrupts = 0 /\ Len(bp) < QuantMax) =>
        /\ Len(bp) = Cardinality(view)
        /\ \A a \in view : Holds(bp, a)

\* Every command that has a reply gets one, through damaged packets and resends.
CommandAnswered == (dbg = "waiting" /\ interrupts = 0) ~> (dbg = "idle")

\* The table of ac_gdb.H: "cAA..AA  Continue at address AA..AA": the first
\* instruction executed after such a command is the one at that address.
ContinueAtAddress ==
    (stage = "exec" /\ resume.how = "c" /\ resume.at # NoAddress /\ ran = 0)
        => decoded = resume.at
=============================================================================
