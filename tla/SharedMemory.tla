---------------------------- MODULE SharedMemory ----------------------------
(***************************************************************************)
(* What a platform of several processors promises its programs: a memory   *)
(* of bytes in which every access takes effect at once, at some moment     *)
(* between its start and its end.  A load of a byte or a word returns what *)
(* is there at that moment, a store changes the bytes it names and no      *)
(* others.                                                                 *)
(***************************************************************************)
EXTENDS Integers

CONSTANTS Processors, Addr, Accesses
VARIABLES
    mem,     \* the bytes
    access,  \* what each processor is doing: a member of Accesses, or None
    got      \* what its load returned; Pending before it took effect

None    == [do |-> "none"]
Pending == <<>>
Done    == <<"done">>

\* The bytes an access names.
Bytes(a) == a.addr..a.addr + a.size - 1

Start(p) ==
    /\ access[p] = None
    /\ \E a \in Accesses : access' = [access EXCEPT ![p] = a]
    /\ got' = [got EXCEPT ![p] = Pending]
    /\ UNCHANGED mem

Load(p) ==
    /\ access[p] # None /\ access[p].do = "load" /\ got[p] = Pending
    /\ got' = [got EXCEPT ![p] = [b \in Bytes(access[p]) |-> mem[b]]]
    /\ UNCHANGED <<mem, access>>

Store(p) ==
    /\ access[p] # None /\ access[p].do = "store" /\ got[p] = Pending
    /\ mem' = [b \in Addr |-> IF b \in Bytes(access[p]) THEN access[p].value ELSE mem[b]]
    /\ got' = [got EXCEPT ![p] = Done]
    /\ UNCHANGED access

Finish(p) ==
    /\ access[p] # None /\ got[p] # Pending
    /\ access' = [access EXCEPT ![p] = None]
    /\ got' = [got EXCEPT ![p] = Pending]
    /\ UNCHANGED mem

Init ==
    /\ mem = [b \in Addr |-> 0]
    /\ access = [p \in Processors |-> None] /\ got = [p \in Processors |-> Pending]

Next == \E p \in Processors : Start(p) \/ Load(p) \/ Store(p) \/ Finish(p)

Spec == Init /\ [][Next]_<<mem, access, got>>
=============================================================================
