--------------------------- MODULE BreakpointBag ---------------------------
(***************************************************************************)
(* What the breakpoint table promises its caller, the GDB stub: a bag of   *)
(* addresses.  A debugger that sends Z0 twice for an address has to send   *)
(* z0 twice to be rid of it.  The order the table keeps is invisible here. *)
(***************************************************************************)
EXTENDS Integers

CONSTANTS Address, QuantMax

VARIABLES
    count,       \* how many times each address is in the bag
    size,        \* how many addresses are in the bag, copies counted
    reply

vars == <<count, size, reply>>

Full == size >= QuantMax

Init ==
    /\ count = [a \in Address |-> 0] /\ size = 0
    /\ reply = [op |-> "none", addr |-> 0, ret |-> 0]

Add(a) ==
    /\ count' = IF Full THEN count ELSE [count EXCEPT ![a] = @ + 1]
    /\ size' = IF Full THEN size ELSE size + 1
    /\ reply' = [op |-> "add", addr |-> a, ret |-> IF Full THEN -1 ELSE 0]

\* A full bag refuses removals and queries as it refuses additions.
Remove(a) ==
    LET removes == ~Full /\ count[a] > 0
    IN  /\ count' = IF removes THEN [count EXCEPT ![a] = @ - 1] ELSE count
        /\ size' = IF removes THEN size - 1 ELSE size
        /\ reply' = [op |-> "remove", addr |-> a,
                     ret |-> IF removes THEN 0 ELSE -1]

Query(a) ==
    /\ reply' = [op |-> "exists", addr |-> a,
                 ret |-> IF ~Full /\ count[a] > 0 THEN 1 ELSE 0]
    /\ UNCHANGED <<count, size>>

Next == \E a \in Address : Add(a) \/ Remove(a) \/ Query(a)

Spec == Init /\ [][Next]_vars
=============================================================================
