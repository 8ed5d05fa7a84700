----------------------------- MODULE Sequential -----------------------------
(***************************************************************************)
(* What an instruction set promises: instructions complete one at a time,  *)
(* each followed by its successor.  A pipeline must not be distinguishable *)
(* from this (module Pipeline).                                            *)
(***************************************************************************)
EXTENDS Integers

CONSTANT Entry

VARIABLES
    target,      \* the program: where its branches go
    completed    \* the last instruction completed; turn tells two in a row apart

Succ(a) == IF a \in DOMAIN target THEN target[a] ELSE a + 1

Nowhere == -1

Init == completed = [addr |-> Nowhere, turn |-> 0]

Next ==
    /\ completed' = [addr |-> IF completed.addr = Nowhere THEN Entry
                                                          ELSE Succ(completed.addr),
                     turn |-> 1 - completed.turn]
    /\ UNCHANGED target

Spec == Init /\ [][Next]_<<target, completed>>
=============================================================================
