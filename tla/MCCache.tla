------------------------------ MODULE MCCache ------------------------------
(***************************************************************************)
(* A small instance of Cache: two sets of two lines of two words, over a   *)
(* memory of three blocks for each set.                                    *)
(***************************************************************************)
EXTENDS Cache

MCMerge(v, p) == (v + p) % 2

\* Bounds: the memory starts with zeros; words of the second set's three blocks
\* and of one of the first set's are read, and three of them written.
MCRead    == {2, 3, 6, 10, 0}
MCWritten == {2, 3, 6}
MCNext ==
    \/ \E w \in MCRead : Read(w)
    \/ \E w \in MCWritten, v \in Val : Write(w, v)
    \/ \E w \in MCWritten, p \in Part : WritePart(w, p)
MCInit == Init /\ mem = [w \in Word |-> 0] /\ out = 0
MCSpec == MCInit /\ [][MCNext]_vars
=============================================================================
