----------------------------- MODULE FlatMemory -----------------------------
(***************************************************************************)
(* What a processor may assume of the storage behind its data port, with   *)
(* or without a cache (ac_inout_if): a read returns the last value written *)
(* to the word, a partial write changes the word in place.                 *)
(***************************************************************************)
CONSTANTS Word, Val, Part, Merge(_, _)

VARIABLES store, out

Init == store \in [Word -> Val] /\ out \in Val

Read(w) == out' = store[w] /\ UNCHANGED store

Write(w, v) == store' = [store EXCEPT ![w] = v] /\ UNCHANGED out

WritePart(w, p) ==
    store' = [store EXCEPT ![w] = Merge(store[w], p)] /\ UNCHANGED out

Next ==
    \E w \in Word : \/ Read(w)
                    \/ \E v \in Val : Write(w, v)
                    \/ \E p \in Part : WritePart(w, p)

Spec == Init /\ [][Next]_<<store, out>>
=============================================================================
