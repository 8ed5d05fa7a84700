---------------------------- MODULE SortedArray ----------------------------
(***************************************************************************)
(* The loops of class Breakpoints (src/aclib/ac_gdb/breakpoints.{H,cpp})   *)
(* over its array, which is kept in ascending order.  A sequence s is the  *)
(* used prefix bp[0..quant-1] of the C++ array, so Len(s) is the field     *)
(* quant.                                                                  *)
(***************************************************************************)
EXTENDS Integers, Sequences, FiniteSetsExt

Smaller(x, y) == IF x < y THEN x ELSE y

\* The value of the local `address' after add() has compared it with the
\* first i entries: each comparison keeps the smaller value in the entry
\* and carries the larger one on.
Carried(s, a, i) == Max({a} \cup {s[j] : j \in 1..i})

\* (Slip: the new address goes to the end, without the swaps.)
InsertAtEnd(s, a) == Append(s, a)

\* The array after add(): the swaps of the loop, then bp[quant++] = address.
Insert(s, a) ==
    [i \in 1..Len(s) + 1 |->
        IF i <= Len(s) THEN Smaller(Carried(s, a, i - 1), s[i])
                       ELSE Carried(s, a, Len(s))]

Holds(s, a) == \E i \in 1..Len(s) : s[i] = a

\* (Slip: the copy loop runs on, over every entry equal to a.)
DropAll(s, a) == SelectSeq(s, LAMBDA x : x # a)

\* The array after remove() dropped the first entry equal to a.
DropFirst(s, a) ==
    LET k == Min({i \in 1..Len(s) : s[i] = a})
    IN  [i \in 1..Len(s) - 1 |-> IF i < k THEN s[i] ELSE s[i + 1]]

\* (Slip: the search stops one entry short.)
FindsButLast(s, a) ==
    \E i \in 1..Len(s) - 1 : s[i] = a /\ \A j \in 1..i - 1 : s[j] <= a

\* The search of exists(): it gives up at the first entry above a.
Finds(s, a) ==
    \E i \in 1..Len(s) : s[i] = a /\ \A j \in 1..i - 1 : s[j] <= a
=============================================================================
