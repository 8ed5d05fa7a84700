-------------------------- MODULE BreakpointTable --------------------------
(***************************************************************************)
(* The methods of class Breakpoints (src/aclib/ac_gdb/breakpoints.{H,cpp}) *)
(* as functions of the table: a fixed-size array kept in ascending order   *)
(* (SortedArray).                                                          *)
(***************************************************************************)
EXTENDS SortedArray

CONSTANTS
    Address,     \* the addresses a debugger may name
    QuantMax     \* capacity of the table (BREAKPOINTS in ac_gdb.H)

ASSUME AddressAssumption  == Address \subseteq Nat
ASSUME QuantMaxAssumption == QuantMax \in Nat \ {0}

\* The test every method starts with: ( ! bp ) || ( quant >= quantMax ).
\* (Slip: > for >=, one entry past the end of the array.)
RefusesLate(s) == Len(s) > QuantMax

Refuses(s) == Len(s) >= QuantMax

\* What exists() returns.
ExistsResult(s, a) == IF ~Refuses(s) /\ Finds(s, a) THEN 1 ELSE 0
=============================================================================
