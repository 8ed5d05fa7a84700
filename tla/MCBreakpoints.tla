--------------------------- MODULE MCBreakpoints ---------------------------
(***************************************************************************)
(* Small instance of Breakpoints: four addresses, a table of four entries, *)
(* so that duplicates, every insertion point and the full table occur.     *)
(***************************************************************************)
EXTENDS Breakpoints

MCAddress == 1..4
MCQuantMax == 4
=============================================================================
