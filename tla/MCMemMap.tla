------------------------------ MODULE MCMemMap ------------------------------
(***************************************************************************)
(* Small instances of MemMap.  A page is two units; the memory is seven    *)
(* pages, the program starts at 1 and ends at 2, where the break starts.   *)
(***************************************************************************)
EXTENDS MemMap

\* No hint, aligned and unaligned ones, and an address past the memory; the
\* same numbers serve as arguments of munmap and brk.
MCHints == {0, 4, 6, 7, 8, 10, 12, 15}
\* Part of a page, one page, more than one page; and zero.
MCSizes == {0, 1, 2, 3}
\* A size that makes an address wrap around.
MCWrapSizes == {2, 30}
=============================================================================
