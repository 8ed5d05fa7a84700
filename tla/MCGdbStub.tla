----------------------------- MODULE MCGdbStub -----------------------------
(***************************************************************************)
(* A small instance of GdbStub: a program of three instructions with a     *)
(* loop and an exit, a table of two entries.                               *)
(***************************************************************************)
EXTENDS GdbStub, TLC

MCAddress == 0..2
MCSucc == (0 :> {1}) @@ (1 :> {0, 2}) @@ (2 :> {0, Outside})
MCEntry == 0
MCNamed == {2}
=============================================================================
