----------------------------- MODULE MCDecoder -----------------------------
(***************************************************************************)
(* Small instances of Decoder: words of three bits and two formats, which  *)
(* cut them at different places.  The field lo is in both, and rest is     *)
(* signed.  Every list of three of the instructions in Pool is an          *)
(* instruction set.                                                        *)
(***************************************************************************)
EXTENDS Decoder, TLC

Field(name, last, size, sign) ==
    [name |-> name, first_bit |-> last, size |-> size, sign |-> sign]

MCFormats == <<
    <<Field("op", 1, 2, FALSE), Field("lo", 2, 1, FALSE)>>,
    <<Field("hi", 0, 1, FALSE), Field("rest", 2, 2, TRUE)>>,
    <<Field("hi", 0, 1, FALSE), Field("mid", 1, 1, FALSE), Field("low", 2, 1, FALSE)>> >>

Instr(format, dec_list) == [format |-> format, dec_list |-> dec_list]
Is(name, value) == [name |-> name, value |-> value]

Pool == {
    Instr(1, <<Is("op", 2)>>),
    Instr(1, <<Is("op", 2), Is("lo", 1)>>),
    Instr(1, <<Is("lo", 1)>>),
    Instr(2, <<Is("hi", 1)>>),
    Instr(2, <<Is("hi", 1), Is("rest", 1)>>),
    Instr(2, <<Is("hi", 0), Is("rest", 3)>>),
    Instr(3, <<Is("hi", 1), Is("mid", 0)>>),
    Instr(3, <<Is("hi", 1), Is("mid", 0), Is("low", 1)>>),
    Instr(3, <<Is("mid", 1), Is("low", 0)>>),
    Instr(3, <<>>)}

MCIsas == [1..3 -> Pool]
=============================================================================
