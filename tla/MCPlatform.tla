----------------------------- MODULE MCPlatform -----------------------------
(***************************************************************************)
(* Small instances of Platform: three processors on two words of two bytes. *)
(* The programs of the first two hand over a value through a flag, store   *)
(* to the same bytes and words, and stop in each of the three ways; the    *)
(* third one stores a byte between theirs.                                 *)
(***************************************************************************)
EXTENDS Platform, TLC

P1 == "p1"
P2 == "p2"
P3 == "p3"

ByteLoad(a)     == [do |-> "load", addr |-> a, size |-> 1]
WordLoad(a)     == [do |-> "load", addr |-> a, size |-> WordBytes]
ByteStore(a, v) == [do |-> "store", addr |-> a, size |-> 1, value |-> v]
WordStore(a, v) == [do |-> "store", addr |-> a, size |-> WordBytes, value |-> v]
Await(a, v)     == [do |-> "await", addr |-> a, size |-> 1, value |-> v]
Alu             == [do |-> "alu"]
Exit            == [do |-> "exit"]
Unidentified    == [do |-> "unidentified"]

\* The ports and the programs of a setup.
Ports(k1, k2) == (P1 :> k1) @@ (P2 :> k2) @@ (P3 :> "nb")
Progs(s1, s2) == (P1 :> s1) @@ (P2 :> s2) @@ (P3 :> <<ByteStore(1, 5), Exit>>)

\* Bytes 0 and 1 are a word, 2 and 3 another one.
HandOver  == Progs(<<WordStore(2, 1), ByteStore(0, 1), Exit>>,
                   <<Await(0, 1), WordLoad(2), Alu, ByteStore(1, 2), Exit>>)
Neighbours == Progs(<<ByteStore(0, 1), ByteStore(1, 1), WordLoad(0)>>,
                    <<ByteStore(1, 2), ByteStore(0, 2), ByteLoad(0), Unidentified>>)
WordAndByte == Progs(<<WordStore(0, 1), ByteStore(1, 3), Alu, Exit>>,
                     <<ByteStore(0, 2), WordLoad(0), WordStore(0, 4)>>)
Apart     == Progs(<<ByteStore(2, 1), ByteStore(3, 1), ByteLoad(0), Exit>>,
                   <<WordStore(0, 2), WordLoad(2), Await(3, 1), Exit>>)

Blocking == {"tlm2", "nb"}
MCSetups ==
    {[program |-> g, port |-> Ports(k1, k2)] :
        g \in {HandOver, Neighbours, WordAndByte}, k1 \in Blocking, k2 \in Blocking}
    \cup {[program |-> Apart, port |-> Ports("tlm1", k)] : k \in {"tlm1", "tlm2", "nb"}}
=============================================================================
