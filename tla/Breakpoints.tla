---------------------------- MODULE Breakpoints ----------------------------
(***************************************************************************)
(* The breakpoint table of the GDB stub: class Breakpoints of              *)
(* src/aclib/ac_gdb/breakpoints.{H,cpp}, a fixed-size array kept in        *)
(* ascending order.  The sequence bp is the used prefix bp[0..quant-1] of  *)
(* the C++ array, so Len(bp) is the field quant; reply is what the last    *)
(* call of the table returned.                                             *)
(***************************************************************************)
EXTENDS BreakpointTable

VARIABLES
    bp,
    reply

vars == <<bp, reply>>

Success == 0
Failure == -1

-----------------------------------------------------------------------------
Init ==
    /\ bp = << >>
    /\ reply = [op |-> "none", addr |-> 0, ret |-> Success]

Answer(op, a, r) == reply' = [op |-> op, addr |-> a, ret |-> r]

Add(a) ==
    \/ /\ Refuses(bp)
       /\ Answer("add", a, Failure)
       /\ UNCHANGED bp
    \/ /\ ~Refuses(bp)
       /\ bp' = Insert(bp, a)
       /\ Answer("add", a, Success)

Remove(a) ==
    \/ /\ Refuses(bp) \/ ~Holds(bp, a)
       /\ Answer("remove", a, Failure)
       /\ UNCHANGED bp
    \/ /\ ~Refuses(bp)
       /\ Holds(bp, a)
       /\ bp' = DropFirst(bp, a)
       /\ Answer("remove", a, Success)

Exists(a) ==
    /\ Answer("exists", a, ExistsResult(bp, a))
    /\ UNCHANGED bp

Next == \E a \in Address : Add(a) \/ Remove(a) \/ Exists(a)

Spec == Init /\ [][Next]_vars

-----------------------------------------------------------------------------
(* Properties.                                                             *)

\* The table holds at most quantMax addresses, and every call answers with
\* one of the values its comment lists.
TypeOK ==
    /\ bp \in Seq(Address)
    /\ Len(bp) <= QuantMax
    /\ reply \in [op : {"none", "add", "remove", "exists"},
                  addr : Address \cup {0}, ret : {Failure, Success, 1}]

\* "Keep breakpoints in crescent order" (breakpoints.H): entries ascend,
\* duplicates allowed, whatever the order of the calls to add and remove.
CrescentOrder == \A i, j \in 1..Len(bp) : i < j => bp[i] <= bp[j]

\* Until the table fills up, the early exit of exists() never hides a
\* breakpoint and never invents one.
ExistsIsMembership ==
    ~Refuses(bp) => \A a \in Address : ExistsResult(bp, a) = 1 <=> Holds(bp, a)

\* What the comment of exists() says: "return 1 if there is a breakpoint, 0
\* otherwise".
ExistsAsDocumented ==
    reply.op = "exists" => (reply.ret = 1 <=> Holds(bp, reply.addr))

\* The ordered array implements a bag of addresses of bounded size: add() puts
\* in one copy of its address, remove() takes out one, and no call touches
\* another address or loses count of the entries.
Occurrences(s) ==
    [a \in Address |-> Cardinality({i \in 1..Len(s) : s[i] = a})]

Bag == INSTANCE BreakpointBag WITH count <- Occurrences(bp), size <- Len(bp)

RefinesBag == Bag!Spec
=============================================================================
