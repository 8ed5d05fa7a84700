------------------------------ MODULE Decoder ------------------------------
(***************************************************************************)
(* The instruction decoder (ac_decoder).  An instruction is described by a *)
(* format, which cuts the word into fields, and by a decode list of        *)
(* field = value checks.  The lists of all instructions are merged into a  *)
(* tree, and a word is decoded by a search with backtracking in that tree. *)
(*                                                                         *)
(* The tree is built twice from the same declarations: by the generator    *)
(* (ac_decoder.c), which ends with an error when two lists conflict, and   *)
(* by every simulator it generates (ac_decoder_rt.cpp), which does not     *)
(* look for conflicts and decodes with the tree.  The two functions have   *)
(* the same lines but for that test, and one set of actions stands for     *)
(* both; that they stay the same is nothing this module can tell.          *)
(***************************************************************************)
EXTENDS Integers, Sequences, SequencesExt

CONSTANTS
    Width,     \* bits of an instruction word, numbered from the left
    Formats,   \* Formats[k]: the fields of format k, in order
    Isas,      \* lists of instructions, each [format, dec_list]
    Garbage    \* what malloc() leaves in the array of results

Words == [0..Width - 1 -> {0, 1}]

\* What the parser requires of a check: a field of the format, wide enough.
add_dec_list(fmt, l) ==
    \E j \in 1..Len(Formats[fmt]) :
        Formats[fmt][j].name = l.name /\ l.value \in 0..2^Formats[fmt][j].size - 1

ASSUME DecoderAssumption ==
    /\ Width \in Nat \ {0} /\ Garbage \in Int
    /\ Formats \in Seq(Seq([name : STRING, first_bit : 0..Width - 1, size : 1..Width,
                            sign : BOOLEAN]))
    /\ \A fmt \in DOMAIN Formats : \A j \in 1..Len(Formats[fmt]) :
          Formats[fmt][j].first_bit >= Formats[fmt][j].size - 1
    /\ \A s \in Isas :
          /\ Len(s) \in Nat \ {0}
          /\ \A n \in 1..Len(s) :
                /\ s[n].format \in DOMAIN Formats
                /\ s[n].dec_list \in Seq([name : STRING, value : Nat])
                /\ \A p \in 1..Len(s[n].dec_list) :
                      add_dec_list(s[n].format, s[n].dec_list[p])

VARIABLES
    phase,     \* "generate", "elaborate", "run", or the error that ended it
    isa,       \* the instruction list
    allFields, \* the different fields; the position is the id
    tree,      \* the nodes the program at work has, in order of allocation
    i, l,      \* AddToDecoder: the instruction, the position in its decode list
    d,         \* the local pointer of AddToDecoder and of Decode; 0 is NULL
    pc,        \* where Decode is: "idle", "search" or "return"
    word,      \* its argument
    field,     \* id and value of the field read last; NoField is NULL
    chosenPath,\* where each level of the search stands
    fields,    \* the static array of results, without entry 0
    result     \* entry 0, the instruction found; 0 for a NULL result

vars == <<phase, isa, allFields, tree, i, l, d, pc, word, field, chosenPath,
          fields, result>>
decl   == <<isa, allFields>>
search == <<pc, word, field, chosenPath, fields, result>>

-----------------------------------------------------------------------------
(* Fields.                                                                 *)

\* CheckFields(): fields with the same place, size and sign are one field.
Key(f) == [first_bit |-> f.first_bit, size |-> f.size, sign |-> f.sign]

\* PutIDs(): the different fields in the order of their first use.
PutFormat(known, fmt) ==
    LET after[j \in 0..Len(fmt)] ==
            IF j = 0 THEN known
            ELSE IF Contains(after[j - 1], Key(fmt[j])) THEN after[j - 1]
            ELSE Append(after[j - 1], Key(fmt[j]))
    IN  after[Len(fmt)]

PutIDs ==
    LET after[k \in 0..Len(Formats)] ==
            IF k = 0 THEN <<>> ELSE PutFormat(after[k - 1], Formats[k])
    IN  after[Len(Formats)]

Ids == 1..Len(allFields)
IdOf(f) == CHOOSE id \in Ids : allFields[id] = Key(f)

\* GetBits(): the bits that end at first_bit, sign extended if asked for.
Bits(w, f) ==
    LET bits  == f.first_bit - (f.size - 1)..f.first_bit
        value == MapThenSumSet(LAMBDA b : w[b] * 2^(f.first_bit - b), bits)
    IN  IF f.sign /\ value >= 2^(f.size - 1) THEN value - 2^f.size ELSE value

GetBits(w, id) == Bits(w, allFields[id])

\* The decode list of an instruction with the ids its format gives the names.
Checks(instr) ==
    [p \in 1..Len(instr.dec_list) |->
        LET fmt == Formats[instr.format]
            f   == CHOOSE j \in 1..Len(fmt) : fmt[j].name = instr.dec_list[p].name
        IN  [id |-> IdOf(fmt[f]), value |-> instr.dec_list[p].value]]

\* The ids of the fields of its format that are not in the list, in order.
Operands(instr) ==
    LET fmt     == Formats[instr.format]
        checked == {Checks(instr)[p].id : p \in 1..Len(instr.dec_list)}
        rest[j \in 0..Len(fmt)] ==
            IF j = 0 THEN <<>>
            ELSE IF IdOf(fmt[j]) \in checked THEN rest[j - 1]
            ELSE Append(rest[j - 1], IdOf(fmt[j]))
    IN  rest[Len(fmt)]

-----------------------------------------------------------------------------
(* AddToDecoder() and CreateDecoder().                                     *)

Node(check) == [id |-> check.id, value |-> check.value, found |-> 0,
                subcheck |-> 0, next |-> 0]

This == Checks(isa[i])
New  == Len(tree) + 1    \* the node allocated next

Building == phase \in {"generate", "elaborate"} /\ i \in 1..Len(isa)

\* The search starts at the root, which the first instruction allocates.
AddToDecoder ==
    /\ Building /\ l = 0
    /\ IF isa[i].dec_list = <<>>
       THEN phase' = "no decode list" /\ UNCHANGED <<tree, l, d>>
       ELSE /\ l' = 1 /\ d' = 1 /\ UNCHANGED phase
            /\ tree' = IF tree = <<>> THEN <<Node(This[1])>> ELSE tree
    /\ UNCHANGED <<decl, i, search>>

Same == tree[d].id = This[l].id /\ tree[d].value = This[l].value

AddCheck == Building /\ l \in 1..Len(This)

\* The generator finds an instruction where the list of another goes on.
Conflict ==
    /\ AddCheck /\ Same
    /\ phase = "generate" /\ tree[d].found # 0
    /\ phase' = "decoding conflict"
    /\ UNCHANGED <<decl, tree, i, l, d, search>>

\* (Slip: the link is not tested, and what hung there is lost.)
FollowFresh(link, check) ==
    d' = New /\ tree' = Append([tree EXCEPT ![d][link] = New], Node(check))

\* The pointer follows link, to a node allocated for check if there is none.
Follow(link, check) ==
    IF tree[d][link] # 0
    THEN d' = tree[d][link] /\ UNCHANGED tree
    ELSE d' = New /\ tree' = Append([tree EXCEPT ![d][link] = New], Node(check))

IncludeSubcheck ==
    /\ AddCheck /\ Same /\ l < Len(This)
    /\ phase = "generate" => tree[d].found = 0
    /\ l' = l + 1
    /\ Follow("subcheck", This[l + 1])
    /\ UNCHANGED <<phase, decl, i, search>>

\* (Slip: an existing next node is not gone to.)
IncludeNextStays ==
    /\ AddCheck /\ ~Same
    /\ IF tree[d].next # 0 THEN UNCHANGED <<tree, d>> ELSE Follow("next", This[l])
    /\ UNCHANGED <<phase, decl, i, l, search>>

IncludeNext ==
    /\ AddCheck /\ ~Same
    /\ Follow("next", This[l])
    /\ UNCHANGED <<phase, decl, i, l, search>>

\* (Slip: the last node of the chain points past it.)
GuideOpen(ids, n) ==
    [p \in 1..Len(ids) |-> [Node([id |-> ids[p], value |-> -1])
        EXCEPT !.subcheck = n + p]]

\* A chain of nodes without values, allocated from node n on.
Guide(ids, n) ==
    [p \in 1..Len(ids) |-> [Node([id |-> ids[p], value |-> -1])
        EXCEPT !.subcheck = IF p < Len(ids) THEN n + p ELSE 0]]

\* (Slip: the fields to extract are not appended.)
FoundUnguided ==
    /\ AddCheck /\ Same /\ l = Len(This)
    /\ phase = "generate" => tree[d].found = 0
    /\ tree' = [tree EXCEPT ![d].found = i, ![d].subcheck = 0]
    /\ i' = i + 1 /\ l' = 0 /\ d' = 0
    /\ UNCHANGED <<phase, decl, search>>

\* The last check: the node gets the instruction, and in place of its
\* subtree the fields to extract.  CreateDecoder() goes to the next one.
Found ==
    /\ AddCheck /\ Same /\ l = Len(This)
    /\ phase = "generate" => tree[d].found = 0
    /\ LET ids == Operands(isa[i])
       IN  tree' = [tree EXCEPT ![d].found = i,
                                ![d].subcheck = IF ids = <<>> THEN 0 ELSE New]
                   \o Guide(ids, New)
    /\ i' = i + 1 /\ l' = 0 /\ d' = 0
    /\ UNCHANGED <<phase, decl, search>>

\* The generator is done; the simulator it printed starts and builds again.
Elaborate ==
    /\ phase = "generate" /\ i > Len(isa)
    /\ phase' = "elaborate" /\ tree' = <<>> /\ i' = 1
    /\ UNCHANGED <<decl, l, d, search>>

Run ==
    /\ phase = "elaborate" /\ i > Len(isa)
    /\ phase' = "run"
    /\ UNCHANGED <<decl, tree, i, l, d, search>>

-----------------------------------------------------------------------------
(* Decode().                                                               *)

NoField == [id |-> 0, value |-> 0]

Decode(w) ==
    /\ phase = "run" /\ pc = "idle"
    /\ pc' = "search" /\ word' = w
    /\ d' = 1 /\ chosenPath' = <<1>> /\ field' = NoField
    /\ UNCHANGED <<phase, decl, tree, i, l, fields, result>>

\* The cached field is read if there is none.
FieldRead == IF field = NoField
             THEN [id |-> tree[d].id, value |-> GetBits(word, tree[d].id)]
             ELSE field

Searching == pc = "search" /\ d # 0
Match     == FieldRead.value = tree[d].value

\* The ids of the chain of guide nodes from node n on.
Chain == LET chain[n \in 0..Len(tree)] ==
                 IF n = 0 THEN {} ELSE {tree[n].id} \cup chain[tree[n].subcheck]
         IN  chain

FoundMatch ==
    /\ Searching /\ Match /\ tree[d].found # 0
    /\ LET stored == [fields EXCEPT ![tree[d].id] = FieldRead.value]
       IN  fields' = [id \in Ids |-> IF id \in Chain[tree[d].subcheck]
                                    THEN GetBits(word, id) ELSE stored[id]]
    /\ result' = tree[d].found /\ pc' = "return"
    /\ UNCHANGED <<phase, decl, tree, i, l, d, word, field, chosenPath>>

\* (Slip: the level left is not saved.)
FollowSubcheckUnsaved ==
    /\ Searching /\ Match /\ tree[d].found = 0
    /\ fields' = [fields EXCEPT ![tree[d].id] = FieldRead.value]
    /\ d' = tree[d].subcheck /\ field' = NoField
    /\ UNCHANGED <<phase, decl, tree, i, l, pc, word, chosenPath, result>>

FollowSubcheck ==
    /\ Searching /\ Match /\ tree[d].found = 0
    /\ fields' = [fields EXCEPT ![tree[d].id] = FieldRead.value]
    /\ chosenPath' = Append(chosenPath, tree[d].subcheck)
    /\ d' = tree[d].subcheck /\ field' = NoField
    /\ UNCHANGED <<phase, decl, tree, i, l, pc, word, result>>

\* (Slip: the field is kept for a node that checks another one.)
KeptAlways(n, f) == f

\* The field is kept unless the node gone to checks another one.
Kept(n, f) == IF n # 0 /\ tree[n].id # f.id THEN NoField ELSE f

FollowNext ==
    /\ Searching /\ ~Match
    /\ LET n == tree[d].next
       IN  /\ d' = n /\ field' = Kept(n, FieldRead)
           /\ chosenPath' = [chosenPath EXCEPT ![Len(chosenPath)] = n]
    /\ UNCHANGED <<phase, decl, tree, i, l, pc, word, fields, result>>

\* (Slip: the search goes back to the node and not to the one after it.)
BacktrackSame ==
    /\ pc = "search" /\ d = 0 /\ Len(chosenPath) > 1
    /\ LET up == Front(chosenPath)
       IN  d' = Last(up) /\ chosenPath' = up /\ field' = Kept(Last(up), field)
    /\ UNCHANGED <<phase, decl, tree, i, l, pc, word, fields, result>>

Backtrack ==
    /\ pc = "search" /\ d = 0 /\ Len(chosenPath) > 1
    /\ LET up == Front(chosenPath)
           n  == tree[Last(up)].next
       IN  /\ d' = n /\ field' = Kept(n, field)
           /\ chosenPath' = [up EXCEPT ![Len(up)] = n]
    /\ UNCHANGED <<phase, decl, tree, i, l, pc, word, fields, result>>

NotFound ==
    /\ pc = "search" /\ d = 0 /\ Len(chosenPath) = 1
    /\ result' = 0 /\ pc' = "return"
    /\ UNCHANGED <<phase, decl, tree, i, l, d, word, field, chosenPath, fields>>

\* The loop copies the result; entries of the static array stay.
Copied ==
    /\ pc = "return" /\ pc' = "idle"
    /\ d' = 0 /\ chosenPath' = <<>> /\ field' = NoField /\ result' = 0
    /\ UNCHANGED <<phase, decl, tree, i, l, word, fields>>

-----------------------------------------------------------------------------
Init ==
    /\ isa \in Isas /\ allFields = PutIDs
    /\ phase = "generate" /\ tree = <<>> /\ i = 1 /\ l = 0 /\ d = 0
    /\ pc = "idle" /\ word = [b \in 0..Width - 1 |-> 0]
    /\ field = NoField /\ chosenPath = <<>>
    /\ fields = [id \in Ids |-> Garbage] /\ result = 0

Build == \/ AddToDecoder \/ Conflict \/ IncludeSubcheck \/ IncludeNext \/ Found
         \/ Elaborate \/ Run

Search == \/ FoundMatch \/ FollowSubcheck \/ FollowNext \/ Backtrack \/ NotFound

Next == Build \/ (\E w \in Words : Decode(w)) \/ Search \/ Copied

Spec == Init /\ [][Next]_vars /\ WF_vars(Build) /\ WF_vars(Search)

-----------------------------------------------------------------------------
(* Properties.                                                             *)

\* Every variable has its type: the nodes hold checks of the lists or no value, a
\* value that is kept is one its field has in some word, and the search is never
\* deeper than the longest list.
TypeOK ==
    LET checks == UNION {{Checks(isa[m])[p] : p \in 1..Len(isa[m].dec_list)} :
                         m \in 1..Len(isa)}
        node   == [id : Ids, value : Nat \cup {-1}, found : 0..Len(isa),
                   subcheck : 0..Len(tree), next : 0..Len(tree)]
    IN  /\ phase \in {"generate", "elaborate", "run", "no decode list",
                      "decoding conflict"}
        /\ isa \in Isas
        /\ \A n \in 1..Len(tree) :
              /\ tree[n] \in node
              /\ tree[n].value = -1 \/ [id |-> tree[n].id, value |-> tree[n].value] \in checks
        /\ i \in 1..Len(isa) + 1 /\ d \in 0..Len(tree)
        /\ pc \in {"idle", "search", "return"} /\ word \in Words
        /\ field = NoField \/ /\ field.id \in Ids
                              /\ \E w \in Words : field.value = GetBits(w, field.id)
        /\ \A p \in 1..Len(chosenPath) : chosenPath[p] \in 0..Len(tree)
        /\ \A n \in 1..Len(chosenPath) : \E m \in 1..Len(isa) : Len(isa[m].dec_list) >= n
        /\ DOMAIN fields = Ids /\ result \in 0..Len(isa)
        /\ \A id \in Ids :
              fields[id] = Garbage \/ \E w \in Words : fields[id] = GetBits(w, id)

\* The pointer field is dereferenced when the search leaves a node and when it
\* backtracks: it is not NULL then.  A value kept from another node is the
\* value in this word of the field that this node checks.
FieldIsCurrent ==
    pc = "search" =>
        /\ d = 0 => field # NoField
        /\ d # 0 /\ field # NoField =>
               field = [id |-> tree[d].id, value |-> GetBits(word, tree[d].id)]

Matches(instr, w) ==
    \A p \in 1..Len(Checks(instr)) :
        GetBits(w, Checks(instr)[p].id) = Checks(instr)[p].value

\* The list of an earlier instruction goes on after the end of a later one's,
\* which takes the place of its subtree.
Lost(m) == \E n \in m + 1..Len(isa) :
               /\ IsStrictPrefix(Checks(isa[n]), Checks(isa[m]))

\* A level of the tree is in the order in which its checks first occurred.
FirstWith(prefix) ==
    Min({m \in 1..Len(isa) : IsPrefix(prefix, Checks(isa[m]))})

Precedes(m, n) ==
    \E p \in 1..Len(Checks(isa[m])) :
        /\ p =< Len(Checks(isa[n]))
        /\ SubSeq(Checks(isa[m]), 1, p - 1) = SubSeq(Checks(isa[n]), 1, p - 1)
        /\ FirstWith(SubSeq(Checks(isa[m]), 1, p)) < FirstWith(SubSeq(Checks(isa[n]), 1, p))

\* The search answers with the instruction a linear search over all decode
\* lists would choose: of those the word matches, and that are still in the
\* tree, the first in the order of the tree; and with NULL only if there is
\* none.  Decode() finds it with a cached field and a stack of positions.
FindsTheInstruction ==
    pc = "return" =>
        LET candidates == {m \in 1..Len(isa) : ~Lost(m) /\ Matches(isa[m], word)}
        IN  IF candidates = {} THEN result = 0
            ELSE /\ result \in candidates
                 /\ \A m \in candidates \ {result} : ~Precedes(m, result)

\* Every field of the format of the instruction found has the value it has
\* in this word, checked or not: nothing is left of the word decoded before,
\* although the array of results is static.
OperandsAreCurrent ==
    pc = "return" /\ result # 0 =>
        \A j \in 1..Len(Formats[isa[result].format]) :
            LET id == IdOf(Formats[isa[result].format][j])
            IN  fields[id] = GetBits(word, id)

\* The generator's verdict, which it reaches by walking a tree that grows and loses
\* branches, is that of a comparison of all pairs of lists: it ends with the conflict
\* message only if the list of the instruction it found begins the list of this one,
\* and it accepts only if no list begins a later one.  On that the simulator relies,
\* whose builder has no such test and would put the later instruction in place of
\* the earlier: it never comes upon one.
ConflictsAreReported ==
    /\ phase = "decoding conflict" =>
          /\ tree[d].found \in 1..i - 1
          /\ IsPrefix(Checks(isa[tree[d].found]), Checks(isa[i]))
    /\ phase \in {"elaborate", "run"} =>
          \A n \in 1..Len(isa) : \A m \in 1..n - 1 :
              ~IsPrefix(Checks(isa[m]), Checks(isa[n]))
    /\ phase = "elaborate" /\ AddCheck /\ Same => tree[d].found = 0

\* CreateDecoder() ends, with a decoder or an error, and Decode() returns.
DecoderIsBuilt == <>(phase \in {"run", "no decode list", "decoding conflict"})
DecodeReturns == pc = "search" ~> pc = "return"

============================================================================
