---------------------------- MODULE DecoderProof ----------------------------
(***************************************************************************)
(* Theorems about the decoder: the generator's tree and the simulator's    *)
(* are the same; a search in it answers with the instruction of the word;  *)
(* the field it keeps is current, and so is every operand it stores.       *)
(***************************************************************************)
EXTENDS Decoder, SharedLemmas, TLAPS

-----------------------------------------------------------------------------
(* Fields and their ids.                                                   *)

Keys == [first_bit : 0..Width - 1, size : 1..Width, sign : BOOLEAN]
Fields == [name : STRING, first_bit : 0..Width - 1, size : 1..Width, sign : BOOLEAN]

\* Both loops of PutIDs() append a key unless it is listed.
Listing(known, key) == IF Contains(known, key) THEN known ELSE Append(known, key)

\* What is appended is listed, and what was listed stays.
LEMMA ListingLists ==
    ASSUME NEW K, NEW known \in Seq(K), NEW key \in K
    PROVE  /\ Listing(known, key) \in Seq(K)
           /\ Contains(Listing(known, key), key)
           /\ \A e : Contains(known, e) => Contains(Listing(known, key), e)
<1>1. CASE Contains(known, key)
  BY <1>1 DEF Listing
<1>2. CASE ~Contains(known, key)
  <2> DEFINE r == Append(known, key)
  <2>1. Listing(known, key) = r
    BY <1>2 DEF Listing
  <2>2. r \in Seq(K) /\ Len(r) = Len(known) + 1 /\ r[Len(known) + 1] = key
    OBVIOUS
  <2>3. \A p \in 1..Len(known) : r[p] = known[p] /\ p \in 1..Len(r)
    OBVIOUS
  <2>4. Contains(r, key)
    <3>1. Len(known) + 1 \in 1..Len(r)
      BY <2>2
    <3> QED BY <2>2, <3>1 DEF Contains
  <2>5. ASSUME NEW e, Contains(known, e) PROVE Contains(r, e)
    <3>1. PICK p \in 1..Len(known) : known[p] = e
      BY <2>5 DEF Contains
    <3>2. p \in 1..Len(r) /\ r[p] = e
      BY <2>3, <3>1
    <3> QED BY <3>2 DEF Contains
  <2>6. QED
    <3> HIDE DEF r
    <3> QED BY <2>1, <2>2, <2>4, <2>5
<1>3. QED BY <1>1, <1>2

\* The loop over the fields of a format.
LEMMA PutFormatLists ==
    ASSUME NEW K, NEW known \in Seq(K), NEW fmt, Len(fmt) \in Nat,
           \A j \in 1..Len(fmt) : Key(fmt[j]) \in K
    PROVE  /\ PutFormat(known, fmt) \in Seq(K)
           /\ \A j \in 1..Len(fmt) : Contains(PutFormat(known, fmt), Key(fmt[j]))
           /\ \A e : Contains(known, e) => Contains(PutFormat(known, fmt), e)
<1> DEFINE n == Len(fmt)
           step == [p \in (1..n) \X Seq(K) |-> Listing(p[2], Key(fmt[p[1]]))]
           Is(f) == f = [j \in 0..n |-> IF j = 0 THEN known
                            ELSE IF Contains(f[j - 1], Key(fmt[j])) THEN f[j - 1]
                                 ELSE Append(f[j - 1], Key(fmt[j]))]
           Goes(f) == /\ f[0] = known
                      /\ \A j \in 1..n : f[j] = Listing(f[j - 1], Key(fmt[j]))
<1>1. \A j \in 1..n : \A x \in Seq(K) :
          step[<<j, x>>] = Listing(x, Key(fmt[j])) /\ step[<<j, x>>] \in Seq(K)
  <2>1. \A j \in 1..n : \A x \in Seq(K) : step[<<j, x>>] = Listing(x, Key(fmt[j]))
    OBVIOUS
  <2> QED BY <2>1, ListingLists
<1>2. \E f : Is(f)
  <2>1. PICK f \in [0..n -> Seq(K)] :
            f[0] = known /\ \A j \in 1..n : f[j] = step[<<j, f[j - 1]>>]
    <3> DEFINE S == Seq(K)
    <3>1. known \in S /\ n \in Nat /\ RemainsIn(S, n, step)
      BY <1>1 DEF RemainsIn
    <3> HIDE DEF S, n, step
    <3>2. \E f \in [0..n -> S] : Loop(f, known, n, step)
      BY <3>1, Recursion
    <3> QED BY <3>2 DEF S, Loop
  <2>2. \A j \in 1..n : f[j] = Listing(f[j - 1], Key(fmt[j]))
    <3> HIDE DEF step
    <3> SUFFICES ASSUME NEW j \in 1..n PROVE f[j] = Listing(f[j - 1], Key(fmt[j]))
      OBVIOUS
    <3>1. j - 1 \in 0..n
      OBVIOUS
    <3> QED BY <3>1, <2>1, <1>1
  <2>3. \A j \in 0..n : j # 0 => j \in 1..n
    OBVIOUS
  <2> QED BY <2>1, <2>2, <2>3 DEF Listing
<1>3. PICK f : Is(f) /\ PutFormat(known, fmt) = f[n]
  <2>1. PutFormat(known, fmt) = (CHOOSE g : Is(g))[n]
    BY DEF PutFormat
  <2> HIDE DEF Is
  <2> QED BY <1>2, <2>1
<1>4. Goes(f)
  <2>1. 0 \in 0..n /\ \A j \in 1..n : j \in 0..n /\ j # 0
    OBVIOUS
  <2> QED BY <1>3, <2>1 DEF Listing
<1> DEFINE Fine(j) == /\ f[j] \in Seq(K)
                      /\ \A k \in 1..j : Contains(f[j], Key(fmt[k]))
                      /\ \A e : Contains(known, e) => Contains(f[j], e)
           G == {j \in 0..n : Fine(j)}
<1>5. 0 \in G
  BY <1>4
<1>6. ASSUME NEW j \in 1..n, j - 1 \in G PROVE j \in G
  <2>1. f[j - 1] \in Seq(K) /\ Key(fmt[j]) \in K
    BY <1>6
  <2>2. f[j] = Listing(f[j - 1], Key(fmt[j]))
    BY <1>4
  <2>3. /\ f[j] \in Seq(K) /\ Contains(f[j], Key(fmt[j]))
        /\ \A e : Contains(f[j - 1], e) => Contains(f[j], e)
    BY <2>1, <2>2, ListingLists
  <2>4. \A k \in 1..j : k = j \/ k \in 1..j - 1
    OBVIOUS
  <2>5. Fine(j - 1)
    BY <1>6
  <2>6. Fine(j)
    BY <2>3, <2>4, <2>5
  <2>7. j \in 0..n
    OBVIOUS
  <2> QED BY <2>6, <2>7
<1>7. Fine(n)
  <2>1. \A j \in 0..n : j \in G
    <3> HIDE DEF G
    <3> QED BY <1>5, <1>6, UpTo
  <2>2. n \in 0..n
    OBVIOUS
  <2> QED BY <2>1, <2>2
<1>8. QED BY <1>3, <1>7

\* The loop over the formats: every field of every format is listed.
LEMMA PutIDsLists ==
    /\ PutIDs \in Seq(Keys)
    /\ \A k \in 1..Len(Formats) : \A j \in 1..Len(Formats[k]) :
          Contains(PutIDs, Key(Formats[k][j]))
<1> DEFINE n == Len(Formats)
           step == [p \in (1..n) \X Seq(Keys) |-> PutFormat(p[2], Formats[p[1]])]
           Is(f) == f = [k \in 0..n |-> IF k = 0 THEN <<>>
                                        ELSE PutFormat(f[k - 1], Formats[k])]
<1>1. /\ n \in Nat
      /\ \A k \in 1..n : /\ Len(Formats[k]) \in Nat
                         /\ \A j \in 1..Len(Formats[k]) : Key(Formats[k][j]) \in Keys
  <2>1. Formats \in Seq(Seq(Fields))
    BY DecoderAssumption DEF Fields
  <2>2. \A k \in 1..n : Formats[k] \in Seq(Fields)
    BY <2>1
  <2>3. \A k \in 1..n : \A j \in 1..Len(Formats[k]) : Formats[k][j] \in Fields
    BY <2>2
  <2>4. \A f \in Fields : Key(f) \in Keys
    BY DEF Fields, Key, Keys
  <2> QED BY <2>1, <2>2, <2>3, <2>4
<1>2. <<>> \in Seq(Keys)
  OBVIOUS
<1>3. ASSUME NEW k \in 1..n, NEW x \in Seq(Keys)
      PROVE  /\ step[<<k, x>>] = PutFormat(x, Formats[k])
             /\ step[<<k, x>>] \in Seq(Keys)
  <2>1. step[<<k, x>>] = PutFormat(x, Formats[k])
    OBVIOUS
  <2>2. PutFormat(x, Formats[k]) \in Seq(Keys)
    BY <1>1, PutFormatLists
  <2> HIDE DEF step
  <2> QED BY <2>1, <2>2
<1>4. \E f : Is(f)
  <2>1. \A k \in 1..n : \A x \in Seq(Keys) : step[<<k, x>>] \in Seq(Keys)
    BY <1>3
  <2>2. PICK f \in [0..n -> Seq(Keys)] :
            f[0] = <<>> /\ \A k \in 1..n : f[k] = step[<<k, f[k - 1]>>]
    <3> DEFINE S == Seq(Keys)
    <3>1. <<>> \in S /\ n \in Nat /\ RemainsIn(S, n, step)
      BY <2>1, <1>1, <1>2 DEF RemainsIn
    <3> HIDE DEF S, n, step
    <3>2. \E f \in [0..n -> S] : Loop(f, <<>>, n, step)
      BY <3>1, Recursion
    <3> QED BY <3>2 DEF S, Loop
  <2>3. ASSUME NEW k \in 1..n PROVE f[k] = PutFormat(f[k - 1], Formats[k])
    <3> HIDE DEF step
    <3>1. k - 1 \in 0..n
      BY <1>1
    <3> QED BY <3>1, <2>2, <1>3
  <2>4. \A k \in 0..n : k # 0 => k \in 1..n
    BY <1>1
  <2> QED BY <2>2, <2>3, <2>4
<1>5. PICK f : Is(f) /\ PutIDs = f[n]
  <2>1. PutIDs = (CHOOSE g : Is(g))[n]
    BY DEF PutIDs
  <2> HIDE DEF Is
  <2> QED BY <1>4, <2>1
<1>6. f[0] = <<>> /\ \A k \in 1..n : f[k] = PutFormat(f[k - 1], Formats[k])
  <2>1. 0 \in 0..n /\ \A k \in 1..n : k \in 0..n /\ k # 0
    BY <1>1
  <2> QED BY <1>5, <2>1
<1> DEFINE Fine(k) == /\ f[k] \in Seq(Keys)
                      /\ \A m \in 1..k : \A j \in 1..Len(Formats[m]) :
                            Contains(f[k], Key(Formats[m][j]))
           G == {k \in 0..n : Fine(k)}
<1>7. 0 \in G
  <2>1. 1..0 = {} /\ 0 \in 0..n
    BY <1>1
  <2>2. Fine(0)
    BY <1>2, <1>6, <2>1
  <2> QED BY <2>1, <2>2
<1>8. ASSUME NEW k \in 1..n, k - 1 \in G PROVE k \in G
  <2>1. Fine(k - 1)
    BY <1>8
  <2>2. f[k] = PutFormat(f[k - 1], Formats[k])
    BY <1>6
  <2>3. /\ f[k] \in Seq(Keys)
        /\ \A j \in 1..Len(Formats[k]) : Contains(f[k], Key(Formats[k][j]))
        /\ \A e : Contains(f[k - 1], e) => Contains(f[k], e)
    BY <2>1, <2>2, <1>1, PutFormatLists
  <2>4. k \in 0..n /\ \A m \in 1..k : m = k \/ m \in 1..k - 1
    BY <1>1
  <2>5. Fine(k)
    BY <2>1, <2>3, <2>4
  <2> QED BY <2>4, <2>5
<1>9. Fine(n)
  <2>1. \A k \in 0..n : k \in G
    <3> HIDE DEF G
    <3> QED BY <1>1, <1>7, <1>8, UpTo
  <2>2. n \in 0..n
    BY <1>1
  <2> QED BY <2>1, <2>2
<1>10. QED BY <1>5, <1>9

IdSet == 1..Len(PutIDs)

\* A field of a format.
IsField(f) == \E k \in 1..Len(Formats) : \E j \in 1..Len(Formats[k]) : f = Formats[k][j]

\* The id of every field of a format is that of an entry of the list.
LEMMA FieldHasId ==
    ASSUME allFields = PutIDs, NEW f, IsField(f)
    PROVE  IdOf(f) \in IdSet /\ IdOf(f) \in Ids
<1>1. PICK id \in 1..Len(PutIDs) : PutIDs[id] = Key(f)
  BY PutIDsLists DEF IsField, Contains
<1>2. QED BY <1>1 DEF IdOf, Ids, IdSet

-----------------------------------------------------------------------------
(* The checks of an instruction, and the fields left to extract.           *)

\* What the parser lets through.
Instruction(instr) ==
    /\ instr.format \in 1..Len(Formats)
    /\ Len(instr.dec_list) \in Nat
    /\ \A p \in 1..Len(instr.dec_list) :
          /\ instr.dec_list[p].value \in Nat
          /\ \E j \in 1..Len(Formats[instr.format]) :
                Formats[instr.format][j].name = instr.dec_list[p].name

LEMMA InstructionsAreParsed ==
    ASSUME NEW s \in Isas
    PROVE  Len(s) \in Nat \ {0} /\ \A n \in 1..Len(s) : Instruction(s[n])
<1>1. Len(s) \in Nat \ {0}
  BY DecoderAssumption
<1>2. ASSUME NEW n \in 1..Len(s) PROVE Instruction(s[n])
  <2>1. /\ s[n].format \in DOMAIN Formats
        /\ s[n].dec_list \in Seq([name : STRING, value : Nat])
        /\ \A p \in 1..Len(s[n].dec_list) : add_dec_list(s[n].format, s[n].dec_list[p])
    BY DecoderAssumption
  <2>2. DOMAIN Formats = 1..Len(Formats)
    BY DecoderAssumption
  <2>3. /\ Len(s[n].dec_list) \in Nat
        /\ \A p \in 1..Len(s[n].dec_list) : s[n].dec_list[p] \in [name : STRING, value : Nat]
    <3> DEFINE list == s[n].dec_list
               R == [name : STRING, value : Nat]
    <3>1. list \in Seq(R)
      BY <2>1
    <3> HIDE DEF list, R
    <3>2. Len(list) \in Nat /\ \A p \in 1..Len(list) : list[p] \in R
      BY <3>1
    <3> QED BY <3>2 DEF list, R
  <2>4. \A p \in 1..Len(s[n].dec_list) : s[n].dec_list[p].value \in Nat
    BY <2>3
  <2> QED BY <2>1, <2>2, <2>3, <2>4 DEF Instruction, add_dec_list
<1>3. QED BY <1>1, <1>2

LEMMA ChecksType ==
    ASSUME allFields = PutIDs, NEW instr, Instruction(instr)
    PROVE  /\ Checks(instr) \in Seq([id : IdSet, value : Nat])
           /\ Len(Checks(instr)) = Len(instr.dec_list)
<1> DEFINE n == Len(instr.dec_list)
           fmt == Formats[instr.format]
           At(p) == CHOOSE j \in 1..Len(fmt) : fmt[j].name = instr.dec_list[p].name
           Check(p) == [id |-> IdOf(fmt[At(p)]), value |-> instr.dec_list[p].value]
<1>1. n \in Nat
  BY DEF Instruction
<1>2. ASSUME NEW p \in 1..n PROVE Check(p) \in [id : IdSet, value : Nat]
  <2>1. At(p) \in 1..Len(fmt)
    BY DEF Instruction
  <2>2. IsField(fmt[At(p)])
    <3> HIDE DEF At
    <3> QED BY <2>1 DEF Instruction, IsField
  <2>3. IdOf(fmt[At(p)]) \in IdSet
    <3> HIDE DEF At, fmt
    <3> QED BY <2>2, FieldHasId
  <2>4. instr.dec_list[p].value \in Nat
    BY DEF Instruction
  <2> HIDE DEF At, fmt
  <2> QED BY <2>3, <2>4
<1>3. Checks(instr) = [p \in 1..n |-> Check(p)]
  BY DEF Checks
<1>4. QED
  <2> HIDE DEF n, Check
  <2>1. [p \in 1..n |-> Check(p)] \in Seq([id : IdSet, value : Nat])
    BY <1>1, <1>2
  <2>2. Len([p \in 1..n |-> Check(p)]) = n
    BY <1>1
  <2> QED BY <1>3, <2>1, <2>2 DEF n

\* The ids the list of an instruction checks.
Checked(instr) == {Checks(instr)[p].id : p \in 1..Len(instr.dec_list)}

\* A field is left unless the list checks it.
Leaving(rest, checked, id) == IF id \in checked THEN rest ELSE Append(rest, id)

LEMMA LeavingLeaves ==
    ASSUME NEW rest \in Seq(IdSet), NEW checked, NEW id \in IdSet
    PROVE  /\ Leaving(rest, checked, id) \in Seq(IdSet)
           /\ id \in checked \/ Contains(Leaving(rest, checked, id), id)
           /\ \A e : Contains(rest, e) => Contains(Leaving(rest, checked, id), e)
<1>1. CASE id \in checked
  BY <1>1 DEF Leaving
<1>2. CASE id \notin checked
  <2> DEFINE r == Append(rest, id)
  <2>1. Leaving(rest, checked, id) = r
    BY <1>2 DEF Leaving
  <2>2. r \in Seq(IdSet) /\ Len(r) = Len(rest) + 1 /\ r[Len(rest) + 1] = id
    OBVIOUS
  <2>3. \A p \in 1..Len(rest) : r[p] = rest[p] /\ p \in 1..Len(r)
    OBVIOUS
  <2>4. Len(rest) + 1 \in 1..Len(r)
    BY <2>2
  <2> HIDE DEF r
  <2>5. Contains(r, id)
    BY <2>2, <2>4 DEF Contains
  <2>6. \A e : Contains(rest, e) => Contains(r, e)
    BY <2>3 DEF Contains
  <2> QED BY <2>1, <2>2, <2>5, <2>6
<1>3. QED BY <1>1, <1>2

\* Every field of the format is checked or left.
LEMMA OperandsAreLeft ==
    ASSUME allFields = PutIDs, NEW instr, Instruction(instr)
    PROVE  /\ Operands(instr) \in Seq(IdSet)
           /\ \A j \in 1..Len(Formats[instr.format]) :
                 \/ IdOf(Formats[instr.format][j]) \in Checked(instr)
                 \/ Contains(Operands(instr), IdOf(Formats[instr.format][j]))
<1> DEFINE fmt == Formats[instr.format]
           n == Len(fmt)
           checked == Checked(instr)
           step == [p \in (1..n) \X Seq(IdSet) |-> Leaving(p[2], checked, IdOf(fmt[p[1]]))]
           Is(f) == f = [j \in 0..n |-> IF j = 0 THEN <<>>
                            ELSE IF IdOf(fmt[j]) \in Checked(instr) THEN f[j - 1]
                                 ELSE Append(f[j - 1], IdOf(fmt[j]))]
<1>1. n \in Nat
  <2>1. Formats \in Seq(Seq(Fields))
    BY DecoderAssumption DEF Fields
  <2>2. instr.format \in 1..Len(Formats)
    BY DEF Instruction
  <2>3. fmt \in Seq(Fields)
    BY <2>1, <2>2
  <2> QED BY <2>3
<1>2. ASSUME NEW j \in 1..n PROVE IdOf(fmt[j]) \in IdSet
  <2>1. IsField(fmt[j])
    BY DEF Instruction, IsField
  <2> QED BY <2>1, FieldHasId
<1>3. <<>> \in Seq(IdSet)
  OBVIOUS
<1>4. ASSUME NEW j \in 1..n, NEW x \in Seq(IdSet)
      PROVE  /\ step[<<j, x>>] = Leaving(x, checked, IdOf(fmt[j]))
             /\ step[<<j, x>>] \in Seq(IdSet)
  <2>1. step[<<j, x>>] = Leaving(x, checked, IdOf(fmt[j]))
    OBVIOUS
  <2>2. IdOf(fmt[j]) \in IdSet
    BY <1>2
  <2> HIDE DEF step, checked, fmt
  <2>3. Leaving(x, checked, IdOf(fmt[j])) \in Seq(IdSet)
    BY <2>2, LeavingLeaves
  <2> QED BY <2>1, <2>3
<1>5. \E f : Is(f)
  <2>1. \A j \in 1..n : \A x \in Seq(IdSet) : step[<<j, x>>] \in Seq(IdSet)
    BY <1>4
  <2>2. PICK f \in [0..n -> Seq(IdSet)] :
            f[0] = <<>> /\ \A j \in 1..n : f[j] = step[<<j, f[j - 1]>>]
    <3> DEFINE S == Seq(IdSet)
    <3>1. <<>> \in S /\ n \in Nat /\ RemainsIn(S, n, step)
      BY <2>1, <1>1, <1>3 DEF RemainsIn
    <3> HIDE DEF S, n, step
    <3>2. \E f \in [0..n -> S] : Loop(f, <<>>, n, step)
      BY <3>1, Recursion
    <3> QED BY <3>2 DEF S, Loop
  <2>3. ASSUME NEW j \in 1..n PROVE f[j] = Leaving(f[j - 1], checked, IdOf(fmt[j]))
    <3>1. j - 1 \in 0..n
      BY <1>1
    <3> HIDE DEF step, n, checked, fmt
    <3> QED BY <3>1, <2>2, <1>4
  <2>4. \A j \in 0..n : j # 0 => j \in 1..n
    BY <1>1
  <2>5. \A j \in 0..n : f[j] = IF j = 0 THEN <<>>
                               ELSE IF IdOf(fmt[j]) \in Checked(instr) THEN f[j - 1]
                                    ELSE Append(f[j - 1], IdOf(fmt[j]))
    <3> HIDE DEF step, n, fmt
    <3> QED BY <2>2, <2>3, <2>4 DEF Leaving
  <2>6. f = [j \in 0..n |-> f[j]]
    BY <2>2
  <2>7. Is(f)
    <3> HIDE DEF step, n, fmt, checked
    <3> QED BY <2>5, <2>6
  <2> HIDE DEF Is
  <2> QED BY <2>7
<1>6. PICK f : Is(f) /\ Operands(instr) = f[n]
  <2>1. Operands(instr) = (CHOOSE g : Is(g))[n]
    BY DEF Operands, Checked
  <2> HIDE DEF Is
  <2> QED BY <1>5, <2>1
<1>7. f[0] = <<>> /\ \A j \in 1..n : f[j] = Leaving(f[j - 1], checked, IdOf(fmt[j]))
  <2>1. 0 \in 0..n /\ \A j \in 1..n : j \in 0..n /\ j # 0
    BY <1>1
  <2> QED BY <1>6, <2>1 DEF Leaving
<1> DEFINE Fine(j) == /\ f[j] \in Seq(IdSet)
                      /\ \A m \in 1..j : IdOf(fmt[m]) \in checked \/ Contains(f[j], IdOf(fmt[m]))
           G == {j \in 0..n : Fine(j)}
<1> HIDE DEF fmt, n, checked, step, Is
<1>8. 0 \in G
  <2>1. 1..0 = {} /\ 0 \in 0..n
    BY <1>1
  <2>2. Fine(0)
    BY <1>3, <1>7, <2>1
  <2> QED BY <2>1, <2>2
<1>9. ASSUME NEW j \in 1..n, j - 1 \in G PROVE j \in G
  <2>1. Fine(j - 1)
    BY <1>9
  <2>2. f[j] = Leaving(f[j - 1], checked, IdOf(fmt[j]))
    BY <1>7
  <2>3. /\ f[j] \in Seq(IdSet)
        /\ IdOf(fmt[j]) \in checked \/ Contains(f[j], IdOf(fmt[j]))
        /\ \A e : Contains(f[j - 1], e) => Contains(f[j], e)
    BY <2>1, <2>2, <1>2, LeavingLeaves
  <2>4. j \in 0..n /\ \A m \in 1..j : m = j \/ m \in 1..j - 1
    BY <1>1
  <2>5. Fine(j)
    BY <2>1, <2>3, <2>4
  <2> QED BY <2>4, <2>5
<1>10. Fine(n)
  <2>1. \A j \in 0..n : j \in G
    <3> HIDE DEF G
    <3> QED BY <1>1, <1>8, <1>9, UpTo
  <2>2. n \in 0..n
    BY <1>1
  <2> QED BY <2>1, <2>2
<1>11. QED BY <1>6, <1>10 DEF n, fmt, checked

-----------------------------------------------------------------------------
(* The tree.  C[m] are the checks of instruction m and O[m] the fields its *)
(* list leaves; Over[n] are the ids checked on the way to node n.          *)

NodeSet == [id : IdSet, value : Int, found : Nat, subcheck : Nat, next : Nat]

Declared(C, O, N) ==
    /\ N \in Nat
    /\ \A m \in 1..N : C[m] \in Seq([id : IdSet, value : Nat]) /\ O[m] \in Seq(IdSet)

\* Guide nodes have the value -1.
IsCheck(t, n) == t[n].value # -1

LinkedAt(t, Over, n) ==
    /\ t[n].next # 0 =>
          /\ t[n].next \in 1..Len(t) /\ IsCheck(t, t[n].next)
          /\ Over[t[n].next] = Over[n]
    /\ t[n].subcheck # 0 => t[n].subcheck \in 1..Len(t)
    /\ IsCheck(t, n) /\ t[n].found = 0 /\ t[n].subcheck # 0 =>
          /\ IsCheck(t, t[n].subcheck)
          /\ Over[t[n].subcheck] = Over[n] \cup {t[n].id}

\* The chain of the fields ids starts at node s.
GuideAt(t, ids, s, p) ==
    /\ s + p - 1 \in 1..Len(t)
    /\ t[s + p - 1].value = -1 /\ t[s + p - 1].id = ids[p]
    /\ p < Len(ids) => t[s + p - 1].subcheck = s + p

\* An instruction found at n is checked on the way there, and the fields its
\* list leaves hang below n.
ExtractsAt(C, O, N, t, Over, n) ==
    t[n].found # 0 =>
        /\ t[n].found \in 1..N
        /\ \A p \in 1..Len(C[t[n].found]) :
              C[t[n].found][p].id \in Over[n] \cup {t[n].id}
        /\ \A p \in 1..Len(O[t[n].found]) : GuideAt(t, O[t[n].found], t[n].subcheck, p)

Tree(C, O, N, t, Over) ==
    /\ t \in Seq(NodeSet)
    /\ Len(t) # 0 => IsCheck(t, 1) /\ Over[1] = {}
    /\ \A n \in 1..Len(t) : LinkedAt(t, Over, n) /\ ExtractsAt(C, O, N, t, Over, n)

\* A check that leads nowhere yet.
Ends(t, n) == IsCheck(t, n) /\ t[n].found = 0 /\ t[n].subcheck = 0

SameAs(t, at, check) == t[at].id = check.id /\ t[at].value = check.value

\* Where AddToDecoder is in a tree: only the check it has just appended ends.
Place(C, N, q, Over) ==
    /\ q.i \in 1..N + 1 /\ q.l \in Nat
    /\ q.i > 1 => Len(q.tree) # 0
    /\ q.l = 0 => q.d = 0 /\ \A n \in 1..Len(q.tree) : ~Ends(q.tree, n)
    /\ q.l # 0 =>
          /\ q.i \in 1..N /\ q.l \in 1..Len(C[q.i]) /\ q.d \in 1..Len(q.tree)
          /\ IsCheck(q.tree, q.d)
          /\ \A p \in 1..q.l - 1 : C[q.i][p].id \in Over[q.d]
          /\ \A n \in 1..Len(q.tree) :
                Ends(q.tree, n) => n = q.d /\ SameAs(q.tree, n, C[q.i][q.l])

Good(C, O, N, q) == \E Over : Tree(C, O, N, q.tree, Over) /\ Place(C, N, q, Over)

\* One step of AddToDecoder, from q.
Step(t, k, pos, at) == [tree |-> t, i |-> k, l |-> pos, d |-> at]

BeginTree(t, check) == IF t = <<>> THEN <<Node(check)>> ELSE t

DownTree(t, at, check) ==
    IF t[at].subcheck # 0 THEN t
    ELSE Append([t EXCEPT ![at].subcheck = Len(t) + 1], Node(check))

PastTree(t, at, check) ==
    IF t[at].next # 0 THEN t
    ELSE Append([t EXCEPT ![at].next = Len(t) + 1], Node(check))

FoundTree(t, at, m, ids) ==
    [t EXCEPT ![at].found = m, ![at].subcheck = IF ids = <<>> THEN 0 ELSE Len(t) + 1]
    \o Guide(ids, Len(t) + 1)

To(link, t) == IF link # 0 THEN link ELSE Len(t) + 1

Built(C, O, q) ==
    IF q.l = 0 THEN Step(BeginTree(q.tree, C[q.i][1]), q.i, 1, 1)
    ELSE IF ~SameAs(q.tree, q.d, C[q.i][q.l])
    THEN Step(PastTree(q.tree, q.d, C[q.i][q.l]), q.i, q.l, To(q.tree[q.d].next, q.tree))
    ELSE IF q.l < Len(C[q.i])
    THEN Step(DownTree(q.tree, q.d, C[q.i][q.l + 1]), q.i, q.l + 1,
              To(q.tree[q.d].subcheck, q.tree))
    ELSE Step(FoundTree(q.tree, q.d, q.i, O[q.i]), q.i + 1, 0, 0)

\* What replacing a node of t by r and appending s makes.
Grown(t, at, r, s, u) ==
    /\ u \in Seq(NodeSet) /\ Len(u) = Len(t) + Len(s)
    /\ u[at] = r
    /\ \A n \in 1..Len(t) : n # at => u[n] = t[n]
    /\ \A p \in 1..Len(s) : u[Len(t) + p] = s[p]

LEMMA Replaces ==
    ASSUME NEW t \in Seq(NodeSet), NEW at \in 1..Len(t), NEW r \in NodeSet,
           NEW s \in Seq(NodeSet)
    PROVE  Grown(t, at, r, s, [t EXCEPT ![at] = r] \o s)
<1> DEFINE v == [t EXCEPT ![at] = r]
<1>1. v \in Seq(NodeSet) /\ Len(v) = Len(t)
  OBVIOUS
<1>2. \A n \in 1..Len(t) : v[n] = IF n = at THEN r ELSE t[n]
  OBVIOUS
<1> HIDE DEF v
<1>3. v \o s \in Seq(NodeSet) /\ Len(v \o s) = Len(v) + Len(s)
  BY <1>1
<1>4. \A n \in 1..Len(v) : (v \o s)[n] = v[n]
  BY <1>1
<1>5. \A p \in 1..Len(s) : (v \o s)[Len(v) + p] = s[p]
  BY <1>1
<1>6. Grown(t, at, r, s, v \o s)
  BY <1>1, <1>2, <1>3, <1>4, <1>5 DEF Grown
<1>7. QED BY <1>6 DEF v

LEMMA NodeType ==
    ASSUME NEW check, check.id \in IdSet, check.value \in Int
    PROVE  Node(check) \in NodeSet /\ <<Node(check)>> \in Seq(NodeSet)
<1>1. Node(check) \in NodeSet
  BY DEF Node, NodeSet
<1>2. QED BY <1>1

\* The next node for a check that differs.
LEMMA PastGrows ==
    ASSUME NEW t \in Seq(NodeSet), NEW at \in 1..Len(t), t[at].next = 0,
           NEW check \in [id : IdSet, value : Nat]
    PROVE  Grown(t, at, [t[at] EXCEPT !.next = Len(t) + 1], <<Node(check)>>,
                 PastTree(t, at, check))
<1> DEFINE r == [t[at] EXCEPT !.next = Len(t) + 1]
           v == [t EXCEPT ![at] = r]
           x == Node(check)
<1>1. r \in NodeSet
  <2>1. t[at] \in NodeSet
    OBVIOUS
  <2>2. Len(t) + 1 \in Nat
    OBVIOUS
  <2> QED BY <2>1, <2>2 DEF NodeSet
<1>2. x \in NodeSet /\ <<x>> \in Seq(NodeSet)
  BY NodeType
<1>3. PastTree(t, at, check) = Append(v, x)
  BY DEF PastTree
<1> HIDE DEF r, x
<1>4. v \in Seq(NodeSet)
  BY <1>1
<1>5. Append(v, x) = v \o <<x>>
  <2> HIDE DEF v
  <2> QED BY <1>4, <1>2, AppendIsConcat
<1>6. Grown(t, at, r, <<x>>, v \o <<x>>)
  BY <1>1, <1>2, Replaces
<1>7. QED
  <2> HIDE DEF v
  <2>1. Grown(t, at, r, <<x>>, PastTree(t, at, check))
    BY <1>3, <1>5, <1>6
  <2> QED BY <2>1 DEF r, x

\* The node below for the check after one that is there.
LEMMA DownGrows ==
    ASSUME NEW t \in Seq(NodeSet), NEW at \in 1..Len(t), t[at].subcheck = 0,
           NEW check \in [id : IdSet, value : Nat]
    PROVE  Grown(t, at, [t[at] EXCEPT !.subcheck = Len(t) + 1], <<Node(check)>>,
                 DownTree(t, at, check))
<1> DEFINE r == [t[at] EXCEPT !.subcheck = Len(t) + 1]
           v == [t EXCEPT ![at] = r]
           x == Node(check)
<1>1. r \in NodeSet
  <2>1. t[at] \in NodeSet
    OBVIOUS
  <2>2. Len(t) + 1 \in Nat
    OBVIOUS
  <2> QED BY <2>1, <2>2 DEF NodeSet
<1>2. x \in NodeSet /\ <<x>> \in Seq(NodeSet)
  BY NodeType
<1>3. DownTree(t, at, check) = Append(v, x)
  BY DEF DownTree
<1> HIDE DEF r, x
<1>4. v \in Seq(NodeSet)
  BY <1>1
<1>5. Append(v, x) = v \o <<x>>
  <2> HIDE DEF v
  <2> QED BY <1>4, <1>2, AppendIsConcat
<1>6. Grown(t, at, r, <<x>>, v \o <<x>>)
  BY <1>1, <1>2, Replaces
<1>7. QED
  <2> HIDE DEF v
  <2>1. Grown(t, at, r, <<x>>, DownTree(t, at, check))
    BY <1>3, <1>5, <1>6
  <2> QED BY <2>1 DEF r, x

\* The chain of guide nodes.
LEMMA GuideType ==
    ASSUME NEW ids \in Seq(IdSet), NEW k \in Nat
    PROVE  /\ Guide(ids, k) \in Seq(NodeSet) /\ Len(Guide(ids, k)) = Len(ids)
           /\ \A p \in 1..Len(ids) :
                 /\ Guide(ids, k)[p].id = ids[p] /\ Guide(ids, k)[p].value = -1
                 /\ Guide(ids, k)[p].found = 0 /\ Guide(ids, k)[p].next = 0
                 /\ Guide(ids, k)[p].subcheck = IF p < Len(ids) THEN k + p ELSE 0
<1> DEFINE At(p) == [id |-> ids[p], value |-> -1, found |-> 0,
                     subcheck |-> IF p < Len(ids) THEN k + p ELSE 0, next |-> 0]
<1>1. Len(ids) \in Nat
  OBVIOUS
<1>2. Guide(ids, k) = [p \in 1..Len(ids) |-> At(p)]
  BY DEF Guide, Node
<1>3. ASSUME NEW p \in 1..Len(ids) PROVE At(p) \in NodeSet
  <2>1. ids[p] \in IdSet
    OBVIOUS
  <2>2. (IF p < Len(ids) THEN k + p ELSE 0) \in Nat
    BY <1>1
  <2> QED BY <2>1, <2>2 DEF NodeSet
<1>4. \A p \in 1..Len(ids) :
          /\ At(p).id = ids[p] /\ At(p).value = -1 /\ At(p).found = 0 /\ At(p).next = 0
          /\ At(p).subcheck = IF p < Len(ids) THEN k + p ELSE 0
  OBVIOUS
<1> HIDE DEF At
<1>5. [p \in 1..Len(ids) |-> At(p)] \in Seq(NodeSet)
  BY <1>1, <1>3
<1>6. Len([p \in 1..Len(ids) |-> At(p)]) = Len(ids)
  BY <1>1
<1>7. \A p \in 1..Len(ids) : Guide(ids, k)[p] = At(p)
  BY <1>2
<1>8. QED BY <1>2, <1>4, <1>5, <1>6, <1>7

LEMMA FoundGrows ==
    ASSUME NEW t \in Seq(NodeSet), NEW at \in 1..Len(t), NEW m \in Nat,
           NEW ids \in Seq(IdSet)
    PROVE  Grown(t, at, [t[at] EXCEPT !.found = m,
                            !.subcheck = IF ids = <<>> THEN 0 ELSE Len(t) + 1],
                 Guide(ids, Len(t) + 1), FoundTree(t, at, m, ids))
<1> DEFINE r == [t[at] EXCEPT !.found = m,
                     !.subcheck = IF ids = <<>> THEN 0 ELSE Len(t) + 1]
           s == Guide(ids, Len(t) + 1)
           v == [t EXCEPT ![at] = r]
<1>1. r \in NodeSet
  <2>1. t[at] \in NodeSet
    OBVIOUS
  <2>2. (IF ids = <<>> THEN 0 ELSE Len(t) + 1) \in Nat
    OBVIOUS
  <2> QED BY <2>1, <2>2 DEF NodeSet
<1>2. s \in Seq(NodeSet)
  <2>1. Len(t) + 1 \in Nat
    OBVIOUS
  <2> QED BY <2>1, GuideType
<1>3. FoundTree(t, at, m, ids) = v \o s
  BY DEF FoundTree
<1> HIDE DEF r, s
<1>4. Grown(t, at, r, s, v \o s)
  BY <1>1, <1>2, Replaces
<1>5. QED
  <2> HIDE DEF v
  <2> QED BY <1>3, <1>4 DEF r, s

\* What AddToDecoder does to the node it is at leaves its check alone.
SameCheck(t, at, r) == r.value = t[at].value /\ r.id = t[at].id

LEMMA GrownFacts ==
    ASSUME NEW t \in Seq(NodeSet), NEW at \in 1..Len(t), NEW r, NEW s \in Seq(NodeSet),
           NEW u, Grown(t, at, r, s, u), SameCheck(t, at, r)
    PROVE  /\ Len(u) = Len(t) + Len(s) /\ Len(t) \in Nat /\ Len(s) \in Nat
           /\ \A n \in 1..Len(t) :
                 /\ n \in 1..Len(u) /\ u[n].value = t[n].value /\ u[n].id = t[n].id
                 /\ IsCheck(u, n) <=> IsCheck(t, n)
           /\ \A n \in 1..Len(u) : n \in 1..Len(t) \/ \E p \in 1..Len(s) : n = Len(t) + p
<1>1. Len(u) = Len(t) + Len(s) /\ Len(t) \in Nat /\ Len(s) \in Nat
  BY DEF Grown
<1>2. ASSUME NEW n \in 1..Len(t)
      PROVE  u[n].value = t[n].value /\ u[n].id = t[n].id
  BY DEF Grown, SameCheck
<1>3. \A n \in 1..Len(t) : n \in 1..Len(u)
  BY <1>1
<1>4. ASSUME NEW n \in 1..Len(u), n \notin 1..Len(t)
      PROVE  \E p \in 1..Len(s) : n = Len(t) + p
  <2>1. n - Len(t) \in 1..Len(s) /\ n = Len(t) + (n - Len(t))
    BY <1>1, <1>4
  <2> QED BY <2>1
<1>5. QED BY <1>1, <1>2, <1>3, <1>4 DEF IsCheck

\* A node that keeps its links keeps what they mean.
LEMMA LinkedStays ==
    ASSUME NEW t \in Seq(NodeSet), NEW at \in 1..Len(t), NEW r, NEW s \in Seq(NodeSet),
           NEW u, Grown(t, at, r, s, u), SameCheck(t, at, r),
           NEW Over, NEW Over2, \A n \in 1..Len(t) : Over2[n] = Over[n],
           NEW n \in 1..Len(t), u[n] = t[n], LinkedAt(t, Over, n)
    PROVE  LinkedAt(u, Over2, n)
<1>1. \A m \in 1..Len(t) : m \in 1..Len(u) /\ (IsCheck(u, m) <=> IsCheck(t, m))
  BY GrownFacts
<1>2. t[n].next # 0 => /\ t[n].next \in 1..Len(t) /\ IsCheck(t, t[n].next)
                       /\ Over[t[n].next] = Over[n]
  BY DEF LinkedAt
<1>3. t[n].subcheck # 0 => t[n].subcheck \in 1..Len(t)
  BY DEF LinkedAt
<1>4. IsCheck(t, n) /\ t[n].found = 0 /\ t[n].subcheck # 0 =>
          IsCheck(t, t[n].subcheck) /\ Over[t[n].subcheck] = Over[n] \cup {t[n].id}
  BY DEF LinkedAt
<1>5. u[n].next # 0 => /\ u[n].next \in 1..Len(u) /\ IsCheck(u, u[n].next)
                       /\ Over2[u[n].next] = Over2[n]
  BY <1>1, <1>2
<1>6. u[n].subcheck # 0 => u[n].subcheck \in 1..Len(u)
  BY <1>1, <1>3
<1>7. IsCheck(u, n) /\ u[n].found = 0 /\ u[n].subcheck # 0 =>
          IsCheck(u, u[n].subcheck) /\ Over2[u[n].subcheck] = Over2[n] \cup {u[n].id}
  BY <1>1, <1>3, <1>4
<1>8. QED BY <1>5, <1>6, <1>7 DEF LinkedAt

LEMMA ExtractsStays ==
    ASSUME NEW t \in Seq(NodeSet), NEW at \in 1..Len(t), NEW r, NEW s \in Seq(NodeSet),
           NEW u, Grown(t, at, r, s, u), SameCheck(t, at, r), IsCheck(t, at),
           NEW C, NEW O, NEW N,
           NEW Over, NEW Over2, \A n \in 1..Len(t) : Over2[n] = Over[n],
           NEW n \in 1..Len(t), u[n].found = t[n].found, u[n].subcheck = t[n].subcheck,
           ExtractsAt(C, O, N, t, Over, n)
    PROVE  ExtractsAt(C, O, N, u, Over2, n)
<1>1. u[n].id = t[n].id
  BY GrownFacts
<1> SUFFICES ASSUME t[n].found # 0
             PROVE  /\ t[n].found \in 1..N
                    /\ \A p \in 1..Len(C[t[n].found]) :
                          C[t[n].found][p].id \in Over[n] \cup {t[n].id}
                    /\ \A p \in 1..Len(O[t[n].found]) :
                          GuideAt(u, O[t[n].found], t[n].subcheck, p)
  BY <1>1 DEF ExtractsAt
<1>2. /\ t[n].found \in 1..N
      /\ \A p \in 1..Len(C[t[n].found]) : C[t[n].found][p].id \in Over[n] \cup {t[n].id}
  BY DEF ExtractsAt
<1>3. ASSUME NEW p \in 1..Len(O[t[n].found])
      PROVE  GuideAt(u, O[t[n].found], t[n].subcheck, p)
  <2> DEFINE m == t[n].subcheck + p - 1
  <2>1. GuideAt(t, O[t[n].found], t[n].subcheck, p)
    BY DEF ExtractsAt
  <2>2. m \in 1..Len(t) /\ t[m].value = -1
    BY <2>1 DEF GuideAt
  <2>3. m # at
    BY <2>2 DEF IsCheck
  <2>4. u[m] = t[m] /\ m \in 1..Len(u)
    <3> HIDE DEF m
    <3>1. u[m] = t[m]
      BY <2>2, <2>3 DEF Grown
    <3>2. m \in 1..Len(u)
      BY <2>2, GrownFacts
    <3> QED BY <3>1, <3>2
  <2> QED BY <2>1, <2>4 DEF GuideAt
<1>4. QED BY <1>2, <1>3

\* A new node with a check.
LEMMA NodeFields ==
    ASSUME NEW check
    PROVE  /\ Node(check).id = check.id /\ Node(check).value = check.value
           /\ Node(check).found = 0 /\ Node(check).subcheck = 0 /\ Node(check).next = 0
BY DEF Node

\* A node appended below or after the one AddToDecoder is at.
LEMMA Appended ==
    ASSUME NEW t \in Seq(NodeSet), NEW at \in 1..Len(t), NEW r,
           NEW check \in [id : IdSet, value : Nat], NEW u,
           Grown(t, at, r, <<Node(check)>>, u), SameCheck(t, at, r)
    PROVE  LET new == Len(t) + 1 IN
           /\ new \in 1..Len(u) /\ Len(u) = new /\ new \notin 1..Len(t)
           /\ u[new] = Node(check) /\ IsCheck(u, new)
           /\ \A n \in 1..Len(u) : n \in 1..Len(t) \/ n = new
<1> DEFINE x == Node(check)
<1>1. x \in NodeSet /\ <<x>> \in Seq(NodeSet) /\ x.value = check.value
  BY NodeType, NodeFields
<1> HIDE DEF x
<1>2. Len(<<x>>) = 1 /\ <<x>>[1] = x
  OBVIOUS
<1>3. Grown(t, at, r, <<x>>, u)
  BY DEF x
<1>4. Len(u) = Len(t) + 1 /\ Len(t) \in Nat
  BY <1>2, <1>3 DEF Grown
<1>5. u[Len(t) + 1] = x
  <2>1. 1 \in 1..Len(<<x>>)
    BY <1>2
  <2> QED BY <1>2, <1>3, <2>1 DEF Grown
<1>6. x.value # -1
  BY <1>1
<1>7. IsCheck(u, Len(t) + 1)
  BY <1>5, <1>6 DEF IsCheck
<1>8. QED BY <1>4, <1>5, <1>7 DEF x

LEMMA PastStep ==
    ASSUME NEW C, NEW O, NEW N, Declared(C, O, N), NEW q, NEW Over,
           Tree(C, O, N, q.tree, Over), Place(C, N, q, Over), q.l # 0,
           ~SameAs(q.tree, q.d, C[q.i][q.l])
    PROVE  Good(C, O, N, Step(PastTree(q.tree, q.d, C[q.i][q.l]), q.i, q.l,
                              To(q.tree[q.d].next, q.tree)))
<1> DEFINE t == q.tree
           dd == q.d
           check == C[q.i][q.l]
           u == PastTree(t, dd, check)
           z == To(t[dd].next, t)
           q2 == Step(u, q.i, q.l, z)
<1>1. /\ t \in Seq(NodeSet) /\ dd \in 1..Len(t) /\ IsCheck(t, dd)
      /\ q.i \in 1..N /\ q.l \in 1..Len(C[q.i]) /\ q.l \in Nat
      /\ Len(t) # 0 => IsCheck(t, 1) /\ Over[1] = {}
  BY DEF Tree, Place
<1>2. \A p \in 1..q.l - 1 : C[q.i][p].id \in Over[dd]
  BY DEF Place
<1>3. check \in [id : IdSet, value : Nat]
  <2>1. C[q.i] \in Seq([id : IdSet, value : Nat])
    BY <1>1 DEF Declared
  <2> DEFINE R == [id : IdSet, value : Nat]
             c == C[q.i]
  <2>2. c \in Seq(R) /\ q.l \in 1..Len(c)
    BY <1>1, <2>1
  <2> HIDE DEF R, c
  <2>3. c[q.l] \in R
    BY <2>2
  <2> QED BY <2>3 DEF R, c
<1>4. \A n \in 1..Len(t) : ~Ends(t, n)
  BY DEF Place
<1>5. \A n \in 1..Len(t) : LinkedAt(t, Over, n) /\ ExtractsAt(C, O, N, t, Over, n)
  BY DEF Tree
<1>6. q2.tree = u /\ q2.i = q.i /\ q2.l = q.l /\ q2.d = z
  BY DEF Step
<1>7. 1 \in 1..Len(t) /\ Len(t) \in Nat
  <2> HIDE DEF t, dd
  <2> QED BY <1>1
<1> HIDE DEF t, dd, check, q2, u, z
<1>8. CASE t[dd].next # 0
  <2>1. u = t /\ z = t[dd].next
    BY <1>8 DEF u, z, PastTree, To
  <2>2. z \in 1..Len(t) /\ IsCheck(t, z) /\ Over[z] = Over[dd]
    BY <1>8, <2>1, <1>5, <1>1 DEF LinkedAt
  <2>3. Tree(C, O, N, q2.tree, Over)
    BY <1>6, <2>1 DEF Tree, t
  <2>4. Place(C, N, q2, Over)
    BY <1>1, <1>2, <1>4, <1>6, <1>7, <2>1, <2>2 DEF Place, Declared
  <2>5. Good(C, O, N, q2)
    BY <2>3, <2>4 DEF Good
  <2> QED BY <2>5 DEF q2, u, z, t, dd, check
<1>9. CASE t[dd].next = 0
  <2> DEFINE r == [t[dd] EXCEPT !.next = Len(t) + 1]
             new == Len(t) + 1
             Over2 == [n \in 1..new |-> IF n = new THEN Over[dd] ELSE Over[n]]
  <2>1. z = new
    BY <1>9 DEF z, To
  <2>2. Grown(t, dd, r, <<Node(check)>>, u)
    BY <1>9, <1>1, <1>3, PastGrows DEF u
  <2>3. t[dd] \in NodeSet
    BY <1>1
  <2>4. /\ r.next = new /\ r.id = t[dd].id /\ r.value = t[dd].value
        /\ r.found = t[dd].found /\ r.subcheck = t[dd].subcheck
    BY <2>3 DEF NodeSet
  <2>5. SameCheck(t, dd, r)
    BY <2>4 DEF SameCheck
  <2>6. <<Node(check)>> \in Seq(NodeSet)
    BY <1>3, NodeType
  <2>7. u[dd] = r /\ (\A n \in 1..Len(t) : n # dd => u[n] = t[n]) /\ u \in Seq(NodeSet)
    BY <2>2 DEF Grown
  <2>8. /\ new \in 1..Len(u) /\ Len(u) = new /\ new \notin 1..Len(t)
        /\ u[new] = Node(check) /\ IsCheck(u, new)
        /\ \A n \in 1..Len(u) : n \in 1..Len(t) \/ n = new
    <3> HIDE DEF r
    <3> QED BY <1>1, <1>3, <2>2, <2>5, Appended
  <2>9. \A n \in 1..Len(t) :
            n \in 1..Len(u) /\ u[n].value = t[n].value /\ u[n].id = t[n].id
            /\ (IsCheck(u, n) <=> IsCheck(t, n))
    <3> HIDE DEF r
    <3> QED BY <1>1, <2>2, <2>5, <2>6, GrownFacts
  <2>10. (\A n \in 1..Len(t) : Over2[n] = Over[n]) /\ Over2[new] = Over[dd]
    <3>1. \A n \in 1..Len(t) : n \in 1..new /\ n # new
      BY <1>7
    <3>2. new \in 1..new
      BY <1>7
    <3> QED BY <3>1, <3>2
  <2>11. /\ u[new].id = check.id /\ u[new].value = check.value
         /\ u[new].found = 0 /\ u[new].subcheck = 0 /\ u[new].next = 0
    BY <2>8, NodeFields
  <2> HIDE DEF r, new, Over2
  <2>12. ASSUME NEW n \in 1..Len(u) PROVE LinkedAt(u, Over2, n)
    <3>1. CASE n = new
      BY <3>1, <2>11 DEF LinkedAt
    <3>2. CASE n = dd
      <4>1. LinkedAt(t, Over, dd)
        BY <1>1, <1>5
      <4>2. t[dd].subcheck # 0 => t[dd].subcheck \in 1..Len(t)
        BY <4>1 DEF LinkedAt
      <4>3. IsCheck(t, dd) /\ t[dd].found = 0 /\ t[dd].subcheck # 0 =>
               IsCheck(t, t[dd].subcheck) /\ Over[t[dd].subcheck] = Over[dd] \cup {t[dd].id}
        BY <4>1 DEF LinkedAt
      <4>4. /\ u[dd].next = new /\ u[dd].subcheck = t[dd].subcheck
            /\ u[dd].found = t[dd].found /\ u[dd].id = t[dd].id
        BY <2>4, <2>7
      <4>5. u[dd].next # 0 => /\ u[dd].next \in 1..Len(u) /\ IsCheck(u, u[dd].next)
                              /\ Over2[u[dd].next] = Over2[dd]
        BY <4>4, <2>8, <2>10, <1>1
      <4>6. u[dd].subcheck # 0 => u[dd].subcheck \in 1..Len(u)
        BY <4>4, <4>2, <2>9
      <4>7. IsCheck(u, dd) /\ u[dd].found = 0 /\ u[dd].subcheck # 0 =>
               IsCheck(u, u[dd].subcheck) /\ Over2[u[dd].subcheck] = Over2[dd] \cup {u[dd].id}
        <5>1. ASSUME IsCheck(u, dd), u[dd].found = 0, u[dd].subcheck # 0
              PROVE  /\ IsCheck(u, u[dd].subcheck)
                     /\ Over2[u[dd].subcheck] = Over2[dd] \cup {u[dd].id}
          <6>1. IsCheck(t, dd) /\ t[dd].found = 0 /\ t[dd].subcheck # 0
            BY <4>4, <5>1, <1>1
          <6>2. /\ t[dd].subcheck \in 1..Len(t) /\ IsCheck(t, t[dd].subcheck)
                /\ Over[t[dd].subcheck] = Over[dd] \cup {t[dd].id}
            BY <4>2, <4>3, <6>1
          <6> QED BY <4>4, <6>2, <2>9, <2>10, <1>1
        <5> QED BY <5>1
      <4> QED BY <3>2, <4>5, <4>6, <4>7 DEF LinkedAt
    <3>3. CASE n # new /\ n # dd
      <4>1. n \in 1..Len(t)
        BY <3>3, <2>8
      <4>2. u[n] = t[n] /\ LinkedAt(t, Over, n)
        BY <4>1, <3>3, <2>7, <1>5
      <4> QED BY <4>1, <4>2, <1>1, <2>2, <2>5, <2>6, <2>10, LinkedStays
    <3> QED BY <3>1, <3>2, <3>3
  <2>13. ASSUME NEW n \in 1..Len(u) PROVE ExtractsAt(C, O, N, u, Over2, n)
    <3>1. CASE n = new
      BY <3>1, <2>11 DEF ExtractsAt
    <3>2. CASE n # new
      <4>1. n \in 1..Len(t)
        BY <3>2, <2>8
      <4>2. u[n].found = t[n].found /\ u[n].subcheck = t[n].subcheck
        BY <4>1, <2>4, <2>7
      <4>3. ExtractsAt(C, O, N, t, Over, n)
        BY <4>1, <1>5
      <4> QED BY <4>1, <4>2, <4>3, <1>1, <2>2, <2>5, <2>6, <2>10, ExtractsStays
    <3> QED BY <3>1, <3>2
  <2>14. Tree(C, O, N, q2.tree, Over2)
    <3>1. Len(u) # 0 => IsCheck(u, 1) /\ Over2[1] = {}
      BY <1>1, <1>7, <2>9, <2>10
    <3> QED BY <1>6, <3>1, <2>7, <2>12, <2>13 DEF Tree
  <2>15. \A n \in 1..Len(u) : Ends(u, n) => n = new /\ SameAs(u, n, check)
    <3>1. ASSUME NEW n \in 1..Len(t) PROVE ~Ends(u, n)
      <4>1. u[n].found = t[n].found /\ u[n].subcheck = t[n].subcheck
        BY <2>4, <2>7
      <4> QED BY <4>1, <1>4, <2>9 DEF Ends
    <3>2. SameAs(u, new, check)
      BY <2>11 DEF SameAs
    <3> QED BY <3>1, <3>2, <2>8
  <2>16. Place(C, N, q2, Over2)
    <3>1. Len(u) # 0
      BY <1>7, <2>8 DEF new
    <3>2. q2.i \in 1..N + 1 /\ q2.l \in Nat /\ q2.l # 0
      BY <1>1, <1>6 DEF Declared
    <3>3. /\ q2.i \in 1..N /\ q2.l \in 1..Len(C[q2.i]) /\ q2.d \in 1..Len(q2.tree)
          /\ IsCheck(q2.tree, q2.d)
      BY <1>1, <1>6, <2>1, <2>8
    <3>4. \A p \in 1..q2.l - 1 : C[q2.i][p].id \in Over2[q2.d]
      BY <1>2, <1>6, <2>1, <2>10
    <3>5. \A n \in 1..Len(q2.tree) :
              Ends(q2.tree, n) => n = q2.d /\ SameAs(q2.tree, n, C[q2.i][q2.l])
      BY <1>6, <2>1, <2>15 DEF check
    <3> QED BY <1>6, <3>1, <3>2, <3>3, <3>4, <3>5 DEF Place
  <2>17. Good(C, O, N, q2)
    BY <2>14, <2>16 DEF Good
  <2> QED BY <2>17 DEF q2, u, z, t, dd, check
<1>10. QED BY <1>8, <1>9

LEMMA DownStep ==
    ASSUME NEW C, NEW O, NEW N, Declared(C, O, N), NEW q, NEW Over,
           Tree(C, O, N, q.tree, Over), Place(C, N, q, Over), q.l # 0,
           SameAs(q.tree, q.d, C[q.i][q.l]), q.tree[q.d].found = 0,
           q.l < Len(C[q.i])
    PROVE  Good(C, O, N, Step(DownTree(q.tree, q.d, C[q.i][q.l + 1]), q.i, q.l + 1,
                              To(q.tree[q.d].subcheck, q.tree)))
<1> DEFINE t == q.tree
           dd == q.d
           check == C[q.i][q.l + 1]
           u == DownTree(t, dd, check)
           z == To(t[dd].subcheck, t)
           q2 == Step(u, q.i, q.l + 1, z)
<1>1. /\ t \in Seq(NodeSet) /\ dd \in 1..Len(t) /\ IsCheck(t, dd)
      /\ q.i \in 1..N /\ q.l + 1 \in 1..Len(C[q.i]) /\ q.l \in Nat /\ q.l + 1 # 0
      /\ q.l + 1 \in Nat /\ t[dd].found = 0
      /\ Len(t) # 0 => IsCheck(t, 1) /\ Over[1] = {}
  <2>1. C[q.i] \in Seq([id : IdSet, value : Nat])
    BY DEF Place, Declared
  <2>2. Len(C[q.i]) \in Nat
    BY <2>1
  <2>3. q.l + 1 \in 1..Len(C[q.i])
    BY <2>2 DEF Place
  <2> QED BY <2>3 DEF Tree, Place
<1>2. \A p \in 1..q.l : C[q.i][p].id \in Over[dd] \cup {t[dd].id}
  <2>1. \A p \in 1..q.l - 1 : C[q.i][p].id \in Over[dd]
    BY DEF Place
  <2>2. \A p \in 1..q.l : p = q.l \/ p \in 1..q.l - 1
    BY <1>1
  <2>3. C[q.i][q.l].id = t[dd].id
    BY DEF SameAs
  <2> QED BY <2>1, <2>2, <2>3
<1>3. check \in [id : IdSet, value : Nat]
  <2>1. C[q.i] \in Seq([id : IdSet, value : Nat])
    BY <1>1 DEF Declared
  <2> DEFINE R == [id : IdSet, value : Nat]
             c == C[q.i]
  <2>2. c \in Seq(R) /\ q.l + 1 \in 1..Len(c)
    BY <1>1, <2>1
  <2> HIDE DEF R, c
  <2>3. c[q.l + 1] \in R
    BY <2>2
  <2> QED BY <2>3 DEF R, c
<1>4. \A n \in 1..Len(t) : Ends(t, n) => n = dd
  BY DEF Place
<1>5. \A n \in 1..Len(t) : LinkedAt(t, Over, n) /\ ExtractsAt(C, O, N, t, Over, n)
  BY DEF Tree
<1>6. q2.tree = u /\ q2.i = q.i /\ q2.l = q.l + 1 /\ q2.d = z
  BY DEF Step
<1>7. 1 \in 1..Len(t) /\ Len(t) \in Nat
  <2> HIDE DEF t, dd
  <2> QED BY <1>1
<1> HIDE DEF t, dd, check, q2, u, z
<1>8. CASE t[dd].subcheck # 0
  <2>1. u = t /\ z = t[dd].subcheck
    BY <1>8 DEF u, z, DownTree, To
  <2>2. z \in 1..Len(t) /\ IsCheck(t, z) /\ Over[z] = Over[dd] \cup {t[dd].id}
    BY <1>8, <2>1, <1>5, <1>1 DEF LinkedAt
  <2>3. Tree(C, O, N, q2.tree, Over)
    BY <1>6, <2>1 DEF Tree, t
  <2>4. Place(C, N, q2, Over)
    <3>1. \A n \in 1..Len(t) : ~Ends(t, n)
      BY <1>4, <1>8 DEF Ends
    <3>2. q.l + 1 - 1 = q.l
      BY <1>1
    <3>3. /\ q2.i \in 1..N + 1 /\ q2.l \in Nat /\ q2.l # 0 /\ Len(q2.tree) # 0
          /\ q2.i \in 1..N /\ q2.l \in 1..Len(C[q2.i]) /\ q2.d \in 1..Len(q2.tree)
      <4>1. q.i \in 1..N + 1 /\ Len(u) # 0
        BY <1>7, <2>1 DEF Place
      <4>2. z \in 1..Len(u)
        BY <2>1, <2>2
      <4> QED BY <1>1, <1>6, <4>1, <4>2
    <3>4. IsCheck(q2.tree, q2.d) /\ \A p \in 1..q2.l - 1 : C[q2.i][p].id \in Over[q2.d]
      <4>1. \A p \in 1..q.l : C[q.i][p].id \in Over[z]
        BY <1>2, <2>2
      <4>2. q2.l - 1 = q.l
        BY <1>1, <1>6
      <4>3. IsCheck(q2.tree, q2.d)
        BY <1>6, <2>1, <2>2
      <4> QED BY <1>6, <4>1, <4>2, <4>3
    <3>5. \A n \in 1..Len(q2.tree) : ~Ends(q2.tree, n)
      BY <1>6, <2>1, <3>1
    <3> QED BY <3>3, <3>4, <3>5 DEF Place
  <2>5. Good(C, O, N, q2)
    BY <2>3, <2>4 DEF Good
  <2> QED BY <2>5 DEF q2, u, z, t, dd, check
<1>9. CASE t[dd].subcheck = 0
  <2> DEFINE r == [t[dd] EXCEPT !.subcheck = Len(t) + 1]
             new == Len(t) + 1
             Over2 == [n \in 1..new |-> IF n = new THEN Over[dd] \cup {t[dd].id} ELSE Over[n]]
  <2>1. z = new
    BY <1>9 DEF z, To
  <2>2. Grown(t, dd, r, <<Node(check)>>, u)
    BY <1>9, <1>1, <1>3, DownGrows DEF u
  <2>3. t[dd] \in NodeSet
    BY <1>1
  <2>4. /\ r.next = t[dd].next /\ r.id = t[dd].id /\ r.value = t[dd].value
        /\ r.found = t[dd].found /\ r.subcheck = new
    BY <2>3 DEF NodeSet
  <2>5. SameCheck(t, dd, r)
    BY <2>4 DEF SameCheck
  <2>6. <<Node(check)>> \in Seq(NodeSet)
    BY <1>3, NodeType
  <2>7. u[dd] = r /\ (\A n \in 1..Len(t) : n # dd => u[n] = t[n]) /\ u \in Seq(NodeSet)
    BY <2>2 DEF Grown
  <2>8. /\ new \in 1..Len(u) /\ Len(u) = new /\ new \notin 1..Len(t)
        /\ u[new] = Node(check) /\ IsCheck(u, new)
        /\ \A n \in 1..Len(u) : n \in 1..Len(t) \/ n = new
    <3> HIDE DEF r
    <3> QED BY <1>1, <1>3, <2>2, <2>5, Appended
  <2>9. \A n \in 1..Len(t) :
            n \in 1..Len(u) /\ u[n].value = t[n].value /\ u[n].id = t[n].id
            /\ (IsCheck(u, n) <=> IsCheck(t, n))
    <3> HIDE DEF r
    <3> QED BY <1>1, <2>2, <2>5, <2>6, GrownFacts
  <2>10. (\A n \in 1..Len(t) : Over2[n] = Over[n]) /\ Over2[new] = Over[dd] \cup {t[dd].id}
    <3>1. \A n \in 1..Len(t) : n \in 1..new /\ n # new
      BY <1>7
    <3>2. new \in 1..new
      BY <1>7
    <3> QED BY <3>1, <3>2
  <2>11. /\ u[new].id = check.id /\ u[new].value = check.value
         /\ u[new].found = 0 /\ u[new].subcheck = 0 /\ u[new].next = 0
    BY <2>8, NodeFields
  <2> HIDE DEF r, new, Over2
  <2>12. ASSUME NEW n \in 1..Len(u) PROVE LinkedAt(u, Over2, n)
    <3>1. CASE n = new
      BY <3>1, <2>11 DEF LinkedAt
    <3>2. CASE n = dd
      <4>1. LinkedAt(t, Over, dd)
        BY <1>1, <1>5
      <4>2. t[dd].next # 0 => /\ t[dd].next \in 1..Len(t) /\ IsCheck(t, t[dd].next)
                              /\ Over[t[dd].next] = Over[dd]
        BY <4>1 DEF LinkedAt
      <4>4. /\ u[dd].next = t[dd].next /\ u[dd].subcheck = new
            /\ u[dd].found = t[dd].found /\ u[dd].id = t[dd].id
        BY <2>4, <2>7
      <4>5. u[dd].next # 0 => /\ u[dd].next \in 1..Len(u) /\ IsCheck(u, u[dd].next)
                              /\ Over2[u[dd].next] = Over2[dd]
        BY <4>4, <4>2, <2>9, <2>10, <1>1
      <4>6. u[dd].subcheck # 0 => u[dd].subcheck \in 1..Len(u)
        BY <4>4, <2>8
      <4>7. IsCheck(u, dd) /\ u[dd].found = 0 /\ u[dd].subcheck # 0 =>
               IsCheck(u, u[dd].subcheck) /\ Over2[u[dd].subcheck] = Over2[dd] \cup {u[dd].id}
        BY <4>4, <2>8, <2>10, <1>1
      <4> QED BY <3>2, <4>5, <4>6, <4>7 DEF LinkedAt
    <3>3. CASE n # new /\ n # dd
      <4>1. n \in 1..Len(t)
        BY <3>3, <2>8
      <4>2. u[n] = t[n] /\ LinkedAt(t, Over, n)
        BY <4>1, <3>3, <2>7, <1>5
      <4> QED BY <4>1, <4>2, <1>1, <2>2, <2>5, <2>6, <2>10, LinkedStays
    <3> QED BY <3>1, <3>2, <3>3
  <2>13. ASSUME NEW n \in 1..Len(u) PROVE ExtractsAt(C, O, N, u, Over2, n)
    <3>1. CASE n = new
      BY <3>1, <2>11 DEF ExtractsAt
    <3>2. CASE n # new
      <4>1. n \in 1..Len(t)
        BY <3>2, <2>8
      <4>2. CASE n = dd
        <5>1. u[dd].found = 0
          BY <1>1, <2>4, <2>7
        <5> QED BY <4>2, <5>1 DEF ExtractsAt
      <4>3. CASE n # dd
        <5>1. u[n].found = t[n].found /\ u[n].subcheck = t[n].subcheck
          BY <4>1, <4>3, <2>7
        <5>2. ExtractsAt(C, O, N, t, Over, n)
          BY <4>1, <1>5
        <5> QED BY <4>1, <5>1, <5>2, <1>1, <2>2, <2>5, <2>6, <2>10, ExtractsStays
      <4> QED BY <4>2, <4>3
    <3> QED BY <3>1, <3>2
  <2>14. Tree(C, O, N, q2.tree, Over2)
    <3>1. Len(u) # 0 => IsCheck(u, 1) /\ Over2[1] = {}
      BY <1>1, <1>7, <2>9, <2>10
    <3> QED BY <1>6, <3>1, <2>7, <2>12, <2>13 DEF Tree
  <2>15. \A n \in 1..Len(u) : Ends(u, n) => n = new /\ SameAs(u, n, check)
    <3>1. ASSUME NEW n \in 1..Len(t) PROVE ~Ends(u, n)
      <4>1. CASE n = dd
        <5>1. u[dd].subcheck # 0
          BY <2>4, <2>7, <1>7 DEF new
        <5> QED BY <4>1, <5>1 DEF Ends
      <4>2. CASE n # dd
        <5>1. u[n] = t[n] /\ (IsCheck(u, n) <=> IsCheck(t, n))
          BY <4>2, <2>7, <2>9
        <5> QED BY <5>1, <4>2, <1>4 DEF Ends
      <4> QED BY <4>1, <4>2
    <3>2. SameAs(u, new, check)
      BY <2>11 DEF SameAs
    <3> QED BY <3>1, <3>2, <2>8
  <2>16. Place(C, N, q2, Over2)
    <3>1. Len(u) # 0
      BY <1>7, <2>8 DEF new
    <3>2. q2.i \in 1..N + 1 /\ q2.l \in Nat /\ q2.l # 0
      BY <1>1, <1>6 DEF Declared
    <3>3. /\ q2.i \in 1..N /\ q2.l \in 1..Len(C[q2.i]) /\ q2.d \in 1..Len(q2.tree)
          /\ IsCheck(q2.tree, q2.d)
      BY <1>1, <1>6, <2>1, <2>8
    <3>4. \A p \in 1..q2.l - 1 : C[q2.i][p].id \in Over2[q2.d]
      <4>1. Over2[q2.d] = Over[dd] \cup {t[dd].id}
        <5>1. q2.d = new
          BY <1>6, <2>1
        <5>2. Over2[new] = Over[dd] \cup {t[dd].id}
          BY <2>10
        <5> QED BY <5>1, <5>2, Zenon
      <4>2. q2.l - 1 = q.l
        BY <1>1, <1>6
      <4>3. C[q2.i] = C[q.i]
        BY <1>6
      <4>4. \A p \in 1..q.l : C[q.i][p].id \in Over2[q2.d]
        BY <1>2, <4>1, Zenon
      <4> QED BY <4>2, <4>3, <4>4, Zenon
    <3>5. \A n \in 1..Len(q2.tree) :
              Ends(q2.tree, n) => n = q2.d /\ SameAs(q2.tree, n, C[q2.i][q2.l])
      BY <1>6, <2>1, <2>15 DEF check
    <3> QED BY <1>6, <3>1, <3>2, <3>3, <3>4, <3>5 DEF Place
  <2>17. Good(C, O, N, q2)
    BY <2>14, <2>16 DEF Good
  <2> QED BY <2>17 DEF q2, u, z, t, dd, check
<1>10. QED BY <1>8, <1>9

\* The last check: the instruction and the chain of the fields to extract.
LEMMA FoundStep ==
    ASSUME NEW C, NEW O, NEW N, Declared(C, O, N), NEW q, NEW Over,
           Tree(C, O, N, q.tree, Over), Place(C, N, q, Over), q.l # 0,
           SameAs(q.tree, q.d, C[q.i][q.l]), q.l = Len(C[q.i])
    PROVE  Good(C, O, N, Step(FoundTree(q.tree, q.d, q.i, O[q.i]), q.i + 1, 0, 0))
<1> DEFINE t == q.tree
           dd == q.d
           m == q.i
           ids == O[m]
           u == FoundTree(t, dd, m, ids)
           q2 == Step(u, m + 1, 0, 0)
           new == Len(t) + 1
           s == Guide(ids, new)
           r == [t[dd] EXCEPT !.found = m, !.subcheck = IF ids = <<>> THEN 0 ELSE new]
           Over2 == [n \in 1..Len(u) |-> IF n \in 1..Len(t) THEN Over[n] ELSE {}]
<1>1. /\ t \in Seq(NodeSet) /\ dd \in 1..Len(t) /\ IsCheck(t, dd)
      /\ m \in 1..N /\ q.l \in 1..Len(C[m]) /\ q.l \in Nat /\ m # 0 /\ m \in Nat
      /\ Len(t) # 0 => IsCheck(t, 1) /\ Over[1] = {}
  BY DEF Tree, Place, Declared
<1>2. \A p \in 1..Len(C[m]) : C[m][p].id \in Over[dd] \cup {t[dd].id}
  <2>1. \A p \in 1..q.l - 1 : C[m][p].id \in Over[dd]
    BY DEF Place
  <2>2. \A p \in 1..Len(C[m]) : p = q.l \/ p \in 1..q.l - 1
    BY <1>1
  <2>3. C[m][q.l].id = t[dd].id
    BY DEF SameAs
  <2> QED BY <2>1, <2>2, <2>3
<1>3. ids \in Seq(IdSet) /\ Len(ids) \in Nat /\ (ids = <<>> <=> Len(ids) = 0)
  <2>1. ids \in Seq(IdSet)
    BY <1>1 DEF Declared
  <2> HIDE DEF ids
  <2> QED BY <2>1
<1>4. \A n \in 1..Len(t) : Ends(t, n) => n = dd
  BY DEF Place
<1>5. \A n \in 1..Len(t) : LinkedAt(t, Over, n) /\ ExtractsAt(C, O, N, t, Over, n)
  BY DEF Tree
<1>6. q2.tree = u /\ q2.i = m + 1 /\ q2.l = 0 /\ q2.d = 0
  BY DEF Step
<1>7. 1 \in 1..Len(t) /\ Len(t) \in Nat /\ new \in Nat
  <2> HIDE DEF t, dd
  <2> QED BY <1>1
<1>8. Grown(t, dd, r, s, u)
  <2> HIDE DEF t, dd, m, ids
  <2> QED BY <1>1, <1>3, FoundGrows
<1>9. /\ s \in Seq(NodeSet) /\ Len(s) = Len(ids)
      /\ \A p \in 1..Len(ids) :
            /\ s[p].id = ids[p] /\ s[p].value = -1 /\ s[p].found = 0 /\ s[p].next = 0
            /\ s[p].subcheck = IF p < Len(ids) THEN new + p ELSE 0
  <2> HIDE DEF t, dd, m, ids, new
  <2> QED BY <1>3, <1>7, GuideType
<1> HIDE DEF t, dd, m, ids, u, q2, s
<1>10. /\ r.next = t[dd].next /\ r.id = t[dd].id /\ r.value = t[dd].value /\ r.found = m
       /\ r.subcheck = IF ids = <<>> THEN 0 ELSE new
  <2>1. t[dd] \in NodeSet
    BY <1>1
  <2> QED BY <2>1 DEF NodeSet
<1>11. SameCheck(t, dd, r)
  BY <1>10 DEF SameCheck
<1> HIDE DEF r
<1>12. u[dd] = r /\ (\A n \in 1..Len(t) : n # dd => u[n] = t[n]) /\ u \in Seq(NodeSet)
  BY <1>8 DEF Grown
<1>13. \A p \in 1..Len(ids) : u[Len(t) + p] = s[p]
  BY <1>8, <1>9 DEF Grown
<1>14. /\ Len(u) = Len(t) + Len(ids)
       /\ \A n \in 1..Len(t) :
             /\ n \in 1..Len(u) /\ u[n].value = t[n].value /\ u[n].id = t[n].id
             /\ IsCheck(u, n) <=> IsCheck(t, n)
       /\ \A n \in 1..Len(u) : n \in 1..Len(t) \/ \E p \in 1..Len(ids) : n = Len(t) + p
  BY <1>1, <1>8, <1>9, <1>11, GrownFacts
<1>15. \A n \in 1..Len(t) : Over2[n] = Over[n]
  BY <1>14
<1> HIDE DEF Over2
<1>16. ASSUME NEW p \in 1..Len(ids)
       PROVE  /\ Len(t) + p \in 1..Len(u)
              /\ u[Len(t) + p].id = ids[p] /\ u[Len(t) + p].value = -1
              /\ u[Len(t) + p].found = 0 /\ u[Len(t) + p].next = 0
              /\ u[Len(t) + p].subcheck = IF p < Len(ids) THEN new + p ELSE 0
  <2>1. Len(t) + p \in 1..Len(u)
    BY <1>3, <1>7, <1>14
  <2> QED BY <2>1, <1>9, <1>13
<1>17. ASSUME NEW n \in 1..Len(u) PROVE LinkedAt(u, Over2, n)
  <2>1. CASE n \notin 1..Len(t)
    <3>1. PICK p \in 1..Len(ids) : n = Len(t) + p
      BY <2>1, <1>14
    <3>2. /\ u[n].value = -1 /\ u[n].next = 0
          /\ u[n].subcheck = IF p < Len(ids) THEN new + p ELSE 0
      BY <3>1, <1>16
    <3>3. p < Len(ids) => new + p \in 1..Len(u)
      BY <1>3, <1>7, <1>14
    <3> QED BY <3>2, <3>3 DEF LinkedAt, IsCheck
  <2>2. CASE n = dd
    <3>1. LinkedAt(t, Over, dd)
      BY <1>1, <1>5
    <3>2. t[dd].next # 0 => /\ t[dd].next \in 1..Len(t) /\ IsCheck(t, t[dd].next)
                            /\ Over[t[dd].next] = Over[dd]
      BY <3>1 DEF LinkedAt
    <3>3. u[dd].next = t[dd].next /\ u[dd].found # 0
      BY <1>1, <1>10, <1>12
    <3>4. u[dd].subcheck # 0 => u[dd].subcheck \in 1..Len(u)
      <4>1. ids # <<>> => new \in 1..Len(u)
        BY <1>3, <1>7, <1>14
      <4> QED BY <4>1, <1>10, <1>12
    <3>5. u[dd].next # 0 => /\ u[dd].next \in 1..Len(u) /\ IsCheck(u, u[dd].next)
                            /\ Over2[u[dd].next] = Over2[dd]
      BY <1>1, <3>2, <3>3, <1>14, <1>15
    <3> QED BY <2>2, <3>3, <3>4, <3>5 DEF LinkedAt
  <2>3. CASE n \in 1..Len(t) /\ n # dd
    <3>1. u[n] = t[n] /\ LinkedAt(t, Over, n)
      BY <2>3, <1>5, <1>12
    <3> QED BY <2>3, <3>1, <1>1, <1>8, <1>9, <1>11, <1>15, LinkedStays
  <2> QED BY <2>1, <2>2, <2>3
<1>18. ASSUME NEW n \in 1..Len(u) PROVE ExtractsAt(C, O, N, u, Over2, n)
  <2>1. CASE n \notin 1..Len(t)
    <3>1. PICK p \in 1..Len(ids) : n = Len(t) + p
      BY <2>1, <1>14
    <3>2. u[n].found = 0
      BY <3>1, <1>16
    <3> QED BY <3>2 DEF ExtractsAt
  <2>2. CASE n = dd
    <3>1. u[dd].found = m /\ u[dd].id = t[dd].id /\ Over2[dd] = Over[dd]
      BY <1>1, <1>10, <1>12, <1>15
    <3>2. ASSUME NEW p \in 1..Len(ids) PROVE GuideAt(u, ids, u[dd].subcheck, p)
      <4>1. u[dd].subcheck = new
        <5>1. Len(ids) # 0
          BY <1>3
        <5> QED BY <5>1, <1>3, <1>10, <1>12
      <4>2. new + p - 1 = Len(t) + p
        BY <1>3, <1>7
      <4>3. u[Len(t) + p].subcheck = IF p < Len(ids) THEN new + p ELSE 0
        BY <1>16
      <4> QED BY <4>1, <4>2, <4>3, <1>16 DEF GuideAt
    <3> QED BY <2>2, <3>1, <3>2, <1>1, <1>2 DEF ExtractsAt, ids
  <2>3. CASE n \in 1..Len(t) /\ n # dd
    <3>1. u[n].found = t[n].found /\ u[n].subcheck = t[n].subcheck
      BY <2>3, <1>12
    <3>2. ExtractsAt(C, O, N, t, Over, n)
      BY <2>3, <1>5
    <3> QED BY <2>3, <3>1, <3>2, <1>1, <1>8, <1>9, <1>11, <1>15, ExtractsStays
  <2> QED BY <2>1, <2>2, <2>3
<1>19. Tree(C, O, N, q2.tree, Over2)
  <2>1. Len(u) # 0 => IsCheck(u, 1) /\ Over2[1] = {}
    BY <1>1, <1>7, <1>14, <1>15
  <2> QED BY <1>6, <2>1, <1>12, <1>17, <1>18 DEF Tree
<1>20. ASSUME NEW n \in 1..Len(u) PROVE ~Ends(u, n)
  <2>1. CASE n \notin 1..Len(t)
    <3>1. PICK p \in 1..Len(ids) : n = Len(t) + p
      BY <2>1, <1>14
    <3>2. u[n].value = -1
      BY <3>1, <1>16
    <3> QED BY <3>2 DEF Ends, IsCheck
  <2>2. CASE n = dd
    <3>1. u[dd].found # 0
      BY <1>1, <1>10, <1>12
    <3> QED BY <2>2, <3>1 DEF Ends
  <2>3. CASE n \in 1..Len(t) /\ n # dd
    <3>1. u[n] = t[n] /\ (IsCheck(u, n) <=> IsCheck(t, n))
      BY <2>3, <1>12, <1>14
    <3> QED BY <2>3, <3>1, <1>4 DEF Ends
  <2> QED BY <2>1, <2>2, <2>3
<1>21. Place(C, N, q2, Over2)
  <2>1. Len(u) # 0
    BY <1>3, <1>7, <1>14
  <2>2. q2.i \in 1..N + 1
    BY <1>1, <1>6 DEF Declared
  <2> QED BY <1>6, <2>1, <2>2, <1>20 DEF Place
<1>22. Good(C, O, N, q2)
  BY <1>19, <1>21 DEF Good
<1>23. QED BY <1>22 DEF q2, u, ids, m, dd, t

\* The root, which the first instruction allocates.
LEMMA BeginStep ==
    ASSUME NEW C, NEW O, NEW N, Declared(C, O, N), NEW q, NEW Over,
           Tree(C, O, N, q.tree, Over), Place(C, N, q, Over), q.l = 0,
           q.i \in 1..N, Len(C[q.i]) # 0
    PROVE  Good(C, O, N, Step(BeginTree(q.tree, C[q.i][1]), q.i, 1, 1))
<1> DEFINE t == q.tree
           check == C[q.i][1]
           u == BeginTree(t, check)
           q2 == Step(u, q.i, 1, 1)
<1>1. t \in Seq(NodeSet) /\ (Len(t) # 0 => IsCheck(t, 1) /\ Over[1] = {})
  BY DEF Tree
<1>2. check \in [id : IdSet, value : Nat] /\ 1 \in 1..Len(C[q.i])
  <2> DEFINE R == [id : IdSet, value : Nat]
             c == C[q.i]
  <2>1. c \in Seq(R)
    BY DEF Declared
  <2>2. Len(c) # 0
    OBVIOUS
  <2> HIDE DEF R, c
  <2>3. c[1] \in R /\ 1 \in 1..Len(c)
    BY <2>1, <2>2
  <2> QED BY <2>3 DEF R, c
<1>3. \A n \in 1..Len(t) : ~Ends(t, n)
  BY DEF Place
<1>4. q2.tree = u /\ q2.i = q.i /\ q2.l = 1 /\ q2.d = 1
  BY DEF Step
<1> HIDE DEF t, check, u, q2
<1>5. Len(t) \in Nat /\ (t = <<>> <=> Len(t) = 0)
  BY <1>1
<1>6. CASE t # <<>>
  <2>1. u = t /\ 1 \in 1..Len(t)
    BY <1>5, <1>6 DEF u, BeginTree
  <2>2. Tree(C, O, N, q2.tree, Over)
    BY <1>4, <2>1 DEF t
  <2>3. Place(C, N, q2, Over)
    BY <1>1, <1>2, <1>3, <1>4, <1>5, <2>1 DEF Place, Declared
  <2>4. Good(C, O, N, q2)
    BY <2>2, <2>3 DEF Good
  <2> QED BY <2>4 DEF q2, u, t, check
<1>7. CASE t = <<>>
  <2> DEFINE x == Node(check)
             Over2 == [n \in 1..1 |-> {}]
  <2>1. u = <<x>>
    BY <1>7 DEF u, BeginTree
  <2>2. x \in NodeSet /\ <<x>> \in Seq(NodeSet)
    BY <1>2, NodeType
  <2>3. /\ x.id = check.id /\ x.value = check.value
        /\ x.found = 0 /\ x.subcheck = 0 /\ x.next = 0
    BY NodeFields
  <2>4. Over2[1] = {}
    OBVIOUS
  <2> HIDE DEF x, Over2
  <2>5. Len(u) = 1 /\ u[1] = x /\ u \in Seq(NodeSet) /\ \A n \in 1..Len(u) : n = 1
    BY <2>1, <2>2
  <2>6. x.value # -1
    BY <1>2, <2>3
  <2>7. Tree(C, O, N, q2.tree, Over2)
    <3>1. LinkedAt(u, Over2, 1)
      BY <2>3, <2>5 DEF LinkedAt
    <3>2. ExtractsAt(C, O, N, u, Over2, 1)
      BY <2>3, <2>5 DEF ExtractsAt
    <3>3. IsCheck(u, 1)
      BY <2>5, <2>6 DEF IsCheck
    <3> QED BY <1>4, <2>4, <2>5, <3>1, <3>2, <3>3 DEF Tree
  <2>8. Place(C, N, q2, Over2)
    <3>1. IsCheck(u, 1) /\ SameAs(u, 1, check) /\ 1 \in 1..Len(u)
      BY <2>3, <2>5, <2>6 DEF IsCheck, SameAs
    <3>2. q.i \in 1..N + 1 /\ 1..1 - 1 = {}
      BY DEF Declared
    <3>3. C[q.i][1] = check
      BY DEF check
    <3> QED BY <1>2, <1>4, <2>5, <3>1, <3>2, <3>3 DEF Place
  <2>9. Good(C, O, N, q2)
    BY <2>7, <2>8 DEF Good
  <2> QED BY <2>9 DEF q2, u, t, check
<1>8. QED BY <1>6, <1>7

\* Every step of AddToDecoder that finds no conflict keeps the tree good.
LEMMA GoodStep ==
    ASSUME NEW C, NEW O, NEW N, Declared(C, O, N), NEW q, Good(C, O, N, q),
           q.i \in 1..N, Len(C[q.i]) # 0,
           q.l # 0 => ~SameAs(q.tree, q.d, C[q.i][q.l]) \/ q.tree[q.d].found = 0
    PROVE  Good(C, O, N, Built(C, O, q))
<1>1. PICK Over : Tree(C, O, N, q.tree, Over) /\ Place(C, N, q, Over)
  BY DEF Good
<1>2. CASE q.l = 0
  <2>1. Built(C, O, q) = Step(BeginTree(q.tree, C[q.i][1]), q.i, 1, 1)
    BY <1>2 DEF Built
  <2> QED BY <2>1, <1>1, <1>2, BeginStep
<1>3. CASE q.l # 0 /\ ~SameAs(q.tree, q.d, C[q.i][q.l])
  <2>1. Built(C, O, q) = Step(PastTree(q.tree, q.d, C[q.i][q.l]), q.i, q.l,
                              To(q.tree[q.d].next, q.tree))
    BY <1>3 DEF Built
  <2> QED BY <2>1, <1>1, <1>3, PastStep
<1>4. CASE q.l # 0 /\ SameAs(q.tree, q.d, C[q.i][q.l]) /\ q.l < Len(C[q.i])
  <2>1. Built(C, O, q) = Step(DownTree(q.tree, q.d, C[q.i][q.l + 1]), q.i, q.l + 1,
                              To(q.tree[q.d].subcheck, q.tree))
    BY <1>4 DEF Built
  <2> QED BY <2>1, <1>1, <1>4, DownStep
<1>5. CASE q.l # 0 /\ SameAs(q.tree, q.d, C[q.i][q.l]) /\ ~(q.l < Len(C[q.i]))
  <2>1. Built(C, O, q) = Step(FoundTree(q.tree, q.d, q.i, O[q.i]), q.i + 1, 0, 0)
    BY <1>5 DEF Built
  <2>2. q.l = Len(C[q.i])
    <3>1. C[q.i] \in Seq([id : IdSet, value : Nat])
      BY DEF Declared
    <3>2. Len(C[q.i]) \in Nat
      BY <3>1
    <3>3. q.l \in 1..Len(C[q.i])
      BY <1>1, <1>5 DEF Place
    <3> QED BY <3>2, <3>3, <1>5
  <2> QED BY <2>1, <2>2, <1>1, <1>5, FoundStep
<1>6. QED BY <1>2, <1>3, <1>4, <1>5

-----------------------------------------------------------------------------
(* The order of the tree.  A node is live when the search can reach it as  *)
(* a check; the Depth[n] checks on the way to live node n, its own         *)
(* included, begin the list of instruction From[n], and of none before it. *)

Finite(C, N) == N \in Nat /\ \A m \in 1..N : Len(C[m]) \in Nat

\* The lists of a and b begin with the same p checks.
Alike(C, a, b, p) ==
    p <= Len(C[a]) /\ p <= Len(C[b]) /\ \A q \in 1..p : C[a][q] = C[b][q]

\* No list before that of a begins with its first p checks.
IsFirst(C, a, p) == \A y \in 1..a - 1 : ~Alike(C, y, a, p)

KnownAt(C, N, k, t, From, Depth, n) ==
    /\ n \in 1..Len(t) /\ From[n] \in 1..N /\ From[n] <= k
    /\ Depth[n] \in 1..Len(C[From[n]])
    /\ SameAs(t, n, C[From[n]][Depth[n]]) /\ IsFirst(C, From[n], Depth[n])

\* A live node that is no end stands for the first p checks of the list of y.
OpenAt(C, t, Live, From, Depth, y, p) ==
    \E u \in Live : Depth[u] = p /\ Alike(C, From[u], y, p) /\ t[u].found = 0

Open(C, t, Live, From, Depth, y, p) == p = 0 \/ OpenAt(C, t, Live, From, Depth, y, p)

\* A live node stands for the first p checks of the list of y.
Filed(C, Live, From, Depth, y, p) ==
    \E s \in Live : Depth[s] = p /\ Alike(C, From[s], y, p)

Siblings(C, From, Depth, n, s) ==
    Depth[n] = Depth[s] /\ Alike(C, From[n], From[s], Depth[n] - 1)

Child(C, From, Depth, n, s) ==
    Depth[s] = Depth[n] + 1 /\ Alike(C, From[n], From[s], Depth[n])

\* The links lead to siblings and to children, and the instruction found at a
\* node has the list of that node.
LeadsAt(C, k, t, Live, From, Depth, n) ==
    /\ t[n].next # 0 => t[n].next \in Live /\ Siblings(C, From, Depth, n, t[n].next)
    /\ t[n].found = 0 /\ t[n].subcheck # 0 =>
          t[n].subcheck \in Live /\ Child(C, From, Depth, n, t[n].subcheck)
    /\ t[n].found # 0 =>
          /\ t[n].found \in 1..k - 1 /\ Len(C[t[n].found]) = Depth[n]
          /\ Alike(C, t[n].found, From[n], Depth[n])

\* A level is walked in the order of the lists: the first child is before every
\* other, and from a node the next is before every other later one.
OrderAt(C, t, From, Depth, n, s) ==
    /\ From[n] = From[s] /\ Depth[n] = Depth[s] => n = s
    /\ t[n].found = 0 /\ Child(C, From, Depth, n, s) =>
          t[n].subcheck # 0 /\ From[t[n].subcheck] <= From[s]
    /\ Siblings(C, From, Depth, n, s) /\ From[n] < From[s] =>
          t[n].next # 0 /\ From[t[n].next] <= From[s]

\* The lists of the instructions before k are in the tree as far as no list that
\* ends there has cut them off, and those that end there have an instruction.
AddedAt(C, t, Live, From, Depth, y) ==
    /\ Len(C[y]) # 0
    /\ \A p \in 1..Len(C[y]) : Open(C, t, Live, From, Depth, y, p - 1) =>
          Filed(C, Live, From, Depth, y, p)
    /\ \A n \in Live : Len(C[y]) = Depth[n] /\ Alike(C, From[n], y, Depth[n]) =>
          t[n].found # 0

\* The tree after the instructions before k and a part of k have been added.
Ranked(C, N, k, t, Live, From, Depth) ==
    /\ Len(t) # 0 => 1 \in Live /\ From[1] = 1 /\ Depth[1] = 1
    /\ \A n \in Live :
          /\ KnownAt(C, N, k, t, From, Depth, n)
          /\ LeadsAt(C, k, t, Live, From, Depth, n)
          /\ Open(C, t, Live, From, Depth, From[n], Depth[n] - 1)
    /\ \A n, s \in Live : OrderAt(C, t, From, Depth, n, s)
    /\ \A y \in 1..k - 1 : AddedAt(C, t, Live, From, Depth, y)

\* No list of those before k begins a later one of them.
Apart(C, k) == \A z \in 1..k - 1 : \A y \in 1..z - 1 : ~Alike(C, y, z, Len(C[y]))

\* The node where AddToDecoder stands is not one where another instruction is found.
Free(C, q) == q.l # 0 /\ SameAs(q.tree, q.d, C[q.i][q.l]) => q.tree[q.d].found = 0

\* AddToDecoder stands at a node for check l of instruction k, or before it.
Standing(C, N, q, Live, From, Depth) ==
    /\ q.i \in 1..N + 1
    /\ q.l # 0 =>
        /\ q.i \in 1..N /\ q.l \in 1..Len(C[q.i])
        /\ q.d \in Live /\ Depth[q.d] = q.l /\ Alike(C, From[q.d], q.i, q.l - 1)
        /\ \A y \in 1..From[q.d] - 1 : ~Alike(C, y, q.i, q.l)
        /\ \A p \in 1..q.l - 1 : Open(C, q.tree, Live, From, Depth, q.i, p)

InOrder(C, N, q) ==
    \E Live, From, Depth : /\ Ranked(C, N, q.i, q.tree, Live, From, Depth)
                           /\ Standing(C, N, q, Live, From, Depth)

LEMMA AlikeBack == ASSUME NEW C, NEW a, NEW b, NEW p, Alike(C, a, b, p) PROVE Alike(C, b, a, p)
BY DEF Alike

LEMMA AlikeOn ==
    ASSUME NEW C, NEW a, NEW b, NEW c, NEW p, Alike(C, a, b, p), Alike(C, b, c, p)
    PROVE  Alike(C, a, c, p)
BY DEF Alike

LEMMA AlikeLess ==
    ASSUME NEW C, NEW N, Finite(C, N), NEW a \in 1..N, NEW b \in 1..N,
           NEW p \in Nat, NEW q \in Nat, q <= p, Alike(C, a, b, p)
    PROVE  Alike(C, a, b, q)
<1>1. Len(C[a]) \in Nat /\ Len(C[b]) \in Nat
  BY DEF Finite
<1>2. q <= Len(C[a]) /\ q <= Len(C[b]) /\ \A j \in 1..q : j \in 1..p
  BY <1>1 DEF Alike
<1>3. QED BY <1>2 DEF Alike

LEMMA AlikeSelf ==
    ASSUME NEW C, NEW N, Finite(C, N), NEW a \in 1..N, NEW p \in 0..Len(C[a])
    PROVE  Alike(C, a, a, p)
BY DEF Finite, Alike

\* One check more.
LEMMA AlikeMore ==
    ASSUME NEW C, NEW N, Finite(C, N), NEW a \in 1..N, NEW b \in 1..N,
           NEW p \in Nat \ {0}, Alike(C, a, b, p - 1), p <= Len(C[a]), p <= Len(C[b]),
           C[a][p] = C[b][p]
    PROVE  Alike(C, a, b, p)
<1>1. \A j \in 1..p : j = p \/ j \in 1..p - 1
  OBVIOUS
<1>2. QED BY <1>1 DEF Alike

LEMMA FirstIsOne ==
    ASSUME NEW C, NEW N, NEW a \in 1..N, NEW b \in 1..N, NEW p, N \in Nat,
           IsFirst(C, a, p), IsFirst(C, b, p), Alike(C, a, b, p)
    PROVE  a = b
<1>1. a < b => a \in 1..b - 1
  OBVIOUS
<1>2. b < a => b \in 1..a - 1
  OBVIOUS
<1>3. ~(a < b)
  BY <1>1 DEF IsFirst
<1>4. ~(b < a)
  BY <1>2, AlikeBack DEF IsFirst
<1>5. QED BY <1>3, <1>4

\* What is known of a live node.
LEMMA LiveIs ==
    ASSUME NEW C, NEW N, Finite(C, N), NEW k, NEW t, NEW Live, NEW From, NEW Depth,
           Ranked(C, N, k, t, Live, From, Depth), NEW n \in Live
    PROVE  /\ n \in 1..Len(t) /\ From[n] \in 1..N /\ From[n] \in Nat /\ From[n] <= k
           /\ Depth[n] \in Nat /\ Depth[n] # 0 /\ Depth[n] <= Len(C[From[n]])
           /\ Depth[n] - 1 \in Nat
           /\ SameAs(t, n, C[From[n]][Depth[n]])
           /\ IsFirst(C, From[n], Depth[n]) /\ Alike(C, From[n], From[n], Depth[n])
<1>1. KnownAt(C, N, k, t, From, Depth, n)
  BY DEF Ranked
<1>2. From[n] \in 1..N /\ Depth[n] \in 1..Len(C[From[n]]) /\ Len(C[From[n]]) \in Nat
  BY <1>1 DEF KnownAt, Finite
<1>3. Depth[n] \in Nat /\ Depth[n] # 0 /\ Depth[n] <= Len(C[From[n]]) /\ Depth[n] - 1 \in Nat
      /\ Depth[n] \in 0..Len(C[From[n]])
  BY <1>2
<1>4. From[n] \in Nat
  BY <1>2 DEF Finite
<1>5. Alike(C, From[n], From[n], Depth[n])
  BY <1>2, <1>3, AlikeSelf
<1>6. QED BY <1>1, <1>3, <1>4, <1>5 DEF KnownAt

\* Two live nodes for the same checks are one.
LEMMA LiveIsOne ==
    ASSUME NEW C, NEW N, Finite(C, N), NEW k, NEW t, NEW Live, NEW From, NEW Depth,
           Ranked(C, N, k, t, Live, From, Depth), NEW n \in Live, NEW s \in Live,
           Depth[n] = Depth[s], Alike(C, From[n], From[s], Depth[n])
    PROVE  n = s
<1>1. From[n] \in 1..N /\ IsFirst(C, From[n], Depth[n])
  BY LiveIs
<1>2. From[s] \in 1..N /\ IsFirst(C, From[s], Depth[s])
  BY LiveIs
<1>3. N \in Nat
  BY DEF Finite
<1>4. From[n] = From[s]
  BY <1>1, <1>2, <1>3, FirstIsOne
<1>5. OrderAt(C, t, From, Depth, n, s)
  BY DEF Ranked
<1>6. QED BY <1>4, <1>5 DEF OrderAt

\* A node new for check pos of instruction k is attached to t, which makes u.
Attached(C, k, pos, t, u, Live, From, Depth) ==
    LET new == Len(t) + 1 IN
    /\ Len(u) = new /\ u[new] = Node(C[k][pos])
    /\ \A n \in 1..Len(t) :
          u[n].id = t[n].id /\ u[n].value = t[n].value /\ u[n].found = t[n].found
    /\ \A n \in Live :
          /\ u[n].next = t[n].next \/ (t[n].next = 0 /\ u[n].next = new)
          /\ u[n].next = new =>
                Depth[n] = pos /\ Alike(C, From[n], k, pos - 1)
          /\ u[n].subcheck = t[n].subcheck \/ (t[n].subcheck = 0 /\ u[n].subcheck = new)
          /\ u[n].subcheck = new /\ t[n].found = 0 =>
                Depth[n] + 1 = pos /\ Alike(C, From[n], k, Depth[n])

\* No list before that of k begins with the checks of the new node, no node stands
\* for them, and it is attached behind its last sibling and below its parent.
Fresh(C, k, pos, t, u, Live, From, Depth) ==
    /\ IsFirst(C, k, pos)
    /\ \A s \in Live : ~(Depth[s] = pos /\ Alike(C, From[s], k, pos))
    /\ \A n \in Live :
          /\ Depth[n] = pos /\ Alike(C, From[n], k, pos - 1) /\ From[n] < k => u[n].next # 0
          /\ Depth[n] + 1 = pos /\ Alike(C, From[n], k, Depth[n]) /\ t[n].found = 0 =>
                u[n].subcheck # 0

Extends(Live, From, Depth, new, k, pos, Live2, From2, Depth2) ==
    /\ Live2 = Live \cup {new}
    /\ \A n \in Live : From2[n] = From[n] /\ Depth2[n] = Depth[n]
    /\ From2[new] = k /\ Depth2[new] = pos

\* What is open stays open, and the new node opens nothing for an earlier list.
LEMMA OpenGrows ==
    ASSUME NEW C, NEW N, Finite(C, N), NEW k \in 1..N, NEW pos \in 1..Len(C[k]),
           NEW t, NEW u, NEW Live, NEW From, NEW Depth, NEW Live2, NEW From2, NEW Depth2,
           Ranked(C, N, k, t, Live, From, Depth),
           Attached(C, k, pos, t, u, Live, From, Depth),
           Extends(Live, From, Depth, Len(t) + 1, k, pos, Live2, From2, Depth2),
           NEW y, NEW p
    PROVE  /\ Open(C, t, Live, From, Depth, y, p) => Open(C, u, Live2, From2, Depth2, y, p)
           /\ Filed(C, Live, From, Depth, y, p) => Filed(C, Live2, From2, Depth2, y, p)
           /\ y \in 1..k - 1 /\ IsFirst(C, k, pos) /\ Open(C, u, Live2, From2, Depth2, y, p) =>
                 Open(C, t, Live, From, Depth, y, p)
<1>1. \A n \in Live : /\ n \in Live2 /\ From2[n] = From[n] /\ Depth2[n] = Depth[n]
                      /\ u[n].found = t[n].found
  <2>1. \A n \in Live : n \in 1..Len(t)
    BY LiveIs
  <2> QED BY <2>1 DEF Extends, Attached
<1>2. Open(C, t, Live, From, Depth, y, p) => Open(C, u, Live2, From2, Depth2, y, p)
  BY <1>1 DEF Open, OpenAt
<1>3. Filed(C, Live, From, Depth, y, p) => Filed(C, Live2, From2, Depth2, y, p)
  BY <1>1 DEF Filed
<1>4. ASSUME y \in 1..k - 1, IsFirst(C, k, pos), Open(C, u, Live2, From2, Depth2, y, p)
      PROVE  Open(C, t, Live, From, Depth, y, p)
  <2>1. CASE p = 0
    BY <2>1 DEF Open
  <2>2. CASE p # 0
    <3>1. PICK x \in Live2 : Depth2[x] = p /\ Alike(C, From2[x], y, p) /\ u[x].found = 0
      BY <1>4, <2>2 DEF Open, OpenAt
    <3>2. x # Len(t) + 1
      <4> SUFFICES ASSUME x = Len(t) + 1 PROVE FALSE
        OBVIOUS
      <4>1. Alike(C, k, y, pos)
        BY <3>1 DEF Extends
      <4>2. Alike(C, y, k, pos)
        BY <4>1, AlikeBack
      <4> QED BY <4>2, <1>4 DEF IsFirst
    <3>3. x \in Live
      BY <3>1, <3>2 DEF Extends
    <3>4. Depth[x] = p /\ Alike(C, From[x], y, p) /\ t[x].found = 0
      BY <1>1, <3>1, <3>3
    <3> QED BY <3>3, <3>4 DEF Open, OpenAt
  <2> QED BY <2>1, <2>2
<1>5. QED BY <1>2, <1>3, <1>4

LEMMA RankedGrows ==
    ASSUME NEW C, NEW N, Finite(C, N), NEW k \in 1..N, NEW pos \in 1..Len(C[k]),
           NEW t, Len(t) \in Nat \ {0}, NEW u, NEW Live, NEW From, NEW Depth,
           NEW Live2, NEW From2, NEW Depth2,
           Ranked(C, N, k, t, Live, From, Depth),
           Attached(C, k, pos, t, u, Live, From, Depth),
           Fresh(C, k, pos, t, u, Live, From, Depth),
           Open(C, t, Live, From, Depth, k, pos - 1),
           Extends(Live, From, Depth, Len(t) + 1, k, pos, Live2, From2, Depth2)
    PROVE  Ranked(C, N, k, u, Live2, From2, Depth2)
<1> DEFINE new == Len(t) + 1
<1>1. /\ new \in Live2 /\ From2[new] = k /\ Depth2[new] = pos
      /\ \A n \in Live2 : n \in Live \/ n = new
  BY DEF Extends
<1>2. /\ u[new].id = C[k][pos].id /\ u[new].value = C[k][pos].value
      /\ u[new].found = 0 /\ u[new].subcheck = 0 /\ u[new].next = 0
  BY NodeFields DEF Attached
<1>3. ASSUME NEW n \in Live
      PROVE  /\ n \in Live2 /\ From2[n] = From[n] /\ Depth2[n] = Depth[n]
             /\ n \in 1..Len(t) /\ n # new /\ n \in 1..new
             /\ u[n].id = t[n].id /\ u[n].value = t[n].value /\ u[n].found = t[n].found
             /\ u[n].next = t[n].next \/ (t[n].next = 0 /\ u[n].next = new)
             /\ u[n].subcheck = t[n].subcheck \/ (t[n].subcheck = 0 /\ u[n].subcheck = new)
  <2>1. n \in 1..Len(t)
    BY LiveIs
  <2>2. n \in 1..new /\ n # new
    BY <2>1
  <2> QED BY <2>1, <2>2 DEF Extends, Attached
<1>4. /\ Len(u) = new /\ new # 0 /\ new \in 1..new
      /\ k \in Nat /\ pos \in Nat /\ pos # 0 /\ pos - 1 \in Nat /\ Len(C[k]) \in Nat
      /\ pos \in 0..Len(C[k]) /\ N \in Nat
  BY DEF Attached, Finite
<1>5. Alike(C, k, k, pos)
  BY <1>4, AlikeSelf
<1> HIDE DEF new
<1>6. ASSUME NEW y, NEW p, Open(C, t, Live, From, Depth, y, p)
      PROVE  Open(C, u, Live2, From2, Depth2, y, p)
  BY <1>6, OpenGrows
<1>7. 1 \in Live2 /\ From2[1] = 1 /\ Depth2[1] = 1
  <2>1. 1 \in Live /\ From[1] = 1 /\ Depth[1] = 1
    BY DEF Ranked
  <2> QED BY <2>1, <1>3
<1>8. ASSUME NEW n \in Live2 PROVE KnownAt(C, N, k, u, From2, Depth2, n)
  <2>1. CASE n \in Live
    <3>1. KnownAt(C, N, k, t, From, Depth, n)
      BY <2>1 DEF Ranked
    <3> QED BY <2>1, <3>1, <1>3, <1>4 DEF KnownAt, SameAs
  <2>2. CASE n = new
    <3>1. SameAs(u, n, C[k][pos])
      BY <1>2, <2>2 DEF SameAs
    <3>2. IsFirst(C, k, pos) /\ k <= k
      BY <1>4 DEF Fresh
    <3> QED BY <1>1, <1>4, <2>2, <3>1, <3>2 DEF KnownAt
  <2> QED BY <1>1, <2>1, <2>2
<1>9. ASSUME NEW n \in Live2 PROVE LeadsAt(C, k, u, Live2, From2, Depth2, n)
  <2>1. CASE n = new
    BY <1>2, <2>1 DEF LeadsAt
  <2>2. CASE n \in Live
    <3>1. LeadsAt(C, k, t, Live, From, Depth, n)
      BY <2>2 DEF Ranked
    <3>2. ASSUME u[n].next # 0
          PROVE  u[n].next \in Live2 /\ Siblings(C, From2, Depth2, n, u[n].next)
      <4>1. CASE u[n].next = new
        <5>1. Depth[n] = pos /\ Alike(C, From[n], k, pos - 1)
          BY <2>2, <4>1 DEF Attached, new
        <5> QED BY <1>1, <1>3, <2>2, <4>1, <5>1 DEF Siblings
      <4>2. CASE u[n].next # new
        <5> DEFINE z == t[n].next
        <5>1. u[n].next = z /\ z # 0
          BY <1>3, <2>2, <3>2, <4>2
        <5>2. z \in Live /\ Siblings(C, From, Depth, n, z)
          BY <3>1, <5>1 DEF LeadsAt
        <5> HIDE DEF z
        <5> QED BY <1>3, <2>2, <5>1, <5>2 DEF Siblings
      <4> QED BY <4>1, <4>2
    <3>3. ASSUME u[n].found = 0, u[n].subcheck # 0
          PROVE  u[n].subcheck \in Live2 /\ Child(C, From2, Depth2, n, u[n].subcheck)
      <4>0. t[n].found = 0
        BY <1>3, <2>2, <3>3
      <4>1. CASE u[n].subcheck = new
        <5>1. Depth[n] + 1 = pos /\ Alike(C, From[n], k, Depth[n])
          BY <2>2, <4>0, <4>1 DEF Attached, new
        <5> QED BY <1>1, <1>3, <2>2, <4>1, <5>1 DEF Child
      <4>2. CASE u[n].subcheck # new
        <5> DEFINE z == t[n].subcheck
        <5>1. u[n].subcheck = z /\ z # 0
          BY <1>3, <2>2, <3>3, <4>2
        <5>2. z \in Live /\ Child(C, From, Depth, n, z)
          BY <3>1, <4>0, <5>1 DEF LeadsAt
        <5> HIDE DEF z
        <5> QED BY <1>3, <2>2, <5>1, <5>2 DEF Child
      <4> QED BY <4>1, <4>2
    <3>4. u[n].found # 0 =>
            /\ u[n].found \in 1..k - 1 /\ Len(C[u[n].found]) = Depth2[n]
            /\ Alike(C, u[n].found, From2[n], Depth2[n])
      BY <1>3, <2>2, <3>1 DEF LeadsAt
    <3> QED BY <3>2, <3>3, <3>4 DEF LeadsAt
  <2> QED BY <1>1, <2>1, <2>2
<1>10. ASSUME NEW n \in Live2
       PROVE  Open(C, u, Live2, From2, Depth2, From2[n], Depth2[n] - 1)
  <2>1. CASE n = new
    BY <1>1, <1>6, <2>1
  <2>2. CASE n \in Live
    <3>1. Open(C, t, Live, From, Depth, From[n], Depth[n] - 1)
      BY <2>2 DEF Ranked
    <3>2. Open(C, u, Live2, From2, Depth2, From[n], Depth[n] - 1)
      BY <1>6, <3>1
    <3> QED BY <1>3, <2>2, <3>2
  <2> QED BY <1>1, <2>1, <2>2
<1>11. ASSUME NEW n \in Live2, NEW s \in Live2 PROVE OrderAt(C, u, From2, Depth2, n, s)
  <2> DEFINE First  == From2[n] = From2[s] /\ Depth2[n] = Depth2[s] => n = s
             Below  == u[n].found = 0 /\ Child(C, From2, Depth2, n, s) =>
                          u[n].subcheck # 0 /\ From2[u[n].subcheck] <= From2[s]
             Behind == Siblings(C, From2, Depth2, n, s) /\ From2[n] < From2[s] =>
                          u[n].next # 0 /\ From2[u[n].next] <= From2[s]
  <2>1. CASE n \in Live /\ s \in Live
    <3>1. OrderAt(C, t, From, Depth, n, s) /\ LeadsAt(C, k, t, Live, From, Depth, n)
      BY <2>1 DEF Ranked
    <3>2. First
      BY <1>3, <2>1, <3>1 DEF OrderAt
    <3>3. Below
      <4> SUFFICES ASSUME u[n].found = 0, Child(C, From2, Depth2, n, s)
                   PROVE  u[n].subcheck # 0 /\ From2[u[n].subcheck] <= From2[s]
        OBVIOUS
      <4> DEFINE z == t[n].subcheck
      <4>1. t[n].found = 0 /\ Child(C, From, Depth, n, s)
        BY <1>3, <2>1 DEF Child
      <4>2. z # 0 /\ From[z] <= From[s] /\ z \in Live
        BY <3>1, <4>1 DEF OrderAt, LeadsAt
      <4>3. u[n].subcheck = z
        BY <1>3, <2>1, <4>2
      <4> HIDE DEF z
      <4> QED BY <1>3, <2>1, <4>2, <4>3
    <3>4. Behind
      <4> SUFFICES ASSUME Siblings(C, From2, Depth2, n, s), From2[n] < From2[s]
                   PROVE  u[n].next # 0 /\ From2[u[n].next] <= From2[s]
        OBVIOUS
      <4> DEFINE z == t[n].next
      <4>1. Siblings(C, From, Depth, n, s) /\ From[n] < From[s]
        BY <1>3, <2>1 DEF Siblings
      <4>2. z # 0 /\ From[z] <= From[s] /\ z \in Live
        BY <3>1, <4>1 DEF OrderAt, LeadsAt
      <4>3. u[n].next = z
        BY <1>3, <2>1, <4>2
      <4> HIDE DEF z
      <4> QED BY <1>3, <2>1, <4>2, <4>3
    <3> QED BY <3>2, <3>3, <3>4 DEF OrderAt
  <2>2. CASE n \in Live /\ s = new
    <3>1. LeadsAt(C, k, t, Live, From, Depth, n)
      BY <2>2 DEF Ranked
    <3>2. /\ From2[n] = From[n] /\ Depth2[n] = Depth[n] /\ From2[s] = k /\ Depth2[s] = pos
          /\ Depth[n] \in Nat /\ u[n].found = t[n].found
      BY <1>1, <1>3, <2>2, LiveIs
    <3>3. First
      <4>1. ~(Depth[n] = pos /\ Alike(C, From[n], k, pos))
        BY <2>2 DEF Fresh
      <4> QED BY <1>5, <3>2, <4>1
    <3>4. Below
      <4> SUFFICES ASSUME u[n].found = 0, Child(C, From2, Depth2, n, s)
                   PROVE  u[n].subcheck # 0 /\ From2[u[n].subcheck] <= From2[s]
        OBVIOUS
      <4>1. Depth[n] + 1 = pos /\ Alike(C, From[n], k, Depth[n]) /\ t[n].found = 0
        BY <3>2 DEF Child
      <4>2. u[n].subcheck # 0
        BY <2>2, <4>1 DEF Fresh
      <4>3. CASE u[n].subcheck = new
        BY <1>1, <1>4, <3>2, <4>2, <4>3
      <4>4. CASE u[n].subcheck # new
        <5> DEFINE z == t[n].subcheck
        <5>1. u[n].subcheck = z /\ z # 0
          BY <1>3, <2>2, <4>2, <4>4
        <5>2. z \in Live
          BY <3>1, <4>1, <5>1 DEF LeadsAt
        <5> HIDE DEF z
        <5>3. From[z] <= k
          BY <5>2, LiveIs
        <5> QED BY <1>3, <3>2, <5>1, <5>2, <5>3
      <4> QED BY <4>3, <4>4
    <3>5. Behind
      <4> SUFFICES ASSUME Siblings(C, From2, Depth2, n, s), From2[n] < From2[s]
                   PROVE  u[n].next # 0 /\ From2[u[n].next] <= From2[s]
        OBVIOUS
      <4>1. Depth[n] = pos /\ Alike(C, From[n], k, pos - 1) /\ From[n] < k
        BY <3>2 DEF Siblings
      <4>2. u[n].next # 0
        BY <2>2, <4>1 DEF Fresh
      <4>3. CASE u[n].next = new
        BY <1>1, <1>4, <3>2, <4>2, <4>3
      <4>4. CASE u[n].next # new
        <5> DEFINE z == t[n].next
        <5>1. u[n].next = z /\ z # 0
          BY <1>3, <2>2, <4>2, <4>4
        <5>2. z \in Live
          BY <3>1, <5>1 DEF LeadsAt
        <5> HIDE DEF z
        <5>3. From[z] <= k
          BY <5>2, LiveIs
        <5> QED BY <1>3, <3>2, <5>1, <5>2, <5>3
      <4> QED BY <4>3, <4>4
    <3> QED BY <3>3, <3>4, <3>5 DEF OrderAt
  <2>3. CASE n = new /\ s \in Live
    <3>1. /\ From2[s] = From[s] /\ Depth2[s] = Depth[s] /\ From2[n] = k /\ Depth2[n] = pos
          /\ From[s] \in 1..N /\ From[s] \in Nat /\ From[s] <= k
      BY <1>1, <1>3, <2>3, LiveIs
    <3>2. First
      <4>1. ~(Depth[s] = pos /\ Alike(C, From[s], k, pos))
        BY <2>3 DEF Fresh
      <4> QED BY <1>5, <3>1, <4>1
    <3>3. ~Child(C, From2, Depth2, n, s)
      <4> SUFFICES ASSUME Child(C, From2, Depth2, n, s) PROVE FALSE
        OBVIOUS
      <4>1. Depth[s] = pos + 1 /\ Alike(C, k, From[s], pos)
        BY <3>1 DEF Child
      <4>2. Open(C, t, Live, From, Depth, From[s], Depth[s] - 1)
        BY <2>3 DEF Ranked
      <4>3. Depth[s] - 1 = pos
        BY <1>4, <4>1
      <4>4. PICK x \in Live : Depth[x] = pos /\ Alike(C, From[x], From[s], pos)
        BY <1>4, <4>2, <4>3 DEF Open, OpenAt
      <4>5. Alike(C, From[x], k, pos)
        BY <4>1, <4>4, AlikeBack, AlikeOn
      <4> QED BY <4>4, <4>5 DEF Fresh
    <3>4. ~(From2[n] < From2[s])
      BY <1>4, <3>1
    <3> QED BY <3>2, <3>3, <3>4 DEF OrderAt
  <2>4. CASE n = new /\ s = new
    <3>1. ~Child(C, From2, Depth2, n, s) /\ ~(From2[n] < From2[s])
      BY <1>1, <1>4, <2>4 DEF Child
    <3> QED BY <2>4, <3>1 DEF OrderAt
  <2> QED BY <1>1, <2>1, <2>2, <2>3, <2>4
<1>12. ASSUME NEW y \in 1..k - 1 PROVE AddedAt(C, u, Live2, From2, Depth2, y)
  <2>1. AddedAt(C, t, Live, From, Depth, y)
    BY DEF Ranked
  <2>2. IsFirst(C, k, pos)
    BY DEF Fresh
  <2>3. ASSUME NEW p \in 1..Len(C[y]), Open(C, u, Live2, From2, Depth2, y, p - 1)
        PROVE  Filed(C, Live2, From2, Depth2, y, p)
    <3>1. Open(C, t, Live, From, Depth, y, p - 1)
      BY <2>2, <2>3, OpenGrows
    <3>2. Filed(C, Live, From, Depth, y, p)
      BY <2>1, <3>1 DEF AddedAt
    <3> QED BY <3>2, OpenGrows
  <2>4. ASSUME NEW n \in Live2, Len(C[y]) = Depth2[n], Alike(C, From2[n], y, Depth2[n])
        PROVE  u[n].found # 0
    <3>1. CASE n = new
      <4>1. Alike(C, y, k, pos)
        BY <1>1, <2>4, <3>1, AlikeBack
      <4> QED BY <2>2, <4>1 DEF IsFirst
    <3>2. CASE n \in Live
      BY <1>3, <2>1, <2>4, <3>2 DEF AddedAt
    <3> QED BY <1>1, <3>1, <3>2
  <2> QED BY <2>1, <2>3, <2>4 DEF AddedAt
<1>13. QED BY <1>7, <1>8, <1>9, <1>10, <1>11, <1>12 DEF Ranked

\* Of the lists that begin with the first p checks of k's there is a first.
LEMMA FirstExists ==
    ASSUME NEW C, NEW N, Finite(C, N), NEW k \in 1..N, NEW p \in 0..Len(C[k])
    PROVE  \E f \in 1..k : Alike(C, f, k, p) /\ IsFirst(C, f, p)
<1> DEFINE T == {y \in 1..k : Alike(C, y, k, p)}
<1>1. k \in T
  BY AlikeSelf
<1>2. T \subseteq Nat /\ T # {}
  BY <1>1
<1>3. PICK f \in T : \A y \in T : f <= y
  <2> HIDE DEF T
  <2> QED BY <1>2, LeastNat
<1>4. f \in 1..k /\ Alike(C, f, k, p)
  OBVIOUS
<1>5. ASSUME NEW y \in 1..f - 1, Alike(C, y, f, p) PROVE FALSE
  <2>1. Alike(C, y, k, p) /\ y \in 1..k /\ ~(f <= y)
    BY <1>4, <1>5, AlikeOn
  <2> QED BY <1>3, <2>1
<1>6. QED BY <1>4, <1>5 DEF IsFirst

LEMMA OpenAlike ==
    ASSUME NEW C, NEW t, NEW Live, NEW From, NEW Depth, NEW y, NEW z, NEW p,
           Open(C, t, Live, From, Depth, y, p), Alike(C, y, z, p)
    PROVE  Open(C, t, Live, From, Depth, z, p)
BY AlikeOn DEF Open, OpenAt

\* The node for the checks of a list that was added, if none before has them.
LEMMA FiledFirst ==
    ASSUME NEW C, NEW N, Finite(C, N), NEW k, k \in 1..N + 1,
           NEW t, NEW Live, NEW From, NEW Depth, Ranked(C, N, k, t, Live, From, Depth),
           NEW f \in 1..k - 1, NEW p \in 1..Len(C[f]), IsFirst(C, f, p),
           Open(C, t, Live, From, Depth, f, p - 1)
    PROVE  \E s \in Live : Depth[s] = p /\ From[s] = f
<1>1. PICK s \in Live : Depth[s] = p /\ Alike(C, From[s], f, p)
  BY DEF Ranked, AddedAt, Filed
<1>2. From[s] \in 1..N /\ IsFirst(C, From[s], p)
  BY <1>1, LiveIs
<1>3. f \in 1..N /\ N \in Nat
  BY DEF Finite
<1>4. From[s] = f
  BY <1>1, <1>2, <1>3, FirstIsOne
<1>5. QED BY <1>1, <1>4

\* Where the checks of k's list go on from a live node that is no end and has
\* no child for them, or from a sibling that has none behind it, no list before
\* has them.
LEMMA NoneBefore ==
    ASSUME NEW C, NEW N, Finite(C, N), NEW k \in 1..N, NEW pos \in 1..Len(C[k]),
           NEW t, NEW Live, NEW From, NEW Depth, Ranked(C, N, k, t, Live, From, Depth),
           Open(C, t, Live, From, Depth, k, pos - 1)
    PROVE  \E f \in 1..k :
              /\ Alike(C, f, k, pos) /\ IsFirst(C, f, pos)
              /\ f = k \/ \E s \in Live : Depth[s] = pos /\ From[s] = f
<1>1. Len(C[k]) \in Nat /\ pos \in Nat /\ pos - 1 \in Nat /\ pos - 1 <= pos
      /\ pos \in 0..Len(C[k]) /\ N \in Nat
  BY DEF Finite
<1>2. PICK f \in 1..k : Alike(C, f, k, pos) /\ IsFirst(C, f, pos)
  BY <1>1, FirstExists
<1>3. CASE f # k
  <2>1. f \in 1..k - 1 /\ f \in 1..N /\ k \in 1..N + 1
    BY <1>1, <1>3
  <2>2. Alike(C, f, k, pos - 1)
    BY <1>1, <1>2, <2>1, AlikeLess
  <2>3. Alike(C, k, f, pos - 1)
    BY <2>2, AlikeBack
  <2>4. Open(C, t, Live, From, Depth, f, pos - 1)
    BY <2>3, OpenAlike
  <2>5. pos \in 1..Len(C[f])
    <3>1. Len(C[f]) \in Nat /\ pos <= Len(C[f])
      BY <1>2, <2>1 DEF Alike, Finite
    <3> QED BY <1>1, <3>1
  <2>6. \E s \in Live : Depth[s] = pos /\ From[s] = f
    BY <1>2, <2>1, <2>4, <2>5, FiledFirst
  <2> QED BY <1>2, <2>6
<1>4. CASE f = k
  BY <1>2, <1>4
<1>5. QED BY <1>3, <1>4

\* AddToDecoder at a node whose check is another: a later sibling, at a list not
\* after the first one with the checks looked for, or none, and none has them.
LEMMA PastFinds ==
    ASSUME NEW C, NEW N, Finite(C, N), NEW q, NEW Live, NEW From, NEW Depth,
           Ranked(C, N, q.i, q.tree, Live, From, Depth),
           Standing(C, N, q, Live, From, Depth), q.l # 0,
           ~SameAs(q.tree, q.d, C[q.i][q.l])
    PROVE  /\ Open(C, q.tree, Live, From, Depth, q.i, q.l - 1)
           /\ From[q.d] < q.i
           /\ \E f \in 1..q.i :
                 /\ Alike(C, f, q.i, q.l) /\ IsFirst(C, f, q.l)
                 /\ f = q.i \/ (q.tree[q.d].next # 0 /\ From[q.tree[q.d].next] <= f)
<1> DEFINE t == q.tree
           dd == q.d
           k == q.i
           pos == q.l
<1>1. /\ k \in 1..N /\ pos \in 1..Len(C[k]) /\ dd \in Live /\ Depth[dd] = pos
      /\ Alike(C, From[dd], k, pos - 1)
      /\ \A y \in 1..From[dd] - 1 : ~Alike(C, y, k, pos)
      /\ \A p \in 1..pos - 1 : Open(C, t, Live, From, Depth, k, p)
      /\ ~SameAs(t, dd, C[k][pos]) /\ Ranked(C, N, k, t, Live, From, Depth)
  BY DEF Standing
<1> HIDE DEF t, dd, k, pos
<1>2. /\ N \in Nat /\ k \in Nat /\ pos \in Nat /\ pos # 0 /\ Len(C[k]) \in Nat
      /\ pos - 1 \in Nat /\ (pos - 1 = 0 \/ pos - 1 \in 1..pos - 1)
  BY <1>1 DEF Finite
<1>3. Open(C, t, Live, From, Depth, k, pos - 1)
  BY <1>1, <1>2 DEF Open
<1>4. /\ From[dd] \in 1..N /\ From[dd] \in Nat /\ From[dd] <= k
      /\ SameAs(t, dd, C[From[dd]][pos])
  BY <1>1, LiveIs
<1>5. From[dd] # k
  BY <1>1, <1>4
<1>6. From[dd] < k
  BY <1>2, <1>4, <1>5
<1>7. PICK f \in 1..k : /\ Alike(C, f, k, pos) /\ IsFirst(C, f, pos)
                        /\ f = k \/ \E s \in Live : Depth[s] = pos /\ From[s] = f
  BY <1>1, <1>3, NoneBefore
<1>8. ASSUME f # k PROVE t[dd].next # 0 /\ From[t[dd].next] <= f
  <2>1. PICK s \in Live : Depth[s] = pos /\ From[s] = f
    BY <1>7, <1>8
  <2>2. f \in 1..N /\ f \in Nat
    BY <1>1, <1>2
  <2>3. f # From[dd]
    <3>1. C[f][pos] = C[k][pos]
      BY <1>2, <1>7 DEF Alike
    <3> QED BY <1>1, <1>4, <3>1
  <2>4. ~(f < From[dd])
    <3>1. f < From[dd] => f \in 1..From[dd] - 1
      BY <1>4, <2>2
    <3> QED BY <1>1, <1>7, <3>1
  <2>5. From[dd] < From[s]
    BY <1>4, <2>1, <2>2, <2>3, <2>4
  <2>6. Siblings(C, From, Depth, dd, s)
    <3>1. Alike(C, f, k, pos - 1)
      BY <1>1, <1>2, <1>7, <2>2, AlikeLess
    <3>2. Alike(C, From[dd], f, pos - 1)
      BY <1>1, <3>1, AlikeBack, AlikeOn
    <3> QED BY <1>1, <2>1, <3>2 DEF Siblings
  <2>7. OrderAt(C, t, From, Depth, dd, s)
    BY <1>1 DEF Ranked
  <2> QED BY <2>1, <2>5, <2>6, <2>7 DEF OrderAt
<1>9. \E g \in 1..k : /\ Alike(C, g, k, pos) /\ IsFirst(C, g, pos)
                      /\ g = k \/ (t[dd].next # 0 /\ From[t[dd].next] <= g)
  BY <1>7, <1>8
<1>10. QED BY <1>3, <1>6, <1>9 DEF t, dd, k, pos

\* To the next sibling.
LEMMA PastInOrder ==
    ASSUME NEW C, NEW N, Finite(C, N), NEW q, q.tree \in Seq(NodeSet),
           q.l # 0 => C[q.i][q.l] \in [id : IdSet, value : Nat],
           NEW Live, NEW From, NEW Depth,
           Ranked(C, N, q.i, q.tree, Live, From, Depth),
           Standing(C, N, q, Live, From, Depth), q.l # 0,
           ~SameAs(q.tree, q.d, C[q.i][q.l])
    PROVE  InOrder(C, N, Step(PastTree(q.tree, q.d, C[q.i][q.l]), q.i, q.l,
                              To(q.tree[q.d].next, q.tree)))
<1> DEFINE t == q.tree
           dd == q.d
           k == q.i
           pos == q.l
           check == C[k][pos]
           u == PastTree(t, dd, check)
           z == To(t[dd].next, t)
           q2 == Step(u, k, pos, z)
<1>1. /\ k \in 1..N + 1 /\ k \in 1..N /\ pos \in 1..Len(C[k]) /\ dd \in Live /\ Depth[dd] = pos
      /\ Alike(C, From[dd], k, pos - 1) /\ pos # 0
      /\ \A p \in 1..pos - 1 : Open(C, t, Live, From, Depth, k, p)
      /\ ~SameAs(t, dd, check) /\ Ranked(C, N, k, t, Live, From, Depth)
      /\ t \in Seq(NodeSet) /\ check \in [id : IdSet, value : Nat]
  BY DEF Standing
<1>2. /\ Open(C, t, Live, From, Depth, k, pos - 1) /\ From[dd] < k
      /\ \E f \in 1..k : /\ Alike(C, f, k, pos) /\ IsFirst(C, f, pos)
                         /\ f = k \/ (t[dd].next # 0 /\ From[t[dd].next] <= f)
  BY PastFinds
<1>3. q2.tree = u /\ q2.i = k /\ q2.l = pos /\ q2.d = z
  BY DEF Step
<1> HIDE DEF q2, u, z, check, t, dd, k, pos
<1>4. /\ N \in Nat /\ k \in Nat /\ pos \in Nat /\ Len(C[k]) \in Nat /\ pos - 1 \in Nat
      /\ pos - 1 <= pos /\ pos \in 0..Len(C[k])
  BY <1>1 DEF Finite
<1>5. dd \in 1..Len(t) /\ From[dd] \in 1..N /\ From[dd] \in Nat /\ Len(t) \in Nat \ {0}
  <2>1. dd \in 1..Len(t) /\ From[dd] \in 1..N /\ From[dd] \in Nat
    BY <1>1, LiveIs
  <2> QED BY <2>1, <1>1
<1>6. LeadsAt(C, k, t, Live, From, Depth, dd)
  BY <1>1 DEF Ranked
<1>7. CASE t[dd].next # 0
  <2>1. u = t /\ z = t[dd].next
    BY <1>7 DEF u, z, PastTree, To
  <2>2. z \in Live /\ Depth[z] = pos /\ Alike(C, From[dd], From[z], pos - 1)
    BY <1>1, <1>6, <1>7, <2>1 DEF LeadsAt, Siblings
  <2>3. Alike(C, From[z], k, pos - 1)
    BY <1>1, <2>2, AlikeBack, AlikeOn
  <2>4. From[z] \in 1..N /\ From[z] \in Nat /\ From[z] <= k
    BY <1>1, <2>2, LiveIs
  <2>5. ASSUME NEW y \in 1..From[z] - 1, Alike(C, y, k, pos) PROVE FALSE
    <3>1. PICK f \in 1..k : /\ Alike(C, f, k, pos) /\ IsFirst(C, f, pos)
                            /\ f = k \/ From[z] <= f
      BY <1>2, <2>1
    <3>2. y < f /\ y \in 1..f - 1
      BY <1>4, <2>4, <3>1
    <3>3. Alike(C, y, f, pos)
      BY <2>5, <3>1, AlikeBack, AlikeOn
    <3> QED BY <3>1, <3>2, <3>3 DEF IsFirst
  <2>6. Standing(C, N, q2, Live, From, Depth)
    BY <1>1, <1>3, <2>1, <2>2, <2>3, <2>5 DEF Standing
  <2>7. InOrder(C, N, q2)
    BY <1>1, <1>3, <2>1, <2>6 DEF InOrder
  <2> QED BY <2>7 DEF q2, u, z, check, t, dd, k, pos
<1>8. CASE t[dd].next = 0
  <2> DEFINE new == Len(t) + 1
             r == [t[dd] EXCEPT !.next = new]
             Live2 == Live \cup {new}
             From2 == [n \in Live2 |-> IF n = new THEN k ELSE From[n]]
             Depth2 == [n \in Live2 |-> IF n = new THEN pos ELSE Depth[n]]
  <2>1. z = new
    BY <1>8 DEF z, To
  <2>2. Grown(t, dd, r, <<Node(check)>>, u)
    BY <1>8, <1>1, <1>5, PastGrows DEF u
  <2>3. t[dd] \in NodeSet
    BY <1>1, <1>5
  <2>4. /\ r.next = new /\ r.id = t[dd].id /\ r.value = t[dd].value
        /\ r.found = t[dd].found /\ r.subcheck = t[dd].subcheck
    BY <2>3 DEF NodeSet
  <2>5. SameCheck(t, dd, r)
    BY <2>4 DEF SameCheck
  <2>6. u[dd] = r /\ (\A n \in 1..Len(t) : n # dd => u[n] = t[n])
    BY <2>2 DEF Grown
  <2>7. new \in 1..Len(u) /\ Len(u) = new /\ u[new] = Node(check)
    <3> HIDE DEF r
    <3> QED BY <1>1, <1>5, <2>2, <2>5, Appended
  <2>8. ASSUME NEW n \in Live PROVE n \in 1..Len(t) /\ n # new
    <3>1. n \in 1..Len(t)
      BY <1>1, LiveIs
    <3> QED BY <3>1, <1>5
  <2>9. Extends(Live, From, Depth, new, k, pos, Live2, From2, Depth2)
    <3> HIDE DEF new
    <3> QED BY <2>8 DEF Extends
  <2> HIDE DEF r, Live2, From2, Depth2
  <2>10. PICK f \in 1..k : Alike(C, f, k, pos) /\ IsFirst(C, f, pos) /\ f = k
    BY <1>2, <1>8
  <2>11. ASSUME NEW n \in Live
         PROVE  /\ u[n].id = t[n].id /\ u[n].value = t[n].value /\ u[n].found = t[n].found
                /\ u[n].subcheck = t[n].subcheck
                /\ u[n].next = IF n = dd THEN new ELSE t[n].next
    BY <2>4, <2>6, <2>8
  <2>12. ASSUME NEW n \in Live
         PROVE  /\ t[n].next \in Nat /\ t[n].next # new
                /\ t[n].subcheck # new \/ t[n].found # 0
    <3>1. t[n] \in NodeSet
      BY <1>1, <2>8
    <3>2. LeadsAt(C, k, t, Live, From, Depth, n)
      BY <1>1 DEF Ranked
    <3>3. new # 0 /\ new \notin Live
      BY <1>5, <2>8
    <3>4. t[n].next \in Nat /\ t[n].next # new
      BY <3>1, <3>2, <3>3 DEF NodeSet, LeadsAt
    <3>5. t[n].subcheck # new \/ t[n].found # 0
      BY <3>2, <3>3 DEF LeadsAt
    <3> QED BY <3>4, <3>5
  <2>13. Attached(C, k, pos, t, u, Live, From, Depth)
    <3>1. \A n \in 1..Len(t) :
              u[n].id = t[n].id /\ u[n].value = t[n].value /\ u[n].found = t[n].found
      BY <2>4, <2>6
    <3>2. \A n \in Live :
              /\ u[n].next = t[n].next \/ (t[n].next = 0 /\ u[n].next = new)
              /\ u[n].next = new => Depth[n] = pos /\ Alike(C, From[n], k, pos - 1)
              /\ u[n].subcheck = t[n].subcheck
              /\ u[n].subcheck = new /\ t[n].found = 0 => FALSE
      BY <1>1, <1>8, <2>11, <2>12
    <3> QED BY <2>7, <3>1, <3>2 DEF Attached, check
  <2>14. ASSUME NEW s \in Live, Depth[s] = pos, Alike(C, From[s], k, pos - 1), From[s] # From[dd]
         PROVE  From[s] < From[dd]
    <3>1. From[s] \in Nat
      BY <1>1, LiveIs
    <3>2. Alike(C, From[dd], From[s], pos - 1)
      BY <1>1, <2>14, AlikeBack, AlikeOn
    <3>3. Siblings(C, From, Depth, dd, s)
      BY <1>1, <2>14, <3>2 DEF Siblings
    <3>4. OrderAt(C, t, From, Depth, dd, s)
      BY <1>1 DEF Ranked
    <3>5. ~(From[dd] < From[s])
      BY <1>8, <3>3, <3>4 DEF OrderAt
    <3> QED BY <1>5, <2>14, <3>1, <3>5
  <2>15. ASSUME NEW s \in Live, Depth[s] = pos, Alike(C, From[s], k, pos) PROVE FALSE
    <3>1. From[s] \in 1..N /\ From[s] \in Nat /\ From[s] <= k /\ IsFirst(C, From[s], pos)
      BY <1>1, <2>15, LiveIs
    <3>2. From[s] = k
      BY <1>1, <1>4, <2>10, <2>15, <3>1, FirstIsOne
    <3>3. Alike(C, From[s], k, pos - 1)
      BY <1>1, <1>4, <2>15, <3>1, AlikeLess
    <3>4. From[s] < From[dd]
      BY <1>2, <1>4, <1>5, <2>14, <2>15, <3>2, <3>3
    <3> QED BY <1>2, <1>4, <1>5, <3>2, <3>4
  <2>16. ASSUME NEW n \in Live, Depth[n] = pos, Alike(C, From[n], k, pos - 1), From[n] < k
         PROVE  u[n].next # 0
    <3>1. CASE n = dd
      BY <1>5, <2>11, <3>1
    <3>2. CASE n # dd
      <4>1. Alike(C, From[n], From[dd], pos - 1)
        BY <1>1, <2>16, AlikeBack, AlikeOn
      <4>2. OrderAt(C, t, From, Depth, n, dd) /\ Siblings(C, From, Depth, n, dd)
        BY <1>1, <2>16, <4>1 DEF Ranked, Siblings
      <4>3. From[n] # From[dd]
        BY <1>1, <2>16, <3>2, <4>2 DEF OrderAt
      <4>4. From[n] < From[dd]
        BY <2>14, <2>16, <4>3
      <4>5. t[n].next # 0
        BY <4>2, <4>4 DEF OrderAt
      <4> QED BY <2>11, <3>2, <4>5
    <3> QED BY <3>1, <3>2
  <2>17. ASSUME NEW n \in Live, Depth[n] + 1 = pos, Alike(C, From[n], k, Depth[n]),
                t[n].found = 0
         PROVE  u[n].subcheck # 0
    <3>1. Depth[n] \in Nat /\ Depth[n] = pos - 1
      <4>1. Depth[n] \in Nat
        BY <1>1, LiveIs
      <4> QED BY <4>1, <2>17, <1>4
    <3>2. Alike(C, From[n], From[dd], Depth[n])
      BY <1>1, <2>17, <3>1, AlikeBack, AlikeOn
    <3>3. Child(C, From, Depth, n, dd) /\ OrderAt(C, t, From, Depth, n, dd)
      BY <1>1, <2>17, <3>2 DEF Child, Ranked
    <3> QED BY <2>11, <2>17, <3>3 DEF OrderAt
  <2>18. Fresh(C, k, pos, t, u, Live, From, Depth)
    BY <2>10, <2>15, <2>16, <2>17 DEF Fresh
  <2>19. Ranked(C, N, k, u, Live2, From2, Depth2)
    BY <1>1, <1>2, <1>5, <2>9, <2>13, <2>18, RankedGrows
  <2>20. Standing(C, N, q2, Live2, From2, Depth2)
    <3>1. new \in Live2 /\ Depth2[new] = pos /\ From2[new] = k
      BY <2>9 DEF Extends
    <3>2. Alike(C, k, k, pos - 1)
      <4>1. pos - 1 \in 0..Len(C[k])
        BY <1>4
      <4> QED BY <1>1, <4>1, AlikeSelf
    <3>3. \A y \in 1..k - 1 : ~Alike(C, y, k, pos)
      BY <2>10 DEF IsFirst
    <3>4. \A p \in 1..pos - 1 : Open(C, u, Live2, From2, Depth2, k, p)
      BY <1>1, <2>9, <2>13, OpenGrows
    <3> QED BY <1>1, <1>3, <2>1, <3>1, <3>2, <3>3, <3>4 DEF Standing
  <2>21. InOrder(C, N, q2)
    BY <1>3, <2>19, <2>20 DEF InOrder
  <2> QED BY <2>21 DEF q2, u, z, check, t, dd, k, pos
<1>9. QED BY <1>7, <1>8

\* AddToDecoder at a node with its check: the first child is at a list not after
\* the first one with the checks looked for next, or there is none, and none has them.
LEMMA DownFinds ==
    ASSUME NEW C, NEW N, Finite(C, N), NEW q, NEW Live, NEW From, NEW Depth,
           Ranked(C, N, q.i, q.tree, Live, From, Depth),
           Standing(C, N, q, Live, From, Depth), q.l # 0, q.l < Len(C[q.i]),
           SameAs(q.tree, q.d, C[q.i][q.l]), q.tree[q.d].found = 0,
           C[q.i][q.l] \in [id : IdSet, value : Nat],
           \A m \in 1..N : \A p \in 1..Len(C[m]) : C[m][p] \in [id : IdSet, value : Nat]
    PROVE  /\ Alike(C, From[q.d], q.i, q.l)
           /\ OpenAt(C, q.tree, Live, From, Depth, q.i, q.l)
           /\ \E f \in 1..q.i :
                 /\ Alike(C, f, q.i, q.l + 1) /\ IsFirst(C, f, q.l + 1)
                 /\ f = q.i \/ (q.tree[q.d].subcheck # 0 /\ From[q.tree[q.d].subcheck] <= f)
<1> DEFINE t == q.tree
           dd == q.d
           k == q.i
           p == q.l
           R == [id : IdSet, value : Nat]
<1>1. /\ k \in 1..N /\ p \in 1..Len(C[k]) /\ dd \in Live /\ Depth[dd] = p
      /\ Alike(C, From[dd], k, p - 1) /\ p < Len(C[k])
      /\ SameAs(t, dd, C[k][p]) /\ Ranked(C, N, k, t, Live, From, Depth)
      /\ t[dd].found = 0 /\ C[k][p] \in R
      /\ \A m \in 1..N : \A j \in 1..Len(C[m]) : C[m][j] \in R
  BY DEF Standing
<1> HIDE DEF t, dd, k, p
<1>2. /\ N \in Nat /\ k \in Nat /\ p \in Nat /\ p # 0 /\ Len(C[k]) \in Nat /\ p <= Len(C[k])
      /\ p + 1 \in 1..Len(C[k]) /\ p \in Nat \ {0} /\ p + 1 - 1 = p /\ p + 1 \in Nat
      /\ p <= p + 1
  BY <1>1 DEF Finite
<1>3. /\ From[dd] \in 1..N /\ From[dd] \in Nat /\ From[dd] <= k
      /\ SameAs(t, dd, C[From[dd]][p]) /\ p <= Len(C[From[dd]])
  BY <1>1, LiveIs
<1>4. C[From[dd]][p] = C[k][p]
  <2>1. C[From[dd]][p] \in R
    <3>1. p \in 1..Len(C[From[dd]])
      <4>1. Len(C[From[dd]]) \in Nat
        BY <1>3 DEF Finite
      <4> QED BY <4>1, <1>2, <1>3
    <3> QED BY <1>1, <1>3, <3>1
  <2>2. \A a, b \in R : a.id = b.id /\ a.value = b.value => a = b
    OBVIOUS
  <2> HIDE DEF R
  <2>3. C[From[dd]][p].id = C[k][p].id /\ C[From[dd]][p].value = C[k][p].value
    BY <1>1, <1>3 DEF SameAs
  <2> QED BY <1>1, <2>1, <2>2, <2>3
<1>5. Alike(C, From[dd], k, p)
  BY <1>1, <1>2, <1>3, <1>4, AlikeMore
<1>6. OpenAt(C, t, Live, From, Depth, k, p)
  BY <1>1, <1>5 DEF OpenAt
<1>7. PICK f \in 1..k : /\ Alike(C, f, k, p + 1) /\ IsFirst(C, f, p + 1)
                        /\ f = k \/ \E s \in Live : Depth[s] = p + 1 /\ From[s] = f
  <2> DEFINE pos == p + 1
  <2>1. Open(C, t, Live, From, Depth, k, pos - 1) /\ pos \in 1..Len(C[k])
    BY <1>2, <1>6 DEF Open
  <2> HIDE DEF pos
  <2>2. \E f \in 1..k : /\ Alike(C, f, k, pos) /\ IsFirst(C, f, pos)
                        /\ f = k \/ \E s \in Live : Depth[s] = pos /\ From[s] = f
    BY <1>1, <2>1, NoneBefore
  <2> QED BY <2>2 DEF pos
<1>8. ASSUME f # k PROVE t[dd].subcheck # 0 /\ From[t[dd].subcheck] <= f
  <2>1. PICK s \in Live : Depth[s] = p + 1 /\ From[s] = f
    BY <1>7, <1>8
  <2>2. f \in 1..N
    BY <1>1, <1>2
  <2>3. Alike(C, f, k, p)
    BY <1>1, <1>2, <1>7, <2>2, AlikeLess
  <2>4. Alike(C, From[dd], f, p)
    BY <1>5, <2>3, AlikeBack, AlikeOn
  <2>5. Child(C, From, Depth, dd, s) /\ OrderAt(C, t, From, Depth, dd, s)
    BY <1>1, <2>1, <2>4 DEF Child, Ranked
  <2> QED BY <1>1, <2>1, <2>5 DEF OrderAt
<1>9. \E g \in 1..k : /\ Alike(C, g, k, p + 1) /\ IsFirst(C, g, p + 1)
                      /\ g = k \/ (t[dd].subcheck # 0 /\ From[t[dd].subcheck] <= g)
  BY <1>7, <1>8
<1>10. QED BY <1>5, <1>6, <1>9 DEF t, dd, k, p

\* To the first child.
LEMMA DownInOrder ==
    ASSUME NEW C, NEW N, Finite(C, N), NEW q, q.tree \in Seq(NodeSet),
           \A m \in 1..N : \A p \in 1..Len(C[m]) : C[m][p] \in [id : IdSet, value : Nat],
           NEW Live, NEW From, NEW Depth,
           Ranked(C, N, q.i, q.tree, Live, From, Depth),
           Standing(C, N, q, Live, From, Depth), q.l # 0, q.l < Len(C[q.i]),
           SameAs(q.tree, q.d, C[q.i][q.l]), q.tree[q.d].found = 0
    PROVE  InOrder(C, N, Step(DownTree(q.tree, q.d, C[q.i][q.l + 1]), q.i, q.l + 1,
                              To(q.tree[q.d].subcheck, q.tree)))
<1> DEFINE t == q.tree
           dd == q.d
           k == q.i
           p == q.l
           pos == q.l + 1
           check == C[k][pos]
           u == DownTree(t, dd, check)
           z == To(t[dd].subcheck, t)
           q2 == Step(u, k, pos, z)
<1>1. /\ k \in 1..N + 1 /\ k \in 1..N /\ p \in 1..Len(C[k]) /\ dd \in Live /\ Depth[dd] = p
      /\ p # 0 /\ p < Len(C[k])
      /\ \A j \in 1..p - 1 : Open(C, t, Live, From, Depth, k, j)
      /\ Ranked(C, N, k, t, Live, From, Depth)
      /\ t \in Seq(NodeSet) /\ t[dd].found = 0
  BY DEF Standing
<1>2. /\ Alike(C, From[dd], k, p)
      /\ OpenAt(C, t, Live, From, Depth, k, p)
      /\ \E f \in 1..k : /\ Alike(C, f, k, pos) /\ IsFirst(C, f, pos)
                         /\ f = k \/ (t[dd].subcheck # 0 /\ From[t[dd].subcheck] <= f)
  <2>1. C[q.i][q.l] \in [id : IdSet, value : Nat]
    BY <1>1
  <2> QED BY <2>1, DownFinds
<1>3. q2.tree = u /\ q2.i = k /\ q2.l = pos /\ q2.d = z
  BY DEF Step
<1>4. /\ N \in Nat /\ k \in Nat /\ p \in Nat /\ Len(C[k]) \in Nat /\ pos \in Nat /\ p <= pos
      /\ pos \in 1..Len(C[k]) /\ pos - 1 = p /\ pos = p + 1 /\ p \in 0..Len(C[k]) /\ pos # 0
  BY <1>1 DEF Finite
<1>5. check \in [id : IdSet, value : Nat]
  BY <1>1, <1>4
<1> HIDE DEF q2, u, z, check, t, dd, k, pos, p
<1>6. dd \in 1..Len(t) /\ From[dd] \in 1..N /\ From[dd] \in Nat /\ Len(t) \in Nat \ {0}
  <2>1. dd \in 1..Len(t) /\ From[dd] \in 1..N /\ From[dd] \in Nat
    BY <1>1, LiveIs
  <2> QED BY <2>1, <1>1
<1>7. LeadsAt(C, k, t, Live, From, Depth, dd)
  BY <1>1 DEF Ranked
<1>8. \A j \in 1..pos - 1 : Open(C, t, Live, From, Depth, k, j)
  <2>1. \A j \in 1..pos - 1 : j = p \/ j \in 1..p - 1
    BY <1>4
  <2> QED BY <1>1, <1>2, <2>1 DEF Open
<1>9. CASE t[dd].subcheck # 0
  <2>1. u = t /\ z = t[dd].subcheck
    BY <1>9 DEF u, z, DownTree, To
  <2>2. z \in Live /\ Depth[z] = pos /\ Alike(C, From[dd], From[z], p)
    BY <1>1, <1>4, <1>7, <1>9, <2>1 DEF LeadsAt, Child
  <2>3. Alike(C, From[z], k, pos - 1)
    BY <1>2, <1>4, <2>2, AlikeBack, AlikeOn
  <2>4. From[z] \in 1..N /\ From[z] \in Nat /\ From[z] <= k
    BY <1>1, <2>2, LiveIs
  <2>5. ASSUME NEW y \in 1..From[z] - 1, Alike(C, y, k, pos) PROVE FALSE
    <3>1. PICK f \in 1..k : /\ Alike(C, f, k, pos) /\ IsFirst(C, f, pos)
                            /\ f = k \/ From[z] <= f
      BY <1>2, <2>1
    <3>2. y < f /\ y \in 1..f - 1
      BY <1>4, <2>4, <3>1
    <3>3. Alike(C, y, f, pos)
      BY <2>5, <3>1, AlikeBack, AlikeOn
    <3> QED BY <3>1, <3>2, <3>3 DEF IsFirst
  <2>6. Standing(C, N, q2, Live, From, Depth)
    BY <1>1, <1>3, <1>4, <1>8, <2>1, <2>2, <2>3, <2>5 DEF Standing
  <2>7. InOrder(C, N, q2)
    BY <1>1, <1>3, <2>1, <2>6 DEF InOrder
  <2> QED BY <2>7 DEF q2, u, z, check, t, dd, k, pos
<1>10. CASE t[dd].subcheck = 0
  <2> DEFINE new == Len(t) + 1
             r == [t[dd] EXCEPT !.subcheck = new]
             Live2 == Live \cup {new}
             From2 == [n \in Live2 |-> IF n = new THEN k ELSE From[n]]
             Depth2 == [n \in Live2 |-> IF n = new THEN pos ELSE Depth[n]]
  <2>1. z = new
    BY <1>10 DEF z, To
  <2>2. Grown(t, dd, r, <<Node(check)>>, u)
    BY <1>10, <1>1, <1>5, <1>6, DownGrows DEF u
  <2>3. t[dd] \in NodeSet
    BY <1>1, <1>6
  <2>4. /\ r.subcheck = new /\ r.id = t[dd].id /\ r.value = t[dd].value
        /\ r.found = t[dd].found /\ r.next = t[dd].next
    BY <2>3 DEF NodeSet
  <2>5. SameCheck(t, dd, r)
    BY <2>4 DEF SameCheck
  <2>6. u[dd] = r /\ (\A n \in 1..Len(t) : n # dd => u[n] = t[n])
    BY <2>2 DEF Grown
  <2>7. new \in 1..Len(u) /\ Len(u) = new /\ u[new] = Node(check)
    <3> HIDE DEF r
    <3> QED BY <1>1, <1>5, <1>6, <2>2, <2>5, Appended
  <2>8. ASSUME NEW n \in Live PROVE n \in 1..Len(t) /\ n # new
    <3>1. n \in 1..Len(t)
      BY <1>1, LiveIs
    <3> QED BY <3>1, <1>6
  <2>9. Extends(Live, From, Depth, new, k, pos, Live2, From2, Depth2)
    <3> HIDE DEF new
    <3> QED BY <2>8 DEF Extends
  <2> HIDE DEF r, Live2, From2, Depth2
  <2>10. PICK f \in 1..k : Alike(C, f, k, pos) /\ IsFirst(C, f, pos) /\ f = k
    BY <1>2, <1>10
  <2>11. ASSUME NEW n \in Live
         PROVE  /\ u[n].id = t[n].id /\ u[n].value = t[n].value /\ u[n].found = t[n].found
                /\ u[n].next = t[n].next
                /\ u[n].subcheck = IF n = dd THEN new ELSE t[n].subcheck
    BY <2>4, <2>6, <2>8
  <2>12. ASSUME NEW n \in Live
         PROVE  t[n].next # new /\ (t[n].subcheck # new \/ t[n].found # 0)
    <3>1. LeadsAt(C, k, t, Live, From, Depth, n)
      BY <1>1 DEF Ranked
    <3>2. new # 0 /\ new \notin Live
      BY <1>6, <2>8
    <3> QED BY <3>1, <3>2 DEF LeadsAt
  <2>13. Attached(C, k, pos, t, u, Live, From, Depth)
    <3>1. \A n \in 1..Len(t) :
              u[n].id = t[n].id /\ u[n].value = t[n].value /\ u[n].found = t[n].found
      BY <2>4, <2>6
    <3>2. \A n \in Live :
              /\ u[n].next = t[n].next /\ u[n].next # new
              /\ u[n].subcheck = t[n].subcheck \/ (t[n].subcheck = 0 /\ u[n].subcheck = new)
              /\ u[n].subcheck = new /\ t[n].found = 0 =>
                    Depth[n] + 1 = pos /\ Alike(C, From[n], k, Depth[n])
      BY <1>1, <1>2, <1>4, <1>10, <2>11, <2>12
    <3> QED BY <2>7, <3>1, <3>2 DEF Attached, check
  <2>14. ASSUME NEW s \in Live, Depth[s] = pos, Alike(C, From[s], k, p) PROVE FALSE
    <3>1. Alike(C, From[dd], From[s], p)
      BY <1>2, <2>14, AlikeBack, AlikeOn
    <3>2. Child(C, From, Depth, dd, s) /\ OrderAt(C, t, From, Depth, dd, s)
      BY <1>1, <1>4, <2>14, <3>1 DEF Child, Ranked
    <3> QED BY <1>1, <1>10, <3>2 DEF OrderAt
  <2>15. ASSUME NEW s \in Live, Depth[s] = pos, Alike(C, From[s], k, pos) PROVE FALSE
    <3>1. From[s] \in 1..N
      BY <1>1, <2>15, LiveIs
    <3>2. Alike(C, From[s], k, p)
      BY <1>1, <1>4, <2>15, <3>1, AlikeLess
    <3> QED BY <2>14, <2>15, <3>2
  <2>16. ASSUME NEW n \in Live, Depth[n] = pos, Alike(C, From[n], k, pos - 1), From[n] < k
         PROVE  u[n].next # 0
    BY <1>4, <2>14, <2>16
  <2>17. ASSUME NEW n \in Live, Depth[n] + 1 = pos, Alike(C, From[n], k, Depth[n]),
                t[n].found = 0
         PROVE  u[n].subcheck # 0
    <3>1. Depth[n] = p
      <4>1. Depth[n] \in Nat
        BY <1>1, LiveIs
      <4> QED BY <4>1, <2>17, <1>4
    <3>2. Alike(C, From[n], From[dd], Depth[n])
      BY <1>2, <2>17, <3>1, AlikeBack, AlikeOn
    <3>3. n = dd
      BY <1>1, <3>1, <3>2, LiveIsOne
    <3> QED BY <1>6, <2>11, <3>3
  <2>18. Fresh(C, k, pos, t, u, Live, From, Depth)
    BY <2>10, <2>15, <2>16, <2>17 DEF Fresh
  <2>19. Ranked(C, N, k, u, Live2, From2, Depth2)
    <3>1. Open(C, t, Live, From, Depth, k, pos - 1)
      BY <1>2, <1>4 DEF Open
    <3> QED BY <1>1, <1>4, <1>6, <2>9, <2>13, <2>18, <3>1, RankedGrows
  <2>20. Standing(C, N, q2, Live2, From2, Depth2)
    <3>1. new \in Live2 /\ Depth2[new] = pos /\ From2[new] = k
      BY <2>9 DEF Extends
    <3>2. Alike(C, k, k, pos - 1)
      BY <1>1, <1>4, AlikeSelf
    <3>3. \A y \in 1..k - 1 : ~Alike(C, y, k, pos)
      BY <2>10 DEF IsFirst
    <3>4. \A j \in 1..pos - 1 : Open(C, u, Live2, From2, Depth2, k, j)
      BY <1>1, <1>4, <1>8, <2>9, <2>13, OpenGrows
    <3> QED BY <1>1, <1>3, <1>4, <2>1, <3>1, <3>2, <3>3, <3>4 DEF Standing
  <2>21. InOrder(C, N, q2)
    BY <1>3, <2>19, <2>20 DEF InOrder
  <2> QED BY <2>21 DEF q2, u, z, check, t, dd, k, pos
<1>11. QED BY <1>9, <1>10

\* The root, and the first check of a list.
LEMMA BeginInOrder ==
    ASSUME NEW C, NEW N, Finite(C, N), NEW q, q.tree \in Seq(NodeSet),
           NEW Live, NEW From, NEW Depth,
           Ranked(C, N, q.i, q.tree, Live, From, Depth),
           Standing(C, N, q, Live, From, Depth), q.l = 0,
           q.i > 1 => Len(q.tree) # 0, q.i \in 1..N, Len(C[q.i]) # 0
    PROVE  InOrder(C, N, Step(BeginTree(q.tree, C[q.i][1]), q.i, 1, 1))
<1> DEFINE t == q.tree
           k == q.i
           check == C[k][1]
           u == BeginTree(t, check)
           q2 == Step(u, k, 1, 1)
<1>1. /\ t \in Seq(NodeSet) /\ k \in 1..N /\ Ranked(C, N, k, t, Live, From, Depth)
      /\ k > 1 => Len(t) # 0
      /\ Len(C[k]) # 0
  OBVIOUS
<1>2. q2.tree = u /\ q2.i = k /\ q2.l = 1 /\ q2.d = 1
  BY DEF Step
<1> HIDE DEF t, k, check, u, q2
<1>3. /\ Len(t) \in Nat /\ (t = <<>> <=> Len(t) = 0) /\ k \in Nat /\ N \in Nat
      /\ k \in 1..N + 1 /\ Len(C[k]) \in Nat /\ 1 \in 1..Len(C[k]) /\ 1..0 = {}
  BY <1>1 DEF Finite
<1>4. \A a \in 1..N : Alike(C, a, k, 0)
  BY <1>1 DEF Alike, Finite
<1>5. CASE t # <<>>
  <2>1. u = t
    BY <1>5 DEF u, BeginTree
  <2>2. 1 \in Live /\ From[1] = 1 /\ Depth[1] = 1
    BY <1>1, <1>3, <1>5 DEF Ranked
  <2>3. 1 \in 1..N /\ 1 - 1 = 0
    BY <1>1, <1>3
  <2>4. Standing(C, N, q2, Live, From, Depth)
    BY <1>1, <1>2, <1>3, <1>4, <2>2, <2>3 DEF Standing
  <2>5. InOrder(C, N, q2)
    BY <1>1, <1>2, <2>1, <2>4 DEF InOrder
  <2> QED BY <2>5 DEF q2, u, check, t, k
<1>6. CASE t = <<>>
  <2> DEFINE one == [n \in {1} |-> 1]
             S == {1}
  <2>1. k = 1
    BY <1>1, <1>3, <1>6
  <2>2. u = <<Node(check)>>
    BY <1>6 DEF u, BeginTree
  <2>3. one[1] = 1 /\ \A n \in S : n = 1
    OBVIOUS
  <2> HIDE DEF one
  <2>4. Len(u) = 1 /\ u[1] = Node(check) /\ 1 \in 1..Len(u) /\ 1 \in S
    BY <2>2
  <2> HIDE DEF S
  <2>5. /\ u[1].id = check.id /\ u[1].value = check.value
        /\ u[1].found = 0 /\ u[1].subcheck = 0 /\ u[1].next = 0
    BY <2>4, NodeFields
  <2>6. 1..k - 1 = {} /\ 1..1 - 1 = {} /\ 1 - 1 = 0 /\ 1 \in 1..N /\ 1 <= k
    BY <1>1, <2>1
  <2>7. KnownAt(C, N, k, u, one, one, 1)
    BY <1>3, <2>1, <2>3, <2>4, <2>5, <2>6 DEF KnownAt, SameAs, IsFirst, check
  <2>8. LeadsAt(C, k, u, S, one, one, 1)
    BY <2>5 DEF LeadsAt
  <2>9. Open(C, u, S, one, one, one[1], one[1] - 1)
    BY <2>3, <2>6 DEF Open
  <2>10. OrderAt(C, u, one, one, 1, 1)
    <3>1. ~Child(C, one, one, 1, 1) /\ ~(one[1] < one[1])
      BY <2>3 DEF Child
    <3> QED BY <3>1 DEF OrderAt
  <2>11. Ranked(C, N, k, u, S, one, one)
    BY <2>3, <2>4, <2>6, <2>7, <2>8, <2>9, <2>10 DEF Ranked
  <2>12. Standing(C, N, q2, S, one, one)
    BY <1>1, <1>2, <1>3, <1>4, <2>3, <2>4, <2>6 DEF Standing
  <2>13. InOrder(C, N, q2)
    BY <1>2, <2>11, <2>12 DEF InOrder
  <2> QED BY <2>13 DEF q2, u, check, t, k
<1>7. QED BY <1>5, <1>6

\* The checks of the node where AddToDecoder has found the check it looks for.
LEMMA StandsFor ==
    ASSUME NEW C, NEW N, Finite(C, N), NEW q,
           \A m \in 1..N : \A p \in 1..Len(C[m]) : C[m][p] \in [id : IdSet, value : Nat],
           NEW Live, NEW From, NEW Depth,
           Ranked(C, N, q.i, q.tree, Live, From, Depth),
           Standing(C, N, q, Live, From, Depth), q.l # 0,
           SameAs(q.tree, q.d, C[q.i][q.l])
    PROVE  Alike(C, From[q.d], q.i, q.l)
<1> DEFINE t == q.tree
           dd == q.d
           k == q.i
           p == q.l
<1>1. /\ k \in 1..N /\ p \in 1..Len(C[k]) /\ dd \in Live /\ Depth[dd] = p
      /\ Alike(C, From[dd], k, p - 1) /\ Ranked(C, N, k, t, Live, From, Depth)
      /\ SameAs(t, dd, C[k][p])
  BY DEF Standing
<1> HIDE DEF t, dd, k, p
<1>2. p \in Nat \ {0} /\ p <= Len(C[k])
  BY <1>1 DEF Finite
<1>3. From[dd] \in 1..N /\ p <= Len(C[From[dd]]) /\ SameAs(t, dd, C[From[dd]][p])
  <2>1. /\ From[dd] \in 1..N /\ Depth[dd] <= Len(C[From[dd]])
        /\ SameAs(t, dd, C[From[dd]][Depth[dd]])
    BY <1>1, LiveIs
  <2> QED BY <1>1, <2>1
<1> DEFINE R == [id : IdSet, value : Nat]
           a == C[From[dd]][p]
           b == C[k][p]
<1>4. a \in R /\ b \in R
  <2>1. p \in 1..Len(C[From[dd]])
    <3>1. Len(C[From[dd]]) \in Nat
      BY <1>3 DEF Finite
    <3> QED BY <3>1, <1>2, <1>3
  <2> QED BY <1>1, <1>3, <2>1
<1>5. \A x, y \in R : x.id = y.id /\ x.value = y.value => x = y
  OBVIOUS
<1>6. a.id = b.id /\ a.value = b.value
  BY <1>1, <1>3 DEF SameAs
<1> HIDE DEF R, a, b
<1>7. a = b
  BY <1>4, <1>5, <1>6
<1>8. Alike(C, From[dd], k, p)
  BY <1>1, <1>2, <1>3, <1>7, AlikeMore DEF a, b
<1>9. QED BY <1>8 DEF dd, k, p

\* The last check: the nodes below it are no longer live.
LEMMA FoundInOrder ==
    ASSUME NEW C, NEW N, Finite(C, N), NEW q, q.tree \in Seq(NodeSet),
           \A m \in 1..N : \A p \in 1..Len(C[m]) : C[m][p] \in [id : IdSet, value : Nat],
           NEW ids \in Seq(IdSet), NEW Live, NEW From, NEW Depth,
           Ranked(C, N, q.i, q.tree, Live, From, Depth),
           Standing(C, N, q, Live, From, Depth), q.l # 0, q.l = Len(C[q.i]),
           SameAs(q.tree, q.d, C[q.i][q.l]), q.tree[q.d].found = 0
    PROVE  InOrder(C, N, Step(FoundTree(q.tree, q.d, q.i, ids), q.i + 1, 0, 0))
<1> DEFINE t == q.tree
           dd == q.d
           k == q.i
           p == q.l
           u == FoundTree(t, dd, k, ids)
           k1 == k + 1
           q2 == Step(u, k1, 0, 0)
           Gone(s) == Depth[s] > p /\ Alike(C, From[s], k, p)
           Live2 == {s \in Live : ~Gone(s)}
<1>1. /\ k \in 1..N /\ p \in 1..Len(C[k]) /\ dd \in Live /\ Depth[dd] = p
      /\ p # 0 /\ p = Len(C[k]) /\ Alike(C, From[dd], k, p - 1)
      /\ \A j \in 1..p - 1 : Open(C, t, Live, From, Depth, k, j)
      /\ Ranked(C, N, k, t, Live, From, Depth)
      /\ t \in Seq(NodeSet) /\ t[dd].found = 0
      /\ SameAs(t, dd, C[k][p])
  BY DEF Standing
<1>2. q2.tree = u /\ q2.i = k1 /\ q2.l = 0
  BY DEF Step
<1> HIDE DEF q2, u, t, dd, k, p, k1
<1>3. /\ N \in Nat /\ k \in Nat /\ k # 0 /\ p \in Nat \ {0} /\ p \in Nat /\ p <= Len(C[k])
      /\ p - 1 \in Nat /\ Len(C[k]) \in Nat /\ k1 = k + 1 /\ k1 - 1 = k
  BY <1>1 DEF Finite, k1
<1>4. /\ dd \in 1..Len(t) /\ From[dd] \in 1..N /\ From[dd] <= k /\ p <= Len(C[From[dd]])
      /\ SameAs(t, dd, C[From[dd]][p]) /\ Len(t) \in Nat \ {0}
      /\ IsFirst(C, From[dd], p)
  <2>1. /\ dd \in 1..Len(t) /\ From[dd] \in 1..N /\ From[dd] <= k /\ p <= Len(C[From[dd]])
        /\ SameAs(t, dd, C[From[dd]][p]) /\ IsFirst(C, From[dd], p)
    <3>1. /\ dd \in 1..Len(t) /\ From[dd] \in 1..N /\ From[dd] <= k
          /\ Depth[dd] <= Len(C[From[dd]]) /\ SameAs(t, dd, C[From[dd]][Depth[dd]])
          /\ IsFirst(C, From[dd], Depth[dd])
      BY <1>1, LiveIs
    <3> QED BY <1>1, <3>1
  <2> QED BY <1>1, <2>1
<1>5. Alike(C, From[dd], k, p)
  BY StandsFor DEF dd, k, p
<1>6. /\ u[dd].id = t[dd].id /\ u[dd].value = t[dd].value /\ u[dd].next = t[dd].next
      /\ u[dd].found = k
      /\ \A n \in 1..Len(t) : n # dd => u[n] = t[n]
      /\ \A n \in 1..Len(t) : n \in 1..Len(u)
  <2> DEFINE new == Len(t) + 1
             r == [t[dd] EXCEPT !.found = k, !.subcheck = IF ids = <<>> THEN 0 ELSE new]
             s == Guide(ids, new)
  <2>1. Grown(t, dd, r, s, u)
    BY <1>1, <1>3, <1>4, FoundGrows DEF u
  <2>2. t[dd] \in NodeSet
    BY <1>1, <1>4
  <2>3. r.id = t[dd].id /\ r.value = t[dd].value /\ r.next = t[dd].next /\ r.found = k
    BY <2>2 DEF NodeSet
  <2>4. s \in Seq(NodeSet)
    <3>1. new \in Nat
      BY <1>4
    <3> HIDE DEF new
    <3> QED BY <3>1, GuideType
  <2> HIDE DEF r, s
  <2>5. Len(u) = Len(t) + Len(s) /\ Len(s) \in Nat
    BY <2>1, <2>4 DEF Grown
  <2>6. \A n \in 1..Len(t) : n \in 1..Len(u)
    BY <1>4, <2>5
  <2> QED BY <2>1, <2>3, <2>6 DEF Grown
<1>7. ASSUME NEW n \in Live
      PROVE  /\ n \in 1..Len(t) /\ n \in 1..Len(u)
             /\ From[n] \in 1..N /\ From[n] \in Nat /\ From[n] <= k
             /\ Depth[n] \in Nat /\ Depth[n] # 0 /\ Depth[n] - 1 \in Nat
             /\ u[n].id = t[n].id /\ u[n].value = t[n].value /\ u[n].next = t[n].next
             /\ n # dd => u[n].found = t[n].found /\ u[n].subcheck = t[n].subcheck
             /\ n = dd => u[n].found = k
  <2>1. /\ n \in 1..Len(t) /\ From[n] \in 1..N /\ From[n] \in Nat /\ From[n] <= k
        /\ Depth[n] \in Nat /\ Depth[n] # 0 /\ Depth[n] - 1 \in Nat
    BY <1>1, LiveIs
  <2> QED BY <2>1, <1>6
<1>8. \A n \in Live2 : n \in Live /\ ~Gone(n)
  OBVIOUS
<1>9. \A n \in Live : n \in Live2 \/ Gone(n)
  OBVIOUS
<1>10. dd \in Live2
  <2>1. ~Gone(dd)
    BY <1>1, <1>3
  <2> QED BY <1>1, <2>1
<1> HIDE DEF Live2, Gone
\* A live node with the checks of k is the one AddToDecoder is at.
<1>11. ASSUME NEW n \in Live, Depth[n] = p, Alike(C, From[n], k, p) PROVE n = dd
  <2>1. Alike(C, From[n], From[dd], p)
    BY <1>5, <1>11, AlikeBack, AlikeOn
  <2> QED BY <1>1, <1>11, <2>1, LiveIsOne
\* What is below it is gone.
<1>12. ASSUME NEW n \in Live2, NEW y \in 1..N, Alike(C, From[n], y, Depth[n]),
              Depth[n] >= p, Alike(C, y, k, p)
       PROVE  n = dd
  <2>1. n \in Live /\ ~Gone(n) /\ Depth[n] \in Nat /\ From[n] \in 1..N
    BY <1>7, <1>8
  <2>2. Alike(C, From[n], y, p)
    BY <1>3, <1>12, <2>1, AlikeLess
  <2>3. Alike(C, From[n], k, p)
    BY <1>12, <2>2, AlikeOn
  <2>4. Depth[n] = p
    BY <1>3, <1>12, <2>1, <2>3 DEF Gone
  <2> QED BY <1>11, <2>1, <2>3, <2>4
<1>13. ASSUME NEW y, NEW j, Open(C, u, Live2, From, Depth, y, j)
       PROVE  Open(C, t, Live, From, Depth, y, j)
  <2>1. CASE j = 0
    BY <2>1 DEF Open
  <2>2. CASE j # 0
    <3>1. PICK x \in Live2 : Depth[x] = j /\ Alike(C, From[x], y, j) /\ u[x].found = 0
      BY <1>13, <2>2 DEF Open, OpenAt
    <3>2. x \in Live /\ x # dd /\ t[x].found = 0
      BY <1>3, <1>7, <1>8, <3>1
    <3> QED BY <3>1, <3>2 DEF Open, OpenAt
  <2> QED BY <2>1, <2>2
<1>14. Len(u) # 0 => 1 \in Live2 /\ From[1] = 1 /\ Depth[1] = 1
  <2>1. 1 \in Live /\ From[1] = 1 /\ Depth[1] = 1
    BY <1>1, <1>4 DEF Ranked
  <2>2. ~Gone(1)
    BY <1>3, <2>1 DEF Gone
  <2> QED BY <1>9, <2>1, <2>2
<1>15. ASSUME NEW n \in Live2 PROVE KnownAt(C, N, k1, u, From, Depth, n)
  <2>1. n \in Live /\ KnownAt(C, N, k, t, From, Depth, n)
    BY <1>1, <1>8 DEF Ranked
  <2>2. From[n] <= k1
    BY <1>3, <1>7, <2>1
  <2> QED BY <1>7, <2>1, <2>2 DEF KnownAt, SameAs
<1>16. ASSUME NEW n \in Live2 PROVE LeadsAt(C, k1, u, Live2, From, Depth, n)
  <2>1. n \in Live /\ ~Gone(n) /\ LeadsAt(C, k, t, Live, From, Depth, n)
    BY <1>1, <1>8 DEF Ranked
  <2>2. ASSUME u[n].next # 0
        PROVE  u[n].next \in Live2 /\ Siblings(C, From, Depth, n, u[n].next)
    <3> DEFINE z == t[n].next
    <3>1. u[n].next = z /\ z \in Live /\ Siblings(C, From, Depth, n, z)
      BY <1>7, <2>1, <2>2 DEF LeadsAt
    <3> HIDE DEF z
    <3>2. ASSUME Gone(z) PROVE FALSE
      <4>1. Depth[z] > p /\ Alike(C, From[z], k, p) /\ Depth[n] = Depth[z]
            /\ Alike(C, From[n], From[z], Depth[n] - 1)
        BY <3>1, <3>2 DEF Gone, Siblings
      <4>2. p <= Depth[n] - 1 /\ Depth[n] - 1 \in Nat /\ From[n] \in 1..N /\ From[z] \in 1..N
        BY <1>3, <1>7, <2>1, <3>1, <4>1
      <4>3. Alike(C, From[n], From[z], p)
        BY <1>3, <4>1, <4>2, AlikeLess
      <4>4. Alike(C, From[n], k, p)
        BY <4>1, <4>3, AlikeOn
      <4> QED BY <2>1, <4>1, <4>4 DEF Gone
    <3> QED BY <1>9, <3>1, <3>2
  <2>3. ASSUME u[n].found = 0, u[n].subcheck # 0
        PROVE  u[n].subcheck \in Live2 /\ Child(C, From, Depth, n, u[n].subcheck)
    <3> DEFINE z == t[n].subcheck
    <3>0. n # dd
      BY <1>3, <1>7, <2>1, <2>3
    <3>1. u[n].subcheck = z /\ z \in Live /\ Child(C, From, Depth, n, z)
      BY <1>7, <2>1, <2>3, <3>0 DEF LeadsAt
    <3> HIDE DEF z
    <3>2. ASSUME Gone(z) PROVE FALSE
      <4>1. Depth[z] > p /\ Alike(C, From[z], k, p) /\ Depth[z] = Depth[n] + 1
            /\ Alike(C, From[n], From[z], Depth[n])
        BY <3>1, <3>2 DEF Gone, Child
      <4>2. Depth[n] >= p /\ From[z] \in 1..N
        BY <1>3, <1>7, <2>1, <3>1, <4>1
      <4> QED BY <1>12, <3>0, <4>1, <4>2
    <3> QED BY <1>9, <3>1, <3>2
  <2>4. ASSUME u[n].found # 0
        PROVE  /\ u[n].found \in 1..k1 - 1 /\ Len(C[u[n].found]) = Depth[n]
               /\ Alike(C, u[n].found, From[n], Depth[n])
    <3>1. CASE n = dd
      <4>1. Alike(C, k, From[dd], p)
        BY <1>5, AlikeBack
      <4>2. u[n].found = k /\ k \in 1..k1 - 1
        BY <1>3, <1>7, <2>1, <3>1
      <4> QED BY <1>1, <3>1, <4>1, <4>2
    <3>2. CASE n # dd
      <4>1. u[n].found = t[n].found
        BY <1>7, <2>1, <3>2
      <4>2. /\ t[n].found \in 1..k - 1 /\ Len(C[t[n].found]) = Depth[n]
            /\ Alike(C, t[n].found, From[n], Depth[n])
        BY <2>1, <2>4, <4>1 DEF LeadsAt
      <4>3. t[n].found \in 1..k1 - 1
        BY <1>3, <4>2
      <4> QED BY <4>1, <4>2, <4>3
    <3> QED BY <3>1, <3>2
  <2> QED BY <2>2, <2>3, <2>4 DEF LeadsAt
<1>17. ASSUME NEW n \in Live2 PROVE Open(C, u, Live2, From, Depth, From[n], Depth[n] - 1)
  <2>1. n \in Live /\ ~Gone(n) /\ Open(C, t, Live, From, Depth, From[n], Depth[n] - 1)
    BY <1>1, <1>8 DEF Ranked
  <2>2. CASE Depth[n] - 1 = 0
    BY <2>2 DEF Open
  <2>3. CASE Depth[n] - 1 # 0
    <3>1. PICK x \in Live : /\ Depth[x] = Depth[n] - 1 /\ t[x].found = 0
                            /\ Alike(C, From[x], From[n], Depth[n] - 1)
      BY <2>1, <2>3 DEF Open, OpenAt
    <3>2. From[n] \in 1..N /\ From[x] \in 1..N /\ Depth[x] \in Nat /\ Depth[n] \in Nat
      BY <1>7, <2>1
    <3>3. ASSUME Depth[x] >= p, Alike(C, From[x], k, p) PROVE FALSE
      <4>1. Alike(C, From[n], From[x], p)
        <5>1. Alike(C, From[x], From[n], p)
          BY <1>3, <3>1, <3>2, <3>3, AlikeLess
        <5> QED BY <5>1, AlikeBack
      <4>2. Alike(C, From[n], k, p)
        BY <3>3, <4>1, AlikeOn
      <4>3. Depth[n] > p
        BY <1>3, <3>1, <3>2, <3>3
      <4> QED BY <2>1, <4>2, <4>3 DEF Gone
    <3>4. x # dd
      BY <1>1, <1>3, <1>5, <3>3
    <3>5. x \in Live2
      <4>1. ~Gone(x)
        BY <1>3, <3>2, <3>3 DEF Gone
      <4> QED BY <1>9, <4>1
    <3>6. u[x].found = 0
      BY <1>7, <3>1, <3>4
    <3> QED BY <3>1, <3>5, <3>6 DEF Open, OpenAt
  <2> QED BY <2>2, <2>3
<1>18. ASSUME NEW n \in Live2, NEW s \in Live2 PROVE OrderAt(C, u, From, Depth, n, s)
  <2>1. n \in Live /\ OrderAt(C, t, From, Depth, n, s)
    BY <1>1, <1>8 DEF Ranked
  <2>2. CASE n = dd
    <3>1. u[n].found # 0 /\ u[n].next = t[n].next
      BY <1>3, <1>7, <2>1, <2>2
    <3> QED BY <2>1, <3>1 DEF OrderAt
  <2>3. CASE n # dd
    <3>1. u[n].found = t[n].found /\ u[n].subcheck = t[n].subcheck /\ u[n].next = t[n].next
      BY <1>7, <2>1, <2>3
    <3> QED BY <2>1, <3>1 DEF OrderAt
  <2> QED BY <2>2, <2>3
<1>19. ASSUME NEW y \in 1..k1 - 1 PROVE AddedAt(C, u, Live2, From, Depth, y)
  <2>1. CASE y = k
    <3>1. ASSUME NEW j \in 1..Len(C[k]) PROVE Filed(C, Live2, From, Depth, k, j)
      <4>1. CASE j = p
        BY <1>1, <1>5, <1>10, <4>1 DEF Filed
      <4>2. CASE j # p
        <5>1. j \in 1..p - 1 /\ j # 0 /\ j <= p
          BY <1>1, <1>3, <4>2
        <5>2. PICK x \in Live : Depth[x] = j /\ Alike(C, From[x], k, j)
          BY <1>1, <5>1 DEF Open, OpenAt
        <5>3. ~Gone(x)
          BY <1>3, <5>1, <5>2 DEF Gone
        <5> QED BY <1>9, <5>2, <5>3 DEF Filed
      <4> QED BY <4>1, <4>2
    <3>2. ASSUME NEW n \in Live2, Len(C[k]) = Depth[n], Alike(C, From[n], k, Depth[n])
          PROVE  u[n].found # 0
      <4>1. n \in Live
        BY <1>8
      <4>2. n = dd
        BY <1>1, <1>11, <3>2, <4>1
      <4> QED BY <1>3, <1>7, <4>1, <4>2
    <3>3. Len(C[k]) # 0
      BY <1>1
    <3> QED BY <2>1, <3>1, <3>2, <3>3 DEF AddedAt
  <2>2. CASE y # k
    <3>1. y \in 1..k - 1 /\ y \in 1..N
      BY <1>1, <1>3, <2>2
    <3>2. AddedAt(C, t, Live, From, Depth, y)
      BY <1>1, <3>1 DEF Ranked
    <3>3. ASSUME NEW j \in 1..Len(C[y]), Open(C, u, Live2, From, Depth, y, j - 1)
          PROVE  Filed(C, Live2, From, Depth, y, j)
      <4>1. Open(C, t, Live, From, Depth, y, j - 1)
        BY <1>13, <3>3
      <4>2. PICK s \in Live : Depth[s] = j /\ Alike(C, From[s], y, j)
        BY <3>2, <4>1 DEF AddedAt, Filed
      <4>3. j \in Nat /\ From[s] \in 1..N
        BY <1>7, <3>1
      <4>4. ASSUME Gone(s) PROVE FALSE
        <5>1. j > p /\ p <= j /\ Alike(C, From[s], k, p)
          BY <1>3, <4>2, <4>3, <4>4 DEF Gone
        <5>2. Alike(C, From[s], y, p)
          BY <1>3, <3>1, <4>2, <4>3, <5>1, AlikeLess
        <5>3. Alike(C, y, k, p)
          BY <5>1, <5>2, AlikeBack, AlikeOn
        <5>4. PICK x \in Live2 : /\ Depth[x] = j - 1 /\ Alike(C, From[x], y, j - 1)
                                 /\ u[x].found = 0
          <6>1. j - 1 # 0
            BY <1>3, <4>3, <5>1
          <6> QED BY <3>3, <6>1 DEF Open, OpenAt
        <5>5. Depth[x] >= p
          BY <1>3, <4>3, <5>1, <5>4
        <5>6. x = dd
          BY <1>12, <3>1, <5>3, <5>4, <5>5
        <5> QED BY <1>1, <1>3, <1>7, <5>4, <5>6
      <4>5. s \in Live2
        BY <1>9, <4>4
      <4> QED BY <4>2, <4>5 DEF Filed
    <3>4. ASSUME NEW n \in Live2, Len(C[y]) = Depth[n], Alike(C, From[n], y, Depth[n])
          PROVE  u[n].found # 0
      <4>1. n \in Live /\ t[n].found # 0
        BY <1>8, <3>2, <3>4 DEF AddedAt
      <4> QED BY <1>3, <1>7, <4>1
    <3> QED BY <3>2, <3>3, <3>4 DEF AddedAt
  <2> QED BY <2>1, <2>2
<1>20. Ranked(C, N, k1, u, Live2, From, Depth)
  BY <1>14, <1>15, <1>16, <1>17, <1>18, <1>19 DEF Ranked
<1>21. Standing(C, N, q2, Live2, From, Depth)
  <2>1. k1 \in 1..N + 1
    BY <1>1, <1>3
  <2> QED BY <1>2, <2>1 DEF Standing
<1>22. InOrder(C, N, q2)
  BY <1>2, <1>20, <1>21 DEF InOrder
<1>23. QED BY <1>22 DEF q2, u, t, dd, k, k1

\* Lists of checks are finite.
LEMMA DeclaredIs ==
    ASSUME NEW C, NEW O, NEW N, Declared(C, O, N)
    PROVE  /\ Finite(C, N)
           /\ \A m \in 1..N : \A p \in 1..Len(C[m]) : C[m][p] \in [id : IdSet, value : Nat]
<1>1. N \in Nat /\ \A m \in 1..N : C[m] \in Seq([id : IdSet, value : Nat])
  BY DEF Declared
<1>2. ASSUME NEW m \in 1..N
      PROVE  Len(C[m]) \in Nat /\ \A p \in 1..Len(C[m]) : C[m][p] \in [id : IdSet, value : Nat]
  <2> DEFINE c == C[m]
             S == [id : IdSet, value : Nat]
  <2>1. c \in Seq(S)
    BY <1>1
  <2> HIDE DEF c, S
  <2>2. Len(c) \in Nat /\ \A p \in 1..Len(c) : c[p] \in S
    BY <2>1
  <2> QED BY <2>2 DEF c, S
<1>3. QED BY <1>1, <1>2 DEF Finite

\* Every step of AddToDecoder that finds no conflict keeps the order.
LEMMA InOrderStep ==
    ASSUME NEW C, NEW O, NEW N, Declared(C, O, N), NEW q, Good(C, O, N, q),
           InOrder(C, N, q), q.i \in 1..N, Len(C[q.i]) # 0,
           q.l # 0 => ~SameAs(q.tree, q.d, C[q.i][q.l]) \/ q.tree[q.d].found = 0
    PROVE  InOrder(C, N, Built(C, O, q))
<1>1. PICK Over : Tree(C, O, N, q.tree, Over) /\ Place(C, N, q, Over)
  BY DEF Good
<1>2. PICK Live, From, Depth : /\ Ranked(C, N, q.i, q.tree, Live, From, Depth)
                               /\ Standing(C, N, q, Live, From, Depth)
  BY DEF InOrder
<1>3. N \in Nat /\ \A m \in 1..N : C[m] \in Seq([id : IdSet, value : Nat]) /\ O[m] \in Seq(IdSet)
  BY DEF Declared
<1>4. /\ Finite(C, N)
      /\ \A m \in 1..N : \A p \in 1..Len(C[m]) : C[m][p] \in [id : IdSet, value : Nat]
  BY DeclaredIs
<1>5. /\ q.tree \in Seq(NodeSet) /\ O[q.i] \in Seq(IdSet)
      /\ q.i > 1 => Len(q.tree) # 0
      /\ q.l # 0 => q.l \in 1..Len(C[q.i]) /\ C[q.i][q.l] \in [id : IdSet, value : Nat]
  BY <1>1, <1>3, <1>4 DEF Tree, Place
<1>6. CASE q.l = 0
  <2>1. Built(C, O, q) = Step(BeginTree(q.tree, C[q.i][1]), q.i, 1, 1)
    BY <1>6 DEF Built
  <2> QED BY <2>1, <1>2, <1>4, <1>5, <1>6, BeginInOrder
<1>7. CASE q.l # 0 /\ ~SameAs(q.tree, q.d, C[q.i][q.l])
  <2>1. Built(C, O, q) = Step(PastTree(q.tree, q.d, C[q.i][q.l]), q.i, q.l,
                              To(q.tree[q.d].next, q.tree))
    BY <1>7 DEF Built
  <2> QED BY <2>1, <1>2, <1>4, <1>5, <1>7, PastInOrder
<1>8. CASE q.l # 0 /\ SameAs(q.tree, q.d, C[q.i][q.l]) /\ q.l < Len(C[q.i])
  <2>1. Built(C, O, q) = Step(DownTree(q.tree, q.d, C[q.i][q.l + 1]), q.i, q.l + 1,
                              To(q.tree[q.d].subcheck, q.tree))
    BY <1>8 DEF Built
  <2> QED BY <2>1, <1>2, <1>4, <1>5, <1>8, DownInOrder
<1>9. CASE q.l # 0 /\ SameAs(q.tree, q.d, C[q.i][q.l]) /\ ~(q.l < Len(C[q.i]))
  <2>1. Built(C, O, q) = Step(FoundTree(q.tree, q.d, q.i, O[q.i]), q.i + 1, 0, 0)
    BY <1>9 DEF Built
  <2>2. q.l = Len(C[q.i])
    BY <1>4, <1>5, <1>9 DEF Finite
  <2> QED BY <2>1, <2>2, <1>2, <1>4, <1>5, <1>9, FoundInOrder
<1>10. QED BY <1>6, <1>7, <1>8, <1>9

\* The list of an instruction found there begins that of the present one.
LEMMA Meets ==
    ASSUME NEW C, NEW O, NEW N, Declared(C, O, N), NEW q, InOrder(C, N, q), q.l # 0,
           SameAs(q.tree, q.d, C[q.i][q.l]), q.tree[q.d].found # 0
    PROVE  /\ q.tree[q.d].found \in 1..q.i - 1
           /\ Alike(C, q.tree[q.d].found, q.i, Len(C[q.tree[q.d].found]))
<1>1. PICK Live, From, Depth : /\ Ranked(C, N, q.i, q.tree, Live, From, Depth)
                               /\ Standing(C, N, q, Live, From, Depth)
  BY DEF InOrder
<1>2. /\ Finite(C, N)
      /\ \A m \in 1..N : \A p \in 1..Len(C[m]) : C[m][p] \in [id : IdSet, value : Nat]
  BY DeclaredIs
<1>3. q.d \in Live /\ Depth[q.d] = q.l
  BY <1>1 DEF Standing
<1>4. Alike(C, From[q.d], q.i, q.l)
  BY <1>1, <1>2, StandsFor
<1> DEFINE m == q.tree[q.d].found
<1>5. m \in 1..q.i - 1 /\ Len(C[m]) = q.l /\ Alike(C, m, From[q.d], q.l)
  BY <1>1, <1>3 DEF Ranked, LeadsAt
<1> HIDE DEF m
<1>6. Alike(C, m, q.i, Len(C[m]))
  BY <1>4, <1>5, AlikeOn
<1>7. QED BY <1>5, <1>6 DEF m

\* Where it has come to a node without an instruction, no list has ended so far.
LEMMA NoneEnds ==
    ASSUME NEW C, NEW N, Finite(C, N), NEW q,
           \A m \in 1..N : \A p \in 1..Len(C[m]) : C[m][p] \in [id : IdSet, value : Nat],
           InOrder(C, N, q), q.l # 0, q.l = Len(C[q.i]),
           SameAs(q.tree, q.d, C[q.i][q.l]), q.tree[q.d].found = 0,
           NEW y \in 1..q.i - 1
    PROVE  ~Alike(C, y, q.i, Len(C[y]))
<1> SUFFICES ASSUME Alike(C, y, q.i, Len(C[y])) PROVE FALSE
  OBVIOUS
<1>1. PICK Live, From, Depth : /\ Ranked(C, N, q.i, q.tree, Live, From, Depth)
                               /\ Standing(C, N, q, Live, From, Depth)
  BY DEF InOrder
<1> DEFINE p == Len(C[y])
<1>2. /\ q.i \in 1..N /\ q.l \in 1..Len(C[q.i]) /\ q.d \in Live /\ Depth[q.d] = q.l
      /\ \A j \in 1..q.l - 1 : Open(C, q.tree, Live, From, Depth, q.i, j)
  BY <1>1 DEF Standing
<1>3. y \in 1..N /\ p \in Nat /\ Len(C[q.i]) \in Nat /\ p <= q.l
  <2>1. y \in 1..N /\ Len(C[q.i]) \in Nat
    BY <1>2 DEF Finite
  <2> QED BY <2>1 DEF Finite, Alike
<1>4. /\ p # 0
      /\ \A n \in Live : p = Depth[n] /\ Alike(C, From[n], y, Depth[n]) =>
            q.tree[n].found # 0
  BY <1>1 DEF Ranked, AddedAt
<1>5. Alike(C, q.i, y, p)
  BY AlikeBack
<1> HIDE DEF p
<1>6. CASE p = q.l
  <2>1. Alike(C, From[q.d], q.i, q.l)
    BY <1>1, StandsFor
  <2>2. Alike(C, From[q.d], y, q.l)
    BY <1>5, <1>6, <2>1, AlikeOn
  <2> QED BY <1>2, <1>4, <1>6, <2>2
<1>7. CASE p # q.l
  <2>1. p \in 1..q.l - 1
    BY <1>2, <1>3, <1>4, <1>7
  <2>2. PICK u \in Live : Depth[u] = p /\ Alike(C, From[u], q.i, p) /\ q.tree[u].found = 0
    BY <1>2, <1>4, <2>1 DEF Open, OpenAt
  <2>3. Alike(C, From[u], y, p)
    BY <1>5, <2>2, AlikeOn
  <2> QED BY <1>4, <2>2, <2>3
<1>8. QED BY <1>6, <1>7

\* The lists added without a conflict stay apart.
LEMMA ApartStep ==
    ASSUME NEW C, NEW O, NEW N, Declared(C, O, N), NEW q, InOrder(C, N, q), q.i \in 1..N,
           Free(C, q), Apart(C, q.i)
    PROVE  Apart(C, Built(C, O, q).i)
<1>1. /\ Finite(C, N)
      /\ \A m \in 1..N : \A p \in 1..Len(C[m]) : C[m][p] \in [id : IdSet, value : Nat]
  BY DeclaredIs
<1>2. q.l # 0 => q.l \in 1..Len(C[q.i]) /\ Len(C[q.i]) \in Nat
  BY <1>1 DEF InOrder, Standing, Finite
<1>3. CASE q.l # 0 /\ SameAs(q.tree, q.d, C[q.i][q.l]) /\ ~(q.l < Len(C[q.i]))
  <2>1. Built(C, O, q).i = q.i + 1
    BY <1>3 DEF Built, Step
  <2>2. q.l = Len(C[q.i]) /\ q.tree[q.d].found = 0
    BY <1>2, <1>3 DEF Free
  <2>3. \A y \in 1..q.i - 1 : ~Alike(C, y, q.i, Len(C[y]))
    BY <1>1, <1>3, <2>2, NoneEnds
  <2>4. q.i + 1 - 1 = q.i /\ \A z \in 1..q.i : z = q.i \/ z \in 1..q.i - 1
    BY <1>1 DEF Finite
  <2> QED BY <2>1, <2>3, <2>4 DEF Apart
<1>4. CASE ~(q.l # 0 /\ SameAs(q.tree, q.d, C[q.i][q.l]) /\ ~(q.l < Len(C[q.i])))
  <2>1. Built(C, O, q).i = q.i
    BY <1>4 DEF Built, Step
  <2> QED BY <2>1
<1>5. QED BY <1>3, <1>4

\* The empty tree.
LEMMA InOrderStart ==
    ASSUME NEW C, NEW N, N \in Nat \ {0}
    PROVE  InOrder(C, N, Step(<<>>, 1, 0, 0))
<1> DEFINE q == Step(<<>>, 1, 0, 0)
           e == <<>>
<1>1. q.tree = e /\ q.i = 1 /\ q.l = 0 /\ q.d = 0 /\ Len(e) = 0
  BY DEF Step
<1>2. 1..1 - 1 = {} /\ 1 \in 1..N + 1
  OBVIOUS
<1> HIDE DEF q, e
<1>3. Ranked(C, N, q.i, q.tree, {}, e, e)
  BY <1>1, <1>2 DEF Ranked
<1>4. Standing(C, N, q, {}, e, e)
  BY <1>1, <1>2 DEF Standing
<1>5. QED BY <1>3, <1>4 DEF InOrder, q

\* The tree with all instructions in it.
Settled(C, N, t, Live, From, Depth) == Ranked(C, N, N + 1, t, Live, From, Depth)

LEMMA SettledIs ==
    ASSUME NEW C, NEW N, Finite(C, N), NEW t, NEW Live, NEW From, NEW Depth,
           Settled(C, N, t, Live, From, Depth)
    PROVE  /\ Len(t) # 0 => 1 \in Live /\ From[1] = 1 /\ Depth[1] = 1
           /\ \A n \in Live :
                 /\ From[n] \in 1..N /\ Depth[n] \in Nat /\ Depth[n] <= Len(C[From[n]])
                 /\ SameAs(t, n, C[From[n]][Depth[n]])
                 /\ IsFirst(C, From[n], Depth[n]) /\ Alike(C, From[n], From[n], Depth[n])
                 /\ t[n].next # 0 =>
                       t[n].next \in Live /\ Siblings(C, From, Depth, n, t[n].next)
                 /\ t[n].found = 0 /\ t[n].subcheck # 0 =>
                       t[n].subcheck \in Live /\ Child(C, From, Depth, n, t[n].subcheck)
                 /\ t[n].found # 0 =>
                       /\ t[n].found \in 1..N /\ Len(C[t[n].found]) = Depth[n]
                       /\ Alike(C, t[n].found, From[n], Depth[n])
           /\ \A n, s \in Live : OrderAt(C, t, From, Depth, n, s)
           /\ \A y \in 1..N : AddedAt(C, t, Live, From, Depth, y)
<1> DEFINE k == N + 1
<1>1. Ranked(C, N, k, t, Live, From, Depth) /\ k - 1 = N
  BY DEF Settled, Finite
<1> HIDE DEF k
<1>2. ASSUME NEW n \in Live
      PROVE  /\ From[n] \in 1..N /\ Depth[n] \in Nat /\ Depth[n] <= Len(C[From[n]])
             /\ SameAs(t, n, C[From[n]][Depth[n]])
             /\ IsFirst(C, From[n], Depth[n]) /\ Alike(C, From[n], From[n], Depth[n])
  BY <1>1, LiveIs
<1>3. /\ Len(t) # 0 => 1 \in Live /\ From[1] = 1 /\ Depth[1] = 1
      /\ \A n \in Live : LeadsAt(C, k, t, Live, From, Depth, n)
      /\ \A n, s \in Live : OrderAt(C, t, From, Depth, n, s)
      /\ \A y \in 1..k - 1 : AddedAt(C, t, Live, From, Depth, y)
  BY <1>1 DEF Ranked
<1>4. QED BY <1>1, <1>2, <1>3 DEF LeadsAt
-----------------------------------------------------------------------------
(* Both builds take the same steps.                                        *)

Lists == [n \in 1..Len(isa) |-> Checks(isa[n])]
Rest  == [n \in 1..Len(isa) |-> Operands(isa[n])]
Here  == Step(tree, i, l, d)

\* The generator's steps: it went through the states r[0], ..., r[n].
History(C, O, N, n, r) ==
    /\ n \in Nat /\ r[0] = Step(<<>>, 1, 0, 0)
    /\ \A k \in 0..n : Good(C, O, N, r[k]) /\ InOrder(C, N, r[k]) /\ Apart(C, r[k].i)
    /\ \A k \in 0..n - 1 :
          r[k].i \in 1..N /\ Free(C, r[k]) /\ r[k + 1] = Built(C, O, r[k])

\* The generator is at the end of its steps; the simulator, which looks for no
\* conflicts, is at one of them, and at the end of them when it runs.
Follows(n, r) ==
    /\ phase = "generate" => r[n] = Here
    /\ phase = "elaborate" => /\ r[n].i \notin 1..Len(isa)
                              /\ \E k \in 0..n : r[k] = Here
    /\ phase = "run" => r[n].i \notin 1..Len(isa) /\ r[n].tree = tree

Declaration == isa \in Isas /\ allFields = PutIDs

Underway == Declaration /\ \E n, r : History(Lists, Rest, Len(isa), n, r) /\ Follows(n, r)

LEMMA DeclarationType ==
    ASSUME Declaration
    PROVE  /\ Len(isa) \in Nat \ {0} /\ Declared(Lists, Rest, Len(isa))
           /\ \A n \in 1..Len(isa) :
                 /\ Instruction(isa[n]) /\ Lists[n] = Checks(isa[n])
                 /\ Rest[n] = Operands(isa[n]) /\ Len(Lists[n]) = Len(isa[n].dec_list)
<1>1. Len(isa) \in Nat \ {0} /\ \A n \in 1..Len(isa) : Instruction(isa[n])
  BY InstructionsAreParsed DEF Declaration
<1>2. \A n \in 1..Len(isa) : Lists[n] = Checks(isa[n]) /\ Rest[n] = Operands(isa[n])
  BY DEF Lists, Rest
<1>3. ASSUME NEW n \in 1..Len(isa)
      PROVE  /\ Checks(isa[n]) \in Seq([id : IdSet, value : Nat])
             /\ Len(Checks(isa[n])) = Len(isa[n].dec_list)
             /\ Operands(isa[n]) \in Seq(IdSet)
  BY <1>1, ChecksType, OperandsAreLeft DEF Declaration
<1>4. QED BY <1>1, <1>2, <1>3 DEF Declared

LEMMA DeclarationStays ==
    ASSUME isa' = isa, allFields' = allFields
    PROVE  Lists' = Lists /\ Rest' = Rest /\ (Declaration => Declaration')
BY DEF Lists, Rest, Declaration, Checks, Operands, IdOf, Ids

\* A step of either build is the step Built() takes.
LEMMA BuildStep ==
    ASSUME Declaration, Building, d \in 1..Len(tree) \/ l = 0, tree \in Seq(NodeSet),
           \/ AddToDecoder /\ phase' = phase
           \/ IncludeSubcheck
           \/ IncludeNext
           \/ Found
    PROVE  Here' = Built(Lists, Rest, Here)
<1>1. i \in 1..Len(isa) /\ This = Lists[i] /\ Operands(isa[i]) = Rest[i]
  BY DeclarationType DEF Building, This
<1>2. Here.tree = tree /\ Here.i = i /\ Here.l = l /\ Here.d = d
  BY DEF Here, Step
<1>3. Here' = Step(tree', i', l', d')
  BY DEF Here, Step
<1>4. Same <=> SameAs(tree, d, Lists[i][l])
  BY <1>1 DEF Same, SameAs
<1>5. CASE AddToDecoder /\ phase' = phase
  <2>1. isa[i].dec_list # <<>>
    BY <1>5 DEF AddToDecoder, Building
  <2> QED BY <1>1, <1>2, <1>3, <1>5, <2>1 DEF AddToDecoder, Built, BeginTree, Step
<1>6. CASE IncludeSubcheck
  <2>1. l < Len(Lists[i]) /\ l # 0 /\ Same /\ Follow("subcheck", Lists[i][l + 1])
    BY <1>1, <1>6 DEF IncludeSubcheck, AddCheck
  <2>2. i' = i /\ l' = l + 1
    BY <1>6 DEF IncludeSubcheck
  <2>3. tree' = DownTree(tree, d, Lists[i][l + 1]) /\ d' = To(tree[d].subcheck, tree)
    BY <2>1 DEF Follow, DownTree, To, New
  <2> QED BY <1>2, <1>3, <1>4, <2>1, <2>2, <2>3 DEF Built
<1>7. CASE IncludeNext
  <2>1. l # 0 /\ ~Same /\ Follow("next", Lists[i][l])
    BY <1>1, <1>7 DEF IncludeNext, AddCheck
  <2>2. i' = i /\ l' = l
    BY <1>7 DEF IncludeNext
  <2>3. tree' = PastTree(tree, d, Lists[i][l]) /\ d' = To(tree[d].next, tree)
    BY <2>1 DEF Follow, PastTree, To, New
  <2> QED BY <1>2, <1>3, <1>4, <2>1, <2>2, <2>3 DEF Built
<1>8. CASE Found
  BY <1>1, <1>2, <1>3, <1>4, <1>8
     DEF Found, AddCheck, Built, FoundTree, New
<1>9. QED BY <1>5, <1>6, <1>7, <1>8

LEMMA HereType ==
    ASSUME Declaration, Good(Lists, Rest, Len(isa), Here)
    PROVE  /\ tree \in Seq(NodeSet)
           /\ d \in 1..Len(tree) \/ l = 0
           /\ i \in 1..Len(isa) + 1
           /\ i \notin 1..Len(isa) => l = 0 /\ d = 0
<1>1. Here.tree = tree /\ Here.i = i /\ Here.l = l /\ Here.d = d
  BY DEF Here, Step
<1>2. PICK Over : Tree(Lists, Rest, Len(isa), Here.tree, Over)
                  /\ Place(Lists, Len(isa), Here, Over)
  BY DEF Good
<1>3. tree \in Seq(NodeSet)
  BY <1>1, <1>2 DEF Tree
<1>4. /\ i \in 1..Len(isa) + 1
      /\ l = 0 => d = 0
      /\ l # 0 => i \in 1..Len(isa) /\ d \in 1..Len(tree)
  BY <1>1, <1>2 DEF Place
<1>5. QED BY <1>3, <1>4

\* The first state of either build.
LEMMA GoodStart == ASSUME Declaration PROVE Good(Lists, Rest, Len(isa), Step(<<>>, 1, 0, 0))
<1> DEFINE q == Step(<<>>, 1, 0, 0)
           e == <<>>
<1>1. q.tree = e /\ q.i = 1 /\ q.l = 0 /\ q.d = 0
  BY DEF Step
<1>2. e \in Seq(NodeSet) /\ Len(e) = 0 /\ 1..0 = {}
  OBVIOUS
<1>3. Len(isa) \in Nat \ {0}
  BY DeclarationType
<1> HIDE DEF q, e
<1>4. Tree(Lists, Rest, Len(isa), q.tree, e)
  BY <1>1, <1>2 DEF Tree
<1>5. Place(Lists, Len(isa), q, e)
  BY <1>1, <1>2, <1>3 DEF Place
<1>6. QED BY <1>4, <1>5 DEF Good, q

\* The generator takes one step more.
LEMMA HistoryGrows ==
    ASSUME NEW C, NEW O, NEW N, NEW n, NEW r, History(C, O, N, n, r),
           r[n].i \in 1..N, Free(C, r[n]), Good(C, O, N, Built(C, O, r[n])),
           InOrder(C, N, Built(C, O, r[n])), Apart(C, Built(C, O, r[n]).i)
    PROVE  \E r2 : /\ History(C, O, N, n + 1, r2) /\ r2[n + 1] = Built(C, O, r[n])
<1> DEFINE r2 == [k \in 0..n + 1 |-> IF k = n + 1 THEN Built(C, O, r[n]) ELSE r[k]]
<1>1. n \in Nat /\ n + 1 \in Nat
  BY DEF History
<1>2. r2[n + 1] = Built(C, O, r[n])
  BY <1>1
<1>3. \A k \in 0..n : r2[k] = r[k] /\ k \in 0..n + 1
  BY <1>1
<1>4. \A k \in 0..n + 1 : k = n + 1 \/ k \in 0..n
  BY <1>1
<1> HIDE DEF r2
<1>5. 0 \in 0..n /\ n \in 0..n
  BY <1>1
<1>6. r2[0] = Step(<<>>, 1, 0, 0)
  BY <1>3, <1>5 DEF History
<1>7. \A k \in 0..n + 1 :
         Good(C, O, N, r2[k]) /\ InOrder(C, N, r2[k]) /\ Apart(C, r2[k].i)
  BY <1>2, <1>3, <1>4 DEF History
<1>8. ASSUME NEW k \in 0..n + 1 - 1
      PROVE  r2[k].i \in 1..N /\ Free(C, r2[k]) /\ r2[k + 1] = Built(C, O, r2[k])
  <2>1. CASE k = n
    BY <2>1, <1>2, <1>3, <1>5
  <2>2. CASE k # n
    <3>1. k \in 0..n - 1 /\ k \in 0..n /\ k + 1 \in 0..n
      BY <1>1, <2>2
    <3> QED BY <3>1, <1>3 DEF History
  <2> QED BY <2>1, <2>2
<1>9. QED BY <1>1, <1>2, <1>6, <1>7, <1>8 DEF History

\* A step of AddToDecoder, by the generator or by the simulator.
Adds == AddToDecoder \/ IncludeSubcheck \/ IncludeNext \/ Found

LEMMA AddsBuild ==
    ASSUME Declaration, Good(Lists, Rest, Len(isa), Here), Adds, phase' = phase
    PROVE  /\ Building /\ i \in 1..Len(isa) /\ Here' = Built(Lists, Rest, Here)
           /\ Declaration' /\ Lists' = Lists /\ Rest' = Rest
           /\ isa' = isa /\ pc' = pc
           /\ Len(Lists[i]) # 0
           /\ phase = "generate" /\ l # 0 =>
                 ~SameAs(tree, d, Lists[i][l]) \/ tree[d].found = 0
<1>1. Building /\ i \in 1..Len(isa)
  BY DEF Adds, AddToDecoder, IncludeSubcheck, IncludeNext, Found, AddCheck, Building
<1>2. isa' = isa /\ allFields' = allFields /\ pc' = pc
  BY DEF Adds, AddToDecoder, IncludeSubcheck, IncludeNext, Found, decl, search
<1>3. Declaration' /\ Lists' = Lists /\ Rest' = Rest
  BY <1>2, DeclarationStays
<1>4. d \in 1..Len(tree) \/ l = 0
  BY HereType
<1>5. tree \in Seq(NodeSet)
  BY HereType
<1>6. Here' = Built(Lists, Rest, Here)
  BY <1>1, <1>4, <1>5, BuildStep DEF Adds
<1>7. This = Lists[i] /\ Len(Lists[i]) = Len(isa[i].dec_list) /\ Len(Lists[i]) \in Nat
  <2>1. /\ Instruction(isa[i]) /\ Lists[i] = Checks(isa[i])
        /\ Len(Lists[i]) = Len(isa[i].dec_list)
    BY <1>1, DeclarationType
  <2> QED BY <2>1 DEF This, Instruction
<1>8. Len(Lists[i]) # 0
  <2>1. CASE AddToDecoder
    <3>1. isa[i].dec_list # <<>>
      BY <1>1, <2>1 DEF AddToDecoder, Building
    <3>2. isa[i].dec_list \in Seq([name : STRING, value : Nat])
      BY <1>1, DecoderAssumption DEF Declaration
    <3>3. Len(isa[i].dec_list) # 0
      BY <3>1, <3>2
    <3> QED BY <3>3, <1>7
  <2>2. CASE AddCheck
    BY <1>7, <2>2 DEF AddCheck
  <2> QED BY <2>1, <2>2 DEF Adds, IncludeSubcheck, IncludeNext, Found
<1>9. ASSUME phase = "generate", l # 0
      PROVE  ~SameAs(tree, d, Lists[i][l]) \/ tree[d].found = 0
  <2>1. ~AddToDecoder
    BY <1>9 DEF AddToDecoder
  <2>2. ~Same \/ tree[d].found = 0
    BY <1>9, <2>1 DEF Adds, IncludeSubcheck, IncludeNext, Found
  <2> QED BY <1>7, <2>2 DEF Same, SameAs
<1>10. QED BY <1>1, <1>2, <1>3, <1>6, <1>8, <1>9

LEMMA InitBuilding == Init => Underway
<1> SUFFICES ASSUME Init PROVE Underway
  OBVIOUS
<1>1. Declaration
  BY DEF Init, Declaration
<1> DEFINE r == [k \in 0..0 |-> Step(<<>>, 1, 0, 0)]
<1>2. r[0] = Step(<<>>, 1, 0, 0) /\ \A k \in 0..0 : k = 0
  OBVIOUS
<1>3. 0..0 - 1 = {}
  OBVIOUS
<1>4. Here = Step(<<>>, 1, 0, 0)
  BY DEF Init, Here
<1> HIDE DEF r
<1>5. History(Lists, Rest, Len(isa), 0, r)
  <2>1. Apart(Lists, r[0].i)
    <3>1. r[0].i = 1 /\ 1..1 - 1 = {}
      BY <1>2 DEF Step
    <3> QED BY <3>1 DEF Apart
  <2> QED BY <1>1, <1>2, <1>3, <2>1, GoodStart, InOrderStart, DeclarationType DEF History
<1>6. Follows(0, r)
  BY <1>2, <1>4 DEF Follows, Init
<1>7. QED BY <1>1, <1>5, <1>6 DEF Underway

\* In the middle of a build the tree is good.
LEMMA HereGood ==
    ASSUME NEW n, NEW r, History(Lists, Rest, Len(isa), n, r), Follows(n, r),
           phase \in {"generate", "elaborate"}
    PROVE  Good(Lists, Rest, Len(isa), Here)
<1>1. n \in 0..n /\ \A k \in 0..n : Good(Lists, Rest, Len(isa), r[k])
  BY DEF History
<1>2. QED BY <1>1 DEF Follows

LEMMA GeneratorAdds ==
    ASSUME Underway, Adds, phase' = phase, phase = "generate"
    PROVE  Underway'
<1>1. PICK n, r : History(Lists, Rest, Len(isa), n, r) /\ Follows(n, r)
  BY DEF Underway
<1>2. Declaration /\ Good(Lists, Rest, Len(isa), Here) /\ r[n] = Here
  BY <1>1, HereGood DEF Underway, Follows
<1>3. /\ i \in 1..Len(isa) /\ Here' = Built(Lists, Rest, Here)
      /\ Declaration' /\ Lists' = Lists /\ Rest' = Rest /\ isa' = isa
      /\ Len(Lists[i]) # 0
      /\ l # 0 => ~SameAs(tree, d, Lists[i][l]) \/ tree[d].found = 0
  BY <1>2, AddsBuild
<1>4. Here.tree = tree /\ Here.i = i /\ Here.l = l /\ Here.d = d
  BY DEF Here, Step
<1>5. /\ Good(Lists, Rest, Len(isa), Built(Lists, Rest, Here)) /\ Free(Lists, Here)
      /\ InOrder(Lists, Len(isa), Built(Lists, Rest, Here))
      /\ Apart(Lists, Built(Lists, Rest, Here).i)
  <2>1. Declared(Lists, Rest, Len(isa))
    BY <1>2, DeclarationType
  <2>2. InOrder(Lists, Len(isa), Here) /\ Apart(Lists, Here.i)
    <3>1. n \in 0..n
      BY <1>1 DEF History
    <3> QED BY <1>1, <1>2, <3>1 DEF History
  <2>3. Free(Lists, Here)
    BY <1>3, <1>4 DEF Free
  <2> QED BY <1>2, <1>3, <1>4, <2>1, <2>2, <2>3, GoodStep, InOrderStep, ApartStep
<1>6. PICK r2 : History(Lists, Rest, Len(isa), n + 1, r2)
                /\ r2[n + 1] = Built(Lists, Rest, r[n])
  BY <1>1, <1>2, <1>3, <1>4, <1>5, HistoryGrows
<1>7. History(Lists', Rest', Len(isa'), n + 1, r2)
  BY <1>3, <1>6
<1>8. Follows(n + 1, r2)'
  <2>1. r2[n + 1] = Here'
    BY <1>2, <1>3, <1>6
  <2> QED BY <2>1 DEF Follows
<1>9. QED BY <1>3, <1>7, <1>8 DEF Underway

LEMMA SimulatorAdds ==
    ASSUME Underway, Adds, phase' = phase, phase = "elaborate"
    PROVE  Underway'
<1>1. PICK n, r : History(Lists, Rest, Len(isa), n, r) /\ Follows(n, r)
  BY DEF Underway
<1>2. Declaration /\ Good(Lists, Rest, Len(isa), Here)
  BY <1>1, HereGood DEF Underway
<1>3. /\ i \in 1..Len(isa) /\ Here' = Built(Lists, Rest, Here)
      /\ Declaration' /\ Lists' = Lists /\ Rest' = Rest /\ isa' = isa
  BY <1>2, AddsBuild
<1>4. PICK k \in 0..n : r[k] = Here
  BY <1>1 DEF Follows
<1>5. r[n].i \notin 1..Len(isa)
  BY <1>1 DEF Follows
<1>6. Here.i = i
  BY DEF Here, Step
<1>7. k # n /\ n \in Nat
  BY <1>1, <1>3, <1>4, <1>5, <1>6 DEF History
<1>8. k \in 0..n - 1 /\ k + 1 \in 0..n
  BY <1>7
<1>9. r[k + 1] = Here'
  BY <1>1, <1>3, <1>4, <1>8 DEF History
<1>10. Follows(n, r)'
  BY <1>3, <1>5, <1>8, <1>9 DEF Follows
<1>11. History(Lists', Rest', Len(isa'), n, r)
  BY <1>1, <1>3
<1>12. QED BY <1>3, <1>10, <1>11 DEF Underway

LEMMA BuildingEnds ==
    ASSUME Underway, phase' \notin {"generate", "elaborate", "run"},
           isa' = isa, allFields' = allFields
    PROVE  Underway'
<1>1. PICK n, r : History(Lists, Rest, Len(isa), n, r) /\ Follows(n, r)
  BY DEF Underway
<1>2. Declaration' /\ Lists' = Lists /\ Rest' = Rest
  BY DeclarationStays DEF Underway
<1>3. Follows(n, r)'
  BY DEF Follows
<1>4. History(Lists', Rest', Len(isa'), n, r)
  BY <1>1, <1>2
<1>5. QED BY <1>2, <1>3, <1>4 DEF Underway

\* The simulator starts to build; it starts from nothing.
LEMMA ElaborateBuilds == ASSUME Underway, Elaborate PROVE Underway'
<1>1. PICK n, r : History(Lists, Rest, Len(isa), n, r) /\ Follows(n, r)
  BY DEF Underway
<1>2. /\ isa' = isa /\ allFields' = allFields /\ tree' = <<>> /\ i' = 1
      /\ l' = l /\ d' = d /\ phase = "generate" /\ phase' = "elaborate" /\ i > Len(isa)
  BY DEF Elaborate, decl
<1>3. Declaration' /\ Lists' = Lists /\ Rest' = Rest
  BY <1>2, DeclarationStays DEF Underway
<1>4. Declaration /\ Good(Lists, Rest, Len(isa), Here) /\ Len(isa) \in Nat
  BY <1>1, <1>2, HereGood, DeclarationType DEF Underway
<1>5. i \in 1..Len(isa) + 1
  BY <1>4, HereType
<1>6. i \notin 1..Len(isa)
  BY <1>2, <1>4, <1>5
<1>7. l = 0 /\ d = 0
  BY <1>4, <1>6, HereType
<1>8. Here' = Step(<<>>, 1, 0, 0)
  BY <1>2, <1>7 DEF Here
<1>9. r[n].tree = tree /\ r[n].i = i /\ r[0] = Step(<<>>, 1, 0, 0) /\ 0 \in 0..n
  BY <1>1, <1>2 DEF Follows, Here, Step, History
<1>10. Follows(n, r)'
  BY <1>2, <1>6, <1>8, <1>9 DEF Follows
<1>11. History(Lists', Rest', Len(isa'), n, r)
  BY <1>1, <1>2, <1>3
<1>12. QED BY <1>3, <1>10, <1>11 DEF Underway

\* The last states of the two builds are the same.
LEMMA HistoryEnds ==
    ASSUME NEW C, NEW O, NEW N, NEW n, NEW r, History(C, O, N, n, r),
           NEW k \in 0..n, r[k].i \notin 1..N
    PROVE  k = n
<1>1. n \in Nat
  BY DEF History
<1>2. CASE k # n
  <2>1. k \in 0..n - 1
    BY <1>1, <1>2
  <2> QED BY <2>1 DEF History
<1>3. QED BY <1>2

\* The tree at the end of the steps has all instructions in it, in order.
LEMMA EndsInOrder ==
    ASSUME NEW C, NEW O, NEW N \in Nat, NEW n, NEW r, History(C, O, N, n, r),
           r[n].i \notin 1..N
    PROVE  \E Live, From, Depth : Settled(C, N, r[n].tree, Live, From, Depth)
<1>1. InOrder(C, N, r[n])
  <2>1. n \in 0..n
    BY DEF History
  <2> QED BY <2>1 DEF History
<1>2. PICK Live, From, Depth : /\ Ranked(C, N, r[n].i, r[n].tree, Live, From, Depth)
                               /\ Standing(C, N, r[n], Live, From, Depth)
  BY <1>1 DEF InOrder
<1>3. r[n].i = N + 1
  BY <1>2 DEF Standing
<1>4. QED BY <1>2, <1>3 DEF Settled

LEMMA RunBuilds ==
    ASSUME Underway, Run
    PROVE  /\ Underway' /\ Good(Lists, Rest, Len(isa), Here) /\ i \notin 1..Len(isa)
           /\ \E Live, From, Depth : Settled(Lists, Len(isa), tree, Live, From, Depth)
<1>1. PICK n, r : History(Lists, Rest, Len(isa), n, r) /\ Follows(n, r)
  BY DEF Underway
<1>2. /\ isa' = isa /\ allFields' = allFields /\ tree' = tree
      /\ phase = "elaborate" /\ phase' = "run" /\ i > Len(isa)
  BY DEF Run, decl
<1>3. Declaration' /\ Lists' = Lists /\ Rest' = Rest
  BY <1>2, DeclarationStays DEF Underway
<1>4. Declaration /\ Good(Lists, Rest, Len(isa), Here) /\ Len(isa) \in Nat
  BY <1>1, <1>2, HereGood, DeclarationType DEF Underway
<1>5. i \in 1..Len(isa) + 1
  BY <1>4, HereType
<1>6. i \notin 1..Len(isa)
  BY <1>2, <1>4, <1>5
<1>7. PICK k \in 0..n : r[k] = Here
  BY <1>1, <1>2 DEF Follows
<1>8. r[k].i \notin 1..Len(isa) /\ r[k].tree = tree
  BY <1>6, <1>7 DEF Here, Step
<1>9. k = n
  BY <1>1, <1>8, HistoryEnds
<1>10. Follows(n, r)'
  BY <1>2, <1>8, <1>9 DEF Follows
<1>11. History(Lists', Rest', Len(isa'), n, r)
  BY <1>1, <1>2, <1>3
<1>12. Underway'
  BY <1>3, <1>10, <1>11 DEF Underway
<1>13. \E Live, From, Depth : Settled(Lists, Len(isa), tree, Live, From, Depth)
  <2>1. r[n].i \notin 1..Len(isa) /\ r[n].tree = tree
    BY <1>8, <1>9
  <2> QED BY <1>1, <1>4, <2>1, EndsInOrder
<1>14. QED BY <1>4, <1>6, <1>12, <1>13

\* A step that leaves the declarations and the trees alone.
LEMMA BuildingKept ==
    ASSUME Underway, isa' = isa, allFields' = allFields, tree' = tree,
           phase' = phase, phase = "run" \/ (i' = i /\ l' = l /\ d' = d)
    PROVE  Underway'
<1>1. PICK n, r : History(Lists, Rest, Len(isa), n, r) /\ Follows(n, r)
  BY DEF Underway
<1>2. Declaration' /\ Lists' = Lists /\ Rest' = Rest
  BY DeclarationStays DEF Underway
<1>3. phase = "run" \/ Here' = Here
  BY DEF Here, Step
<1>4. Follows(n, r)'
  <2>1. CASE phase = "run"
    BY <1>1, <2>1 DEF Follows
  <2>2. CASE phase # "run"
    BY <1>1, <1>3, <2>2 DEF Follows
  <2> QED BY <2>1, <2>2
<1>5. History(Lists', Rest', Len(isa'), n, r)
  BY <1>1, <1>2
<1>6. QED BY <1>2, <1>4, <1>5 DEF Underway

-----------------------------------------------------------------------------
(* The search.                                                             *)

\* The value of a field in a word.
Value(w, id) == Bits(w, PutIDs[id])

\* The fields checked on the way to node n have been stored.
Stored(f, w, Over, n) == \A id \in Over[n] : id \in IdSet /\ f[id] = Value(w, id)

\* A tree without open ends.
Complete(C, O, N, t, Over) ==
    Tree(C, O, N, t, Over) /\ Len(t) # 0 /\ \A n \in 1..Len(t) : ~Ends(t, n)

\* The levels of the search stand at checks; only the last can be past its end.
Path(Over) ==
    /\ chosenPath \in Seq(Nat) /\ Len(chosenPath) # 0
    /\ chosenPath[Len(chosenPath)] = d
    /\ d # 0 => d \in 1..Len(tree) /\ IsCheck(tree, d)
    /\ \A k \in 1..Len(chosenPath) - 1 :
          chosenPath[k] \in 1..Len(tree) /\ IsCheck(tree, chosenPath[k])
    /\ \A k \in 1..Len(chosenPath) : chosenPath[k] # 0 => Stored(fields, word, Over, chosenPath[k])

Cached ==
    /\ d = 0 => field # NoField
    /\ field # NoField => field = [id |-> field.id, value |-> Value(word, field.id)]
    /\ field # NoField /\ d # 0 => field.id = tree[d].id

\* The array of results has an entry for every field.
Results == fields = [id \in IdSet |-> fields[id]]

Simulating == phase = "run" =>
    \E Over : /\ Complete(Lists, Rest, Len(isa), tree, Over)
              /\ pc = "search" => Path(Over) /\ Cached

LEMMA ValueIs ==
    ASSUME Declaration, NEW w, NEW id
    PROVE  GetBits(w, id) = Value(w, id)
BY DEF Declaration, GetBits, Value

\* What is read at a node is the value of its field, and not NULL.
LEMMA ReadIs ==
    ASSUME Declaration, Cached, tree \in Seq(NodeSet), d \in 1..Len(tree)
    PROVE  /\ tree[d].id \in IdSet
           /\ FieldRead = [id |-> tree[d].id, value |-> Value(word, tree[d].id)]
           /\ FieldRead # NoField /\ FieldRead.value = Value(word, tree[d].id)
           /\ FieldRead.id = tree[d].id
<1>1. tree[d] \in NodeSet
  BY ONLY tree \in Seq(NodeSet), d \in 1..Len(tree)
<1>2. tree[d].id \in IdSet /\ tree[d].id # 0 /\ d # 0
  <2>1. tree[d].id \in IdSet
    BY ONLY <1>1 DEF NodeSet
  <2>2. \A x \in IdSet : x # 0
    BY ONLY TRUE DEF IdSet
  <2>3. d # 0
    BY ONLY d \in 1..Len(tree)
  <2> QED BY <2>1, <2>2, <2>3
<1>3. FieldRead = [id |-> tree[d].id, value |-> Value(word, tree[d].id)]
  <2>1. CASE field = NoField
    BY <2>1, ValueIs DEF FieldRead
  <2>2. CASE field # NoField
    BY <2>2, <1>2 DEF FieldRead, Cached
  <2> QED BY <2>1, <2>2
<1> DEFINE f == [id |-> tree[d].id, value |-> Value(word, tree[d].id)]
<1>4. f.id = tree[d].id /\ f.value = Value(word, tree[d].id)
  OBVIOUS
<1>5. NoField.id = 0
  BY DEF NoField
<1> HIDE DEF f
<1>6. f # NoField
  BY <1>2, <1>4, <1>5
<1>7. FieldRead = f
  BY <1>3 DEF f
<1>8. QED BY <1>2, <1>3, <1>4, <1>6, <1>7

\* Storing the value of a field in the word leaves stored what was.
LEMMA StoredStays ==
    ASSUME NEW Over, NEW n, Stored(fields, word, Over, n), word' = word,
           \A id \in IdSet : fields'[id] = fields[id] \/ fields'[id] = Value(word, id)
    PROVE  Stored(fields', word', Over, n)
<1> SUFFICES ASSUME NEW id \in Over[n]
             PROVE  id \in IdSet /\ fields'[id] = Value(word', id)
  BY DEF Stored
<1>1. id \in IdSet /\ fields[id] = Value(word, id)
  BY DEF Stored
<1>2. fields'[id] = fields[id] \/ fields'[id] = Value(word, id)
  BY <1>1
<1>3. QED BY <1>1, <1>2

\* The first child of a check that is not the last, and the node after a check.
LEMMA ChildIs ==
    ASSUME NEW C, NEW O, NEW N, NEW t, NEW Over, Complete(C, O, N, t, Over),
           NEW n \in 1..Len(t), IsCheck(t, n)
    PROVE  /\ t[n].found = 0 =>
                 /\ t[n].subcheck # 0 /\ t[n].subcheck \in 1..Len(t)
                 /\ IsCheck(t, t[n].subcheck)
                 /\ Over[t[n].subcheck] = Over[n] \cup {t[n].id}
           /\ t[n].next # 0 => /\ t[n].next \in 1..Len(t) /\ IsCheck(t, t[n].next)
                               /\ Over[t[n].next] = Over[n]
           /\ t[n].next \in Nat /\ t[n].subcheck \in Nat
<1>1. LinkedAt(t, Over, n) /\ ~Ends(t, n) /\ t \in Seq(NodeSet)
  BY DEF Complete, Tree
<1>2. t[n] \in NodeSet
  BY <1>1
<1>3. t[n].next \in Nat /\ t[n].subcheck \in Nat
  BY <1>2 DEF NodeSet
<1>4. QED BY <1>1, <1>3 DEF LinkedAt, Ends

LEMMA DecodeSearches ==
    ASSUME NEW Over, NEW w, Complete(Lists, Rest, Len(isa), tree, Over), Decode(w)
    PROVE  Path(Over)' /\ Cached'
<1>1. d' = 1 /\ chosenPath' = <<1>> /\ field' = NoField /\ tree' = tree
  BY DEF Decode
<1>2. IsCheck(tree, 1) /\ Over[1] = {} /\ 1 \in 1..Len(tree)
  <2>1. tree \in Seq(NodeSet) /\ Len(tree) # 0
    BY DEF Complete, Tree
  <2>2. 1 \in 1..Len(tree)
    BY <2>1
  <2> QED BY <2>2 DEF Complete, Tree
<1> DEFINE c == <<1>>
<1>3. c \in Seq(Nat) /\ Len(c) = 1 /\ c[1] = 1
  OBVIOUS
<1>4. chosenPath' = c
  BY <1>1
<1> HIDE DEF c
<1>5. Stored(fields', word', Over, 1)
  BY <1>2 DEF Stored
<1>6. 1..0 = {} /\ 1 - 1 = 0 /\ \A k \in 1..1 : k = 1
  OBVIOUS
<1>7. Path(Over)'
  BY <1>1, <1>2, <1>3, <1>4, <1>5, <1>6 DEF Path
<1>8. Cached'
  BY <1>1 DEF Cached
<1>9. QED BY <1>7, <1>8

\* What the search keeps when it goes to node n.
LEMMA KeptIs ==
    ASSUME NEW n, NEW f, f # NoField,
           f = [id |-> f.id, value |-> Value(word, f.id)],
           d' = n, tree' = tree, word' = word, field' = Kept(n, f)
    PROVE  Cached'
<1>1. CASE n # 0 /\ tree[n].id # f.id
  <2>1. field' = NoField
    BY <1>1 DEF Kept
  <2> QED BY <1>1, <2>1 DEF Cached
<1>2. CASE ~(n # 0 /\ tree[n].id # f.id)
  <2>1. field' = f
    BY <1>2 DEF Kept
  <2>2. field' = [id |-> field'.id, value |-> Value(word', field'.id)]
    BY <2>1
  <2> QED BY <1>2, <2>1, <2>2 DEF Cached
<1>3. QED BY <1>1, <1>2

LEMMA SubcheckSearches ==
    ASSUME Declaration, Results, NEW Over,
           Complete(Lists, Rest, Len(isa), tree, Over), Path(Over), Cached, FollowSubcheck
    PROVE  Path(Over)' /\ Cached' /\ Results'
<1>1. /\ tree' = tree /\ word' = word /\ field' = NoField
      /\ d # 0 /\ tree[d].found = 0 /\ d' = tree[d].subcheck
      /\ chosenPath' = Append(chosenPath, tree[d].subcheck)
      /\ fields' = [fields EXCEPT ![tree[d].id] = FieldRead.value]
  BY DEF FollowSubcheck, Searching
<1>2. tree \in Seq(NodeSet) /\ d \in 1..Len(tree) /\ IsCheck(tree, d)
  BY <1>1 DEF Complete, Tree, Path
<1> DEFINE s == tree[d].subcheck
           h == Len(chosenPath)
<1>3. /\ s # 0 /\ s \in 1..Len(tree) /\ IsCheck(tree, s) /\ s \in Nat
      /\ Over[s] = Over[d] \cup {tree[d].id}
  BY <1>1, <1>2, ChildIs
<1>4. tree[d].id \in IdSet /\ FieldRead.value = Value(word, tree[d].id)
  BY <1>2, ReadIs
<1>5. fields = [id \in IdSet |-> fields[id]]
  BY DEF Results
<1>6. \A id \in IdSet : fields'[id] = IF id = tree[d].id THEN Value(word, id) ELSE fields[id]
  BY <1>1, <1>4, <1>5
<1>7. Results'
  BY <1>1, <1>5 DEF Results
<1>8. chosenPath \in Seq(Nat) /\ h \in Nat /\ h # 0 /\ chosenPath[h] = d
  BY DEF Path
<1> HIDE DEF s
<1>9. /\ chosenPath' \in Seq(Nat) /\ Len(chosenPath') = h + 1 /\ chosenPath'[h + 1] = s
      /\ \A k \in 1..h : chosenPath'[k] = chosenPath[k]
  BY <1>1, <1>3, <1>8 DEF s
<1>10. ASSUME NEW k \in 1..h
       PROVE  chosenPath[k] \in 1..Len(tree) /\ IsCheck(tree, chosenPath[k])
  <2>1. k = h \/ k \in 1..h - 1
    BY <1>8
  <2> QED BY <2>1, <1>2, <1>8 DEF Path
<1>11. ASSUME NEW n, Stored(fields, word, Over, n) PROVE Stored(fields', word', Over, n)
  <2>1. \A id \in IdSet : fields'[id] = fields[id] \/ fields'[id] = Value(word, id)
    BY <1>6
  <2> QED BY <1>1, <1>11, <2>1, StoredStays
<1>12. Stored(fields', word', Over, s)
  <2>1. Stored(fields, word, Over, d)
    <3>1. h \in 1..Len(chosenPath) /\ chosenPath[h] = d /\ d # 0
      BY <1>1, <1>8
    <3>2. \A k \in 1..Len(chosenPath) :
             chosenPath[k] # 0 => Stored(fields, word, Over, chosenPath[k])
      BY DEF Path
    <3> HIDE DEF h
    <3> QED BY <3>1, <3>2
  <2>2. Stored(fields', word', Over, d)
    BY <1>11, <2>1
  <2>3. tree[d].id \in IdSet /\ fields'[tree[d].id] = Value(word', tree[d].id)
    BY <1>1, <1>4, <1>6
  <2> QED BY <1>3, <2>2, <2>3 DEF Stored
<1>13. ASSUME NEW k \in 1..h + 1, chosenPath'[k] # 0
       PROVE  Stored(fields', word', Over, chosenPath'[k])
  <2>1. CASE k = h + 1
    BY <2>1, <1>9, <1>12
  <2>2. CASE k # h + 1
    <3>1. k \in 1..h /\ chosenPath'[k] = chosenPath[k]
      BY <2>2, <1>8, <1>9
    <3>2. Stored(fields, word, Over, chosenPath[k])
      BY <3>1, <1>13 DEF Path
    <3> QED BY <1>11, <3>1, <3>2
  <2> QED BY <2>1, <2>2
<1>14. h + 1 - 1 = h /\ h + 1 # 0
  BY <1>8
<1>15. Path(Over)'
  <2>1. d' = s
    BY <1>1 DEF s
  <2>2. \A k \in 1..Len(chosenPath)' - 1 :
            chosenPath'[k] \in 1..Len(tree') /\ IsCheck(tree, chosenPath[k])'
    BY <1>1, <1>9, <1>10, <1>14 DEF IsCheck
  <2>3. \A k \in 1..Len(chosenPath)' : chosenPath'[k] # 0 =>
              Stored(fields', word', Over, chosenPath'[k])
    BY <1>9, <1>13
  <2>4. IsCheck(tree, d)'
    BY <1>1, <1>3, <2>1 DEF IsCheck
  <2> QED BY <1>1, <1>3, <1>9, <1>14, <2>1, <2>2, <2>3, <2>4 DEF Path
<1>16. Cached'
  BY <1>1, <1>3 DEF Cached, s
<1>17. QED BY <1>7, <1>15, <1>16

\* A level goes on to the next node.
LEMMA LevelMoves ==
    ASSUME NEW Over, Complete(Lists, Rest, Len(isa), tree, Over),
           NEW up \in Seq(Nat), Len(up) # 0,
           \A k \in 1..Len(up) : /\ up[k] \in 1..Len(tree) /\ IsCheck(tree, up[k])
                                 /\ Stored(fields, word, Over, up[k]),
           NEW n, n = tree[up[Len(up)]].next,
           chosenPath' = [up EXCEPT ![Len(up)] = n], d' = n,
           tree' = tree, word' = word, fields' = fields
    PROVE  Path(Over)'
<1> DEFINE h == Len(up)
           c == chosenPath'
<1>1. h \in Nat /\ h # 0 /\ h \in 1..h
  OBVIOUS
<1>2. /\ n # 0 => n \in 1..Len(tree) /\ IsCheck(tree, n) /\ Over[n] = Over[up[h]]
      /\ n \in Nat
  <2> DEFINE x == up[h]
  <2>1. x \in 1..Len(tree) /\ IsCheck(tree, x)
    BY <1>1
  <2> HIDE DEF x
  <2>2. /\ tree[x].next # 0 => /\ tree[x].next \in 1..Len(tree) /\ IsCheck(tree, tree[x].next)
                               /\ Over[tree[x].next] = Over[x]
        /\ tree[x].next \in Nat
    BY <2>1, ChildIs
  <2>3. n = tree[x].next
    BY DEF x
  <2> QED BY <2>2, <2>3 DEF x
<1>3. /\ c \in Seq(Nat) /\ Len(c) = h /\ c[h] = n
      /\ \A k \in 1..h : k # h => c[k] = up[k]
  BY <1>1, <1>2
<1> HIDE DEF c
<1>4. \A k \in 1..h - 1 : k \in 1..h /\ k # h
  BY <1>1
<1>5. \A k \in 1..h - 1 : c[k] \in 1..Len(tree) /\ IsCheck(tree, c[k])
  <2> SUFFICES ASSUME NEW k \in 1..h - 1 PROVE c[k] \in 1..Len(tree) /\ IsCheck(tree, c[k])
    OBVIOUS
  <2>1. k \in 1..h /\ c[k] = up[k]
    BY <1>3, <1>4
  <2> QED BY <2>1
<1>6. ASSUME NEW k \in 1..h, c[k] # 0 PROVE Stored(fields', word', Over, c[k])
  <2>1. CASE k = h
    <3>1. Stored(fields, word, Over, up[h])
      BY <1>1
    <3>2. c[k] = n /\ Over[n] = Over[up[h]]
      BY <2>1, <1>2, <1>3, <1>6
    <3>3. Stored(fields, word, Over, n)
      BY <3>1, <3>2 DEF Stored
    <3> QED BY <3>2, <3>3
  <2>2. CASE k # h
    <3>1. c[k] = up[k] /\ Stored(fields, word, Over, up[k])
      BY <2>2, <1>3
    <3> QED BY <3>1
  <2> QED BY <2>1, <2>2
<1>7. Len(chosenPath)' = h
  BY <1>3 DEF c
<1>8. d' # 0 => d' \in 1..Len(tree') /\ IsCheck(tree, d)'
  BY <1>2 DEF IsCheck
<1>9. \A k \in 1..Len(chosenPath)' - 1 :
          chosenPath'[k] \in 1..Len(tree') /\ IsCheck(tree, chosenPath[k])'
  <2> HIDE DEF h
  <2> QED BY <1>5, <1>7 DEF c, IsCheck
<1>10. \A k \in 1..Len(chosenPath)' : chosenPath'[k] # 0 =>
          Stored(fields', word', Over, chosenPath'[k])
  <2> HIDE DEF h
  <2> QED BY <1>6, <1>7 DEF c
<1>11. /\ chosenPath' \in Seq(Nat) /\ Len(chosenPath)' # 0
       /\ chosenPath'[Len(chosenPath)'] = d'
  <2> HIDE DEF h
  <2> QED BY <1>1, <1>3, <1>7 DEF c
<1>12. QED BY <1>8, <1>9, <1>10, <1>11 DEF Path

LEMMA NextSearches ==
    ASSUME Declaration, NEW Over,
           Complete(Lists, Rest, Len(isa), tree, Over), Path(Over), Cached, FollowNext
    PROVE  Path(Over)' /\ Cached'
<1> DEFINE n == tree[d].next
           h == Len(chosenPath)
<1>1. /\ tree' = tree /\ word' = word /\ fields' = fields /\ d # 0 /\ d' = n
      /\ field' = Kept(n, FieldRead) /\ chosenPath' = [chosenPath EXCEPT ![h] = n]
  BY DEF FollowNext, Searching
<1>2. tree \in Seq(NodeSet) /\ d \in 1..Len(tree) /\ IsCheck(tree, d)
  BY <1>1 DEF Complete, Tree, Path
<1>3. chosenPath \in Seq(Nat) /\ h \in Nat /\ h # 0 /\ chosenPath[h] = d
  BY DEF Path
<1>4. ASSUME NEW k \in 1..h
      PROVE  /\ chosenPath[k] \in 1..Len(tree) /\ IsCheck(tree, chosenPath[k])
             /\ Stored(fields, word, Over, chosenPath[k])
  <2>1. k = h \/ k \in 1..h - 1
    BY <1>3
  <2>2. chosenPath[k] \in 1..Len(tree) /\ IsCheck(tree, chosenPath[k])
    BY <2>1, <1>2, <1>3 DEF Path
  <2>3. chosenPath[k] # 0
    BY <1>2, <2>2
  <2> QED BY <2>2, <2>3 DEF Path
<1>5. Path(Over)'
  <2>1. n = tree[chosenPath[h]].next
    BY <1>3
  <2> HIDE DEF n
  <2> QED BY <2>1, <1>1, <1>3, <1>4, LevelMoves
<1>6. /\ FieldRead = [id |-> tree[d].id, value |-> Value(word, tree[d].id)]
      /\ FieldRead # NoField /\ FieldRead.id = tree[d].id
  BY <1>2, ReadIs
<1>7. Cached'
  <2>1. FieldRead = [id |-> FieldRead.id, value |-> Value(word, FieldRead.id)]
    BY <1>6
  <2> HIDE DEF n
  <2> QED BY <1>1, <1>6, <2>1, KeptIs
<1>8. QED BY <1>5, <1>7

\* The path without its last node.
LEMMA FrontOf ==
    ASSUME NEW S, NEW s \in Seq(S), NEW n \in Nat \ {0}, Len(s) = n + 1
    PROVE  /\ Front(s) \in Seq(S) /\ Len(Front(s)) = n
           /\ \A k \in 1..n : Front(s)[k] = s[k]
<1>1. Len(s) - 1 = n /\ n <= Len(s)
  OBVIOUS
<1>2. Front(s) = SubSeq(s, 1, n)
  BY <1>1 DEF Front
<1>3. QED BY <1>1, <1>2

LEMMA BacktrackSearches ==
    ASSUME Declaration, NEW Over,
           Complete(Lists, Rest, Len(isa), tree, Over), Path(Over), Cached, Backtrack
    PROVE  Path(Over)' /\ Cached'
<1> DEFINE up == Front(chosenPath)
           h == Len(chosenPath)
           n == tree[Last(up)].next
<1>1. /\ tree' = tree /\ word' = word /\ fields' = fields /\ d = 0 /\ d' = n /\ h > 1
      /\ field' = Kept(n, field) /\ chosenPath' = [up EXCEPT ![Len(up)] = n]
  BY DEF Backtrack
<1>2. chosenPath \in Seq(Nat) /\ h \in Nat
  BY DEF Path
<1>3. /\ up \in Seq(Nat) /\ Len(up) = h - 1 /\ Len(up) # 0
      /\ \A k \in 1..h - 1 : up[k] = chosenPath[k] /\ k \in 1..h
  <2>1. Len(chosenPath) = h
    OBVIOUS
  <2> HIDE DEF h
  <2>2. h > 1 /\ h \in Nat
    BY <1>1, <1>2
  <2>3. h - 1 \in Nat \ {0} /\ h = (h - 1) + 1 /\ \A k \in 1..h - 1 : k \in 1..h
    BY <2>2
  <2> DEFINE m == h - 1
  <2>4. m \in Nat \ {0} /\ Len(chosenPath) = m + 1
    BY <2>1, <2>3
  <2> HIDE DEF m
  <2>5. up \in Seq(Nat) /\ Len(up) = m /\ \A k \in 1..m : up[k] = chosenPath[k]
    BY <1>2, <2>4, FrontOf
  <2> HIDE DEF up
  <2> QED BY <2>3, <2>4, <2>5 DEF m
<1>4. ASSUME NEW k \in 1..Len(up)
      PROVE  /\ up[k] \in 1..Len(tree) /\ IsCheck(tree, up[k])
             /\ Stored(fields, word, Over, up[k])
  <2>1. k \in 1..h - 1 /\ up[k] = chosenPath[k] /\ k \in 1..h
    BY <1>3
  <2>2. chosenPath[k] \in 1..Len(tree) /\ IsCheck(tree, chosenPath[k])
    BY <2>1 DEF Path
  <2>3. chosenPath[k] # 0
    <3>1. \A x \in 1..Len(tree) : x # 0
      BY DEF Complete, Tree
    <3> QED BY <2>2, <3>1
  <2> QED BY <2>1, <2>2, <2>3 DEF Path
<1>5. n = tree[up[Len(up)]].next
  BY DEF Last
<1> HIDE DEF n, up
<1>6. Path(Over)'
  BY <1>1, <1>3, <1>4, <1>5, LevelMoves
<1>7. field # NoField /\ field = [id |-> field.id, value |-> Value(word, field.id)]
  BY <1>1 DEF Cached
<1>8. Cached'
  BY <1>1, <1>7, KeptIs
<1>9. QED BY <1>6, <1>8

\* The ids of a chain of guide nodes: the recursive set Chain is well defined,
\* because the nodes that can be reached from a node are.
LEMMA ChainExists ==
    ASSUME tree \in Seq(NodeSet),
           \A n \in 1..Len(tree) : tree[n].subcheck # 0 => tree[n].subcheck \in 1..Len(tree)
    PROVE  /\ Chain[0] = {}
           /\ \A n \in 1..Len(tree) : Chain[n] = {tree[n].id} \cup Chain[tree[n].subcheck]
<1> DEFINE L == 1..Len(tree)
           Closed(Q) == \A x \in Q : tree[x].subcheck # 0 => tree[x].subcheck \in Q
           Reach(n) == {m \in L : \A Q \in SUBSET L : n \in Q /\ Closed(Q) => m \in Q}
           f == [n \in 0..Len(tree) |-> IF n = 0 THEN {} ELSE {tree[m].id : m \in Reach(n)}]
           Is(g) == g = [n \in 0..Len(tree) |->
                          IF n = 0 THEN {} ELSE {tree[n].id} \cup g[tree[n].subcheck]]
<1>1. /\ Len(tree) \in Nat /\ 0 \in 0..Len(tree) /\ 0 \notin L
      /\ \A n \in L : n \in 0..Len(tree) /\ n # 0
  OBVIOUS
<1>2. \A n \in 0..Len(tree) : n # 0 => n \in L
  OBVIOUS
<1>3. \A n \in L : tree[n].subcheck # 0 => tree[n].subcheck \in L
  OBVIOUS
<1> HIDE DEF L
<1>4. ASSUME NEW n \in L, tree[n].subcheck # 0
      PROVE  Reach(n) = {n} \cup Reach(tree[n].subcheck)
  <2> DEFINE s == tree[n].subcheck
  <2>1. s \in L
    BY <1>3, <1>4
  <2>2. ASSUME NEW m \in Reach(s) PROVE m \in Reach(n)
    <3> SUFFICES ASSUME NEW Q \in SUBSET L, n \in Q, Closed(Q) PROVE m \in Q
      BY <2>2
    <3>1. s \in Q
      BY <1>4
    <3> QED BY <2>2, <3>1
  <2>3. n \in Reach(n)
    OBVIOUS
  <2>4. ASSUME NEW m \in Reach(n) PROVE m \in {n} \cup Reach(s)
    <3> DEFINE Q == {n} \cup Reach(s)
    <3>1. Q \in SUBSET L /\ n \in Q
      OBVIOUS
    <3>2. s \in Reach(s)
      BY <2>1
    <3>3. ASSUME NEW x \in Reach(s), tree[x].subcheck # 0 PROVE tree[x].subcheck \in Reach(s)
      <4>1. x \in L /\ tree[x].subcheck \in L
        BY <3>3, <1>3
      <4>2. ASSUME NEW P \in SUBSET L, s \in P, Closed(P) PROVE tree[x].subcheck \in P
        <5>1. x \in P
          BY <4>2
        <5> QED BY <5>1, <4>2, <3>3
      <4> QED BY <4>1, <4>2
    <3>4. Closed(Q)
      <4> SUFFICES ASSUME NEW x \in Q, tree[x].subcheck # 0 PROVE tree[x].subcheck \in Q
        OBVIOUS
      <4>1. CASE x = n
        BY <4>1, <3>2
      <4>2. CASE x \in Reach(s)
        <5>1. tree[x].subcheck \in Reach(s)
          BY <4>2, <3>3
        <5> QED BY <5>1
      <4> QED BY <4>1, <4>2
    <3> HIDE DEF Q, Closed
    <3>5. m \in Q
      BY <3>1, <3>4
    <3> QED BY <3>5 DEF Q
  <2> HIDE DEF Reach
  <2> QED BY <2>2, <2>3, <2>4
<1>5. ASSUME NEW n \in L, tree[n].subcheck = 0 PROVE Reach(n) = {n}
  <2>1. {n} \in SUBSET L /\ Closed({n})
    BY <1>5
  <2>2. \A m \in Reach(n) : m \in {n}
    <3> HIDE DEF Closed
    <3> QED BY <2>1
  <2>3. n \in Reach(n)
    OBVIOUS
  <2> HIDE DEF Reach
  <2> QED BY <2>2, <2>3
<1> HIDE DEF Reach
<1>6. ASSUME NEW n \in L PROVE f[n] = {tree[n].id} \cup f[tree[n].subcheck]
  <2>1. f[n] = {tree[m].id : m \in Reach(n)}
    BY <1>1
  <2>2. CASE tree[n].subcheck = 0
    <3>1. f[tree[n].subcheck] = {} /\ Reach(n) = {n}
      BY <2>2, <1>1, <1>5
    <3> QED BY <2>1, <3>1
  <2>3. CASE tree[n].subcheck # 0
    <3> DEFINE s == tree[n].subcheck
    <3>1. s \in L /\ Reach(n) = {n} \cup Reach(s)
      BY <2>3, <1>3, <1>4
    <3>2. f[s] = {tree[m].id : m \in Reach(s)}
      BY <3>1, <1>1
    <3> HIDE DEF s, f
    <3>3. f[n] = {tree[n].id} \cup f[s]
      BY <2>1, <3>1, <3>2
    <3> QED BY <3>3 DEF s
  <2> QED BY <2>2, <2>3
<1>7. f[0] = {}
  BY <1>1
<1>8. Is(f)
  <2>1. f = [n \in 0..Len(tree) |-> f[n]]
    OBVIOUS
  <2> HIDE DEF f
  <2>2. \A n \in 0..Len(tree) :
            f[n] = IF n = 0 THEN {} ELSE {tree[n].id} \cup f[tree[n].subcheck]
    BY <1>2, <1>6, <1>7
  <2> QED BY <2>1, <2>2
<1>9. Is(Chain)
  <2>1. Chain = CHOOSE g : Is(g)
    BY DEF Chain
  <2> HIDE DEF Is, f
  <2> QED BY <2>1, <1>8
<1>10. QED
  <2> HIDE DEF f
  <2> QED BY <1>1, <1>9 DEF L

\* The fields of the guide nodes from node s on are in its chain.
LEMMA GuideInChain ==
    ASSUME tree \in Seq(NodeSet),
           \A n \in 1..Len(tree) : tree[n].subcheck # 0 => tree[n].subcheck \in 1..Len(tree),
           NEW ids \in Seq(IdSet), NEW s \in Nat,
           \A p \in 1..Len(ids) : GuideAt(tree, ids, s, p)
    PROVE  \A p \in 1..Len(ids) : ids[p] \in Chain[s]
<1> DEFINE h == Len(ids)
           G == {p \in 0..h : p = 0 \/ Chain[s + p - 1] \subseteq Chain[s]}
<1>1. h \in Nat
  OBVIOUS
<1>2. 0 \in G
  BY <1>1
<1>3. ASSUME NEW p \in 1..h, p - 1 \in G PROVE p \in G
  <2>1. CASE p = 1
    <3>1. s + p - 1 = s
      BY <2>1
    <3> QED BY <3>1
  <2>2. CASE p # 1
    <3> DEFINE n == s + (p - 1) - 1
    <3>1. p - 1 \in 1..h /\ p - 1 < h /\ p - 1 # 0 /\ s + (p - 1) = s + p - 1
      BY <1>1, <2>2
    <3>2. n \in 1..Len(tree) /\ tree[n].subcheck = s + p - 1
      BY <3>1 DEF GuideAt
    <3>3. Chain[n] \subseteq Chain[s]
      BY <1>3, <3>1
    <3> HIDE DEF n
    <3>4. Chain[n] = {tree[n].id} \cup Chain[tree[n].subcheck]
      BY <3>2, ChainExists
    <3>5. Chain[s + p - 1] \subseteq Chain[s]
      BY <3>2, <3>3, <3>4
    <3> QED BY <3>5
  <2> QED BY <2>1, <2>2
<1> HIDE DEF G
<1>4. \A p \in 0..h : p \in G
  BY <1>1, <1>2, <1>3, UpTo
<1>5. ASSUME NEW p \in 1..h PROVE ids[p] \in Chain[s]
  <2> DEFINE n == s + p - 1
  <2>1. n \in 1..Len(tree) /\ tree[n].id = ids[p]
    BY DEF GuideAt
  <2>2. Chain[n] \subseteq Chain[s]
    <3>1. p \in 0..h /\ p # 0
      OBVIOUS
    <3> QED BY <3>1, <1>4 DEF G
  <2> HIDE DEF n
  <2>3. Chain[n] = {tree[n].id} \cup Chain[tree[n].subcheck]
    BY <2>1, ChainExists
  <2> QED BY <2>1, <2>2, <2>3
<1>6. QED BY <1>5

\* The fields stored on the way and those extracted at the end are all fields
\* of the instruction's format.
LEMMA MatchExtracts ==
    ASSUME Declaration, Results, NEW Over,
           Complete(Lists, Rest, Len(isa), tree, Over), Path(Over), Cached, FoundMatch
    PROVE  OperandsAreCurrent' /\ Results'
<1> DEFINE m == tree[d].found
           s == tree[d].subcheck
<1>1. /\ tree' = tree /\ word' = word /\ isa' = isa /\ allFields' = allFields
      /\ d # 0 /\ m # 0 /\ result' = m
      /\ fields' = [id \in Ids |-> IF id \in Chain[s] THEN GetBits(word, id)
                                   ELSE [fields EXCEPT ![tree[d].id] = FieldRead.value][id]]
  BY DEF FoundMatch, Searching, decl
<1>2. /\ tree \in Seq(NodeSet) /\ d \in 1..Len(tree) /\ IsCheck(tree, d)
      /\ Stored(fields, word, Over, d)
  <2>1. d \in 1..Len(tree) /\ IsCheck(tree, d)
    BY <1>1 DEF Path
  <2>2. Len(chosenPath) \in 1..Len(chosenPath) /\ chosenPath[Len(chosenPath)] = d
    BY DEF Path
  <2> QED BY <1>1, <2>1, <2>2 DEF Complete, Tree, Path
<1>3. Ids = IdSet /\ \A id \in IdSet : GetBits(word, id) = Value(word, id)
  BY ValueIs DEF Declaration, Ids, IdSet
<1>4. \A id \in IdSet : fields'[id] = IF id \in Chain[s] \cup {tree[d].id}
                                      THEN Value(word, id) ELSE fields[id]
  <2>1. tree[d].id \in IdSet /\ FieldRead.value = Value(word, tree[d].id)
    BY <1>2, ReadIs
  <2>2. fields = [id \in IdSet |-> fields[id]]
    BY DEF Results
  <2> DEFINE stored == [fields EXCEPT ![tree[d].id] = FieldRead.value]
  <2>3. \A id \in IdSet : stored[id] = IF id = tree[d].id THEN Value(word, id) ELSE fields[id]
    BY <2>1, <2>2
  <2>4. \A id \in IdSet : fields'[id] = IF id \in Chain[s] THEN Value(word, id) ELSE stored[id]
    BY <1>1, <1>3
  <2> HIDE DEF stored, s
  <2> QED BY <2>3, <2>4
<1>5. Results'
  BY <1>1, <1>3 DEF Results
<1>6. ExtractsAt(Lists, Rest, Len(isa), tree, Over, d) /\ s \in Nat
  <2>1. ExtractsAt(Lists, Rest, Len(isa), tree, Over, d)
    BY <1>2 DEF Complete, Tree
  <2>2. tree[d] \in NodeSet
    BY <1>2
  <2> QED BY <2>1, <2>2 DEF NodeSet
<1>7. /\ m \in 1..Len(isa)
      /\ \A p \in 1..Len(Lists[m]) : Lists[m][p].id \in Over[d] \cup {tree[d].id}
      /\ \A p \in 1..Len(Rest[m]) : GuideAt(tree, Rest[m], s, p)
  BY <1>1, <1>6 DEF ExtractsAt
<1> HIDE DEF m, s
<1>8. /\ Instruction(isa[m]) /\ Lists[m] = Checks(isa[m]) /\ Rest[m] = Operands(isa[m])
      /\ Len(Lists[m]) = Len(isa[m].dec_list)
  BY <1>7, DeclarationType
<1>9. \A n \in 1..Len(tree) : tree[n].subcheck # 0 => tree[n].subcheck \in 1..Len(tree)
  BY DEF Complete, Tree, LinkedAt
<1>10. /\ Operands(isa[m]) \in Seq(IdSet)
       /\ \A j \in 1..Len(Formats[isa[m].format]) :
             \/ IdOf(Formats[isa[m].format][j]) \in Checked(isa[m])
             \/ Contains(Operands(isa[m]), IdOf(Formats[isa[m].format][j]))
  BY <1>8, OperandsAreLeft DEF Declaration
<1>11. \A p \in 1..Len(Rest[m]) : Rest[m][p] \in Chain[s]
  <2> DEFINE ids == Rest[m]
  <2>1. ids \in Seq(IdSet) /\ \A p \in 1..Len(ids) : GuideAt(tree, ids, s, p)
    BY <1>7, <1>8, <1>10
  <2> HIDE DEF ids
  <2>2. \A p \in 1..Len(ids) : ids[p] \in Chain[s]
    BY <1>2, <1>6, <1>9, <2>1, GuideInChain DEF s
  <2> QED BY <2>2 DEF ids
<1>12. ASSUME NEW j \in 1..Len(Formats[isa[m].format])
       PROVE  LET id == IdOf(Formats[isa[m].format][j])
              IN  id \in IdSet /\ fields'[id] = Value(word, id)
  <2> DEFINE id == IdOf(Formats[isa[m].format][j])
  <2>1. id \in IdSet
    <3>1. IsField(Formats[isa[m].format][j])
      BY <1>8 DEF Instruction, IsField
    <3> QED BY <3>1, FieldHasId DEF Declaration
  <2>2. id \in Checked(isa[m]) \/ Contains(Operands(isa[m]), id)
    BY <1>10
  <2> HIDE DEF id
  <2>3. ASSUME id \in Checked(isa[m]) PROVE fields'[id] = Value(word, id)
    <3>1. PICK p \in 1..Len(isa[m].dec_list) : Checks(isa[m])[p].id = id
      BY <2>3 DEF Checked
    <3>2. id \in Over[d] \/ id = tree[d].id
      BY <1>7, <1>8, <3>1
    <3>3. id \in Over[d] => fields[id] = Value(word, id)
      BY <1>2 DEF Stored
    <3> QED BY <1>4, <2>1, <3>2, <3>3
  <2>4. ASSUME Contains(Operands(isa[m]), id) PROVE fields'[id] = Value(word, id)
    <3>1. id \in Chain[s]
      BY <1>8, <1>11, <2>4 DEF Contains
    <3> QED BY <1>4, <2>1, <3>1
  <2>5. QED BY <2>1, <2>2, <2>3, <2>4 DEF id
<1>13. OperandsAreCurrent'
  <2> SUFFICES ASSUME NEW j \in 1..Len(Formats[isa'[result'].format])
               PROVE  fields'[IdOf(Formats[isa[result].format][j])']
                      = GetBits(word, IdOf(Formats[isa[result].format][j]))'
    BY DEF OperandsAreCurrent
  <2>1. isa'[result'] = isa[m]
    BY <1>1 DEF m
  <2>2. IdOf(Formats[isa[result].format][j])' = IdOf(Formats[isa[m].format][j])
    BY <1>1, <2>1 DEF IdOf, Ids
  <2> DEFINE id == IdOf(Formats[isa[m].format][j])
  <2>3. id \in IdSet /\ fields'[id] = Value(word, id)
    BY <1>12, <2>1
  <2>4. GetBits(word, IdOf(Formats[isa[result].format][j]))' = GetBits(word, id)
    BY <1>1, <2>2 DEF GetBits
  <2> HIDE DEF id
  <2> QED BY <1>3, <2>2, <2>3, <2>4 DEF id
<1>14. QED BY <1>5, <1>13

-----------------------------------------------------------------------------
(* What the search has left behind.  w is the word and c the path.         *)

Fits(C, w, y) == \A p \in 1..Len(C[y]) : Value(w, C[y][p].id) = C[y][p].value

\* The lists that fit and share the levels above level j are all still ahead: the
\* level stands at a node that is not behind the one for their first j checks.
Ahead(C, N, w, From, c, j) ==
    \A y \in 1..N :
        /\ Fits(C, w, y) /\ j <= Len(C[y])
        /\ j > 1 => Alike(C, y, From[c[j - 1]], j - 1)
        => c[j] # 0 /\ \A z \in 1..From[c[j]] - 1 : ~Alike(C, z, y, j)

\* A level above the last stands at a check of the word that is no end.
Passed(C, t, w, From, c, j) ==
    /\ c[j] # 0 /\ t[c[j]].found = 0 /\ t[c[j]].value = Value(w, t[c[j]].id)
    /\ \A b \in j + 1..Len(c) : c[b] # 0 => Alike(C, From[c[j]], From[c[b]], j)

Walked(C, N, t, w, Live, From, Depth, c) ==
    /\ Len(c) \in Nat \ {0}
    /\ \A j \in 1..Len(c) : c[j] # 0 => c[j] \in Live /\ Depth[c[j]] = j
    /\ \A j \in 1..Len(c) - 1 : Passed(C, t, w, From, c, j)
    /\ \A j \in 1..Len(c) : Ahead(C, N, w, From, c, j)

\* The search starts with all lists ahead.
LEMMA WalkStarts ==
    ASSUME NEW C, NEW N, Finite(C, N), NEW t, Len(t) # 0, NEW w,
           NEW Live, NEW From, NEW Depth, Settled(C, N, t, Live, From, Depth),
           NEW c, Len(c) = 1, c[1] = 1
    PROVE  Walked(C, N, t, w, Live, From, Depth, c)
<1>1. 1 \in Live /\ From[1] = 1 /\ Depth[1] = 1
  BY SettledIs
<1>2. 1..1 - 1 = {} /\ \A j \in 1..1 : j = 1
  OBVIOUS
<1>3. Ahead(C, N, w, From, c, 1)
  BY <1>1, <1>2 DEF Ahead
<1>4. QED BY <1>1, <1>2, <1>3 DEF Walked

\* What is known of a level, and of the one above it.
LEMMA LevelIs ==
    ASSUME NEW C, NEW N, Finite(C, N), NEW t, NEW w, NEW Live, NEW From, NEW Depth,
           Settled(C, N, t, Live, From, Depth), NEW c,
           Walked(C, N, t, w, Live, From, Depth, c),
           NEW j \in 1..Len(c), c[j] # 0
    PROVE  /\ c[j] \in Live /\ Depth[c[j]] = j /\ From[c[j]] \in 1..N /\ j \in Nat
           /\ j <= Len(C[From[c[j]]]) /\ SameAs(t, c[j], C[From[c[j]]][j])
           /\ IsFirst(C, From[c[j]], j) /\ Alike(C, From[c[j]], From[c[j]], j)
           /\ \A a \in 1..j - 1 : /\ c[a] \in Live /\ Depth[c[a]] = a
                                  /\ Passed(C, t, w, From, c, a)
                                  /\ From[c[a]] \in 1..N
                                  /\ Alike(C, From[c[a]], From[c[j]], a)
<1>1. Len(c) \in Nat
  BY DEF Walked
<1>2. j \in Nat /\ c[j] \in Live /\ Depth[c[j]] = j
  BY <1>1 DEF Walked
<1> DEFINE n == c[j]
<1>3. n \in Live /\ Depth[n] = j
  BY <1>2
<1> HIDE DEF n
<1>4. /\ From[n] \in 1..N /\ Depth[n] <= Len(C[From[n]])
      /\ SameAs(t, n, C[From[n]][Depth[n]])
      /\ IsFirst(C, From[n], Depth[n]) /\ Alike(C, From[n], From[n], Depth[n])
  BY <1>3, SettledIs
<1>5. ASSUME NEW a \in 1..j - 1
      PROVE  /\ c[a] \in Live /\ Depth[c[a]] = a
             /\ Passed(C, t, w, From, c, a)
             /\ From[c[a]] \in 1..N
             /\ Alike(C, From[c[a]], From[c[j]], a)
  <2>1. a \in 1..Len(c) /\ a \in 1..Len(c) - 1 /\ j \in a + 1..Len(c)
    BY <1>1
  <2>2. Passed(C, t, w, From, c, a)
    BY <2>1 DEF Walked
  <2>3. c[a] # 0 /\ Alike(C, From[c[a]], From[c[j]], a)
    BY <2>1, <2>2 DEF Passed
  <2>4. c[a] \in Live /\ Depth[c[a]] = a
    BY <2>1, <2>3 DEF Walked
  <2>5. From[c[a]] \in 1..N
    BY <2>4, SettledIs
  <2> QED BY <2>2, <2>3, <2>4, <2>5
<1>6. QED BY <1>2, <1>3, <1>4, <1>5 DEF n

\* Below an open level there is a node for every list that goes on.
LEMMA LevelFiled ==
    ASSUME NEW C, NEW N, Finite(C, N), NEW t, NEW Live, NEW From, NEW Depth,
           Settled(C, N, t, Live, From, Depth),
           NEW y \in 1..N, NEW j \in 1..Len(C[y]), Open(C, t, Live, From, Depth, y, j - 1)
    PROVE  \E s \in Live : /\ Depth[s] = j /\ From[s] \in 1..N
                           /\ Alike(C, From[s], y, j) /\ IsFirst(C, From[s], j)
<1>2. AddedAt(C, t, Live, From, Depth, y)
  BY SettledIs
<1>3. PICK s \in Live : Depth[s] = j /\ Alike(C, From[s], y, j)
  BY <1>2 DEF AddedAt, Filed
<1>4. From[s] \in 1..N /\ IsFirst(C, From[s], Depth[s])
  BY SettledIs
<1>5. QED BY <1>3, <1>4

\* No list with the first j checks of y is before that of the node for them.
LEMMA NotBehind ==
    ASSUME NEW C, NEW N, N \in Nat, NEW y, NEW j, NEW a \in 1..N, NEW f \in 1..N, a <= f,
           IsFirst(C, f, j), Alike(C, f, y, j)
    PROVE  \A z \in 1..a - 1 : ~Alike(C, z, y, j)
<1> SUFFICES ASSUME NEW z \in 1..a - 1, Alike(C, z, y, j) PROVE FALSE
  OBVIOUS
<1>1. z \in 1..f - 1
  OBVIOUS
<1>2. Alike(C, z, f, j)
  BY AlikeBack, AlikeOn
<1>3. QED BY <1>1, <1>2 DEF IsFirst

\* The search goes down to the first child: all lists below are ahead.
LEMMA WalkDown ==
    ASSUME NEW C, NEW N, Finite(C, N), NEW t, NEW w, NEW Live, NEW From, NEW Depth,
           Settled(C, N, t, Live, From, Depth), NEW c,
           Walked(C, N, t, w, Live, From, Depth, c),
           NEW e, e = c[Len(c)], e # 0, t[e].found = 0, t[e].value = Value(w, t[e].id),
           t[e].subcheck # 0,
           NEW c2, Len(c2) = Len(c) + 1, c2[Len(c) + 1] = t[e].subcheck,
           \A j \in 1..Len(c) : c2[j] = c[j]
    PROVE  Walked(C, N, t, w, Live, From, Depth, c2)
<1> DEFINE h == Len(c)
           k == h + 1
           s == t[e].subcheck
<1>1. /\ h \in Nat \ {0} /\ k \in Nat \ {0} /\ h \in 1..h /\ k - 1 = h /\ k > 1
      /\ \A j \in 1..k : j = k \/ j \in 1..h
  BY DEF Walked
<1>2. N \in Nat
  BY DEF Finite
<1>3. /\ e \in Live /\ Depth[e] = h /\ From[e] \in 1..N
      /\ \A a \in 1..h - 1 : /\ Passed(C, t, w, From, c, a) /\ From[c[a]] \in 1..N
                             /\ Alike(C, From[c[a]], From[e], a)
  <2>1. c[h] # 0 /\ h \in 1..Len(c) /\ c[h] = e
    BY <1>1
  <2> HIDE DEF h
  <2>2. e \in Live /\ Depth[e] = h
    BY <2>1 DEF Walked
  <2>4. From[e] \in 1..N
    BY <2>2, SettledIs
  <2>3. ASSUME NEW a \in 1..h - 1
        PROVE  /\ Passed(C, t, w, From, c, a) /\ From[c[a]] \in 1..N
               /\ Alike(C, From[c[a]], From[c[h]], a)
    BY ONLY <2>1, <2>3, LevelIs, Finite(C, N), Settled(C, N, t, Live, From, Depth),
            Walked(C, N, t, w, Live, From, Depth, c)
  <2> QED BY <2>1, <2>2, <2>3, <2>4
<1>4. s \in Live /\ Child(C, From, Depth, e, s)
  BY <1>3, SettledIs
<1>5. Depth[s] = k /\ Alike(C, From[e], From[s], h) /\ From[s] \in 1..N
  <2>1. From[s] \in 1..N
    BY <1>4, SettledIs
  <2> QED BY <1>3, <1>4, <2>1 DEF Child
<1> HIDE DEF s, k
<1>6. c2[k] = s /\ Len(c2) = k /\ Len(c2) - 1 = h
  BY <1>1 DEF s, k
<1>7. ASSUME NEW j \in 1..k, c2[j] # 0 PROVE c2[j] \in Live /\ Depth[c2[j]] = j
  <2>1. CASE j = k
    BY <2>1, <1>4, <1>5, <1>6
  <2>2. CASE j \in 1..h
    <3>1. c2[j] = c[j]
      BY <2>2
    <3> QED BY <3>1, <2>2, <1>7 DEF Walked
  <2> QED BY <2>1, <2>2, <1>1
<1>8. ASSUME NEW j \in 1..h PROVE Passed(C, t, w, From, c2, j)
  <2>1. c2[j] = c[j] /\ j \in Nat /\ j <= h
    BY <1>1
  <2>2. /\ c[j] # 0 /\ t[c[j]].found = 0 /\ t[c[j]].value = Value(w, t[c[j]].id)
        /\ From[c[j]] \in 1..N /\ Alike(C, From[c[j]], From[e], j)
    <3>1. CASE j = h
      <4>1. c[j] = e
        BY <3>1
      <4>2. Alike(C, From[e], From[e], h)
        BY <1>3, SettledIs
      <4> QED BY <3>1, <4>1, <4>2, <1>3
    <3>2. CASE j # h
      <4>1. j \in 1..h - 1
        BY <2>1, <1>1, <3>2
      <4> QED BY <4>1, <1>3 DEF Passed
    <3> QED BY <3>1, <3>2
  <2>3. Alike(C, From[c[j]], From[s], j)
    <3>1. Alike(C, From[e], From[s], j)
      <4> HIDE DEF h
      <4>1. h \in Nat /\ j \in Nat /\ j <= h
        BY <1>1, <2>1
      <4> QED BY <4>1, <1>3, <1>5, AlikeLess
    <3> QED BY <2>2, <3>1, AlikeOn
  <2>4. ASSUME NEW b \in j + 1..k, c2[b] # 0 PROVE Alike(C, From[c2[j]], From[c2[b]], j)
    <3>1. CASE b = k
      BY <3>1, <1>6, <2>1, <2>3
    <3>2. CASE b # k
      <4>1. b \in 1..h /\ b \in j + 1..h /\ b \in Nat
        BY <1>1, <2>1, <3>2 DEF k
      <4>2. j \in 1..h - 1
        BY <4>1, <1>1, <2>1
      <4>3. Passed(C, t, w, From, c, j) /\ c2[b] = c[b]
        BY <4>1, <4>2, <1>3
      <4> QED BY <4>1, <4>3, <2>1, <2>4 DEF Passed
    <3> QED BY <3>1, <3>2
  <2> QED BY <1>6, <2>1, <2>2, <2>4 DEF Passed
<1>9. ASSUME NEW j \in 1..h PROVE Ahead(C, N, w, From, c2, j)
  <2>1. c2[j] = c[j] /\ Ahead(C, N, w, From, c, j)
    BY DEF Walked
  <2>2. j > 1 => c2[j - 1] = c[j - 1]
    <3>1. j > 1 => j - 1 \in 1..h
      BY <1>1
    <3> QED BY <3>1
  <2> HIDE DEF h
  <2> QED BY <2>1, <2>2 DEF Ahead
<1>10. Ahead(C, N, w, From, c2, k)
  <2> SUFFICES ASSUME NEW y \in 1..N, k <= Len(C[y]), Alike(C, y, From[c2[k - 1]], k - 1)
               PROVE  c2[k] # 0 /\ \A z \in 1..From[c2[k]] - 1 : ~Alike(C, z, y, k)
    BY <1>1 DEF Ahead
  <2>1. Alike(C, From[e], y, h) /\ k \in 1..Len(C[y])
    <3>1. c2[k - 1] = e /\ k - 1 = h
      BY <1>1
    <3>2. Alike(C, y, From[e], h)
      BY <3>1
    <3>3. Len(C[y]) \in Nat
      BY DEF Finite
    <3> QED BY <1>1, <3>2, <3>3, AlikeBack
  <2>2. Open(C, t, Live, From, Depth, y, k - 1)
    BY <1>1, <1>3, <2>1 DEF Open, OpenAt
  <2>3. PICK r \in Live : /\ Depth[r] = k /\ From[r] \in 1..N
                          /\ Alike(C, From[r], y, k) /\ IsFirst(C, From[r], k)
    BY <2>1, <2>2, LevelFiled
  <2>4. Alike(C, From[r], y, h)
    <3>1. h <= k /\ k \in Nat /\ h \in Nat
      BY <1>1 DEF k
    <3> HIDE DEF h
    <3> QED BY <2>3, <3>1, AlikeLess
  <2>5. Child(C, From, Depth, e, r)
    <3>1. Alike(C, From[e], From[r], h)
      BY <2>1, <2>4, AlikeBack, AlikeOn
    <3> QED BY <1>3, <2>3, <3>1 DEF Child, k
  <2>6. From[s] <= From[r]
    <3>1. OrderAt(C, t, From, Depth, e, r)
      BY <1>3, <2>3, SettledIs
    <3> QED BY <2>5, <3>1 DEF OrderAt, s
  <2>7. \A z \in 1..From[s] - 1 : ~Alike(C, z, y, k)
    BY <1>2, <1>5, <2>3, <2>6, NotBehind
  <2> QED BY <2>7, <1>6 DEF s
<1>11. /\ \A j \in 1..Len(c2) : c2[j] # 0 => c2[j] \in Live /\ Depth[c2[j]] = j
       /\ \A j \in 1..Len(c2) - 1 : Passed(C, t, w, From, c2, j)
       /\ \A j \in 1..Len(c2) : Ahead(C, N, w, From, c2, j)
  BY <1>1, <1>6, <1>7, <1>8, <1>9, <1>10
<1>12. QED BY <1>1, <1>6, <1>11 DEF Walked

\* A level goes on to the next node: no list that fits begins with the checks of
\* the node it leaves.
LEMMA WalkOn ==
    ASSUME NEW C, NEW N, Finite(C, N), NEW t, NEW w, NEW Live, NEW From, NEW Depth,
           Settled(C, N, t, Live, From, Depth), NEW c, NEW h \in Nat \ {0}, h <= Len(c),
           Walked(C, N, t, w, Live, From, Depth, c),
           NEW e, e = c[h], e # 0,
           \A y \in 1..N : Fits(C, w, y) => ~Alike(C, From[e], y, h),
           NEW c2, Len(c2) = h, c2[h] = t[e].next,
           \A j \in 1..h - 1 : c2[j] = c[j]
    PROVE  Walked(C, N, t, w, Live, From, Depth, c2)
<1> DEFINE n == t[e].next
<1>1. /\ h \in 1..Len(c) /\ h - 1 \in Nat /\ N \in Nat /\ Len(c) \in Nat
      /\ \A j \in 1..h : j \in Nat /\ j \in 1..Len(c) /\ (j = h \/ j \in 1..h - 1)
      /\ \A j \in 1..h - 1 : j \in 1..h /\ j # h /\ j \in 1..Len(c) - 1
  BY DEF Walked, Finite
<1>2. e \in Live /\ Depth[e] = h
  BY <1>1 DEF Walked
<1>3. From[e] \in 1..N
  BY <1>2, SettledIs
<1>4. ASSUME NEW a \in 1..h - 1
      PROVE  /\ Passed(C, t, w, From, c, a) /\ c[a] # 0 /\ c[a] \in Live /\ Depth[c[a]] = a
             /\ From[c[a]] \in 1..N /\ t[c[a]].found = 0
             /\ Alike(C, From[c[a]], From[e], a)
  <2>1. Passed(C, t, w, From, c, a) /\ h \in a + 1..Len(c)
    BY <1>1 DEF Walked
  <2>2. c[a] # 0 /\ t[c[a]].found = 0 /\ Alike(C, From[c[a]], From[e], a)
    BY <2>1 DEF Passed
  <2>3. c[a] \in Live /\ Depth[c[a]] = a
    BY <1>1, <2>2 DEF Walked
  <2>4. From[c[a]] \in 1..N
    BY <2>3, SettledIs
  <2> QED BY <2>1, <2>2, <2>3, <2>4
<1>5. n # 0 => n \in Live /\ Siblings(C, From, Depth, e, n)
  BY <1>2, SettledIs
<1>6. n # 0 => Depth[n] = h /\ Alike(C, From[e], From[n], h - 1) /\ From[n] \in 1..N
  <2>1. n # 0 => From[n] \in 1..N
    BY <1>5, SettledIs
  <2> QED BY <1>2, <1>5, <2>1 DEF Siblings
<1> HIDE DEF n
<1>7. c2[h] = n
  BY DEF n
<1>8. ASSUME NEW j \in 1..h, c2[j] # 0 PROVE c2[j] \in Live /\ Depth[c2[j]] = j
  <2>1. CASE j = h
    BY <2>1, <1>5, <1>6, <1>7, <1>8
  <2>2. CASE j \in 1..h - 1
    BY <2>2, <1>4
  <2> QED BY <2>1, <2>2, <1>1
<1>9. ASSUME NEW j \in 1..h - 1 PROVE Passed(C, t, w, From, c2, j)
  <2>1. c2[j] = c[j] /\ j \in Nat /\ j <= h - 1 /\ Passed(C, t, w, From, c, j)
    BY <1>1, <1>4
  <2>2. c[j] # 0 /\ t[c[j]].found = 0 /\ t[c[j]].value = Value(w, t[c[j]].id)
    BY <2>1 DEF Passed
  <2>3. n # 0 => Alike(C, From[c[j]], From[n], j)
    <3>1. n # 0 => Alike(C, From[e], From[n], j)
      BY <1>1, <1>3, <1>6, <2>1, AlikeLess
    <3> QED BY <1>4, <3>1, AlikeOn
  <2>4. ASSUME NEW b \in j + 1..h, c2[b] # 0 PROVE Alike(C, From[c2[j]], From[c2[b]], j)
    <3>1. CASE b = h
      BY <3>1, <1>7, <2>1, <2>3, <2>4
    <3>2. CASE b # h
      <4>1. b \in 1..h - 1 /\ b \in j + 1..Len(c)
        BY <1>1, <2>1, <3>2
      <4>2. c2[b] = c[b]
        BY <4>1
      <4> QED BY <4>1, <4>2, <2>1, <2>4 DEF Passed
    <3> QED BY <3>1, <3>2
  <2> QED BY <2>1, <2>2, <2>4 DEF Passed
<1>10. ASSUME NEW j \in 1..h - 1 PROVE Ahead(C, N, w, From, c2, j)
  <2>1. c2[j] = c[j] /\ Ahead(C, N, w, From, c, j)
    BY <1>1 DEF Walked
  <2>2. j > 1 => c2[j - 1] = c[j - 1]
    <3>1. j > 1 => j - 1 \in 1..h - 1
      BY <1>1
    <3> QED BY <3>1
  <2> QED BY <2>1, <2>2 DEF Ahead
<1>11. h > 1 => h - 1 \in 1..h - 1 /\ c2[h - 1] = c[h - 1]
  <2>1. h > 1 => h - 1 \in 1..h - 1
    OBVIOUS
  <2> QED BY <2>1
<1>12. Ahead(C, N, w, From, c, h)
  BY <1>1 DEF Walked
<1> DEFINE up == h - 1
<1>13. up \in Nat /\ (h > 1 <=> up # 0) /\ up <= h
  OBVIOUS
<1>14. /\ Ahead(C, N, w, From, c, h)
       /\ up # 0 => /\ c2[up] = c[up] /\ c[up] \in Live /\ Depth[c[up]] = up
                    /\ t[c[up]].found = 0
                    /\ From[c[up]] \in 1..N /\ Alike(C, From[c[up]], From[e], up)
  BY <1>4, <1>11, <1>12, <1>13
<1>15. ASSUME NEW y \in 1..N, Fits(C, w, y), h <= Len(C[y]),
              h > 1 => Alike(C, y, From[c2[up]], up)
       PROVE  n # 0 /\ \A z \in 1..From[n] - 1 : ~Alike(C, z, y, h)
  <2>1. ~Alike(C, From[e], y, h)
    BY <1>15
  <2>2. h \in 1..Len(C[y]) /\ Len(C[y]) \in Nat
    BY <1>15 DEF Finite
  <2>3. \A z \in 1..From[e] - 1 : ~Alike(C, z, y, h)
    <3>1. h > 1 => Alike(C, y, From[c[h - 1]], h - 1)
      BY <1>13, <1>14, <1>15
    <3> QED BY <1>12, <1>15, <3>1 DEF Ahead
  <2>4. up # 0 => Alike(C, From[c[up]], y, up)
    BY <1>13, <1>14, <1>15, AlikeBack
  <2>5. Open(C, t, Live, From, Depth, y, up)
    BY <1>14, <2>4 DEF Open, OpenAt
  <2>6. PICK r \in Live : /\ Depth[r] = h /\ From[r] \in 1..N
                          /\ Alike(C, From[r], y, h) /\ IsFirst(C, From[r], h)
    BY <2>2, <2>5, LevelFiled
  <2>7. From[e] < From[r]
    <3>1. From[r] \notin 1..From[e] - 1
      BY <2>3, <2>6
    <3>2. From[r] # From[e]
      BY <2>1, <2>6
    <3> QED BY <1>1, <1>3, <2>6, <3>1, <3>2
  <2>8. Alike(C, From[e], From[r], up)
    <3>1. Alike(C, From[r], y, up)
      <4> HIDE DEF up
      <4> QED BY <1>13, <2>6, AlikeLess
    <3>2. CASE up = 0
      BY <3>1, <1>2, <1>3, <2>6, <3>2 DEF Alike, Finite
    <3>3. CASE up # 0
      <4>1. Alike(C, From[e], From[c[up]], up)
        BY <1>14, <3>3, AlikeBack
      <4>2. Alike(C, From[e], y, up)
        BY <2>4, <3>3, <4>1, AlikeOn
      <4> QED BY <3>1, <4>2, AlikeBack, AlikeOn
    <3> QED BY <3>2, <3>3
  <2>9. Siblings(C, From, Depth, e, r)
    BY <1>2, <2>6, <2>8 DEF Siblings
  <2>10. n # 0 /\ From[n] <= From[r]
    <3>1. OrderAt(C, t, From, Depth, e, r)
      BY <1>2, <2>6, SettledIs
    <3> QED BY <2>7, <2>9, <3>1 DEF OrderAt, n
  <2>11. \A z \in 1..From[n] - 1 : ~Alike(C, z, y, h)
    BY <1>1, <1>6, <2>6, <2>10, NotBehind
  <2> QED BY <2>10, <2>11
<1>16. Ahead(C, N, w, From, c2, h)
  BY <1>7, <1>15 DEF Ahead
<1>17. /\ \A j \in 1..Len(c2) : c2[j] # 0 => c2[j] \in Live /\ Depth[c2[j]] = j
       /\ \A j \in 1..Len(c2) - 1 : Passed(C, t, w, From, c2, j)
       /\ \A j \in 1..Len(c2) : Ahead(C, N, w, From, c2, j)
  BY <1>1, <1>8, <1>9, <1>10, <1>16
<1>18. QED BY <1>17 DEF Walked

\* The word does not pass the check of a node: no list that fits has it.
LEMMA SkipsNone ==
    ASSUME NEW C, NEW N, Finite(C, N), NEW t, NEW w, NEW Live, NEW From, NEW Depth,
           Settled(C, N, t, Live, From, Depth), NEW e \in Live, NEW h \in Nat \ {0},
           Depth[e] = h, t[e].value # Value(w, t[e].id), NEW y \in 1..N, Fits(C, w, y)
    PROVE  ~Alike(C, From[e], y, h)
<1> SUFFICES ASSUME Alike(C, From[e], y, h) PROVE FALSE
  OBVIOUS
<1>1. h \in 1..h /\ h \in 1..Len(C[y])
  BY DEF Alike, Finite
<1>2. C[From[e]][h] = C[y][h]
  BY <1>1 DEF Alike
<1>3. SameAs(t, e, C[y][h])
  BY <1>2, SettledIs
<1>4. Value(w, C[y][h].id) = C[y][h].value
  BY <1>1 DEF Fits
<1>5. QED BY <1>3, <1>4 DEF SameAs

\* A level is left for the one above: no list that fits begins with the checks of
\* the node there, because the lists that go on would be ahead.
LEMMA ReturnsPastNone ==
    ASSUME NEW C, NEW N, Finite(C, N), NEW t, NEW w, NEW Live, NEW From, NEW Depth,
           Settled(C, N, t, Live, From, Depth), NEW c,
           Walked(C, N, t, w, Live, From, Depth, c),
           NEW h \in Nat \ {0}, Len(c) = h + 1, c[h + 1] = 0,
           NEW y \in 1..N, Fits(C, w, y)
    PROVE  ~Alike(C, From[c[h]], y, h)
<1> SUFFICES ASSUME Alike(C, From[c[h]], y, h) PROVE FALSE
  OBVIOUS
<1> DEFINE k == h + 1
<1>1. /\ h \in 1..Len(c) /\ h \in 1..Len(c) - 1 /\ k \in 1..Len(c) /\ k - 1 = h /\ k > 1
      /\ c[k] = 0 /\ Len(C[y]) \in Nat
  BY DEF Finite
<1>2. c[h] # 0 /\ t[c[h]].found = 0
  BY <1>1 DEF Walked, Passed
<1>3. c[h] \in Live /\ Depth[c[h]] = h
  BY <1>1, <1>2 DEF Walked
<1>4. Ahead(C, N, w, From, c, k)
  BY <1>1 DEF Walked
<1> HIDE DEF k
<1>5. ~(k <= Len(C[y]))
  <2>1. Alike(C, y, From[c[k - 1]], k - 1)
    BY <1>1, AlikeBack
  <2> QED BY <1>1, <1>4, <2>1 DEF Ahead
<1>6. Len(C[y]) = h
  <2>1. h <= Len(C[y])
    BY DEF Alike
  <2> QED BY <1>1, <1>5, <2>1 DEF k
<1>7. t[c[h]].found # 0
  <2>1. AddedAt(C, t, Live, From, Depth, y)
    BY SettledIs
  <2> QED BY <1>3, <1>6, <2>1 DEF AddedAt
<1>8. QED BY <1>2, <1>7

\* The word does not fit any list when the search ends without an instruction.
LEMMA FindsNone ==
    ASSUME NEW C, NEW N, Finite(C, N), NEW t, NEW w, NEW Live, NEW From, NEW Depth,
           Settled(C, N, t, Live, From, Depth), NEW c,
           Walked(C, N, t, w, Live, From, Depth, c), Len(c) = 1, c[1] = 0,
           NEW y \in 1..N
    PROVE  ~Fits(C, w, y)
<1>1. 1 \in 1..Len(c) /\ Len(C[y]) \in Nat
  BY DEF Finite
<1>2. Ahead(C, N, w, From, c, 1)
  BY <1>1 DEF Walked
<1>3. Len(C[y]) # 0
  BY SettledIs DEF AddedAt
<1>4. QED BY <1>1, <1>2, <1>3 DEF Ahead

\* Where the lists of y and m part, the first list g with the check of y is not
\* before the first one f with that of m.
NotBefore(C, N, y, m) ==
    \A p \in 1..Len(C[y]) : \A f, g \in 1..N :
        /\ p <= Len(C[m]) /\ Alike(C, y, m, p - 1)
        /\ Alike(C, f, m, p) /\ IsFirst(C, f, p) /\ Alike(C, g, y, p)
        => f <= g

\* The instruction m at the end of the path: the word fits it, no list ends
\* on the way to it, and no list that fits is before it in the order of the tree.
LEMMA FindsFirst ==
    ASSUME NEW C, NEW N, Finite(C, N), NEW t, NEW w, NEW Live, NEW From, NEW Depth,
           Settled(C, N, t, Live, From, Depth), NEW c,
           Walked(C, N, t, w, Live, From, Depth, c),
           NEW e, e = c[Len(c)], e # 0, t[e].value = Value(w, t[e].id),
           NEW m, m = t[e].found, m # 0
    PROVE  /\ m \in 1..N /\ Fits(C, w, m)
           /\ \A y \in 1..N : ~(Len(C[y]) < Len(C[m]) /\ Alike(C, y, m, Len(C[y])))
           /\ \A y \in 1..N : Fits(C, w, y) => NotBefore(C, N, y, m)
<1> DEFINE h == Len(c)
<1>1. h \in Nat \ {0} /\ N \in Nat /\ h \in 1..h /\ c[h] = e
  BY DEF Walked, Finite
<1>2. e \in Live /\ Depth[e] = h
  BY <1>1 DEF Walked
<1>3. /\ m \in 1..N /\ Len(C[m]) = h /\ Alike(C, m, From[e], h)
      /\ From[e] \in 1..N /\ SameAs(t, e, C[From[e]][h])
      /\ IsFirst(C, From[e], h)
  BY <1>2, SettledIs
<1>4. ASSUME NEW j \in 1..h
      PROVE  /\ c[j] \in Live /\ Depth[c[j]] = j /\ From[c[j]] \in 1..N
             /\ t[c[j]].value = Value(w, t[c[j]].id) /\ Alike(C, From[c[j]], m, j)
             /\ IsFirst(C, From[c[j]], j) /\ SameAs(t, c[j], C[From[c[j]]][j])
             /\ j # h => t[c[j]].found = 0
  <2>1. CASE j = h
    BY <2>1, <1>1, <1>2, <1>3, AlikeBack
  <2>2. CASE j # h
    <3>1. j \in 1..h - 1 /\ h \in j + 1..h /\ j \in Nat /\ j <= h
      BY <1>1, <2>2
    <3>2. Passed(C, t, w, From, c, j)
      BY <3>1 DEF Walked
    <3>3. /\ c[j] # 0 /\ t[c[j]].found = 0 /\ t[c[j]].value = Value(w, t[c[j]].id)
          /\ Alike(C, From[c[j]], From[e], j)
      BY <1>1, <3>1, <3>2 DEF Passed
    <3>4. c[j] \in Live /\ Depth[c[j]] = j
      BY <3>3 DEF Walked
    <3>5. From[c[j]] \in 1..N /\ IsFirst(C, From[c[j]], j) /\ SameAs(t, c[j], C[From[c[j]]][j])
      BY <3>4, SettledIs
    <3>6. Alike(C, m, From[e], j)
      <4> HIDE DEF h
      <4> QED BY <1>1, <1>3, <3>1, AlikeLess
    <3>7. Alike(C, From[c[j]], m, j)
      BY <3>3, <3>6, AlikeBack, AlikeOn
    <3> QED BY <3>3, <3>4, <3>5, <3>7
  <2> QED BY <2>1, <2>2
<1> HIDE DEF h
<1>5. ASSUME NEW p \in 1..Len(C[m]) PROVE Value(w, C[m][p].id) = C[m][p].value
  <2>1. p \in 1..h /\ p \in Nat /\ p \in 1..p
    BY <1>1, <1>3
  <2>2. Alike(C, From[c[p]], m, p) /\ SameAs(t, c[p], C[From[c[p]]][p])
        /\ t[c[p]].value = Value(w, t[c[p]].id)
    BY <1>4, <2>1
  <2>3. C[From[c[p]]][p] = C[m][p]
    BY <2>1, <2>2 DEF Alike
  <2> QED BY <2>2, <2>3 DEF SameAs
<1>6. ASSUME NEW y \in 1..N, Len(C[y]) < Len(C[m]), Alike(C, y, m, Len(C[y])) PROVE FALSE
  <2> DEFINE b == Len(C[y])
  <2>1. AddedAt(C, t, Live, From, Depth, y)
    BY SettledIs
  <2>2. b \in Nat /\ b # 0
    BY <2>1 DEF AddedAt, Finite
  <2>3. b \in 1..h /\ b # h
    BY <1>1, <1>3, <1>6, <2>2
  <2> HIDE DEF b
  <2>4. c[b] \in Live /\ Depth[c[b]] = b /\ Alike(C, From[c[b]], m, b) /\ t[c[b]].found = 0
    BY <1>4, <2>3
  <2>5. Alike(C, From[c[b]], y, b)
    BY <1>6, <2>4, AlikeBack, AlikeOn DEF b
  <2> QED BY <2>1, <2>4, <2>5 DEF AddedAt, b
<1>7. ASSUME NEW y \in 1..N, Fits(C, w, y), NEW p \in 1..Len(C[y]),
             p <= Len(C[m]), Alike(C, y, m, p - 1),
             NEW f \in 1..N, Alike(C, f, m, p), IsFirst(C, f, p),
             NEW g \in 1..N, Alike(C, g, y, p)
      PROVE  f <= g
  <2>1. p \in 1..h /\ p \in Nat \ {0} /\ p <= Len(C[y])
    BY <1>1, <1>3, <1>7 DEF Finite
  <2>2. From[c[p]] \in 1..N /\ Alike(C, From[c[p]], m, p) /\ IsFirst(C, From[c[p]], p)
    BY <1>4, <2>1
  <2>3. f = From[c[p]]
    <3>1. Alike(C, f, From[c[p]], p)
      BY <1>7, <2>2, AlikeBack, AlikeOn
    <3> QED BY <1>1, <1>7, <2>2, <3>1, FirstIsOne
  <2>4. p > 1 => Alike(C, y, From[c[p - 1]], p - 1)
    <3> SUFFICES ASSUME p > 1 PROVE Alike(C, y, From[c[p - 1]], p - 1)
      OBVIOUS
    <3> DEFINE u == p - 1
    <3>1. u \in 1..h
      BY <1>1, <2>1
    <3> HIDE DEF u
    <3>2. Alike(C, From[c[u]], m, u)
      BY <1>4, <3>1
    <3>3. Alike(C, y, m, u)
      BY <1>7 DEF u
    <3>4. Alike(C, y, From[c[u]], u)
      BY <3>2, <3>3, AlikeBack, AlikeOn
    <3> QED BY <3>4 DEF u
  <2>5. \A z \in 1..From[c[p]] - 1 : ~Alike(C, z, y, p)
    <3>1. Ahead(C, N, w, From, c, p)
      BY <2>1 DEF Walked, h
    <3> QED BY <1>7, <2>4, <3>1 DEF Ahead
  <2>6. g \notin 1..f - 1
    BY <1>7, <2>3, <2>5
  <2> QED BY <1>1, <2>6
<1>8. Fits(C, w, m)
  BY <1>5 DEF Fits
<1>9. ASSUME NEW y \in 1..N, Fits(C, w, y) PROVE NotBefore(C, N, y, m)
  BY <1>7, <1>9 DEF NotBefore
<1>10. QED BY <1>3, <1>6, <1>8, <1>9

-----------------------------------------------------------------------------
(* The answer.                                                             *)

\* Sequences that begin with the same p elements, and prefixes.
LEMMA SameStart ==
    ASSUME NEW S, NEW s \in Seq(S), NEW u \in Seq(S), NEW p \in Nat, p <= Len(s), p <= Len(u)
    PROVE  SubSeq(s, 1, p) = SubSeq(u, 1, p) <=> \A j \in 1..p : s[j] = u[j]
<1> DEFINE a == SubSeq(s, 1, p)
           b == SubSeq(u, 1, p)
<1>1. Len(a) = p /\ \A j \in 1..p : a[j] = s[j]
  OBVIOUS
<1>2. Len(b) = p /\ \A j \in 1..p : b[j] = u[j]
  OBVIOUS
<1>3. a \in Seq(S) /\ b \in Seq(S)
  OBVIOUS
<1> HIDE DEF a, b
<1>4. (\A j \in 1..p : s[j] = u[j]) => a = b
  BY <1>1, <1>2, <1>3
<1>5. a = b => \A j \in 1..p : s[j] = u[j]
  BY <1>1, <1>2
<1>6. QED BY <1>4, <1>5 DEF a, b

LEMMA PrefixIs ==
    ASSUME NEW S, NEW s \in Seq(S), NEW u \in Seq(S), NEW p \in 0..Len(s)
    PROVE  IsPrefix(SubSeq(s, 1, p), u) <=> p <= Len(u) /\ \A j \in 1..p : u[j] = s[j]
<1> DEFINE a == SubSeq(s, 1, p)
<1>1. Len(a) = p /\ a \in Seq(S) /\ p \in Nat /\ Len(u) \in Nat /\ p <= Len(s)
      /\ \A j \in 1..p : a[j] = s[j]
  OBVIOUS
<1> HIDE DEF a
<1>2. p <= Len(u) => (SubSeq(a, 1, p) = SubSeq(u, 1, p) <=> \A j \in 1..p : a[j] = u[j])
  BY <1>1, SameStart
<1>3. IsPrefix(a, u) <=> p <= Len(u) /\ SubSeq(a, 1, p) = SubSeq(u, 1, p)
  BY <1>1 DEF IsPrefix
<1>4. IsPrefix(a, u) <=> p <= Len(u) /\ \A j \in 1..p : u[j] = s[j]
  BY <1>1, <1>2, <1>3
<1>5. QED BY <1>4 DEF a

LEMMA ListsAre ==
    ASSUME Declaration
    PROVE  /\ Finite(Lists, Len(isa)) /\ Len(isa) \in Nat
           /\ \A n \in 1..Len(isa) : /\ Checks(isa[n]) = Lists[n] /\ Len(Lists[n]) \in Nat
                                     /\ Lists[n] \in Seq([id : IdSet, value : Nat])
<1>1. Len(isa) \in Nat /\ Declared(Lists, Rest, Len(isa))
  BY DeclarationType
<1> DEFINE S == [id : IdSet, value : Nat]
<1>2. \A n \in 1..Len(isa) : Lists[n] \in Seq(S) /\ Checks(isa[n]) = Lists[n]
  BY <1>1, DeclarationType DEF Declared
<1> HIDE DEF S
<1>3. ASSUME NEW n \in 1..Len(isa) PROVE Len(Lists[n]) \in Nat
  <2> DEFINE c == Lists[n]
  <2>1. c \in Seq(S)
    BY <1>2
  <2> HIDE DEF c
  <2>2. Len(c) \in Nat
    BY <2>1
  <2> QED BY <2>2 DEF c
<1>4. QED BY <1>1, <1>2, <1>3 DEF Finite, S

LEMMA FitsIs ==
    ASSUME Declaration, NEW w, NEW n \in 1..Len(isa)
    PROVE  Matches(isa[n], w) <=> Fits(Lists, w, n)
BY ListsAre, ValueIs DEF Matches, Fits

\* A list that is lost begins with a shorter one.
LEMMA LostIs ==
    ASSUME Declaration, NEW m \in 1..Len(isa), Lost(m)
    PROVE  \E y \in 1..Len(isa) : /\ Len(Lists[y]) < Len(Lists[m])
                                  /\ Alike(Lists, y, m, Len(Lists[y]))
<1>1. PICK y \in m + 1..Len(isa) : IsStrictPrefix(Checks(isa[y]), Checks(isa[m]))
  BY DEF Lost
<1>2. y \in 1..Len(isa) /\ Len(isa) \in Nat
  BY ListsAre
<1> DEFINE s == Lists[y]
           u == Lists[m]
           S == [id : IdSet, value : Nat]
<1>3. s \in Seq(S) /\ u \in Seq(S) /\ Checks(isa[y]) = s /\ Checks(isa[m]) = u
  BY <1>2, ListsAre
<1> HIDE DEF s, u, S
<1>4. IsPrefix(s, u) /\ s # u
  BY <1>1, <1>3 DEF IsStrictPrefix
<1>5. Len(s) \in Nat /\ Len(u) \in Nat /\ Len(s) <= Len(u)
      /\ SubSeq(s, 1, Len(s)) = SubSeq(u, 1, Len(s))
  BY <1>3, <1>4 DEF IsPrefix
<1>6. \A j \in 1..Len(s) : s[j] = u[j]
  <2>1. Len(s) <= Len(s)
    BY <1>5
  <2> QED BY <1>3, <1>5, <2>1, SameStart
<1>7. Len(s) # Len(u)
  BY <1>3, <1>4, <1>6
<1>8. Len(s) < Len(u)
  BY <1>5, <1>7
<1>9. Alike(Lists, y, m, Len(s))
  BY <1>5, <1>6 DEF Alike, s, u
<1>10. QED BY <1>2, <1>8, <1>9 DEF s, u

\* The first list that begins with the first p checks of that of m.
LEMMA FirstWithIs ==
    ASSUME Declaration, NEW m \in 1..Len(isa), NEW p \in 1..Len(Checks(isa[m]))
    PROVE  LET f == FirstWith(SubSeq(Checks(isa[m]), 1, p))
           IN  f \in 1..Len(isa) /\ Alike(Lists, f, m, p) /\ IsFirst(Lists, f, p)
<1> DEFINE s == Lists[m]
           S == [id : IdSet, value : Nat]
           M == {y \in 1..Len(isa) : IsPrefix(SubSeq(s, 1, p), Checks(isa[y]))}
           f == FirstWith(SubSeq(Checks(isa[m]), 1, p))
<1>1. Finite(Lists, Len(isa)) /\ Len(isa) \in Nat /\ Checks(isa[m]) = s /\ s \in Seq(S)
      /\ Len(s) \in Nat
  BY ListsAre
<1>2. p \in 0..Len(s) /\ p <= Len(s)
  BY <1>1
<1>3. ASSUME NEW y \in 1..Len(isa)
      PROVE  IsPrefix(SubSeq(s, 1, p), Checks(isa[y])) <=> Alike(Lists, y, m, p)
  <2> DEFINE u == Lists[y]
  <2>1. u \in Seq(S) /\ Checks(isa[y]) = u
    BY ListsAre
  <2> HIDE DEF s, u, S
  <2>2. IsPrefix(SubSeq(s, 1, p), u) <=> p <= Len(u) /\ \A j \in 1..p : u[j] = s[j]
    BY <1>1, <1>2, <2>1, PrefixIs
  <2> QED BY <1>2, <2>1, <2>2 DEF Alike, u, s
<1>4. M = {y \in 1..Len(isa) : Alike(Lists, y, m, p)}
  BY <1>3
<1>5. f = Min(M)
  BY <1>1 DEF FirstWith
<1> HIDE DEF f, M, s, S
<1>6. PICK g \in 1..m : Alike(Lists, g, m, p) /\ IsFirst(Lists, g, p)
  <2>1. p \in 0..Len(Lists[m])
    BY <1>2 DEF s
  <2> QED BY <1>1, <2>1, FirstExists
<1>7. g \in M /\ g \in Nat
  BY <1>1, <1>4, <1>6
<1>8. ASSUME NEW y \in M PROVE g <= y
  <2>1. y \in 1..Len(isa) /\ Alike(Lists, y, m, p)
    BY <1>4
  <2>2. Alike(Lists, y, g, p)
    BY <1>6, <2>1, AlikeBack, AlikeOn
  <2>3. y \notin 1..g - 1
    BY <1>6, <2>2 DEF IsFirst
  <2> QED BY <1>1, <1>7, <2>1, <2>3
<1>9. f \in M /\ \A y \in M : f <= y
  <2>1. \E x \in M : \A y \in M : x <= y
    BY <1>7, <1>8
  <2> QED BY <1>5, <2>1 DEF Min
<1>10. f = g
  BY <1>1, <1>4, <1>7, <1>8, <1>9
<1>11. QED BY <1>1, <1>6, <1>7, <1>4, <1>10 DEF f

LEMMA PrecedesIs ==
    ASSUME Declaration, NEW y \in 1..Len(isa), NEW m \in 1..Len(isa),
           NotBefore(Lists, Len(isa), y, m)
    PROVE  ~Precedes(y, m)
<1> SUFFICES ASSUME Precedes(y, m) PROVE FALSE
  OBVIOUS
<1>1. PICK p \in 1..Len(Checks(isa[y])) :
          /\ p =< Len(Checks(isa[m]))
          /\ SubSeq(Checks(isa[y]), 1, p - 1) = SubSeq(Checks(isa[m]), 1, p - 1)
          /\ FirstWith(SubSeq(Checks(isa[y]), 1, p)) < FirstWith(SubSeq(Checks(isa[m]), 1, p))
  BY DEF Precedes
<1> DEFINE s == Lists[y]
           u == Lists[m]
           S == [id : IdSet, value : Nat]
           q == p - 1
           f == FirstWith(SubSeq(Checks(isa[m]), 1, p))
           g == FirstWith(SubSeq(Checks(isa[y]), 1, p))
<1>2. /\ s \in Seq(S) /\ u \in Seq(S) /\ Checks(isa[y]) = s /\ Checks(isa[m]) = u
      /\ Len(s) \in Nat /\ Len(u) \in Nat /\ Len(isa) \in Nat
  BY ListsAre
<1>3. /\ p \in 1..Len(s) /\ p <= Len(u) /\ q \in Nat /\ q <= Len(s) /\ q <= Len(u)
      /\ p \in 1..Len(Checks(isa[m])) /\ SubSeq(s, 1, q) = SubSeq(u, 1, q)
  BY <1>1, <1>2
<1>4. f \in 1..Len(isa) /\ Alike(Lists, f, m, p) /\ IsFirst(Lists, f, p)
  BY <1>3, FirstWithIs
<1>5. g \in 1..Len(isa) /\ Alike(Lists, g, y, p)
  BY FirstWithIs
<1>6. g < f
  BY <1>1
<1> HIDE DEF s, u, S, q, f, g
<1>7. \A j \in 1..q : s[j] = u[j]
  BY <1>2, <1>3, SameStart
<1>8. Alike(Lists, y, m, q)
  BY <1>3, <1>7 DEF Alike, s, u
<1>9. f <= g
  BY <1>3, <1>4, <1>5, <1>8 DEF NotBefore, s, u, q
<1>10. QED BY <1>2, <1>4, <1>5, <1>6, <1>9

-----------------------------------------------------------------------------
(* The search and the order of the tree.                                   *)

Sorted(Live, From, Depth) == Settled(Lists, Len(isa), tree, Live, From, Depth)

Searched(Live, From, Depth) ==
    Walked(Lists, Len(isa), tree, word, Live, From, Depth, chosenPath)

\* The tree is in order, and what the search has left behind does not fit.
InSearch == phase = "run" =>
    \E Live, From, Depth : /\ Sorted(Live, From, Depth)
                           /\ pc = "search" => Searched(Live, From, Depth)

LEMMA DecodeSearched ==
    ASSUME Declaration, NEW Over, Complete(Lists, Rest, Len(isa), tree, Over),
           NEW Live, NEW From, NEW Depth, Sorted(Live, From, Depth),
           NEW w, Decode(w)
    PROVE  Walked(Lists, Len(isa), tree, word', Live, From, Depth, chosenPath')
<1> DEFINE c == <<1>>
<1>1. Len(c) = 1 /\ c[1] = 1
  OBVIOUS
<1>2. chosenPath' = c /\ word' = w /\ Len(tree) # 0
  BY DEF Decode, Complete
<1> HIDE DEF c
<1>3. Walked(Lists, Len(isa), tree, w, Live, From, Depth, c)
  BY <1>1, <1>2, ListsAre, WalkStarts DEF Sorted
<1>4. QED BY <1>2, <1>3

\* Where the search stands.
LEMMA HeadIs ==
    ASSUME Declaration, NEW Over, Complete(Lists, Rest, Len(isa), tree, Over), Path(Over),
           Cached, d # 0
    PROVE  /\ d \in 1..Len(tree) /\ IsCheck(tree, d) /\ d = chosenPath[Len(chosenPath)]
           /\ FieldRead.value = Value(word, tree[d].id)
           /\ tree[d].found = 0 => tree[d].subcheck # 0
<1>1. d \in 1..Len(tree) /\ IsCheck(tree, d) /\ tree \in Seq(NodeSet)
  BY DEF Path, Complete, Tree
<1>2. FieldRead.value = Value(word, tree[d].id)
  BY <1>1, ReadIs
<1>3. tree[d].found = 0 => tree[d].subcheck # 0
  BY <1>1, ChildIs
<1>4. QED BY <1>1, <1>2, <1>3 DEF Path

LEMMA SubcheckSearched ==
    ASSUME Declaration, NEW Over, Complete(Lists, Rest, Len(isa), tree, Over), Path(Over),
           Cached, NEW Live, NEW From, NEW Depth, Sorted(Live, From, Depth),
           Searched(Live, From, Depth), FollowSubcheck
    PROVE  Walked(Lists, Len(isa), tree, word', Live, From, Depth, chosenPath')
<1>1. /\ d # 0 /\ tree[d].found = 0 /\ FieldRead.value = tree[d].value /\ word' = word
      /\ chosenPath' = Append(chosenPath, tree[d].subcheck)
  BY DEF FollowSubcheck, Searching, Match
<1>2. /\ d = chosenPath[Len(chosenPath)] /\ tree[d].subcheck # 0
      /\ tree[d].value = Value(word, tree[d].id)
  BY <1>1, HeadIs
<1>3. PICK c : c = chosenPath /\ c \in Seq(Nat)
  BY DEF Path
<1>4. PICK s : s = tree[d].subcheck
  OBVIOUS
<1> DEFINE c2 == Append(c, s)
<1>5. /\ Len(c2) = Len(c) + 1 /\ c2[Len(c) + 1] = s
      /\ \A j \in 1..Len(c) : c2[j] = c[j]
  BY <1>3
<1> HIDE DEF c2
<1>6. Walked(Lists, Len(isa), tree, word, Live, From, Depth, c)
  BY <1>3 DEF Searched
<1>7. Walked(Lists, Len(isa), tree, word, Live, From, Depth, c2)
  BY <1>1, <1>2, <1>3, <1>4, <1>5, <1>6, ListsAre, WalkDown DEF Sorted
<1>8. QED BY <1>1, <1>3, <1>4, <1>7 DEF c2

\* The last of the levels up goes on to the next node.
LEMMA LevelSearched ==
    ASSUME Declaration, NEW c, NEW up \in Seq(Nat), NEW h \in Nat \ {0}, Len(up) = h,
           h <= Len(c), \A j \in 1..h : up[j] = c[j],
           NEW Live, NEW From, NEW Depth, Sorted(Live, From, Depth),
           Walked(Lists, Len(isa), tree, word, Live, From, Depth, c),
           NEW e, e = c[h], e # 0,
           \A y \in 1..Len(isa) : Fits(Lists, word, y) => ~Alike(Lists, From[e], y, h),
           NEW n, n = tree[e].next
    PROVE  Walked(Lists, Len(isa), tree, word, Live, From, Depth, [up EXCEPT ![h] = n])
<1> DEFINE c2 == [up EXCEPT ![h] = n]
<1>1. Len(c2) = h /\ c2[h] = n /\ \A j \in 1..h - 1 : c2[j] = up[j]
  OBVIOUS
<1>2. \A j \in 1..h - 1 : c2[j] = c[j]
  BY <1>1
<1> HIDE DEF c2
<1>3. Walked(Lists, Len(isa), tree, word, Live, From, Depth, c2)
  BY <1>1, <1>2, ListsAre, WalkOn DEF Sorted
<1>4. QED BY <1>3 DEF c2

LEMMA NextSearched ==
    ASSUME Declaration, NEW Over, Complete(Lists, Rest, Len(isa), tree, Over), Path(Over),
           Cached, NEW Live, NEW From, NEW Depth, Sorted(Live, From, Depth),
           Searched(Live, From, Depth), FollowNext
    PROVE  Walked(Lists, Len(isa), tree, word', Live, From, Depth, chosenPath')
<1>1. /\ d # 0 /\ FieldRead.value # tree[d].value /\ word' = word
      /\ chosenPath' = [chosenPath EXCEPT ![Len(chosenPath)] = tree[d].next]
  BY DEF FollowNext, Searching, Match
<1>2. d = chosenPath[Len(chosenPath)] /\ tree[d].value # Value(word, tree[d].id)
  BY <1>1, HeadIs
<1>3. PICK c : c = chosenPath /\ c \in Seq(Nat)
  BY DEF Path
<1>4. PICK h : h = Len(c)
  OBVIOUS
<1>5. Walked(Lists, Len(isa), tree, word, Live, From, Depth, c)
  BY <1>3 DEF Searched
<1>6. /\ h \in Nat \ {0} /\ h <= Len(c) /\ h \in 1..Len(c)
      /\ d = c[h] /\ d \in Live /\ Depth[d] = h
  BY <1>1, <1>2, <1>3, <1>4, <1>5 DEF Walked
<1>7. ASSUME NEW y \in 1..Len(isa), Fits(Lists, word, y)
      PROVE  ~Alike(Lists, From[d], y, h)
  BY <1>2, <1>6, <1>7, ListsAre, SkipsNone DEF Sorted
<1>8. PICK n : n = tree[d].next
  OBVIOUS
<1>9. Walked(Lists, Len(isa), tree, word, Live, From, Depth, [c EXCEPT ![h] = n])
  BY <1>1, <1>3, <1>4, <1>5, <1>6, <1>7, <1>8, LevelSearched
<1>10. QED BY <1>1, <1>3, <1>4, <1>8, <1>9

LEMMA BacktrackSearched ==
    ASSUME Declaration, NEW Over, Complete(Lists, Rest, Len(isa), tree, Over), Path(Over),
           NEW Live, NEW From, NEW Depth, Sorted(Live, From, Depth),
           Searched(Live, From, Depth), Backtrack
    PROVE  Walked(Lists, Len(isa), tree, word', Live, From, Depth, chosenPath')
<1>1. /\ d = 0 /\ Len(chosenPath) > 1 /\ word' = word
      /\ chosenPath' = [Front(chosenPath) EXCEPT
                            ![Len(Front(chosenPath))] = tree[Last(Front(chosenPath))].next]
  BY DEF Backtrack
<1>2. PICK c : c = chosenPath /\ c \in Seq(Nat) /\ c[Len(c)] = 0
  BY <1>1 DEF Path
<1>3. PICK h \in Nat \ {0} : Len(c) = h + 1 /\ h <= Len(c) /\ c[h + 1] = 0
  <2>1. PICK k : k = Len(c)
    OBVIOUS
  <2>2. k \in Nat /\ k > 1
    BY <1>1, <1>2, <2>1
  <2>3. PICK h : h = k - 1
    OBVIOUS
  <2>4. h \in Nat \ {0} /\ k = h + 1 /\ h <= k
    BY <2>2, <2>3
  <2> QED BY <1>2, <2>1, <2>4
<1>4. PICK up : up = Front(c)
  OBVIOUS
<1>5. up \in Seq(Nat) /\ Len(up) = h /\ \A j \in 1..h : up[j] = c[j]
  <2>1. Front(c) \in Seq(Nat) /\ Len(Front(c)) = h /\ \A j \in 1..h : Front(c)[j] = c[j]
    <3>1. c \in Seq(Nat) /\ h \in Nat \ {0} /\ Len(c) = h + 1
      BY <1>2, <1>3
    <3> QED BY ONLY <3>1, FrontOf
  <2> QED BY <1>4, <2>1
<1>6. Walked(Lists, Len(isa), tree, word, Live, From, Depth, c)
  BY <1>2 DEF Searched
<1>7. PICK e : e = c[h]
  OBVIOUS
<1>8. e # 0
  <2>1. h \in 1..Len(c) - 1
    BY <1>3
  <2> QED BY <1>6, <1>7, <2>1 DEF Walked, Passed
<1>9. ASSUME NEW y \in 1..Len(isa), Fits(Lists, word, y)
      PROVE  ~Alike(Lists, From[e], y, h)
  BY <1>3, <1>6, <1>7, <1>9, ListsAre, ReturnsPastNone DEF Sorted
<1>10. PICK n : n = tree[e].next
  OBVIOUS
<1>11. Walked(Lists, Len(isa), tree, word, Live, From, Depth, [up EXCEPT ![h] = n])
  BY <1>3, <1>5, <1>6, <1>7, <1>8, <1>9, <1>10, LevelSearched
<1>12. Last(up) = e
  <2>1. h \in 1..h
    BY <1>3
  <2> QED BY <1>5, <1>7, <2>1 DEF Last
<1>13. chosenPath' = [up EXCEPT ![h] = n]
  BY <1>1, <1>2, <1>4, <1>5, <1>10, <1>12
<1>14. QED BY <1>1, <1>11, <1>13

\* The instructions FindsTheInstruction chooses from.
Candidates == {m \in 1..Len(isa) : ~Lost(m) /\ Matches(isa[m], word)}

LEMMA CandidatesStay ==
    ASSUME isa' = isa, allFields' = allFields, word' = word
    PROVE  Candidates' = Candidates /\ \A y, m : Precedes(y, m)' = Precedes(y, m)
<1>1. \A instr : Checks(instr)' = Checks(instr)
  BY DEF Checks, IdOf, Ids
<1>2. \A m : Lost(m)' = Lost(m)
  BY <1>1 DEF Lost
<1>3. \A m : Matches(isa[m], word)' = Matches(isa[m], word)
  BY <1>1 DEF Matches, GetBits
<1>4. Candidates' = Candidates
  BY <1>2, <1>3 DEF Candidates
<1>5. \A prefix : FirstWith(prefix)' = FirstWith(prefix)
  BY <1>1 DEF FirstWith
<1>6. \A y, m : Precedes(y, m)' = Precedes(y, m)
  BY <1>1, <1>5 DEF Precedes
<1>7. QED BY <1>4, <1>6

LEMMA MatchAnswers ==
    ASSUME Declaration, NEW Over, Complete(Lists, Rest, Len(isa), tree, Over), Path(Over),
           Cached, NEW Live, NEW From, NEW Depth, Sorted(Live, From, Depth),
           Searched(Live, From, Depth), FoundMatch
    PROVE  FindsTheInstruction'
<1>1. /\ d # 0 /\ FieldRead.value = tree[d].value /\ tree[d].found # 0
      /\ result' = tree[d].found
      /\ isa' = isa /\ allFields' = allFields /\ word' = word
  BY DEF FoundMatch, Searching, Match, decl
<1>2. d = chosenPath[Len(chosenPath)] /\ tree[d].value = Value(word, tree[d].id)
  BY <1>1, HeadIs
<1>3. PICK m : m = tree[d].found
  OBVIOUS
<1>4. /\ m \in 1..Len(isa) /\ Fits(Lists, word, m)
      /\ \A y \in 1..Len(isa) : ~(/\ Len(Lists[y]) < Len(Lists[m])
                                  /\ Alike(Lists, y, m, Len(Lists[y])))
      /\ \A y \in 1..Len(isa) : Fits(Lists, word, y) => NotBefore(Lists, Len(isa), y, m)
  BY <1>1, <1>2, <1>3, ListsAre, FindsFirst DEF Sorted, Searched
<1>5. m \in Candidates
  BY <1>4, LostIs, FitsIs DEF Candidates
<1>6. ASSUME NEW y \in Candidates PROVE ~Precedes(y, m)
  <2>1. y \in 1..Len(isa) /\ Matches(isa[y], word)
    BY DEF Candidates
  <2>2. NotBefore(Lists, Len(isa), y, m)
    BY <1>4, <2>1, FitsIs
  <2> QED BY <1>4, <2>1, <2>2, PrecedesIs
<1>7. Candidates' = Candidates /\ \A y : Precedes(y, m)' = Precedes(y, m)
  BY <1>1, CandidatesStay
<1>8. result' = m
  BY <1>1, <1>3
<1>9. result' \in Candidates' /\ \A y \in Candidates' \ {result'} : ~Precedes(y, m)'
  BY <1>5, <1>6, <1>7, <1>8
<1>10. QED BY <1>8, <1>9 DEF FindsTheInstruction, Candidates

LEMMA NoneAnswers ==
    ASSUME Declaration, NEW Over, Path(Over),
           NEW Live, NEW From, NEW Depth, Sorted(Live, From, Depth),
           Searched(Live, From, Depth), NotFound
    PROVE  FindsTheInstruction'
<1>1. /\ d = 0 /\ Len(chosenPath) = 1 /\ result' = 0
      /\ isa' = isa /\ allFields' = allFields /\ word' = word
  BY DEF NotFound, decl
<1>2. chosenPath[1] = 0
  BY <1>1 DEF Path
<1>3. ASSUME NEW y \in 1..Len(isa) PROVE ~Fits(Lists, word, y)
  BY <1>1, <1>2, ListsAre, FindsNone DEF Sorted, Searched
<1>4. Candidates = {}
  BY <1>3, FitsIs DEF Candidates
<1>5. Candidates' = {}
  BY <1>1, <1>4, CandidatesStay
<1>6. QED BY <1>1, <1>5 DEF FindsTheInstruction, Candidates

-----------------------------------------------------------------------------
(* The theorems.                                                           *)

Idle == phase # "run" => pc = "idle"

\* The inductive invariant: the history of the generator's tree, the place of
\* the search in it, and what the search has left behind.
IInv == /\ Underway /\ Idle /\ Results /\ Simulating /\ OperandsAreCurrent
        /\ InSearch /\ FindsTheInstruction

LEMMA InitIInv == Init => IInv
<1> SUFFICES ASSUME Init PROVE IInv
  OBVIOUS
<1>1. Underway
  BY InitBuilding
<1>2. Results
  BY DEF Init, Results, Ids, IdSet
<1>3. QED BY <1>1, <1>2 DEF Init, IInv, Idle, Simulating, OperandsAreCurrent, InSearch,
                            FindsTheInstruction

\* The tree the simulator decodes with is complete.
LEMMA RunIsComplete ==
    ASSUME Declaration, Good(Lists, Rest, Len(isa), Here), i \notin 1..Len(isa)
    PROVE  \E Over : Complete(Lists, Rest, Len(isa), tree, Over)
<1>1. Here.tree = tree /\ Here.i = i /\ Here.l = l /\ Here.d = d
  BY DEF Here, Step
<1>2. PICK Over : Tree(Lists, Rest, Len(isa), Here.tree, Over)
                  /\ Place(Lists, Len(isa), Here, Over)
  BY DEF Good
<1>3. i \in 1..Len(isa) + 1 /\ l = 0 /\ Len(isa) \in Nat \ {0}
  BY HereType, DeclarationType
<1>4. i > 1
  BY <1>3
<1>5. QED BY <1>1, <1>2, <1>3, <1>4 DEF Complete, Place

LEMMA BuildIInv == ASSUME IInv, Build PROVE IInv'
<1>1. pc' = pc /\ word' = word /\ fields' = fields /\ result' = result
      /\ isa' = isa /\ allFields' = allFields /\ phase # "run"
  BY DEF Build, AddToDecoder, Conflict, IncludeSubcheck, IncludeNext, Found, Elaborate, Run,
         AddCheck, Building, decl, search
<1>2. pc = "idle"
  BY <1>1 DEF IInv, Idle
<1>3. Idle' /\ Results' /\ OperandsAreCurrent' /\ FindsTheInstruction'
  BY <1>1, <1>2 DEF IInv, Idle, Results, OperandsAreCurrent, FindsTheInstruction
<1>4. CASE Adds /\ phase' = phase
  <2>1. phase \in {"generate", "elaborate"}
    BY <1>4 DEF Adds, AddToDecoder, IncludeSubcheck, IncludeNext, Found, AddCheck, Building
  <2>2. Underway'
    BY <1>4, <2>1, GeneratorAdds, SimulatorAdds DEF IInv
  <2>3. Simulating' /\ InSearch'
    BY <1>1, <1>4 DEF Simulating, InSearch
  <2> QED BY <1>3, <2>2, <2>3 DEF IInv
<1>5. CASE (AddToDecoder /\ phase' = "no decode list") \/ Conflict
  <2>1. phase' \in {"no decode list", "decoding conflict"}
    BY <1>5 DEF Conflict
  <2>2. Underway'
    BY <1>1, <2>1, BuildingEnds DEF IInv
  <2>3. Simulating' /\ InSearch'
    BY <2>1 DEF Simulating, InSearch
  <2> QED BY <1>3, <2>2, <2>3 DEF IInv
<1>6. CASE Elaborate
  <2>1. Underway'
    BY <1>6, ElaborateBuilds DEF IInv
  <2>2. Simulating' /\ InSearch'
    BY <1>6 DEF Simulating, InSearch, Elaborate
  <2> QED BY <1>3, <2>1, <2>2 DEF IInv
<1>7. CASE Run
  <2>1. /\ Underway' /\ Good(Lists, Rest, Len(isa), Here) /\ i \notin 1..Len(isa)
        /\ \E Live, From, Depth : Settled(Lists, Len(isa), tree, Live, From, Depth)
    BY <1>7, RunBuilds DEF IInv
  <2>2. Declaration
    BY DEF IInv, Underway
  <2>3. PICK Over : Complete(Lists, Rest, Len(isa), tree, Over)
    BY <2>1, <2>2, RunIsComplete
  <2>4. Lists' = Lists /\ Rest' = Rest
    BY <1>1, DeclarationStays
  <2>5. tree' = tree
    BY <1>7 DEF Run
  <2>6. Complete(Lists', Rest', Len(isa'), tree', Over)
    BY <1>1, <2>3, <2>4, <2>5
  <2>7. Simulating'
    BY <1>1, <1>2, <2>6 DEF Simulating
  <2>8. \E Live, From, Depth : Settled(Lists', Len(isa'), tree', Live, From, Depth)
    BY <1>1, <2>1, <2>4, <2>5
  <2>9. InSearch'
    BY <1>1, <1>2, <2>8 DEF InSearch, Sorted
  <2> QED BY <1>3, <2>1, <2>7, <2>9 DEF IInv
<1>8. \/ Adds /\ phase' = phase
      \/ AddToDecoder /\ phase' = "no decode list"
      \/ Conflict \/ Elaborate \/ Run
  BY DEF Build, Adds, AddToDecoder, IncludeSubcheck, IncludeNext, Found
<1>9. QED BY <1>4, <1>5, <1>6, <1>7, <1>8

\* A step of Decode() that goes on, and one that ends the search.
LEMMA SearchIInv ==
    ASSUME IInv, (\E w \in Words : Decode(w)) \/ Search \/ Copied
    PROVE  IInv'
<1>1. /\ isa' = isa /\ allFields' = allFields /\ tree' = tree
      /\ phase' = phase
  BY DEF Decode, Search, FoundMatch, FollowSubcheck, FollowNext, Backtrack, NotFound, Copied,
         decl
<1>2. phase = "run" /\ Idle'
  BY <1>1 DEF IInv, Idle, Decode, Search, FoundMatch, FollowSubcheck, FollowNext, Backtrack,
              NotFound, Copied, Searching
<1>3. Underway'
  BY <1>1, <1>2, BuildingKept DEF IInv
<1>4. Declaration /\ Results /\ Lists' = Lists /\ Rest' = Rest
  BY <1>1, DeclarationStays DEF IInv, Underway
<1>5. PICK Over : /\ Complete(Lists, Rest, Len(isa), tree, Over)
                  /\ pc = "search" => Path(Over) /\ Cached
  BY <1>2 DEF IInv, Simulating
<1>6. Complete(Lists', Rest', Len(isa'), tree', Over)
  BY <1>1, <1>4, <1>5
<1>7. PICK Live, From, Depth : /\ Sorted(Live, From, Depth)
                               /\ pc = "search" => Searched(Live, From, Depth)
  BY <1>2 DEF IInv, InSearch
<1>8. Settled(Lists', Len(isa'), tree', Live, From, Depth)
  BY <1>1, <1>4, <1>7 DEF Sorted
<1>9. ASSUME Path(Over)', Cached',
             Walked(Lists, Len(isa), tree, word', Live, From, Depth, chosenPath')
      PROVE  Simulating' /\ InSearch'
  <2>1. Walked(Lists', Len(isa'), tree', word', Live, From, Depth, chosenPath')
    BY <1>1, <1>4, <1>9
  <2> QED BY <1>6, <1>8, <1>9, <2>1 DEF Simulating, InSearch, Sorted, Searched
<1>10. ASSUME pc' # "search" PROVE Simulating' /\ InSearch'
  BY <1>6, <1>8, <1>10 DEF Simulating, InSearch, Sorted
<1>11. CASE \E w \in Words : Decode(w)
  <2>1. PICK w \in Words : Decode(w)
    BY <1>11
  <2>2. Simulating' /\ InSearch'
    BY <1>4, <1>5, <1>7, <1>9, <2>1, DecodeSearches, DecodeSearched
  <2>3. Results' /\ OperandsAreCurrent' /\ FindsTheInstruction'
    BY <1>4, <2>1 DEF Decode, Results, OperandsAreCurrent, FindsTheInstruction
  <2> QED BY <1>2, <1>3, <2>2, <2>3 DEF IInv
<1>12. CASE FoundMatch
  <2>1. pc = "search" /\ pc' = "return"
    BY <1>12 DEF FoundMatch, Searching
  <2>2. OperandsAreCurrent' /\ Results'
    BY <1>4, <1>5, <1>12, <2>1, MatchExtracts
  <2>3. FindsTheInstruction'
    BY <1>4, <1>5, <1>7, <1>12, <2>1, MatchAnswers
  <2>4. Simulating' /\ InSearch'
    BY <1>10, <2>1
  <2> QED BY <1>2, <1>3, <2>2, <2>3, <2>4 DEF IInv
<1>13. CASE FollowSubcheck
  <2>1. pc = "search" /\ pc' = "search"
    BY <1>13 DEF FollowSubcheck, Searching
  <2>2. Path(Over)' /\ Cached' /\ Results'
    BY <1>4, <1>5, <1>13, <2>1, SubcheckSearches
  <2>3. Simulating' /\ InSearch'
    BY <1>4, <1>5, <1>7, <1>9, <1>13, <2>1, <2>2, SubcheckSearched
  <2>4. OperandsAreCurrent' /\ FindsTheInstruction'
    BY <2>1 DEF OperandsAreCurrent, FindsTheInstruction
  <2> QED BY <1>2, <1>3, <2>2, <2>3, <2>4 DEF IInv
<1>14. CASE FollowNext
  <2>1. pc = "search" /\ pc' = "search" /\ fields' = fields
    BY <1>14 DEF FollowNext, Searching
  <2>2. Path(Over)' /\ Cached'
    BY <1>4, <1>5, <1>14, <2>1, NextSearches
  <2>3. Simulating' /\ InSearch'
    BY <1>4, <1>5, <1>7, <1>9, <1>14, <2>1, <2>2, NextSearched
  <2>4. OperandsAreCurrent' /\ Results' /\ FindsTheInstruction'
    BY <1>4, <2>1 DEF OperandsAreCurrent, Results, FindsTheInstruction
  <2> QED BY <1>2, <1>3, <2>3, <2>4 DEF IInv
<1>15. CASE Backtrack
  <2>1. pc = "search" /\ pc' = "search" /\ fields' = fields
    BY <1>15 DEF Backtrack
  <2>2. Path(Over)' /\ Cached'
    BY <1>4, <1>5, <1>15, <2>1, BacktrackSearches
  <2>3. Simulating' /\ InSearch'
    BY <1>4, <1>5, <1>7, <1>9, <1>15, <2>1, <2>2, BacktrackSearched
  <2>4. OperandsAreCurrent' /\ Results' /\ FindsTheInstruction'
    BY <1>4, <2>1 DEF OperandsAreCurrent, Results, FindsTheInstruction
  <2> QED BY <1>2, <1>3, <2>3, <2>4 DEF IInv
<1>16. CASE NotFound \/ Copied
  <2>1. pc' # "search" /\ fields' = fields /\ result' = 0
    BY <1>16 DEF NotFound, Copied
  <2>2. OperandsAreCurrent' /\ Results'
    BY <1>4, <2>1 DEF OperandsAreCurrent, Results
  <2>3. FindsTheInstruction'
    <3>1. CASE NotFound
      <4>1. pc = "search"
        BY <3>1 DEF NotFound
      <4> QED BY <1>4, <1>5, <1>7, <3>1, <4>1, NoneAnswers
    <3>2. CASE Copied
      BY <3>2 DEF Copied, FindsTheInstruction
    <3> QED BY <1>16, <3>1, <3>2
  <2>4. Simulating' /\ InSearch'
    BY <1>10, <2>1
  <2> QED BY <1>2, <1>3, <2>2, <2>3, <2>4 DEF IInv
<1>17. QED BY <1>11, <1>12, <1>13, <1>14, <1>15, <1>16 DEF Search

LEMMA NextIInv == IInv /\ [Next]_vars => IInv'
<1> SUFFICES ASSUME IInv, [Next]_vars PROVE IInv'
  OBVIOUS
<1>1. CASE Build
  BY <1>1, BuildIInv
<1>2. CASE (\E w \in Words : Decode(w)) \/ Search \/ Copied
  BY <1>2, SearchIInv
<1>3. CASE UNCHANGED vars
  <2>1. /\ isa' = isa /\ allFields' = allFields /\ tree' = tree
        /\ phase' = phase /\ i' = i /\ l' = l /\ d' = d /\ pc' = pc /\ word' = word
        /\ field' = field /\ chosenPath' = chosenPath /\ fields' = fields /\ result' = result
    BY <1>3 DEF vars
  <2>2. Underway'
    BY <2>1, BuildingKept DEF IInv
  <2>3. Lists' = Lists /\ Rest' = Rest
    BY <2>1, DeclarationStays
  <2>4. Simulating'
    BY <2>1, <2>3 DEF IInv, Simulating, Path, Cached, Stored, IsCheck
  <2>5. Idle' /\ Results' /\ OperandsAreCurrent'
    BY <2>1 DEF IInv, Idle, Results, OperandsAreCurrent, IdOf, Ids, GetBits
  <2>6. InSearch'
    BY <2>1, <2>3 DEF IInv, InSearch, Sorted, Searched
  <2>7. FindsTheInstruction'
    <3>1. Candidates' = Candidates /\ \A y, m : Precedes(y, m)' = Precedes(y, m)
      BY <2>1, CandidatesStay
    <3>2. pc = "return" => /\ Candidates = {} => result = 0
                           /\ Candidates # {} =>
                                 /\ result \in Candidates
                                 /\ \A y \in Candidates \ {result} : ~Precedes(y, result)
      BY DEF IInv, FindsTheInstruction, Candidates
    <3>3. PICK m : m = result
      OBVIOUS
    <3>4. pc' = "return" => /\ Candidates' = {} => result' = 0
                            /\ Candidates' # {} =>
                                  /\ result' \in Candidates'
                                  /\ \A y \in Candidates' \ {m} : ~Precedes(y, m)'
      BY <2>1, <3>1, <3>2, <3>3
    <3>5. result' = m
      BY <2>1, <3>3
    <3> QED BY <3>4, <3>5 DEF FindsTheInstruction, Candidates
  <2> QED BY <2>2, <2>4, <2>5, <2>6, <2>7 DEF IInv
<1>4. QED BY <1>1, <1>2, <1>3 DEF Next

\* Every run of the specification keeps the invariant.
THEOREM Invariant == Spec => []IInv
BY InitIInv, NextIInv, PTL DEF Spec

\* The field of the last comparison is there when a search leaves a node, and
\* a value that is kept is that of the field the node checks.
THEOREM FieldKept == Spec => []FieldIsCurrent
<1>1. IInv => FieldIsCurrent
  <2> SUFFICES ASSUME IInv, pc = "search"
               PROVE  /\ d = 0 => field # NoField
                      /\ d # 0 /\ field # NoField =>
                            field = [id |-> tree[d].id, value |-> GetBits(word, tree[d].id)]
    BY DEF FieldIsCurrent
  <2>1. Declaration /\ Cached
    BY DEF IInv, Underway, Idle, Simulating
  <2> QED BY <2>1, ValueIs DEF Cached
<1>2. QED BY Invariant, <1>1, PTL

\* The fields of the instruction found all have their values in the word: those
\* checked on the way and those extracted at the end.
THEOREM OperandsExtracted == Spec => []OperandsAreCurrent
<1>1. IInv => OperandsAreCurrent
  BY DEF IInv
<1>2. QED BY Invariant, <1>1, PTL

\* Decode() answers with the instruction a linear search over the decode lists
\* would choose: of those the word fits and the tree still holds the first in its
\* order, and NULL only if there is none, although it reads fields once and goes
\* back over a path of nodes.
THEOREM SearchFinds == Spec => []FindsTheInstruction
<1>1. IInv => FindsTheInstruction
  BY DEF IInv
<1>2. QED BY Invariant, <1>1, PTL

-----------------------------------------------------------------------------
(* Conflicts.                                                              *)

LEMMA BeginsIs ==
    ASSUME Declaration, NEW m \in 1..Len(isa), NEW n \in 1..Len(isa)
    PROVE  IsPrefix(Checks(isa[m]), Checks(isa[n])) <=> Alike(Lists, m, n, Len(Lists[m]))
<1> DEFINE s == Lists[m]
           u == Lists[n]
           S == [id : IdSet, value : Nat]
<1>1. /\ s \in Seq(S) /\ u \in Seq(S) /\ Checks(isa[m]) = s /\ Checks(isa[n]) = u
      /\ Len(s) \in Nat
  BY ListsAre
<1> HIDE DEF s, u, S
<1>2. SubSeq(s, 1, Len(s)) = s /\ Len(s) \in 0..Len(s) /\ Len(s) <= Len(s)
  BY <1>1
<1>3. IsPrefix(s, u) <=> Len(s) <= Len(u) /\ \A j \in 1..Len(s) : u[j] = s[j]
  <2>1. PICK p \in 0..Len(s) : p = Len(s)
    BY <1>2
  <2>2. IsPrefix(SubSeq(s, 1, p), u) <=> p <= Len(u) /\ \A j \in 1..p : u[j] = s[j]
    BY <1>1, PrefixIs
  <2> QED BY <1>2, <2>1, <2>2
<1>4. Alike(Lists, m, n, Len(s)) <=> Len(s) <= Len(u) /\ \A j \in 1..Len(s) : s[j] = u[j]
  BY <1>2 DEF Alike, s, u
<1>5. QED BY <1>1, <1>3, <1>4 DEF s

\* The instruction named by the message of the generator.
Named ==
    phase = "decoding conflict" =>
        /\ tree[d].found \in 1..i - 1
        /\ IsPrefix(Checks(isa[tree[d].found]), Checks(isa[i]))

LEMMA SameIs ==
    ASSUME Declaration, AddCheck, Same
    PROVE  i \in 1..Len(isa) /\ l # 0 /\ SameAs(tree, d, Lists[i][l])
<1>1. i \in 1..Len(isa) /\ l # 0 /\ This = Lists[i]
  BY DeclarationType DEF AddCheck, Building, This
<1>2. QED BY <1>1 DEF Same, SameAs

LEMMA ConflictNames == ASSUME IInv, Conflict PROVE Named'
<1>1. PICK n, r : History(Lists, Rest, Len(isa), n, r) /\ Follows(n, r)
  BY DEF IInv, Underway
<1>2. /\ phase = "generate" /\ AddCheck /\ Same /\ tree[d].found # 0
      /\ isa' = isa /\ allFields' = allFields /\ tree' = tree /\ i' = i /\ d' = d
  BY DEF Conflict, decl
<1>3. Declaration /\ Len(isa) \in Nat
  BY DeclarationType DEF IInv, Underway
<1>4. i \in 1..Len(isa) /\ l # 0 /\ SameAs(tree, d, Lists[i][l])
  BY <1>2, <1>3, SameIs
<1>5. InOrder(Lists, Len(isa), Here)
  <2>1. n \in 0..n
    BY <1>1 DEF History
  <2> QED BY <1>1, <1>2, <2>1 DEF History, Follows
<1>6. Here.tree = tree /\ Here.i = i /\ Here.l = l /\ Here.d = d
  BY DEF Here, Step
<1> DEFINE m == tree[d].found
<1>7. m \in 1..i - 1 /\ Alike(Lists, m, i, Len(Lists[m]))
  <2>1. Declared(Lists, Rest, Len(isa))
    BY <1>3, DeclarationType
  <2> QED BY <1>2, <1>4, <1>5, <1>6, <2>1, Meets
<1> HIDE DEF m
<1>8. m \in 1..Len(isa)
  BY <1>3, <1>4, <1>7
<1>9. IsPrefix(Checks(isa[m]), Checks(isa[i]))
  BY <1>3, <1>4, <1>7, <1>8, BeginsIs
<1>10. Checks(isa[tree[d].found])' = Checks(isa[m]) /\ Checks(isa[i])' = Checks(isa[i])
  BY <1>2 DEF Checks, IdOf, Ids, m
<1>11. QED BY <1>2, <1>7, <1>9, <1>10 DEF Named, m

LEMMA NextNamed == IInv /\ Named /\ [Next]_vars => Named'
<1> SUFFICES ASSUME IInv, Named, [Next]_vars PROVE Named'
  OBVIOUS
<1>1. CASE Conflict
  BY <1>1, ConflictNames
<1>2. CASE Build /\ ~Conflict
  <2>1. phase' # "decoding conflict"
    BY <1>2 DEF Build, AddToDecoder, IncludeSubcheck, IncludeNext, Found, Elaborate, Run,
           AddCheck, Building
  <2> QED BY <2>1 DEF Named
<1>3. CASE (\E w \in Words : Decode(w)) \/ Search \/ Copied
  <2>1. phase = "run" /\ phase' = phase
    BY <1>3 DEF IInv, Idle, Decode, Search, FoundMatch, FollowSubcheck, FollowNext, Backtrack,
           NotFound, Copied, Searching
  <2> QED BY <2>1 DEF Named
<1>4. CASE UNCHANGED vars
  <2>1. /\ isa' = isa /\ allFields' = allFields /\ tree' = tree
        /\ phase' = phase /\ i' = i /\ d' = d
    BY <1>4 DEF vars
  <2> DEFINE m == tree[d].found
  <2>2. Checks(isa[tree[d].found])' = Checks(isa[m]) /\ Checks(isa[i])' = Checks(isa[i])
    BY <2>1 DEF Checks, IdOf, Ids
  <2>3. phase = "decoding conflict" =>
           m \in 1..i - 1 /\ IsPrefix(Checks(isa[m]), Checks(isa[i]))
    BY DEF Named
  <2>4. tree[d].found' = m
    BY <2>1
  <2> HIDE DEF m
  <2> QED BY <2>1, <2>2, <2>3, <2>4 DEF Named
<1>5. QED BY <1>1, <1>2, <1>3, <1>4 DEF Next

\* What the generator has accepted.
LEMMA AcceptedApart ==
    ASSUME IInv, phase \in {"elaborate", "run"},
           NEW z \in 1..Len(isa), NEW y \in 1..z - 1
    PROVE  ~IsPrefix(Checks(isa[y]), Checks(isa[z]))
<1>1. PICK n, r : History(Lists, Rest, Len(isa), n, r) /\ Follows(n, r)
  BY DEF IInv, Underway
<1>2. Declaration /\ Len(isa) \in Nat
  BY DeclarationType DEF IInv, Underway
<1>3. r[n].i \notin 1..Len(isa)
  BY <1>1 DEF Follows
<1>4. InOrder(Lists, Len(isa), r[n]) /\ Apart(Lists, r[n].i)
  <2>1. n \in 0..n
    BY <1>1 DEF History
  <2> QED BY <1>1, <2>1 DEF History
<1>5. r[n].i \in 1..Len(isa) + 1
  BY <1>4 DEF InOrder, Standing
<1>6. r[n].i = Len(isa) + 1 /\ z \in 1..Len(isa) + 1 - 1 /\ y \in 1..Len(isa)
  BY <1>2, <1>3, <1>5
<1>7. ~Alike(Lists, y, z, Len(Lists[y]))
  BY <1>4, <1>6 DEF Apart
<1>8. QED BY <1>2, <1>6, <1>7, BeginsIs

\* The simulator's builder goes where the generator's has been, which did not end.
LEMMA NothingOverwritten ==
    ASSUME IInv, phase = "elaborate", AddCheck, Same
    PROVE  tree[d].found = 0
<1>1. PICK n, r : History(Lists, Rest, Len(isa), n, r) /\ Follows(n, r)
  BY DEF IInv, Underway
<1>2. i \in 1..Len(isa) /\ l # 0 /\ SameAs(tree, d, Lists[i][l])
  BY SameIs DEF IInv, Underway
<1>3. PICK k \in 0..n : r[k] = Here
  BY <1>1 DEF Follows
<1>4. Here.tree = tree /\ Here.i = i /\ Here.l = l /\ Here.d = d
  BY DEF Here, Step
<1>5. k \in 0..n - 1
  <2>1. r[n].i \notin 1..Len(isa) /\ n \in Nat
    BY <1>1 DEF Follows, History
  <2> QED BY <1>2, <1>3, <1>4, <2>1
<1>6. Free(Lists, Here)
  BY <1>1, <1>3, <1>5 DEF History
<1>7. QED BY <1>2, <1>4, <1>6 DEF Free

\* The generator ends with the conflict message only if the list of the instruction
\* it names begins the present one, it accepts only if no list begins a later one,
\* and the simulator, which looks for no conflicts, then never puts an instruction in
\* the place of another.
THEOREM ConflictsFound == Spec => []ConflictsAreReported
<1>1. Init => Named
  BY DEF Init, Named
<1>2. Spec => []Named
  BY Invariant, NextNamed, <1>1, PTL DEF Spec
<1>3. IInv /\ Named => ConflictsAreReported
  BY AcceptedApart, NothingOverwritten DEF Named, ConflictsAreReported
<1>4. QED BY Invariant, <1>2, <1>3, PTL

-----------------------------------------------------------------------------
(* Types.                                                                  *)

\* A node without a value, or one with a check of some list.
OfLists(C, N, node) ==
    node.value = -1 \/ \E m \in 1..N : \E p \in 1..Len(C[m]) :
                          node.id = C[m][p].id /\ node.value = C[m][p].value

FromLists(C, N, t) == \A n \in 1..Len(t) : OfLists(C, N, t[n])

LinksInside(N, t) ==
    /\ t \in Seq(NodeSet)
    /\ \A n \in 1..Len(t) : /\ t[n].found \in 0..N
                            /\ t[n].subcheck \in 0..Len(t) /\ t[n].next \in 0..Len(t)

LEMMA TreeIsLinked ==
    ASSUME NEW C, NEW O, NEW N \in Nat, NEW t, NEW Over, Tree(C, O, N, t, Over)
    PROVE  LinksInside(N, t)
<1>1. t \in Seq(NodeSet)
  BY DEF Tree
<1>2. ASSUME NEW n \in 1..Len(t)
      PROVE  /\ t[n].found \in 0..N
             /\ t[n].subcheck \in 0..Len(t) /\ t[n].next \in 0..Len(t)
  <2>1. Len(t) \in Nat
    BY <1>1
  <2>2. t[n].next # 0 => t[n].next \in 1..Len(t)
    BY DEF Tree, LinkedAt
  <2>3. t[n].subcheck # 0 => t[n].subcheck \in 1..Len(t)
    BY DEF Tree, LinkedAt
  <2>4. t[n].found # 0 => t[n].found \in 1..N
    BY DEF Tree, ExtractsAt
  <2> QED BY <2>1, <2>2, <2>3, <2>4
<1>3. QED BY <1>1, <1>2 DEF LinksInside

\* A node for a check of a list, appended to nodes that are, or some without values.
LEMMA GrownFromLists ==
    ASSUME NEW C, NEW N, NEW t \in Seq(NodeSet), NEW at \in 1..Len(t), NEW r,
           NEW s \in Seq(NodeSet), NEW u, Grown(t, at, r, s, u), SameCheck(t, at, r),
           FromLists(C, N, t), \A p \in 1..Len(s) : OfLists(C, N, s[p])
    PROVE  FromLists(C, N, u)
<1> SUFFICES ASSUME NEW n \in 1..Len(u) PROVE OfLists(C, N, u[n])
  BY DEF FromLists
<1>1. CASE n \in 1..Len(t)
  <2>1. u[n].value = t[n].value /\ u[n].id = t[n].id
    BY <1>1, GrownFacts
  <2>2. OfLists(C, N, t[n])
    BY <1>1 DEF FromLists
  <2> QED BY <2>1, <2>2 DEF OfLists
<1>2. CASE n \notin 1..Len(t)
  <2>1. PICK p \in 1..Len(s) : n = Len(t) + p
    BY <1>2, GrownFacts
  <2>2. u[n] = s[p]
    BY <2>1 DEF Grown
  <2> QED BY <2>2
<1>3. QED BY <1>1, <1>2

LEMMA NodeOfLists ==
    ASSUME NEW C, NEW N, NEW m \in 1..N, NEW p \in 1..Len(C[m])
    PROVE  OfLists(C, N, Node(C[m][p]))
BY NodeFields DEF OfLists

\* Every step of AddToDecoder allocates such nodes only.
LEMMA BuiltFromLists ==
    ASSUME NEW C, NEW O, NEW N, Declared(C, O, N), NEW q, Good(C, O, N, q),
           q.i \in 1..N, Len(C[q.i]) # 0, FromLists(C, N, q.tree)
    PROVE  FromLists(C, N, Built(C, O, q).tree)
<1> DEFINE t == q.tree
           m == q.i
           at == q.d
<1>1. /\ C[m] \in Seq([id : IdSet, value : Nat]) /\ O[m] \in Seq(IdSet) /\ m \in Nat
      /\ Len(C[m]) \in Nat \ {0}
  <2>1. m \in 1..N /\ N \in Nat
    BY DEF Declared
  <2>2. C[m] \in Seq([id : IdSet, value : Nat]) /\ O[m] \in Seq(IdSet) /\ Len(C[m]) # 0
    BY <2>1 DEF Declared
  <2> HIDE DEF m
  <2>3. m \in Nat /\ Len(C[m]) \in Nat
    BY <2>1, <2>2
  <2> QED BY <2>2, <2>3
<1>2. t \in Seq(NodeSet) /\ (q.l # 0 => q.l \in 1..Len(C[m]) /\ at \in 1..Len(t))
  BY DEF Good, Tree, Place
<1>3. FromLists(C, N, t)
  OBVIOUS
<1>4. \A p \in 1..Len(C[m]) :
          C[m][p] \in [id : IdSet, value : Nat] /\ OfLists(C, N, Node(C[m][p]))
  <2> SUFFICES ASSUME NEW p \in 1..Len(C[m])
               PROVE  C[m][p] \in [id : IdSet, value : Nat] /\ OfLists(C, N, Node(C[m][p]))
    OBVIOUS
  <2>1. m \in 1..N
    OBVIOUS
  <2>2. C[m][p] \in [id : IdSet, value : Nat]
    <3> DEFINE R == [id : IdSet, value : Nat]
    <3>1. C[m] \in Seq(R)
      BY <1>1
    <3> HIDE DEF R, m
    <3>2. C[m][p] \in R
      BY <3>1
    <3> QED BY <3>2 DEF R
  <2>3. OfLists(C, N, Node(C[m][p]))
    BY ONLY <2>1, p \in 1..Len(C[m]), NodeOfLists
  <2> QED BY <2>2, <2>3
<1>5. \A pos, k, x : \A v : Step(v, k, pos, x).tree = v
  BY DEF Step
<1>6. CASE q.l = 0
  <2>1. Built(C, O, q).tree = BeginTree(t, C[m][1])
    BY <1>5, <1>6 DEF Built
  <2>2. CASE t = <<>>
    <3>1. BeginTree(t, C[m][1]) = <<Node(C[m][1])>>
      BY <2>2 DEF BeginTree
    <3>2. OfLists(C, N, Node(C[m][1]))
      <4>1. 1 \in 1..Len(C[m])
        BY <1>1
      <4> QED BY <4>1, <1>4
    <3> DEFINE x == Node(C[m][1])
    <3> HIDE DEF x
    <3>3. Len(<<x>>) = 1 /\ <<x>>[1] = x /\ \A n \in 1..1 : n = 1
      OBVIOUS
    <3>4. FromLists(C, N, <<x>>)
      BY <3>2, <3>3 DEF FromLists, x
    <3> QED BY <2>1, <3>1, <3>4 DEF x
  <2>3. CASE t # <<>>
    BY <2>1, <2>3, <1>3 DEF BeginTree
  <2> QED BY <2>2, <2>3
<1>7. ASSUME NEW check, NEW r, NEW u, q.l # 0, check \in [id : IdSet, value : Nat],
             Grown(t, at, r, <<Node(check)>>, u), SameCheck(t, at, r),
             OfLists(C, N, Node(check))
      PROVE  FromLists(C, N, u)
  <2> DEFINE x == Node(check)
  <2>1. <<x>> \in Seq(NodeSet)
    BY <1>7, NodeType
  <2> HIDE DEF x
  <2>2. Len(<<x>>) = 1 /\ <<x>>[1] = x /\ \A n \in 1..1 : n = 1
    OBVIOUS
  <2>3. \A p \in 1..Len(<<x>>) : OfLists(C, N, <<x>>[p])
    BY <1>7, <2>2 DEF x
  <2>4. Grown(t, at, r, <<x>>, u)
    BY <1>7 DEF x
  <2> HIDE DEF t, at
  <2> QED BY <1>2, <1>3, <1>7, <2>1, <2>3, <2>4, GrownFromLists
<1>8. CASE q.l # 0 /\ ~SameAs(t, at, C[m][q.l])
  <2> DEFINE check == C[m][q.l]
             r == [t[at] EXCEPT !.next = Len(t) + 1]
  <2>1. Built(C, O, q).tree = PastTree(t, at, check)
    BY <1>5, <1>8 DEF Built
  <2>2. CASE t[at].next # 0
    BY <2>1, <2>2, <1>3 DEF PastTree
  <2>3. CASE t[at].next = 0
    <3>1. check \in [id : IdSet, value : Nat] /\ OfLists(C, N, Node(check))
      BY <1>2, <1>8, <1>4
    <3>2. Grown(t, at, r, <<Node(check)>>, PastTree(t, at, check))
      BY <1>2, <1>8, <2>3, <3>1, PastGrows
    <3>3. SameCheck(t, at, r)
      <4>1. t[at] \in NodeSet
        BY <1>2, <1>8
      <4> QED BY <4>1 DEF SameCheck, NodeSet
    <3> QED BY <1>7, <1>8, <2>1, <3>1, <3>2, <3>3
  <2> QED BY <2>2, <2>3
<1>9. CASE q.l # 0 /\ SameAs(t, at, C[m][q.l]) /\ q.l < Len(C[m])
  <2> DEFINE check == C[m][q.l + 1]
             r == [t[at] EXCEPT !.subcheck = Len(t) + 1]
  <2>1. Built(C, O, q).tree = DownTree(t, at, check)
    BY <1>5, <1>9 DEF Built
  <2>2. CASE t[at].subcheck # 0
    BY <2>1, <2>2, <1>3 DEF DownTree
  <2>3. CASE t[at].subcheck = 0
    <3>1. q.l + 1 \in 1..Len(C[m])
      BY <1>1, <1>2, <1>9
    <3>2. check \in [id : IdSet, value : Nat] /\ OfLists(C, N, Node(check))
      BY <3>1, <1>4
    <3>3. Grown(t, at, r, <<Node(check)>>, DownTree(t, at, check))
      BY <1>2, <1>9, <2>3, <3>2, DownGrows
    <3>4. SameCheck(t, at, r)
      <4>1. t[at] \in NodeSet
        BY <1>2, <1>9
      <4> QED BY <4>1 DEF SameCheck, NodeSet
    <3> QED BY <1>7, <1>9, <2>1, <3>2, <3>3, <3>4
  <2> QED BY <2>2, <2>3
<1>10. CASE q.l # 0 /\ SameAs(t, at, C[m][q.l]) /\ ~(q.l < Len(C[m]))
  <2> DEFINE ids == O[m]
             s == Guide(ids, Len(t) + 1)
             r == [t[at] EXCEPT !.found = m,
                        !.subcheck = IF ids = <<>> THEN 0 ELSE Len(t) + 1]
  <2>1. Built(C, O, q).tree = FoundTree(t, at, m, ids)
    BY <1>5, <1>10 DEF Built
  <2>2. Grown(t, at, r, s, FoundTree(t, at, m, ids))
    BY <1>1, <1>2, <1>10, FoundGrows
  <2>3. SameCheck(t, at, r)
    <3>1. t[at] \in NodeSet
      BY <1>2, <1>10
    <3> QED BY <3>1 DEF SameCheck, NodeSet
  <2>4. s \in Seq(NodeSet) /\ \A p \in 1..Len(s) : s[p].value = -1
    <3>1. Len(t) + 1 \in Nat
      BY <1>2
    <3> QED BY <1>1, <3>1, GuideType
  <2>5. \A p \in 1..Len(s) : OfLists(C, N, s[p])
    BY <2>4 DEF OfLists
  <2> HIDE DEF s, r, t, at
  <2>6. FromLists(C, N, FoundTree(t, at, m, ids))
    BY <1>2, <1>3, <1>10, <2>2, <2>3, <2>4, <2>5, GrownFromLists
  <2> QED BY <2>1, <2>6
<1>11. QED BY <1>6, <1>8, <1>9, <1>10

\* There is a list as long as the search is deep: a level above the last stands
\* at a check with children, and the tree has a list for each node.
LEMMA DepthIsBounded ==
    ASSUME NEW C, NEW O, NEW N \in Nat \ {0}, Finite(C, N), NEW t, NEW Over,
           Complete(C, O, N, t, Over), NEW Live, NEW From, NEW Depth,
           Settled(C, N, t, Live, From, Depth), NEW w, NEW c,
           Walked(C, N, t, w, Live, From, Depth, c), NEW j \in 1..Len(c),
           \A k \in 1..Len(c) : c[k] # 0 => c[k] \in 1..Len(t) /\ IsCheck(t, c[k])
    PROVE  \E m \in 1..N : Len(C[m]) >= j
<1>1. Len(c) \in Nat \ {0} /\ j \in Nat
  BY DEF Walked
<1>2. CASE c[j] # 0
  <2>1. j <= Len(C[From[c[j]]]) /\ From[c[j]] \in 1..N
    BY <1>2, LevelIs
  <2>2. Len(C[From[c[j]]]) \in Nat
    BY <2>1 DEF Finite
  <2> QED BY <1>1, <2>1, <2>2
<1>3. CASE c[j] = 0 /\ j = 1
  <2>1. 1 \in 1..N
    OBVIOUS
  <2>2. Len(C[1]) # 0 /\ Len(C[1]) \in Nat
    <3>1. \A y \in 1..N : AddedAt(C, t, Live, From, Depth, y)
      BY SettledIs
    <3>2. AddedAt(C, t, Live, From, Depth, 1)
      BY <2>1, <3>1
    <3> QED BY <2>1, <3>2 DEF AddedAt, Finite
  <2> QED BY <1>3, <2>1, <2>2
<1>4. CASE c[j] = 0 /\ j # 1
  <2> DEFINE e == c[j - 1]
  <2>1. j - 1 \in 1..Len(c) /\ j - 1 \in 1..Len(c) - 1
    BY <1>1, <1>4
  <2>2. e # 0 /\ t[e].found = 0
    BY <2>1 DEF Walked, Passed
  <2>3. e \in Live /\ Depth[e] = j - 1
    BY <2>1, <2>2 DEF Walked
  <2>4. e \in 1..Len(t) /\ IsCheck(t, e)
    BY <2>1, <2>2
  <2>5. t[e].subcheck # 0
    BY <2>2, <2>4, ChildIs
  <2> HIDE DEF e
  <2> DEFINE s == t[e].subcheck
  <2>6. s \in Live /\ Child(C, From, Depth, e, s)
    BY <2>2, <2>3, <2>5, SettledIs
  <2>7. From[s] \in 1..N /\ Depth[s] \in Nat /\ Depth[s] <= Len(C[From[s]])
    BY <2>6, SettledIs
  <2> HIDE DEF s
  <2>8. Depth[s] = j
    BY <1>1, <2>3, <2>6 DEF Child
  <2>9. Len(C[From[s]]) \in Nat
    BY <2>7 DEF Finite
  <2> QED BY <1>1, <2>7, <2>8, <2>9
<1>5. QED BY <1>2, <1>3, <1>4

Phases == {"generate", "elaborate", "run", "no decode list", "decoding conflict"}

\* A value the field id has in some word.
OfField(id, value) == \E w \in Words : value = Value(w, id)

BuildTyped ==
    /\ phase \in Phases /\ i \in 1..Len(isa) + 1 /\ d \in 0..Len(tree)
    /\ LinksInside(Len(isa), tree) /\ FromLists(Lists, Len(isa), tree)

ReadTyped == field # NoField => field.id \in IdSet /\ OfField(field.id, field.value)

PathTyped ==
    /\ pc = "idle" => Len(chosenPath) = 0
    /\ \A p \in 1..Len(chosenPath) :
          chosenPath[p] \in 0..Len(tree) /\ \E m \in 1..Len(isa) : Len(Lists[m]) >= p

FieldsTyped == \A id \in IdSet : fields[id] = Garbage \/ OfField(id, fields[id])

SearchTyped ==
    /\ pc \in {"idle", "search", "return"} /\ word \in Words /\ result \in 0..Len(isa)
    /\ ReadTyped /\ PathTyped /\ FieldsTyped

Typed == BuildTyped /\ SearchTyped

LEMMA TypedIs == IInv /\ Typed => TypeOK
<1> SUFFICES ASSUME IInv, Typed PROVE TypeOK
  OBVIOUS
<1> DEFINE checks == UNION {{Checks(isa[m])[p] : p \in 1..Len(isa[m].dec_list)} :
                            m \in 1..Len(isa)}
           node == [id : Ids, value : Nat \cup {-1}, found : 0..Len(isa),
                    subcheck : 0..Len(tree), next : 0..Len(tree)]
<1>1. Declaration /\ Results /\ Ids = IdSet /\ isa \in Isas
  BY DEF IInv, Underway, Declaration, Ids, IdSet
<1>2. ASSUME NEW n \in 1..Len(tree)
      PROVE  /\ tree[n] \in node
             /\ tree[n].value = -1 \/ [id |-> tree[n].id, value |-> tree[n].value] \in checks
  <2>1. /\ tree[n] \in NodeSet /\ OfLists(Lists, Len(isa), tree[n])
        /\ tree[n].found \in 0..Len(isa)
        /\ tree[n].subcheck \in 0..Len(tree) /\ tree[n].next \in 0..Len(tree)
    BY DEF Typed, BuildTyped, LinksInside, FromLists
  <2>2. CASE tree[n].value = -1
    <3>1. tree[n] \in node
      BY <1>1, <2>1, <2>2 DEF NodeSet
    <3> QED BY <2>2, <3>1
  <2>3. CASE tree[n].value # -1
    <3>1. PICK m \in 1..Len(isa) : \E p \in 1..Len(Lists[m]) :
              tree[n].id = Lists[m][p].id /\ tree[n].value = Lists[m][p].value
      BY <2>1, <2>3 DEF OfLists
    <3>2. PICK p \in 1..Len(Lists[m]) :
              tree[n].id = Lists[m][p].id /\ tree[n].value = Lists[m][p].value
      BY <3>1
    <3>3. Lists[m] = Checks(isa[m]) /\ Len(Lists[m]) = Len(isa[m].dec_list)
      BY <1>1, DeclarationType
    <3> DEFINE R == [id : IdSet, value : Nat]
    <3>4. Lists[m] \in Seq(R)
      BY <1>1, DeclarationType DEF Declared
    <3>5. Lists[m][p] \in R
      <4> HIDE DEF R
      <4> QED BY <3>4
    <3>6. Lists[m][p] = [id |-> tree[n].id, value |-> tree[n].value]
          /\ tree[n].value \in Nat
      BY <3>2, <3>5
    <3>7. Checks(isa[m])[p] \in checks
      BY <3>3
    <3>8. tree[n] \in node
      BY <1>1, <2>1, <3>6 DEF NodeSet
    <3> QED BY <3>3, <3>6, <3>7, <3>8
  <2> QED BY <2>2, <2>3
<1>3. /\ phase \in {"generate", "elaborate", "run", "no decode list", "decoding conflict"}
      /\ i \in 1..Len(isa) + 1 /\ d \in 0..Len(tree)
  BY DEF Typed, BuildTyped, Phases
<1>4. pc \in {"idle", "search", "return"} /\ word \in Words /\ result \in 0..Len(isa)
  BY DEF Typed, SearchTyped
<1>5. field = NoField \/ /\ field.id \in Ids
                         /\ \E w \in Words : field.value = GetBits(w, field.id)
  BY <1>1, ValueIs DEF Typed, SearchTyped, ReadTyped, OfField
<1>6. /\ \A p \in 1..Len(chosenPath) : chosenPath[p] \in 0..Len(tree)
      /\ \A n \in 1..Len(chosenPath) : \E m \in 1..Len(isa) : Len(isa[m].dec_list) >= n
  <2>1. \A m \in 1..Len(isa) : Len(Lists[m]) = Len(isa[m].dec_list)
    BY <1>1, DeclarationType
  <2> QED BY <2>1 DEF Typed, SearchTyped, PathTyped
<1>7. DOMAIN fields = Ids
  BY <1>1 DEF Results
<1>8. \A id \in Ids : fields[id] = Garbage \/ \E w \in Words : fields[id] = GetBits(w, id)
  BY <1>1, ValueIs DEF Typed, SearchTyped, FieldsTyped, OfField
<1>9. \A n \in 1..Len(tree) :
         /\ tree[n] \in node
         /\ tree[n].value = -1 \/ [id |-> tree[n].id, value |-> tree[n].value] \in checks
  BY <1>2
<1>10. QED BY <1>1, <1>3, <1>4, <1>5, <1>6, <1>7, <1>8, <1>9 DEF TypeOK

LEMMA TypedStart == Init => Typed
<1> SUFFICES ASSUME Init PROVE Typed
  OBVIOUS
<1>1. Declaration /\ isa \in Isas
  BY DEF Init, Declaration
<1>2. Len(isa) \in Nat \ {0} /\ 1 \in 1..Len(isa) + 1
  <2>1. Len(isa) \in Nat \ {0}
    BY <1>1, DeclarationType
  <2> QED BY <2>1
<1>3. /\ tree = <<>> /\ phase = "generate" /\ i = 1 /\ d = 0 /\ pc = "idle"
      /\ field = NoField /\ chosenPath = <<>> /\ result = 0
      /\ word = [b \in 0..Width - 1 |-> 0] /\ fields = [id \in IdSet |-> Garbage]
  BY DEF Init, Ids, IdSet
<1>4. Len(tree) = 0 /\ Len(chosenPath) = 0 /\ tree \in Seq(NodeSet) /\ 1..0 = {}
  BY <1>3
<1>5. BuildTyped
  <2>1. LinksInside(Len(isa), tree) /\ FromLists(Lists, Len(isa), tree)
    BY <1>4 DEF LinksInside, FromLists
  <2>2. 0 \in 0..Len(tree)
    BY <1>4
  <2> QED BY <1>2, <1>3, <2>1, <2>2 DEF BuildTyped, Phases
<1>6. word \in Words
  BY <1>3 DEF Words
<1>7. FieldsTyped
  BY <1>3 DEF FieldsTyped
<1>8. SearchTyped
  <2>1. PathTyped
    BY <1>4 DEF PathTyped
  <2>2. ReadTyped
    BY <1>3 DEF ReadTyped
  <2>3. result \in 0..Len(isa)
    BY <1>2, <1>3
  <2> QED BY <1>3, <1>6, <1>7, <2>1, <2>2, <2>3 DEF SearchTyped
<1>9. QED BY <1>5, <1>8 DEF Typed

\* What Underway says of a tree at work.
HereIs == /\ Declaration /\ Good(Lists, Rest, Len(isa), Here)
          /\ LinksInside(Len(isa), tree) /\ i \in 1..Len(isa) + 1 /\ d \in 0..Len(tree)

LEMMA HereTyped == Underway /\ phase \in {"generate", "elaborate"} => HereIs
<1> SUFFICES ASSUME Underway, phase \in {"generate", "elaborate"} PROVE HereIs
  OBVIOUS
<1>1. PICK n, r : History(Lists, Rest, Len(isa), n, r) /\ Follows(n, r)
  BY DEF Underway
<1>2. Declaration /\ Good(Lists, Rest, Len(isa), Here) /\ Len(isa) \in Nat
  BY <1>1, HereGood, DeclarationType DEF Underway
<1>3. PICK Over : Tree(Lists, Rest, Len(isa), Here.tree, Over)
                  /\ Place(Lists, Len(isa), Here, Over)
  BY <1>2 DEF Good
<1>4. Here.tree = tree /\ Here.i = i /\ Here.l = l /\ Here.d = d
  BY DEF Here, Step
<1>5. LinksInside(Len(isa), tree)
  BY <1>2, <1>3, <1>4, TreeIsLinked
<1>6. Len(tree) \in Nat
  BY <1>5 DEF LinksInside
<1>7. i \in 1..Len(isa) + 1 /\ d \in 0..Len(tree)
  <2>1. l = 0 => d = 0
    BY <1>3, <1>4 DEF Place
  <2> QED BY <1>2, <1>6, <2>1, HereType
<1>8. QED BY <1>2, <1>5, <1>7 DEF HereIs

\* A step that leaves what Decode() works with and the instructions alone.
LEMMA SearchTypedStays ==
    ASSUME IInv, Build, SearchTyped
    PROVE  SearchTyped'
<1>1. /\ isa' = isa /\ allFields' = allFields /\ pc' = pc /\ word' = word /\ field' = field
      /\ chosenPath' = chosenPath /\ fields' = fields /\ result' = result
      /\ phase # "run"
  BY DEF Build, AddToDecoder, Conflict, IncludeSubcheck, IncludeNext, Found, Elaborate, Run,
         AddCheck, Building, decl, search
<1>2. Lists' = Lists
  BY <1>1, DeclarationStays
<1>3. pc' = "idle" /\ Len(chosenPath) = 0 /\ 1..0 = {}
  BY <1>1 DEF IInv, Idle, SearchTyped, PathTyped
<1>4. PathTyped'
  BY <1>1, <1>3 DEF PathTyped
<1>5. ReadTyped' /\ FieldsTyped'
  BY <1>1 DEF SearchTyped, ReadTyped, FieldsTyped
<1>6. QED BY <1>1, <1>4, <1>5 DEF SearchTyped

LEMMA BuildTypes ==
    ASSUME IInv, IInv', Typed, Build
    PROVE  Typed'
<1>1. SearchTyped'
  BY SearchTypedStays DEF Typed
<1>2. isa' = isa /\ allFields' = allFields /\ Lists' = Lists
  <2>1. isa' = isa /\ allFields' = allFields
    BY DEF Build, AddToDecoder, Conflict, IncludeSubcheck, IncludeNext, Found, Elaborate,
           Run, decl
  <2> QED BY <2>1, DeclarationStays
<1>3. CASE Adds /\ phase' = phase
  <2>1. phase \in {"generate", "elaborate"}
    BY <1>3 DEF Adds, AddToDecoder, IncludeSubcheck, IncludeNext, Found, AddCheck, Building
  <2>2. Declaration /\ Good(Lists, Rest, Len(isa), Here)
    BY <2>1, HereTyped DEF IInv, HereIs
  <2>3. /\ i \in 1..Len(isa) /\ Here' = Built(Lists, Rest, Here)
        /\ Len(Lists[i]) # 0
    BY <1>3, <2>2, AddsBuild
  <2>4. Here.tree = tree /\ Here.i = i /\ Here'.tree = tree'
    BY DEF Here, Step
  <2>5. FromLists(Lists, Len(isa), tree')
    <3>1. FromLists(Lists, Len(isa), Here.tree)
      BY <2>4 DEF Typed, BuildTyped
    <3>2. Declared(Lists, Rest, Len(isa))
      BY <2>2, DeclarationType
    <3>3. FromLists(Lists, Len(isa), Built(Lists, Rest, Here).tree)
      BY <2>2, <2>3, <2>4, <3>1, <3>2, BuiltFromLists
    <3> QED BY <2>3, <2>4, <3>3
  <2>6. LinksInside(Len(isa'), tree') /\ i' \in 1..Len(isa') + 1 /\ d' \in 0..Len(tree')
    <3>1. Underway' /\ phase' \in {"generate", "elaborate"}
      BY <1>3, <2>1 DEF IInv
    <3>2. (Underway /\ phase \in {"generate", "elaborate"} => HereIs)'
      BY HereTyped, PTL
    <3> QED BY <3>1, <3>2 DEF HereIs
  <2>7. phase' \in Phases
    BY <1>3, <2>1 DEF Phases
  <2>8. FromLists(Lists', Len(isa'), tree')
    BY <1>2, <2>5
  <2> QED BY <1>1, <2>6, <2>7, <2>8 DEF Typed, BuildTyped
<1>4. CASE \/ AddToDecoder /\ phase' = "no decode list"
           \/ Conflict \/ Run
  <2>1. phase' \in Phases /\ tree' = tree /\ i' = i /\ d' = d
    <3>1. phase' \in Phases /\ i' = i
      BY <1>4 DEF AddToDecoder, Conflict, Run, Phases
    <3>2. tree' = tree /\ d' = d
      <4>1. CASE Conflict \/ Run
        BY <4>1 DEF Conflict, Run
      <4>2. CASE AddToDecoder /\ phase' = "no decode list"
        <5>1. phase' # phase
          BY <4>2 DEF AddToDecoder, Building
        <5> QED BY <4>2, <5>1 DEF AddToDecoder
      <4> QED BY <1>4, <4>1, <4>2
    <3> QED BY <3>1, <3>2
  <2>2. FromLists(Lists', Len(isa'), tree') /\ LinksInside(Len(isa'), tree')
    BY <1>2, <2>1 DEF Typed, BuildTyped
  <2> QED BY <1>1, <1>2, <2>1, <2>2 DEF Typed, BuildTyped
<1>5. CASE Elaborate
  <2>1. phase' = "elaborate" /\ tree' = <<>>
    BY <1>5 DEF Elaborate
  <2>2. LinksInside(Len(isa'), tree') /\ i' \in 1..Len(isa') + 1 /\ d' \in 0..Len(tree')
    <3>1. (Underway /\ phase \in {"generate", "elaborate"} => HereIs)'
      BY HereTyped, PTL
    <3> QED BY <2>1, <3>1 DEF IInv, HereIs
  <2>3. Len(tree') = 0 /\ 1..0 = {}
    BY <2>1
  <2>4. FromLists(Lists', Len(isa'), tree')
    BY <2>3 DEF FromLists
  <2> QED BY <1>1, <2>1, <2>2, <2>4 DEF Typed, BuildTyped, Phases
<1>6. \/ Adds /\ phase' = phase
      \/ AddToDecoder /\ phase' = "no decode list"
      \/ Conflict \/ Elaborate \/ Run
  BY DEF Build, Adds, AddToDecoder, IncludeSubcheck, IncludeNext, Found
<1>7. QED BY <1>3, <1>4, <1>5, <1>6

\* The levels of a search stand at nodes, and it is not too deep.
PathIs == PathTyped /\ d \in 0..Len(tree)

LEMMA PathIsTyped == IInv /\ phase = "run" /\ pc = "search" => PathIs
<1> SUFFICES ASSUME IInv, phase = "run", pc = "search" PROVE PathIs
  OBVIOUS
<1>1. PICK Over : /\ Complete(Lists, Rest, Len(isa), tree, Over)
                  /\ Path(Over) /\ Cached
  BY DEF IInv, Simulating
<1>2. PICK Live, From, Depth : Sorted(Live, From, Depth) /\ Searched(Live, From, Depth)
  BY DEF IInv, InSearch
<1>3. Declaration /\ Len(isa) \in Nat \ {0} /\ Finite(Lists, Len(isa))
  BY DeclarationType, ListsAre DEF IInv, Underway
<1>4. Len(tree) \in Nat /\ Len(chosenPath) \in Nat \ {0}
  BY <1>1 DEF Complete, Tree, Path
<1>5. ASSUME NEW p \in 1..Len(chosenPath)
      PROVE  chosenPath[p] # 0 => chosenPath[p] \in 1..Len(tree)
                                 /\ IsCheck(tree, chosenPath[p])
  <2>1. CASE p = Len(chosenPath)
    BY <1>1, <2>1 DEF Path
  <2>2. CASE p # Len(chosenPath)
    <3>1. p \in 1..Len(chosenPath) - 1
      BY <1>4, <2>2
    <3> QED BY <1>1, <3>1 DEF Path
  <2> QED BY <2>1, <2>2
<1>6. ASSUME NEW p \in 1..Len(chosenPath)
      PROVE  chosenPath[p] \in 0..Len(tree) /\ \E m \in 1..Len(isa) : Len(Lists[m]) >= p
  <2>1. chosenPath[p] \in 0..Len(tree)
    BY <1>4, <1>5, <1>6
  <2>2. \E m \in 1..Len(isa) : Len(Lists[m]) >= p
    BY <1>1, <1>2, <1>3, <1>5, <1>6, DepthIsBounded DEF Sorted, Searched
  <2> QED BY <2>1, <2>2
<1>7. d \in 0..Len(tree)
  BY <1>1, <1>4 DEF Path
<1>8. QED BY <1>6, <1>7 DEF PathIs, PathTyped

LEMMA SearchTypes ==
    ASSUME IInv, IInv', Typed, (\E w \in Words : Decode(w)) \/ Search \/ Copied
    PROVE  Typed'
<1>1. /\ isa' = isa /\ allFields' = allFields /\ tree' = tree /\ i' = i
      /\ phase' = phase /\ phase = "run"
  <2>1. /\ isa' = isa /\ allFields' = allFields /\ tree' = tree /\ i' = i
        /\ phase' = phase
    BY DEF Decode, Search, FoundMatch, FollowSubcheck, FollowNext, Backtrack, NotFound,
           Copied, decl
  <2>2. phase = "run"
    BY DEF IInv, Idle, Decode, Search, FoundMatch, FollowSubcheck, FollowNext, Backtrack,
           NotFound, Copied, Searching
  <2> QED BY <2>1, <2>2
<1>2. Declaration /\ Results /\ Len(isa) \in Nat /\ Lists' = Lists
  BY <1>1, DeclarationStays, DeclarationType DEF IInv, Underway
<1>3. PICK Over : /\ Complete(Lists, Rest, Len(isa), tree, Over)
                  /\ pc = "search" => Path(Over) /\ Cached
  BY <1>1 DEF IInv, Simulating
<1>4. LinksInside(Len(isa), tree) /\ FromLists(Lists, Len(isa), tree)
  BY DEF Typed, BuildTyped
<1>5. word \in Words /\ ReadTyped /\ PathTyped /\ FieldsTyped
  BY DEF Typed, SearchTyped
<1>6. d \in 0..Len(tree) /\ i \in 1..Len(isa) + 1
  BY DEF Typed, BuildTyped
<1>7. (IInv /\ phase = "run" /\ pc = "search" => PathIs)'
  BY PathIsTyped, PTL
<1>8. pc' = "search" => PathTyped' /\ d' \in 0..Len(tree')
  BY <1>1, <1>7 DEF PathIs
<1>9. ASSUME d' \in 0..Len(tree'), PathTyped', ReadTyped', FieldsTyped',
             word' \in Words, result' \in 0..Len(isa),
             pc' \in {"idle", "search", "return"}
      PROVE  Typed'
  <2>1. BuildTyped'
    BY <1>1, <1>2, <1>4, <1>6, <1>9 DEF BuildTyped, Phases
  <2>2. SearchTyped'
    BY <1>1, <1>9 DEF SearchTyped
  <2> QED BY <2>1, <2>2 DEF Typed
<1>10. CASE \E w \in Words : Decode(w)
  <2>1. /\ pc' = "search" /\ word' \in Words /\ field' = NoField
        /\ fields' = fields /\ result' = result
    BY <1>10 DEF Decode
  <2>2. ReadTyped' /\ FieldsTyped' /\ result' \in 0..Len(isa)
    BY <1>5, <2>1 DEF ReadTyped, FieldsTyped, Typed, SearchTyped
  <2> QED BY <1>8, <1>9, <2>1, <2>2
<1>11. ASSUME Search, word' = word, result' \in 0..Len(isa), ReadTyped', FieldsTyped',
              pc' = "search"
       PROVE  Typed'
  BY <1>5, <1>8, <1>9, <1>11
<1>12. ASSUME Searching
       PROVE  /\ tree[d].id \in IdSet /\ FieldRead.id = tree[d].id
              /\ FieldRead.value = Value(word, tree[d].id)
              /\ OfField(FieldRead.id, FieldRead.value) /\ FieldRead.id \in IdSet
              /\ tree[d].found \in 0..Len(isa)
  <2>1. tree \in Seq(NodeSet) /\ d \in 1..Len(tree)
    BY <1>3, <1>12 DEF Complete, Tree, Path, Searching
  <2>2. /\ tree[d].id \in IdSet /\ FieldRead.id = tree[d].id
        /\ FieldRead.value = Value(word, tree[d].id)
    BY <1>2, <1>3, <1>12, <2>1, ReadIs DEF Searching
  <2>3. tree[d].found \in 0..Len(isa)
    BY <1>4, <2>1 DEF LinksInside
  <2> QED BY <1>5, <2>2, <2>3 DEF OfField
<1>13. CASE FoundMatch
  <2>1. /\ Searching /\ result' = tree[d].found /\ pc' = "return" /\ pc = "search"
        /\ d' = d /\ word' = word /\ field' = field /\ chosenPath' = chosenPath
        /\ fields' = [id \in Ids |->
               IF id \in Chain[tree[d].subcheck] THEN GetBits(word, id)
               ELSE [fields EXCEPT ![tree[d].id] = FieldRead.value][id]]
    BY <1>13 DEF FoundMatch, Searching
  <2>2. \A id \in IdSet : fields'[id] = Value(word, id) \/ fields'[id] = fields[id]
    <3> DEFINE stored == [fields EXCEPT ![tree[d].id] = FieldRead.value]
    <3>1. Ids = IdSet
      BY <1>2 DEF Declaration, Ids, IdSet
    <3>2. fields = [id \in IdSet |-> fields[id]]
      BY <1>2 DEF Results
    <3>3. \A id \in IdSet : stored[id] = Value(word, id) \/ stored[id] = fields[id]
      BY <1>12, <2>1, <3>2
    <3>4. \A id \in IdSet : fields'[id] = Value(word, id) \/ fields'[id] = stored[id]
      BY <1>2, <2>1, <3>1, ValueIs
    <3> HIDE DEF stored
    <3> QED BY <3>3, <3>4
  <2>3. FieldsTyped'
    BY <1>5, <2>2 DEF FieldsTyped, OfField
  <2>4. ReadTyped' /\ PathTyped'
    BY <1>1, <1>2, <1>5, <2>1 DEF ReadTyped, PathTyped
  <2> QED BY <1>1, <1>5, <1>6, <1>9, <1>12, <2>1, <2>3, <2>4
<1>14. CASE FollowSubcheck
  <2>1. /\ Searching /\ pc' = "search" /\ word' = word /\ field' = NoField
        /\ result' = result
        /\ fields' = [fields EXCEPT ![tree[d].id] = FieldRead.value]
    BY <1>14 DEF FollowSubcheck, Searching
  <2>2. \A id \in IdSet : fields'[id] = Value(word, id) \/ fields'[id] = fields[id]
    <3>1. fields = [id \in IdSet |-> fields[id]]
      BY <1>2 DEF Results
    <3> QED BY <1>12, <2>1, <3>1
  <2>3. FieldsTyped'
    BY <1>5, <2>2 DEF FieldsTyped, OfField
  <2>4. ReadTyped' /\ result' \in 0..Len(isa)
    BY <2>1 DEF ReadTyped, Typed, SearchTyped
  <2> QED BY <1>11, <1>14, <2>1, <2>3, <2>4 DEF Search
<1>15. CASE FollowNext
  <2>1. /\ Searching /\ pc' = "search" /\ word' = word /\ result' = result
        /\ fields' = fields /\ field' = Kept(tree[d].next, FieldRead)
    BY <1>15 DEF FollowNext, Searching
  <2>2. field' = NoField \/ field' = FieldRead
    BY <2>1 DEF Kept
  <2>3. ReadTyped'
    BY <1>12, <2>1, <2>2 DEF ReadTyped
  <2>4. FieldsTyped' /\ result' \in 0..Len(isa)
    BY <1>5, <2>1 DEF FieldsTyped, Typed, SearchTyped
  <2> QED BY <1>11, <1>15, <2>1, <2>3, <2>4 DEF Search
<1>16. CASE Backtrack
  <2>1. /\ pc' = "search" /\ word' = word /\ result' = result /\ fields' = fields
        /\ field' = NoField \/ field' = field
    BY <1>16 DEF Backtrack, Kept
  <2>2. ReadTyped' /\ FieldsTyped' /\ result' \in 0..Len(isa)
    BY <1>5, <2>1 DEF ReadTyped, FieldsTyped, Typed, SearchTyped
  <2> QED BY <1>11, <1>16, <2>1, <2>2 DEF Search
<1>17. CASE NotFound
  <2>1. /\ pc' = "return" /\ result' = 0 /\ d' = d /\ word' = word /\ field' = field
        /\ chosenPath' = chosenPath /\ fields' = fields
    BY <1>17 DEF NotFound
  <2>2. ReadTyped' /\ PathTyped' /\ FieldsTyped'
    BY <1>1, <1>2, <1>5, <2>1 DEF ReadTyped, PathTyped, FieldsTyped
  <2>3. result' \in 0..Len(isa)
    BY <1>2, <2>1
  <2> QED BY <1>1, <1>5, <1>6, <1>9, <2>1, <2>2, <2>3
<1>18. CASE Copied
  <2>1. /\ pc' = "idle" /\ result' = 0 /\ d' = 0 /\ word' = word /\ field' = NoField
        /\ chosenPath' = <<>> /\ fields' = fields
    BY <1>18 DEF Copied
  <2>2. Len(chosenPath') = 0 /\ 1..0 = {}
    BY <2>1
  <2>3. ReadTyped' /\ PathTyped' /\ FieldsTyped'
    BY <1>5, <2>1, <2>2 DEF ReadTyped, PathTyped, FieldsTyped
  <2>4. result' \in 0..Len(isa) /\ d' \in 0..Len(tree')
    <3>1. Len(tree) \in Nat
      BY <1>4 DEF LinksInside
    <3> QED BY <1>1, <1>2, <2>1, <3>1
  <2> QED BY <1>5, <1>9, <2>1, <2>3, <2>4
<1>19. QED BY <1>10, <1>13, <1>14, <1>15, <1>16, <1>17, <1>18 DEF Search

LEMMA NextTyped == IInv /\ IInv' /\ Typed /\ [Next]_vars => Typed'
<1> SUFFICES ASSUME IInv, IInv', Typed, [Next]_vars PROVE Typed'
  OBVIOUS
<1>1. CASE Build
  BY <1>1, BuildTypes
<1>2. CASE (\E w \in Words : Decode(w)) \/ Search \/ Copied
  BY <1>2, SearchTypes
<1>3. CASE UNCHANGED vars
  <2>1. /\ isa' = isa /\ allFields' = allFields /\ tree' = tree
        /\ phase' = phase /\ i' = i /\ d' = d /\ pc' = pc /\ word' = word
        /\ field' = field /\ chosenPath' = chosenPath /\ fields' = fields /\ result' = result
    BY <1>3 DEF vars
  <2>2. Lists' = Lists
    BY <2>1, DeclarationStays
  <2>3. BuildTyped'
    BY <2>1, <2>2 DEF Typed, BuildTyped
  <2>4. SearchTyped'
    BY <2>1, <2>2 DEF Typed, SearchTyped, ReadTyped, PathTyped, FieldsTyped
  <2> QED BY <2>3, <2>4 DEF Typed
<1>4. QED BY <1>1, <1>2, <1>3 DEF Next

\* The tree holds checks of the decode lists and fields to extract, linked inside
\* it, each value the decoder keeps is one its field has in some word, and the
\* search is never deeper than the longest list.
THEOREM DecoderTyped == Spec => []TypeOK
<1>1. Spec => []Typed
  BY Invariant, TypedStart, NextTyped, PTL DEF Spec
<1>2. QED BY Invariant, TypedIs, <1>1, PTL
=============================================================================
