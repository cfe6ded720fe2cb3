--------------------------- MODULE EventDataProofs ---------------------------
(***************************************************************************)
(* What holds of EventData for every instance: whatever is recorded,       *)
(* erased, flushed and reused, copies are made and freed with their event, *)
(* what is printed is what was passed and reads back as such, and ids are  *)
(* apart.                                                                  *)
(***************************************************************************)
EXTENDS EventData, DataLemmas

Cell == Chars \cup {NUL}

\* A memory in which every block is a sequence of cells.
Memories == [Blocks -> Seq(Cell)]

-----------------------------------------------------------------------------
(* C strings                                                               *)

\* What the text at an offset ends at: a C string is a sequence of characters.
LEMMA CStringType ==
  ASSUME NEW mem, NEW b, mem[b] \in Seq(Cell), NEW offset \in Nat
  PROVE  CString(mem, Pointer(b, offset)) \in Seq(Chars)
<1> DEFINE cells == mem[b]
           I     == {i \in (offset + 1)..Len(cells) : cells[i] = NUL}
           end   == IF I # {} THEN Min(I) ELSE 0
<1>1. CString(mem, Pointer(b, offset)) = SubSeq(cells, offset + 1, end - 1)
  BY DEF CString, Pointer, SelectInSubSeq
<1>2. Len(cells) \in Nat /\ \A i \in 1..Len(cells) : cells[i] \in Cell
  BY LenProperties, ElementOfSeq
<1>3. CASE I = {}
  <2>1. end = 0
    BY <1>3
  <2>2. SubSeq(cells, offset + 1, 0 - 1) = <<>>
    BY SubSeqEmpty
  <2> QED BY <1>1, <2>1, <2>2, EmptySeq
<1>4. CASE I # {}
  <2>1. I \subseteq Nat
    BY <1>2
  <2>2. end \in I /\ \A i \in I : end <= i
    <3> HIDE DEF I
    <3> QED BY <1>4, <2>1, MinProperties
  <2>3. ASSUME NEW j \in (offset + 1)..(end - 1)
        PROVE  cells[j] \in Chars
    <3>1. j \in (offset + 1)..Len(cells) /\ j \notin I
      BY <1>2, <2>2
    <3>2. cells[j] # NUL /\ cells[j] \in Cell
      BY <1>2, <3>1
    <3> QED BY <3>2 DEF Cell
  <2>4. end \in Nat
    BY <2>1, <2>2
  <2> HIDE DEF end, cells
  <2> QED BY <1>1, <2>3, <2>4, SubSeqProperties
<1> QED BY <1>3, <1>4

\* Characters that end with a NUL are the C string at their offset.
LEMMA CStringIs ==
  ASSUME NEW mem, NEW b, mem[b] \in Seq(Cell), NEW offset \in Nat,
         NEW text \in Seq(Chars), offset + Len(text) < Len(mem[b]),
         \A i \in 1..Len(text) : mem[b][offset + i] = text[i],
         mem[b][offset + Len(text) + 1] = NUL
  PROVE  CString(mem, Pointer(b, offset)) = text
<1> DEFINE cells == mem[b]
           n     == Len(text)
           m     == offset + n + 1
           I     == {i \in (offset + 1)..Len(cells) : cells[i] = NUL}
           end   == IF I # {} THEN Min(I) ELSE 0
<1>1. CString(mem, Pointer(b, offset)) = SubSeq(cells, offset + 1, end - 1)
  BY DEF CString, Pointer, SelectInSubSeq
<1>2. Len(cells) \in Nat /\ n \in Nat /\ \A i \in 1..n : text[i] \in Chars
  BY LenProperties, ElementOfSeq
<1>3. m \in I
  BY <1>2
<1>4. ASSUME NEW i \in I
      PROVE  m <= i
  <2>1. SUFFICES ASSUME i < m PROVE FALSE
    BY <1>2
  <2>2. i - offset \in 1..n /\ offset + (i - offset) = i
    BY <1>2, <2>1
  <2>3. cells[i] = text[i - offset]
    BY <2>2
  <2>4. NUL \notin Chars
    BY EventDataAssumption
  <2> QED BY <1>2, <2>2, <2>3, <2>4
<1>5. end = m
  <2>1. I \subseteq Nat
    BY <1>2
  <2>2. Min(I) \in I /\ Min(I) <= m
    <3> HIDE DEF I, m
    <3> QED BY <1>3, <2>1, MinProperties
  <2>3. m <= Min(I) /\ Min(I) \in Nat
    <3> HIDE DEF m
    <3> QED BY <1>4, <2>1, <2>2
  <2>4. m \in Nat
    BY <1>2
  <2> HIDE DEF m, I
  <2> QED BY <1>3, <2>2, <2>3, <2>4
<1>6. \A i \in 1..n : cells[offset + i] = text[i]
  OBVIOUS
<1>7. \A j \in (offset + 1)..(m - 1) : cells[j] \in Chars
  <2> TAKE j \in (offset + 1)..(m - 1)
  <2>1. j - offset \in 1..n /\ offset + (j - offset) = j
    BY <1>2
  <2> QED BY <1>2, <1>6, <2>1
<1> DEFINE sub == SubSeq(cells, offset + 1, m - 1)
<1>8. /\ sub \in Seq(Chars)
      /\ Len(sub) = n
      /\ \A i \in 1..n : sub[i] = cells[offset + i]
  <2>1. offset + 1 \in Int /\ m - 1 \in Int
    BY <1>2
  <2>2. /\ sub \in Seq(Chars)
        /\ Len(sub) = IF offset + 1 <= m - 1 THEN m - 1 - (offset + 1) + 1 ELSE 0
        /\ \A i \in 1..(m - 1 - (offset + 1) + 1) : sub[i] = cells[offset + 1 + i - 1]
    <3> HIDE DEF m, cells
    <3> QED BY <1>7, <2>1, SubSeqProperties
  <2> HIDE DEF sub, cells
  <2> QED BY <1>2, <2>2
<1>9. sub = text
  <2> HIDE DEF sub
  <2> QED BY <1>2, <1>6, <1>8, SeqEqual
<1> QED BY <1>1, <1>5, <1>9

LEMMA CStringAtStart ==
  ASSUME NEW mem, NEW b, mem[b] \in Seq(Cell),
         NEW text \in Seq(Chars), Len(text) < Len(mem[b]),
         \A i \in 1..Len(text) : mem[b][i] = text[i],
         mem[b][Len(text) + 1] = NUL
  PROVE  CString(mem, Pointer(b, 0)) = text
<1>1. Len(text) \in Nat
  BY LenProperties
<1> DEFINE zero == 0
<1>2. zero \in Nat /\ \A i \in Nat : zero + i = i
  OBVIOUS
<1> HIDE DEF zero
<1>3. /\ zero + Len(text) < Len(mem[b])
      /\ \A i \in 1..Len(text) : mem[b][zero + i] = text[i]
  BY <1>1, <1>2, SMTT(30)
<1>4. mem[b][zero + Len(text) + 1] = NUL
  BY <1>1, <1>2
<1>5. CString(mem, Pointer(b, zero)) = text
  BY <1>2, <1>3, <1>4, CStringIs
<1> QED BY <1>5 DEF zero

\* The string of a block depends on that block alone.
LEMMA CStringLocal ==
  ASSUME NEW mem, NEW mem2, NEW p, mem2[p.block] = mem[p.block]
  PROVE  CString(mem2, p) = CString(mem, p)
BY Zenon DEF CString, SelectInSubSeq

-----------------------------------------------------------------------------
(* Writing a copy                                                          *)

\* A text that fits is written at the offset with its NUL; what is before it
\* stays.
LEMMA WriteProperties ==
  ASSUME NEW cells \in Seq(Cell), NEW offset \in Nat, NEW text \in Seq(Chars),
         offset + Len(text) < Len(cells)
  PROVE  /\ Write(cells, offset, text) \in Seq(Cell)
         /\ Len(Write(cells, offset, text)) = Len(cells)
         /\ \A i \in 1..Len(text) : Write(cells, offset, text)[offset + i] = text[i]
         /\ Write(cells, offset, text)[offset + Len(text) + 1] = NUL
         /\ \A i \in 1..offset : Write(cells, offset, text)[i] = cells[i]
<1> DEFINE end == offset + Len(text) + 1
           n   == IF end > Len(cells) THEN end ELSE Len(cells)
           c(i) == IF i \in (offset + 1)..(end - 1) THEN text[i - offset]
                   ELSE IF i = end \/ i > Len(cells) THEN NUL ELSE cells[i]
           w   == [i \in 1..n |-> c(i)]
<1>1. Write(cells, offset, text) = w
  BY DEF Write
<1>2. /\ Len(cells) \in Nat /\ \A i \in 1..Len(cells) : cells[i] \in Cell
      /\ Len(text) \in Nat /\ \A i \in 1..Len(text) : text[i] \in Chars
  BY LenProperties, ElementOfSeq
<1>3. n \in Nat /\ end \in 1..n
  BY <1>2
<1>4. ASSUME NEW i \in 1..n
      PROVE  c(i) \in Cell
  <2>1. CASE i \in (offset + 1)..(end - 1)
    <3>1. i - offset \in 1..Len(text)
      BY <1>2, <2>1
    <3> QED BY <1>2, <2>1, <3>1 DEF Cell
  <2>2. CASE i \notin (offset + 1)..(end - 1) /\ (i = end \/ i > Len(cells))
    BY <2>2 DEF Cell
  <2>3. CASE i \notin (offset + 1)..(end - 1) /\ ~(i = end \/ i > Len(cells))
    BY <1>2, <1>3, <2>3
  <2> QED BY <2>1, <2>2, <2>3
<1>5. w \in Seq(Cell) /\ Len(w) = n
  <2>1. w \in [1..n -> Cell]
    BY <1>4
  <2> HIDE DEF w, n
  <2> QED BY <1>3, <2>1, SeqDef, LenProperties
<1>6. ASSUME NEW i \in 1..Len(text)
      PROVE  w[offset + i] = text[i]
  <2>1. offset + i \in 1..n /\ offset + i \in (offset + 1)..(end - 1) /\ offset + i - offset = i
    BY <1>2
  <2> QED BY <2>1
<1>7. w[end] = NUL
  BY <1>2, <1>3
<1>8. ASSUME NEW i \in 1..offset
      PROVE  w[i] = cells[i]
  <2>1. i \in 1..n /\ i \notin (offset + 1)..(end - 1) /\ i # end /\ ~(i > Len(cells))
    BY <1>2
  <2> QED BY <2>1
<1>9. n = Len(cells)
  BY <1>2
<1> HIDE DEF w, n
<1> QED BY <1>1, <1>5, <1>6, <1>7, <1>8, <1>9

\* make_unique clears what it allocates.
LEMMA ZerosProperties ==
  ASSUME NEW size \in Nat
  PROVE  /\ Zeros(size) \in Seq(Cell)
         /\ Len(Zeros(size)) = size
         /\ \A i \in 1..size : Zeros(size)[i] = NUL
<1>1. Zeros(size) \in [1..size -> Cell]
  BY DEF Zeros, Cell
<1>2. \A i \in 1..size : Zeros(size)[i] = NUL
  BY DEF Zeros
<1> QED BY <1>1, <1>2, SeqDef, LenProperties

-----------------------------------------------------------------------------
(* Arguments                                                               *)

Arguments(c) == {c.arg_name, c.arg_value}

\* What is allowed for the strings of a call.
LEMMA CallStrings ==
  ASSUME NEW c \in Calls
  PROVE  /\ c.name.block \in Static \cup Buffers /\ c.name.whole
         /\ c.name.block \in Blocks \ (Heap \cup {NullBlock})
         /\ c.kind \in Kinds
         /\ c.id \in IdArguments
         /\ \A s \in Arguments(c) :
              /\ s.block \in Blocks \ Heap
              /\ s.marked \in BOOLEAN
              /\ s = NoString <=> s.block = NullBlock
              /\ ~s.marked => s.whole /\ s.block \in Static \cup {NullBlock}
<1>1. c \in AllCalls
  BY EventDataAssumption
<1>2. /\ c.name \in Strings /\ c.name.whole
      /\ c.arg_name \in {s \in Strings : Allowed(s)} \cup {NoString}
      /\ c.arg_value \in {s \in Strings : Allowed(s)} \cup {NoString}
      /\ c.kind \in Kinds
      /\ c.id \in IdArguments
  BY <1>1 DEF AllCalls
<1>3. /\ NullBlock \notin Static \cup Buffers \cup Heap
      /\ Static \cap Heap = {} /\ Buffers \cap Heap = {}
  BY EventDataAssumption
<1>4. ASSUME NEW s \in {q \in Strings : Allowed(q)}
      PROVE  /\ s.block \in Blocks \ Heap
             /\ s.marked \in BOOLEAN
             /\ s = NoString <=> s.block = NullBlock
             /\ ~s.marked => s.whole /\ s.block \in Static \cup {NullBlock}
  BY <1>3 DEF Strings, Allowed, NoString, Blocks
<1>5. /\ NoString.block \in Blocks \ Heap
      /\ NoString.marked \in BOOLEAN
      /\ NoString.block = NullBlock
      /\ NoString.whole
  BY <1>3 DEF NoString, Blocks
<1>6. c.name.block \in Static \cup Buffers /\ c.name.block \in Blocks \ (Heap \cup {NullBlock})
  BY <1>2, <1>3 DEF Strings, Blocks
<1> QED BY <1>2, <1>4, <1>5, <1>6 DEF Arguments

\* The value of a string is a sequence of characters.
LEMMA ValueType ==
  ASSUME memory \in Memories, NEW s, s.block \in Blocks
  PROVE  Value(s) \in Seq(Chars)
<1> DEFINE text == CString(memory, Pointer(s.block, 0))
<1>1. text \in Seq(Chars)
  BY CStringType DEF Memories
<1>2. Front(text) \in Seq(Chars)
  <2>1. Len(text) \in Nat /\ \A i \in 1..(Len(text) - 1) : text[i] \in Chars
    <3> HIDE DEF text
    <3> QED BY <1>1, LenProperties, ElementOfSeq
  <2> HIDE DEF text
  <2> QED BY <2>1, SubSeqProperties DEF Front
<1> QED BY <1>1, <1>2 DEF Value

\* What an argument takes of the storage.
LEMMA ArgumentSize ==
  ASSUME memory \in Memories, NEW s, s.block \in Blocks, s.marked \in BOOLEAN
  PROVE  /\ Value(s) \in Seq(Chars) /\ Len(Value(s)) \in Nat
         /\ alloc_size(s) = Offset(s) /\ Offset(s) \in Nat
         /\ s.marked => Offset(s) = Len(Value(s)) + 1
         /\ ~s.marked => Offset(s) = 0
<1>1. Value(s) \in Seq(Chars) /\ Len(Value(s)) \in Nat
  BY ValueType, LenProperties
<1>2. alloc_size(s) = Offset(s)
  BY DEF alloc_size, Offset
<1>3. s.marked => Offset(s) = Len(Value(s)) + 1
  BY DEF Offset
<1>4. ~s.marked => Offset(s) = 0
  BY DEF Offset
<1>5. Offset(s) \in Nat
  <2>1. CASE s.marked
    BY <1>1, <1>3, <2>1
  <2>2. CASE ~s.marked
    BY <1>4, <2>2
  <2> QED BY <2>1, <2>2
<1> QED BY <1>1, <1>2, <1>3, <1>4, <1>5

\* A copy that fits is made at the offset, if the argument is marked.
LEMMA CopyProperties ==
  ASSUME memory \in Memories, NEW s, s.block \in Blocks, s.marked \in BOOLEAN,
         NEW cells \in Seq(Cell), NEW offset \in Nat, offset + Offset(s) <= Len(cells)
  PROVE  /\ deep_copy(cells, offset, s) \in Seq(Cell)
         /\ Len(deep_copy(cells, offset, s)) = Len(cells)
         /\ \A i \in 1..offset : deep_copy(cells, offset, s)[i] = cells[i]
         /\ s.marked => /\ \A i \in 1..Len(Value(s)) :
                             deep_copy(cells, offset, s)[offset + i] = Value(s)[i]
                        /\ deep_copy(cells, offset, s)[offset + Len(Value(s)) + 1] = NUL
<1>0. Len(cells) \in Nat
  BY LenProperties
<1>1. CASE s.marked
  <2>1. deep_copy(cells, offset, s) = Write(cells, offset, Value(s))
    BY <1>1 DEF deep_copy
  <2>2. /\ Value(s) \in Seq(Chars) /\ Len(Value(s)) \in Nat
        /\ Offset(s) = Len(Value(s)) + 1
    BY <1>1, ArgumentSize
  <2>3. offset + Len(Value(s)) < Len(cells)
    BY <1>0, <2>2
  <2> DEFINE w == Write(cells, offset, Value(s))
  <2>4. /\ w \in Seq(Cell)
        /\ Len(w) = Len(cells)
        /\ \A i \in 1..offset : w[i] = cells[i]
        /\ \A i \in 1..Len(Value(s)) : w[offset + i] = Value(s)[i]
        /\ w[offset + Len(Value(s)) + 1] = NUL
    BY <2>2, <2>3, WriteProperties
  <2> HIDE DEF w
  <2>5. deep_copy(cells, offset, s) = w
    BY <2>1 DEF w
  <2> QED BY <2>4, <2>5
<1>2. CASE ~s.marked
  <2>1. deep_copy(cells, offset, s) = cells
    BY <1>2 DEF deep_copy
  <2>2. \A i \in 1..offset : cells[i] = cells[i]
    OBVIOUS
  <2> QED BY <1>2, <2>1
<1> QED BY <1>1, <1>2

\* The copies of a call fill its storage and end with a NUL, and hold what
\* its arguments stood for.
LEMMA CopiesProperties ==
  ASSUME memory \in Memories, NEW c \in Calls
  PROVE  /\ Size(c) = Offset(c.arg_name) + Offset(c.arg_value) /\ Size(c) \in Nat
         /\ Copies(c) \in Seq(Cell)
         /\ Len(Copies(c)) = Size(c)
         /\ c.arg_name.marked =>
              /\ \A i \in 1..Len(Value(c.arg_name)) : Copies(c)[i] = Value(c.arg_name)[i]
              /\ Copies(c)[Len(Value(c.arg_name)) + 1] = NUL
         /\ c.arg_value.marked =>
              /\ \A i \in 1..Len(Value(c.arg_value)) :
                   Copies(c)[Offset(c.arg_name) + i] = Value(c.arg_value)[i]
              /\ Copies(c)[Offset(c.arg_name) + Len(Value(c.arg_value)) + 1] = NUL
         /\ Size(c) # 0 => Copies(c)[Size(c)] = NUL
<1> DEFINE an == c.arg_name
           av == c.arg_value
           z == Zeros(Size(c))
           named == deep_copy(z, 0, an)
           cells == deep_copy(named, Offset(an), av)
<1>1. /\ an.block \in Blocks /\ an.marked \in BOOLEAN
      /\ av.block \in Blocks /\ av.marked \in BOOLEAN
  BY CallStrings DEF Arguments
<1>2. Copies(c) = cells
  BY DEF Copies
<1>3. Size(c) = alloc_size(an) + alloc_size(av)
  BY DEF Size
<1> HIDE DEF an, av
<1>4. /\ Value(an) \in Seq(Chars) /\ Len(Value(an)) \in Nat
      /\ alloc_size(an) = Offset(an) /\ Offset(an) \in Nat
      /\ an.marked => Offset(an) = Len(Value(an)) + 1
      /\ ~an.marked => Offset(an) = 0
  BY <1>1, ArgumentSize
<1>5. /\ Value(av) \in Seq(Chars) /\ Len(Value(av)) \in Nat
      /\ alloc_size(av) = Offset(av) /\ Offset(av) \in Nat
      /\ av.marked => Offset(av) = Len(Value(av)) + 1
      /\ ~av.marked => Offset(av) = 0
  BY <1>1, ArgumentSize
<1>6. Size(c) = Offset(an) + Offset(av) /\ Size(c) \in Nat
  BY <1>3, <1>4, <1>5
<1>7. z \in Seq(Cell) /\ Len(z) = Size(c) /\ 0 + Offset(an) <= Len(z)
  BY <1>4, <1>5, <1>6, ZerosProperties
<1>8. /\ named \in Seq(Cell)
      /\ Len(named) = Len(z)
      /\ an.marked => /\ \A i \in 1..Len(Value(an)) : named[0 + i] = Value(an)[i]
                      /\ named[0 + Len(Value(an)) + 1] = NUL
  <2> HIDE DEF z
  <2> QED BY <1>1, <1>7, CopyProperties
<1>9. Offset(an) + Offset(av) <= Len(named)
  <2> HIDE DEF named, z
  <2> QED BY <1>4, <1>5, <1>6, <1>7, <1>8
<1>10. /\ cells \in Seq(Cell)
       /\ Len(cells) = Len(named)
       /\ \A i \in 1..Offset(an) : cells[i] = named[i]
       /\ av.marked => /\ \A i \in 1..Len(Value(av)) : cells[Offset(an) + i] = Value(av)[i]
                       /\ cells[Offset(an) + Len(Value(av)) + 1] = NUL
  <2> HIDE DEF named
  <2> QED BY <1>1, <1>4, <1>8, <1>9, CopyProperties
<1> HIDE DEF named, cells, z
<1>11. an.marked => /\ \A i \in 1..Len(Value(an)) : cells[i] = Value(an)[i]
                    /\ cells[Len(Value(an)) + 1] = NUL
  <2> SUFFICES ASSUME an.marked
               PROVE  /\ \A i \in 1..Len(Value(an)) : cells[i] = Value(an)[i]
                      /\ cells[Len(Value(an)) + 1] = NUL
    OBVIOUS
  <2>1. ASSUME NEW i \in 1..Len(Value(an))
        PROVE  cells[i] = Value(an)[i]
    <3>1. i \in 1..Offset(an) /\ 0 + i = i
      BY <1>4
    <3> QED BY <1>8, <1>10, <3>1
  <2>2. 0 + Len(Value(an)) + 1 = Offset(an) /\ Offset(an) \in 1..Offset(an)
    BY <1>4
  <2> QED BY <1>4, <1>8, <1>10, <2>1, <2>2
<1>12. Size(c) # 0 => cells[Size(c)] = NUL
  <2>1. CASE av.marked
    <3>1. Offset(an) + Len(Value(av)) + 1 = Size(c)
      BY <1>4, <1>5, <1>6, <2>1
    <3> QED BY <1>10, <2>1, <3>1
  <2>2. CASE ~av.marked /\ an.marked
    <3>1. Len(Value(an)) + 1 = Size(c)
      BY <1>4, <1>5, <1>6, <2>2
    <3> QED BY <1>11, <2>2, <3>1
  <2>3. CASE ~av.marked /\ ~an.marked
    BY <1>4, <1>5, <1>6, <2>3
  <2> QED BY <1>1, <2>1, <2>2, <2>3
<1>13. Len(cells) = Size(c)
  BY <1>7, <1>8, <1>10
<1> QED BY <1>2, <1>6, <1>10, <1>11, <1>12, <1>13 DEF an, av

-----------------------------------------------------------------------------
(* Types                                                                   *)

\* An event without an id carries TraceID::NONE, and no flag.
IdAbsent(e) == "HAS_ID" \notin e.flags => e.flags = {} /\ e.trace_id = NONE

\* The value of an id is a set of bits.
LEMMA XorType ==
  ASSUME NEW a \in Ids, NEW b \in Ids
  PROVE  Xor(a, b) \in Ids
BY DEF Xor, SymDiff, Ids

\* What an event takes from its call and its id.
LEMMA IdType ==
  ASSUME NEW id \in IdArguments, NEW n, NEW hash \in Ids
  PROVE  /\ Flags(id) \in SUBSET {"HAS_ID", "MANGLE_ID"}
         /\ Mangled(IdValue(id, n), Flags(id), hash) \in Ids
         /\ "HAS_ID" \notin Flags(id) =>
              Flags(id) = {} /\ Mangled(IdValue(id, n), Flags(id), hash) = NONE
<1>1. /\ id.value \in Ids /\ id.kind \in {"none", "global", "integer", "pointer"}
      /\ id.kind = "none" => id.value = NONE
  BY DEF IdArguments, NONE, Ids
<1>2. next_global(n) \in Ids
  <2>1. BitsOf(n) \in Ids
    BY DEF BitsOf, Ids
  <2> QED BY <2>1, TraceIDAssumption, XorType DEF next_global
<1>3. IdValue(id, n) \in Ids
  BY <1>1, <1>2 DEF IdValue
<1>4. Flags(id) \in SUBSET {"HAS_ID", "MANGLE_ID"}
  BY DEF Flags
<1>5. Mangled(IdValue(id, n), Flags(id), hash) \in Ids
  BY <1>3, XorType DEF Mangled
<1>6. ASSUME "HAS_ID" \notin Flags(id)
      PROVE  Flags(id) = {} /\ Mangled(IdValue(id, n), Flags(id), hash) = NONE
  <2>1. id.kind = "none" /\ Flags(id) = {}
    BY <1>6 DEF Flags
  <2> QED BY <1>1, <2>1 DEF Mangled, IdValue
<1> QED BY <1>4, <1>5, <1>6

\* What the macros and AddTraceEvent make of a call is an event.
LEMMA EventType ==
  ASSUME EventDataTypeOK, NEW c \in Calls, NEW storage \in Heap \cup {NullBlock}
  PROVE  Event(c, storage) \in Events /\ IdAbsent(Event(c, storage))
<1> DEFINE an == c.arg_name
           av == c.arg_value
<1>1. memory \in Memories
  BY DEF EventDataTypeOK, Memories, Cell
<1>2. /\ c.name.block \in Static \cup Buffers /\ c.name.block \in Blocks
      /\ c.kind \in Kinds
      /\ c.id \in IdArguments
      /\ an.block \in Blocks /\ an.marked \in BOOLEAN
      /\ av.block \in Blocks /\ av.marked \in BOOLEAN
      /\ storage \in Blocks
  BY CallStrings DEF Arguments, Blocks
<1>3. /\ Value(c.name) \in Seq(Chars) /\ Value(an) \in Seq(Chars) /\ Value(av) \in Seq(Chars)
  BY <1>1, <1>2, ValueType
<1>4. Offset(an) \in Nat
  BY <1>1, <1>2, ArgumentSize
<1>5. ASSUME NEW s, s.block \in Blocks, NEW offset \in Nat
      PROVE  Place(s, storage, offset) \in Pointers
  BY <1>2, <1>5 DEF Place, Pointer, Pointers
<1>6. Pointer(c.name.block, 0) \in Pointers
  BY <1>2 DEF Pointer, Pointers
<1>7. process_id_hash_ \in Ids /\ process_id_ \in Processes /\ ids \in Nat
  BY DEF EventDataTypeOK
<1>8. Passed(c) \in [name : Seq(Chars), static : BOOLEAN, arg_name : Seq(Seq(Chars)),
             kind : Kinds, text : Seq(Chars), id : IdArguments,
             serial : Nat, process : Processes]
  <2>1. (IF an = NoString THEN <<>> ELSE <<Value(an)>>) \in Seq(Seq(Chars))
    BY <1>3, EmptySeq
  <2>2. (IF c.kind = "text" THEN Value(av) ELSE <<>>) \in Seq(Chars)
    BY <1>3, EmptySeq
  <2>3. (IF c.id.kind = "global" THEN ids ELSE 0) \in Nat
    BY <1>7
  <2> QED BY <1>2, <1>3, <1>7, <2>1, <2>2, <2>3 DEF Passed
<1> DEFINE flags == Flags(c.id)
           trace_id == Mangled(IdValue(c.id, counter), flags, process_id_hash_)
<1>9. /\ flags \in SUBSET {"HAS_ID", "MANGLE_ID"} /\ trace_id \in Ids
      /\ "HAS_ID" \notin flags => flags = {} /\ trace_id = NONE
  BY <1>2, <1>7, IdType
<1>10. /\ Place(an, storage, 0) \in Pointers
       /\ Place(av, storage, Offset(an)) \in Pointers
  BY <1>2, <1>4, <1>5
<1>11. Event(c, storage) = [name |-> Pointer(c.name.block, 0), arg_name |-> Place(an, storage, 0),
         kind |-> c.kind, arg_value |-> Place(av, storage, Offset(an)),
         flags |-> flags, trace_id |-> trace_id, copy_storage |-> storage, passed |-> Passed(c)]
  BY DEF Event
<1> HIDE DEF flags, trace_id, an, av
<1> QED BY <1>2, <1>6, <1>8, <1>9, <1>10, <1>11 DEF Events, IdAbsent

\* The thread's name fits its storage.
LEMMA ThreadNameCells ==
  /\ Write(Zeros(METADATA_SZ), 0, ThreadName) \in Seq(Cell)
  /\ Len(Write(Zeros(METADATA_SZ), 0, ThreadName)) = METADATA_SZ
  /\ METADATA_SZ \in Nat \ {0} /\ Len(ThreadName) < METADATA_SZ
  /\ \A i \in 1..Len(ThreadName) : Write(Zeros(METADATA_SZ), 0, ThreadName)[i] = ThreadName[i]
  /\ \A i \in (Len(ThreadName) + 1)..METADATA_SZ :
       Write(Zeros(METADATA_SZ), 0, ThreadName)[i] = NUL
<1> DEFINE z == Zeros(METADATA_SZ)
           w == Write(z, 0, ThreadName)
<1>1. ThreadName \in Seq(Chars) /\ Len(ThreadName) \in Nat /\ METADATA_SZ \in Nat
      /\ Len(ThreadName) < METADATA_SZ
  BY EventDataAssumption, LenProperties
<1>2. z \in Seq(Cell) /\ Len(z) = METADATA_SZ /\ \A i \in 1..METADATA_SZ : z[i] = NUL
  BY <1>1, ZerosProperties
<1>3. /\ w \in Seq(Cell) /\ Len(w) = Len(z)
      /\ \A i \in 1..Len(ThreadName) : w[0 + i] = ThreadName[i]
  <2> HIDE DEF z
  <2> QED BY <1>1, <1>2, WriteProperties
<1>4. \A i \in 1..Len(ThreadName) : w[i] = ThreadName[i]
  <2> TAKE i \in 1..Len(ThreadName)
  <2>1. 0 + i = i
    OBVIOUS
  <2> HIDE DEF w
  <2> QED BY <1>3, <2>1
<1>5. ASSUME NEW i \in (Len(ThreadName) + 1)..METADATA_SZ
      PROVE  w[i] = NUL
  <2> HIDE DEF z
  <2>1. w[i] = IF i \in (0 + 1)..(0 + Len(ThreadName) + 1 - 1) THEN ThreadName[i - 0]
               ELSE IF i = 0 + Len(ThreadName) + 1 \/ i > Len(z) THEN NUL ELSE z[i]
    BY <1>1, <1>2 DEF Write
  <2>2. i \notin (0 + 1)..(0 + Len(ThreadName) + 1 - 1) /\ i \in 1..METADATA_SZ
    BY <1>1
  <2> QED BY <1>2, <2>1, <2>2
<1> HIDE DEF w
<1> QED BY <1>1, <1>2, <1>3, <1>4, <1>5 DEF w, z

LEMMA ThreadNameEventType ==
  ASSUME EventDataTypeOK, NEW storage \in Heap
  PROVE  ThreadNameEvent(storage) \in Events /\ IdAbsent(ThreadNameEvent(storage))
<1>1. /\ MetadataName \in Blocks /\ storage \in Blocks
      /\ StaticText[MetadataName] \in Seq(Chars) /\ ThreadName \in Seq(Chars)
  BY EventDataAssumption DEF Blocks
<1>2. Pointer(MetadataName, 0) \in Pointers /\ Pointer(storage, 0) \in Pointers
  BY <1>1 DEF Pointer, Pointers
<1>3. <<StaticText[MetadataName]>> \in Seq(Seq(Chars))
  BY <1>1
<1>4. /\ [kind |-> "none", value |-> NONE] \in IdArguments /\ NONE \in Ids
      /\ process_id_ \in Processes /\ "text" \in Kinds
  BY DEF IdArguments, NONE, Ids, EventDataTypeOK, Kinds
<1> DEFINE passed == [name |-> StaticText[MetadataName], static |-> TRUE,
               arg_name |-> <<StaticText[MetadataName]>>, kind |-> "text", text |-> ThreadName,
               id |-> [kind |-> "none", value |-> NONE], serial |-> 0, process |-> process_id_]
<1>5. passed \in [name : Seq(Chars), static : BOOLEAN, arg_name : Seq(Seq(Chars)),
             kind : Kinds, text : Seq(Chars), id : IdArguments,
             serial : Nat, process : Processes]
  BY <1>1, <1>3, <1>4
<1>6. ThreadNameEvent(storage) =
        [name |-> Pointer(MetadataName, 0), arg_name |-> Pointer(MetadataName, 0),
         kind |-> "text", arg_value |-> Pointer(storage, 0),
         flags |-> {}, trace_id |-> NONE, copy_storage |-> storage, passed |-> passed]
  BY DEF ThreadNameEvent
<1> HIDE DEF passed
<1> QED BY <1>2, <1>4, <1>5, <1>6 DEF Events, IdAbsent

-----------------------------------------------------------------------------
(* Type correctness                                                        *)

\* What Log, given an event and cells of their type, does to the types.
LEMMA LogType ==
  ASSUME EventDataTypeOK, NEW e \in Events, IdAbsent(e), NEW cells \in Seq(Cell),
         NEW size \in Nat, Log(e, cells, size),
         counter' \in Nat, ids' \in Nat
  PROVE  EventDataTypeOK'
<1>1. memory' \in Memories
  <2>1. memory \in [Blocks -> Seq(Cell)]
    BY DEF EventDataTypeOK, Cell
  <2> QED BY <2>1 DEF Log, Memories
<1>2. allocated' \in [Heap -> Nat]
  BY DEF Log, EventDataTypeOK
<1>3. /\ logged_events_' \in Seq(Events)
      /\ ToSet(logged_events_') = ToSet(logged_events_) \cup {e}
  BY Appended DEF Log, EventDataTypeOK
<1>4. recorded' \in 0..MaxEvents
  BY EventDataAssumption DEF Log, EventDataTypeOK
<1>5. UNCHANGED <<flush_events_, process_id_, process_id_hash_, switches>>
  BY DEF Log, processVars
<1> QED BY <1>1, <1>2, <1>3, <1>4, <1>5 DEF EventDataTypeOK, Memories, Cell, IdAbsent

\* Freeing blocks keeps the types.
LEMMA DestroyType ==
  ASSUME EventDataTypeOK, NEW events, Destroy(events)
  PROVE  memory' \in Memories /\ allocated' \in [Heap -> Nat]
<1>1. memory \in [Blocks -> Seq(Cell)] /\ allocated \in [Heap -> Nat]
  BY DEF EventDataTypeOK, Cell
<1> QED BY <1>1, EmptySeq DEF Destroy, Free, Memories

\* Type correctness: every variable holds a value of its type, and an event
\* without an id carries TraceID::NONE and is not told to mangle it.
THEOREM TypeCorrect == Spec => []EventDataTypeOK
<1>1. ASSUME Init
      PROVE  EventDataTypeOK
  <2>1. ASSUME NEW b \in Blocks
        PROVE  (IF b \in Static THEN Append(StaticText[b], NUL)
                ELSE IF b \in Buffers THEN <<NUL>> ELSE <<>>) \in Seq(Cell)
    <3>1. b \in Static => StaticText[b] \in Seq(Chars)
      BY EventDataAssumption
    <3>2. b \in Static => StaticText[b] \in Seq(Cell) /\ NUL \in Cell
      BY <3>1 DEF Cell
    <3>3. b \in Static => Append(StaticText[b], NUL) \in Seq(Cell)
      BY <3>2, AppendProperties
    <3>4. <<>> \in Seq(Cell) /\ <<NUL>> \in Seq(Cell)
      BY DEF Cell
    <3> QED BY <3>3, <3>4
  <2>2. memory \in Memories
    BY <1>1, <2>1 DEF Init, Memories
  <2>3. process_id_ \in Processes /\ process_id_hash_ \in Ids
    BY <1>1, EventDataAssumption DEF Init
  <2>4. logged_events_ \in Seq(Events) /\ ToSet(logged_events_) = {}
        /\ flush_events_ \in Seq(Events) /\ ToSet(flush_events_) = {}
    <3>1. <<>> \in Seq(Events) /\ ToSet(<<>>) = {}
      BY EmptySeq DEF ToSet
    <3> QED BY <1>1, <3>1 DEF Init
  <2> QED BY <1>1, <2>2, <2>3, <2>4, EventDataAssumption, SMTT(30) DEF Init, EventDataTypeOK, Memories, Cell
<1>2. ASSUME EventDataTypeOK, [Next]_vars
      PROVE  EventDataTypeOK'
  <2> USE <1>2
  <2>1. memory \in Memories /\ counter \in Nat /\ ids \in Nat
    BY DEF EventDataTypeOK, Memories, Cell
  <2>2. ASSUME NEW c \in Calls, EvaluateId(c.id)
        PROVE  counter' \in Nat /\ ids' \in Nat
    BY <2>1, <2>2 DEF EvaluateId, Increment
  <2>3. ASSUME NEW c \in Calls, Record(c)
        PROVE  EventDataTypeOK'
    <3>1. PICK storage \in Unallocated \cup {NullBlock} : Log(Event(c, storage), Copies(c), Size(c))
      BY <2>3 DEF Record
    <3>2. storage \in Heap \cup {NullBlock}
      BY DEF Unallocated
    <3>3. Copies(c) \in Seq(Cell) /\ Size(c) \in Nat
      BY <2>1, CopiesProperties
    <3>4. Event(c, storage) \in Events /\ IdAbsent(Event(c, storage))
      BY <3>2, EventType
    <3>5. counter' \in Nat /\ ids' \in Nat
      BY <2>2, <2>3 DEF Record
    <3> QED BY <3>1, <3>3, <3>4, <3>5, LogType
  <2>4. ASSUME NEW c \in Calls, Drop(c)
        PROVE  EventDataTypeOK'
    <3>1. counter' \in Nat /\ ids' \in Nat
      BY <2>2, <2>4 DEF Drop
    <3> QED BY <2>4, <3>1 DEF Drop, logVars, processVars, EventDataTypeOK
  <2>5. ASSUME AddThreadName
        PROVE  EventDataTypeOK'
    <3> DEFINE cells == Write(Zeros(METADATA_SZ), 0, ThreadName)
    <3>1. PICK storage \in Unallocated : Log(ThreadNameEvent(storage), cells, METADATA_SZ)
      BY <2>5 DEF AddThreadName
    <3>2. storage \in Heap
      BY DEF Unallocated
    <3>3. ThreadNameEvent(storage) \in Events /\ IdAbsent(ThreadNameEvent(storage))
      BY <3>2, ThreadNameEventType
    <3>4. cells \in Seq(Cell) /\ METADATA_SZ \in Nat
      BY ThreadNameCells
    <3>5. counter' \in Nat /\ ids' \in Nat
      BY <2>1, <2>5 DEF AddThreadName
    <3> HIDE DEF cells
    <3> QED BY <3>1, <3>3, <3>4, <3>5, LogType
  <2>6. ASSUME NEW i \in 1..Len(logged_events_), EraseBegin(i)
        PROVE  EventDataTypeOK'
    <3>1. memory' \in Memories /\ allocated' \in [Heap -> Nat]
      BY <2>6, DestroyType DEF EraseBegin
    <3>2. logged_events_' \in Seq(Events) /\ ToSet(logged_events_') \subseteq ToSet(logged_events_)
      BY <2>6, Removed DEF EraseBegin, EventDataTypeOK
    <3> QED BY <2>6, <3>1, <3>2 DEF EraseBegin, EventDataTypeOK, processVars, Memories, Cell
  <2>7. ASSUME Flush
        PROVE  EventDataTypeOK'
    <3>1. memory' \in Memories /\ allocated' \in [Heap -> Nat]
      BY <2>7, DestroyType DEF Flush
    <3>2. logged_events_' \in Seq(Events) /\ ToSet(logged_events_') = {}
      BY <2>7, EmptySeq DEF Flush, ToSet
    <3> QED BY <2>7, <3>1, <3>2 DEF Flush, EventDataTypeOK, processVars, Memories, Cell
  <2>8. ASSUME NEW p \in Processes, SetProcessID(p)
        PROVE  EventDataTypeOK'
    BY <2>8, EventDataAssumption DEF SetProcessID, NewHash, logVars, EventDataTypeOK
  <2>9. ASSUME NEW b \in Buffers, NEW t \in Texts, Reuse(b, t)
        PROVE  EventDataTypeOK'
    <3>1. t \in Seq(Cell) /\ NUL \in Cell
      BY EventDataAssumption DEF Cell
    <3>2. Append(t, NUL) \in Seq(Cell)
      BY <3>1, AppendProperties
    <3>3. memory' \in Memories
      BY <2>1, <2>9, <3>2 DEF Reuse, Memories
    <3> QED BY <2>9, <3>3 DEF Reuse, EventDataTypeOK, processVars, Memories, Cell
  <2>10. CASE UNCHANGED vars
    BY <2>10 DEF vars, logVars, processVars, EventDataTypeOK
  <2> QED BY <2>3, <2>4, <2>5, <2>6, <2>7, <2>8, <2>9, <2>10 DEF Next
<1> QED BY <1>1, <1>2, PTL DEF Spec

-----------------------------------------------------------------------------
(* The inductive invariant                                                 *)

\* No two events of a sequence, and none of two sequences, own one block.
Unshared(s) ==
  \A i, j \in 1..Len(s) :
    i # j /\ s[i].copy_storage = s[j].copy_storage => s[i].copy_storage = NullBlock
Apart(s, t) ==
  \A i \in 1..Len(s), j \in 1..Len(t) :
    s[i].copy_storage = t[j].copy_storage => s[i].copy_storage = NullBlock

Ownership ==
  /\ Unshared(logged_events_) /\ Unshared(flush_events_)
  /\ Apart(logged_events_, flush_events_)
  /\ \A h \in Heap :
       memory[h] # <<>> <=> h \in Storage(logged_events_) \cup Storage(flush_events_)

\* What nobody writes to.
Fixed ==
  /\ \A s \in Static : memory[s] = Append(StaticText[s], NUL)
  /\ memory[NullBlock] = <<>>

Home(mem, e, p) ==
  \/ p = NullPointer
  \/ p.block \in Static
  \/ p.block = e.copy_storage /\ p.offset < Len(mem[p.block])

\* In this memory, the event refers to what the caller passed.
Intact(mem, e) ==
  /\ e.passed.static => e.name.block \in Static /\ e.passed.name = CString(mem, e.name)
  /\ Home(mem, e, e.arg_name) /\ Home(mem, e, e.arg_value)
  /\ e.passed.arg_name = IF e.arg_name = NullPointer THEN <<>> ELSE <<CString(mem, e.arg_name)>>
  /\ e.passed.kind = e.kind
  /\ e.passed.text = IF e.kind = "text" THEN CString(mem, e.arg_value) ELSE <<>>

KeptIntact == \A e \in ToSet(logged_events_) \cup ToSet(flush_events_) : Intact(memory, e)

MemoryInv == EventDataTypeOK /\ Fixed /\ Ownership /\ CopiesFit /\ KeptIntact

\* An event depends on the literals and on its own storage.
LEMMA IntactLocal ==
  ASSUME NEW mem, NEW mem2, NEW e, Intact(mem, e),
         \A b \in Static \cup {NullBlock, e.copy_storage} : mem2[b] = mem[b]
  PROVE  Intact(mem2, e)
<1>1. ASSUME NEW p, Home(mem, e, p)
      PROVE  Home(mem2, e, p) /\ CString(mem2, p) = CString(mem, p)
  <2>1. p.block \in Static \cup {NullBlock, e.copy_storage}
    BY <1>1 DEF Home, NullPointer, Pointer
  <2>2. mem2[p.block] = mem[p.block]
    BY <2>1
  <2>3. CString(mem2, p) = CString(mem, p)
    BY <2>2, CStringLocal
  <2> QED BY <1>1, <2>2, <2>3 DEF Home
<1>2. e.name.block \in Static => CString(mem2, e.name) = CString(mem, e.name)
  BY CStringLocal
<1> QED BY <1>1, <1>2 DEF Intact

\* The blocks of a sequence that gets another event.
LEMMA AppendedStorage ==
  ASSUME NEW s \in Seq(Events), NEW e \in Events
  PROVE  /\ Storage(Append(s, e)) = Storage(s) \cup {e.copy_storage}
         /\ Unshared(s) /\ (e.copy_storage \in Storage(s) => e.copy_storage = NullBlock)
              => Unshared(Append(s, e))
         /\ \A t : Apart(s, t) /\ (e.copy_storage \in Storage(t) => e.copy_storage = NullBlock)
              => Apart(Append(s, e), t)
<1> DEFINE a == Append(s, e)
<1>1. /\ Len(a) = Len(s) + 1 /\ Len(s) \in Nat
      /\ \A i \in 1..Len(s) : a[i] = s[i]
      /\ a[Len(s) + 1] = e
  BY AppendProperties, LenProperties
<1>2. /\ \A i \in 1..Len(a) : i \in 1..Len(s) \/ i = Len(s) + 1
      /\ \A i \in 1..Len(s) : i \in 1..Len(a)
      /\ Len(s) + 1 \in 1..Len(a)
  BY <1>1
<1> HIDE DEF a
<1>3. Storage(a) = Storage(s) \cup {e.copy_storage}
  BY <1>1, <1>2 DEF Storage
<1>4. ASSUME Unshared(s), e.copy_storage \in Storage(s) => e.copy_storage = NullBlock
      PROVE  Unshared(a)
  BY <1>1, <1>2, <1>4 DEF Unshared, Storage
<1>5. ASSUME NEW t, Apart(s, t), e.copy_storage \in Storage(t) => e.copy_storage = NullBlock
      PROVE  Apart(a, t)
  BY <1>1, <1>2, <1>5 DEF Apart, Storage
<1> QED BY <1>3, <1>4, <1>5 DEF a

\* The blocks of a sequence that loses an event.
LEMMA RemovedStorage ==
  ASSUME NEW s \in Seq(Events), NEW i \in 1..Len(s), Unshared(s)
  PROVE  /\ Unshared(RemoveAt(s, i))
         /\ \A h \in Heap : h \in Storage(RemoveAt(s, i)) <=> h \in Storage(s) /\ h # s[i].copy_storage
         /\ \A t : Apart(s, t) => Apart(RemoveAt(s, i), t)
<1> DEFINE r == RemoveAt(s, i)
           k(j) == IF j < i THEN j ELSE j + 1
<1>1. /\ Len(r) = Len(s) - 1 /\ Len(s) \in Nat
      /\ \A j \in 1..(Len(s) - 1) : r[j] = IF j < i THEN s[j] ELSE s[j + 1]
  BY RemoveAtProperties, LenProperties
<1> HIDE DEF r
<1>2. \A j \in 1..Len(r) : k(j) \in 1..Len(s) /\ k(j) # i /\ r[j] = s[k(j)]
  <2> TAKE j \in 1..Len(r)
  <2>1. j \in 1..(Len(s) - 1)
    BY <1>1
  <2> QED BY <1>1, <2>1
<1>3. \A j, l \in 1..Len(r) : j # l => k(j) # k(l)
  BY <1>1
<1>4. \A m \in 1..Len(s) : m # i => \E j \in 1..Len(r) : k(j) = m
  <2> TAKE m \in 1..Len(s)
  <2> HAVE m # i
  <2>1. CASE m < i
    <3>1. m \in 1..Len(r) /\ k(m) = m
      BY <1>1, <2>1
    <3> QED BY <3>1
  <2>2. CASE i < m
    <3>1. m - 1 \in 1..Len(r) /\ k(m - 1) = m
      BY <1>1, <2>2
    <3> QED BY <3>1
  <2> QED BY <1>1, <2>1, <2>2
<1> HIDE DEF k
<1>5. Unshared(r)
  BY <1>2, <1>3 DEF Unshared
<1>6. ASSUME NEW t, Apart(s, t)
      PROVE  Apart(r, t)
  BY <1>2, <1>6 DEF Apart
<1>7. ASSUME NEW h \in Heap
      PROVE  h \in Storage(r) <=> h \in Storage(s) /\ h # s[i].copy_storage
  <2>1. h # NullBlock
    BY EventDataAssumption
  <2>2. ASSUME h \in Storage(r)
        PROVE  h \in Storage(s) /\ h # s[i].copy_storage
    <3>1. PICK j \in 1..Len(r) : h = r[j].copy_storage
      BY <2>2 DEF Storage
    <3>2. h = s[k(j)].copy_storage /\ k(j) \in 1..Len(s) /\ k(j) # i
      BY <1>2, <3>1
    <3> QED BY <2>1, <3>2 DEF Unshared, Storage
  <2>3. ASSUME h \in Storage(s), h # s[i].copy_storage
        PROVE  h \in Storage(r)
    <3>1. PICK m \in 1..Len(s) : h = s[m].copy_storage
      BY <2>3 DEF Storage
    <3>2. PICK j \in 1..Len(r) : k(j) = m
      BY <1>4, <2>3, <3>1
    <3> QED BY <1>2, <3>1, <3>2 DEF Storage
  <2> QED BY <2>2, <2>3
<1> QED BY <1>5, <1>6, <1>7 DEF r

\* The events of a sequence, and what they own.
LEMMA Elements ==
  ASSUME NEW s \in Seq(Events), NEW e \in ToSet(s)
  PROVE  /\ e \in Events /\ e.copy_storage \in Storage(s)
         /\ e.copy_storage \in Heap \cup {NullBlock}
         /\ \E i \in 1..Len(s) : e = s[i]
<1>1. PICK i \in 1..Len(s) : e = s[i]
  BY ToSetElements
<1>2. e \in Events
  BY <1>1, ElementOfSeq
<1> QED BY <1>1, <1>2 DEF Storage, Events

-----------------------------------------------------------------------------
(* One step                                                                *)

\* Every call of Log stores an event with a block of its own, or none.
LEMMA LogKeeps ==
  ASSUME MemoryInv, EventDataTypeOK',
         NEW e \in Events, NEW cells \in Seq(Cell), NEW size \in Nat, Log(e, cells, size),
         e.copy_storage \in Unallocated \cup {NullBlock}, Len(cells) = size,
         e.copy_storage = NullBlock <=> size = 0, size # 0 => cells[size] = NUL,
         Intact(memory', e)
  PROVE  MemoryInv'
<1> DEFINE own == e.copy_storage
<1>1. /\ logged_events_ \in Seq(Events) /\ flush_events_ \in Seq(Events)
      /\ memory \in [Blocks -> Seq(Cell)] /\ allocated \in [Heap -> Nat]
  BY DEF MemoryInv, EventDataTypeOK, Cell
<1>2. /\ logged_events_' = Append(logged_events_, e) /\ flush_events_' = flush_events_
      /\ memory' = [memory EXCEPT ![own] = cells]
      /\ allocated' = [h \in Heap |-> IF h = own THEN size ELSE allocated[h]]
  BY DEF Log
<1>3. /\ own \in Heap \cup {NullBlock}
      /\ NullBlock \notin Static \cup Heap /\ Static \cap Heap = {}
      /\ own # NullBlock => memory[own] = <<>>
  BY EventDataAssumption DEF Unallocated
<1>4. own = NullBlock => cells = <<>>
  BY EmptySeq
<1>5. own # NullBlock => cells # <<>>
  <2>1. Len(<<>>) = 0
    BY EmptySeq
  <2> QED BY <2>1
<1>6. \A b \in Blocks : b # own => memory'[b] = memory[b]
  BY <1>1, <1>2
<1>7. own \in Blocks /\ memory'[own] = cells
  BY <1>1, <1>2, <1>3 DEF Blocks
<1>8. memory[NullBlock] = <<>> /\ memory'[NullBlock] = <<>>
  BY <1>3, <1>4, <1>6, <1>7 DEF MemoryInv, Fixed, Blocks
<1>9. Fixed'
  <2>1. \A s \in Static : memory'[s] = memory[s]
    BY <1>3, <1>6 DEF Blocks
  <2> QED BY <1>8, <2>1 DEF MemoryInv, Fixed
<1>10. own \in Storage(logged_events_) \cup Storage(flush_events_) => own = NullBlock
  BY <1>3 DEF MemoryInv, Ownership
<1>11. Ownership'
  <2>1. /\ Storage(logged_events_') = Storage(logged_events_) \cup {own}
        /\ Unshared(logged_events_') /\ Apart(logged_events_', flush_events_)
    <3> HIDE DEF own
    <3>1. Unshared(logged_events_) /\ Apart(logged_events_, flush_events_)
      BY DEF MemoryInv, Ownership
    <3> QED BY <1>1, <1>2, <1>10, <3>1, AppendedStorage DEF own
  <2>2. ASSUME NEW h \in Heap
        PROVE  memory'[h] # <<>> <=> h \in Storage(logged_events_') \cup Storage(flush_events_)
    <3>1. CASE h = own
      <4>1. h \in Storage(logged_events_')
        BY <2>1, <3>1
      <4>2. own # NullBlock /\ memory'[h] # <<>>
        BY <1>3, <1>5, <1>7, <3>1
      <4> QED BY <4>1, <4>2
    <3>2. CASE h # own
      <4>1. memory'[h] = memory[h]
        BY <1>6, <3>2 DEF Blocks
      <4>2. h \in Storage(logged_events_') <=> h \in Storage(logged_events_)
        BY <2>1, <3>2
      <4> QED BY <4>1, <4>2 DEF MemoryInv, Ownership
    <3> QED BY <3>1, <3>2
  <2> QED BY <1>2, <2>1, <2>2 DEF MemoryInv, Ownership
<1>12. CopiesFit'
  <2> SUFFICES ASSUME NEW h \in Heap, memory'[h] # <<>>
               PROVE  Len(memory'[h]) = allocated'[h] /\ Last(memory'[h]) = NUL
    BY DEF CopiesFit
  <2>1. CASE h = own
    <3>1. memory'[h] = cells /\ allocated'[h] = size /\ size # 0
      BY <1>2, <1>3, <1>7, <2>1
    <3> QED BY <3>1 DEF Last
  <2>2. CASE h # own
    <3>1. memory'[h] = memory[h] /\ allocated'[h] = allocated[h]
      BY <1>2, <1>6, <2>2 DEF Blocks
    <3>2. Len(memory[h]) = allocated[h] /\ Last(memory[h]) = NUL
      BY <3>1 DEF MemoryInv, CopiesFit
    <3> QED BY <3>1, <3>2
  <2> QED BY <2>1, <2>2
<1>13. KeptIntact'
  <2>1. ToSet(logged_events_') = ToSet(logged_events_) \cup {e}
    BY <1>1, <1>2, Appended
  <2>2. ASSUME NEW f \in ToSet(logged_events_) \cup ToSet(flush_events_)
        PROVE  Intact(memory', f)
    <3>1. /\ f.copy_storage \in Heap \cup {NullBlock}
          /\ f.copy_storage \in Storage(logged_events_) \cup Storage(flush_events_)
      BY <1>1, Elements
    <3>2. f.copy_storage # own \/ f.copy_storage = NullBlock
      BY <1>10, <3>1
    <3>3. \A b \in Static \cup {NullBlock, f.copy_storage} : memory'[b] = memory[b]
      BY <1>3, <1>6, <1>8, <3>1, <3>2 DEF Blocks
    <3>4. Intact(memory, f)
      BY DEF MemoryInv, KeptIntact
    <3> QED BY <3>3, <3>4, IntactLocal
  <2> QED BY <1>2, <2>1, <2>2 DEF KeptIntact
<1> QED BY <1>9, <1>11, <1>12, <1>13 DEF MemoryInv

\* What is destroyed is freed, and nothing else changes.
LEMMA DestroyFrees ==
  ASSUME MemoryInv, NEW events, Storage(events) \subseteq Heap \cup {NullBlock}, Destroy(events)
  PROVE  /\ \A b \in Blocks \ Storage(events) : memory'[b] = memory[b]
         /\ \A b \in Storage(events) : memory'[b] = <<>>
         /\ Fixed' /\ CopiesFit'
         /\ \A e \in ToSet(logged_events_) \cup ToSet(flush_events_) :
              e.copy_storage \notin Storage(events) \ {NullBlock} => Intact(memory', e)
<1>1. /\ \A b \in Blocks : memory'[b] = IF b \in Storage(events) THEN <<>> ELSE memory[b]
      /\ \A h \in Heap : allocated'[h] = IF h \in Storage(events) THEN 0 ELSE allocated[h]
  BY DEF Destroy, Free
<1>2. /\ NullBlock \notin Static \cup Heap /\ Static \cap Heap = {}
      /\ memory[NullBlock] = <<>> /\ memory'[NullBlock] = <<>>
  BY <1>1, EventDataAssumption DEF MemoryInv, Fixed, Blocks
<1>3. \A b \in Storage(events) : memory'[b] = <<>>
  BY <1>1 DEF Blocks
<1>4. Fixed'
  <2>1. \A s \in Static : s \in Blocks \ Storage(events)
    BY <1>2 DEF Blocks
  <2>2. \A s \in Static : memory'[s] = memory[s]
    BY <1>1, <2>1
  <2> QED BY <1>2, <2>2 DEF MemoryInv, Fixed
<1>5. CopiesFit'
  <2> SUFFICES ASSUME NEW h \in Heap, memory'[h] # <<>>
               PROVE  Len(memory'[h]) = allocated'[h] /\ Last(memory'[h]) = NUL
    BY DEF CopiesFit
  <2>1. memory'[h] = memory[h] /\ allocated'[h] = allocated[h]
    BY <1>1 DEF Blocks
  <2>2. Len(memory[h]) = allocated[h] /\ Last(memory[h]) = NUL
    BY <2>1 DEF MemoryInv, CopiesFit
  <2> QED BY <2>1, <2>2
<1>6. ASSUME NEW e \in ToSet(logged_events_) \cup ToSet(flush_events_),
             e.copy_storage \notin Storage(events) \ {NullBlock}
      PROVE  Intact(memory', e)
  <2>1. e.copy_storage \in Heap \cup {NullBlock}
    BY Elements DEF MemoryInv, EventDataTypeOK
  <2>2. \A b \in Static \cup {NullBlock, e.copy_storage} : memory'[b] = memory[b]
    BY <1>1, <1>2, <1>6, <2>1 DEF Blocks
  <2>3. Intact(memory, e)
    BY DEF MemoryInv, KeptIntact
  <2> QED BY <2>2, <2>3, IntactLocal
<1> QED BY <1>1, <1>3, <1>4, <1>5, <1>6

\* Erasing an event frees its block and no other.
LEMMA EraseKeeps ==
  ASSUME MemoryInv, EventDataTypeOK', NEW i \in 1..Len(logged_events_), EraseBegin(i)
  PROVE  MemoryInv'
<1> DEFINE gone == logged_events_[i]
           own  == gone.copy_storage
<1>1. /\ logged_events_ \in Seq(Events) /\ flush_events_ \in Seq(Events)
      /\ logged_events_' = RemoveAt(logged_events_, i) /\ flush_events_' = flush_events_
      /\ Destroy(<<gone>>)
  BY DEF EraseBegin, MemoryInv, EventDataTypeOK
<1>2. Storage(<<gone>>) = {own} /\ own \in Heap \cup {NullBlock}
  <2>1. gone \in Events
    BY <1>1, ElementOfSeq
  <2> QED BY <2>1 DEF Storage, Events
<1>3. /\ Unshared(logged_events_) /\ Unshared(flush_events_)
      /\ Apart(logged_events_, flush_events_)
      /\ \A h \in Heap :
           memory[h] # <<>> <=> h \in Storage(logged_events_) \cup Storage(flush_events_)
  BY DEF MemoryInv, Ownership
<1>4. /\ Unshared(logged_events_') /\ Apart(logged_events_', flush_events_)
      /\ \A h \in Heap : h \in Storage(logged_events_') <=> h \in Storage(logged_events_) /\ h # own
  BY <1>1, <1>3, RemovedStorage
<1>5. own \in Storage(flush_events_) => own = NullBlock
  BY <1>3 DEF Apart, Storage
<1>6. /\ \A b \in Blocks \ {own} : memory'[b] = memory[b]
      /\ memory'[own] = <<>>
      /\ Fixed' /\ CopiesFit'
      /\ \A e \in ToSet(logged_events_) \cup ToSet(flush_events_) :
           e.copy_storage \notin {own} \ {NullBlock} => Intact(memory', e)
  BY <1>1, <1>2, DestroyFrees
<1>7. NullBlock \notin Heap
  BY EventDataAssumption
<1> HIDE DEF own
<1>8. Ownership'
  <2>1. ASSUME NEW h \in Heap
        PROVE  memory'[h] # <<>> <=> h \in Storage(logged_events_') \cup Storage(flush_events_)
    <3>1. CASE h = own
      BY <1>4, <1>5, <1>6, <1>7, <3>1
    <3>2. CASE h # own
      <4>1. memory'[h] = memory[h]
        BY <1>6, <3>2 DEF Blocks
      <4> QED BY <1>3, <1>4, <3>2, <4>1
    <3> QED BY <3>1, <3>2
  <2> QED BY <1>1, <1>3, <1>4, <2>1 DEF Ownership
<1>9. KeptIntact'
  <2>1. ASSUME NEW e \in ToSet(logged_events_')
        PROVE  Intact(memory', e)
    <3>1. e \in ToSet(logged_events_)
      BY <1>1, Removed
    <3>2. e.copy_storage \in Storage(logged_events_') /\ e.copy_storage \in Heap \cup {NullBlock}
      BY <1>1, Elements DEF EventDataTypeOK
    <3>3. e.copy_storage \notin {own} \ {NullBlock}
      BY <1>4, <3>2
    <3> QED BY <1>6, <3>1, <3>3
  <2>2. ASSUME NEW e \in ToSet(flush_events_)
        PROVE  Intact(memory', e)
    <3>1. e.copy_storage \in Storage(flush_events_)
      BY <1>1, Elements
    <3> QED BY <1>5, <1>6, <3>1
  <2> QED BY <1>1, <2>1, <2>2 DEF KeptIntact
<1> QED BY <1>6, <1>8, <1>9 DEF MemoryInv

\* A flush frees the blocks of what the last one printed; what it prints is
\* still intact.
LEMMA FlushKeeps ==
  ASSUME MemoryInv, EventDataTypeOK', Flush
  PROVE  /\ MemoryInv'
         /\ \A e \in ToSet(logged_events_) : Intact(memory', e)
<1>1. /\ logged_events_ \in Seq(Events) /\ flush_events_ \in Seq(Events)
      /\ logged_events_' = <<>> /\ flush_events_' = logged_events_
      /\ Destroy(flush_events_)
  BY DEF Flush, ClearedByFlush, MemoryInv, EventDataTypeOK
<1>2. Storage(flush_events_) \subseteq Heap \cup {NullBlock}
  <2>1. ASSUME NEW j \in 1..Len(flush_events_)
        PROVE  flush_events_[j].copy_storage \in Heap \cup {NullBlock}
    <3>1. flush_events_[j] \in Events
      BY <1>1, ElementOfSeq
    <3> QED BY <3>1 DEF Events
  <2> QED BY <2>1 DEF Storage
<1>3. /\ Unshared(logged_events_) /\ Apart(logged_events_, flush_events_)
      /\ \A h \in Heap :
           memory[h] # <<>> <=> h \in Storage(logged_events_) \cup Storage(flush_events_)
  BY DEF MemoryInv, Ownership
<1>4. /\ \A b \in Blocks \ Storage(flush_events_) : memory'[b] = memory[b]
      /\ \A b \in Storage(flush_events_) : memory'[b] = <<>>
      /\ Fixed' /\ CopiesFit'
      /\ \A e \in ToSet(logged_events_) \cup ToSet(flush_events_) :
           e.copy_storage \notin Storage(flush_events_) \ {NullBlock} => Intact(memory', e)
  BY <1>1, <1>2, DestroyFrees
<1>5. \A h \in Storage(logged_events_) : h \in Storage(flush_events_) => h = NullBlock
  BY <1>3 DEF Apart, Storage
<1>6. ASSUME NEW e \in ToSet(logged_events_)
      PROVE  Intact(memory', e)
  <2>1. e.copy_storage \in Storage(logged_events_)
    BY <1>1, Elements
  <2> QED BY <1>4, <1>5, <2>1
<1>7. Len(<<>>) = 0 /\ ToSet(<<>>) = {} /\ Storage(<<>>) = {}
  BY EmptySeq DEF ToSet, Storage
<1>8. Ownership'
  <2>1. ASSUME NEW h \in Heap
        PROVE  memory'[h] # <<>> <=> h \in Storage(logged_events_)
    <3>1. h # NullBlock
      BY EventDataAssumption
    <3>2. CASE h \in Storage(flush_events_)
      BY <1>4, <1>5, <3>1, <3>2
    <3>3. CASE h \notin Storage(flush_events_)
      <4>1. memory'[h] = memory[h]
        BY <1>4, <3>3 DEF Blocks
      <4> QED BY <1>3, <3>3, <4>1
    <3> QED BY <3>2, <3>3
  <2>2. Unshared(<<>>) /\ Apart(<<>>, logged_events_)
    BY <1>7 DEF Unshared, Apart
  <2> QED BY <1>1, <1>3, <1>7, <2>1, <2>2 DEF Ownership
<1>9. KeptIntact'
  BY <1>1, <1>6, <1>7 DEF KeptIntact
<1> QED BY <1>4, <1>6, <1>8, <1>9 DEF MemoryInv

\* In the storage the copies fill, an argument is what it stood for.
LEMMA Placed ==
  ASSUME memory \in Memories, NEW c \in Calls, NEW s \in Arguments(c),
         NEW mem \in Memories, NEW storage \in Heap \cup {NullBlock}, NEW offset \in Nat,
         \A b \in Blocks \ Heap : mem[b] = memory[b],
         s.marked => /\ storage \in Heap
                     /\ offset + Len(Value(s)) < Len(mem[storage])
                     /\ \A i \in 1..Len(Value(s)) : mem[storage][offset + i] = Value(s)[i]
                     /\ mem[storage][offset + Len(Value(s)) + 1] = NUL
  PROVE  /\ CString(mem, Place(s, storage, offset)) = Value(s)
         /\ Place(s, storage, offset) = NullPointer <=> s = NoString
         /\ \A e : e.copy_storage = storage => Home(mem, e, Place(s, storage, offset))
<1>1. /\ s.block \in Blocks \ Heap /\ s.marked \in BOOLEAN
      /\ s = NoString <=> s.block = NullBlock
      /\ ~s.marked => s.whole /\ s.block \in Static \cup {NullBlock}
  BY CallStrings
<1>2. NullBlock \notin Static \cup Heap /\ NoString.marked = FALSE
  BY EventDataAssumption DEF NoString
<1>3. CASE s.marked
  <2>1. Place(s, storage, offset) = Pointer(storage, offset)
    BY <1>3 DEF Place
  <2>2. Value(s) \in Seq(Chars) /\ mem[storage] \in Seq(Cell)
    BY <1>1, ValueType DEF Memories, Blocks
  <2>3. CString(mem, Pointer(storage, offset)) = Value(s)
    BY <1>3, <2>2, CStringIs
  <2>4. Pointer(storage, offset) # NullPointer /\ s # NoString
    BY <1>2, <1>3 DEF Pointer, NullPointer
  <2>5. offset < Len(mem[storage])
    <3>1. Len(Value(s)) \in Nat /\ Len(mem[storage]) \in Nat
      BY <2>2, LenProperties
    <3> QED BY <1>3, <3>1
  <2>6. ASSUME NEW e, e.copy_storage = storage
        PROVE  Home(mem, e, Pointer(storage, offset))
    BY <2>5, <2>6 DEF Home, Pointer
  <2> QED BY <2>1, <2>3, <2>4, <2>6
<1>4. CASE ~s.marked
  <2>1. Place(s, storage, offset) = Pointer(s.block, 0)
    BY <1>4 DEF Place
  <2>2. Value(s) = CString(memory, Pointer(s.block, 0))
    BY <1>1, <1>4 DEF Value
  <2>3. CString(mem, Pointer(s.block, 0)) = CString(memory, Pointer(s.block, 0))
    <3>1. mem[Pointer(s.block, 0).block] = memory[Pointer(s.block, 0).block]
      BY <1>1 DEF Pointer
    <3> QED BY <3>1, CStringLocal
  <2>4. Pointer(s.block, 0) = NullPointer <=> s = NoString
    BY <1>1 DEF Pointer, NullPointer
  <2>5. ASSUME NEW e
        PROVE  Home(mem, e, Pointer(s.block, 0))
    BY <1>1, <1>4 DEF Home, Pointer, NullPointer
  <2> QED BY <2>1, <2>2, <2>3, <2>4, <2>5
<1> QED BY <1>1, <1>3, <1>4

\* The event of a call refers to what the caller passed.
LEMMA RecordKeeps ==
  ASSUME MemoryInv, EventDataTypeOK', NEW c \in Calls, Record(c)
  PROVE  MemoryInv'
<1> DEFINE an == c.arg_name
           av == c.arg_value
<1>1. PICK storage \in Unallocated \cup {NullBlock} :
        /\ storage = NullBlock <=> Size(c) = 0
        /\ Log(Event(c, storage), Copies(c), Size(c))
  BY DEF Record
<1> DEFINE e == Event(c, storage)
<1>2. /\ memory \in Memories /\ memory' \in Memories /\ memory[NullBlock] = <<>>
      /\ storage \in Heap \cup {NullBlock} /\ NullBlock \notin Heap
  BY EventDataAssumption DEF MemoryInv, Fixed, EventDataTypeOK, Memories, Cell, Unallocated
<1>3. /\ Size(c) = Offset(an) + Offset(av) /\ Size(c) \in Nat
      /\ Copies(c) \in Seq(Cell)
      /\ Len(Copies(c)) = Size(c)
      /\ an.marked => /\ \A i \in 1..Len(Value(an)) : Copies(c)[i] = Value(an)[i]
                      /\ Copies(c)[Len(Value(an)) + 1] = NUL
      /\ av.marked => /\ \A i \in 1..Len(Value(av)) : Copies(c)[Offset(an) + i] = Value(av)[i]
                      /\ Copies(c)[Offset(an) + Len(Value(av)) + 1] = NUL
      /\ Size(c) # 0 => Copies(c)[Size(c)] = NUL
  BY <1>2, CopiesProperties
<1>4. e \in Events /\ e.copy_storage = storage
  <2>1. e \in Events
    BY <1>2, EventType DEF MemoryInv
  <2> QED BY <2>1 DEF Event
<1>5. /\ memory'[storage] = Copies(c)
      /\ \A b \in Blocks \ Heap : memory'[b] = memory[b]
  <2>1. memory' = [memory EXCEPT ![storage] = Copies(c)]
    BY <1>1, <1>4 DEF Log
  <2>2. Size(c) = 0 => Copies(c) = <<>>
    BY <1>3, EmptySeq
  <2>3. storage = NullBlock => Copies(c) = memory[NullBlock]
    BY <1>1, <1>2, <2>2
  <2>4. storage \in Blocks /\ memory \in [Blocks -> Seq(Cell)]
    BY <1>2 DEF Blocks, Memories
  <2> QED BY <1>2, <2>1, <2>3, <2>4
<1>6. /\ an \in Arguments(c) /\ av \in Arguments(c)
      /\ an.block \in Blocks /\ an.marked \in BOOLEAN
      /\ av.block \in Blocks /\ av.marked \in BOOLEAN
  BY CallStrings DEF Arguments
<1> HIDE DEF an, av
<1>7. /\ Len(Value(an)) \in Nat /\ Offset(an) \in Nat
      /\ an.marked => Offset(an) = Len(Value(an)) + 1
      /\ Len(Value(av)) \in Nat /\ Offset(av) \in Nat
      /\ av.marked => Offset(av) = Len(Value(av)) + 1
  BY <1>2, <1>6, ArgumentSize
<1>8. /\ CString(memory', Place(an, storage, 0)) = Value(an)
      /\ Place(an, storage, 0) = NullPointer <=> an = NoString
      /\ \A f : f.copy_storage = storage => Home(memory', f, Place(an, storage, 0))
  <2>1. an.marked => /\ storage \in Heap
                     /\ 0 + Len(Value(an)) < Len(memory'[storage])
                     /\ \A i \in 1..Len(Value(an)) : memory'[storage][0 + i] = Value(an)[i]
                     /\ memory'[storage][0 + Len(Value(an)) + 1] = NUL
    <3> SUFFICES ASSUME an.marked
                 PROVE  /\ storage \in Heap
                        /\ 0 + Len(Value(an)) < Len(memory'[storage])
                        /\ \A i \in 1..Len(Value(an)) : memory'[storage][0 + i] = Value(an)[i]
                        /\ memory'[storage][0 + Len(Value(an)) + 1] = NUL
      OBVIOUS
    <3>1. Size(c) # 0 /\ 0 + Len(Value(an)) < Size(c)
      BY <1>3, <1>7
    <3>2. \A i \in 1..Len(Value(an)) : 0 + i = i
      OBVIOUS
    <3>3. 0 + Len(Value(an)) + 1 = Len(Value(an)) + 1
      BY <1>7
    <3> QED BY <1>1, <1>2, <1>3, <1>5, <3>1, <3>2, <3>3
  <2> QED BY <1>2, <1>5, <1>6, <2>1, Placed
<1>9. /\ CString(memory', Place(av, storage, Offset(an))) = Value(av)
      /\ \A f : f.copy_storage = storage => Home(memory', f, Place(av, storage, Offset(an)))
  <2>1. av.marked => /\ storage \in Heap
                     /\ Offset(an) + Len(Value(av)) < Len(memory'[storage])
                     /\ \A i \in 1..Len(Value(av)) : memory'[storage][Offset(an) + i] = Value(av)[i]
                     /\ memory'[storage][Offset(an) + Len(Value(av)) + 1] = NUL
    <3> SUFFICES ASSUME av.marked
                 PROVE  /\ storage \in Heap
                        /\ Offset(an) + Len(Value(av)) < Len(memory'[storage])
                        /\ \A i \in 1..Len(Value(av)) : memory'[storage][Offset(an) + i] = Value(av)[i]
                        /\ memory'[storage][Offset(an) + Len(Value(av)) + 1] = NUL
      OBVIOUS
    <3>1. Size(c) # 0 /\ Offset(an) + Len(Value(av)) < Size(c)
      BY <1>3, <1>7
    <3> QED BY <1>1, <1>2, <1>3, <1>5, <3>1
  <2> QED BY <1>2, <1>5, <1>6, <1>7, <2>1, Placed
<1>10. c.name.block \in Static => CString(memory', Pointer(c.name.block, 0)) = Value(c.name)
  <2>1. c.name.block \in Blocks \ Heap /\ c.name.whole
    BY CallStrings
  <2>2. memory'[Pointer(c.name.block, 0).block] = memory[Pointer(c.name.block, 0).block]
    BY <1>5, <2>1 DEF Pointer
  <2> QED BY <2>1, <2>2, CStringLocal DEF Value
<1>11. /\ e.name = Pointer(c.name.block, 0) /\ e.kind = c.kind
       /\ e.arg_name = Place(an, storage, 0)
       /\ e.arg_value = Place(av, storage, Offset(an))
       /\ e.passed.name = Value(c.name) /\ e.passed.static = (c.name.block \in Static)
       /\ e.passed.arg_name = IF an = NoString THEN <<>> ELSE <<Value(an)>>
       /\ e.passed.kind = c.kind
       /\ e.passed.text = IF c.kind = "text" THEN Value(av) ELSE <<>>
  BY DEF Event, Passed, an, av
<1> HIDE DEF e
<1>12. Intact(memory', e)
  <2>1. Pointer(c.name.block, 0).block = c.name.block
    BY DEF Pointer
  <2> QED BY <1>4, <1>8, <1>9, <1>10, <1>11, <2>1 DEF Intact
<1>13. Log(e, Copies(c), Size(c))
  BY <1>1 DEF e
<1> QED BY <1>1, <1>3, <1>4, <1>12, <1>13, LogKeeps

\* The event of a thread's name holds it.
LEMMA ThreadNameKeeps ==
  ASSUME MemoryInv, EventDataTypeOK', AddThreadName
  PROVE  MemoryInv'
<1> DEFINE cells == Write(Zeros(METADATA_SZ), 0, ThreadName)
<1>1. PICK storage \in Unallocated : Log(ThreadNameEvent(storage), cells, METADATA_SZ)
  BY DEF AddThreadName
<1> DEFINE e == ThreadNameEvent(storage)
<1>2. /\ cells \in Seq(Cell) /\ Len(cells) = METADATA_SZ
      /\ METADATA_SZ \in Nat \ {0} /\ Len(ThreadName) < METADATA_SZ
      /\ \A i \in 1..Len(ThreadName) : cells[i] = ThreadName[i]
      /\ \A i \in (Len(ThreadName) + 1)..METADATA_SZ : cells[i] = NUL
  BY ThreadNameCells
<1>3. /\ ThreadName \in Seq(Chars) /\ Len(ThreadName) \in Nat
      /\ MetadataName \in Static /\ StaticText[MetadataName] \in Seq(Chars)
      /\ NullBlock \notin Static \cup Heap /\ Static \cap Heap = {}
  BY EventDataAssumption, LenProperties
<1> HIDE DEF cells
<1>4. storage \in Heap /\ storage # NullBlock
  BY <1>3 DEF Unallocated
<1>5. e \in Events
  BY <1>4, ThreadNameEventType DEF MemoryInv
<1>6. /\ e.name = Pointer(MetadataName, 0) /\ e.arg_name = Pointer(MetadataName, 0)
      /\ e.kind = "text" /\ e.arg_value = Pointer(storage, 0) /\ e.copy_storage = storage
      /\ e.passed.name = StaticText[MetadataName]
      /\ e.passed.arg_name = <<StaticText[MetadataName]>>
      /\ e.passed.kind = "text" /\ e.passed.text = ThreadName
  BY DEF ThreadNameEvent
<1> HIDE DEF e
<1>7. memory'[storage] = cells /\ memory'[MetadataName] = memory[MetadataName]
  <2>1. memory' = [memory EXCEPT ![storage] = cells]
    BY <1>1, <1>6 DEF Log, e
  <2>2. memory \in [Blocks -> Seq(Cell)] /\ storage \in Blocks /\ MetadataName \in Blocks
    BY <1>3, <1>4 DEF MemoryInv, EventDataTypeOK, Blocks, Cell
  <2> QED BY <1>3, <1>4, <2>1, <2>2
<1>8. CString(memory', Pointer(storage, 0)) = ThreadName
  <2>1. cells[Len(ThreadName) + 1] = NUL
    BY <1>2, <1>3
  <2> QED BY <1>2, <1>3, <1>7, <2>1, CStringAtStart
<1>9. CString(memory', Pointer(MetadataName, 0)) = StaticText[MetadataName]
  <2> DEFINE t == StaticText[MetadataName]
             a == Append(t, NUL)
  <2>1. memory'[MetadataName] = a
    BY <1>3, <1>7 DEF MemoryInv, Fixed
  <2>2. t \in Seq(Chars) /\ t \in Seq(Cell) /\ NUL \in Cell
    BY <1>3 DEF Cell
  <2>3. /\ a \in Seq(Cell) /\ Len(a) = Len(t) + 1 /\ Len(t) \in Nat
        /\ \A i \in 1..Len(t) : a[i] = t[i]
        /\ a[Len(t) + 1] = NUL
    BY <2>2, AppendProperties, LenProperties
  <2> HIDE DEF a, t
  <2>4. Len(t) < Len(a)
    BY <2>3
  <2>5. CString(memory', Pointer(MetadataName, 0)) = t
    BY <2>1, <2>2, <2>3, <2>4, CStringAtStart
  <2> QED BY <2>5 DEF t
<1>10. Intact(memory', e)
  <2>1. /\ Pointer(MetadataName, 0).block = MetadataName
        /\ Pointer(storage, 0).block = storage /\ Pointer(storage, 0).offset = 0
        /\ Pointer(MetadataName, 0) # NullPointer
    BY <1>3 DEF Pointer, NullPointer
  <2>2. 0 < Len(memory'[storage])
    BY <1>2, <1>7
  <2> QED BY <1>3, <1>6, <1>8, <1>9, <2>1, <2>2 DEF Intact, Home
<1>11. Log(e, cells, METADATA_SZ)
  BY <1>1 DEF e
<1>12. cells[METADATA_SZ] = NUL
  <2>1. METADATA_SZ \in (Len(ThreadName) + 1)..METADATA_SZ
    BY <1>2, <1>3
  <2> QED BY <1>2, <2>1
<1> QED BY <1>1, <1>2, <1>4, <1>5, <1>6, <1>10, <1>11, <1>12, LogKeeps

\* A caller's buffer is nobody's home.
LEMMA ReuseKeeps ==
  ASSUME MemoryInv, NEW b \in Buffers, NEW t \in Texts, Reuse(b, t), EventDataTypeOK'
  PROVE  MemoryInv'
<1>1. b \notin Static \cup Heap \cup {NullBlock}
  BY EventDataAssumption
<1>2. \A d \in Static \cup Heap \cup {NullBlock} : memory'[d] = memory[d]
  BY <1>1 DEF Reuse, MemoryInv, EventDataTypeOK, Blocks
<1>3. UNCHANGED <<allocated, logged_events_, flush_events_>>
  BY DEF Reuse
<1>4. Fixed'
  BY <1>2 DEF MemoryInv, Fixed
<1>5. Ownership'
  BY <1>2, <1>3 DEF MemoryInv, Ownership
<1>6. CopiesFit'
  BY <1>2, <1>3 DEF MemoryInv, CopiesFit
<1>7. KeptIntact'
  <2>1. ASSUME NEW e \in ToSet(logged_events_) \cup ToSet(flush_events_)
        PROVE  Intact(memory', e)
    <3>1. e.copy_storage \in Heap \cup {NullBlock}
      BY Elements DEF MemoryInv, EventDataTypeOK
    <3>2. \A d \in Static \cup {NullBlock, e.copy_storage} : memory'[d] = memory[d]
      BY <1>2, <3>1
    <3>3. Intact(memory, e)
      BY DEF MemoryInv, KeptIntact
    <3> QED BY <3>2, <3>3, IntactLocal
  <2> QED BY <1>3, <2>1 DEF KeptIntact
<1> QED BY <1>4, <1>5, <1>6, <1>7 DEF MemoryInv

-----------------------------------------------------------------------------
(* The theorems about memory                                               *)

\* The invariant holds in every reachable state.
THEOREM MemorySafe == Spec => []MemoryInv
<1>1. ASSUME Init, EventDataTypeOK
      PROVE  MemoryInv
  <2>1. /\ logged_events_ = <<>> /\ flush_events_ = <<>>
        /\ memory = [b \in Blocks |-> IF b \in Static THEN Append(StaticText[b], NUL)
                                      ELSE IF b \in Buffers THEN <<NUL>> ELSE <<>>]
    BY <1>1 DEF Init
  <2>2. /\ NullBlock \notin Static \cup Buffers
        /\ Static \cap Heap = {} /\ Buffers \cap Heap = {}
    BY EventDataAssumption
  <2>3. \A b \in Heap \cup {NullBlock} : memory[b] = <<>>
    BY <2>1, <2>2 DEF Blocks
  <2>4. \A b \in Static : memory[b] = Append(StaticText[b], NUL)
    BY <2>1 DEF Blocks
  <2>5. Len(<<>>) = 0 /\ ToSet(<<>>) = {} /\ Storage(<<>>) = {}
    BY EmptySeq DEF ToSet, Storage
  <2>6. Unshared(<<>>) /\ Apart(<<>>, <<>>)
    BY <2>5 DEF Unshared, Apart
  <2>7. Fixed /\ CopiesFit
    BY <2>3, <2>4 DEF Fixed, CopiesFit
  <2>8. Ownership
    BY <2>1, <2>3, <2>5, <2>6 DEF Ownership
  <2>9. KeptIntact
    BY <2>1, <2>5 DEF KeptIntact
  <2> QED BY <1>1, <2>7, <2>8, <2>9 DEF MemoryInv
<1>2. ASSUME MemoryInv, EventDataTypeOK', [Next]_vars
      PROVE  MemoryInv'
  <2> USE <1>2
  <2>1. ASSUME UNCHANGED <<memory, allocated, logged_events_, flush_events_>>
        PROVE  MemoryInv'
    BY <2>1 DEF MemoryInv, Fixed, Ownership, CopiesFit, KeptIntact
  <2>2. ASSUME NEW c \in Calls, Record(c)
        PROVE  MemoryInv'
    BY <2>2, RecordKeeps
  <2>3. ASSUME NEW c \in Calls, Drop(c)
        PROVE  MemoryInv'
    BY <2>1, <2>3 DEF Drop, logVars
  <2>4. ASSUME AddThreadName
        PROVE  MemoryInv'
    BY <2>4, ThreadNameKeeps
  <2>5. ASSUME NEW i \in 1..Len(logged_events_), EraseBegin(i)
        PROVE  MemoryInv'
    BY <2>5, EraseKeeps
  <2>6. ASSUME Flush
        PROVE  MemoryInv'
    BY <2>6, FlushKeeps
  <2>7. ASSUME NEW p \in Processes, SetProcessID(p)
        PROVE  MemoryInv'
    BY <2>1, <2>7 DEF SetProcessID, logVars
  <2>8. ASSUME NEW b \in Buffers, NEW t \in Texts, Reuse(b, t)
        PROVE  MemoryInv'
    BY <2>8, ReuseKeeps
  <2>9. CASE UNCHANGED vars
    BY <2>1, <2>9 DEF vars, logVars
  <2> QED BY <2>2, <2>3, <2>4, <2>5, <2>6, <2>7, <2>8, <2>9 DEF Next
<1> QED BY <1>1, <1>2, TypeCorrect, PTL DEF Spec

\* The elements of Kept are those of the two vectors, in their order.
LEMMA KeptElements ==
  ASSUME EventDataTypeOK
  PROVE  /\ Kept \in Seq(Events)
         /\ \A i \in 1..Len(Kept) :
              \/ i \in 1..Len(logged_events_) /\ Kept[i] = logged_events_[i]
              \/ /\ i - Len(logged_events_) \in 1..Len(flush_events_)
                 /\ i \notin 1..Len(logged_events_)
                 /\ Kept[i] = flush_events_[i - Len(logged_events_)]
         /\ \A i \in 1..Len(logged_events_) : i \in 1..Len(Kept) /\ Kept[i] = logged_events_[i]
         /\ \A i \in 1..Len(flush_events_) :
              /\ Len(logged_events_) + i \in 1..Len(Kept)
              /\ Kept[Len(logged_events_) + i] = flush_events_[i]
<1>1. logged_events_ \in Seq(Events) /\ flush_events_ \in Seq(Events)
  BY DEF EventDataTypeOK
<1>2. Len(logged_events_) \in Nat /\ Len(flush_events_) \in Nat
  BY <1>1, LenProperties
<1>3. /\ Kept \in Seq(Events)
      /\ Len(Kept) = Len(logged_events_) + Len(flush_events_)
      /\ \A i \in 1..(Len(logged_events_) + Len(flush_events_)) :
           Kept[i] = IF i <= Len(logged_events_) THEN logged_events_[i]
                     ELSE flush_events_[i - Len(logged_events_)]
  BY <1>1, ConcatProperties DEF Kept
<1>4. ASSUME NEW i \in 1..Len(flush_events_)
      PROVE  /\ Len(logged_events_) + i \in 1..Len(Kept)
             /\ Kept[Len(logged_events_) + i] = flush_events_[i]
  <2> DEFINE j == Len(logged_events_) + i
  <2>1. j \in 1..Len(Kept) /\ ~(j <= Len(logged_events_)) /\ j - Len(logged_events_) = i
    BY <1>2, <1>3
  <2> HIDE DEF j
  <2>2. Kept[j] = flush_events_[i]
    BY <1>3, <2>1
  <2> QED BY <2>1, <2>2 DEF j
<1> QED BY <1>2, <1>3, <1>4

\* A heap block is allocated exactly while one event owns it, and no two own
\* the same, in every instance.
THEOREM StorageIsOwned == Spec => []StorageOwned
<1>1. ASSUME MemoryInv
      PROVE  StorageOwned
  <2> DEFINE L == logged_events_
             F == flush_events_
             n == Len(L)
  <2>1. /\ Kept \in Seq(Events)
        /\ \A i \in 1..Len(Kept) :
              \/ i \in 1..n /\ Kept[i] = L[i]
              \/ i - n \in 1..Len(F) /\ i \notin 1..n /\ Kept[i] = F[i - n]
        /\ \A i \in 1..n : i \in 1..Len(Kept) /\ Kept[i] = L[i]
        /\ \A i \in 1..Len(F) : n + i \in 1..Len(Kept) /\ Kept[n + i] = F[i]
    BY <1>1, KeptElements DEF MemoryInv
  <2>2. /\ Unshared(L) /\ Unshared(F) /\ Apart(L, F)
        /\ \A h \in Heap : memory[h] # <<>> <=> h \in Storage(L) \cup Storage(F)
    BY <1>1 DEF MemoryInv, Ownership
  <2>3. n \in Nat /\ Len(Kept) \in Nat
    BY <1>1, <2>1, LenProperties DEF MemoryInv, EventDataTypeOK
  <2> HIDE DEF L, F, n
  <2>4. ASSUME NEW i \in 1..Len(Kept), NEW j \in 1..Len(Kept), i # j,
               Kept[i].copy_storage = Kept[j].copy_storage
        PROVE  Kept[i].copy_storage = NullBlock
    <3>1. CASE i \in 1..n /\ j \in 1..n
      BY <2>1, <2>2, <2>4, <3>1 DEF Unshared, n
    <3>2. CASE i \in 1..n /\ j \notin 1..n
      BY <2>1, <2>2, <2>4, <3>2 DEF Apart, n
    <3>3. CASE i \notin 1..n /\ j \in 1..n
      BY <2>1, <2>2, <2>4, <3>3 DEF Apart, n
    <3>4. CASE i \notin 1..n /\ j \notin 1..n
      <4>1. /\ i - n \in 1..Len(F) /\ Kept[i] = F[i - n]
            /\ j - n \in 1..Len(F) /\ Kept[j] = F[j - n]
        BY <2>1, <3>4
      <4>2. i - n # j - n
        BY <2>3, <2>4
      <4> QED BY <2>2, <2>4, <4>1, <4>2 DEF Unshared
    <3> QED BY <3>1, <3>2, <3>3, <3>4
  <2>5. Storage(Kept) = Storage(L) \cup Storage(F)
    <3>1. \A i \in 1..Len(Kept) : Kept[i].copy_storage \in Storage(L) \cup Storage(F)
      BY <2>1 DEF Storage, n
    <3>2. \A i \in 1..Len(L) : L[i].copy_storage \in Storage(Kept)
      BY <2>1 DEF Storage, n
    <3>3. \A i \in 1..Len(F) : F[i].copy_storage \in Storage(Kept)
      BY <2>1 DEF Storage
    <3> QED BY <3>1, <3>2, <3>3 DEF Storage
  <2> QED BY <2>2, <2>4, <2>5 DEF StorageOwned
<1> QED BY <1>1, MemorySafe, PTL

\* The copies of a call fill its storage, in every instance.
THEOREM CopiesAlwaysFit == Spec => []CopiesFit
<1>1. MemoryInv => CopiesFit
  BY DEF MemoryInv
<1> QED BY <1>1, MemorySafe, PTL

\* As long as an event is kept, the pointers to its argument's name and text,
\* and to its own name if that is a string literal, refer to string literals
\* or into its own storage, in every instance.  A name in a caller's buffer is
\* excepted: its copy marker has no effect, and the pointer dangles.
THEOREM NeverDangling == Spec => []NoDanglingRead
<1>1. ASSUME MemoryInv
      PROVE  NoDanglingRead
  <2> SUFFICES ASSUME NEW e \in ToSet(Kept)
               PROVE  /\ e.passed.static => PointsHome(e, e.name)
                      /\ PointsHome(e, e.arg_name)
                      /\ PointsHome(e, e.arg_value)
    BY DEF NoDanglingRead
  <2>1. EventDataTypeOK
    BY <1>1 DEF MemoryInv
  <2>2. e \in ToSet(logged_events_) \cup ToSet(flush_events_)
    <3>1. PICK i \in 1..Len(Kept) : e = Kept[i]
      BY <2>1, KeptElements, ToSetElements
    <3>2. \/ \E j \in 1..Len(logged_events_) : e = logged_events_[j]
          \/ \E j \in 1..Len(flush_events_) : e = flush_events_[j]
      BY <2>1, <3>1, KeptElements
    <3>3. /\ ToSet(logged_events_) = {logged_events_[j] : j \in 1..Len(logged_events_)}
          /\ ToSet(flush_events_) = {flush_events_[j] : j \in 1..Len(flush_events_)}
      BY <2>1, ToSetElements DEF EventDataTypeOK
    <3> QED BY <3>2, <3>3
  <2>3. Intact(memory, e)
    BY <1>1, <2>2 DEF MemoryInv, KeptIntact
  <2> QED BY <2>3 DEF Intact, Home, PointsHome
<1> QED BY <1>1, MemorySafe, PTL

\* The argument printed, and the event's name if that is a string literal, is
\* what the caller passed when it recorded the event, in every instance.  A
\* name in a caller's buffer is excepted: what is printed is what the buffer
\* holds by then.
THEOREM PrintsWhatWasPassed == Spec => []PrintedAsPassed
<1> DEFINE AsPassed(p) ==
             /\ p.of.static => p.name = p.of.name
             /\ Len(p.args) = Len(p.of.arg_name)
             /\ \A i \in 1..Len(p.args) :
                  p.args[i] = [name |-> p.of.arg_name[i], value |-> FormatValue(p.of.kind, p.of.text)]
<1>1. ASSUME Init
      PROVE  PrintedAsPassed
  BY <1>1 DEF Init, PrintedAsPassed
<1>2. ASSUME NEW e, Intact(memory', e)
      PROVE  AsPassed(AppendAsJSON(memory', e))
  <2> DEFINE p == AppendAsJSON(memory', e)
             text == IF e.kind = "text" THEN CString(memory', e.arg_value) ELSE <<>>
  <2>1. /\ p.of = e.passed /\ p.name = CString(memory', e.name)
        /\ p.args = IF e.arg_name = NullPointer THEN <<>>
                    ELSE << [name |-> CString(memory', e.arg_name),
                             value |-> FormatValue(e.kind, text)] >>
    BY DEF AppendAsJSON
  <2>2. /\ e.passed.static => e.passed.name = CString(memory', e.name)
        /\ e.passed.arg_name = IF e.arg_name = NullPointer THEN <<>> ELSE <<CString(memory', e.arg_name)>>
        /\ e.passed.kind = e.kind /\ e.passed.text = text
    BY <1>2 DEF Intact
  <2> HIDE DEF p, text
  <2>3. ASSUME e.arg_name = NullPointer
        PROVE  AsPassed(p)
    BY <2>1, <2>2, <2>3
  <2>4. ASSUME e.arg_name # NullPointer
        PROVE  AsPassed(p)
    BY <2>1, <2>2, <2>4
  <2>5. AsPassed(p)
    BY <2>3, <2>4
  <2> QED BY <2>5 DEF p
<1>3. ASSUME PrintedAsPassed, MemoryInv, EventDataTypeOK', [Next]_vars
      PROVE  PrintedAsPassed'
  <2>1. ASSUME printed' = printed
        PROVE  PrintedAsPassed'
    BY <1>3, <2>1 DEF PrintedAsPassed
  <2>2. ASSUME Flush
        PROVE  PrintedAsPassed'
    <3>1. \A p \in printed : AsPassed(p)
      BY <1>3 DEF PrintedAsPassed
    <3>2. ASSUME NEW i \in 1..Len(logged_events_)
          PROVE  AsPassed(AppendAsJSON(memory', logged_events_[i]))
      <4>1. logged_events_[i] \in ToSet(logged_events_)
        BY <1>3, ToSetElements DEF MemoryInv, EventDataTypeOK
      <4>2. Intact(memory', logged_events_[i])
        BY <1>3, <2>2, <4>1, FlushKeeps
      <4> QED BY <1>2, <4>2
    <3>3. \A p \in printed' : AsPassed(p)
      <4> HIDE DEF AsPassed
      <4> QED BY <2>2, <3>1, <3>2 DEF Flush
    <3> QED BY <3>3 DEF PrintedAsPassed
  <2>3. Flush \/ printed' = printed
    BY <1>3 DEF Next, Record, Log, Drop, AddThreadName, EraseBegin, SetProcessID, Reuse, vars, logVars
  <2> QED BY <2>1, <2>2, <2>3
<1> QED BY <1>1, <1>3, TypeCorrect, MemorySafe, PTL DEF Spec

-----------------------------------------------------------------------------
(* Reading back                                                            *)

Readers(S) == [text : Seq(S), escaping : BOOLEAN, closed : BOOLEAN]

\* The reader before it has read anything.
Fresh == [text |-> <<>>, escaping |-> FALSE, closed |-> FALSE]

\* h holds the readers along s.
Reads(h, s) ==
  h[0] = Fresh /\ \A i \in 1..Len(s) : h[i] = ReadChar(h[i - 1], s[i])

\* A reader stays one.
LEMMA ReadCharType ==
  ASSUME NEW S, NEW r \in Readers(S), NEW c \in S
  PROVE  ReadChar(r, c) \in Readers(S)
<1>1. Append(r.text, c) \in Seq(S)
  BY AppendProperties DEF Readers
<1> QED BY <1>1 DEF ReadChar, Readers

\* ReadText is the last of the readers along its text.
LEMMA ReadIs ==
  ASSUME NEW S, NEW s \in Seq(S)
  PROVE  \E h \in [0..Len(s) -> Readers(S)] : Reads(h, s) /\ ReadText(s) = h[Len(s)]
<1> DEFINE n == Len(s)
           T == Readers(S)
           g == [x \in T \X (1..n) |-> ReadChar(x[1], s[x[2]])]
           Body(F) == [d \in SUBSET (1..n) |->
                         IF d = {} THEN Fresh ELSE ReadChar(F[d \ {Max(d)}], s[Max(d)])]
           list == CHOOSE F : F = Body(F)
           h == [k \in 0..n |-> list[1..k]]
<1>1. n \in Nat /\ DOMAIN s = 1..n /\ Fresh \in T
  BY LenProperties, EmptySeq DEF Fresh, Readers
<1>2. ReadText(s) = list[1..n]
  BY <1>1 DEF ReadText, FoldLeft, MapThenFoldSet, Fresh
<1>3. g \in [T \X (1..n) -> T]
  <2>1. \A r \in T, i \in 1..n : ReadChar(r, s[i]) \in T
    BY ReadCharType, ElementOfSeq
  <2> QED BY <2>1
<1> HIDE DEF n, T
<1>4. PICK F \in [SUBSET (1..n) -> T] : Folds(F, n, Fresh, g)
  <2> HIDE DEF g
  <2> QED BY <1>1, <1>3, FoldExists
<1>5. ASSUME NEW d \in SUBSET (1..n)
      PROVE  F[d] = IF d = {} THEN Fresh ELSE ReadChar(F[d \ {Max(d)}], s[Max(d)])
  <2>1. d # {} => Max(d) \in 1..n
    BY <1>1, MaxProperties
  <2>2. d \ {Max(d)} \in SUBSET (1..n)
    OBVIOUS
  <2> QED BY <1>4, <2>1, <2>2 DEF Folds
<1>6. F = Body(F)
  BY <1>4, <1>5
<1>7. list = Body(list)
  <2> HIDE DEF Body
  <2> QED BY <1>6
<1> HIDE DEF list
<1>8. \A d \in SUBSET (1..n) :
        list[d] = IF d = {} THEN Fresh ELSE ReadChar(list[d \ {Max(d)}], s[Max(d)])
  BY <1>7
<1> HIDE DEF Body
<1>9. h[0] = Fresh /\ h[n] = list[1..n]
  <2>1. 0 \in 0..n /\ n \in 0..n /\ 1..0 = {}
    BY <1>1
  <2>2. list[{}] = Fresh
    BY <1>8
  <2> QED BY <2>1, <2>2
<1>10. ASSUME NEW k \in 1..n
       PROVE  h[k] = ReadChar(h[k - 1], s[k]) /\ k \in 0..n /\ k - 1 \in 0..n /\ ~(k <= k - 1)
  <2>1. /\ 1..k # {} /\ 1..k \in SUBSET (1..n)
        /\ Max(1..k) = k /\ (1..k) \ {k} = 1..(k - 1)
    BY <1>1, MaxOfRange
  <2>2. list[1..k] = ReadChar(list[1..(k - 1)], s[k])
    BY <1>8, <2>1
  <2>3. k \in 0..n /\ k - 1 \in 0..n /\ ~(k <= k - 1)
    BY <1>1
  <2> QED BY <2>2, <2>3
<1> DEFINE Bad == {k \in 0..n : h[k] \notin T}
<1>11. DOMAIN h = 0..n /\ h = [k \in 0..n |-> h[k]]
  OBVIOUS
<1> HIDE DEF h
<1>12. Bad = {}
  <2> SUFFICES ASSUME Bad # {}
               PROVE  FALSE
    OBVIOUS
  <2>1. PICK k \in Bad : \A j \in Bad : k <= j
    <3>1. Bad \subseteq Nat
      BY <1>1
    <3> HIDE DEF Bad
    <3> QED BY <3>1, NatMin
  <2>2. k \in 1..n
    BY <1>1, <1>9, <2>1
  <2>3. h[k - 1] \in T
    BY <1>10, <2>1, <2>2
  <2>4. h[k] \in T
    BY <1>10, <2>2, <2>3, ReadCharType, ElementOfSeq DEF n, T
  <2> QED BY <2>1, <2>4
<1>13. h \in [0..n -> T]
  BY <1>11, <1>12
<1>14. Reads(h, s)
  BY <1>9, <1>10 DEF Reads, n
<1> QED BY <1>2, <1>9, <1>13, <1>14 DEF n, T

\* Reading goes on where it stopped.
LEMMA ReadAppend ==
  ASSUME NEW S, NEW s \in Seq(S), NEW c \in S
  PROVE  /\ ReadText(Append(s, c)) = ReadChar(ReadText(s), c)
         /\ ReadText(s) \in Readers(S)
<1> DEFINE n == Len(s)
           u == Append(s, c)
<1>1. /\ n \in Nat /\ u \in Seq(S) /\ Len(u) = n + 1 /\ u[n + 1] = c
      /\ \A i \in 1..n : u[i] = s[i]
  BY LenProperties, AppendProperties
<1> HIDE DEF u, n
<1>2. PICK h \in [0..n -> Readers(S)] : Reads(h, s) /\ ReadText(s) = h[n]
  BY ReadIs DEF n
<1>3. PICK f \in [0..(n + 1) -> Readers(S)] : Reads(f, u) /\ ReadText(u) = f[n + 1]
  BY <1>1, ReadIs
<1> DEFINE Bad == {k \in 0..n : f[k] # h[k]}
<1>4. Bad = {}
  <2> SUFFICES ASSUME Bad # {}
               PROVE  FALSE
    OBVIOUS
  <2>1. PICK k \in Bad : \A j \in Bad : k <= j
    <3>1. Bad \subseteq Nat
      BY <1>1
    <3> HIDE DEF Bad
    <3> QED BY <3>1, NatMin
  <2>2. k # 0
    BY <1>2, <1>3, <2>1 DEF Reads
  <2>3. k \in 1..n /\ k \in 1..(n + 1) /\ k - 1 \in 0..n /\ ~(k <= k - 1)
    BY <1>1, <2>1, <2>2
  <2>4. f[k - 1] = h[k - 1]
    BY <2>1, <2>3
  <2>5. f[k] = ReadChar(f[k - 1], u[k]) /\ h[k] = ReadChar(h[k - 1], s[k])
    BY <1>1, <1>2, <1>3, <2>3 DEF Reads, n
  <2> QED BY <1>1, <2>1, <2>3, <2>4, <2>5
<1>5. n \in 0..n /\ n + 1 \in 1..(n + 1) /\ n + 1 - 1 = n
  BY <1>1
<1>6. f[n] = h[n]
  BY <1>4, <1>5
<1>7. f[n + 1] = ReadChar(f[n], u[n + 1])
  BY <1>1, <1>3, <1>5 DEF Reads
<1> QED BY <1>1, <1>2, <1>3, <1>5, <1>6, <1>7 DEF u

\* What is printed of a text, with one character more.
LEMMA JstringAppend ==
  ASSUME NEW S, NEW s \in Seq(S), NEW c \in S, "backslash" \in S
  PROVE  /\ jstring(Append(s, c)) = jstring(s) \o Escaped(c)
         /\ jstring(s) \in Seq(S)
<1> DEFINE n == Len(s)
           u == Append(s, c)
           e == [i \in 1..n |-> Escaped(s[i])]
           f == [i \in 1..(n + 1) |-> Escaped(u[i])]
<1>1. \A d \in S : Escaped(d) \in Seq(S)
  BY DEF Escaped, ShortEscape
<1>2. /\ n \in Nat /\ u \in Seq(S) /\ Len(u) = n + 1 /\ u[n + 1] = c
      /\ \A i \in 1..n : u[i] = s[i] /\ s[i] \in S
  BY LenProperties, AppendProperties, ElementOfSeq
<1> HIDE DEF u, n
<1>3. e \in Seq(Seq(S)) /\ Len(e) = n
  <2>1. e \in [1..n -> Seq(S)]
    BY <1>1, <1>2
  <2> HIDE DEF e
  <2> QED BY <1>2, <2>1, SeqDef, LenProperties
<1>4. f \in Seq(Seq(S)) /\ Len(f) = n + 1
  <2>1. \A i \in 1..(n + 1) : u[i] \in S
    BY <1>2, ElementOfSeq
  <2>2. f \in [1..(n + 1) -> Seq(S)]
    BY <1>1, <2>1
  <2>3. n + 1 \in Nat
    BY <1>2
  <2> HIDE DEF f
  <2> QED BY <2>2, <2>3, SeqDef, LenProperties
<1>5. f = Append(e, Escaped(c))
  <2>1. \A i \in 1..(n + 1) : f[i] = Append(e, Escaped(c))[i]
    <3> TAKE i \in 1..(n + 1)
    <3>1. /\ Append(e, Escaped(c))[n + 1] = Escaped(c)
          /\ \A j \in 1..n : Append(e, Escaped(c))[j] = e[j]
      <4> HIDE DEF e
      <4> QED BY <1>1, <1>3, AppendProperties
    <3>2. CASE i = n + 1
      BY <1>2, <3>1, <3>2
    <3>3. CASE i \in 1..n
      BY <1>2, <3>1, <3>3
    <3> QED BY <1>2, <3>2, <3>3
  <2>2. Append(e, Escaped(c)) \in Seq(Seq(S)) /\ Len(Append(e, Escaped(c))) = n + 1
    <3> HIDE DEF e
    <3> QED BY <1>1, <1>3, AppendProperties
  <2> HIDE DEF e, f
  <2> QED BY <1>4, <2>1, <2>2, SeqEqual
<1>6. FlattenSeq(Append(e, Escaped(c))) = FlattenSeq(e) \o Escaped(c) /\ FlattenSeq(e) \in Seq(S)
  <2> HIDE DEF e
  <2> QED BY <1>1, <1>3, FlattenAppend
<1>7. jstring(s) = FlattenSeq(e) /\ jstring(u) = FlattenSeq(f)
  BY <1>2 DEF jstring, n
<1> QED BY <1>5, <1>6, <1>7 DEF u

\* A reader that has not met the closing quote.
Open(t, escaping) == [text |-> t, escaping |-> escaping, closed |-> FALSE]

\* What such a reader makes of a backslash, and of what stands for itself.
LEMMA ReadOpen ==
  ASSUME NEW S, NEW t \in Seq(S), NEW c \in S
  PROVE  /\ ReadChar(Open(t, FALSE), "backslash") = Open(t, TRUE)
         /\ ReadChar(Open(t, TRUE), c) = Open(Append(t, c), FALSE)
         /\ c \notin {"backslash", "quote"}
            => ReadChar(Open(t, FALSE), c) = Open(Append(t, c), FALSE)
<1> DEFINE u == Append(t, c)
<1> HIDE DEF u
<1>1. ReadChar(Open(t, FALSE), "backslash") = Open(t, TRUE)
  BY DEF ReadChar, Open
<1>2. ReadChar(Open(t, TRUE), c) = Open(u, FALSE)
  BY DEF ReadChar, Open, u
<1>3. c \notin {"backslash", "quote"} => ReadChar(Open(t, FALSE), c) = Open(u, FALSE)
  BY DEF ReadChar, Open, u
<1> QED BY <1>1, <1>2, <1>3 DEF u

\* The reader takes in an escaped character as the one it stands for.
LEMMA ReadEscaped ==
  ASSUME NEW S, NEW s \in Seq(S), NEW t \in Seq(S), NEW c \in S, "backslash" \in S,
         c # "control", ReadsAs(s, t)
  PROVE  ReadsAs(s \o Escaped(c), Append(t, c))
<1>1. ReadText(s) = Open(t, FALSE)
  BY DEF ReadsAs, Open
<1>2. CASE c \in ShortEscape
  <2>1. Escaped(c) = <<"backslash", c>>
    BY <1>2 DEF Escaped
  <2>2. s \o <<"backslash", c>> = Append(Append(s, "backslash"), c)
        /\ Append(s, "backslash") \in Seq(S)
    OBVIOUS
  <2>3. ReadText(Append(s, "backslash")) = ReadChar(ReadText(s), "backslash")
    BY ReadAppend
  <2>4. ReadText(Append(s, "backslash")) = Open(t, TRUE)
    BY <1>1, <2>3, ReadOpen
  <2> DEFINE v == Append(s, "backslash")
  <2> HIDE DEF v
  <2>5. ReadText(Append(v, c)) = ReadChar(ReadText(v), c)
    BY <2>2, ReadAppend DEF v
  <2>6. ReadText(Append(v, c)) = Open(Append(t, c), FALSE)
    BY <2>4, <2>5, ReadOpen DEF v
  <2> QED BY <2>1, <2>2, <2>6 DEF ReadsAs, Open, v
<1>3. CASE c \notin ShortEscape
  <2>1. Escaped(c) = <<c>> /\ c # "backslash" /\ c # "quote"
    BY <1>3 DEF Escaped, ShortEscape
  <2>2. s \o <<c>> = Append(s, c)
    OBVIOUS
  <2>3. ReadText(Append(s, c)) = ReadChar(ReadText(s), c)
    BY ReadAppend
  <2>4. ReadText(Append(s, c)) = Open(Append(t, c), FALSE)
    BY <1>1, <2>1, <2>3, ReadOpen
  <2> QED BY <2>1, <2>2, <2>4 DEF ReadsAs, Open
<1> QED BY <1>2, <1>3

\* A text of which every character has an escape of its own, or needs none,
\* is read back.
LEMMA JstringReadsBack ==
  ASSUME NEW S, NEW s \in Seq(S), "control" \notin ToSet(s)
  PROVE  ReadsAs(jstring(s), s)
<1> DEFINE n == Len(s)
           T == S \cup {"backslash"}
           p(k) == SubSeq(s, 1, k)
           Bad == {k \in 0..n : ~ReadsAs(jstring(p(k)), p(k))}
<1>1. n \in Nat /\ s \in Seq(T) /\ "backslash" \in T
  <2>1. \A i \in 1..Len(s) : s[i] \in T
    BY ElementOfSeq
  <2> QED BY <2>1, LenProperties, SeqDef
<1>2. \A k \in 0..n : p(k) \in Seq(T) /\ Len(p(k)) = k /\ \A i \in 1..k : p(k)[i] = s[i]
  <2> TAKE k \in 0..n
  <2> QED BY <1>1, SubSeqProperties
<1>3. p(n) = s /\ p(0) = <<>>
  BY <1>1
<1> HIDE DEF p, n, T
<1>4. ReadsAs(jstring(<<>>), <<>>)
  <2>1. jstring(<<>>) = FlattenSeq(<<>>)
    <3>1. [i \in 1..Len(<<>>) |-> Escaped(<<>>[i])] = <<>>
      OBVIOUS
    <3> QED BY <3>1 DEF jstring
  <2>2. FlattenSeq(<<>>) = <<>>
    BY DEF FlattenSeq
  <2>3. <<>> \in Seq(S) /\ Len(<<>>) = 0
    BY EmptySeq
  <2>4. PICK h \in [0..Len(<<>>) -> Readers(S)] : Reads(h, <<>>) /\ ReadText(<<>>) = h[Len(<<>>)]
    BY <2>3, ReadIs
  <2>5. ReadText(<<>>) = Fresh
    BY <2>3, <2>4 DEF Reads
  <2> QED BY <2>1, <2>2, <2>5 DEF ReadsAs, Fresh
<1>5. Bad = {}
  <2> SUFFICES ASSUME Bad # {}
               PROVE  FALSE
    OBVIOUS
  <2>1. PICK k \in Bad : \A j \in Bad : k <= j
    <3>1. Bad \subseteq Nat
      BY <1>1
    <3> HIDE DEF Bad
    <3> QED BY <3>1, NatMin
  <2>2. k # 0 /\ k \in 0..n /\ ~ReadsAs(jstring(p(k)), p(k))
    BY <1>3, <1>4, <2>1
  <2>3. k \in 1..n /\ k - 1 \in 0..n /\ ~(k <= k - 1)
    BY <1>1, <2>2
  <2>4. ReadsAs(jstring(p(k - 1)), p(k - 1))
    BY <2>1, <2>3
  <2>5. s[k] \in T /\ s[k] # "control"
    BY <1>1, <2>3, ElementOfSeq DEF ToSet, n
  <2>6. p(k) = Append(p(k - 1), s[k])
    <3>1. p(k) \in Seq(T) /\ Len(p(k)) = k /\ \A i \in 1..k : p(k)[i] = s[i]
      BY <1>2, <2>2
    <3>2. /\ p(k - 1) \in Seq(T) /\ Len(p(k - 1)) = k - 1
          /\ \A i \in 1..(k - 1) : p(k - 1)[i] = s[i]
      BY <1>2, <2>3
    <3> DEFINE q == p(k - 1)
    <3> HIDE DEF q
    <3>3. /\ Append(q, s[k]) \in Seq(T) /\ Len(Append(q, s[k])) = Len(q) + 1
          /\ Append(q, s[k])[Len(q) + 1] = s[k]
          /\ \A i \in 1..Len(q) : Append(q, s[k])[i] = q[i]
      BY <2>5, <3>2, AppendProperties DEF q
    <3>4. k - 1 + 1 = k
      BY <1>1, <2>3
    <3>5. Len(Append(q, s[k])) = k /\ Append(q, s[k])[k] = s[k]
      BY <3>2, <3>3, <3>4 DEF q
    <3>6. \A i \in 1..k : Append(q, s[k])[i] = p(k)[i]
      <4> TAKE i \in 1..k
      <4>1. CASE i = k
        BY <1>1, <2>3, <3>1, <3>5, <4>1
      <4>2. CASE i # k
        <5>1. i \in 1..(k - 1) /\ i \in 1..Len(q)
          BY <1>1, <2>3, <3>2, <4>2 DEF q
        <5> QED BY <3>1, <3>2, <3>3, <5>1 DEF q
      <4> QED BY <4>1, <4>2
    <3> QED BY <3>1, <3>3, <3>5, <3>6, SeqEqual DEF q
  <2>7. p(k - 1) \in Seq(T)
    BY <1>2, <2>3
  <2>8. /\ jstring(Append(p(k - 1), s[k])) = jstring(p(k - 1)) \o Escaped(s[k])
        /\ jstring(p(k - 1)) \in Seq(T)
    BY <1>1, <2>5, <2>7, JstringAppend
  <2>9. ReadsAs(jstring(p(k - 1)) \o Escaped(s[k]), Append(p(k - 1), s[k]))
    BY <1>1, <2>4, <2>5, <2>7, <2>8, ReadEscaped
  <2> QED BY <2>2, <2>6, <2>8, <2>9
<1>6. n \in 0..n
  BY <1>1
<1> QED BY <1>3, <1>5, <1>6

\* Every text that was printed consists of characters.
PrintedTexts == \A p \in printed : p.of.text \in Seq(Chars)

\* A reader of the JSON gets back the text the caller passed, whatever
\* characters it consists of, if it has no control character without an
\* escape of its own.
THEOREM TextsReadBack == Spec => []TextReadsBack
<1>1. ASSUME Init
      PROVE  PrintedTexts
  BY <1>1 DEF Init, PrintedTexts
<1>2. ASSUME PrintedTexts, EventDataTypeOK, [Next]_vars
      PROVE  PrintedTexts'
  <2>1. CASE printed' = printed
    BY <1>2, <2>1 DEF PrintedTexts
  <2>2. CASE Flush
    <3>1. logged_events_ \in Seq(Events)
      BY <1>2 DEF EventDataTypeOK
    <3>2. ASSUME NEW p \in printed'
          PROVE  p.of.text \in Seq(Chars)
      <4>1. CASE p \in printed
        BY <1>2, <4>1 DEF PrintedTexts
      <4>2. CASE p \notin printed
        <5>1. PICK i \in 1..Len(logged_events_) : p = AppendAsJSON(memory', logged_events_[i])
          BY <2>2, <4>2 DEF Flush
        <5>2. p.of = logged_events_[i].passed
          BY <5>1 DEF AppendAsJSON
        <5>3. logged_events_[i] \in Events
          BY <3>1, ElementOfSeq
        <5> QED BY <5>2, <5>3 DEF Events
      <4> QED BY <4>1, <4>2
    <3> QED BY <3>2 DEF PrintedTexts
  <2>3. Flush \/ printed' = printed
    BY <1>2 DEF Next, Record, Log, Drop, AddThreadName, EraseBegin, SetProcessID, Reuse, vars, logVars
  <2> QED BY <2>1, <2>2, <2>3
<1>3. ASSUME PrintedAsPassed, PrintedTexts
      PROVE  TextReadsBack
  <2> SUFFICES ASSUME NEW p \in printed, NEW i \in 1..Len(p.args),
                      p.of.kind = "text", "control" \notin ToSet(p.of.text)
               PROVE  ReadsAs(p.args[i].value.text, p.of.text)
    BY DEF TextReadsBack
  <2>1. p.args[i] = [name |-> p.of.arg_name[i], value |-> FormatValue(p.of.kind, p.of.text)]
    BY <1>3 DEF PrintedAsPassed
  <2>2. p.args[i].value.text = jstring(p.of.text)
    BY <2>1 DEF FormatValue
  <2>3. p.of.text \in Seq(Chars)
    BY <1>3 DEF PrintedTexts
  <2>4. ReadsAs(jstring(p.of.text), p.of.text)
    BY <2>3, JstringReadsBack
  <2> QED BY <2>2, <2>4
<1> QED BY <1>1, <1>2, <1>3, TypeCorrect, PrintsWhatWasPassed, PTL DEF Spec

-----------------------------------------------------------------------------
(* Ids of pointers                                                         *)

\* Mangling with one hash keeps ids apart, and two hashes keep one id apart.
LEMMA XorCancels ==
  ASSUME NEW a, NEW b, NEW c
  PROVE  /\ Xor(a, c) = Xor(b, c) => a = b
         /\ Xor(c, a) = Xor(c, b) => a = b
<1>1. \A s, t, x : x \in Xor(s, t) <=> (x \in s /\ x \notin t) \/ (x \in t /\ x \notin s)
  BY DEF Xor, SymDiff
<1>2. ASSUME Xor(a, c) = Xor(b, c)
      PROVE  a = b
  <2>1. \A x : x \in a <=> x \in b
    BY <1>1, <1>2
  <2> QED BY <2>1
<1>3. ASSUME Xor(c, a) = Xor(c, b)
      PROVE  a = b
  <2>1. \A x : x \in a <=> x \in b
    BY <1>1, <1>3
  <2> QED BY <2>1
<1> QED BY <1>2, <1>3

\* The id of a pointer is mangled with the hash of the process at that time.
PointerId(id, of) == id = Xor(of.id.value, Hash[of.process])

IdInv ==
  /\ process_id_hash_ = Hash[process_id_]
  /\ \A e \in ToSet(logged_events_) :
       e.passed.id.kind = "pointer" => "HAS_ID" \in e.flags /\ PointerId(e.trace_id, e.passed)
  /\ \A p \in printed : p.of.id.kind = "pointer" =>
       /\ p.of.id \in IdArguments /\ p.of.process \in Processes
       /\ \E id : p.id = <<id>> /\ PointerId(id, p.of)

\* Within a process, pointers and their ids agree; one pointer has different
\* ids in two processes, in every instance with an injective hash.
THEOREM PointersApart == Spec => []PointerIdsApart
<1>1. ASSUME Init
      PROVE  IdInv
  <2>1. ToSet(<<>>) = {}
    BY DEF ToSet
  <2> QED BY <1>1, <2>1 DEF Init, IdInv
<1>2. ASSUME IdInv, EventDataTypeOK, [Next]_vars
      PROVE  IdInv'
  <2> USE <1>2
  <2>1. logged_events_ \in Seq(Events)
    BY DEF EventDataTypeOK
  <2>2. ASSUME UNCHANGED <<process_id_, process_id_hash_, printed>>,
               \A e \in ToSet(logged_events_') : e \in ToSet(logged_events_) \/
                 (e.passed.id.kind = "pointer" =>
                    "HAS_ID" \in e.flags /\ PointerId(e.trace_id, e.passed))
        PROVE  IdInv'
    BY <2>2 DEF IdInv
  <2>3. ASSUME NEW c \in Calls, Record(c)
        PROVE  IdInv'
    <3>1. PICK storage \in Unallocated \cup {NullBlock} : Log(Event(c, storage), Copies(c), Size(c))
      BY <2>3 DEF Record
    <3> DEFINE e == Event(c, storage)
    <3>2. e \in Events
      BY EventType DEF Unallocated
    <3>3. ToSet(logged_events_') = ToSet(logged_events_) \cup {e}
      BY <2>1, <3>1, <3>2, Appended DEF Log
    <3>4. /\ e.flags = Flags(c.id) /\ e.passed.id = c.id /\ e.passed.process = process_id_
          /\ e.trace_id = Mangled(IdValue(c.id, counter), Flags(c.id), process_id_hash_)
      BY DEF Event, Passed
    <3> HIDE DEF e
    <3>5. ASSUME c.id.kind = "pointer"
          PROVE  "HAS_ID" \in e.flags /\ PointerId(e.trace_id, e.passed)
      <4>1. "HAS_ID" \in Flags(c.id) /\ "MANGLE_ID" \in Flags(c.id)
        BY <3>5 DEF Flags
      <4>2. Mangled(IdValue(c.id, counter), Flags(c.id), process_id_hash_)
              = Xor(c.id.value, Hash[process_id_])
        BY <3>5, <4>1 DEF Mangled, IdValue, IdInv
      <4> QED BY <3>4, <4>1, <4>2 DEF PointerId
    <3>6. UNCHANGED <<process_id_, process_id_hash_, printed>>
      BY <3>1 DEF Log, processVars
    <3> QED BY <2>2, <3>3, <3>4, <3>5, <3>6
  <2>4. ASSUME AddThreadName
        PROVE  IdInv'
    <3>1. PICK storage \in Unallocated :
            Log(ThreadNameEvent(storage), Write(Zeros(METADATA_SZ), 0, ThreadName), METADATA_SZ)
      BY <2>4 DEF AddThreadName
    <3> DEFINE e == ThreadNameEvent(storage)
    <3>2. e \in Events
      BY ThreadNameEventType DEF Unallocated
    <3>3. ToSet(logged_events_') = ToSet(logged_events_) \cup {e}
      BY <2>1, <3>1, <3>2, Appended DEF Log
    <3>4. e.passed.id.kind = "none"
      BY DEF ThreadNameEvent
    <3>5. UNCHANGED <<process_id_, process_id_hash_, printed>>
      BY <3>1 DEF Log, processVars
    <3> HIDE DEF e
    <3> QED BY <2>2, <3>3, <3>4, <3>5
  <2>5. ASSUME NEW i \in 1..Len(logged_events_), EraseBegin(i)
        PROVE  IdInv'
    <3>1. ToSet(logged_events_') \subseteq ToSet(logged_events_)
      BY <2>1, <2>5, Removed DEF EraseBegin
    <3> QED BY <2>2, <2>5, <3>1 DEF EraseBegin, processVars
  <2>6. ASSUME Flush
        PROVE  IdInv'
    <3>1. ToSet(logged_events_') = {}
      BY <2>6 DEF Flush, ToSet
    <3>2. ASSUME NEW i \in 1..Len(logged_events_),
                 logged_events_[i].passed.id.kind = "pointer"
          PROVE  LET p == AppendAsJSON(memory', logged_events_[i])
                 IN  /\ p.of = logged_events_[i].passed
                     /\ p.of.id \in IdArguments /\ p.of.process \in Processes
                     /\ \E id : p.id = <<id>> /\ PointerId(id, p.of)
      <4> DEFINE e == logged_events_[i]
      <4>1. e \in ToSet(logged_events_) /\ e \in Events
        BY <2>1, ToSetElements, ElementOfSeq
      <4>2. "HAS_ID" \in e.flags /\ PointerId(e.trace_id, e.passed)
        BY <3>2, <4>1 DEF IdInv
      <4>3. e.passed.id \in IdArguments /\ e.passed.process \in Processes
        BY <4>1 DEF Events
      <4> HIDE DEF e
      <4>4. /\ AppendAsJSON(memory', e).of = e.passed
            /\ AppendAsJSON(memory', e).id = <<e.trace_id>>
        BY <4>2 DEF AppendAsJSON
      <4> QED BY <4>2, <4>3, <4>4 DEF e
    <3>3. ASSUME NEW p \in printed', p.of.id.kind = "pointer"
          PROVE  /\ p.of.id \in IdArguments /\ p.of.process \in Processes
                 /\ \E id : p.id = <<id>> /\ PointerId(id, p.of)
      <4>1. CASE p \in printed
        BY <3>3, <4>1 DEF IdInv
      <4>2. CASE p \notin printed
        <5>1. PICK i \in 1..Len(logged_events_) : p = AppendAsJSON(memory', logged_events_[i])
          BY <2>6, <4>2 DEF Flush
        <5>2. p.of = logged_events_[i].passed
          BY <5>1 DEF AppendAsJSON
        <5> QED BY <3>2, <3>3, <5>1, <5>2
      <4> QED BY <4>1, <4>2
    <3>4. process_id_' = process_id_ /\ process_id_hash_' = process_id_hash_
      BY <2>6 DEF Flush, processVars
    <3> QED BY <3>1, <3>3, <3>4 DEF IdInv
  <2>7. ASSUME NEW p \in Processes, SetProcessID(p)
        PROVE  IdInv'
    BY <2>7 DEF SetProcessID, NewHash, logVars, IdInv
  <2>8. ASSUME UNCHANGED logVars, UNCHANGED processVars
        PROVE  IdInv'
    BY <2>8 DEF logVars, processVars, IdInv
  <2>9. ASSUME NEW b \in Buffers, NEW t \in Texts, Reuse(b, t)
        PROVE  IdInv'
    BY <2>2, <2>9 DEF Reuse, processVars
  <2> QED BY <2>3, <2>4, <2>5, <2>6, <2>7, <2>8, <2>9 DEF Next, Drop, vars
<1>3. ASSUME IdInv
      PROVE  PointerIdsApart
  <2> SUFFICES ASSUME NEW p \in {r \in printed : r.of.id.kind = "pointer"},
                      NEW q \in {r \in printed : r.of.id.kind = "pointer"}
               PROVE  /\ p.of.process = q.of.process => (p.id = q.id <=> p.of.id = q.of.id)
                      /\ p.of.process # q.of.process /\ p.of.id = q.of.id => p.id # q.id
    BY DEF PointerIdsApart
  <2>1. PICK i : p.id = <<i>> /\ i = Xor(p.of.id.value, Hash[p.of.process])
    BY <1>3 DEF IdInv, PointerId
  <2>2. PICK j : q.id = <<j>> /\ j = Xor(q.of.id.value, Hash[q.of.process])
    BY <1>3 DEF IdInv, PointerId
  <2>3. p.id = q.id <=> i = j
    BY <2>1, <2>2
  <2>4. /\ p.of.id \in IdArguments /\ q.of.id \in IdArguments
        /\ p.of.process \in Processes /\ q.of.process \in Processes
    BY <1>3 DEF IdInv
  <2>5. p.of.id.value = q.of.id.value <=> p.of.id = q.of.id
    <3>1. p.of.id.kind = "pointer" /\ q.of.id.kind = "pointer"
      OBVIOUS
    <3> QED BY <2>4, <3>1 DEF IdArguments
  <2>6. ASSUME p.of.process = q.of.process
        PROVE  p.id = q.id <=> p.of.id = q.of.id
    BY <2>1, <2>2, <2>3, <2>5, <2>6, XorCancels
  <2>7. ASSUME p.of.process # q.of.process, p.of.id = q.of.id
        PROVE  p.id # q.id
    <3>1. Hash[p.of.process] # Hash[q.of.process]
      BY <2>4, <2>7, EventDataAssumption
    <3> QED BY <2>1, <2>2, <2>3, <2>5, <2>7, <3>1, XorCancels
  <2> QED BY <2>6, <2>7
<1> QED BY <1>1, <1>2, <1>3, TypeCorrect, PTL DEF Spec

-----------------------------------------------------------------------------
(* Ids of next_global                                                      *)

\* f holds the powers of two up to the n-th.
Doubles(f, n) == f[0] = 1 /\ \A k \in 1..n : f[k] = 2 * f[k - 1]

\* There are such powers, however many are asked for.
LEMMA DoublesExist ==
  ASSUME NEW n \in Nat
  PROVE  \E f \in [0..n -> Nat \ {0}] : Doubles(f, n)
<1> DEFINE Bad == {k \in Nat : ~\E f \in [0..k -> Nat \ {0}] : Doubles(f, k)}
<1> SUFFICES ASSUME Bad # {}
             PROVE  FALSE
  OBVIOUS
<1>1. PICK k \in Bad : \A j \in Bad : k <= j
  <2>1. Bad \subseteq Nat
    OBVIOUS
  <2> HIDE DEF Bad
  <2> QED BY <2>1, NatMin
<1>2. CASE k = 0
  <2> DEFINE f == [i \in 0..0 |-> 1]
  <2>1. f \in [0..k -> Nat \ {0}] /\ Doubles(f, k)
    BY <1>2 DEF Doubles
  <2> QED BY <1>1, <2>1
<1>3. CASE k # 0
  <2>1. k \in Nat /\ k - 1 \in Nat /\ ~(k <= k - 1)
    BY <1>1, <1>3
  <2>2. PICK f \in [0..(k - 1) -> Nat \ {0}] : Doubles(f, k - 1)
    BY <1>1, <2>1
  <2> DEFINE g == [i \in 0..k |-> IF i = k THEN 2 * f[k - 1] ELSE f[i]]
  <2>3. k - 1 \in 0..(k - 1) /\ \A i \in 0..k : i # k => i \in 0..(k - 1)
    BY <2>1
  <2>4. g \in [0..k -> Nat \ {0}]
    BY <2>3
  <2>5. g[0] = 1
    BY <1>3, <2>1, <2>2 DEF Doubles
  <2>6. ASSUME NEW i \in 1..k
        PROVE  g[i] = 2 * g[i - 1]
    <3>1. i \in 0..k /\ i - 1 \in 0..k /\ i - 1 # k
      BY <2>1
    <3>2. CASE i = k
      BY <3>1, <3>2
    <3>3. CASE i # k
      <4>1. i \in 1..(k - 1)
        BY <2>1, <3>3
      <4> QED BY <2>2, <3>1, <3>3, <4>1 DEF Doubles
    <3> QED BY <3>2, <3>3
  <2>7. Doubles(g, k)
    BY <2>5, <2>6 DEF Doubles
  <2> HIDE DEF g
  <2> QED BY <1>1, <2>4, <2>7
<1> QED BY <1>2, <1>3

\* PowerOf2 gives the powers of two.
LEMMA Powers ==
  /\ PowerOf2[0] = 1
  /\ \A k \in 1..Width : PowerOf2[k] = 2 * PowerOf2[k - 1]
  /\ \A k \in 0..Width : PowerOf2[k] \in Nat \ {0}
<1> DEFINE Body(F) == [i \in 0..Width |-> IF i = 0 THEN 1 ELSE 2 * F[i - 1]]
<1>1. Width \in Nat
  BY TraceIDAssumption
<1>2. PICK f \in [0..Width -> Nat \ {0}] : Doubles(f, Width)
  BY <1>1, DoublesExist
<1>3. f = Body(f)
  <2>1. \A i \in 0..Width : f[i] = IF i = 0 THEN 1 ELSE 2 * f[i - 1]
    BY <1>1, <1>2 DEF Doubles
  <2> QED BY <2>1
<1>4. PowerOf2 = CHOOSE F : F = Body(F)
  BY DEF PowerOf2
<1>5. PowerOf2 = Body(PowerOf2)
  <2> HIDE DEF Body
  <2> QED BY <1>3, <1>4
<1> DEFINE P == PowerOf2
<1> HIDE DEF P
<1>6. \A i \in 0..Width : P[i] = IF i = 0 THEN 1 ELSE 2 * P[i - 1]
  BY <1>5 DEF P
<1>7. P[0] = 1 /\ \A k \in 1..Width : P[k] = 2 * P[k - 1]
  <2>1. 0 \in 0..Width /\ \A k \in 1..Width : k \in 0..Width /\ k # 0
    BY <1>1
  <2> QED BY <1>6, <2>1
<1> DEFINE Bad == {k \in 0..Width : P[k] \notin Nat \ {0}}
<1>8. Bad = {}
  <2> SUFFICES ASSUME Bad # {}
               PROVE  FALSE
    OBVIOUS
  <2>1. PICK k \in Bad : \A j \in Bad : k <= j
    <3>1. Bad \subseteq Nat
      BY <1>1
    <3> HIDE DEF Bad
    <3> QED BY <3>1, NatMin
  <2>2. k # 0
    BY <1>7, <2>1
  <2>3. k \in 1..Width /\ k - 1 \in 0..Width /\ ~(k <= k - 1)
    BY <1>1, <2>1, <2>2
  <2>4. P[k - 1] \in Nat \ {0} /\ P[k] = 2 * P[k - 1]
    BY <1>7, <2>1, <2>3
  <2> QED BY <2>1, <2>4
<1> QED BY <1>7, <1>8 DEF P

\* The numbers a counter of Width bits goes through before it is 0 again.
Round == PowerOf2[Width]

\* Dividing by a power of two and once more by two, and what the halves and
\* the last bits tell of a number.
LEMMA Halves ==
  ASSUME NEW a \in Nat, NEW p \in Nat \ {0}
  PROVE  a \div (2 * p) = (a \div p) \div 2 /\ a \div p \in Nat
OBVIOUS

LEMMA HalfAndBit ==
  ASSUME NEW a \in Nat, NEW b \in Nat, a \div 2 = b \div 2, a % 2 = 1 <=> b % 2 = 1
  PROVE  a = b
OBVIOUS

\* Two numbers below 2^Width with the same bits are the same.
LEMMA BitsTell ==
  ASSUME NEW a \in 0..(Round - 1), NEW b \in 0..(Round - 1), BitsOf(a) = BitsOf(b)
  PROVE  a = b
<1> DEFINE P == PowerOf2
           same(k) == a \div P[k] = b \div P[k]
           Bad == {k \in 0..Width : ~same(Width - k)}
<1> HIDE DEF P
<1>1. Width \in Nat
  BY TraceIDAssumption
<1>2. /\ P[0] = 1 /\ \A k \in 1..Width : P[k] = 2 * P[k - 1]
      /\ \A k \in 0..Width : P[k] \in Nat \ {0}
  BY Powers DEF P
<1>3. a \in Nat /\ b \in Nat /\ a < P[Width] /\ b < P[Width]
  BY <1>1, <1>2 DEF Round, P
<1>4. same(Width - 0)
  <2>1. P[Width] \in Nat \ {0}
    BY <1>1, <1>2
  <2>2. a \div P[Width] = 0 /\ b \div P[Width] = 0
    BY <1>3, <2>1
  <2>3. Width - 0 = Width
    BY <1>1
  <2> QED BY <2>2, <2>3
<1>5. \A i \in Bits : (a \div P[i]) % 2 = 1 <=> (b \div P[i]) % 2 = 1
  BY DEF BitsOf, P
<1>6. ASSUME NEW k \in 1..Width, same(k)
      PROVE  same(k - 1)
  <2> DEFINE p == P[k - 1]
  <2>1. p \in Nat \ {0} /\ P[k] = 2 * p /\ k - 1 \in Bits
    BY <1>1, <1>2 DEF Bits
  <2>2. (a \div p) % 2 = 1 <=> (b \div p) % 2 = 1
    BY <1>5, <2>1
  <2> HIDE DEF p
  <2>3. a \div (2 * p) = (a \div p) \div 2 /\ a \div p \in Nat
    BY <1>3, <2>1, Halves
  <2>4. b \div (2 * p) = (b \div p) \div 2 /\ b \div p \in Nat
    BY <1>3, <2>1, Halves
  <2>5. a \div (2 * p) = b \div (2 * p)
    BY <1>6, <2>1
  <2>6. (a \div p) \div 2 = (b \div p) \div 2
    BY <2>3, <2>4, <2>5
  <2>7. a \div p = b \div p
    BY <2>2, <2>3, <2>4, <2>6, HalfAndBit
  <2> QED BY <2>7 DEF p
<1> HIDE DEF same
<1>7. Bad = {}
  <2> SUFFICES ASSUME Bad # {}
               PROVE  FALSE
    OBVIOUS
  <2>1. PICK k \in Bad : \A j \in Bad : k <= j
    <3>1. Bad \subseteq Nat
      BY <1>1
    <3> HIDE DEF Bad
    <3> QED BY <3>1, NatMin
  <2>2. k # 0 /\ k \in 0..Width
    BY <1>4, <2>1
  <2>3. k - 1 \in 0..Width /\ ~(k <= k - 1) /\ Width - (k - 1) \in 1..Width
        /\ Width - (k - 1) - 1 = Width - k
    BY <1>1, <2>2
  <2>4. same(Width - (k - 1))
    BY <2>1, <2>3
  <2>5. same(Width - (k - 1) - 1)
    BY <1>6, <2>3, <2>4
  <2>6. same(Width - k)
    BY <2>3, <2>5
  <2> QED BY <2>1, <2>6
<1>8. same(0)
  <2>1. Width \in 0..Width /\ Width - Width = 0
    BY <1>1
  <2> QED BY <1>7, <2>1
<1> QED BY <1>2, <1>3, <1>8 DEF same

\* The counter is at c when next_global has been called n times.
Turned(c, n) == c \in 0..(Round - 1) /\ \E m \in Nat : n = c + m * Round

\* An id that next_global gave when it had been called serial times.
Numbered(id, serial) == \E c : Turned(c, serial) /\ id = next_global(c)

\* The counter tells how often next_global was called up to the rounds made.
GlobalInv ==
  /\ ids \in Nat
  /\ Turned(counter, ids)
  /\ \A e \in ToSet(logged_events_) : e.passed.id.kind = "global" =>
       "HAS_ID" \in e.flags /\ Numbered(e.trace_id, e.passed.serial)
  /\ \A p \in printed : p.of.id.kind = "global" =>
       \E id : p.id = <<id>> /\ Numbered(id, p.of.serial)

\* There is at least one number in a round.
LEMMA RoundType == Round \in Nat \ {0}
<1>1. Width \in 0..Width
  BY TraceIDAssumption
<1> QED BY <1>1, Powers DEF Round

\* The counter goes on by one, from its last number back to 0.
LEMMA TurnsOn ==
  ASSUME NEW c, NEW n \in Nat, Turned(c, n)
  PROVE  Turned(IF c = Round - 1 THEN 0 ELSE c + 1, n + 1)
<1> DEFINE r == Round
<1>1. r \in Nat \ {0}
  BY RoundType
<1> HIDE DEF r
<1>2. PICK m \in Nat : n = c + m * r
  BY DEF Turned, r
<1>3. c \in 0..(r - 1) /\ m * r \in Nat /\ (m + 1) * r = m * r + r /\ m + 1 \in Nat
  BY <1>1 DEF Turned, r
<1>4. CASE c = r - 1
  <2>1. n + 1 = 0 + (m + 1) * r /\ 0 \in 0..(r - 1)
    BY <1>1, <1>2, <1>3, <1>4
  <2>2. Turned(0, n + 1)
    BY <1>3, <2>1 DEF Turned, r
  <2> QED BY <1>4, <2>2 DEF r
<1>5. CASE c # r - 1
  <2> DEFINE x == m * r
  <2>1. x \in Nat /\ n = c + x
    BY <1>2, <1>3
  <2> HIDE DEF x
  <2>2. n + 1 = c + 1 + x /\ c + 1 \in 0..(r - 1)
    BY <1>1, <1>3, <1>5, <2>1
  <2>3. Turned(c + 1, n + 1)
    BY <2>2 DEF Turned, r, x
  <2> QED BY <1>5, <2>3 DEF r
<1> QED BY <1>4, <1>5

\* An id drawn is that of its number, and the counter goes on to the next.
LEMMA Draw ==
  ASSUME GlobalInv, NEW c \in Calls, EvaluateId(c.id)
  PROVE  /\ ids' \in Nat
         /\ Turned(counter', ids')
         /\ c.id.kind = "global" => Numbered(IdValue(c.id, counter), ids)
<1>1. ids \in Nat /\ Turned(counter, ids)
  BY DEF GlobalInv
<1>2. CASE c.id.kind # "global"
  BY <1>1, <1>2 DEF EvaluateId
<1>3. CASE c.id.kind = "global"
  <2>1. counter' = IF counter = Round - 1 THEN 0 ELSE counter + 1
    BY <1>3 DEF EvaluateId, Increment, Round
  <2>2. ids' = ids + 1
    BY <1>3 DEF EvaluateId
  <2>3. Numbered(IdValue(c.id, counter), ids)
    BY <1>1, <1>3 DEF Numbered, IdValue
  <2>4. Turned(counter', ids')
    BY <1>1, <2>1, <2>2, TurnsOn
  <2> QED BY <1>1, <2>2, <2>3, <2>4
<1> QED BY <1>2, <1>3

\* next_global gives no id twice within a round of its counter, for every
\* width and every seed.
THEOREM GlobalIdsApart == Spec => []GlobalIdsDistinct
<1>1. ASSUME Init
      PROVE  GlobalInv
  <2>1. ToSet(<<>>) = {}
    BY DEF ToSet
  <2>2. Turned(0, 0)
    <3>1. 0 \in 0..(Round - 1) /\ 0 = 0 + 0 * Round
      BY RoundType
    <3> QED BY <3>1 DEF Turned
  <2> QED BY <1>1, <2>1, <2>2 DEF Init, GlobalInv
<1>2. ASSUME GlobalInv, EventDataTypeOK, [Next]_vars
      PROVE  GlobalInv'
  <2> USE <1>2
  <2>1. logged_events_ \in Seq(Events)
    BY DEF EventDataTypeOK
  <2>2. ASSUME UNCHANGED <<counter, ids, printed>>,
               \A e \in ToSet(logged_events_') : e \in ToSet(logged_events_) \/
                 (e.passed.id.kind = "global" =>
                    "HAS_ID" \in e.flags /\ Numbered(e.trace_id, e.passed.serial))
        PROVE  GlobalInv'
    BY <2>2 DEF GlobalInv
  <2>3. ASSUME NEW c \in Calls, Record(c)
        PROVE  GlobalInv'
    <3>1. PICK storage \in Unallocated \cup {NullBlock} : Log(Event(c, storage), Copies(c), Size(c))
      BY <2>3 DEF Record
    <3> DEFINE e == Event(c, storage)
    <3>2. e \in Events
      BY EventType DEF Unallocated
    <3>3. ToSet(logged_events_') = ToSet(logged_events_) \cup {e}
      BY <2>1, <3>1, <3>2, Appended DEF Log
    <3>4. /\ e.flags = Flags(c.id) /\ e.passed.id = c.id
          /\ e.passed.serial = IF c.id.kind = "global" THEN ids ELSE 0
          /\ e.trace_id = Mangled(IdValue(c.id, counter), Flags(c.id), process_id_hash_)
      BY DEF Event, Passed
    <3> HIDE DEF e
    <3>5. EvaluateId(c.id)
      BY <2>3 DEF Record
    <3>6. /\ ids' \in Nat
          /\ Turned(counter', ids')
          /\ c.id.kind = "global" => Numbered(IdValue(c.id, counter), ids)
      BY <3>5, Draw
    <3>7. ASSUME c.id.kind = "global"
          PROVE  "HAS_ID" \in e.flags /\ Numbered(e.trace_id, e.passed.serial)
      <4>1. "HAS_ID" \in Flags(c.id) /\ "MANGLE_ID" \notin Flags(c.id)
        BY <3>7 DEF Flags
      <4>2. e.trace_id = IdValue(c.id, counter) /\ e.passed.serial = ids
        BY <3>4, <3>7, <4>1 DEF Mangled
      <4> QED BY <3>4, <3>6, <3>7, <4>1, <4>2
    <3>8. printed' = printed
      BY <3>1 DEF Log
    <3> HIDE DEF GlobalInv
    <3>9. /\ \A d \in ToSet(logged_events_) : d.passed.id.kind = "global" =>
               "HAS_ID" \in d.flags /\ Numbered(d.trace_id, d.passed.serial)
          /\ \A p \in printed : p.of.id.kind = "global" =>
               \E id : p.id = <<id>> /\ Numbered(id, p.of.serial)
      BY DEF GlobalInv
    <3> QED BY <3>3, <3>4, <3>6, <3>7, <3>8, <3>9 DEF GlobalInv
  <2>4. ASSUME NEW c \in Calls, Drop(c)
        PROVE  GlobalInv'
    <3>1. /\ ids' \in Nat
          /\ Turned(counter', ids')
      BY <2>4, Draw DEF Drop
    <3>2. logged_events_' = logged_events_ /\ printed' = printed
      BY <2>4 DEF Drop, logVars
    <3> QED BY <3>1, <3>2 DEF GlobalInv
  <2>5. ASSUME AddThreadName
        PROVE  GlobalInv'
    <3>1. PICK storage \in Unallocated :
            Log(ThreadNameEvent(storage), Write(Zeros(METADATA_SZ), 0, ThreadName), METADATA_SZ)
      BY <2>5 DEF AddThreadName
    <3> DEFINE e == ThreadNameEvent(storage)
    <3>2. e \in Events
      BY ThreadNameEventType DEF Unallocated
    <3>3. ToSet(logged_events_') = ToSet(logged_events_) \cup {e}
      BY <2>1, <3>1, <3>2, Appended DEF Log
    <3>4. e.passed.id.kind = "none"
      BY DEF ThreadNameEvent
    <3>5. UNCHANGED <<counter, ids, printed>>
      BY <2>5, <3>1 DEF AddThreadName, Log
    <3> HIDE DEF e
    <3> QED BY <2>2, <3>3, <3>4, <3>5
  <2>6. ASSUME NEW i \in 1..Len(logged_events_), EraseBegin(i)
        PROVE  GlobalInv'
    <3>1. ToSet(logged_events_') \subseteq ToSet(logged_events_)
      BY <2>1, <2>6, Removed DEF EraseBegin
    <3> QED BY <2>2, <2>6, <3>1 DEF EraseBegin
  <2>7. ASSUME Flush
        PROVE  GlobalInv'
    <3>1. ToSet(logged_events_') = {}
      BY <2>7 DEF Flush, ToSet
    <3>2. ASSUME NEW p \in printed', p.of.id.kind = "global"
          PROVE  \E id : p.id = <<id>> /\ Numbered(id, p.of.serial)
      <4>1. CASE p \in printed
        BY <3>2, <4>1 DEF GlobalInv
      <4>2. CASE p \notin printed
        <5>1. PICK i \in 1..Len(logged_events_) : p = AppendAsJSON(memory', logged_events_[i])
          BY <2>7, <4>2 DEF Flush
        <5> DEFINE e == logged_events_[i]
        <5>2. e \in ToSet(logged_events_)
          BY <2>1, ToSetElements
        <5>3. p.of = e.passed
          BY <5>1 DEF AppendAsJSON
        <5> HIDE DEF e
        <5>4. "HAS_ID" \in e.flags /\ Numbered(e.trace_id, e.passed.serial)
          BY <3>2, <5>2, <5>3 DEF GlobalInv
        <5>5. p.id = <<e.trace_id>>
          BY <5>1, <5>4 DEF AppendAsJSON, e
        <5> QED BY <5>3, <5>4, <5>5
      <4> QED BY <4>1, <4>2
    <3>3. counter' = counter /\ ids' = ids
      BY <2>7 DEF Flush
    <3> QED BY <3>1, <3>2, <3>3 DEF GlobalInv
  <2>8. ASSUME NEW p \in Processes, SetProcessID(p)
        PROVE  GlobalInv'
    BY <2>2, <2>8 DEF SetProcessID, logVars
  <2>9. ASSUME NEW b \in Buffers, NEW t \in Texts, Reuse(b, t)
        PROVE  GlobalInv'
    BY <2>2, <2>9 DEF Reuse
  <2>10. CASE UNCHANGED vars
    BY <2>2, <2>10 DEF vars, logVars
  <2> QED BY <2>3, <2>4, <2>5, <2>6, <2>7, <2>8, <2>9, <2>10 DEF Next
<1>4. ASSUME NEW c, NEW k, NEW l, Turned(c, k), Turned(c, l), k < l, l - k < Round
      PROVE  FALSE
  <2> DEFINE r == Round
  <2>1. r \in Nat \ {0} /\ c \in Nat
    BY <1>4, RoundType DEF Turned
  <2>2. k < l /\ l - k < r
    BY <1>4
  <2> HIDE DEF r
  <2>3. PICK m \in Nat : k = c + m * r
    BY <1>4 DEF Turned, r
  <2>4. PICK n \in Nat : l = c + n * r
    BY <1>4 DEF Turned, r
  <2> DEFINE x == m * r
             y == n * r
  <2>5. x \in Nat /\ y \in Nat /\ k = c + x /\ l = c + y
    BY <2>1, <2>3, <2>4
  <2> HIDE DEF x, y
  <2>6. x < y /\ y < x + r
    BY <2>1, <2>2, <2>5
  <2>7. m * r < n * r /\ n * r < m * r + r
    BY <2>6 DEF x, y
  <2>8. m < n
    BY <2>1, <2>7
  <2>9. (m + 1) * r <= n * r /\ (m + 1) * r = m * r + r
    BY <2>1, <2>8
  <2>10. m * r \in Nat /\ n * r \in Nat
    BY <2>1
  <2> QED BY <2>1, <2>7, <2>9, <2>10
<1>3. ASSUME GlobalInv
      PROVE  GlobalIdsDistinct
  <2> SUFFICES ASSUME NEW p \in printed, NEW q \in printed,
                      p.of.id.kind = "global", q.of.id.kind = "global",
                      p.of.serial < q.of.serial, q.of.serial - p.of.serial < Round,
                      p.id = q.id
               PROVE  FALSE
    BY DEF GlobalIdsDistinct, Round
  <2>1. PICK i, j : /\ p.id = <<i>> /\ Numbered(i, p.of.serial)
                    /\ q.id = <<j>> /\ Numbered(j, q.of.serial)
    BY <1>3 DEF GlobalInv
  <2>2. i = j
    <3>1. p.id = <<i>> /\ q.id = <<j>>
      BY <2>1
    <3>2. <<i>> = <<j>>
      BY <3>1
    <3> QED BY <3>2
  <2>3. PICK c : Turned(c, p.of.serial) /\ i = next_global(c)
    BY <2>1 DEF Numbered
  <2>4. PICK d : Turned(d, q.of.serial) /\ j = next_global(d)
    BY <2>1 DEF Numbered
  <2>5. BitsOf(c) = BitsOf(d)
    BY <2>2, <2>3, <2>4, XorCancels DEF next_global
  <2>6. c \in 0..(Round - 1) /\ d \in 0..(Round - 1)
    BY <2>3, <2>4 DEF Turned
  <2>7. c = d
    BY <2>5, <2>6, BitsTell
  <2> QED BY <1>4, <2>3, <2>4, <2>7
<1> QED BY <1>1, <1>2, <1>3, TypeCorrect, PTL DEF Spec

=============================================================================
