------------------------------ MODULE WireFormat ------------------------------
(***************************************************************************)
(* The protobuf wire format as the generated code in types/*.pb.go reads   *)
(* and writes it.  Every Unmarshal there is the same loop with another     *)
(* switch over field numbers, and every MarshalToSizedBuffer and Size the  *)
(* same calls on other fields; here the loop is written once and a message *)
(* type is a table of its fields (TxCodec, QueryCodec, GenesisCodec).      *)
(*                                                                         *)
(* Bytes are numbers below 256.  Machine integers keep their wrap-around   *)
(* at a smaller width: WordBits for the code's 64 bits and HalfBits for    *)
(* its 32, so that lengths can turn negative and field numbers can alias   *)
(* in strings of a few bytes.  Offsets count from 0, as in the code.       *)
(*                                                                         *)
(* A message is a record of its fields.  A pointer to a message is a       *)
(* sequence of at most one message; nil and an empty byte slice are the    *)
(* same, as they are to every caller.                                      *)
(***************************************************************************)
EXTENDS Naturals, Integers, SequencesExt

CONSTANTS WordBits, HalfBits

ASSUME WidthAssumption ==
    WordBits \in Nat /\ HalfBits \in Nat /\ 8 <= HalfBits /\ HalfBits + 3 < WordBits

(* 1 << n *)
TwoTo[n \in Nat] == IF n = 0 THEN 1 ELSE 2 * TwoTo[n - 1]

(* A machine integer read as two's complement. *)
Signed(v, bits) ==
    LET w == v % TwoTo[bits] IN IF w < TwoTo[bits - 1] THEN w ELSE w - TwoTo[bits]

(* The bytes of the longest varint. *)
MaxVarint == (WordBits + 6) \div 7

Fail(error)       == [ok |-> FALSE, error |-> error]
Read(value, next) == [ok |-> TRUE, value |-> value, next |-> next]

-----------------------------------------------------------------------------
(***************************************************************************)
(* Writing.  A field is written as a sequence of encoded entries: none     *)
(* when it is empty, one per element when it is repeated.                  *)
(***************************************************************************)

(* Of each element of a list, its entries or its size. *)
Each(list, F(_)) == [i \in DOMAIN list |-> F(list[i])]

(* A variant for the runs to refute: 128 is written in one byte. *)
VarintLate(v) ==
    LET encoded[n \in Nat] ==
            IF n <= 128 THEN <<n>> ELSE <<(n % 128) + 128>> \o encoded[n \div 128]
    IN  encoded[v]

(* encodeVarint: seven bits a byte, the least significant first. *)
Varint(v) ==
    LET encoded[n \in Nat] ==
            IF n < 128 THEN <<n>> ELSE <<(n % 128) + 128>> \o encoded[n \div 128]
    IN  encoded[v]

(* sov: the bytes that encodeVarint writes. *)
Sov(v) == Min({n \in 1..MaxVarint : v < TwoTo[7 * n]})

(* Wire type 2: the tag, the length, the content. *)
Delimited(num, content) == <<8 * num + 2>> \o Varint(Len(content)) \o content

(* A variant for the runs to refute: empty elements of a list are left out. *)
PutEachNonEmpty(num, list) ==
    FlattenSeq([i \in DOMAIN list |->
                   IF list[i] = <<>> THEN <<>> ELSE <<Delimited(num, list[i])>>])

PutEach(num, list) == [i \in DOMAIN list |-> Delimited(num, list[i])]

PutBytes(num, bytes)  == IF bytes = <<>> THEN <<>> ELSE <<Delimited(num, bytes)>>
PutUint(num, v)       == IF v = 0 THEN <<>> ELSE <<(<<8 * num>> \o Varint(v))>>
PutBool(num, v)       == IF v THEN <<(<<8 * num, 1>>)>> ELSE <<>>
PutPacked(num, list)  ==
    IF list = <<>> THEN <<>>
    ELSE <<Delimited(num, FlattenSeq([i \in DOMAIN list |-> Varint(list[i])]))>>
PutMessages(num, written) ==
    [i \in DOMAIN written |-> Delimited(num, FlattenSeq(written[i]))]

SumOf(list) ==
    LET sum[n \in 0..Len(list)] == IF n = 0 THEN 0 ELSE sum[n - 1] + list[n]
    IN  sum[Len(list)]

SizeDelimited(n)   == 1 + Sov(n) + n
SizeBytes(bytes)   == IF bytes = <<>> THEN 0 ELSE SizeDelimited(Len(bytes))
SizeEach(list)     == SumOf([i \in DOMAIN list |-> SizeDelimited(Len(list[i]))])
SizeUint(v)        == IF v = 0 THEN 0 ELSE 1 + Sov(v)
SizeBool(v)        == IF v THEN 2 ELSE 0
SizePacked(list)   ==
    IF list = <<>> THEN 0
    ELSE SizeDelimited(SumOf([i \in DOMAIN list |-> Sov(list[i])]))
SizeMessages(sizes) == SumOf([i \in DOMAIN sizes |-> SizeDelimited(sizes[i])])

(* Marshal: the entries are written backwards from the end of a buffer of  *)
(* `size` bytes, and as many bytes as were written are returned from its   *)
(* beginning.  A buffer that is too small is an index out of range.        *)
Marshal(entries, size) ==
    LET content == FlattenSeq(entries)
        unused  == size - Len(content)
    IN  IF unused < 0 THEN Fail("panic")
        ELSE Read(SubSeq([i \in 1..unused |-> 0] \o content, 1, Len(content)), size)

-----------------------------------------------------------------------------
(***************************************************************************)
(* Reading.                                                                *)
(***************************************************************************)

(* A step after another, unless that one returned an error. *)
Then(result, Step(_)) == IF result.ok THEN Step(result) ELSE result

VarintUpTo(bytes, at, last) ==
    LET shifted == [j \in 1..(last + 1) |-> (bytes[at + j] % 128) * TwoTo[7 * (j - 1)]]
    IN  Read(SumOf(shifted) % TwoTo[WordBits], at + last + 1)

(* The varint loop: it stops at the first byte below 128, at the end of    *)
(* the string, or when the shift leaves the word.                          *)
ReadVarint(bytes, at) ==
    LET ends == {k \in 0..(MaxVarint - 1) : at + k < Len(bytes) /\ bytes[at + k + 1] < 128}
    IN  IF ends # {} THEN VarintUpTo(bytes, at, Min(ends))
        ELSE Fail(IF at + MaxVarint <= Len(bytes) THEN "overflow" ELSE "eof")

(* A variant for the runs to refute: a negative length goes unnoticed. *)
AdvanceAnywhere(at, n) == Read(n, at + n)

(* An offset `n` further on, unless the sum leaves the signed range. *)
Advance(at, n) ==
    IF n < 0 \/ Signed(at + n, WordBits) < 0 THEN Fail("length") ELSE Read(n, at + n)

(* A variant for the runs to refute: what is missing at the end is not missed. *)
ReadLengthLoose(bytes, at) ==
    Then(ReadVarint(bytes, at), LAMBDA length :
    Then(Advance(length.next, Signed(length.value, WordBits)), LAMBDA behind :
        LET end == Min({behind.next, Len(bytes)})
        IN  Read(SubSeq(bytes, length.next + 1, end), end)))

(* A length and the offset behind what it announces, still in the string. *)
ReadLength(bytes, at) ==
    Then(ReadVarint(bytes, at), LAMBDA length :
    Then(Advance(length.next, Signed(length.value, WordBits)), LAMBDA behind :
        IF behind.next > Len(bytes) THEN Fail("eof")
        ELSE Read(SubSeq(bytes, length.next + 1, behind.next), behind.next)))

(* Where skip gets to after the value of one tag. *)
SkipValue(bytes, type, at) ==
    CASE type = 0      -> ReadVarint(bytes, at)
      [] type = 1      -> Advance(at, 8)
      [] type = 2      -> Then(ReadVarint(bytes, at), LAMBDA length :
                               Advance(length.next, Signed(length.value, WordBits)))
      [] type \in 3..4 -> Read(0, at)
      [] type = 5      -> Advance(at, 4)
      [] OTHER         -> Fail("wiretype")

(* A variant for the runs to refute: groups do not nest. *)
DepthAfterFlat(depth, type) == IF type = 3 THEN 1 ELSE IF type = 4 THEN 0 ELSE depth

DepthAfter(depth, type) ==
    IF type = 3 THEN depth + 1 ELSE IF type = 4 THEN depth - 1 ELSE depth

(* One turn of skip: the depth of groups and the offset behind one more tag *)
(* and its value.                                                           *)
SkipTag(bytes, at, depth) ==
    IF at >= Len(bytes) THEN Fail("eof")
    ELSE Then(ReadVarint(bytes, at), LAMBDA tag :
         IF tag.value % 8 = 4 /\ depth = 0 THEN Fail("group")
         ELSE Then(SkipValue(bytes, tag.value % 8, tag.next), LAMBDA past :
              Read(DepthAfter(depth, tag.value % 8), past.next)))

(* skip: the length of the entry that a string begins with, up to the end  *)
(* of the group if it opens one.  Each turn takes a byte or fails.         *)
Skip(bytes) ==
    LET after[n \in 0..Len(bytes)] ==
            IF n = 0 THEN SkipTag(bytes, 0, 0)
            ELSE Then(after[n - 1], LAMBDA past :
                 IF past.value = 0 THEN past ELSE SkipTag(bytes, past.next, past.value))
    IN  after[CHOOSE n \in 0..Len(bytes) : after[n].ok => after[n].value = 0]

(* The default branch of the switch: back to the tag, and over the entry. *)
SkipUnknown(bytes, at) ==
    Then(Skip(SubSeq(bytes, at + 1, Len(bytes))), LAMBDA skippy :
    Then(Advance(at, skippy.next), LAMBDA behind :
        IF behind.next > Len(bytes) THEN Fail("eof") ELSE behind))

-----------------------------------------------------------------------------
(***************************************************************************)
(* Tables of fields.                                                       *)
(***************************************************************************)

BytesField(num, name)        == [num |-> num, name |-> name, type |-> "bytes"]
BytesListField(num, name)    == [num |-> num, name |-> name, type |-> "bytesList"]
Uint64Field(num, name)       == [num |-> num, name |-> name, type |-> "uint64"]
Uint32Field(num, name)       == [num |-> num, name |-> name, type |-> "uint32"]
BoolField(num, name)         == [num |-> num, name |-> name, type |-> "bool"]
PackedField(num, name)       == [num |-> num, name |-> name, type |-> "packed"]
PointerField(num, name, table) ==
    [num |-> num, name |-> name, type |-> "pointer", table |-> table]
MessageListField(num, name, table) ==
    [num |-> num, name |-> name, type |-> "messageList", table |-> table]

Names(table) == {table[i].name : i \in DOMAIN table}
FieldNamed(table, name) == table[CHOOSE i \in DOMAIN table : table[i].name = name]

Unset(type) ==
    CASE type \in {"uint64", "uint32"} -> 0
      [] type = "bool"                 -> FALSE
      [] OTHER                         -> <<>>

EmptyMessage(table) == [name \in Names(table) |-> Unset(FieldNamed(table, name).type)]

-----------------------------------------------------------------------------
(***************************************************************************)
(* Unmarshal.  `onto` is the message so far: byte fields and numbers are   *)
(* replaced, lists grow, and a pointer that is set is decoded into again.  *)
(***************************************************************************)

(* The varints of a packed field, a byte or more each.  Their loop ends at *)
(* `post`, but the last of them may read up to the end of the string.      *)
ReadPacked(bytes, at, post, list) ==
    LET after[n \in 0..(post - at)] ==
            IF n = 0 THEN Read(list, at)
            ELSE Then(after[n - 1], LAMBDA read :
                 IF read.next >= post THEN read
                 ELSE Then(ReadVarint(bytes, read.next), LAMBDA v :
                      Read(Append(read.value, v.value), v.next)))
    IN  after[post - at]

(* The entry of a repeated number: packed, or one element on its own. *)
ReadNumbers(bytes, type, at, old) ==
    CASE type = 0 -> Then(ReadVarint(bytes, at), LAMBDA one :
                          Read(Append(old, one.value), one.next))
      [] type = 2 -> Then(ReadLength(bytes, at), LAMBDA packed :
                          ReadPacked(bytes, packed.next - Len(packed.value), packed.next, old))
      [] OTHER    -> Fail("wiretype")

(* A number of a field that is `type` wide. *)
Narrow(v, type) ==
    CASE type = "uint64" -> v
      [] type = "uint32" -> v % TwoTo[HalfBits]
      [] type = "bool"   -> v # 0

(* A field that is not a message: its new value and where it ends. *)
ReadPlain(field, old, bytes, type, at) ==
    IF field.type = "packed" THEN ReadNumbers(bytes, type, at, old)
    ELSE IF field.type \in {"uint64", "uint32", "bool"} THEN
        IF type # 0 THEN Fail("wiretype")
        ELSE Then(ReadVarint(bytes, at), LAMBDA number :
                  Read(Narrow(number.value, field.type), number.next))
    ELSE
        IF type # 2 THEN Fail("wiretype")
        ELSE Then(ReadLength(bytes, at), LAMBDA content :
             Read(IF field.type = "bytes" THEN content.value ELSE Append(old, content.value),
                  content.next))

(* One turn of the loop, from the offset of a tag; Value is the switch's    *)
(* case of one field.                                                       *)
ReadFieldBy(Value(_, _, _, _, _), table, bytes, at, onto) ==
    Then(ReadVarint(bytes, at), LAMBDA tag :
        LET number == Signed(tag.value \div 8, HalfBits)
            type   == tag.value % 8
            known  == {i \in DOMAIN table : table[i].num = number}
            field  == table[CHOOSE i \in known : TRUE]
        IN  IF type = 4 THEN Fail("group")
            ELSE IF number <= 0 THEN Fail("tag")
            ELSE IF known = {} THEN Then(SkipUnknown(bytes, at), LAMBDA behind :
                                         Read(onto, behind.next))
            ELSE Then(Value(field, onto[field.name], bytes, type, tag.next), LAMBDA read :
                      Read([onto EXCEPT ![field.name] = read.value], read.next)))

(* The loop, from the first offset to the end of the string; each turn      *)
(* takes a byte or fails.                                                   *)
UnmarshalBy(Turn(_, _, _, _), table, bytes, onto) ==
    LET after[n \in 0..Len(bytes)] ==
            IF n = 0 THEN Read(onto, 0)
            ELSE Then(after[n - 1], LAMBDA so_far :
                 IF so_far.next >= Len(bytes) THEN so_far
                 ELSE Turn(table, bytes, so_far.next, so_far.value))
    IN  after[CHOOSE n \in 0..Len(bytes) : after[n].ok => after[n].next >= Len(bytes)]

(* A message inside another one; it has no further one inside. *)
ReadPlainField(table, bytes, at, onto) == ReadFieldBy(ReadPlain, table, bytes, at, onto)
UnmarshalPlain(table, bytes, onto) == UnmarshalBy(ReadPlainField, table, bytes, onto)

(* A variant for the runs to refute: a message decoded into a set pointer *)
(* starts afresh.                                                         *)
PointedAfresh(table, old) == EmptyMessage(table)

(* The message an embedded entry is decoded into. *)
Pointed(table, old) == IF old = <<>> THEN EmptyMessage(table) ELSE old[1]

(* What one embedded entry makes of the field's old value. *)
Absorb(field, old, content) ==
    IF field.type = "pointer"
    THEN Then(UnmarshalPlain(field.table, content, Pointed(field.table, old)),
              LAMBDA inner : Read(<<inner.value>>, 0))
    ELSE Then(UnmarshalPlain(field.table, content, EmptyMessage(field.table)),
              LAMBDA inner : Read(Append(old, inner.value), 0))

ReadValue(field, old, bytes, type, at) ==
    IF field.type \notin {"pointer", "messageList"} THEN ReadPlain(field, old, bytes, type, at)
    ELSE IF type # 2 THEN Fail("wiretype")
    ELSE Then(ReadLength(bytes, at), LAMBDA content :
         Then(Absorb(field, old, content.value), LAMBDA taken :
              Read(taken.value, content.next)))

ReadField(table, bytes, at, onto) == ReadFieldBy(ReadValue, table, bytes, at, onto)
Unmarshal(table, bytes, onto) == UnmarshalBy(ReadField, table, bytes, onto)
=============================================================================
