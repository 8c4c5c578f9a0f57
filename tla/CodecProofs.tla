----------------------------- MODULE CodecProofs -----------------------------
(***************************************************************************)
(* What the generated encoding promises, of every type that the module     *)
(* registers and of words of every width: Size counts what Marshal writes, *)
(* Unmarshal reads it back, whole, joined with another message or extended *)
(* with fields of a later version, and notices where it was cut; and what  *)
(* Unmarshal accepts, of any bytes at all, is a message that is marshalled *)
(* and read again as it was.                                               *)
(***************************************************************************)
EXTENDS Codec, WireFormatProofs

-----------------------------------------------------------------------------
(***************************************************************************)
(* The messages of a table, and how each field of them is written.         *)
(***************************************************************************)

(* What a field may hold, by its type. *)
PlainValues(type) ==
    CASE type = "bytes"     -> Seq(Byte)
      [] type = "bytesList" -> Seq(Seq(Byte))
      [] type = "uint64"    -> Word
      [] type = "uint32"    -> Half
      [] type = "bool"      -> BOOLEAN
      [] type = "packed"    -> Seq(Word)

(* Messages of a plain table. *)
PlainMessages(table) ==
    {m \in [Names(table) -> UNION {PlainValues(table[i].type) : i \in DOMAIN table}] :
        \A i \in DOMAIN table : m[table[i].name] \in PlainValues(table[i].type)}

(* What a field that may hold messages may hold. *)
Values(field) ==
    IF field.type = "pointer" THEN {v \in Seq(PlainMessages(field.table)) : Len(v) <= 1}
    ELSE IF field.type = "messageList" THEN Seq(PlainMessages(field.table))
    ELSE PlainValues(field.type)

(* The messages of a table. *)
Messages(table) ==
    {m \in [Names(table) -> UNION {Values(table[i]) : i \in DOMAIN table}] :
        \A i \in DOMAIN table : m[table[i].name] \in Values(table[i])}

(* The tables of the generated code: embedded messages have none inside. *)
EmbeddedTypes == {"pointer", "messageList"}
(* A table that the generated code may have. *)
WellFormed(table) ==
    /\ Distinct(table)
    /\ \A i \in DOMAIN table :
          \/ table[i].type \in PlainTypes
          \/ /\ table[i].type \in EmbeddedTypes
             /\ PlainTable(table[i].table) /\ Distinct(table[i].table)

(* What Marshal writes of a field that holds no message. *)
PutPlain(field, v) ==
    CASE field.type = "bytes"                  -> PutBytes(field.num, v)
      [] field.type = "bytesList"              -> PutEach(field.num, v)
      [] field.type \in {"uint64", "uint32"}   -> PutUint(field.num, v)
      [] field.type = "bool"                   -> PutBool(field.num, v)
      [] field.type = "packed"                 -> PutPacked(field.num, v)

(* What it writes of a message of a plain table. *)
PlainEntries(table, m) ==
    FlattenSeq([i \in DOMAIN table |-> PutPlain(table[i], m[table[i].name])])

(* What it writes of any field. *)
Put(field, v) ==
    IF field.type \in EmbeddedTypes
    THEN PutMessages(field.num, [k \in DOMAIN v |-> PlainEntries(field.table, v[k])])
    ELSE PutPlain(field, v)

(* What it writes of any message: its fields in the table's order. *)
Entries(table, m) == FlattenSeq([i \in DOMAIN table |-> Put(table[i], m[table[i].name])])

(* A refusal of what is cut, of entries that a string can hold. *)
Guarded(table, list) ==
    list \in Seq(Seq(Byte)) /\ \A i \in 1..Len(list) : Fits(list[i]) => Refuses(table, list[i])

(* What is shorter than a string that fits does, too. *)
LEMMA ShorterFits ==
    ASSUME NEW s, Fits(s), NEW c \in Seq(Byte), Len(c) <= Len(s)
    PROVE  Fits(c)
  <1>1. Len(s) \in Nat /\ Len(c) \in Nat /\ Len(s) < TwoTo[WordBits - 1]
    BY LenIsNat DEF Fits
  <1>2. TwoTo[WordBits - 1] \in Nat
    BY WordFacts
  <1> QED
    BY <1>1, <1>2 DEF Fits

(* The shape of a delimited entry. *)
LEMMA DelimitedFacts ==
    ASSUME NEW num \in 1..14, NEW c \in Seq(Byte)
    PROVE  /\ Delimited(num, c) \in Seq(Byte) /\ Len(Delimited(num, c)) \in Nat
           /\ Len(Delimited(num, c)) = 1 + Len(Varint(Len(c))) + Len(c)
           /\ Fits(Delimited(num, c)) => Fits(c)
  <1>1. PICK u, b, rest, d : u = 8 * num + 2 /\ b = <<u>> /\ rest = Measured(c) /\ d = Delimited(num, c)
    OBVIOUS
  <1>2. u \in 0..127
    BY <1>1
  <1>3. b \in Seq(Byte) /\ Len(b) = 1
    BY <1>1, <1>2, SmallVarint
  <1>4. d = b \o rest
    BY <1>1, DelimitedIs
  <1>5. PICK v, n : v = Len(Varint(Len(c))) /\ n = Len(c)
    OBVIOUS
  <1>6. rest \in Seq(Byte) /\ Len(rest) = v + n /\ v \in Nat /\ n \in Nat
    BY <1>1, <1>5, MeasuredIsSeq
  <1>7. d \in Seq(Byte) /\ Len(d) = Len(b) + Len(rest)
    BY <1>3, <1>4, <1>6, JoinFacts
  <1>8. Len(d) = 1 + v + n /\ Len(d) \in Nat /\ n <= Len(d)
    BY <1>3, <1>6, <1>7
  <1>9. Fits(d) => Fits(c)
    BY <1>5, <1>8, ShorterFits
  <1> QED
    BY <1>1, <1>5, <1>7, <1>8, <1>9

(* Entries that are all delimited, with one number. *)
AllDelimited(num, list, n) ==
    /\ n \in Nat /\ list = [k \in 1..n |-> list[k]]
    /\ \A k \in 1..n : \E c \in Seq(Byte) : list[k] = Delimited(num, c)

(* Delimited entries are refused when cut. *)
LEMMA GuardedDelimited ==
    ASSUME NEW table, Distinct(table), NEW i \in DOMAIN table, table[i].type \in LengthTypes,
           NEW list, NEW n, AllDelimited(table[i].num, list, n)
    PROVE  Guarded(table, list)
  <1>1. table[i].num \in 1..14
    BY DEF Distinct
  <1>2. ASSUME NEW k \in 1..n PROVE list[k] \in Seq(Byte) /\ (Fits(list[k]) => Refuses(table, list[k]))
    <2>1. PICK c \in Seq(Byte) : list[k] = Delimited(table[i].num, c)
      BY DEF AllDelimited
    <2>2. list[k] \in Seq(Byte) /\ (Fits(list[k]) => Fits(c))
      BY <1>1, <2>1, DelimitedFacts
    <2>3. Fits(c) => Refuses(table, Delimited(table[i].num, c))
      BY DelimitedRefuses
    <2> QED
      BY <2>1, <2>2, <2>3
  <1>3. list \in Seq(Seq(Byte)) /\ Len(list) = n
    BY <1>2 DEF AllDelimited
  <1> QED
    BY <1>2, <1>3 DEF Guarded

(* One entry, no entry and two lists of entries, when cut. *)
LEMMA GuardedOne ==
    ASSUME NEW table, NEW e \in Seq(Byte), Fits(e) => Refuses(table, e)
    PROVE  Guarded(table, <<e>>)
  <1>1. PICK list : list = <<e>>
    OBVIOUS
  <1>2. list \in Seq(Seq(Byte)) /\ Len(list) = 1 /\ list[1] = e
    BY <1>1
  <1>3. \A i \in 1..Len(list) : list[i] = e
    BY <1>2
  <1> QED
    BY <1>1, <1>2, <1>3 DEF Guarded

LEMMA GuardedNone ==
    ASSUME NEW table
    PROVE  Guarded(table, <<>>)
  <1>1. PICK list : list = <<>>
    OBVIOUS
  <1>2. list \in Seq(Seq(Byte)) /\ Len(list) = 0
    BY <1>1
  <1>3. \A i \in 1..Len(list) : FALSE
    BY <1>2
  <1> QED
    BY <1>1, <1>2, <1>3 DEF Guarded

LEMMA GuardedJoin ==
    ASSUME NEW table, NEW a, NEW b, Guarded(table, a), Guarded(table, b)
    PROVE  Guarded(table, a \o b)
  <1>1. PICK m, n, c : m = Len(a) /\ n = Len(b) /\ c = a \o b
    OBVIOUS
  <1>2. a \in Seq(Seq(Byte)) /\ b \in Seq(Seq(Byte)) /\ m \in Nat /\ n \in Nat
    BY <1>1, LenIsNat DEF Guarded
  <1>3. /\ c \in Seq(Seq(Byte)) /\ Len(c) = Len(a) + Len(b)
        /\ \A i \in 1..Len(a) : c[i] = a[i]
        /\ \A i \in 1..Len(b) : c[Len(a) + i] = b[i]
    BY <1>1, <1>2, JoinFacts
  <1>4. ASSUME NEW i \in 1..Len(c) PROVE Fits(c[i]) => Refuses(table, c[i])
    <2>1. i \in 1..m \/ (i - m \in 1..n /\ m + (i - m) = i)
      BY <1>1, <1>2, <1>3
    <2>2. CASE i \in 1..m
      BY <1>1, <1>3, <2>2 DEF Guarded
    <2>3. CASE i - m \in 1..n /\ m + (i - m) = i
      <3>1. c[i] = b[i - m]
        BY <1>1, <1>3, <2>3
      <3> QED
        BY <1>1, <2>3, <3>1 DEF Guarded
    <2> QED
      BY <2>1, <2>2, <2>3
  <1> QED
    BY <1>1, <1>3, <1>4 DEF Guarded

(* One delimited entry for each byte string of a list. *)
LEMMA EachFacts ==
    ASSUME NEW num \in 1..14, NEW list \in Seq(Seq(Byte))
    PROVE  /\ PutEach(num, list) \in Seq(Seq(Byte)) /\ Len(PutEach(num, list)) = Len(list)
           /\ \A k \in 1..Len(list) : /\ PutEach(num, list)[k] = Delimited(num, list[k])
                                      /\ list[k] \in Seq(Byte)
  <1>1. PICK l, p : l = Len(list) /\ l \in Nat /\ DOMAIN list = 1..l /\ p = PutEach(num, list)
    BY LenIsNat
  <1>2. \A k \in 1..l : list[k] \in Seq(Byte)
    BY <1>1
  <1>3. \A k \in 1..l : Delimited(num, list[k]) \in Seq(Byte)
    BY <1>2, DelimitedFacts
  <1>4. p = [k \in 1..l |-> Delimited(num, list[k])]
    BY <1>1 DEF PutEach
  <1>5. p \in Seq(Seq(Byte)) /\ Len(p) = l
    BY <1>1, <1>3, <1>4
  <1> QED
    BY <1>1, <1>2, <1>4, <1>5

(* They append the list, and are refused when cut. *)
LEMMA EachScript ==
    ASSUME NEW table, Distinct(table), NEW i \in DOMAIN table, table[i].type = "bytesList",
           NEW x, table[i].name \in DOMAIN x, x = [k \in DOMAIN x |-> x[k]],
           x[table[i].name] \in Seq(Seq(Byte)), NEW v \in Seq(Seq(Byte))
    PROVE  /\ Script(table, PutEach(table[i].num, v), x,
                     [x EXCEPT ![table[i].name] = x[table[i].name] \o v])
           /\ Guarded(table, PutEach(table[i].num, v))
  <1>1. PICK num, name, p, l : /\ num = table[i].num /\ name = table[i].name
                               /\ p = PutEach(num, v) /\ l = Len(v) /\ l \in Nat
    BY LenIsNat
  <1>2. num \in 1..14
    BY <1>1 DEF Distinct
  <1>3. /\ p \in Seq(Seq(Byte)) /\ Len(p) = l
        /\ \A k \in 1..l : p[k] = Delimited(num, v[k]) /\ v[k] \in Seq(Byte)
    BY <1>1, <1>2, EachFacts
  <1>4. ASSUME NEW k \in 1..l PROVE Appends(table, p[k], name, Seq(Byte), v[k])
    <2>1. ASSUME NEW z, z[name] \in Seq(Seq(Byte))
          PROVE  Takes(table, p[k], z, [z EXCEPT ![name] = Append(z[name], v[k])])
      <3>1. PICK c, new : c = v[k] /\ new = Append(z[name], c)
        OBVIOUS
      <3>2. c \in Seq(Byte) /\ p[k] = Delimited(num, c)
        BY <1>3, <3>1
      <3>3. new = Append(z[table[i].name], c)
        BY <1>1, <3>1
      <3>4. Adds(table[i], c, z[table[i].name], new)
        BY <3>3 DEF Adds
      <3>5. Sets(table, i, Delimited(table[i].num, c), z, new)
        BY <3>2, <3>4, BytesEntry
      <3> QED
        BY <1>1, <3>1, <3>2, <3>5 DEF Sets
    <2> QED
      BY <2>1 DEF Appends
  <1>5. Script(table, p, x, [x EXCEPT ![name] = x[name] \o v])
    <2>1. \A k \in 1..Len(v) : Appends(table, p[k], name, Seq(Byte), v[k])
      BY <1>1, <1>4
    <2>2. name \in DOMAIN x /\ x[name] \in Seq(Seq(Byte)) /\ p \in Seq(Seq(Byte)) /\ Len(p) = Len(v)
      BY <1>1, <1>3
    <2> QED
      BY <2>1, <2>2, ListScript
  <1>6. Guarded(table, p)
    <2>1. table[i].type \in LengthTypes
      BY DEF LengthTypes
    <2>2. p = [k \in 1..l |-> p[k]]
      BY <1>3
    <2>3. \A k \in 1..l : \E c \in Seq(Byte) : p[k] = Delimited(table[i].num, c)
      BY <1>1, <1>3
    <2>4. AllDelimited(table[i].num, p, l)
      BY <1>1, <2>2, <2>3 DEF AllDelimited
    <2> QED
      BY <2>1, <2>4, GuardedDelimited
  <1> QED
    BY <1>1, <1>5, <1>6

(* A byte string is written unless it is empty, and read as it was. *)
LEMMA BytesScript ==
    ASSUME NEW table, Distinct(table), NEW i \in DOMAIN table, table[i].type = "bytes",
           NEW x, x = [k \in DOMAIN x |-> x[k]], NEW v \in Seq(Byte)
    PROVE  /\ Script(table, PutBytes(table[i].num, v), x,
                     [x EXCEPT ![table[i].name] = IF v = <<>> THEN x[table[i].name] ELSE v])
           /\ Guarded(table, PutBytes(table[i].num, v))
  <1>1. CASE v = <<>>
    <2>1. PutBytes(table[i].num, v) = <<>>
      BY <1>1 DEF PutBytes
    <2>2. [x EXCEPT ![table[i].name] = x[table[i].name]] = x
      BY ExceptSame
    <2> QED
      BY <1>1, <2>1, <2>2, ScriptNone, GuardedNone
  <1>2. CASE v # <<>>
    <2>1. PICK e : e = Delimited(table[i].num, v)
      OBVIOUS
    <2>2. PutBytes(table[i].num, v) = <<e>>
      BY <1>2, <2>1 DEF PutBytes
    <2>3. Takes(table, e, x, [x EXCEPT ![table[i].name] = v])
      <3>1. Adds(table[i], v, x[table[i].name], v)
        BY DEF Adds
      <3>2. Sets(table, i, e, x, v)
        BY <2>1, <3>1, BytesEntry
      <3> QED
        BY <3>2 DEF Sets
    <2>4. e \in Seq(Byte) /\ (Fits(e) => Fits(v))
      BY <2>1, DelimitedFacts DEF Distinct
    <2>5. Fits(e) => Refuses(table, e)
      <3>1. table[i].type \in LengthTypes
        BY DEF LengthTypes
      <3> QED
        BY <2>1, <2>4, <3>1, DelimitedRefuses
    <2> QED
      BY <1>2, <2>2, <2>3, <2>4, <2>5, ScriptOne, GuardedOne
  <1> QED
    BY <1>1, <1>2

(* A number is written as one entry. *)
LEMMA NumberScript ==
    ASSUME NEW table, Distinct(table), NEW i \in DOMAIN table, table[i].type \in NumberTypes,
           NEW x, x = [k \in DOMAIN x |-> x[k]],
           NEW v \in Word, NEW e, e = <<8 * table[i].num>> \o Varint(v)
    PROVE  /\ Script(table, <<e>>, x, [x EXCEPT ![table[i].name] = Narrow(v, table[i].type)])
           /\ Guarded(table, <<e>>)
  <1>1. /\ Takes(table, e, x, [x EXCEPT ![table[i].name] = Narrow(v, table[i].type)])
        /\ Refuses(table, e)
    BY NumberEntry
  <1>2. e \in Seq(Byte)
    BY <1>1 DEF Takes
  <1> QED
    BY <1>1, <1>2, ScriptOne, GuardedOne

(* An unsigned number is written unless it is 0, and read as it was. *)
LEMMA UintScript ==
    ASSUME NEW table, Distinct(table), NEW i \in DOMAIN table,
           table[i].type \in {"uint64", "uint32"},
           NEW x, x = [k \in DOMAIN x |-> x[k]], NEW v \in PlainValues(table[i].type)
    PROVE  /\ Script(table, PutUint(table[i].num, v), x,
                     [x EXCEPT ![table[i].name] = IF v = 0 THEN x[table[i].name] ELSE v])
           /\ Guarded(table, PutUint(table[i].num, v))
  <1>1. CASE v = 0
    <2>1. PutUint(table[i].num, v) = <<>>
      BY <1>1 DEF PutUint
    <2>2. [x EXCEPT ![table[i].name] = x[table[i].name]] = x
      BY ExceptSame
    <2> QED
      BY <1>1, <2>1, <2>2, ScriptNone, GuardedNone
  <1>2. CASE v # 0
    <2>1. PICK e : e = <<8 * table[i].num>> \o Varint(v)
      OBVIOUS
    <2>2. PutUint(table[i].num, v) = <<e>>
      BY <1>2, <2>1 DEF PutUint
    <2>3. v \in Word /\ Narrow(v, table[i].type) = v
      <3>1. CASE table[i].type = "uint64"
        <4>1. v \in Word
          BY <3>1 DEF PlainValues
        <4> QED
          BY <3>1, <4>1 DEF Narrow
      <3>2. CASE table[i].type = "uint32"
        <4>1. v \in Half
          BY <3>2 DEF PlainValues
        <4>2. PICK w : w = TwoTo[HalfBits] /\ w \in Nat /\ w > 0
          BY WordFacts
        <4>3. v \in 0..(w - 1)
          BY <4>1, <4>2 DEF Half
        <4>4. v % w = v
          BY <4>2, <4>3
        <4> QED
          BY <3>2, <4>1, <4>2, <4>4, HalfInWord DEF Narrow
      <3> QED
        BY <3>1, <3>2
    <2>4. table[i].type \in NumberTypes
      BY DEF NumberTypes
    <2>5. PICK list : list = <<e>>
      OBVIOUS
    <2>6. /\ Script(table, list, x, [x EXCEPT ![table[i].name] = Narrow(v, table[i].type)])
          /\ Guarded(table, list)
      BY <2>1, <2>3, <2>4, <2>5, NumberScript
    <2>7. PutUint(table[i].num, v) = list
      BY <2>2, <2>5
    <2> QED
      BY <1>2, <2>3, <2>6, <2>7
  <1> QED
    BY <1>1, <1>2

(* Two bytes in a row. *)
LEMMA Pair == \A u, v : <<u>> \o <<v>> = <<u, v>>
  <1> TAKE u, v
  <1>1. PICK S, a, b, c, d : S = {u, v} /\ a = <<u>> /\ b = <<v>> /\ c = a \o b /\ d = <<u, v>>
    OBVIOUS
  <1>2. /\ a \in Seq(S) /\ Len(a) = 1 /\ a[1] = u /\ b \in Seq(S) /\ Len(b) = 1 /\ b[1] = v
        /\ d \in Seq(S) /\ Len(d) = 2 /\ d[1] = u /\ d[2] = v
    BY <1>1
  <1>3. /\ c \in Seq(S) /\ Len(c) = Len(a) + Len(b)
        /\ \A i \in 1..Len(a) : c[i] = a[i]
        /\ \A i \in 1..Len(b) : c[Len(a) + i] = b[i]
    BY <1>1, <1>2, JoinFacts
  <1>4. Len(c) = 2 /\ c[1] = u /\ c[2] = v
    <2>1. 1 \in 1..Len(a) /\ 1 \in 1..Len(b) /\ Len(a) + 1 = 2
      BY <1>2
    <2>2. c[1] = a[1] /\ c[2] = b[1]
      BY <1>3, <2>1
    <2> QED
      BY <1>2, <1>3, <2>2
  <1>5. c = d
    <2>1. \A i \in 1..2 : i = 1 \/ i = 2
      OBVIOUS
    <2>2. \A i \in 1..Len(c) : c[i] = d[i]
      BY <1>2, <1>4, <2>1
    <2> QED
      BY <1>2, <1>3, <1>4, <2>2, SeqEqual
  <1> QED
    BY <1>1, <1>5

(* A flag is written when it is set. *)
LEMMA BoolScript ==
    ASSUME NEW table, Distinct(table), NEW i \in DOMAIN table, table[i].type = "bool",
           NEW x, x = [k \in DOMAIN x |-> x[k]], NEW v \in BOOLEAN
    PROVE  /\ Script(table, PutBool(table[i].num, v), x,
                     [x EXCEPT ![table[i].name] = IF v = FALSE THEN x[table[i].name] ELSE v])
           /\ Guarded(table, PutBool(table[i].num, v))
  <1>1. CASE v = FALSE
    <2>1. PutBool(table[i].num, v) = <<>>
      BY <1>1 DEF PutBool
    <2>2. [x EXCEPT ![table[i].name] = x[table[i].name]] = x
      BY ExceptSame
    <2> QED
      BY <1>1, <2>1, <2>2, ScriptNone, GuardedNone
  <1>2. CASE v = TRUE
    <2>1. PICK u, e : u = 8 * table[i].num /\ e = <<u>> \o Varint(1)
      OBVIOUS
    <2>2. 1 \in Word /\ Varint(1) = <<1>>
      <3>1. 1 \in 0..127
        OBVIOUS
      <3> QED
        BY <3>1, SmallVarint
    <2>3. e = <<u, 1>>
      BY <2>1, <2>2, Pair
    <2>4. PutBool(table[i].num, v) = <<e>>
      <3>1. PutBool(table[i].num, v) = <<(<<8 * table[i].num, 1>>)>>
        BY <1>2 DEF PutBool
      <3> QED
        BY <2>1, <2>3, <3>1
    <2>5. Narrow(1, table[i].type) = TRUE
      <3>1. 1 # 0
        OBVIOUS
      <3>2. Narrow(1, table[i].type) = (1 # 0)
        BY Zenon DEF Narrow
      <3> QED
        BY <3>1, <3>2
    <2>6. table[i].type \in NumberTypes
      BY DEF NumberTypes
    <2>7. e = <<8 * table[i].num>> \o Varint(1)
      BY <2>1
    <2>8. PICK list : list = <<e>>
      OBVIOUS
    <2>9. /\ Script(table, list, x, [x EXCEPT ![table[i].name] = Narrow(1, table[i].type)])
          /\ Guarded(table, list)
      BY <2>2, <2>6, <2>7, <2>8, NumberScript
    <2>10. PutBool(table[i].num, v) = list
      BY <2>4, <2>8
    <2> QED
      BY <1>2, <2>5, <2>9, <2>10
  <1> QED
    BY <1>1, <1>2

(* A packed list is written unless it is empty, and appended when read. *)
LEMMA PackedScript ==
    ASSUME NEW table, Distinct(table), NEW i \in DOMAIN table, table[i].type = "packed",
           NEW x, x = [k \in DOMAIN x |-> x[k]],
           x[table[i].name] \in Seq(Word), NEW v \in Seq(Word)
    PROVE  /\ Script(table, PutPacked(table[i].num, v), x,
                     [x EXCEPT ![table[i].name] = x[table[i].name] \o v])
           /\ Guarded(table, PutPacked(table[i].num, v))
  <1>1. CASE v = <<>>
    <2>1. PutPacked(table[i].num, v) = <<>>
      BY <1>1 DEF PutPacked
    <2>2. x[table[i].name] \o v = x[table[i].name]
      BY <1>1, ConcatEmptySeq
    <2>3. [x EXCEPT ![table[i].name] = x[table[i].name]] = x
      BY ExceptSame
    <2> QED
      BY <2>1, <2>2, <2>3, ScriptNone, GuardedNone
  <1>2. CASE v # <<>>
    <2>1. PICK c, e : c = FlattenSeq(VarintsOf(v)) /\ e = Delimited(table[i].num, c)
      OBVIOUS
    <2>2. PutPacked(table[i].num, v) = <<e>>
      BY <1>2, <2>1 DEF PutPacked, VarintsOf
    <2>3. c \in Seq(Byte) /\ Takes(table, e, x, [x EXCEPT ![table[i].name] = x[table[i].name] \o v])
      BY <2>1, PackedEntry
    <2>4. e \in Seq(Byte) /\ (Fits(e) => Fits(c))
      BY <2>1, <2>3, DelimitedFacts DEF Distinct
    <2>5. Fits(e) => Refuses(table, e)
      <3>1. table[i].type \in LengthTypes
        BY DEF LengthTypes
      <3> QED
        BY <2>1, <2>4, <3>1, DelimitedRefuses
    <2> QED
      BY <2>2, <2>3, <2>4, <2>5, ScriptOne, GuardedOne
  <1> QED
    BY <1>1, <1>2

(* A function that has the name of the field at i. *)
Plainly(table, i, x) ==
    x = [k \in DOMAIN x |-> x[k]] /\ table[i].name \in DOMAIN x

(* The entries of one field make `new` of its value, and nothing of it is  *)
(* taken when it is cut.                                                    *)
Writes(table, i, list, x, new) ==
    Script(table, list, x, [x EXCEPT ![table[i].name] = new]) /\ Guarded(table, list)

(* What is written of a plain field is read as the merge of both values. *)
LEMMA PlainWrites ==
    ASSUME NEW table, Distinct(table), NEW i \in DOMAIN table, table[i].type \in PlainTypes,
           NEW x, Plainly(table, i, x), x[table[i].name] \in PlainValues(table[i].type),
           NEW v \in PlainValues(table[i].type)
    PROVE  Writes(table, i, PutPlain(table[i], v), x, MergedPlain(table[i], x[table[i].name], v))
  <1>1. x = [k \in DOMAIN x |-> x[k]] /\ table[i].name \in DOMAIN x
    BY DEF Plainly
  <1>2. PICK type, num, old, new : /\ type = table[i].type /\ num = table[i].num
                                   /\ old = x[table[i].name] /\ new = MergedPlain(table[i], old, v)
    OBVIOUS
  <1>3. CASE type = "bytes"
    <2>1. v \in Seq(Byte)
      BY <1>2, <1>3 DEF PlainValues
    <2>2. PutPlain(table[i], v) = PutBytes(num, v)
      BY <1>2, <1>3 DEF PutPlain
    <2>3. new = IF v = <<>> THEN old ELSE v
      BY <1>2, <1>3 DEF MergedPlain, Unset
    <2>4. /\ Script(table, PutBytes(table[i].num, v), x,
                    [x EXCEPT ![table[i].name] = IF v = <<>> THEN x[table[i].name] ELSE v])
          /\ Guarded(table, PutBytes(table[i].num, v))
      BY <1>1, <1>2, <1>3, <2>1, BytesScript
    <2> QED
      BY <1>2, <2>1, <2>2, <2>3, <2>4 DEF Writes
  <1>4. CASE type = "bytesList"
    <2>1. v \in Seq(Seq(Byte)) /\ old \in Seq(Seq(Byte))
      BY <1>2, <1>4 DEF PlainValues
    <2>2. PutPlain(table[i], v) = PutEach(num, v)
      BY <1>2, <1>4 DEF PutPlain
    <2>3. new = old \o v
      BY <1>2, <1>4 DEF MergedPlain
    <2>4. /\ Script(table, PutEach(table[i].num, v), x,
                    [x EXCEPT ![table[i].name] = x[table[i].name] \o v])
          /\ Guarded(table, PutEach(table[i].num, v))
      BY <1>1, <1>2, <1>4, <2>1, EachScript
    <2> QED
      BY <1>2, <2>1, <2>2, <2>3, <2>4 DEF Writes
  <1>5. CASE type \in {"uint64", "uint32"}
    <2>1. PutPlain(table[i], v) = PutUint(num, v)
      BY <1>2, <1>5 DEF PutPlain
    <2>2. new = IF v = 0 THEN old ELSE v
      BY <1>2, <1>5 DEF MergedPlain, Unset
    <2>4. /\ Script(table, PutUint(table[i].num, v), x,
                    [x EXCEPT ![table[i].name] = IF v = 0 THEN x[table[i].name] ELSE v])
          /\ Guarded(table, PutUint(table[i].num, v))
      BY <1>1, <1>2, <1>5, UintScript
    <2> QED
      BY <1>2, <2>1, <2>2, <2>4 DEF Writes
  <1>6. CASE type = "bool"
    <2>1. v \in BOOLEAN
      BY <1>2, <1>6 DEF PlainValues
    <2>2. PutPlain(table[i], v) = PutBool(num, v)
      BY <1>2, <1>6 DEF PutPlain
    <2>3. new = IF v = FALSE THEN old ELSE v
      BY <1>2, <1>6 DEF MergedPlain, Unset
    <2>4. /\ Script(table, PutBool(table[i].num, v), x,
                    [x EXCEPT ![table[i].name] = IF v = FALSE THEN x[table[i].name] ELSE v])
          /\ Guarded(table, PutBool(table[i].num, v))
      BY <1>1, <1>2, <1>6, <2>1, BoolScript
    <2> QED
      BY <1>2, <2>1, <2>2, <2>3, <2>4 DEF Writes
  <1>7. CASE type = "packed"
    <2>1. v \in Seq(Word) /\ old \in Seq(Word)
      BY <1>2, <1>7 DEF PlainValues
    <2>2. PutPlain(table[i], v) = PutPacked(num, v)
      BY <1>2, <1>7 DEF PutPlain
    <2>3. new = old \o v
      BY <1>2, <1>7 DEF MergedPlain
    <2>4. /\ Script(table, PutPacked(table[i].num, v), x,
                    [x EXCEPT ![table[i].name] = x[table[i].name] \o v])
          /\ Guarded(table, PutPacked(table[i].num, v))
      BY <1>1, <1>2, <1>7, <2>1, PackedScript
    <2> QED
      BY <1>2, <2>1, <2>2, <2>3, <2>4 DEF Writes
  <1> QED
    BY <1>2, <1>3, <1>4, <1>5, <1>6, <1>7 DEF PlainTypes

(* The entries of every field. *)
FieldWrites(table, i, list, x, y) ==
    \A z : Plainly(table, i, z) /\ z[table[i].name] = x[table[i].name]
                => Writes(table, i, list, z, y[table[i].name])

(* Entries for every field of a table, in its order. *)
TableWrites(table, puts, x, y) ==
    /\ x = [k \in Names(table) |-> x[k]] /\ y = [k \in Names(table) |-> y[k]]
    /\ puts \in Seq(Seq(Seq(Byte))) /\ Len(puts) = Len(table)
    /\ \A i \in DOMAIN table : FieldWrites(table, i, puts[i], x, y)

(* They turn x into y, field by field. *)
LEMMA WholeTable ==
    ASSUME NEW table, Distinct(table), NEW puts, NEW x, NEW y, TableWrites(table, puts, x, y)
    PROVE  Script(table, FlattenSeq(puts), x, y) /\ Guarded(table, FlattenSeq(puts))
  <1>1. PICK n : n = Len(table) /\ n \in Nat /\ DOMAIN table = 1..n
    BY DEF Distinct
  <1>2. /\ x = [k \in Names(table) |-> x[k]] /\ y = [k \in Names(table) |-> y[k]]
        /\ puts \in Seq(Seq(Seq(Byte))) /\ Len(puts) = n
        /\ \A i \in 1..n : FieldWrites(table, i, puts[i], x, y)
    BY <1>1 DEF TableWrites
  <1>3. PICK join : IsJoin(join, Seq(Byte), puts) /\ FlattenSeq(puts) = join[n]
    BY <1>2, JoinExists
  <1>4. join[0] = <<>> /\ \A k \in 1..n : join[k] = join[k - 1] \o puts[k]
    BY <1>2, <1>3 DEF IsJoin
  <1>5. PICK f : f = [k \in 0..n |-> [name \in Names(table) |->
                        IF \E j \in 1..k : table[j].name = name THEN y[name] ELSE x[name]]]
    OBVIOUS
  <1>6. f[0] = x
    <2>1. 0 \in 0..n /\ \A j \in 1..0 : FALSE
      BY <1>1
    <2>2. f[0] = [name \in Names(table) |-> x[name]]
      BY <1>5, <2>1
    <2> QED
      BY <1>2, <2>2
  <1>7. f[n] = y
    <2>1. n \in 0..n /\ \A name \in Names(table) : \E j \in 1..n : table[j].name = name
      BY <1>1 DEF Names
    <2>2. f[n] = [name \in Names(table) |-> y[name]]
      BY <1>5, <2>1
    <2> QED
      BY <1>2, <2>2
  <1>8. ASSUME NEW k \in 1..n
        PROVE  /\ Script(table, puts[k], f[k - 1], f[k]) /\ Guarded(table, puts[k])
    <2>1. PICK z, name : z = f[k - 1] /\ name = table[k].name
      OBVIOUS
    <2>2. k - 1 \in 0..n /\ k \in 0..n /\ k \in DOMAIN table /\ k \in Nat
      BY <1>1
    <2>3. z = [w \in Names(table) |->
                  IF \E j \in 1..(k - 1) : table[j].name = w THEN y[w] ELSE x[w]]
      BY <1>5, <2>1, <2>2
    <2>4. name \in Names(table)
      BY <2>1, <2>2 DEF Names
    <2>5. DOMAIN z = Names(table) /\ Plainly(table, k, z)
      BY <2>1, <2>3, <2>4 DEF Plainly
    <2>6. ~ \E j \in 1..(k - 1) : table[j].name = name
      <3> SUFFICES ASSUME NEW j \in 1..(k - 1), table[j].name = name PROVE FALSE
        OBVIOUS
      <3>1. j \in DOMAIN table /\ j # k
        BY <1>1, <2>2
      <3> QED
        BY <2>1, <2>2, <3>1 DEF Distinct
    <2>7. z[name] = x[name]
      BY <2>3, <2>4, <2>6
    <2>8. Writes(table, k, puts[k], z, y[name])
      BY <1>2, <2>1, <2>5, <2>7 DEF FieldWrites
    <2>9. [z EXCEPT ![name] = y[name]] = f[k]
      <3>1. \A w \in Names(table) : (\E j \in 1..k : table[j].name = w)
                                       <=> w = name \/ \E j \in 1..(k - 1) : table[j].name = w
        <4> TAKE w \in Names(table)
        <4>1. ASSUME NEW j \in 1..k PROVE j = k \/ j \in 1..(k - 1)
          BY <2>2
        <4>2. k \in 1..k /\ \A j \in 1..(k - 1) : j \in 1..k
          BY <2>2
        <4> QED
          BY <2>1, <4>1, <4>2
      <3>2. f[k] = [w \in Names(table) |-> IF \E j \in 1..k : table[j].name = w THEN y[w] ELSE x[w]]
        BY <1>5, <2>2
      <3>3. f[k] = [w \in Names(table) |-> IF w = name THEN y[w] ELSE z[w]]
        BY <2>3, <3>1, <3>2
      <3>4. [z EXCEPT ![name] = y[name]] = [w \in Names(table) |-> IF w = name THEN y[w] ELSE z[w]]
        BY <2>5
      <3> QED
        BY <3>3, <3>4
    <2> QED
      BY <2>1, <2>8, <2>9 DEF Writes
  <1> DEFINE G == {k \in Nat : k <= n => Script(table, join[k], x, f[k]) /\ Guarded(table, join[k])}
  <1>9. 0 \in G
    BY <1>4, <1>6, ScriptNone, GuardedNone
  <1>10. ASSUME NEW k \in 1..n, k - 1 \in G PROVE k \in G
    <2>1. k - 1 <= n /\ k \in Nat
      BY <1>1
    <2>2. PICK a, b : a = join[k - 1] /\ b = puts[k]
      OBVIOUS
    <2>3. Script(table, a, x, f[k - 1]) /\ Guarded(table, a)
      BY <1>10, <2>1, <2>2
    <2>4. Script(table, b, f[k - 1], f[k]) /\ Guarded(table, b)
      BY <1>8, <2>2
    <2>5. join[k] = a \o b
      BY <1>4, <2>2
    <2>6. Script(table, a \o b, x, f[k]) /\ Guarded(table, a \o b)
      BY <2>3, <2>4, ScriptJoin, GuardedJoin
    <2> QED
      BY <2>1, <2>5, <2>6
  <1> HIDE DEF G
  <1>11. \A k \in 0..n : k \in G
    BY <1>1, <1>9, <1>10, BoundedInduction
  <1>12. n \in G /\ n <= n
    BY <1>1, <1>11
  <1> QED
    BY <1>3, <1>7, <1>12 DEF G

(* The field of a name is the one that has it. *)
LEMMA FieldNamedIs ==
    ASSUME NEW table, Distinct(table), NEW i \in DOMAIN table
    PROVE  FieldNamed(table, table[i].name) = table[i] /\ table[i].name \in Names(table)
  <1>1. PICK j : j = (CHOOSE k \in DOMAIN table : table[k].name = table[i].name)
    OBVIOUS
  <1>2. j \in DOMAIN table /\ table[j].name = table[i].name
    BY <1>1
  <1>3. j = i
    BY <1>2 DEF Distinct
  <1> QED
    BY <1>1, <1>3 DEF FieldNamed, Names

(* A name of a table is that of one of its fields. *)
LEMMA NamesAre ==
    ASSUME NEW table, NEW name \in Names(table)
    PROVE  \E i \in DOMAIN table : name = table[i].name
  BY DEF Names

(* The unset value of a type is one of its values. *)
LEMMA UnsetIsValue ==
    ASSUME NEW type \in PlainTypes
    PROVE  Unset(type) \in PlainValues(type)
  <1>1. 0 \in Word /\ 0 \in Half
    BY WordFacts DEF Word, Half
  <1>2. CASE type = "bytes"
    BY <1>2 DEF Unset, PlainValues
  <1>3. CASE type = "bytesList"
    BY <1>3 DEF Unset, PlainValues
  <1>4. CASE type = "uint64"
    BY <1>1, <1>4 DEF Unset, PlainValues
  <1>5. CASE type = "uint32"
    BY <1>1, <1>5 DEF Unset, PlainValues
  <1>6. CASE type = "bool"
    BY <1>6 DEF Unset, PlainValues
  <1>7. CASE type = "packed"
    BY <1>7 DEF Unset, PlainValues
  <1> QED
    BY <1>2, <1>3, <1>4, <1>5, <1>6, <1>7 DEF PlainTypes

(* A message of a plain table, by its fields. *)
PlainFields(table, m) ==
    /\ m = [k \in Names(table) |-> m[k]]
    /\ \A i \in DOMAIN table : m[table[i].name] \in PlainValues(table[i].type)

(* Messages of a plain table are what PlainFields says. *)
LEMMA PlainMessagesAre ==
    ASSUME NEW table, NEW m
    PROVE  m \in PlainMessages(table) <=> PlainFields(table, m)
  <1>1. ASSUME m \in PlainMessages(table) PROVE PlainFields(table, m)
    BY <1>1 DEF PlainMessages, PlainFields
  <1>2. ASSUME PlainFields(table, m) PROVE m \in PlainMessages(table)
    <2>1. \A k \in Names(table) : m[k] \in UNION {PlainValues(table[i].type) : i \in DOMAIN table}
      BY <1>2, NamesAre DEF PlainFields
    <2>2. m = [k \in Names(table) |-> m[k]]
      BY <1>2 DEF PlainFields
    <2>3. m \in [Names(table) -> UNION {PlainValues(table[i].type) : i \in DOMAIN table}]
      BY <2>1, <2>2
    <2> QED
      BY <1>2, <2>3 DEF PlainMessages, PlainFields
  <1> QED
    BY <1>1, <1>2

(* The empty message has the unset value in every field. *)
LEMMA EmptyFields ==
    ASSUME NEW table, Distinct(table)
    PROVE  /\ EmptyMessage(table) = [k \in Names(table) |-> EmptyMessage(table)[k]]
           /\ \A i \in DOMAIN table : EmptyMessage(table)[table[i].name] = Unset(table[i].type)
  <1>1. \A i \in DOMAIN table : EmptyMessage(table)[table[i].name] = Unset(table[i].type)
    BY FieldNamedIs DEF EmptyMessage
  <1> QED
    BY <1>1 DEF EmptyMessage

(* It is a message. *)
LEMMA PlainEmpty ==
    ASSUME NEW table, Distinct(table), PlainTable(table)
    PROVE  EmptyMessage(table) \in PlainMessages(table)
  <1>1. PICK e : e = EmptyMessage(table)
    OBVIOUS
  <1>2. e = [k \in Names(table) |-> e[k]]
    BY <1>1, EmptyFields
  <1>3. \A i \in DOMAIN table : e[table[i].name] \in PlainValues(table[i].type)
    BY <1>1, EmptyFields, UnsetIsValue DEF PlainTable
  <1> QED
    BY <1>1, <1>2, <1>3, PlainMessagesAre DEF PlainFields

(* The merge of two values is a value; onto the unset one, it is the       *)
(* second.                                                                 *)
LEMMA MergedPlainFacts ==
    ASSUME NEW field, field.type \in PlainTypes, NEW a \in PlainValues(field.type),
           NEW b \in PlainValues(field.type)
    PROVE  /\ MergedPlain(field, a, b) \in PlainValues(field.type)
           /\ MergedPlain(field, Unset(field.type), b) = b
  <1>1. CASE field.type = "bytesList"
    <2>1. a \in Seq(Seq(Byte)) /\ b \in Seq(Seq(Byte)) /\ Unset(field.type) = <<>>
      BY <1>1 DEF PlainValues, Unset
    <2>2. a \o b \in Seq(Seq(Byte)) /\ <<>> \o b = b
      BY <2>1, JoinFacts, ConcatEmptySeq
    <2> QED
      BY <1>1, <2>1, <2>2 DEF MergedPlain, PlainValues
  <1>2. CASE field.type = "packed"
    <2>1. a \in Seq(Word) /\ b \in Seq(Word) /\ Unset(field.type) = <<>>
      BY <1>2 DEF PlainValues, Unset
    <2>2. a \o b \in Seq(Word) /\ <<>> \o b = b
      BY <2>1, JoinFacts, ConcatEmptySeq
    <2> QED
      BY <1>2, <2>1, <2>2 DEF MergedPlain, PlainValues
  <1>3. CASE field.type \notin {"bytesList", "packed"}
    BY <1>3 DEF MergedPlain
  <1> QED
    BY <1>1, <1>2, <1>3

(* The same of embedded messages. *)
LEMMA MergedInnerFacts ==
    ASSUME NEW table, Distinct(table), PlainTable(table),
           NEW a \in PlainMessages(table), NEW b \in PlainMessages(table),
           NEW c, c = MergedInner(table, a, b)
    PROVE  /\ c \in PlainMessages(table)
           /\ \A i \in DOMAIN table :
                 c[table[i].name] = MergedPlain(table[i], a[table[i].name], b[table[i].name])
           /\ a = EmptyMessage(table) => c = b
  <1>1. PlainFields(table, a) /\ PlainFields(table, b)
    BY PlainMessagesAre
  <1>2. \A i \in DOMAIN table :
           c[table[i].name] = MergedPlain(table[i], a[table[i].name], b[table[i].name])
    BY FieldNamedIs DEF MergedInner
  <1>3. c = [k \in Names(table) |-> c[k]]
    BY DEF MergedInner
  <1>4. \A i \in DOMAIN table : c[table[i].name] \in PlainValues(table[i].type)
    <2> TAKE i \in DOMAIN table
    <2>1. table[i].type \in PlainTypes
      BY DEF PlainTable
    <2>2. /\ a[table[i].name] \in PlainValues(table[i].type)
          /\ b[table[i].name] \in PlainValues(table[i].type)
      BY <1>1 DEF PlainFields
    <2> QED
      BY <1>2, <2>1, <2>2, MergedPlainFacts
  <1>5. c \in PlainMessages(table)
    BY <1>3, <1>4, PlainMessagesAre DEF PlainFields
  <1>6. ASSUME a = EmptyMessage(table) PROVE c = b
    <2>1. \A i \in DOMAIN table : c[table[i].name] = b[table[i].name]
      <3> TAKE i \in DOMAIN table
      <3>1. table[i].type \in PlainTypes /\ a[table[i].name] = Unset(table[i].type)
        BY <1>6, EmptyFields DEF PlainTable
      <3>2. b[table[i].name] \in PlainValues(table[i].type)
        BY <1>1 DEF PlainFields
      <3> QED
        BY <1>2, <3>1, <3>2, UnsetIsValue, MergedPlainFacts
    <2>2. \A k \in Names(table) : c[k] = b[k]
      BY <2>1, NamesAre
    <2>3. b = [k \in Names(table) |-> b[k]]
      BY <1>1 DEF PlainFields
    <2> QED
      BY <1>3, <2>2, <2>3
  <1> QED
    BY <1>2, <1>5, <1>6

(* The entries of a plain message, field by field. *)
PlainPuts(table, m) == [i \in DOMAIN table |-> PutPlain(table[i], m[table[i].name])]

(* They merge the message into whatever they are read onto. *)
LEMMA PlainScript ==
    ASSUME NEW table, Distinct(table), PlainTable(table),
           NEW x \in PlainMessages(table), NEW m \in PlainMessages(table)
    PROVE  /\ Script(table, PlainEntries(table, m), x, MergedInner(table, x, m))
           /\ Guarded(table, PlainEntries(table, m))
  <1>1. PICK n, puts, y : /\ n = Len(table) /\ n \in Nat /\ DOMAIN table = 1..n
                          /\ puts = PlainPuts(table, m) /\ y = MergedInner(table, x, m)
    BY DEF Distinct
  <1>2. PlainFields(table, x) /\ PlainFields(table, m)
    BY PlainMessagesAre
  <1>3. /\ y = [k \in Names(table) |-> y[k]]
        /\ \A i \in DOMAIN table :
              y[table[i].name] = MergedPlain(table[i], x[table[i].name], m[table[i].name])
    <2>1. y \in PlainMessages(table)
      BY <1>1, MergedInnerFacts
    <2>2. PlainFields(table, y)
      BY <2>1, PlainMessagesAre
    <2>3. y = [k \in Names(table) |-> y[k]]
      BY <2>2 DEF PlainFields
    <2>4. \A i \in DOMAIN table :
             y[table[i].name] = MergedPlain(table[i], x[table[i].name], m[table[i].name])
      BY <1>1, MergedInnerFacts
    <2> QED
      BY <2>3, <2>4
  <1>4. \A i \in 1..n : puts[i] = PutPlain(table[i], m[table[i].name])
    BY <1>1 DEF PlainPuts
  <1>5. ASSUME NEW i \in DOMAIN table
        PROVE  FieldWrites(table, i, puts[i], x, y) /\ puts[i] \in Seq(Seq(Byte))
    <2>1. PICK name, v : name = table[i].name /\ v = m[name]
      OBVIOUS
    <2>2. /\ table[i].type \in PlainTypes
          /\ x[name] \in PlainValues(table[i].type) /\ v \in PlainValues(table[i].type)
      BY <1>2, <2>1 DEF PlainTable, PlainFields
    <2>3. puts[i] = PutPlain(table[i], v)
      BY <1>1, <1>4, <2>1
    <2>4. ASSUME NEW z, Plainly(table, i, z), z[name] = x[name]
          PROVE  Writes(table, i, puts[i], z, y[name])
      <3>1. Writes(table, i, PutPlain(table[i], v), z, MergedPlain(table[i], z[table[i].name], v))
        BY <2>1, <2>2, <2>4, PlainWrites
      <3>2. MergedPlain(table[i], z[table[i].name], v) = y[name]
        BY <1>3, <2>1, <2>4
      <3> QED
        BY <2>3, <3>1, <3>2
    <2>5. FieldWrites(table, i, puts[i], x, y)
      BY <2>1, <2>4 DEF FieldWrites
    <2>6. puts[i] \in Seq(Seq(Byte))
      <3>1. Plainly(table, i, x)
        BY <1>2, FieldNamedIs DEF Plainly, PlainFields
      <3>2. Writes(table, i, puts[i], x, y[name])
        BY <2>4, <3>1
      <3> QED
        BY <3>2 DEF Writes, Guarded
    <2> QED
      BY <2>5, <2>6
  <1>6. puts \in Seq(Seq(Seq(Byte))) /\ Len(puts) = n
    <2>1. puts = [i \in 1..n |-> puts[i]]
      BY <1>1 DEF PlainPuts
    <2>2. \A i \in 1..n : puts[i] \in Seq(Seq(Byte))
      BY <1>1, <1>5
    <2> QED
      BY <1>1, <2>1, <2>2
  <1>7. TableWrites(table, puts, x, y)
    BY <1>1, <1>2, <1>3, <1>5, <1>6 DEF TableWrites, PlainFields
  <1>8. PlainEntries(table, m) = FlattenSeq(puts)
    BY <1>1 DEF PlainEntries, PlainPuts
  <1> QED
    BY <1>1, <1>7, <1>8, WholeTable

(* Embedded messages, written and read by their own tables. *)
InnerBytes(table, m) == FlattenSeq(PlainEntries(table, m))
(* One delimited entry for each message of a list. *)
InnerPuts(num, table, v) == [k \in DOMAIN v |-> Delimited(num, InnerBytes(table, v[k]))]

(* The content of each is read as its message. *)
LEMMA InnerReads ==
    ASSUME NEW table, Distinct(table), PlainTable(table),
           NEW x \in PlainMessages(table), NEW m \in PlainMessages(table),
           NEW c, c = InnerBytes(table, m)
    PROVE  /\ c \in Seq(Byte)
           /\ Fits(c) => UnmarshalPlain(table, c, x) = Read(MergedInner(table, x, m), Len(c))
  <1>1. PICK list, y : list = PlainEntries(table, m) /\ y = MergedInner(table, x, m)
    OBVIOUS
  <1>2. Script(table, list, x, y) /\ Guarded(table, list)
    BY <1>1, PlainScript
  <1>3. c = FlattenSeq(list)
    BY <1>1 DEF InnerBytes
  <1>4. list \in Seq(Seq(Byte))
    BY <1>2 DEF Guarded
  <1>5. c \in Seq(Byte)
    BY <1>3, <1>4, FlattenIsSeq
  <1>6. Fits(c) => UnmarshalPlain(table, c, x) = Read(y, Len(c))
    BY <1>2, <1>3, ScriptReads
  <1> QED
    BY <1>1, <1>5, <1>6

(* The entries of embedded messages, one by one. *)
InnerPutsAre(num, table, v, puts) ==
    /\ puts \in Seq(Seq(Byte)) /\ Len(puts) = Len(v) /\ Len(v) \in Nat
    /\ \A k \in 1..Len(v) : /\ puts[k] = Delimited(num, InnerBytes(table, v[k]))
                            /\ v[k] \in PlainMessages(table)
                            /\ InnerBytes(table, v[k]) \in Seq(Byte)
    /\ AllDelimited(num, puts, Len(v))

(* They are what InnerPutsAre says. *)
LEMMA InnerPutsFacts ==
    ASSUME NEW num \in 1..14, NEW table, Distinct(table), PlainTable(table),
           NEW v \in Seq(PlainMessages(table)), NEW puts, puts = InnerPuts(num, table, v)
    PROVE  InnerPutsAre(num, table, v, puts)
  <1>1. PICK l : l = Len(v) /\ l \in Nat /\ DOMAIN v = 1..l
    BY LenIsNat
  <1>2. \A k \in 1..l : v[k] \in PlainMessages(table)
    BY <1>1
  <1>3. \A k \in 1..l : InnerBytes(table, v[k]) \in Seq(Byte)
    BY <1>2, InnerReads
  <1>4. puts = [k \in 1..l |-> Delimited(num, InnerBytes(table, v[k]))]
    BY <1>1 DEF InnerPuts
  <1>5. \A k \in 1..l : Delimited(num, InnerBytes(table, v[k])) \in Seq(Byte)
    BY <1>3, DelimitedFacts
  <1>6. puts \in Seq(Seq(Byte)) /\ Len(puts) = l
    BY <1>1, <1>4, <1>5
  <1>7. AllDelimited(num, puts, l)
    BY <1>1, <1>3, <1>4 DEF AllDelimited
  <1> QED
    BY <1>1, <1>2, <1>3, <1>4, <1>6, <1>7 DEF InnerPutsAre

(* A list of messages is appended to the one read so far. *)
LEMMA MessageListWrites ==
    ASSUME NEW table, Distinct(table), NEW i \in DOMAIN table, table[i].type = "messageList",
           NEW inner, inner = table[i].table, Distinct(inner), PlainTable(inner),
           NEW x, Plainly(table, i, x), x[table[i].name] \in Seq(PlainMessages(inner)),
           NEW v \in Seq(PlainMessages(inner))
    PROVE  Writes(table, i, InnerPuts(table[i].num, inner, v), x, x[table[i].name] \o v)
  <1>1. PICK num, name, puts, S : /\ num = table[i].num /\ name = table[i].name
                                  /\ puts = InnerPuts(num, inner, v) /\ S = PlainMessages(inner)
    OBVIOUS
  <1>2. num \in 1..14
    BY <1>1 DEF Distinct
  <1>3. /\ puts \in Seq(Seq(Byte)) /\ Len(puts) = Len(v) /\ Len(v) \in Nat
        /\ \A k \in 1..Len(v) : /\ puts[k] = Delimited(num, InnerBytes(inner, v[k]))
                                /\ v[k] \in S /\ InnerBytes(inner, v[k]) \in Seq(Byte)
        /\ AllDelimited(num, puts, Len(v))
    <2>1. v \in Seq(PlainMessages(inner)) /\ puts = InnerPuts(num, inner, v)
      BY <1>1
    <2>2. InnerPutsAre(num, inner, v, puts)
      BY <1>2, <2>1, InnerPutsFacts
    <2> QED
      BY <1>1, <2>2 DEF InnerPutsAre
  <1>4. ASSUME NEW k \in 1..Len(v) PROVE Appends(table, puts[k], name, S, v[k])
    <2>1. ASSUME NEW z, z[name] \in Seq(S)
          PROVE  Takes(table, puts[k], z, [z EXCEPT ![name] = Append(z[name], v[k])])
      <3>1. PICK c, m, new : c = InnerBytes(inner, v[k]) /\ m = v[k] /\ new = Append(z[name], m)
        OBVIOUS
      <3>2. c \in Seq(Byte) /\ m \in S /\ puts[k] = Delimited(num, c)
        BY <1>3, <3>1
      <3>3. ASSUME Fits(c) PROVE Absorb(table[i], z[table[i].name], c) = Read(new, 0)
        <4>1. PICK e, r : /\ e = EmptyMessage(inner) /\ r = UnmarshalPlain(inner, c, e)
          OBVIOUS
        <4>2. e \in PlainMessages(inner)
          BY <4>1, PlainEmpty
        <4>3. MergedInner(inner, e, m) = m
          BY <1>1, <3>2, <4>1, <4>2, MergedInnerFacts
        <4>4. r = Read(m, Len(c))
          BY <1>1, <3>1, <3>2, <3>3, <4>1, <4>2, <4>3, InnerReads
        <4>5. r.ok = TRUE /\ r.value = m
          BY <4>4 DEF Read
        <4>6. PICK old : old = z[table[i].name]
          OBVIOUS
        <4>7. Absorb(table[i], old, c) = IF r.ok THEN Read(Append(old, r.value), 0) ELSE r
          BY <4>1 DEF Absorb, Then
        <4> QED
          BY <1>1, <3>1, <4>5, <4>6, <4>7
      <3>4. Absorbs(table[i], c, z[table[i].name], new)
        BY <3>3 DEF Absorbs
      <3>5. Sets(table, i, Delimited(table[i].num, c), z, new)
        BY <3>2, <3>4, InnerEntry
      <3> QED
        BY <1>1, <3>1, <3>2, <3>5 DEF Sets
    <2> QED
      BY <2>1 DEF Appends
  <1>5. Script(table, puts, x, [x EXCEPT ![name] = x[name] \o v])
    <2>1. /\ name \in DOMAIN x /\ x = [k \in DOMAIN x |-> x[k]]
          /\ x[name] \in Seq(S) /\ v \in Seq(S)
      BY <1>1 DEF Plainly
    <2> QED
      BY <1>3, <1>4, <2>1, ListScript
  <1>6. Guarded(table, puts)
    <2>1. table[i].type \in LengthTypes
      BY DEF LengthTypes
    <2> QED
      BY <1>1, <1>3, <2>1, GuardedDelimited
  <1> QED
    BY <1>1, <1>5, <1>6 DEF Writes

(* What a pointer points to when one more message was read into it. *)
PointerIs(field, inner, old, m, v) ==
    /\ Pointed(inner, old) \in PlainMessages(inner)
    /\ MergedField(field, old, v) = <<MergedInner(inner, Pointed(inner, old), m)>>

(* What is read into a pointer is the merge of what it points to. *)
LEMMA PointerMerges ==
    ASSUME NEW field, field.type = "pointer", NEW inner, inner = field.table,
           Distinct(inner), PlainTable(inner),
           NEW old \in Seq(PlainMessages(inner)), Len(old) <= 1,
           NEW m \in PlainMessages(inner), NEW v, v # <<>>, v = <<m>>, v[1] = m
    PROVE  PointerIs(field, inner, old, m, v)
  <1>1. v # <<>> /\ v[1] = m
    OBVIOUS
  <1>2. CASE old = <<>>
    <2>1. Pointed(inner, old) = EmptyMessage(inner)
      BY <1>2 DEF Pointed
    <2>2. EmptyMessage(inner) \in PlainMessages(inner)
      BY PlainEmpty
    <2>3. MergedInner(inner, EmptyMessage(inner), m) = m
      BY <2>2, MergedInnerFacts
    <2>4. MergedField(field, old, v) = v
      BY <1>1, <1>2 DEF MergedField, MergedPlain, Unset
    <2> QED
      BY <2>1, <2>2, <2>3, <2>4 DEF PointerIs
  <1>3. CASE old # <<>>
    <2>1. Pointed(inner, old) = old[1]
      BY <1>3 DEF Pointed
    <2>2. Len(old) \in Nat /\ Len(old) # 0
      BY <1>3, LenIsNat
    <2>3. old[1] \in PlainMessages(inner)
      BY <2>2
    <2>4. MergedField(field, old, v) = <<MergedInner(inner, old[1], v[1])>>
      BY <1>1, <1>3 DEF MergedField
    <2> QED
      BY <1>1, <2>1, <2>3, <2>4 DEF PointerIs
  <1> QED
    BY <1>2, <1>3

(* A pointer is written as at most one entry and merged when read. *)
LEMMA PointerWrites ==
    ASSUME NEW table, Distinct(table), NEW i \in DOMAIN table, table[i].type = "pointer",
           NEW inner, inner = table[i].table, Distinct(inner), PlainTable(inner),
           NEW x, Plainly(table, i, x), x[table[i].name] \in Seq(PlainMessages(inner)),
           Len(x[table[i].name]) <= 1,
           NEW v \in Seq(PlainMessages(inner)), Len(v) <= 1
    PROVE  Writes(table, i, InnerPuts(table[i].num, inner, v), x,
                  MergedField(table[i], x[table[i].name], v))
  <1>1. PICK num, name, puts, S, old :
           /\ num = table[i].num /\ name = table[i].name
           /\ puts = InnerPuts(num, inner, v) /\ S = PlainMessages(inner) /\ old = x[name]
    OBVIOUS
  <1>2. num \in 1..14 /\ Len(v) \in Nat /\ DOMAIN v = 1..Len(v)
    BY <1>1, LenIsNat DEF Distinct
  <1>3. CASE Len(v) = 0
    <2>1. v = <<>>
      BY <1>3
    <2>2. puts = <<>>
      <3>1. puts = [k \in 1..0 |-> Delimited(num, InnerBytes(inner, v[k]))]
        BY <1>1, <1>2, <1>3 DEF InnerPuts
      <3> QED
        BY <3>1
    <2>3. MergedField(table[i], old, v) = old
      BY <2>1 DEF MergedField, MergedPlain, Unset
    <2>4. [x EXCEPT ![name] = old] = x
      BY <1>1, ExceptSame DEF Plainly
    <2>5. Script(table, <<>>, x, x) /\ Guarded(table, <<>>)
      BY ScriptNone, GuardedNone
    <2> QED
      BY <1>1, <2>2, <2>3, <2>4, <2>5 DEF Writes
  <1>4. CASE Len(v) = 1
    <2>1. PICK m : m = v[1] /\ m \in S /\ v = <<m>>
      <3>1. v[1] \in S
        <4>1. v \in Seq(S)
          BY <1>1
        <4> QED
          BY <1>2, <1>4, <4>1
      <3>2. PICK w : w = <<v[1]>>
        OBVIOUS
      <3>3. w \in Seq(S) /\ Len(w) = 1 /\ w[1] = v[1] /\ v \in Seq(S)
        BY <1>1, <3>1, <3>2
      <3>4. \A k \in 1..1 : w[k] = v[k]
        BY <3>3
      <3>5. v = w
        BY <1>4, <3>3, <3>4, SeqEqual
      <3> QED
        BY <3>1, <3>2, <3>5
    <2>2. PICK c, z, new : /\ c = InnerBytes(inner, m) /\ z = Pointed(inner, old)
                           /\ new = MergedField(table[i], old, v)
      OBVIOUS
    <2>3. z \in S /\ new = <<MergedInner(inner, z, m)>>
      <3>1. PICK field : field = table[i]
        OBVIOUS
      <3>2. /\ field.type = "pointer" /\ inner = field.table /\ m \in PlainMessages(inner)
            /\ old \in Seq(PlainMessages(inner)) /\ Len(old) <= 1
        BY <1>1, <2>1, <3>1
      <3>3. PointerIs(field, inner, old, m, v)
        <4>1. v # <<>> /\ v[1] = m
          BY <2>1
        <4> QED
          BY <2>1, <3>2, <4>1, PointerMerges
      <3> QED
        BY <1>1, <2>2, <3>1, <3>3 DEF PointerIs
    <2>4. puts = <<Delimited(num, c)>>
      <3>1. puts = [k \in 1..1 |-> Delimited(num, InnerBytes(inner, v[k]))]
        BY <1>1, <1>2, <1>4 DEF InnerPuts
      <3> QED
        BY <2>1, <2>2, <3>1
    <2>5. c \in Seq(Byte)
      BY <1>1, <2>1, <2>2, InnerReads
    <2>6. ASSUME Fits(c) PROVE Absorb(table[i], old, c) = Read(new, 0)
      <3>1. PICK r, w : r = UnmarshalPlain(inner, c, z) /\ w = MergedInner(inner, z, m)
        OBVIOUS
      <3>2. r = Read(w, Len(c))
        BY <1>1, <2>1, <2>2, <2>3, <2>6, <3>1, InnerReads
      <3>3. r.ok = TRUE /\ r.value = w
        BY <3>2 DEF Read
      <3>4. Absorb(table[i], old, c) = IF r.ok THEN Read(<<r.value>>, 0) ELSE r
        BY <2>2, <3>1 DEF Absorb, Then
      <3> QED
        BY <2>3, <3>1, <3>3, <3>4
    <2>7. Absorbs(table[i], c, x[table[i].name], new)
      BY <1>1, <2>6 DEF Absorbs
    <2>8. Sets(table, i, Delimited(table[i].num, c), x, new)
      BY <2>5, <2>7, InnerEntry
    <2>9. Script(table, puts, x, [x EXCEPT ![name] = new])
      BY <1>1, <2>4, <2>8, ScriptOne DEF Sets
    <2>10. Guarded(table, puts)
      <3>1. InnerPutsAre(num, inner, v, puts)
        BY <1>1, <1>2, InnerPutsFacts
      <3>2. AllDelimited(num, puts, Len(v)) /\ table[i].type \in LengthTypes
        BY <3>1 DEF InnerPutsAre, LengthTypes
      <3> QED
        BY <1>1, <3>2, GuardedDelimited
    <2> QED
      BY <1>1, <2>2, <2>9, <2>10 DEF Writes
  <1> QED
    BY <1>2, <1>3, <1>4

(* The entries of a field of any type. *)
LEMMA PutIsInner ==
    ASSUME NEW field, field.type \in EmbeddedTypes, NEW S, NEW v \in Seq(S)
    PROVE  Put(field, v) = InnerPuts(field.num, field.table, v)
  <1>1. PICK written : written = [k \in DOMAIN v |-> PlainEntries(field.table, v[k])]
    OBVIOUS
  <1>2. Put(field, v) = PutMessages(field.num, written)
    BY <1>1 DEF Put
  <1>3. PutMessages(field.num, written)
           = [k \in DOMAIN v |-> Delimited(field.num, FlattenSeq(written[k]))]
    BY <1>1 DEF PutMessages
  <1>4. \A k \in DOMAIN v : FlattenSeq(written[k]) = InnerBytes(field.table, v[k])
    BY <1>1 DEF InnerBytes
  <1> QED
    BY <1>2, <1>3, <1>4 DEF InnerPuts

(* Fields of plain types among those of any type. *)
LEMMA PlainFieldIs ==
    ASSUME NEW field, field.type \in PlainTypes
    PROVE  /\ Values(field) = PlainValues(field.type)
           /\ \A v : Put(field, v) = PutPlain(field, v)
           /\ \A a, b : MergedField(field, a, b) = MergedPlain(field, a, b)
  BY DEF PlainTypes, Values, Put, EmbeddedTypes, MergedField

(* What is written of any field is read as the merge of both values. *)
LEMMA AnyWrites ==
    ASSUME NEW table, WellFormed(table), NEW i \in DOMAIN table,
           NEW x, Plainly(table, i, x), x[table[i].name] \in Values(table[i]),
           NEW v \in Values(table[i])
    PROVE  Writes(table, i, Put(table[i], v), x, MergedField(table[i], x[table[i].name], v))
  <1>1. Distinct(table)
    BY DEF WellFormed
  <1>2. CASE table[i].type \in PlainTypes
    <2>1. PICK old : old = x[table[i].name]
      OBVIOUS
    <2>2. /\ old \in PlainValues(table[i].type) /\ v \in PlainValues(table[i].type)
          /\ Put(table[i], v) = PutPlain(table[i], v)
          /\ MergedField(table[i], old, v) = MergedPlain(table[i], old, v)
      BY <1>2, <2>1, PlainFieldIs
    <2>3. Writes(table, i, PutPlain(table[i], v), x, MergedPlain(table[i], x[table[i].name], v))
      BY <1>1, <1>2, <2>1, <2>2, PlainWrites
    <2> QED
      BY <2>1, <2>2, <2>3
  <1>3. CASE table[i].type \notin PlainTypes
    <2>1. PICK inner, old : inner = table[i].table /\ old = x[table[i].name]
      OBVIOUS
    <2>2. table[i].type \in EmbeddedTypes /\ PlainTable(inner) /\ Distinct(inner)
      BY <1>3, <2>1 DEF WellFormed
    <2>3. /\ v \in Seq(PlainMessages(inner)) /\ old \in Seq(PlainMessages(inner))
          /\ table[i].type = "pointer" => Len(v) <= 1 /\ Len(old) <= 1
      BY <2>1, <2>2 DEF Values, EmbeddedTypes
    <2>4. Put(table[i], v) = InnerPuts(table[i].num, inner, v)
      BY <2>1, <2>2, <2>3, PutIsInner
    <2>5. CASE table[i].type = "pointer"
      <3>1. Writes(table, i, InnerPuts(table[i].num, inner, v), x,
                   MergedField(table[i], x[table[i].name], v))
        BY <1>1, <2>1, <2>2, <2>3, <2>5, PointerWrites
      <3> QED
        BY <2>4, <3>1
    <2>6. CASE table[i].type = "messageList"
      <3>1. Writes(table, i, InnerPuts(table[i].num, inner, v), x, x[table[i].name] \o v)
        BY <1>1, <2>1, <2>2, <2>3, <2>6, MessageListWrites
      <3>2. MergedField(table[i], old, v) = old \o v
        BY <2>6 DEF MergedField
      <3> QED
        BY <2>1, <2>4, <3>1, <3>2
    <2> QED
      BY <2>2, <2>5, <2>6 DEF EmbeddedTypes
  <1> QED
    BY <1>2, <1>3

(* A field that a table may have. *)
WellTyped(field) ==
    \/ field.type \in PlainTypes
    \/ field.type \in EmbeddedTypes /\ PlainTable(field.table) /\ Distinct(field.table)

(* The fields of a table, with their names and numbers distinct. *)
LEMMA WellFormedIs ==
    ASSUME NEW table, WellFormed(table)
    PROVE  Distinct(table) /\ \A i \in DOMAIN table : WellTyped(table[i])
  BY DEF WellFormed, WellTyped

(* A message of any table, by its fields. *)
Fields(table, m) ==
    /\ m = [k \in Names(table) |-> m[k]]
    /\ \A i \in DOMAIN table : m[table[i].name] \in Values(table[i])

(* Messages of any table are what Fields says. *)
LEMMA MessagesAre ==
    ASSUME NEW table, NEW m
    PROVE  m \in Messages(table) <=> Fields(table, m)
  <1>1. ASSUME m \in Messages(table) PROVE Fields(table, m)
    BY <1>1 DEF Messages, Fields
  <1>2. ASSUME Fields(table, m) PROVE m \in Messages(table)
    <2>1. \A k \in Names(table) : m[k] \in UNION {Values(table[i]) : i \in DOMAIN table}
      BY <1>2, NamesAre DEF Fields
    <2>2. m = [k \in Names(table) |-> m[k]]
      BY <1>2 DEF Fields
    <2>3. m \in [Names(table) -> UNION {Values(table[i]) : i \in DOMAIN table}]
      BY <2>1, <2>2
    <2> QED
      BY <1>2, <2>3 DEF Messages, Fields
  <1> QED
    BY <1>1, <1>2

(* The unset value of any field is one of its values. *)
LEMMA UnsetIsTyped ==
    ASSUME NEW field, WellTyped(field)
    PROVE  Unset(field.type) \in Values(field)
  <1>1. CASE field.type \in PlainTypes
    BY <1>1, PlainFieldIs, UnsetIsValue
  <1>2. CASE field.type \notin PlainTypes
    <2>1. field.type \in EmbeddedTypes
      BY <1>2 DEF WellTyped
    <2>2. Unset(field.type) = <<>>
      BY <2>1 DEF Unset, EmbeddedTypes
    <2>3. <<>> \in Seq(PlainMessages(field.table)) /\ Len(<<>>) <= 1
      OBVIOUS
    <2> QED
      BY <2>1, <2>2, <2>3 DEF Values, EmbeddedTypes
  <1> QED
    BY <1>1, <1>2

(* The empty message of any table is a message. *)
LEMMA EmptyIsMessage ==
    ASSUME NEW table, WellFormed(table)
    PROVE  EmptyMessage(table) \in Messages(table)
  <1>1. PICK e : e = EmptyMessage(table)
    OBVIOUS
  <1>2. Distinct(table) /\ \A i \in DOMAIN table : WellTyped(table[i])
    BY WellFormedIs
  <1>3. e = [k \in Names(table) |-> e[k]]
    BY <1>1, <1>2, EmptyFields
  <1>4. \A i \in DOMAIN table : e[table[i].name] \in Values(table[i])
    BY <1>1, <1>2, EmptyFields, UnsetIsTyped
  <1> QED
    BY <1>1, <1>3, <1>4, MessagesAre DEF Fields

(* The merge of two values of any field is a value. *)
LEMMA MergedFieldFacts ==
    ASSUME NEW field, WellTyped(field), NEW a \in Values(field), NEW b \in Values(field)
    PROVE  /\ MergedField(field, a, b) \in Values(field)
           /\ MergedField(field, Unset(field.type), b) = b
  <1>1. CASE field.type \in PlainTypes
    BY <1>1, PlainFieldIs, MergedPlainFacts
  <1>2. CASE field.type = "messageList"
    <2>1. PICK S : S = PlainMessages(field.table)
      OBVIOUS
    <2>2. Values(field) = Seq(S)
      BY <1>2, <2>1 DEF Values
    <2>3. a \o b \in Seq(S) /\ <<>> \o b = b
      BY <2>2, ConcatEmptySeq
    <2>4. \A x, y : MergedField(field, x, y) = x \o y
      BY <1>2 DEF MergedField
    <2>5. Unset(field.type) = <<>>
      BY <1>2 DEF Unset
    <2> QED
      BY <2>2, <2>3, <2>4, <2>5
  <1>3. CASE field.type = "pointer"
    <2>1. PICK inner, S : inner = field.table /\ S = PlainMessages(inner)
      OBVIOUS
    <2>2. Values(field) = {v \in Seq(S) : Len(v) <= 1}
      BY <1>3, <2>1 DEF Values
    <2>3. Distinct(inner) /\ PlainTable(inner)
      BY <1>3, <2>1 DEF WellTyped, PlainTypes
    <2>4. a \in Seq(S) /\ b \in Seq(S) /\ Len(a) <= 1 /\ Len(b) <= 1
      BY <2>2
    <2>5. Unset(field.type) = <<>>
      BY <1>3 DEF Unset
    <2>6. MergedField(field, <<>>, b) = b
      BY <1>3 DEF MergedField, MergedPlain, Unset
    <2>7. CASE a = <<>> \/ b = <<>>
      <3>1. MergedField(field, a, b) \in {a, b}
        BY <1>3, <2>7 DEF MergedField, MergedPlain, Unset
      <3> QED
        BY <2>5, <2>6, <3>1
    <2>8. CASE a # <<>> /\ b # <<>>
      <3>1. MergedField(field, a, b) = <<MergedInner(inner, a[1], b[1])>>
        BY <1>3, <2>1, <2>8 DEF MergedField
      <3>2. Len(a) \in Nat /\ Len(a) # 0 /\ Len(b) \in Nat /\ Len(b) # 0
        BY <2>4, <2>8, LenIsNat
      <3>3. a[1] \in S /\ b[1] \in S
        BY <2>4, <3>2
      <3>4. PICK w : w = MergedInner(inner, a[1], b[1])
        OBVIOUS
      <3>5. w \in S
        BY <2>1, <2>3, <3>3, <3>4, MergedInnerFacts
      <3>6. <<w>> \in Seq(S) /\ Len(<<w>>) <= 1
        BY <3>5
      <3>7. <<w>> \in Values(field)
        BY <2>2, <3>6
      <3> QED
        BY <2>5, <2>6, <3>1, <3>4, <3>7
    <2> QED
      BY <2>7, <2>8
  <1> QED
    BY <1>1, <1>2, <1>3 DEF WellTyped, EmbeddedTypes

(* The merge of two messages is a message; onto the empty one, the second. *)
LEMMA MergedFacts ==
    ASSUME NEW table, WellFormed(table), NEW a \in Messages(table), NEW b \in Messages(table),
           NEW c, c = Merged(table, a, b)
    PROVE  /\ c \in Messages(table)
           /\ \A i \in DOMAIN table :
                 c[table[i].name] = MergedField(table[i], a[table[i].name], b[table[i].name])
           /\ a = EmptyMessage(table) => c = b
  <1>0. Distinct(table) /\ \A i \in DOMAIN table : WellTyped(table[i])
    BY WellFormedIs
  <1>1. Fields(table, a) /\ Fields(table, b)
    BY MessagesAre
  <1>2. \A i \in DOMAIN table :
           c[table[i].name] = MergedField(table[i], a[table[i].name], b[table[i].name])
    BY <1>0, FieldNamedIs DEF Merged
  <1>3. c = [k \in Names(table) |-> c[k]]
    BY DEF Merged
  <1>4. \A i \in DOMAIN table : c[table[i].name] \in Values(table[i])
    <2> TAKE i \in DOMAIN table
    <2>1. a[table[i].name] \in Values(table[i]) /\ b[table[i].name] \in Values(table[i])
      BY <1>1 DEF Fields
    <2> QED
      BY <1>0, <1>2, <2>1, MergedFieldFacts
  <1>5. c \in Messages(table)
    BY <1>3, <1>4, MessagesAre DEF Fields
  <1>6. ASSUME a = EmptyMessage(table) PROVE c = b
    <2>1. \A i \in DOMAIN table : c[table[i].name] = b[table[i].name]
      <3> TAKE i \in DOMAIN table
      <3>1. a[table[i].name] = Unset(table[i].type)
        BY <1>0, <1>6, EmptyFields
      <3>2. b[table[i].name] \in Values(table[i])
        BY <1>1 DEF Fields
      <3> QED
        BY <1>0, <1>2, <3>1, <3>2, UnsetIsTyped, MergedFieldFacts
    <2>2. \A k \in Names(table) : c[k] = b[k]
      BY <2>1, NamesAre
    <2>3. b = [k \in Names(table) |-> b[k]]
      BY <1>1 DEF Fields
    <2> QED
      BY <1>3, <2>2, <2>3
  <1> QED
    BY <1>2, <1>5, <1>6

(* The entries of a message, field by field. *)
AllPuts(table, m) == [i \in DOMAIN table |-> Put(table[i], m[table[i].name])]

(* They merge the message into whatever they are read onto. *)
LEMMA FullScript ==
    ASSUME NEW table, WellFormed(table), NEW x \in Messages(table), NEW m \in Messages(table)
    PROVE  /\ Script(table, Entries(table, m), x, Merged(table, x, m))
           /\ Guarded(table, Entries(table, m))
           /\ AllPuts(table, m) \in Seq(Seq(Seq(Byte)))
  <1>0. Distinct(table) /\ \A i \in DOMAIN table : WellTyped(table[i])
    BY WellFormedIs
  <1>1. PICK n, puts, y : /\ n = Len(table) /\ n \in Nat /\ DOMAIN table = 1..n
                          /\ puts = AllPuts(table, m) /\ y = Merged(table, x, m)
    BY <1>0 DEF Distinct
  <1>2. Fields(table, x) /\ Fields(table, m)
    BY MessagesAre
  <1>3. /\ y = [k \in Names(table) |-> y[k]]
        /\ \A i \in DOMAIN table :
              y[table[i].name] = MergedField(table[i], x[table[i].name], m[table[i].name])
    BY <1>1, MergedFacts DEF Merged
  <1>4. \A i \in 1..n : puts[i] = Put(table[i], m[table[i].name])
    BY <1>1 DEF AllPuts
  <1>5. ASSUME NEW i \in DOMAIN table
        PROVE  FieldWrites(table, i, puts[i], x, y) /\ puts[i] \in Seq(Seq(Byte))
    <2>1. PICK name, v : name = table[i].name /\ v = m[name]
      OBVIOUS
    <2>2. x[name] \in Values(table[i]) /\ v \in Values(table[i])
      BY <1>2, <2>1 DEF Fields
    <2>3. puts[i] = Put(table[i], v)
      BY <1>1, <1>4, <2>1
    <2>4. ASSUME NEW z, Plainly(table, i, z), z[name] = x[name]
          PROVE  Writes(table, i, puts[i], z, y[name])
      <3>1. Writes(table, i, Put(table[i], v), z, MergedField(table[i], z[table[i].name], v))
        BY <2>1, <2>2, <2>4, AnyWrites
      <3>2. MergedField(table[i], z[table[i].name], v) = y[name]
        BY <1>3, <2>1, <2>4
      <3> QED
        BY <2>3, <3>1, <3>2
    <2>5. FieldWrites(table, i, puts[i], x, y)
      BY <2>1, <2>4 DEF FieldWrites
    <2>6. puts[i] \in Seq(Seq(Byte))
      <3>1. Plainly(table, i, x)
        BY <1>0, <1>2, FieldNamedIs DEF Plainly, Fields
      <3>2. Writes(table, i, puts[i], x, y[name])
        BY <2>4, <3>1
      <3> QED
        BY <3>2 DEF Writes, Guarded
    <2> QED
      BY <2>5, <2>6
  <1>6. puts \in Seq(Seq(Seq(Byte))) /\ Len(puts) = n
    <2>1. puts = [i \in 1..n |-> puts[i]]
      BY <1>1 DEF AllPuts
    <2>2. \A i \in 1..n : puts[i] \in Seq(Seq(Byte))
      BY <1>1, <1>5
    <2> QED
      BY <1>1, <2>1, <2>2
  <1>7. TableWrites(table, puts, x, y)
    BY <1>1, <1>2, <1>3, <1>5, <1>6 DEF TableWrites, Fields
  <1>8. Entries(table, m) = FlattenSeq(puts)
    BY <1>1 DEF Entries, AllPuts
  <1> QED
    BY <1>0, <1>1, <1>6, <1>7, <1>8, WholeTable

(* What is written of a message is read back, whatever it is read onto. *)
LEMMA RoundTrip ==
    ASSUME NEW table, WellFormed(table), NEW x \in Messages(table), NEW m \in Messages(table),
           NEW s, s = FlattenSeq(Entries(table, m)), Fits(s)
    PROVE  /\ Unmarshal(table, s, x) = Read(Merged(table, x, m), Len(s))
           /\ Unmarshal(table, s, EmptyMessage(table)) = Read(m, Len(s))
  <1>1. PICK list, e : list = Entries(table, m) /\ e = EmptyMessage(table)
    OBVIOUS
  <1>2. e \in Messages(table)
    BY <1>1, EmptyIsMessage
  <1>3. Script(table, list, x, Merged(table, x, m)) /\ Script(table, list, e, Merged(table, e, m))
    BY <1>1, <1>2, FullScript
  <1>4. Merged(table, e, m) = m
    BY <1>1, <1>2, MergedFacts
  <1> QED
    BY <1>1, <1>3, <1>4, ScriptReads

(* No number of a list is larger than their sum. *)
LEMMA PartOfSum ==
    ASSUME NEW list \in Seq(Nat), NEW i \in 1..Len(list)
    PROVE  list[i] \in Nat /\ SumOf(list) \in Nat /\ list[i] <= SumOf(list)
  <1>1. PICK n : n = Len(list) /\ n \in Nat /\ \A k \in 1..n : list[k] \in Nat
    BY LenIsNat
  <1>2. PICK sum : IsSums(sum, list) /\ SumOf(list) = sum[n]
    BY <1>1, SumExists
  <1>3. /\ \A k \in 0..n : sum[k] \in Nat
        /\ \A k \in 1..n : sum[k] = sum[k - 1] + list[k]
    BY <1>1, <1>2 DEF IsSums
  <1> DEFINE G == {k \in Nat : k <= n /\ i <= k => list[i] <= sum[k]}
  <1>4. 0 \in G
    BY <1>1
  <1>5. ASSUME NEW k \in 1..n, k - 1 \in G PROVE k \in G
    <2>1. k \in Nat /\ k - 1 \in 0..n /\ k \in 0..n /\ k - 1 <= n
      BY <1>1
    <2>2. sum[k] = sum[k - 1] + list[k] /\ sum[k - 1] \in Nat /\ list[k] \in Nat
      BY <1>1, <1>3, <2>1
    <2>3. CASE i <= k - 1
      <3>1. list[i] <= sum[k - 1]
        BY <1>5, <2>1, <2>3
      <3> QED
        BY <1>1, <2>1, <2>2, <3>1
    <2>4. CASE i = k
      BY <2>1, <2>2, <2>4
    <2> QED
      BY <1>1, <2>1, <2>3, <2>4
  <1> HIDE DEF G
  <1>6. \A k \in 0..n : k \in G
    BY <1>1, <1>4, <1>5, BoundedInduction
  <1>7. n \in G /\ n \in 0..n /\ n <= n /\ i <= n
    BY <1>1, <1>6
  <1> QED
    BY <1>1, <1>2, <1>3, <1>7 DEF G

(* The length of strings joined to one. *)
LengthsOf(list) == [k \in DOMAIN list |-> Len(list[k])]

(* The lengths of strings, one for each. *)
LEMMA LengthsFacts ==
    ASSUME NEW S, NEW list \in Seq(Seq(S)), NEW l, l = LengthsOf(list)
    PROVE  /\ l \in Seq(Nat) /\ Len(l) = Len(list) /\ Len(list) \in Nat
           /\ \A k \in 1..Len(list) : l[k] = Len(list[k]) /\ list[k] \in Seq(S)
  <1>1. PICK n : n = Len(list) /\ n \in Nat /\ DOMAIN list = 1..n
    BY LenIsNat
  <1>2. \A k \in 1..n : list[k] \in Seq(S)
    BY <1>1
  <1>3. \A k \in 1..n : Len(list[k]) \in Nat
    BY <1>2, LenIsNat
  <1>4. l = [k \in 1..n |-> Len(list[k])]
    BY <1>1 DEF LengthsOf
  <1> QED
    BY <1>1, <1>2, <1>3, <1>4

(* The length of a join is the sum of the lengths. *)
LEMMA FlattenLength ==
    ASSUME NEW S, NEW list \in Seq(Seq(S))
    PROVE  Len(FlattenSeq(list)) = SumOf(LengthsOf(list))
  <1>1. PICK n, l : n = Len(list) /\ l = LengthsOf(list)
    OBVIOUS
  <1>2. /\ l \in Seq(Nat) /\ Len(l) = n /\ n \in Nat
        /\ \A k \in 1..n : l[k] = Len(list[k]) /\ list[k] \in Seq(S)
    BY <1>1, LengthsFacts
  <1>3. PICK join : IsJoin(join, S, list) /\ FlattenSeq(list) = join[n]
    BY <1>1, JoinExists
  <1>4. PICK sum : IsSums(sum, l) /\ SumOf(l) = sum[n]
    BY <1>2, SumExists
  <1>5. /\ join[0] = <<>> /\ sum[0] = 0
        /\ \A k \in 0..n : join[k] \in Seq(S)
        /\ \A k \in 1..n : join[k] = join[k - 1] \o list[k] /\ sum[k] = sum[k - 1] + l[k]
    BY <1>1, <1>2, <1>3, <1>4 DEF IsJoin, IsSums
  <1> DEFINE G == {k \in Nat : k <= n => Len(join[k]) = sum[k]}
  <1>6. 0 \in G
    BY <1>5
  <1>7. ASSUME NEW k \in 1..n, k - 1 \in G PROVE k \in G
    <2>1. k \in Nat /\ k - 1 \in 0..n /\ k - 1 <= n
      BY <1>2
    <2>2. PICK a, b : a = join[k - 1] /\ b = list[k]
      OBVIOUS
    <2>3. a \in Seq(S) /\ b \in Seq(S) /\ join[k] = a \o b /\ l[k] = Len(b)
      BY <1>2, <1>5, <2>1, <2>2
    <2>4. Len(a \o b) = Len(a) + Len(b)
      BY <2>3, JoinFacts
    <2>5. Len(a) = sum[k - 1]
      BY <1>7, <2>1, <2>2
    <2> QED
      BY <1>5, <2>1, <2>3, <2>4, <2>5
  <1> HIDE DEF G
  <1>8. \A k \in 0..n : k \in G
    BY <1>2, <1>6, <1>7, BoundedInduction
  <1>9. n \in G /\ n <= n
    BY <1>2, <1>8
  <1> QED
    BY <1>1, <1>3, <1>4, <1>9 DEF G

(* A part of a join that fits does, too. *)
LEMMA PartFits ==
    ASSUME NEW list \in Seq(Seq(Byte)), Fits(FlattenSeq(list)), NEW k \in 1..Len(list)
    PROVE  Fits(list[k])
  <1>1. PICK l, s : l = LengthsOf(list) /\ s = FlattenSeq(list)
    OBVIOUS
  <1>2. l \in Seq(Nat) /\ Len(l) = Len(list) /\ l[k] = Len(list[k]) /\ list[k] \in Seq(Byte)
    BY <1>1, LengthsFacts
  <1>3. l[k] <= SumOf(l)
    BY <1>2, PartOfSum
  <1>4. Len(s) = SumOf(l)
    BY <1>1, FlattenLength
  <1> QED
    BY <1>1, <1>2, <1>3, <1>4, ShorterFits

(* One string joined is itself. *)
LEMMA FlattenOne ==
    ASSUME NEW S, NEW e \in Seq(S)
    PROVE  FlattenSeq(<<e>>) = e
  <1>1. PICK list : list = <<e>>
    OBVIOUS
  <1>2. list \in Seq(Seq(S)) /\ Len(list) = 1 /\ list[1] = e
    BY <1>1
  <1>3. PICK join : IsJoin(join, S, list) /\ FlattenSeq(list) = join[1]
    BY <1>2, JoinExists
  <1>4. join[0] = <<>> /\ join[1] = join[1 - 1] \o list[1] /\ 1 - 1 = 0
    BY <1>2, <1>3 DEF IsJoin
  <1>5. <<>> \o e = e
    BY ConcatEmptySeq
  <1>6. join[1] = e
    BY <1>2, <1>4, <1>5
  <1> QED
    BY <1>1, <1>3, <1>6

(* The length of lists of lists, joined twice. *)
LEMMA FlattenTwice ==
    ASSUME NEW S, NEW puts \in Seq(Seq(Seq(S))),
           NEW parts, parts = [k \in DOMAIN puts |-> FlattenSeq(puts[k])]
    PROVE  /\ parts \in Seq(Seq(S)) /\ Len(parts) = Len(puts)
           /\ FlattenSeq(FlattenSeq(puts)) = FlattenSeq(parts)
  <1>1. PICK n : n = Len(puts) /\ n \in Nat /\ DOMAIN puts = 1..n
    BY LenIsNat
  <1>2. \A k \in 1..n : puts[k] \in Seq(Seq(S))
    BY <1>1
  <1>3. \A k \in 1..n : FlattenSeq(puts[k]) \in Seq(S)
    BY <1>2, FlattenIsSeq
  <1>4. parts = [k \in 1..n |-> FlattenSeq(puts[k])]
    BY <1>1
  <1>5. parts \in Seq(Seq(S)) /\ Len(parts) = n /\ \A k \in 1..n : parts[k] = FlattenSeq(puts[k])
    BY <1>1, <1>3, <1>4
  <1>6. PICK outer : IsJoin(outer, Seq(S), puts) /\ FlattenSeq(puts) = outer[n]
    BY <1>1, JoinExists
  <1>7. PICK join : IsJoin(join, S, parts) /\ FlattenSeq(parts) = join[n]
    BY <1>5, JoinExists
  <1>8. /\ join[0] = <<>> /\ outer[0] = <<>>
        /\ \A k \in 0..n : outer[k] \in Seq(Seq(S))
        /\ \A k \in 1..n : join[k] = join[k - 1] \o parts[k] /\ outer[k] = outer[k - 1] \o puts[k]
    BY <1>1, <1>5, <1>6, <1>7 DEF IsJoin
  <1> DEFINE G == {k \in Nat : k <= n => FlattenSeq(outer[k]) = join[k]}
  <1>9. 0 \in G
    BY <1>8, FlattenNone
  <1>10. ASSUME NEW k \in 1..n, k - 1 \in G PROVE k \in G
    <2>1. k \in Nat /\ k - 1 \in 0..n /\ k - 1 <= n
      BY <1>1
    <2>2. PICK a, b : a = outer[k - 1] /\ b = puts[k]
      OBVIOUS
    <2>3. a \in Seq(Seq(S)) /\ b \in Seq(Seq(S)) /\ outer[k] = a \o b
      BY <1>2, <1>8, <2>1, <2>2
    <2>4. FlattenSeq(a \o b) = FlattenSeq(a) \o FlattenSeq(b)
      BY <2>3, FlattenJoin
    <2>5. FlattenSeq(a) = join[k - 1]
      BY <1>10, <2>1, <2>2
    <2>6. FlattenSeq(b) = parts[k]
      BY <1>5, <2>2
    <2>7. FlattenSeq(outer[k]) = join[k - 1] \o parts[k]
      BY <2>3, <2>4, <2>5, <2>6
    <2> QED
      BY <1>8, <2>1, <2>7
  <1> HIDE DEF G
  <1>11. \A k \in 0..n : k \in G
    BY <1>1, <1>9, <1>10, BoundedInduction
  <1>12. n \in G /\ n <= n
    BY <1>1, <1>11
  <1> QED
    BY <1>1, <1>5, <1>6, <1>7, <1>12 DEF G

(* Size counts the bytes of a delimited entry. *)
LEMMA DelimitedSize ==
    ASSUME NEW num \in 1..14, NEW c \in Seq(Byte), Fits(Delimited(num, c))
    PROVE  SizeDelimited(Len(c)) = Len(Delimited(num, c)) /\ Fits(c)
  <1>1. /\ Len(Delimited(num, c)) = 1 + Len(Varint(Len(c))) + Len(c) /\ Fits(c)
    BY DelimitedFacts
  <1>2. PICK n : n = Len(c) /\ n \in Word
    BY <1>1, MeasuredFacts
  <1>3. Sov(n) = Len(Varint(n))
    BY <1>2, SovIsLength
  <1> QED
    BY <1>1, <1>2, <1>3 DEF SizeDelimited

(* The sizes of delimited entries, from the sizes of their contents. *)
Delimits(num, n, contents, puts, sizes) ==
    /\ \A k \in 1..n : contents[k] \in Seq(Byte)
    /\ puts = [k \in 1..n |-> Delimited(num, contents[k])]
    /\ sizes = [k \in 1..n |-> SizeDelimited(Len(contents[k]))]

(* And of a list of them. *)
LEMMA EachSize ==
    ASSUME NEW num \in 1..14, NEW n \in Nat, NEW contents, NEW puts, NEW sizes,
           Delimits(num, n, contents, puts, sizes), Fits(FlattenSeq(puts))
    PROVE  /\ puts \in Seq(Seq(Byte)) /\ SumOf(sizes) = Len(FlattenSeq(puts))
           /\ \A k \in 1..n : Fits(contents[k])
  <1>0. /\ \A k \in 1..n : contents[k] \in Seq(Byte)
        /\ puts = [k \in 1..n |-> Delimited(num, contents[k])]
        /\ sizes = [k \in 1..n |-> SizeDelimited(Len(contents[k]))]
    BY DEF Delimits
  <1>1. \A k \in 1..n : Delimited(num, contents[k]) \in Seq(Byte)
    BY <1>0, DelimitedFacts
  <1>2. puts \in Seq(Seq(Byte)) /\ Len(puts) = n
    BY <1>0, <1>1
  <1>3. ASSUME NEW k \in 1..n
        PROVE  SizeDelimited(Len(contents[k])) = Len(puts[k]) /\ Fits(contents[k])
    <2>1. Fits(puts[k])
      BY <1>2, PartFits
    <2>2. PICK c : c = contents[k] /\ c \in Seq(Byte)
      BY <1>0
    <2>3. puts[k] = Delimited(num, c)
      BY <1>0, <2>2
    <2> QED
      BY <2>1, <2>2, <2>3, DelimitedSize
  <1>4. sizes = LengthsOf(puts)
    <2>1. LengthsOf(puts) = [k \in 1..n |-> Len(puts[k])]
      BY <1>2 DEF LengthsOf
    <2> QED
      BY <1>0, <1>3, <2>1
  <1>5. SumOf(LengthsOf(puts)) = Len(FlattenSeq(puts))
    BY <1>2, FlattenLength
  <1> QED
    BY <1>2, <1>3, <1>4, <1>5

(* What Size adds for a field that holds no message. *)
PlainSizeOf(field, v) ==
    CASE field.type = "bytes"                -> SizeBytes(v)
      [] field.type = "bytesList"            -> SizeEach(v)
      [] field.type \in {"uint64", "uint32"} -> SizeUint(v)
      [] field.type = "bool"                 -> SizeBool(v)
      [] field.type = "packed"               -> SizePacked(v)

(* Type by type, it is the length of what Marshal writes. *)
LEMMA BytesSize ==
    ASSUME NEW num \in 1..14, NEW v \in Seq(Byte), Fits(FlattenSeq(PutBytes(num, v)))
    PROVE  SizeBytes(v) = Len(FlattenSeq(PutBytes(num, v)))
  <1>1. CASE v = <<>>
    <2>1. PutBytes(num, v) = <<>> /\ SizeBytes(v) = 0
      BY <1>1 DEF PutBytes, SizeBytes
    <2> QED
      BY <2>1, FlattenNone
  <1>2. CASE v # <<>>
    <2>1. PICK e : e = Delimited(num, v)
      OBVIOUS
    <2>2. PutBytes(num, v) = <<e>> /\ SizeBytes(v) = SizeDelimited(Len(v)) /\ e \in Seq(Byte)
      BY <1>2, <2>1, DelimitedFacts DEF PutBytes, SizeBytes
    <2>3. FlattenSeq(<<e>>) = e
      BY <2>2, FlattenOne
    <2> QED
      BY <2>1, <2>2, <2>3, DelimitedSize
  <1> QED
    BY <1>1, <1>2

LEMMA BytesListSize ==
    ASSUME NEW num \in 1..14, NEW v \in Seq(Seq(Byte)), Fits(FlattenSeq(PutEach(num, v)))
    PROVE  SizeEach(v) = Len(FlattenSeq(PutEach(num, v)))
  <1>0. PICK n : n = Len(v) /\ n \in Nat /\ DOMAIN v = 1..n
    BY LenIsNat
  <1>1. PICK puts, sizes : /\ puts = PutEach(num, v)
                           /\ sizes = [i \in DOMAIN v |-> SizeDelimited(Len(v[i]))]
    OBVIOUS
  <1>2. \A k \in 1..n : v[k] \in Seq(Byte)
    BY <1>0
  <1>3. /\ puts = [k \in 1..n |-> Delimited(num, v[k])] /\ Fits(FlattenSeq(puts))
        /\ sizes = [k \in 1..n |-> SizeDelimited(Len(v[k]))]
    BY <1>0, <1>1 DEF PutEach
  <1>4. Delimits(num, n, v, puts, sizes)
    BY <1>2, <1>3 DEF Delimits
  <1>5. SumOf(sizes) = Len(FlattenSeq(puts))
    BY <1>0, <1>3, <1>4, EachSize
  <1> QED
    BY <1>1, <1>5 DEF SizeEach

LEMMA UintSize ==
    ASSUME NEW num \in 1..14, NEW v \in Word
    PROVE  SizeUint(v) = Len(FlattenSeq(PutUint(num, v)))
  <1>1. CASE v = 0
    <2>1. PutUint(num, v) = <<>> /\ SizeUint(v) = 0
      BY <1>1 DEF PutUint, SizeUint
    <2> QED
      BY <2>1, FlattenNone
  <1>2. CASE v # 0
    <2>1. PICK a, b, e : a = <<8 * num>> /\ b = Varint(v) /\ e = a \o b
      OBVIOUS
    <2>2. PutUint(num, v) = <<e>> /\ SizeUint(v) = 1 + Sov(v)
      BY <1>2, <2>1 DEF PutUint, SizeUint
    <2>3. a \in Seq(Byte) /\ Len(a) = 1
      <3>1. 8 * num \in 0..127
        OBVIOUS
      <3> QED
        BY <2>1, <3>1, SmallVarint
    <2>4. b \in Seq(Byte) /\ Sov(v) = Len(b) /\ v \in Nat
      BY <2>1, SovIsLength, VarintShape DEF Coded
    <2>5. e \in Seq(Byte) /\ Len(e) = Len(a) + Len(b)
      BY <2>1, <2>3, <2>4, JoinFacts
    <2>6. FlattenSeq(<<e>>) = e
      BY <2>5, FlattenOne
    <2> QED
      BY <2>2, <2>3, <2>4, <2>5, <2>6
  <1> QED
    BY <1>1, <1>2

LEMMA BoolSize ==
    ASSUME NEW num \in 1..14, NEW v \in BOOLEAN
    PROVE  SizeBool(v) = Len(FlattenSeq(PutBool(num, v)))
  <1>1. CASE v = FALSE
    <2>1. PutBool(num, v) = <<>> /\ SizeBool(v) = 0
      BY <1>1 DEF PutBool, SizeBool
    <2> QED
      BY <2>1, FlattenNone
  <1>2. CASE v = TRUE
    <2>1. PICK e : e = <<8 * num, 1>>
      OBVIOUS
    <2>2. PutBool(num, v) = <<e>> /\ SizeBool(v) = 2
      BY <1>2, <2>1 DEF PutBool, SizeBool
    <2>3. e \in Seq(Nat) /\ Len(e) = 2
      BY <2>1
    <2>4. FlattenSeq(<<e>>) = e
      BY <2>3, FlattenOne
    <2> QED
      BY <2>2, <2>3, <2>4
  <1> QED
    BY <1>1, <1>2

LEMMA PackedSize ==
    ASSUME NEW num \in 1..14, NEW v \in Seq(Word), Fits(FlattenSeq(PutPacked(num, v)))
    PROVE  SizePacked(v) = Len(FlattenSeq(PutPacked(num, v)))
  <1>1. CASE v = <<>>
    <2>1. PutPacked(num, v) = <<>> /\ SizePacked(v) = 0
      BY <1>1 DEF PutPacked, SizePacked
    <2> QED
      BY <2>1, FlattenNone
  <1>2. CASE v # <<>>
    <2>0. PICK n : n = Len(v) /\ n \in Nat /\ DOMAIN v = 1..n
      BY LenIsNat
    <2>1. PICK list, c, e, sizes :
             /\ list = [i \in DOMAIN v |-> Varint(v[i])] /\ c = FlattenSeq(list)
             /\ e = Delimited(num, c) /\ sizes = [i \in DOMAIN v |-> Sov(v[i])]
      OBVIOUS
    <2>2. PutPacked(num, v) = <<e>> /\ SizePacked(v) = SizeDelimited(SumOf(sizes))
      BY <1>2, <2>1 DEF PutPacked, SizePacked
    <2>3. \A k \in 1..n : v[k] \in Word
      BY <2>0
    <2>4. \A k \in 1..n : Varint(v[k]) \in Seq(Byte) /\ Sov(v[k]) = Len(Varint(v[k]))
      <3> TAKE k \in 1..n
      <3>1. v[k] \in Nat /\ Sov(v[k]) = Len(Varint(v[k]))
        BY <2>3, SovIsLength
      <3> QED
        BY <3>1, VarintShape DEF Coded
    <2>5. list \in Seq(Seq(Byte)) /\ DOMAIN list = 1..n
      BY <2>0, <2>1, <2>4
    <2>6. sizes = LengthsOf(list)
      BY <2>0, <2>1, <2>4, <2>5 DEF LengthsOf
    <2>7. c \in Seq(Byte) /\ Len(c) = SumOf(sizes)
      BY <2>1, <2>5, <2>6, FlattenIsSeq, FlattenLength
    <2>8. e \in Seq(Byte)
      BY <2>1, <2>7, DelimitedFacts
    <2>9. FlattenSeq(<<e>>) = e
      BY <2>8, FlattenOne
    <2>10. SizeDelimited(Len(c)) = Len(e)
      BY <2>1, <2>2, <2>7, <2>9, DelimitedSize
    <2> QED
      BY <2>2, <2>7, <2>9, <2>10
  <1> QED
    BY <1>1, <1>2

(* So it is for any plain field. *)
LEMMA PlainSizeIs ==
    ASSUME NEW field, field.type \in PlainTypes, field.num \in 1..14,
           NEW v \in PlainValues(field.type), NEW s, s = FlattenSeq(PutPlain(field, v)), Fits(s)
    PROVE  PlainSizeOf(field, v) = Len(s)
  <1>1. PICK num, type : num = field.num /\ type = field.type
    OBVIOUS
  <1>2. CASE type = "bytes"
    <2>1. /\ v \in Seq(Byte) /\ PutPlain(field, v) = PutBytes(num, v)
          /\ PlainSizeOf(field, v) = SizeBytes(v)
      BY <1>1, <1>2 DEF PlainValues, PutPlain, PlainSizeOf
    <2> QED
      BY <1>1, <2>1, BytesSize
  <1>3. CASE type = "bytesList"
    <2>1. /\ v \in Seq(Seq(Byte)) /\ PutPlain(field, v) = PutEach(num, v)
          /\ PlainSizeOf(field, v) = SizeEach(v)
      BY <1>1, <1>3 DEF PlainValues, PutPlain, PlainSizeOf
    <2> QED
      BY <1>1, <2>1, BytesListSize
  <1>4. CASE type \in {"uint64", "uint32"}
    <2>1. /\ v \in Word \cup Half /\ PutPlain(field, v) = PutUint(num, v)
          /\ PlainSizeOf(field, v) = SizeUint(v)
      BY <1>1, <1>4 DEF PlainValues, PutPlain, PlainSizeOf
    <2>2. v \in Word
      BY <2>1, HalfInWord
    <2> QED
      BY <1>1, <2>1, <2>2, UintSize
  <1>5. CASE type = "bool"
    <2>1. v \in BOOLEAN
      BY <1>1, <1>5 DEF PlainValues
    <2>2. PutPlain(field, v) = PutBool(num, v)
      BY <1>1, <1>5 DEF PutPlain
    <2>3. PlainSizeOf(field, v) = SizeBool(v)
      BY <1>1, <1>5 DEF PlainSizeOf
    <2> QED
      BY <1>1, <2>1, <2>2, <2>3, BoolSize
  <1>6. CASE type = "packed"
    <2>1. /\ v \in Seq(Word) /\ PutPlain(field, v) = PutPacked(num, v)
          /\ PlainSizeOf(field, v) = SizePacked(v)
      BY <1>1, <1>6 DEF PlainValues, PutPlain, PlainSizeOf
    <2> QED
      BY <1>1, <2>1, PackedSize
  <1> QED
    BY <1>1, <1>2, <1>3, <1>4, <1>5, <1>6 DEF PlainTypes

(* The size of a table's entries, from the sizes of its fields' entries. *)
Sized(puts, sizes) ==
    /\ sizes = [i \in DOMAIN puts |-> sizes[i]]
    /\ \A i \in DOMAIN puts : Fits(FlattenSeq(puts[i])) => sizes[i] = Len(FlattenSeq(puts[i]))

(* Sizes that are right field by field add up to the length. *)
LEMMA TableLength ==
    ASSUME NEW puts \in Seq(Seq(Seq(Byte))), NEW sizes, Sized(puts, sizes),
           NEW s, s = FlattenSeq(FlattenSeq(puts)), Fits(s)
    PROVE  SumOf(sizes) = Len(s) /\ sizes \in Seq(Nat) /\ Len(sizes) = Len(puts)
  <1>1. PICK n : n = Len(puts) /\ n \in Nat /\ DOMAIN puts = 1..n
    BY LenIsNat
  <1>2. PICK parts : parts = [k \in DOMAIN puts |-> FlattenSeq(puts[k])]
    OBVIOUS
  <1>3. parts \in Seq(Seq(Byte)) /\ Len(parts) = n /\ s = FlattenSeq(parts)
    BY <1>1, <1>2, FlattenTwice
  <1>4. ASSUME NEW i \in 1..n PROVE sizes[i] = Len(parts[i])
    <2>1. Fits(parts[i]) /\ parts[i] = FlattenSeq(puts[i])
      BY <1>1, <1>2, <1>3, PartFits
    <2> QED
      BY <1>1, <2>1 DEF Sized
  <1>5. sizes = LengthsOf(parts)
    <2>1. LengthsOf(parts) = [i \in 1..n |-> Len(parts[i])]
      BY <1>3 DEF LengthsOf
    <2>2. sizes = [i \in 1..n |-> sizes[i]]
      BY <1>1 DEF Sized
    <2> QED
      BY <1>4, <2>1, <2>2
  <1> QED
    BY <1>1, <1>3, <1>5, FlattenLength, LengthsFacts

(* A plain table is a table. *)
LEMMA PlainIsWellFormed ==
    ASSUME NEW table, Distinct(table), PlainTable(table)
    PROVE  WellFormed(table)
  BY DEF WellFormed, PlainTable

(* Messages of a plain table are messages. *)
LEMMA PlainIsMessage ==
    ASSUME NEW table, PlainTable(table), NEW m
    PROVE  /\ m \in PlainMessages(table) <=> m \in Messages(table)
           /\ PlainPuts(table, m) = AllPuts(table, m)
           /\ PlainEntries(table, m) = Entries(table, m)
  <1>1. \A i \in DOMAIN table : /\ Values(table[i]) = PlainValues(table[i].type)
                                /\ \A v : Put(table[i], v) = PutPlain(table[i], v)
    BY PlainFieldIs DEF PlainTable
  <1>2. PlainFields(table, m) <=> Fields(table, m)
    BY <1>1 DEF PlainFields, Fields
  <1>3. PlainPuts(table, m) = AllPuts(table, m)
    BY <1>1 DEF PlainPuts, AllPuts
  <1>4. PlainEntries(table, m) = Entries(table, m)
    BY <1>3 DEF PlainEntries, Entries, PlainPuts, AllPuts
  <1> QED
    BY <1>2, <1>3, <1>4, PlainMessagesAre, MessagesAre

(* The sizes of a plain message's fields, and their sum. *)
PlainSizes(table, m) == [i \in DOMAIN table |-> PlainSizeOf(table[i], m[table[i].name])]
PlainLength(table, m) == SumOf(PlainSizes(table, m))

(* Size counts the bytes of an embedded message. *)
LEMMA PlainLengthIs ==
    ASSUME NEW table, Distinct(table), PlainTable(table), NEW m \in PlainMessages(table),
           NEW c, c = InnerBytes(table, m), Fits(c)
    PROVE  PlainLength(table, m) = Len(c)
  <1>1. PICK puts, sizes : puts = PlainPuts(table, m) /\ sizes = PlainSizes(table, m)
    OBVIOUS
  <1>2. puts \in Seq(Seq(Seq(Byte)))
    <2>1. WellFormed(table) /\ m \in Messages(table) /\ puts = AllPuts(table, m)
      BY <1>1, PlainIsWellFormed, PlainIsMessage
    <2> QED
      BY <2>1, FullScript
  <1>3. PlainFields(table, m)
    BY PlainMessagesAre
  <1>4. ASSUME NEW i \in DOMAIN table, Fits(FlattenSeq(puts[i]))
        PROVE  sizes[i] = Len(FlattenSeq(puts[i]))
    <2>1. PICK v, field : v = m[table[i].name] /\ field = table[i]
      OBVIOUS
    <2>2. field.type \in PlainTypes /\ field.num \in 1..14 /\ v \in PlainValues(field.type)
      BY <1>3, <2>1 DEF PlainTable, Distinct, PlainFields
    <2>3. puts[i] = PutPlain(field, v) /\ sizes[i] = PlainSizeOf(field, v)
      BY <1>1, <2>1 DEF PlainPuts, PlainSizes
    <2> QED
      BY <1>4, <2>2, <2>3, PlainSizeIs
  <1>5. DOMAIN puts = DOMAIN table /\ sizes = [i \in DOMAIN table |-> sizes[i]]
    BY <1>1 DEF PlainPuts, PlainSizes
  <1>6. Sized(puts, sizes)
    BY <1>4, <1>5 DEF Sized
  <1>7. c = FlattenSeq(FlattenSeq(puts))
    BY <1>1 DEF InnerBytes, PlainEntries, PlainPuts
  <1> QED
    BY <1>1, <1>2, <1>6, <1>7, TableLength DEF PlainLength

(* Embedded messages. *)
InnerSizes(table, v) == [k \in DOMAIN v |-> PlainLength(table, v[k])]

(* And of a list of them. *)
LEMMA InnerSizeIs ==
    ASSUME NEW num \in 1..14, NEW table, Distinct(table), PlainTable(table),
           NEW v \in Seq(PlainMessages(table)), NEW s, s = FlattenSeq(InnerPuts(num, table, v)), Fits(s)
    PROVE  SizeMessages(InnerSizes(table, v)) = Len(s)
  <1>1. PICK n : n = Len(v) /\ n \in Nat /\ DOMAIN v = 1..n
    BY LenIsNat
  <1>2. PICK contents, puts, sizes :
           /\ contents = [k \in 1..n |-> InnerBytes(table, v[k])]
           /\ puts = InnerPuts(num, table, v)
           /\ sizes = [k \in 1..n |-> SizeDelimited(Len(contents[k]))]
    OBVIOUS
  <1>3. InnerPutsAre(num, table, v, puts)
    BY <1>2, InnerPutsFacts
  <1>4. \A k \in 1..n : contents[k] \in Seq(Byte) /\ v[k] \in PlainMessages(table)
    BY <1>1, <1>2, <1>3 DEF InnerPutsAre
  <1>5. puts = [k \in 1..n |-> Delimited(num, contents[k])]
    BY <1>1, <1>2 DEF InnerPuts
  <1>6. Delimits(num, n, contents, puts, sizes)
    BY <1>2, <1>4, <1>5 DEF Delimits
  <1>7. SumOf(sizes) = Len(s) /\ \A k \in 1..n : Fits(contents[k])
    BY <1>1, <1>2, <1>6, EachSize
  <1>8. ASSUME NEW k \in 1..n PROVE PlainLength(table, v[k]) = Len(contents[k])
    <2>1. PICK m, c : m = v[k] /\ c = contents[k]
      OBVIOUS
    <2>2. m \in PlainMessages(table) /\ c = InnerBytes(table, m) /\ Fits(c)
      BY <1>2, <1>4, <1>7, <2>1
    <2> QED
      BY <2>1, <2>2, PlainLengthIs
  <1>9. PICK inner : inner = InnerSizes(table, v)
    OBVIOUS
  <1>10. inner = [k \in 1..n |-> Len(contents[k])]
    BY <1>1, <1>8, <1>9 DEF InnerSizes
  <1>11. SizeMessages(inner) = SumOf([k \in 1..n |-> SizeDelimited(inner[k])])
    BY <1>10 DEF SizeMessages
  <1>12. [k \in 1..n |-> SizeDelimited(inner[k])] = sizes
    BY <1>2, <1>10
  <1> QED
    BY <1>7, <1>9, <1>11, <1>12

(* What Size adds for any field. *)
FieldSizeOf(field, v) ==
    IF field.type \in EmbeddedTypes THEN SizeMessages(InnerSizes(field.table, v))
    ELSE PlainSizeOf(field, v)

(* It is the length of what Marshal writes of the field. *)
LEMMA FieldSizeIs ==
    ASSUME NEW field, WellTyped(field), field.num \in 1..14,
           NEW v \in Values(field), NEW s, s = FlattenSeq(Put(field, v)), Fits(s)
    PROVE  FieldSizeOf(field, v) = Len(s)
  <1>1. CASE field.type \in PlainTypes
    <2>1. field.type \notin EmbeddedTypes
      BY <1>1 DEF PlainTypes, EmbeddedTypes
    <2>2. FieldSizeOf(field, v) = PlainSizeOf(field, v)
      BY <2>1 DEF FieldSizeOf
    <2>3. v \in PlainValues(field.type) /\ s = FlattenSeq(PutPlain(field, v))
      BY <1>1, PlainFieldIs
    <2> QED
      BY <1>1, <2>2, <2>3, PlainSizeIs
  <1>2. CASE field.type \notin PlainTypes
    <2>1. PICK inner, num : inner = field.table /\ num = field.num
      OBVIOUS
    <2>2. field.type \in EmbeddedTypes /\ PlainTable(inner) /\ Distinct(inner)
      BY <1>2, <2>1 DEF WellTyped
    <2>3. v \in Seq(PlainMessages(inner))
      BY <2>1, <2>2 DEF Values, EmbeddedTypes
    <2>4. s = FlattenSeq(InnerPuts(num, inner, v))
      BY <2>1, <2>2, <2>3, PutIsInner
    <2>5. FieldSizeOf(field, v) = SizeMessages(InnerSizes(inner, v))
      BY <2>1, <2>2 DEF FieldSizeOf
    <2> QED
      BY <2>1, <2>2, <2>3, <2>4, <2>5, InnerSizeIs
  <1> QED
    BY <1>1, <1>2

(* The sizes of a message's fields. *)
AllSizes(table, m) == [i \in DOMAIN table |-> FieldSizeOf(table[i], m[table[i].name])]

(* They add up to the length of what Marshal writes. *)
LEMMA MessageLengthIs ==
    ASSUME NEW table, WellFormed(table), NEW m \in Messages(table),
           NEW s, s = FlattenSeq(Entries(table, m)), Fits(s)
    PROVE  /\ SumOf(AllSizes(table, m)) = Len(s)
           /\ AllSizes(table, m) \in Seq(Nat) /\ Len(AllSizes(table, m)) = Len(table)
  <1>1. PICK puts, sizes : puts = AllPuts(table, m) /\ sizes = AllSizes(table, m)
    OBVIOUS
  <1>2. puts \in Seq(Seq(Seq(Byte)))
    BY <1>1, FullScript
  <1>3. Fields(table, m) /\ Distinct(table) /\ \A i \in DOMAIN table : WellTyped(table[i])
    BY MessagesAre, WellFormedIs
  <1>4. ASSUME NEW i \in DOMAIN table, Fits(FlattenSeq(puts[i]))
        PROVE  sizes[i] = Len(FlattenSeq(puts[i]))
    <2>1. PICK v, field : v = m[table[i].name] /\ field = table[i]
      OBVIOUS
    <2>2. WellTyped(field) /\ field.num \in 1..14 /\ v \in Values(field)
      BY <1>3, <2>1 DEF Distinct, Fields
    <2>3. puts[i] = Put(field, v) /\ sizes[i] = FieldSizeOf(field, v)
      BY <1>1, <2>1 DEF AllPuts, AllSizes
    <2> QED
      BY <1>4, <2>2, <2>3, FieldSizeIs
  <1>5. DOMAIN puts = DOMAIN table /\ sizes = [i \in DOMAIN table |-> sizes[i]]
    BY <1>1 DEF AllPuts, AllSizes
  <1>6. Sized(puts, sizes)
    BY <1>4, <1>5 DEF Sized
  <1>7. s = FlattenSeq(FlattenSeq(puts))
    BY <1>1 DEF Entries, AllPuts
  <1>8. Len(puts) = Len(table)
    <2>1. PICK n : n = Len(table) /\ n \in Nat /\ DOMAIN table = 1..n
      BY <1>3 DEF Distinct
    <2>2. puts \in Seq(Seq(Seq(Byte))) /\ DOMAIN puts = 1..n
      BY <1>2, <1>5, <2>1
    <2> QED
      BY <2>1, <2>2
  <1> QED
    BY <1>1, <1>2, <1>6, <1>7, <1>8, TableLength

(* A buffer of just the size is filled with what is written. *)
LEMMA MarshalFills ==
    ASSUME NEW list \in Seq(Seq(Byte)), NEW s, s = FlattenSeq(list)
    PROVE  Marshal(list, Len(s)) = Read(s, Len(s))
  <1>1. s \in Seq(Byte)
    BY FlattenIsSeq
  <1>2. PICK n : n = Len(s) /\ n \in Nat
    BY <1>1, LenIsNat
  <1>3. PICK pad : pad = [i \in 1..0 |-> 0]
    OBVIOUS
  <1>4. pad = <<>>
    BY <1>3
  <1>5. SubSeq(pad \o s, 1, n) = s
    <2>1. pad \o s = s
      BY <1>1, <1>4, ConcatEmptySeq
    <2> QED
      BY <1>1, <1>2, <2>1, SliceAll
  <1>6. n - n = 0 /\ ~ (0 < 0)
    BY <1>2
  <1>7. Marshal(list, n) = IF 0 < 0 THEN Fail("panic") ELSE Read(SubSeq(pad \o s, 1, n), n)
    BY <1>2, <1>3, <1>6 DEF Marshal
  <1> QED
    BY <1>2, <1>5, <1>6, <1>7

(* Lists of a known length, joined or added up. *)
JoinsUp(join, list, n) ==
    /\ FlattenSeq(list) = join[n]
    /\ n > 0 => join[1] = list[1]
    /\ \A k \in 2..n : join[k] = join[k - 1] \o list[k]

(* There are such partial joins for every list. *)
LEMMA JoinTurns ==
    ASSUME NEW S, NEW list \in Seq(Seq(S)), NEW n \in Nat, n = Len(list)
    PROVE  \E join : JoinsUp(join, list, n)
  <1>1. PICK join : IsJoin(join, S, list) /\ FlattenSeq(list) = join[n]
    BY JoinExists
  <1>2. join[0] = <<>> /\ \A k \in 1..n : join[k] = join[k - 1] \o list[k]
    BY <1>1 DEF IsJoin
  <1>3. ASSUME n > 0 PROVE join[1] = list[1]
    <2>1. 1 \in 1..n /\ 1 - 1 = 0 /\ list[1] \in Seq(S)
      BY <1>3
    <2>2. join[1] = <<>> \o list[1]
      BY <1>2, <2>1
    <2> QED
      BY <2>1, <2>2, ConcatEmptySeq
  <1>4. \A k \in 2..n : k \in 1..n
    OBVIOUS
  <1> QED
    BY <1>1, <1>2, <1>3, <1>4 DEF JoinsUp

(* The same for sums. *)
SumsUp(sum, list, n) ==
    /\ SumOf(list) = sum[n]
    /\ n > 0 => sum[1] = list[1]
    /\ \A k \in 2..n : sum[k] = sum[k - 1] + list[k]

(* There are such partial sums for every list. *)
LEMMA SumTurns ==
    ASSUME NEW list \in Seq(Nat), NEW n \in Nat, n = Len(list)
    PROVE  \E sum : SumsUp(sum, list, n)
  <1>1. PICK sum : IsSums(sum, list) /\ SumOf(list) = sum[n]
    BY SumExists
  <1>2. sum[0] = 0 /\ \A k \in 1..n : sum[k] = sum[k - 1] + list[k]
    BY <1>1 DEF IsSums
  <1>3. ASSUME n > 0 PROVE sum[1] = list[1]
    <2>1. 1 \in 1..n /\ 1 - 1 = 0 /\ list[1] \in Nat
      BY <1>3
    <2>2. sum[1] = 0 + list[1]
      BY <1>2, <2>1
    <2> QED
      BY <2>1, <2>2
  <1> QED
    BY <1>1, <1>2, <1>3 DEF SumsUp

(* So a list of n strings or numbers is joined or added up term by term,   *)
(* for each number n of fields that a type of the module has.              *)
LEMMA JoinOne ==
    ASSUME NEW S, NEW list \in Seq(Seq(S)), Len(list) = 1
    PROVE  FlattenSeq(list) = list[1]
  <1>1. PICK join : JoinsUp(join, list, 1)
    BY JoinTurns
  <1>2. FlattenSeq(list) = join[1] /\ join[1] = list[1]
    BY <1>1 DEF JoinsUp
  <1> QED
    BY <1>2

LEMMA SumOne ==
    ASSUME NEW list \in Seq(Nat), Len(list) = 1
    PROVE  SumOf(list) = list[1]
  <1>1. PICK sum : SumsUp(sum, list, 1)
    BY SumTurns
  <1>2. SumOf(list) = sum[1] /\ sum[1] = list[1]
    BY <1>1 DEF SumsUp
  <1> QED
    BY <1>2

LEMMA JoinTwo ==
    ASSUME NEW S, NEW list \in Seq(Seq(S)), Len(list) = 2
    PROVE  FlattenSeq(list) = list[1] \o list[2]
  <1>1. PICK join : JoinsUp(join, list, 2)
    BY JoinTurns
  <1>2. FlattenSeq(list) = join[2] /\ join[1] = list[1]
    BY <1>1 DEF JoinsUp
  <1>3. join[2] = join[1] \o list[2]
    BY <1>1, 2 \in 2..2, 2 - 1 = 1 DEF JoinsUp
  <1> QED
    BY <1>2, <1>3

LEMMA SumTwo ==
    ASSUME NEW list \in Seq(Nat), Len(list) = 2
    PROVE  SumOf(list) = list[1] + list[2]
  <1>1. PICK sum : SumsUp(sum, list, 2)
    BY SumTurns
  <1>2. SumOf(list) = sum[2] /\ sum[1] = list[1]
    BY <1>1 DEF SumsUp
  <1>3. sum[2] = sum[1] + list[2]
    BY <1>1, 2 \in 2..2, 2 - 1 = 1 DEF SumsUp
  <1> QED
    BY <1>2, <1>3

LEMMA JoinThree ==
    ASSUME NEW S, NEW list \in Seq(Seq(S)), Len(list) = 3
    PROVE  FlattenSeq(list) = list[1] \o list[2] \o list[3]
  <1>1. PICK join : JoinsUp(join, list, 3)
    BY JoinTurns
  <1>2. FlattenSeq(list) = join[3] /\ join[1] = list[1]
    BY <1>1 DEF JoinsUp
  <1>3. join[2] = join[1] \o list[2]
    BY <1>1, 2 \in 2..3, 2 - 1 = 1 DEF JoinsUp
  <1>4. join[3] = join[2] \o list[3]
    BY <1>1, 3 \in 2..3, 3 - 1 = 2 DEF JoinsUp
  <1> QED
    BY <1>2, <1>3, <1>4

LEMMA SumThree ==
    ASSUME NEW list \in Seq(Nat), Len(list) = 3
    PROVE  SumOf(list) = list[1] + list[2] + list[3]
  <1>1. PICK sum : SumsUp(sum, list, 3)
    BY SumTurns
  <1>2. SumOf(list) = sum[3] /\ sum[1] = list[1]
    BY <1>1 DEF SumsUp
  <1>3. sum[2] = sum[1] + list[2]
    BY <1>1, 2 \in 2..3, 2 - 1 = 1 DEF SumsUp
  <1>4. sum[3] = sum[2] + list[3]
    BY <1>1, 3 \in 2..3, 3 - 1 = 2 DEF SumsUp
  <1> QED
    BY <1>2, <1>3, <1>4

LEMMA JoinFive ==
    ASSUME NEW S, NEW list \in Seq(Seq(S)), Len(list) = 5
    PROVE  FlattenSeq(list) = list[1] \o list[2] \o list[3] \o list[4] \o list[5]
  <1>1. PICK join : JoinsUp(join, list, 5)
    BY JoinTurns
  <1>2. FlattenSeq(list) = join[5] /\ join[1] = list[1]
    BY <1>1 DEF JoinsUp
  <1>3. join[2] = join[1] \o list[2]
    BY <1>1, 2 \in 2..5, 2 - 1 = 1 DEF JoinsUp
  <1>4. join[3] = join[2] \o list[3]
    BY <1>1, 3 \in 2..5, 3 - 1 = 2 DEF JoinsUp
  <1>5. join[4] = join[3] \o list[4]
    BY <1>1, 4 \in 2..5, 4 - 1 = 3 DEF JoinsUp
  <1>6. join[5] = join[4] \o list[5]
    BY <1>1, 5 \in 2..5, 5 - 1 = 4 DEF JoinsUp
  <1> QED
    BY <1>2, <1>3, <1>4, <1>5, <1>6, Zenon

LEMMA SumFive ==
    ASSUME NEW list \in Seq(Nat), Len(list) = 5
    PROVE  SumOf(list) = list[1] + list[2] + list[3] + list[4] + list[5]
  <1>1. PICK sum : SumsUp(sum, list, 5)
    BY SumTurns
  <1>2. SumOf(list) = sum[5] /\ sum[1] = list[1]
    BY <1>1 DEF SumsUp
  <1>3. sum[2] = sum[1] + list[2]
    BY <1>1, 2 \in 2..5, 2 - 1 = 1 DEF SumsUp
  <1>4. sum[3] = sum[2] + list[3]
    BY <1>1, 3 \in 2..5, 3 - 1 = 2 DEF SumsUp
  <1>5. sum[4] = sum[3] + list[4]
    BY <1>1, 4 \in 2..5, 4 - 1 = 3 DEF SumsUp
  <1>6. sum[5] = sum[4] + list[5]
    BY <1>1, 5 \in 2..5, 5 - 1 = 4 DEF SumsUp
  <1> QED
    BY <1>2, <1>3, <1>4, <1>5, <1>6, Zenon

LEMMA JoinSix ==
    ASSUME NEW S, NEW list \in Seq(Seq(S)), Len(list) = 6
    PROVE  FlattenSeq(list) = list[1] \o list[2] \o list[3] \o list[4] \o list[5] \o list[6]
  <1>1. PICK join : JoinsUp(join, list, 6)
    BY JoinTurns
  <1>2. FlattenSeq(list) = join[6] /\ join[1] = list[1]
    BY <1>1 DEF JoinsUp
  <1>3. join[2] = join[1] \o list[2]
    BY <1>1, 2 \in 2..6, 2 - 1 = 1 DEF JoinsUp
  <1>4. join[3] = join[2] \o list[3]
    BY <1>1, 3 \in 2..6, 3 - 1 = 2 DEF JoinsUp
  <1>5. join[4] = join[3] \o list[4]
    BY <1>1, 4 \in 2..6, 4 - 1 = 3 DEF JoinsUp
  <1>6. join[5] = join[4] \o list[5]
    BY <1>1, 5 \in 2..6, 5 - 1 = 4 DEF JoinsUp
  <1>7. join[6] = join[5] \o list[6]
    BY <1>1, 6 \in 2..6, 6 - 1 = 5 DEF JoinsUp
  <1> QED
    BY <1>2, <1>3, <1>4, <1>5, <1>6, <1>7, Zenon

LEMMA SumSix ==
    ASSUME NEW list \in Seq(Nat), Len(list) = 6
    PROVE  SumOf(list) = list[1] + list[2] + list[3] + list[4] + list[5] + list[6]
  <1>1. PICK sum : SumsUp(sum, list, 6)
    BY SumTurns
  <1>2. SumOf(list) = sum[6] /\ sum[1] = list[1]
    BY <1>1 DEF SumsUp
  <1>3. sum[2] = sum[1] + list[2]
    BY <1>1, 2 \in 2..6, 2 - 1 = 1 DEF SumsUp
  <1>4. sum[3] = sum[2] + list[3]
    BY <1>1, 3 \in 2..6, 3 - 1 = 2 DEF SumsUp
  <1>5. sum[4] = sum[3] + list[4]
    BY <1>1, 4 \in 2..6, 4 - 1 = 3 DEF SumsUp
  <1>6. sum[5] = sum[4] + list[5]
    BY <1>1, 5 \in 2..6, 5 - 1 = 4 DEF SumsUp
  <1>7. sum[6] = sum[5] + list[6]
    BY <1>1, 6 \in 2..6, 6 - 1 = 5 DEF SumsUp
  <1> QED
    BY <1>2, <1>3, <1>4, <1>5, <1>6, <1>7, Zenon

LEMMA JoinSeven ==
    ASSUME NEW S, NEW list \in Seq(Seq(S)), Len(list) = 7
    PROVE  FlattenSeq(list) = list[1] \o list[2] \o list[3] \o list[4] \o list[5] \o list[6] \o
                    list[7]
  <1>1. PICK join : JoinsUp(join, list, 7)
    BY JoinTurns
  <1>2. FlattenSeq(list) = join[7] /\ join[1] = list[1]
    BY <1>1 DEF JoinsUp
  <1>3. join[2] = join[1] \o list[2]
    BY <1>1, 2 \in 2..7, 2 - 1 = 1 DEF JoinsUp
  <1>4. join[3] = join[2] \o list[3]
    BY <1>1, 3 \in 2..7, 3 - 1 = 2 DEF JoinsUp
  <1>5. join[4] = join[3] \o list[4]
    BY <1>1, 4 \in 2..7, 4 - 1 = 3 DEF JoinsUp
  <1>6. join[5] = join[4] \o list[5]
    BY <1>1, 5 \in 2..7, 5 - 1 = 4 DEF JoinsUp
  <1>7. join[6] = join[5] \o list[6]
    BY <1>1, 6 \in 2..7, 6 - 1 = 5 DEF JoinsUp
  <1>8. join[7] = join[6] \o list[7]
    BY <1>1, 7 \in 2..7, 7 - 1 = 6 DEF JoinsUp
  <1> QED
    BY <1>2, <1>3, <1>4, <1>5, <1>6, <1>7, <1>8, Zenon

LEMMA SumSeven ==
    ASSUME NEW list \in Seq(Nat), Len(list) = 7
    PROVE  SumOf(list) = list[1] + list[2] + list[3] + list[4] + list[5] + list[6] + list[7]
  <1>1. PICK sum : SumsUp(sum, list, 7)
    BY SumTurns
  <1>2. SumOf(list) = sum[7] /\ sum[1] = list[1]
    BY <1>1 DEF SumsUp
  <1>3. sum[2] = sum[1] + list[2]
    BY <1>1, 2 \in 2..7, 2 - 1 = 1 DEF SumsUp
  <1>4. sum[3] = sum[2] + list[3]
    BY <1>1, 3 \in 2..7, 3 - 1 = 2 DEF SumsUp
  <1>5. sum[4] = sum[3] + list[4]
    BY <1>1, 4 \in 2..7, 4 - 1 = 3 DEF SumsUp
  <1>6. sum[5] = sum[4] + list[5]
    BY <1>1, 5 \in 2..7, 5 - 1 = 4 DEF SumsUp
  <1>7. sum[6] = sum[5] + list[6]
    BY <1>1, 6 \in 2..7, 6 - 1 = 5 DEF SumsUp
  <1>8. sum[7] = sum[6] + list[7]
    BY <1>1, 7 \in 2..7, 7 - 1 = 6 DEF SumsUp
  <1> QED
    BY <1>2, <1>3, <1>4, <1>5, <1>6, <1>7, <1>8, Zenon

LEMMA JoinNine ==
    ASSUME NEW S, NEW list \in Seq(Seq(S)), Len(list) = 9
    PROVE  FlattenSeq(list) = list[1] \o list[2] \o list[3] \o list[4] \o list[5] \o list[6] \o
                    list[7] \o list[8] \o list[9]
  <1>1. PICK join : JoinsUp(join, list, 9)
    BY JoinTurns
  <1>2. FlattenSeq(list) = join[9] /\ join[1] = list[1]
    BY <1>1 DEF JoinsUp
  <1>3. join[2] = join[1] \o list[2]
    BY <1>1, 2 \in 2..9, 2 - 1 = 1 DEF JoinsUp
  <1>4. join[3] = join[2] \o list[3]
    BY <1>1, 3 \in 2..9, 3 - 1 = 2 DEF JoinsUp
  <1>5. join[4] = join[3] \o list[4]
    BY <1>1, 4 \in 2..9, 4 - 1 = 3 DEF JoinsUp
  <1>6. join[5] = join[4] \o list[5]
    BY <1>1, 5 \in 2..9, 5 - 1 = 4 DEF JoinsUp
  <1>7. join[6] = join[5] \o list[6]
    BY <1>1, 6 \in 2..9, 6 - 1 = 5 DEF JoinsUp
  <1>8. join[7] = join[6] \o list[7]
    BY <1>1, 7 \in 2..9, 7 - 1 = 6 DEF JoinsUp
  <1>9. join[8] = join[7] \o list[8]
    BY <1>1, 8 \in 2..9, 8 - 1 = 7 DEF JoinsUp
  <1>10. join[9] = join[8] \o list[9]
    BY <1>1, 9 \in 2..9, 9 - 1 = 8 DEF JoinsUp
  <1> QED
    BY <1>2, <1>3, <1>4, <1>5, <1>6, <1>7, <1>8, <1>9, <1>10, Zenon

LEMMA SumNine ==
    ASSUME NEW list \in Seq(Nat), Len(list) = 9
    PROVE  SumOf(list) = list[1] + list[2] + list[3] + list[4] + list[5] + list[6] + list[7]
                    + list[8] + list[9]
  <1>1. PICK sum : SumsUp(sum, list, 9)
    BY SumTurns
  <1>2. SumOf(list) = sum[9] /\ sum[1] = list[1]
    BY <1>1 DEF SumsUp
  <1>3. sum[2] = sum[1] + list[2]
    BY <1>1, 2 \in 2..9, 2 - 1 = 1 DEF SumsUp
  <1>4. sum[3] = sum[2] + list[3]
    BY <1>1, 3 \in 2..9, 3 - 1 = 2 DEF SumsUp
  <1>5. sum[4] = sum[3] + list[4]
    BY <1>1, 4 \in 2..9, 4 - 1 = 3 DEF SumsUp
  <1>6. sum[5] = sum[4] + list[5]
    BY <1>1, 5 \in 2..9, 5 - 1 = 4 DEF SumsUp
  <1>7. sum[6] = sum[5] + list[6]
    BY <1>1, 6 \in 2..9, 6 - 1 = 5 DEF SumsUp
  <1>8. sum[7] = sum[6] + list[7]
    BY <1>1, 7 \in 2..9, 7 - 1 = 6 DEF SumsUp
  <1>9. sum[8] = sum[7] + list[8]
    BY <1>1, 8 \in 2..9, 8 - 1 = 7 DEF SumsUp
  <1>10. sum[9] = sum[8] + list[9]
    BY <1>1, 9 \in 2..9, 9 - 1 = 8 DEF SumsUp
  <1> QED
    BY <1>2, <1>3, <1>4, <1>5, <1>6, <1>7, <1>8, <1>9, <1>10, Zenon

LEMMA JoinTen ==
    ASSUME NEW S, NEW list \in Seq(Seq(S)), Len(list) = 10
    PROVE  FlattenSeq(list) = list[1] \o list[2] \o list[3] \o list[4] \o list[5] \o list[6] \o
                    list[7] \o list[8] \o list[9] \o list[10]
  <1>1. PICK join : JoinsUp(join, list, 10)
    BY JoinTurns
  <1>2. FlattenSeq(list) = join[10] /\ join[1] = list[1]
    BY <1>1 DEF JoinsUp
  <1>3. join[2] = join[1] \o list[2]
    BY <1>1, 2 \in 2..10, 2 - 1 = 1 DEF JoinsUp
  <1>4. join[3] = join[2] \o list[3]
    BY <1>1, 3 \in 2..10, 3 - 1 = 2 DEF JoinsUp
  <1>5. join[4] = join[3] \o list[4]
    BY <1>1, 4 \in 2..10, 4 - 1 = 3 DEF JoinsUp
  <1>6. join[5] = join[4] \o list[5]
    BY <1>1, 5 \in 2..10, 5 - 1 = 4 DEF JoinsUp
  <1>7. join[6] = join[5] \o list[6]
    BY <1>1, 6 \in 2..10, 6 - 1 = 5 DEF JoinsUp
  <1>8. join[7] = join[6] \o list[7]
    BY <1>1, 7 \in 2..10, 7 - 1 = 6 DEF JoinsUp
  <1>9. join[8] = join[7] \o list[8]
    BY <1>1, 8 \in 2..10, 8 - 1 = 7 DEF JoinsUp
  <1>10. join[9] = join[8] \o list[9]
    BY <1>1, 9 \in 2..10, 9 - 1 = 8 DEF JoinsUp
  <1>11. join[10] = join[9] \o list[10]
    BY <1>1, 10 \in 2..10, 10 - 1 = 9 DEF JoinsUp
  <1> QED
    BY <1>2, <1>3, <1>4, <1>5, <1>6, <1>7, <1>8, <1>9, <1>10, <1>11, Zenon

LEMMA SumTen ==
    ASSUME NEW list \in Seq(Nat), Len(list) = 10
    PROVE  SumOf(list) = list[1] + list[2] + list[3] + list[4] + list[5] + list[6] + list[7]
                    + list[8] + list[9] + list[10]
  <1>1. PICK sum : SumsUp(sum, list, 10)
    BY SumTurns
  <1>2. SumOf(list) = sum[10] /\ sum[1] = list[1]
    BY <1>1 DEF SumsUp
  <1>3. sum[2] = sum[1] + list[2]
    BY <1>1, 2 \in 2..10, 2 - 1 = 1 DEF SumsUp
  <1>4. sum[3] = sum[2] + list[3]
    BY <1>1, 3 \in 2..10, 3 - 1 = 2 DEF SumsUp
  <1>5. sum[4] = sum[3] + list[4]
    BY <1>1, 4 \in 2..10, 4 - 1 = 3 DEF SumsUp
  <1>6. sum[5] = sum[4] + list[5]
    BY <1>1, 5 \in 2..10, 5 - 1 = 4 DEF SumsUp
  <1>7. sum[6] = sum[5] + list[6]
    BY <1>1, 6 \in 2..10, 6 - 1 = 5 DEF SumsUp
  <1>8. sum[7] = sum[6] + list[7]
    BY <1>1, 7 \in 2..10, 7 - 1 = 6 DEF SumsUp
  <1>9. sum[8] = sum[7] + list[8]
    BY <1>1, 8 \in 2..10, 8 - 1 = 7 DEF SumsUp
  <1>10. sum[9] = sum[8] + list[9]
    BY <1>1, 9 \in 2..10, 9 - 1 = 8 DEF SumsUp
  <1>11. sum[10] = sum[9] + list[10]
    BY <1>1, 10 \in 2..10, 10 - 1 = 9 DEF SumsUp
  <1> QED
    BY <1>2, <1>3, <1>4, <1>5, <1>6, <1>7, <1>8, <1>9, <1>10, <1>11, Zenon

LEMMA JoinTwelve ==
    ASSUME NEW S, NEW list \in Seq(Seq(S)), Len(list) = 12
    PROVE  FlattenSeq(list) = list[1] \o list[2] \o list[3] \o list[4] \o list[5] \o list[6] \o
                    list[7] \o list[8] \o list[9] \o list[10] \o list[11] \o list[12]
  <1>1. PICK join : JoinsUp(join, list, 12)
    BY JoinTurns
  <1>2. FlattenSeq(list) = join[12] /\ join[1] = list[1]
    BY <1>1 DEF JoinsUp
  <1>3. join[2] = join[1] \o list[2]
    BY <1>1, 2 \in 2..12, 2 - 1 = 1 DEF JoinsUp
  <1>4. join[3] = join[2] \o list[3]
    BY <1>1, 3 \in 2..12, 3 - 1 = 2 DEF JoinsUp
  <1>5. join[4] = join[3] \o list[4]
    BY <1>1, 4 \in 2..12, 4 - 1 = 3 DEF JoinsUp
  <1>6. join[5] = join[4] \o list[5]
    BY <1>1, 5 \in 2..12, 5 - 1 = 4 DEF JoinsUp
  <1>7. join[6] = join[5] \o list[6]
    BY <1>1, 6 \in 2..12, 6 - 1 = 5 DEF JoinsUp
  <1>8. join[7] = join[6] \o list[7]
    BY <1>1, 7 \in 2..12, 7 - 1 = 6 DEF JoinsUp
  <1>9. join[8] = join[7] \o list[8]
    BY <1>1, 8 \in 2..12, 8 - 1 = 7 DEF JoinsUp
  <1>10. join[9] = join[8] \o list[9]
    BY <1>1, 9 \in 2..12, 9 - 1 = 8 DEF JoinsUp
  <1>11. join[10] = join[9] \o list[10]
    BY <1>1, 10 \in 2..12, 10 - 1 = 9 DEF JoinsUp
  <1>12. join[11] = join[10] \o list[11]
    BY <1>1, 11 \in 2..12, 11 - 1 = 10 DEF JoinsUp
  <1>13. join[12] = join[11] \o list[12]
    BY <1>1, 12 \in 2..12, 12 - 1 = 11 DEF JoinsUp
  <1> QED
    BY <1>2, <1>3, <1>4, <1>5, <1>6, <1>7, <1>8, <1>9, <1>10, <1>11, <1>12, <1>13, Zenon

LEMMA SumTwelve ==
    ASSUME NEW list \in Seq(Nat), Len(list) = 12
    PROVE  SumOf(list) = list[1] + list[2] + list[3] + list[4] + list[5] + list[6] + list[7]
                    + list[8] + list[9] + list[10] + list[11] + list[12]
  <1>1. PICK sum : SumsUp(sum, list, 12)
    BY SumTurns
  <1>2. SumOf(list) = sum[12] /\ sum[1] = list[1]
    BY <1>1 DEF SumsUp
  <1>3. sum[2] = sum[1] + list[2]
    BY <1>1, 2 \in 2..12, 2 - 1 = 1 DEF SumsUp
  <1>4. sum[3] = sum[2] + list[3]
    BY <1>1, 3 \in 2..12, 3 - 1 = 2 DEF SumsUp
  <1>5. sum[4] = sum[3] + list[4]
    BY <1>1, 4 \in 2..12, 4 - 1 = 3 DEF SumsUp
  <1>6. sum[5] = sum[4] + list[5]
    BY <1>1, 5 \in 2..12, 5 - 1 = 4 DEF SumsUp
  <1>7. sum[6] = sum[5] + list[6]
    BY <1>1, 6 \in 2..12, 6 - 1 = 5 DEF SumsUp
  <1>8. sum[7] = sum[6] + list[7]
    BY <1>1, 7 \in 2..12, 7 - 1 = 6 DEF SumsUp
  <1>9. sum[8] = sum[7] + list[8]
    BY <1>1, 8 \in 2..12, 8 - 1 = 7 DEF SumsUp
  <1>10. sum[9] = sum[8] + list[9]
    BY <1>1, 9 \in 2..12, 9 - 1 = 8 DEF SumsUp
  <1>11. sum[10] = sum[9] + list[10]
    BY <1>1, 10 \in 2..12, 10 - 1 = 9 DEF SumsUp
  <1>12. sum[11] = sum[10] + list[11]
    BY <1>1, 11 \in 2..12, 11 - 1 = 10 DEF SumsUp
  <1>13. sum[12] = sum[11] + list[12]
    BY <1>1, 12 \in 2..12, 12 - 1 = 11 DEF SumsUp
  <1> QED
    BY <1>2, <1>3, <1>4, <1>5, <1>6, <1>7, <1>8, <1>9, <1>10, <1>11, <1>12, <1>13, Zenon

(* What a field of a table writes, by its type. *)
FieldIs(f, num, name) == f.num = num /\ f.name = name /\ WellTyped(f)

(* Type by type. *)
LEMMA BytesFieldIs ==
    ASSUME NEW num, NEW name, NEW f, f = BytesField(num, name)
    PROVE  /\ FieldIs(f, num, name) /\ f.type \in PlainTypes
           /\ \A v : Put(f, v) = PutBytes(num, v) /\ FieldSizeOf(f, v) = SizeBytes(v)
  <1>1. f.num = num /\ f.name = name /\ f.type = "bytes" /\ f.type \in PlainTypes
    BY DEF BytesField, PlainTypes
  <1>2. \A v : Put(f, v) = PutBytes(num, v) /\ FieldSizeOf(f, v) = SizeBytes(v)
    BY <1>1 DEF Put, PutPlain, FieldSizeOf, PlainSizeOf, EmbeddedTypes
  <1> QED
    BY <1>1, <1>2 DEF FieldIs, WellTyped

LEMMA BytesListFieldIs ==
    ASSUME NEW num, NEW name, NEW f, f = BytesListField(num, name)
    PROVE  /\ FieldIs(f, num, name) /\ f.type \in PlainTypes
           /\ \A v : Put(f, v) = PutEach(num, v) /\ FieldSizeOf(f, v) = SizeEach(v)
  <1>1. f.num = num /\ f.name = name /\ f.type = "bytesList" /\ f.type \in PlainTypes
    BY DEF BytesListField, PlainTypes
  <1>2. \A v : Put(f, v) = PutEach(num, v) /\ FieldSizeOf(f, v) = SizeEach(v)
    BY <1>1 DEF Put, PutPlain, FieldSizeOf, PlainSizeOf, EmbeddedTypes
  <1> QED
    BY <1>1, <1>2 DEF FieldIs, WellTyped

LEMMA Uint64FieldIs ==
    ASSUME NEW num, NEW name, NEW f, f = Uint64Field(num, name)
    PROVE  /\ FieldIs(f, num, name) /\ f.type \in PlainTypes
           /\ \A v : Put(f, v) = PutUint(num, v) /\ FieldSizeOf(f, v) = SizeUint(v)
  <1>1. /\ f.num = num /\ f.name = name /\ f.type = "uint64"
        /\ f.type \in PlainTypes
    BY DEF Uint64Field, PlainTypes
  <1>2. \A v : Put(f, v) = PutUint(num, v) /\ FieldSizeOf(f, v) = SizeUint(v)
    BY <1>1 DEF Put, PutPlain, FieldSizeOf, PlainSizeOf, EmbeddedTypes
  <1> QED
    BY <1>1, <1>2 DEF FieldIs, WellTyped

LEMMA Uint32FieldIs ==
    ASSUME NEW num, NEW name, NEW f, f = Uint32Field(num, name)
    PROVE  /\ FieldIs(f, num, name) /\ f.type \in PlainTypes
           /\ \A v : Put(f, v) = PutUint(num, v) /\ FieldSizeOf(f, v) = SizeUint(v)
  <1>1. /\ f.num = num /\ f.name = name /\ f.type = "uint32"
        /\ f.type \in PlainTypes
    BY DEF Uint32Field, PlainTypes
  <1>2. \A v : Put(f, v) = PutUint(num, v) /\ FieldSizeOf(f, v) = SizeUint(v)
    BY <1>1 DEF Put, PutPlain, FieldSizeOf, PlainSizeOf, EmbeddedTypes
  <1> QED
    BY <1>1, <1>2 DEF FieldIs, WellTyped

LEMMA BoolFieldIs ==
    ASSUME NEW num, NEW name, NEW f, f = BoolField(num, name)
    PROVE  /\ FieldIs(f, num, name) /\ f.type \in PlainTypes
           /\ \A v : Put(f, v) = PutBool(num, v) /\ FieldSizeOf(f, v) = SizeBool(v)
  <1>1. f.num = num /\ f.name = name /\ f.type = "bool" /\ f.type \in PlainTypes
    BY DEF BoolField, PlainTypes
  <1>2. \A v : Put(f, v) = PutBool(num, v) /\ FieldSizeOf(f, v) = SizeBool(v)
    BY <1>1 DEF Put, PutPlain, FieldSizeOf, PlainSizeOf, EmbeddedTypes
  <1> QED
    BY <1>1, <1>2 DEF FieldIs, WellTyped

LEMMA PackedFieldIs ==
    ASSUME NEW num, NEW name, NEW f, f = PackedField(num, name)
    PROVE  /\ FieldIs(f, num, name) /\ f.type \in PlainTypes
           /\ \A v : Put(f, v) = PutPacked(num, v) /\ FieldSizeOf(f, v) = SizePacked(v)
  <1>1. f.num = num /\ f.name = name /\ f.type = "packed" /\ f.type \in PlainTypes
    BY DEF PackedField, PlainTypes
  <1>2. \A v : Put(f, v) = PutPacked(num, v) /\ FieldSizeOf(f, v) = SizePacked(v)
    BY <1>1 DEF Put, PutPlain, FieldSizeOf, PlainSizeOf, EmbeddedTypes
  <1> QED
    BY <1>1, <1>2 DEF FieldIs, WellTyped

(* Fields that hold messages. *)
LEMMA InnerFieldIs ==
    ASSUME NEW num, NEW name, NEW table, Distinct(table), PlainTable(table),
           NEW f, f = PointerField(num, name, table) \/ f = MessageListField(num, name, table)
    PROVE  /\ FieldIs(f, num, name)
           /\ \A v \in Values(f) : /\ v \in Seq(PlainMessages(table))
                                   /\ Put(f, v) = InnerPuts(num, table, v)
                                   /\ FieldSizeOf(f, v) = SizeMessages(InnerSizes(table, v))
  <1>1. /\ f.num = num /\ f.name = name /\ f.table = table
        /\ f.type \in EmbeddedTypes
    BY DEF PointerField, MessageListField, EmbeddedTypes
  <1>2. ASSUME NEW v \in Values(f)
        PROVE  /\ v \in Seq(PlainMessages(table))
               /\ Put(f, v) = InnerPuts(num, table, v)
               /\ FieldSizeOf(f, v) = SizeMessages(InnerSizes(table, v))
    <2>1. v \in Seq(PlainMessages(table))
      BY <1>1 DEF Values, EmbeddedTypes
    <2>2. Put(f, v) = InnerPuts(num, table, v)
      BY <1>1, <2>1, PutIsInner
    <2> QED
      BY <1>1, <2>1, <2>2 DEF FieldSizeOf
  <1> QED
    BY <1>1, <1>2 DEF FieldIs, WellTyped

(* A table whose fields are numbered from 1. *)
Numbered(table, n) ==
    /\ n \in 0..14 /\ Len(table) = n /\ DOMAIN table = 1..n
    /\ \A i \in 1..n : table[i].num = i /\ WellTyped(table[i])
    /\ \A i, j \in 1..n : table[i].name = table[j].name => i = j

(* Such a table is well formed. *)
LEMMA NumberedIs ==
    ASSUME NEW table, NEW n, Numbered(table, n)
    PROVE  /\ WellFormed(table) /\ Distinct(table) /\ n \in Nat
           /\ Len(table) = n /\ DOMAIN table = 1..n
  <1>1. /\ n \in 0..14 /\ Len(table) = n /\ DOMAIN table = 1..n
        /\ \A i \in 1..n : table[i].num = i /\ WellTyped(table[i])
        /\ \A i, j \in 1..n : table[i].name = table[j].name => i = j
    BY DEF Numbered
  <1>2. \A i \in 1..n : i \in 1..14
    BY <1>1
  <1>3. Distinct(table)
    BY <1>1, <1>2 DEF Distinct
  <1> QED
    BY <1>1, <1>3 DEF WellFormed, WellTyped

(* The entries of a type's Marshal and the number of its Size. *)
Codes(table, m, entries, size) ==
    /\ entries = Entries(table, m)
    /\ Fits(FlattenSeq(entries)) => size = Len(FlattenSeq(entries))

(* The entries of its message, field by field. *)
LEMMA PutsFacts ==
    ASSUME NEW table, NEW n, Numbered(table, n), NEW m \in Messages(table)
    PROVE  /\ AllPuts(table, m) \in Seq(Seq(Seq(Byte))) /\ Len(AllPuts(table, m)) = n
           /\ Entries(table, m) = FlattenSeq(AllPuts(table, m))
           /\ \A i \in 1..n : /\ AllPuts(table, m)[i] = Put(table[i], m[table[i].name])
                              /\ m[table[i].name] \in Values(table[i])
  <1>1. WellFormed(table) /\ n \in Nat /\ DOMAIN table = 1..n
    BY NumberedIs
  <1>2. PICK puts : puts = AllPuts(table, m)
    OBVIOUS
  <1>3. puts \in Seq(Seq(Seq(Byte)))
    BY <1>1, <1>2, FullScript
  <1>4. DOMAIN puts = 1..n /\ \A i \in 1..n : puts[i] = Put(table[i], m[table[i].name])
    BY <1>1, <1>2 DEF AllPuts
  <1>5. Len(puts) = n
    BY <1>1, <1>3, <1>4
  <1>6. Entries(table, m) = FlattenSeq(puts)
    BY <1>2 DEF Entries, AllPuts
  <1>7. \A i \in 1..n : m[table[i].name] \in Values(table[i])
    BY <1>1, MessagesAre DEF Fields
  <1> QED
    BY <1>2, <1>3, <1>4, <1>5, <1>6, <1>7

(* And their sizes. *)
LEMMA SizesFacts ==
    ASSUME NEW table, NEW n, Numbered(table, n), NEW m \in Messages(table),
           Fits(FlattenSeq(Entries(table, m)))
    PROVE  /\ AllSizes(table, m) \in Seq(Nat) /\ Len(AllSizes(table, m)) = n
           /\ SumOf(AllSizes(table, m)) = Len(FlattenSeq(Entries(table, m)))
           /\ \A i \in 1..n : /\ AllSizes(table, m)[i] = FieldSizeOf(table[i], m[table[i].name])
                              /\ Fits(FlattenSeq(Put(table[i], m[table[i].name])))
  <1>1. WellFormed(table) /\ n \in Nat /\ DOMAIN table = 1..n /\ Len(table) = n
    BY NumberedIs
  <1>2. PICK sizes, puts, s : /\ sizes = AllSizes(table, m) /\ puts = AllPuts(table, m)
                              /\ s = FlattenSeq(Entries(table, m))
    OBVIOUS
  <1>3. SumOf(sizes) = Len(s) /\ sizes \in Seq(Nat) /\ Len(sizes) = n
    BY <1>1, <1>2, MessageLengthIs
  <1>4. \A i \in 1..n : sizes[i] = FieldSizeOf(table[i], m[table[i].name])
    BY <1>1, <1>2 DEF AllSizes
  <1>5. /\ puts \in Seq(Seq(Seq(Byte))) /\ Len(puts) = n /\ Entries(table, m) = FlattenSeq(puts)
        /\ \A i \in 1..n : puts[i] = Put(table[i], m[table[i].name])
    BY <1>2, PutsFacts
  <1>6. PICK parts : parts = [k \in DOMAIN puts |-> FlattenSeq(puts[k])]
    OBVIOUS
  <1>7. parts \in Seq(Seq(Byte)) /\ Len(parts) = n /\ s = FlattenSeq(parts)
    <2>1. puts \in Seq(Seq(Seq(Byte)))
      BY <1>5
    <2>2. /\ parts \in Seq(Seq(Byte)) /\ Len(parts) = Len(puts)
          /\ FlattenSeq(FlattenSeq(puts)) = FlattenSeq(parts)
      BY <1>6, <2>1, FlattenTwice
    <2> QED
      BY <1>2, <1>5, <2>2
  <1>8. ASSUME NEW i \in 1..n PROVE Fits(FlattenSeq(Put(table[i], m[table[i].name])))
    <2>1. parts[i] = FlattenSeq(Put(table[i], m[table[i].name]))
      BY <1>5, <1>6
    <2>2. Fits(parts[i])
      BY <1>2, <1>7, PartFits
    <2> QED
      BY <2>1, <2>2
  <1> QED
    BY <1>2, <1>3, <1>4, <1>8

(* An embedded message fits where its entry does. *)
LEMMA InnerFits ==
    ASSUME NEW num \in 1..14, NEW table, Distinct(table), PlainTable(table),
           NEW v \in Seq(PlainMessages(table)), Fits(FlattenSeq(InnerPuts(num, table, v))),
           NEW k \in 1..Len(v)
    PROVE  Fits(InnerBytes(table, v[k]))
  <1>1. PICK puts : puts = InnerPuts(num, table, v)
    OBVIOUS
  <1>2. InnerPutsAre(num, table, v, puts)
    BY <1>1, InnerPutsFacts
  <1>3. PICK c : c = InnerBytes(table, v[k])
    OBVIOUS
  <1>4. puts \in Seq(Seq(Byte)) /\ Len(puts) = Len(v) /\ puts[k] = Delimited(num, c) /\ c \in Seq(Byte)
    BY <1>2, <1>3 DEF InnerPutsAre
  <1>5. Fits(puts[k])
    BY <1>1, <1>4, PartFits
  <1> QED
    BY <1>3, <1>4, <1>5, DelimitedFacts

(* Params: its Marshal and its Size do what its table says. *)
LEMMA ParamsCodes ==
    /\ WellFormed(Params) /\ Distinct(Params) /\ PlainTable(Params)
    /\ \A m \in Messages(Params) : Codes(Params, m, ParamsEntries(m), ParamsSize(m))
  <1>1. PICK table : table = Params
    OBVIOUS
  <1>2. /\ Len(table) = 5 /\ DOMAIN table = 1..5
        /\ table[1] = Uint32Field(1, "tree_depth")
        /\ table[2] = Uint32Field(2, "reg_tree_depth")
        /\ table[3] = BytesField(3, "auditor_pub_key")
        /\ table[4] = BytesListField(4, "supported_denoms")
        /\ table[5] = BytesField(5, "chain_binding")
    BY <1>1 DEF Params
  <1>3. /\ FieldIs(table[1], 1, "tree_depth") /\ table[1].type \in PlainTypes
        /\ FieldIs(table[2], 2, "reg_tree_depth") /\ table[2].type \in PlainTypes
        /\ FieldIs(table[3], 3, "auditor_pub_key") /\ table[3].type \in PlainTypes
        /\ FieldIs(table[4], 4, "supported_denoms") /\ table[4].type \in PlainTypes
        /\ FieldIs(table[5], 5, "chain_binding") /\ table[5].type \in PlainTypes
    BY <1>2, BytesFieldIs, BytesListFieldIs, Uint32FieldIs
  <1>4. Numbered(table, 5) /\ PlainTable(table)
    <2>1. \A i \in 1..5 : table[i].num = i /\ WellTyped(table[i])  /\ table[i].type \in PlainTypes
      BY <1>3 DEF FieldIs
    <2>2. \A i, j \in 1..5 : table[i].name = table[j].name => i = j
      BY <1>3 DEF FieldIs
    <2> QED
      BY <1>2, <2>1, <2>2 DEF Numbered, PlainTable
  <1>5. ASSUME NEW m \in Messages(table)
        PROVE  Codes(table, m, ParamsEntries(m), ParamsSize(m))
    <2>1. PICK puts : puts = AllPuts(table, m)
      OBVIOUS
    <2>2. /\ puts \in Seq(Seq(Seq(Byte))) /\ Len(puts) = 5 /\ Entries(table, m) = FlattenSeq(puts)
          /\ \A i \in 1..5 : /\ puts[i] = Put(table[i], m[table[i].name])
                              /\ m[table[i].name] \in Values(table[i])
      BY <1>4, <2>1, PutsFacts
    <2>4. /\ puts[1] = PutUint(1, m.tree_depth)
          /\ puts[2] = PutUint(2, m.reg_tree_depth)
          /\ puts[3] = PutBytes(3, m.auditor_pub_key)
          /\ puts[4] = PutEach(4, m.supported_denoms)
          /\ puts[5] = PutBytes(5, m.chain_binding)
      <3>1. puts[1] = PutUint(1, m.tree_depth)
        BY <1>2, <1>3, <2>2, Uint32FieldIs DEF FieldIs
      <3>2. puts[2] = PutUint(2, m.reg_tree_depth)
        BY <1>2, <1>3, <2>2, Uint32FieldIs DEF FieldIs
      <3>3. puts[3] = PutBytes(3, m.auditor_pub_key)
        BY <1>2, <1>3, <2>2, BytesFieldIs DEF FieldIs
      <3>4. puts[4] = PutEach(4, m.supported_denoms)
        BY <1>2, <1>3, <2>2, BytesListFieldIs DEF FieldIs
      <3>5. puts[5] = PutBytes(5, m.chain_binding)
        BY <1>2, <1>3, <2>2, BytesFieldIs DEF FieldIs
      <3> QED
        BY <3>1, <3>2, <3>3, <3>4, <3>5
    <2>5. Entries(table, m) = ParamsEntries(m)
      <3>1. FlattenSeq(puts) = puts[1] \o puts[2] \o puts[3] \o puts[4] \o puts[5]
        BY <2>2, JoinFive
      <3> QED
        BY <2>2, <2>4, <3>1 DEF ParamsEntries
    <2>6. ASSUME Fits(FlattenSeq(Entries(table, m)))
          PROVE  ParamsSize(m) = Len(FlattenSeq(Entries(table, m)))
      <3>1. PICK sizes : sizes = AllSizes(table, m)
        OBVIOUS
      <3>2. /\ sizes \in Seq(Nat) /\ Len(sizes) = 5
            /\ SumOf(sizes) = Len(FlattenSeq(Entries(table, m)))
            /\ \A i \in 1..5 : /\ sizes[i] = FieldSizeOf(table[i], m[table[i].name])
                               /\ Fits(FlattenSeq(Put(table[i], m[table[i].name])))
        BY <1>4, <2>6, <3>1, SizesFacts
      <3>3. /\ sizes[1] = SizeUint(m.tree_depth)
            /\ sizes[2] = SizeUint(m.reg_tree_depth)
            /\ sizes[3] = SizeBytes(m.auditor_pub_key)
            /\ sizes[4] = SizeEach(m.supported_denoms)
            /\ sizes[5] = SizeBytes(m.chain_binding)
        <4>1. sizes[1] = SizeUint(m.tree_depth)
          BY <1>2, <1>3, <3>2, Uint32FieldIs DEF FieldIs
        <4>2. sizes[2] = SizeUint(m.reg_tree_depth)
          BY <1>2, <1>3, <3>2, Uint32FieldIs DEF FieldIs
        <4>3. sizes[3] = SizeBytes(m.auditor_pub_key)
          BY <1>2, <1>3, <3>2, BytesFieldIs DEF FieldIs
        <4>4. sizes[4] = SizeEach(m.supported_denoms)
          BY <1>2, <1>3, <3>2, BytesListFieldIs DEF FieldIs
        <4>5. sizes[5] = SizeBytes(m.chain_binding)
          BY <1>2, <1>3, <3>2, BytesFieldIs DEF FieldIs
        <4> QED
          BY <4>1, <4>2, <4>3, <4>4, <4>5
      <3>4. SumOf(sizes) = sizes[1] + sizes[2] + sizes[3] + sizes[4] + sizes[5]
        BY <3>2, SumFive
      <3> QED
        BY <3>2, <3>3, <3>4 DEF ParamsSize
    <2> QED
      BY <2>5, <2>6 DEF Codes
  <1> QED
    BY <1>1, <1>4, <1>5, NumberedIs

(* The same when Params are embedded in another message. *)
LEMMA ParamsInside ==
    ASSUME NEW num \in 1..14, NEW v \in Seq(PlainMessages(Params))
    PROVE  /\ PutMessages(num, Each(v, ParamsEntries)) = InnerPuts(num, Params, v)
           /\ Fits(FlattenSeq(InnerPuts(num, Params, v)))
                 => SizeMessages(Each(v, ParamsSize)) = SizeMessages(InnerSizes(Params, v))
  <1>1. PICK table, n : table = Params /\ n = Len(v) /\ n \in Nat /\ DOMAIN v = 1..n
    BY LenIsNat
  <1>2. Distinct(table) /\ PlainTable(table)
    BY <1>1, ParamsCodes
  <1>3. ASSUME NEW k \in 1..n
        PROVE  /\ ParamsEntries(v[k]) = PlainEntries(table, v[k]) /\ v[k] \in PlainMessages(table)
               /\ Fits(InnerBytes(table, v[k])) => ParamsSize(v[k]) = PlainLength(table, v[k])
    <2>1. PICK m : m = v[k] /\ m \in PlainMessages(table)
      BY <1>1
    <2>2. m \in Messages(table) /\ PlainEntries(table, m) = Entries(table, m)
      BY <1>2, <2>1, PlainIsMessage
    <2>3. Codes(table, m, ParamsEntries(m), ParamsSize(m))
      BY <1>1, <2>2, ParamsCodes
    <2>4. ParamsEntries(m) = PlainEntries(table, m)
      BY <2>2, <2>3 DEF Codes
    <2>5. ASSUME Fits(InnerBytes(table, m)) PROVE ParamsSize(m) = PlainLength(table, m)
      <3>1. ParamsSize(m) = Len(InnerBytes(table, m))
        BY <2>3, <2>4, <2>5 DEF Codes, InnerBytes
      <3> QED
        BY <1>2, <2>1, <2>5, <3>1, PlainLengthIs
    <2> QED
      BY <2>1, <2>4, <2>5
  <1>4. PutMessages(num, Each(v, ParamsEntries)) = InnerPuts(num, table, v)
    <2>1. PICK written : written = [k \in 1..n |-> ParamsEntries(v[k])]
      OBVIOUS
    <2>2. PutMessages(num, Each(v, ParamsEntries)) = [k \in 1..n |-> Delimited(num, FlattenSeq(written[k]))]
      <3>1. Each(v, ParamsEntries) = written
        BY <1>1, <2>1 DEF Each
      <3> QED
        BY <2>1, <3>1 DEF PutMessages
    <2>3. \A k \in 1..n : FlattenSeq(written[k]) = InnerBytes(table, v[k])
      BY <1>3, <2>1 DEF InnerBytes
    <2> QED
      BY <1>1, <2>2, <2>3 DEF InnerPuts
  <1>5. ASSUME Fits(FlattenSeq(InnerPuts(num, table, v)))
        PROVE  Each(v, ParamsSize) = InnerSizes(table, v)
    <2>1. \A k \in 1..n : Fits(InnerBytes(table, v[k]))
      BY <1>1, <1>2, <1>5, InnerFits
    <2>2. Each(v, ParamsSize) = [k \in 1..n |-> ParamsSize(v[k])]
      BY <1>1 DEF Each
    <2>3. InnerSizes(table, v) = [k \in 1..n |-> PlainLength(table, v[k])]
      BY <1>1 DEF InnerSizes
    <2> QED
      BY <1>3, <2>1, <2>2, <2>3
  <1> QED
    BY <1>1, <1>4, <1>5

(* The types that are embedded in others, one by one. *)
LEMMA OutputNoteCodes ==
    /\ WellFormed(OutputNote) /\ Distinct(OutputNote) /\ PlainTable(OutputNote)
    /\ \A m \in Messages(OutputNote) : Codes(OutputNote, m, OutputNoteEntries(m), OutputNoteSize(m))
  <1>1. PICK table : table = OutputNote
    OBVIOUS
  <1>2. /\ Len(table) = 9 /\ DOMAIN table = 1..9
        /\ table[1] = BytesField(1, "note_hash")
        /\ table[2] = BytesField(2, "ephemeral_x")
        /\ table[3] = BytesField(3, "ephemeral_y")
        /\ table[4] = BytesField(4, "enc_amount")
        /\ table[5] = BytesField(5, "enc_salt")
        /\ table[6] = BytesField(6, "auditor_enc")
        /\ table[7] = BytesField(7, "auditor_auth_key_x")
        /\ table[8] = BytesField(8, "auditor_auth_key_y")
        /\ table[9] = BytesField(9, "auditor_enc_recipient")
    BY <1>1 DEF OutputNote
  <1>3. /\ FieldIs(table[1], 1, "note_hash") /\ table[1].type \in PlainTypes
        /\ FieldIs(table[2], 2, "ephemeral_x") /\ table[2].type \in PlainTypes
        /\ FieldIs(table[3], 3, "ephemeral_y") /\ table[3].type \in PlainTypes
        /\ FieldIs(table[4], 4, "enc_amount") /\ table[4].type \in PlainTypes
        /\ FieldIs(table[5], 5, "enc_salt") /\ table[5].type \in PlainTypes
        /\ FieldIs(table[6], 6, "auditor_enc") /\ table[6].type \in PlainTypes
        /\ FieldIs(table[7], 7, "auditor_auth_key_x") /\ table[7].type \in PlainTypes
        /\ FieldIs(table[8], 8, "auditor_auth_key_y") /\ table[8].type \in PlainTypes
        /\ FieldIs(table[9], 9, "auditor_enc_recipient") /\ table[9].type \in PlainTypes
    BY <1>2, BytesFieldIs
  <1>4. Numbered(table, 9) /\ PlainTable(table)
    <2>1. \A i \in 1..9 : table[i].num = i /\ WellTyped(table[i])  /\ table[i].type \in PlainTypes
      BY <1>3 DEF FieldIs
    <2>2. \A i, j \in 1..9 : table[i].name = table[j].name => i = j
      BY <1>3 DEF FieldIs
    <2> QED
      BY <1>2, <2>1, <2>2 DEF Numbered, PlainTable
  <1>5. ASSUME NEW m \in Messages(table)
        PROVE  Codes(table, m, OutputNoteEntries(m), OutputNoteSize(m))
    <2>1. PICK puts : puts = AllPuts(table, m)
      OBVIOUS
    <2>2. /\ puts \in Seq(Seq(Seq(Byte))) /\ Len(puts) = 9 /\ Entries(table, m) = FlattenSeq(puts)
          /\ \A i \in 1..9 : /\ puts[i] = Put(table[i], m[table[i].name])
                              /\ m[table[i].name] \in Values(table[i])
      BY <1>4, <2>1, PutsFacts
    <2>4. /\ puts[1] = PutBytes(1, m.note_hash)
          /\ puts[2] = PutBytes(2, m.ephemeral_x)
          /\ puts[3] = PutBytes(3, m.ephemeral_y)
          /\ puts[4] = PutBytes(4, m.enc_amount)
          /\ puts[5] = PutBytes(5, m.enc_salt)
          /\ puts[6] = PutBytes(6, m.auditor_enc)
          /\ puts[7] = PutBytes(7, m.auditor_auth_key_x)
          /\ puts[8] = PutBytes(8, m.auditor_auth_key_y)
          /\ puts[9] = PutBytes(9, m.auditor_enc_recipient)
      BY <1>2, <1>3, <2>2, BytesFieldIs DEF FieldIs
    <2>5. Entries(table, m) = OutputNoteEntries(m)
      <3>1. FlattenSeq(puts) = puts[1] \o puts[2] \o puts[3] \o puts[4] \o puts[5] \o
                              puts[6] \o puts[7] \o puts[8] \o puts[9]
        BY <2>2, JoinNine
      <3> QED
        BY <2>2, <2>4, <3>1 DEF OutputNoteEntries
    <2>6. ASSUME Fits(FlattenSeq(Entries(table, m)))
          PROVE  OutputNoteSize(m) = Len(FlattenSeq(Entries(table, m)))
      <3>1. PICK sizes : sizes = AllSizes(table, m)
        OBVIOUS
      <3>2. /\ sizes \in Seq(Nat) /\ Len(sizes) = 9
            /\ SumOf(sizes) = Len(FlattenSeq(Entries(table, m)))
            /\ \A i \in 1..9 : /\ sizes[i] = FieldSizeOf(table[i], m[table[i].name])
                               /\ Fits(FlattenSeq(Put(table[i], m[table[i].name])))
        BY <1>4, <2>6, <3>1, SizesFacts
      <3>3. /\ sizes[1] = SizeBytes(m.note_hash)
            /\ sizes[2] = SizeBytes(m.ephemeral_x)
            /\ sizes[3] = SizeBytes(m.ephemeral_y)
            /\ sizes[4] = SizeBytes(m.enc_amount)
            /\ sizes[5] = SizeBytes(m.enc_salt)
            /\ sizes[6] = SizeBytes(m.auditor_enc)
            /\ sizes[7] = SizeBytes(m.auditor_auth_key_x)
            /\ sizes[8] = SizeBytes(m.auditor_auth_key_y)
            /\ sizes[9] = SizeBytes(m.auditor_enc_recipient)
        BY <1>2, <1>3, <3>2, BytesFieldIs DEF FieldIs
      <3>4. SumOf(sizes) = sizes[1] + sizes[2] + sizes[3] + sizes[4] + sizes[5] +
                           sizes[6] + sizes[7] + sizes[8] + sizes[9]
        BY <3>2, SumNine
      <3> QED
        BY <3>2, <3>3, <3>4 DEF OutputNoteSize
    <2> QED
      BY <2>5, <2>6 DEF Codes
  <1> QED
    BY <1>1, <1>4, <1>5, NumberedIs

LEMMA OutputNoteInside ==
    ASSUME NEW num \in 1..14, NEW v \in Seq(PlainMessages(OutputNote))
    PROVE  /\ PutMessages(num, Each(v, OutputNoteEntries)) = InnerPuts(num, OutputNote, v)
           /\ Fits(FlattenSeq(InnerPuts(num, OutputNote, v)))
                 => SizeMessages(Each(v, OutputNoteSize)) = SizeMessages(InnerSizes(OutputNote, v))
  <1>1. PICK table, n : table = OutputNote /\ n = Len(v) /\ n \in Nat /\ DOMAIN v = 1..n
    BY LenIsNat
  <1>2. Distinct(table) /\ PlainTable(table)
    BY <1>1, OutputNoteCodes
  <1>3. ASSUME NEW k \in 1..n
        PROVE  /\ OutputNoteEntries(v[k]) = PlainEntries(table, v[k]) /\ v[k] \in PlainMessages(table)
               /\ Fits(InnerBytes(table, v[k])) => OutputNoteSize(v[k]) = PlainLength(table, v[k])
    <2>1. PICK m : m = v[k] /\ m \in PlainMessages(table)
      BY <1>1
    <2>2. m \in Messages(table) /\ PlainEntries(table, m) = Entries(table, m)
      BY <1>2, <2>1, PlainIsMessage
    <2>3. Codes(table, m, OutputNoteEntries(m), OutputNoteSize(m))
      BY <1>1, <2>2, OutputNoteCodes
    <2>4. OutputNoteEntries(m) = PlainEntries(table, m)
      BY <2>2, <2>3 DEF Codes
    <2>5. ASSUME Fits(InnerBytes(table, m)) PROVE OutputNoteSize(m) = PlainLength(table, m)
      <3>1. OutputNoteSize(m) = Len(InnerBytes(table, m))
        BY <2>3, <2>4, <2>5 DEF Codes, InnerBytes
      <3> QED
        BY <1>2, <2>1, <2>5, <3>1, PlainLengthIs
    <2> QED
      BY <2>1, <2>4, <2>5
  <1>4. PutMessages(num, Each(v, OutputNoteEntries)) = InnerPuts(num, table, v)
    <2>1. PICK written : written = [k \in 1..n |-> OutputNoteEntries(v[k])]
      OBVIOUS
    <2>2. PutMessages(num, Each(v, OutputNoteEntries)) = [k \in 1..n |-> Delimited(num, FlattenSeq(written[k]))]
      <3>1. Each(v, OutputNoteEntries) = written
        BY <1>1, <2>1 DEF Each
      <3> QED
        BY <2>1, <3>1 DEF PutMessages
    <2>3. \A k \in 1..n : FlattenSeq(written[k]) = InnerBytes(table, v[k])
      BY <1>3, <2>1 DEF InnerBytes
    <2> QED
      BY <1>1, <2>2, <2>3 DEF InnerPuts
  <1>5. ASSUME Fits(FlattenSeq(InnerPuts(num, table, v)))
        PROVE  Each(v, OutputNoteSize) = InnerSizes(table, v)
    <2>1. \A k \in 1..n : Fits(InnerBytes(table, v[k]))
      BY <1>1, <1>2, <1>5, InnerFits
    <2>2. Each(v, OutputNoteSize) = [k \in 1..n |-> OutputNoteSize(v[k])]
      BY <1>1 DEF Each
    <2>3. InnerSizes(table, v) = [k \in 1..n |-> PlainLength(table, v[k])]
      BY <1>1 DEF InnerSizes
    <2> QED
      BY <1>3, <2>1, <2>2, <2>3
  <1> QED
    BY <1>1, <1>4, <1>5

LEMMA TreeStateCodes ==
    /\ WellFormed(TreeState) /\ Distinct(TreeState) /\ PlainTable(TreeState)
    /\ \A m \in Messages(TreeState) : Codes(TreeState, m, TreeStateEntries(m), TreeStateSize(m))
  <1>1. PICK table : table = TreeState
    OBVIOUS
  <1>2. /\ Len(table) = 6 /\ DOMAIN table = 1..6
        /\ table[1] = Uint64Field(1, "tree_id")
        /\ table[2] = BytesListField(2, "commitments")
        /\ table[3] = BytesListField(3, "frontier")
        /\ table[4] = Uint64Field(4, "next_index")
        /\ table[5] = BytesField(5, "merkle_root")
        /\ table[6] = BytesListField(6, "root_history")
    BY <1>1 DEF TreeState
  <1>3. /\ FieldIs(table[1], 1, "tree_id") /\ table[1].type \in PlainTypes
        /\ FieldIs(table[2], 2, "commitments") /\ table[2].type \in PlainTypes
        /\ FieldIs(table[3], 3, "frontier") /\ table[3].type \in PlainTypes
        /\ FieldIs(table[4], 4, "next_index") /\ table[4].type \in PlainTypes
        /\ FieldIs(table[5], 5, "merkle_root") /\ table[5].type \in PlainTypes
        /\ FieldIs(table[6], 6, "root_history") /\ table[6].type \in PlainTypes
    BY <1>2, BytesFieldIs, BytesListFieldIs, Uint64FieldIs
  <1>4. Numbered(table, 6) /\ PlainTable(table)
    <2>1. \A i \in 1..6 : table[i].num = i /\ WellTyped(table[i])  /\ table[i].type \in PlainTypes
      BY <1>3 DEF FieldIs
    <2>2. \A i, j \in 1..6 : table[i].name = table[j].name => i = j
      BY <1>3 DEF FieldIs
    <2> QED
      BY <1>2, <2>1, <2>2 DEF Numbered, PlainTable
  <1>5. ASSUME NEW m \in Messages(table)
        PROVE  Codes(table, m, TreeStateEntries(m), TreeStateSize(m))
    <2>1. PICK puts : puts = AllPuts(table, m)
      OBVIOUS
    <2>2. /\ puts \in Seq(Seq(Seq(Byte))) /\ Len(puts) = 6 /\ Entries(table, m) = FlattenSeq(puts)
          /\ \A i \in 1..6 : /\ puts[i] = Put(table[i], m[table[i].name])
                              /\ m[table[i].name] \in Values(table[i])
      BY <1>4, <2>1, PutsFacts
    <2>4. /\ puts[1] = PutUint(1, m.tree_id)
          /\ puts[2] = PutEach(2, m.commitments)
          /\ puts[3] = PutEach(3, m.frontier)
          /\ puts[4] = PutUint(4, m.next_index)
          /\ puts[5] = PutBytes(5, m.merkle_root)
          /\ puts[6] = PutEach(6, m.root_history)
      <3>1. puts[1] = PutUint(1, m.tree_id)
        BY <1>2, <1>3, <2>2, Uint64FieldIs DEF FieldIs
      <3>2. puts[2] = PutEach(2, m.commitments)
        BY <1>2, <1>3, <2>2, BytesListFieldIs DEF FieldIs
      <3>3. puts[3] = PutEach(3, m.frontier)
        BY <1>2, <1>3, <2>2, BytesListFieldIs DEF FieldIs
      <3>4. puts[4] = PutUint(4, m.next_index)
        BY <1>2, <1>3, <2>2, Uint64FieldIs DEF FieldIs
      <3>5. puts[5] = PutBytes(5, m.merkle_root)
        BY <1>2, <1>3, <2>2, BytesFieldIs DEF FieldIs
      <3>6. puts[6] = PutEach(6, m.root_history)
        BY <1>2, <1>3, <2>2, BytesListFieldIs DEF FieldIs
      <3> QED
        BY <3>1, <3>2, <3>3, <3>4, <3>5, <3>6
    <2>5. Entries(table, m) = TreeStateEntries(m)
      <3>1. FlattenSeq(puts) = puts[1] \o puts[2] \o puts[3] \o puts[4] \o puts[5] \o
                              puts[6]
        BY <2>2, JoinSix
      <3> QED
        BY <2>2, <2>4, <3>1 DEF TreeStateEntries
    <2>6. ASSUME Fits(FlattenSeq(Entries(table, m)))
          PROVE  TreeStateSize(m) = Len(FlattenSeq(Entries(table, m)))
      <3>1. PICK sizes : sizes = AllSizes(table, m)
        OBVIOUS
      <3>2. /\ sizes \in Seq(Nat) /\ Len(sizes) = 6
            /\ SumOf(sizes) = Len(FlattenSeq(Entries(table, m)))
            /\ \A i \in 1..6 : /\ sizes[i] = FieldSizeOf(table[i], m[table[i].name])
                               /\ Fits(FlattenSeq(Put(table[i], m[table[i].name])))
        BY <1>4, <2>6, <3>1, SizesFacts
      <3>3. /\ sizes[1] = SizeUint(m.tree_id)
            /\ sizes[2] = SizeEach(m.commitments)
            /\ sizes[3] = SizeEach(m.frontier)
            /\ sizes[4] = SizeUint(m.next_index)
            /\ sizes[5] = SizeBytes(m.merkle_root)
            /\ sizes[6] = SizeEach(m.root_history)
        <4>1. sizes[1] = SizeUint(m.tree_id)
          BY <1>2, <1>3, <3>2, Uint64FieldIs DEF FieldIs
        <4>2. sizes[2] = SizeEach(m.commitments)
          BY <1>2, <1>3, <3>2, BytesListFieldIs DEF FieldIs
        <4>3. sizes[3] = SizeEach(m.frontier)
          BY <1>2, <1>3, <3>2, BytesListFieldIs DEF FieldIs
        <4>4. sizes[4] = SizeUint(m.next_index)
          BY <1>2, <1>3, <3>2, Uint64FieldIs DEF FieldIs
        <4>5. sizes[5] = SizeBytes(m.merkle_root)
          BY <1>2, <1>3, <3>2, BytesFieldIs DEF FieldIs
        <4>6. sizes[6] = SizeEach(m.root_history)
          BY <1>2, <1>3, <3>2, BytesListFieldIs DEF FieldIs
        <4> QED
          BY <4>1, <4>2, <4>3, <4>4, <4>5, <4>6
      <3>4. SumOf(sizes) = sizes[1] + sizes[2] + sizes[3] + sizes[4] + sizes[5] +
                           sizes[6]
        BY <3>2, SumSix
      <3> QED
        BY <3>2, <3>3, <3>4 DEF TreeStateSize
    <2> QED
      BY <2>5, <2>6 DEF Codes
  <1> QED
    BY <1>1, <1>4, <1>5, NumberedIs

LEMMA TreeStateInside ==
    ASSUME NEW num \in 1..14, NEW v \in Seq(PlainMessages(TreeState))
    PROVE  /\ PutMessages(num, Each(v, TreeStateEntries)) = InnerPuts(num, TreeState, v)
           /\ Fits(FlattenSeq(InnerPuts(num, TreeState, v)))
                 => SizeMessages(Each(v, TreeStateSize)) = SizeMessages(InnerSizes(TreeState, v))
  <1>1. PICK table, n : table = TreeState /\ n = Len(v) /\ n \in Nat /\ DOMAIN v = 1..n
    BY LenIsNat
  <1>2. Distinct(table) /\ PlainTable(table)
    BY <1>1, TreeStateCodes
  <1>3. ASSUME NEW k \in 1..n
        PROVE  /\ TreeStateEntries(v[k]) = PlainEntries(table, v[k]) /\ v[k] \in PlainMessages(table)
               /\ Fits(InnerBytes(table, v[k])) => TreeStateSize(v[k]) = PlainLength(table, v[k])
    <2>1. PICK m : m = v[k] /\ m \in PlainMessages(table)
      BY <1>1
    <2>2. m \in Messages(table) /\ PlainEntries(table, m) = Entries(table, m)
      BY <1>2, <2>1, PlainIsMessage
    <2>3. Codes(table, m, TreeStateEntries(m), TreeStateSize(m))
      BY <1>1, <2>2, TreeStateCodes
    <2>4. TreeStateEntries(m) = PlainEntries(table, m)
      BY <2>2, <2>3 DEF Codes
    <2>5. ASSUME Fits(InnerBytes(table, m)) PROVE TreeStateSize(m) = PlainLength(table, m)
      <3>1. TreeStateSize(m) = Len(InnerBytes(table, m))
        BY <2>3, <2>4, <2>5 DEF Codes, InnerBytes
      <3> QED
        BY <1>2, <2>1, <2>5, <3>1, PlainLengthIs
    <2> QED
      BY <2>1, <2>4, <2>5
  <1>4. PutMessages(num, Each(v, TreeStateEntries)) = InnerPuts(num, table, v)
    <2>1. PICK written : written = [k \in 1..n |-> TreeStateEntries(v[k])]
      OBVIOUS
    <2>2. PutMessages(num, Each(v, TreeStateEntries)) = [k \in 1..n |-> Delimited(num, FlattenSeq(written[k]))]
      <3>1. Each(v, TreeStateEntries) = written
        BY <1>1, <2>1 DEF Each
      <3> QED
        BY <2>1, <3>1 DEF PutMessages
    <2>3. \A k \in 1..n : FlattenSeq(written[k]) = InnerBytes(table, v[k])
      BY <1>3, <2>1 DEF InnerBytes
    <2> QED
      BY <1>1, <2>2, <2>3 DEF InnerPuts
  <1>5. ASSUME Fits(FlattenSeq(InnerPuts(num, table, v)))
        PROVE  Each(v, TreeStateSize) = InnerSizes(table, v)
    <2>1. \A k \in 1..n : Fits(InnerBytes(table, v[k]))
      BY <1>1, <1>2, <1>5, InnerFits
    <2>2. Each(v, TreeStateSize) = [k \in 1..n |-> TreeStateSize(v[k])]
      BY <1>1 DEF Each
    <2>3. InnerSizes(table, v) = [k \in 1..n |-> PlainLength(table, v[k])]
      BY <1>1 DEF InnerSizes
    <2> QED
      BY <1>3, <2>1, <2>2, <2>3
  <1> QED
    BY <1>1, <1>4, <1>5

LEMMA AuditorDataEntryCodes ==
    /\ WellFormed(AuditorDataEntry) /\ Distinct(AuditorDataEntry) /\ PlainTable(AuditorDataEntry)
    /\ \A m \in Messages(AuditorDataEntry) : Codes(AuditorDataEntry, m, AuditorDataEntryEntries(m), AuditorDataEntrySize(m))
  <1>1. PICK table : table = AuditorDataEntry
    OBVIOUS
  <1>2. /\ Len(table) = 2 /\ DOMAIN table = 1..2
        /\ table[1] = BytesField(1, "tx_hash")
        /\ table[2] = BytesField(2, "data")
    BY <1>1 DEF AuditorDataEntry
  <1>3. /\ FieldIs(table[1], 1, "tx_hash") /\ table[1].type \in PlainTypes
        /\ FieldIs(table[2], 2, "data") /\ table[2].type \in PlainTypes
    BY <1>2, BytesFieldIs
  <1>4. Numbered(table, 2) /\ PlainTable(table)
    <2>1. \A i \in 1..2 : table[i].num = i /\ WellTyped(table[i])  /\ table[i].type \in PlainTypes
      BY <1>3 DEF FieldIs
    <2>2. \A i, j \in 1..2 : table[i].name = table[j].name => i = j
      BY <1>3 DEF FieldIs
    <2> QED
      BY <1>2, <2>1, <2>2 DEF Numbered, PlainTable
  <1>5. ASSUME NEW m \in Messages(table)
        PROVE  Codes(table, m, AuditorDataEntryEntries(m), AuditorDataEntrySize(m))
    <2>1. PICK puts : puts = AllPuts(table, m)
      OBVIOUS
    <2>2. /\ puts \in Seq(Seq(Seq(Byte))) /\ Len(puts) = 2 /\ Entries(table, m) = FlattenSeq(puts)
          /\ \A i \in 1..2 : /\ puts[i] = Put(table[i], m[table[i].name])
                              /\ m[table[i].name] \in Values(table[i])
      BY <1>4, <2>1, PutsFacts
    <2>4. /\ puts[1] = PutBytes(1, m.tx_hash)
          /\ puts[2] = PutBytes(2, m.data)
      BY <1>2, <1>3, <2>2, BytesFieldIs DEF FieldIs
    <2>5. Entries(table, m) = AuditorDataEntryEntries(m)
      <3>1. FlattenSeq(puts) = puts[1] \o puts[2]
        BY <2>2, JoinTwo
      <3> QED
        BY <2>2, <2>4, <3>1 DEF AuditorDataEntryEntries
    <2>6. ASSUME Fits(FlattenSeq(Entries(table, m)))
          PROVE  AuditorDataEntrySize(m) = Len(FlattenSeq(Entries(table, m)))
      <3>1. PICK sizes : sizes = AllSizes(table, m)
        OBVIOUS
      <3>2. /\ sizes \in Seq(Nat) /\ Len(sizes) = 2
            /\ SumOf(sizes) = Len(FlattenSeq(Entries(table, m)))
            /\ \A i \in 1..2 : /\ sizes[i] = FieldSizeOf(table[i], m[table[i].name])
                               /\ Fits(FlattenSeq(Put(table[i], m[table[i].name])))
        BY <1>4, <2>6, <3>1, SizesFacts
      <3>3. /\ sizes[1] = SizeBytes(m.tx_hash)
            /\ sizes[2] = SizeBytes(m.data)
        BY <1>2, <1>3, <3>2, BytesFieldIs DEF FieldIs
      <3>4. SumOf(sizes) = sizes[1] + sizes[2]
        BY <3>2, SumTwo
      <3> QED
        BY <3>2, <3>3, <3>4 DEF AuditorDataEntrySize
    <2> QED
      BY <2>5, <2>6 DEF Codes
  <1> QED
    BY <1>1, <1>4, <1>5, NumberedIs

LEMMA AuditorDataEntryInside ==
    ASSUME NEW num \in 1..14, NEW v \in Seq(PlainMessages(AuditorDataEntry))
    PROVE  /\ PutMessages(num, Each(v, AuditorDataEntryEntries)) = InnerPuts(num, AuditorDataEntry, v)
           /\ Fits(FlattenSeq(InnerPuts(num, AuditorDataEntry, v)))
                 => SizeMessages(Each(v, AuditorDataEntrySize)) = SizeMessages(InnerSizes(AuditorDataEntry, v))
  <1>1. PICK table, n : table = AuditorDataEntry /\ n = Len(v) /\ n \in Nat /\ DOMAIN v = 1..n
    BY LenIsNat
  <1>2. Distinct(table) /\ PlainTable(table)
    BY <1>1, AuditorDataEntryCodes
  <1>3. ASSUME NEW k \in 1..n
        PROVE  /\ AuditorDataEntryEntries(v[k]) = PlainEntries(table, v[k]) /\ v[k] \in PlainMessages(table)
               /\ Fits(InnerBytes(table, v[k])) => AuditorDataEntrySize(v[k]) = PlainLength(table, v[k])
    <2>1. PICK m : m = v[k] /\ m \in PlainMessages(table)
      BY <1>1
    <2>2. m \in Messages(table) /\ PlainEntries(table, m) = Entries(table, m)
      BY <1>2, <2>1, PlainIsMessage
    <2>3. Codes(table, m, AuditorDataEntryEntries(m), AuditorDataEntrySize(m))
      BY <1>1, <2>2, AuditorDataEntryCodes
    <2>4. AuditorDataEntryEntries(m) = PlainEntries(table, m)
      BY <2>2, <2>3 DEF Codes
    <2>5. ASSUME Fits(InnerBytes(table, m)) PROVE AuditorDataEntrySize(m) = PlainLength(table, m)
      <3>1. AuditorDataEntrySize(m) = Len(InnerBytes(table, m))
        BY <2>3, <2>4, <2>5 DEF Codes, InnerBytes
      <3> QED
        BY <1>2, <2>1, <2>5, <3>1, PlainLengthIs
    <2> QED
      BY <2>1, <2>4, <2>5
  <1>4. PutMessages(num, Each(v, AuditorDataEntryEntries)) = InnerPuts(num, table, v)
    <2>1. PICK written : written = [k \in 1..n |-> AuditorDataEntryEntries(v[k])]
      OBVIOUS
    <2>2. PutMessages(num, Each(v, AuditorDataEntryEntries)) = [k \in 1..n |-> Delimited(num, FlattenSeq(written[k]))]
      <3>1. Each(v, AuditorDataEntryEntries) = written
        BY <1>1, <2>1 DEF Each
      <3> QED
        BY <2>1, <3>1 DEF PutMessages
    <2>3. \A k \in 1..n : FlattenSeq(written[k]) = InnerBytes(table, v[k])
      BY <1>3, <2>1 DEF InnerBytes
    <2> QED
      BY <1>1, <2>2, <2>3 DEF InnerPuts
  <1>5. ASSUME Fits(FlattenSeq(InnerPuts(num, table, v)))
        PROVE  Each(v, AuditorDataEntrySize) = InnerSizes(table, v)
    <2>1. \A k \in 1..n : Fits(InnerBytes(table, v[k]))
      BY <1>1, <1>2, <1>5, InnerFits
    <2>2. Each(v, AuditorDataEntrySize) = [k \in 1..n |-> AuditorDataEntrySize(v[k])]
      BY <1>1 DEF Each
    <2>3. InnerSizes(table, v) = [k \in 1..n |-> PlainLength(table, v[k])]
      BY <1>1 DEF InnerSizes
    <2> QED
      BY <1>3, <2>1, <2>2, <2>3
  <1> QED
    BY <1>1, <1>4, <1>5

LEMMA VerificationKeyEntryCodes ==
    /\ WellFormed(VerificationKeyEntry) /\ Distinct(VerificationKeyEntry) /\ PlainTable(VerificationKeyEntry)
    /\ \A m \in Messages(VerificationKeyEntry) : Codes(VerificationKeyEntry, m, VerificationKeyEntryEntries(m), VerificationKeyEntrySize(m))
  <1>1. PICK table : table = VerificationKeyEntry
    OBVIOUS
  <1>2. /\ Len(table) = 2 /\ DOMAIN table = 1..2
        /\ table[1] = BytesField(1, "circuit_name")
        /\ table[2] = BytesField(2, "vk_data")
    BY <1>1 DEF VerificationKeyEntry
  <1>3. /\ FieldIs(table[1], 1, "circuit_name") /\ table[1].type \in PlainTypes
        /\ FieldIs(table[2], 2, "vk_data") /\ table[2].type \in PlainTypes
    BY <1>2, BytesFieldIs
  <1>4. Numbered(table, 2) /\ PlainTable(table)
    <2>1. \A i \in 1..2 : table[i].num = i /\ WellTyped(table[i])  /\ table[i].type \in PlainTypes
      BY <1>3 DEF FieldIs
    <2>2. \A i, j \in 1..2 : table[i].name = table[j].name => i = j
      BY <1>3 DEF FieldIs
    <2> QED
      BY <1>2, <2>1, <2>2 DEF Numbered, PlainTable
  <1>5. ASSUME NEW m \in Messages(table)
        PROVE  Codes(table, m, VerificationKeyEntryEntries(m), VerificationKeyEntrySize(m))
    <2>1. PICK puts : puts = AllPuts(table, m)
      OBVIOUS
    <2>2. /\ puts \in Seq(Seq(Seq(Byte))) /\ Len(puts) = 2 /\ Entries(table, m) = FlattenSeq(puts)
          /\ \A i \in 1..2 : /\ puts[i] = Put(table[i], m[table[i].name])
                              /\ m[table[i].name] \in Values(table[i])
      BY <1>4, <2>1, PutsFacts
    <2>4. /\ puts[1] = PutBytes(1, m.circuit_name)
          /\ puts[2] = PutBytes(2, m.vk_data)
      BY <1>2, <1>3, <2>2, BytesFieldIs DEF FieldIs
    <2>5. Entries(table, m) = VerificationKeyEntryEntries(m)
      <3>1. FlattenSeq(puts) = puts[1] \o puts[2]
        BY <2>2, JoinTwo
      <3> QED
        BY <2>2, <2>4, <3>1 DEF VerificationKeyEntryEntries
    <2>6. ASSUME Fits(FlattenSeq(Entries(table, m)))
          PROVE  VerificationKeyEntrySize(m) = Len(FlattenSeq(Entries(table, m)))
      <3>1. PICK sizes : sizes = AllSizes(table, m)
        OBVIOUS
      <3>2. /\ sizes \in Seq(Nat) /\ Len(sizes) = 2
            /\ SumOf(sizes) = Len(FlattenSeq(Entries(table, m)))
            /\ \A i \in 1..2 : /\ sizes[i] = FieldSizeOf(table[i], m[table[i].name])
                               /\ Fits(FlattenSeq(Put(table[i], m[table[i].name])))
        BY <1>4, <2>6, <3>1, SizesFacts
      <3>3. /\ sizes[1] = SizeBytes(m.circuit_name)
            /\ sizes[2] = SizeBytes(m.vk_data)
        BY <1>2, <1>3, <3>2, BytesFieldIs DEF FieldIs
      <3>4. SumOf(sizes) = sizes[1] + sizes[2]
        BY <3>2, SumTwo
      <3> QED
        BY <3>2, <3>3, <3>4 DEF VerificationKeyEntrySize
    <2> QED
      BY <2>5, <2>6 DEF Codes
  <1> QED
    BY <1>1, <1>4, <1>5, NumberedIs

LEMMA VerificationKeyEntryInside ==
    ASSUME NEW num \in 1..14, NEW v \in Seq(PlainMessages(VerificationKeyEntry))
    PROVE  /\ PutMessages(num, Each(v, VerificationKeyEntryEntries)) = InnerPuts(num, VerificationKeyEntry, v)
           /\ Fits(FlattenSeq(InnerPuts(num, VerificationKeyEntry, v)))
                 => SizeMessages(Each(v, VerificationKeyEntrySize)) = SizeMessages(InnerSizes(VerificationKeyEntry, v))
  <1>1. PICK table, n : table = VerificationKeyEntry /\ n = Len(v) /\ n \in Nat /\ DOMAIN v = 1..n
    BY LenIsNat
  <1>2. Distinct(table) /\ PlainTable(table)
    BY <1>1, VerificationKeyEntryCodes
  <1>3. ASSUME NEW k \in 1..n
        PROVE  /\ VerificationKeyEntryEntries(v[k]) = PlainEntries(table, v[k]) /\ v[k] \in PlainMessages(table)
               /\ Fits(InnerBytes(table, v[k])) => VerificationKeyEntrySize(v[k]) = PlainLength(table, v[k])
    <2>1. PICK m : m = v[k] /\ m \in PlainMessages(table)
      BY <1>1
    <2>2. m \in Messages(table) /\ PlainEntries(table, m) = Entries(table, m)
      BY <1>2, <2>1, PlainIsMessage
    <2>3. Codes(table, m, VerificationKeyEntryEntries(m), VerificationKeyEntrySize(m))
      BY <1>1, <2>2, VerificationKeyEntryCodes
    <2>4. VerificationKeyEntryEntries(m) = PlainEntries(table, m)
      BY <2>2, <2>3 DEF Codes
    <2>5. ASSUME Fits(InnerBytes(table, m)) PROVE VerificationKeyEntrySize(m) = PlainLength(table, m)
      <3>1. VerificationKeyEntrySize(m) = Len(InnerBytes(table, m))
        BY <2>3, <2>4, <2>5 DEF Codes, InnerBytes
      <3> QED
        BY <1>2, <2>1, <2>5, <3>1, PlainLengthIs
    <2> QED
      BY <2>1, <2>4, <2>5
  <1>4. PutMessages(num, Each(v, VerificationKeyEntryEntries)) = InnerPuts(num, table, v)
    <2>1. PICK written : written = [k \in 1..n |-> VerificationKeyEntryEntries(v[k])]
      OBVIOUS
    <2>2. PutMessages(num, Each(v, VerificationKeyEntryEntries)) = [k \in 1..n |-> Delimited(num, FlattenSeq(written[k]))]
      <3>1. Each(v, VerificationKeyEntryEntries) = written
        BY <1>1, <2>1 DEF Each
      <3> QED
        BY <2>1, <3>1 DEF PutMessages
    <2>3. \A k \in 1..n : FlattenSeq(written[k]) = InnerBytes(table, v[k])
      BY <1>3, <2>1 DEF InnerBytes
    <2> QED
      BY <1>1, <2>2, <2>3 DEF InnerPuts
  <1>5. ASSUME Fits(FlattenSeq(InnerPuts(num, table, v)))
        PROVE  Each(v, VerificationKeyEntrySize) = InnerSizes(table, v)
    <2>1. \A k \in 1..n : Fits(InnerBytes(table, v[k]))
      BY <1>1, <1>2, <1>5, InnerFits
    <2>2. Each(v, VerificationKeyEntrySize) = [k \in 1..n |-> VerificationKeyEntrySize(v[k])]
      BY <1>1 DEF Each
    <2>3. InnerSizes(table, v) = [k \in 1..n |-> PlainLength(table, v[k])]
      BY <1>1 DEF InnerSizes
    <2> QED
      BY <1>3, <2>1, <2>2, <2>3
  <1> QED
    BY <1>1, <1>4, <1>5

(* The types that others are embedded in. *)
LEMMA MsgTransactCodes ==
    /\ WellFormed(MsgTransact)
    /\ \A m \in Messages(MsgTransact) : Codes(MsgTransact, m, MsgTransactEntries(m), MsgTransactSize(m))
  <1>1. PICK table : table = MsgTransact
    OBVIOUS
  <1>2. /\ Len(table) = 10 /\ DOMAIN table = 1..10
        /\ table[1] = BytesField(1, "sender")
        /\ table[2] = BytesListField(2, "nullifiers")
        /\ table[3] = BytesListField(3, "merkle_roots")
        /\ table[4] = MessageListField(4, "outputs", OutputNote)
        /\ table[5] = BytesField(5, "withdraw_amount")
        /\ table[6] = BytesField(6, "withdraw_address")
        /\ table[7] = BytesField(7, "denom")
        /\ table[8] = BytesField(8, "registration_root")
        /\ table[9] = BytesField(9, "relayer_fee")
        /\ table[10] = BytesField(10, "proof")
    BY <1>1 DEF MsgTransact
  <1>3. /\ FieldIs(table[1], 1, "sender")
        /\ FieldIs(table[2], 2, "nullifiers")
        /\ FieldIs(table[3], 3, "merkle_roots")
        /\ FieldIs(table[4], 4, "outputs")
        /\ FieldIs(table[5], 5, "withdraw_amount")
        /\ FieldIs(table[6], 6, "withdraw_address")
        /\ FieldIs(table[7], 7, "denom")
        /\ FieldIs(table[8], 8, "registration_root")
        /\ FieldIs(table[9], 9, "relayer_fee")
        /\ FieldIs(table[10], 10, "proof")
    BY <1>2, BytesFieldIs, BytesListFieldIs, InnerFieldIs, OutputNoteCodes
  <1>4. Numbered(table, 10)
    <2>1. \A i \in 1..10 : table[i].num = i /\ WellTyped(table[i])
      BY <1>3 DEF FieldIs
    <2>2. \A i, j \in 1..10 : table[i].name = table[j].name => i = j
      BY <1>3 DEF FieldIs
    <2> QED
      BY <1>2, <2>1, <2>2 DEF Numbered
  <1>5. ASSUME NEW m \in Messages(table)
        PROVE  Codes(table, m, MsgTransactEntries(m), MsgTransactSize(m))
    <2>1. PICK puts : puts = AllPuts(table, m)
      OBVIOUS
    <2>2. /\ puts \in Seq(Seq(Seq(Byte))) /\ Len(puts) = 10 /\ Entries(table, m) = FlattenSeq(puts)
          /\ \A i \in 1..10 : /\ puts[i] = Put(table[i], m[table[i].name])
                              /\ m[table[i].name] \in Values(table[i])
      BY <1>4, <2>1, PutsFacts
    <2>3. /\ m.outputs \in Values(table[4])
      BY <1>3, <2>2 DEF FieldIs
    <2>4. /\ puts[1] = PutBytes(1, m.sender)
          /\ puts[2] = PutEach(2, m.nullifiers)
          /\ puts[3] = PutEach(3, m.merkle_roots)
          /\ puts[4] = PutMessages(4, Each(m.outputs, OutputNoteEntries))
          /\ puts[5] = PutBytes(5, m.withdraw_amount)
          /\ puts[6] = PutBytes(6, m.withdraw_address)
          /\ puts[7] = PutBytes(7, m.denom)
          /\ puts[8] = PutBytes(8, m.registration_root)
          /\ puts[9] = PutBytes(9, m.relayer_fee)
          /\ puts[10] = PutBytes(10, m.proof)
      <3>1. puts[1] = PutBytes(1, m.sender)
        BY <1>2, <1>3, <2>2, BytesFieldIs DEF FieldIs
      <3>2. puts[2] = PutEach(2, m.nullifiers)
        BY <1>2, <1>3, <2>2, BytesListFieldIs DEF FieldIs
      <3>3. puts[3] = PutEach(3, m.merkle_roots)
        BY <1>2, <1>3, <2>2, BytesListFieldIs DEF FieldIs
      <3>4. puts[4] = PutMessages(4, Each(m.outputs, OutputNoteEntries))
        BY <1>2, <1>3, <2>2, <2>3, InnerFieldIs, OutputNoteCodes, OutputNoteInside DEF FieldIs
      <3>5. puts[5] = PutBytes(5, m.withdraw_amount)
        BY <1>2, <1>3, <2>2, BytesFieldIs DEF FieldIs
      <3>6. puts[6] = PutBytes(6, m.withdraw_address)
        BY <1>2, <1>3, <2>2, BytesFieldIs DEF FieldIs
      <3>7. puts[7] = PutBytes(7, m.denom)
        BY <1>2, <1>3, <2>2, BytesFieldIs DEF FieldIs
      <3>8. puts[8] = PutBytes(8, m.registration_root)
        BY <1>2, <1>3, <2>2, BytesFieldIs DEF FieldIs
      <3>9. puts[9] = PutBytes(9, m.relayer_fee)
        BY <1>2, <1>3, <2>2, BytesFieldIs DEF FieldIs
      <3>10. puts[10] = PutBytes(10, m.proof)
        BY <1>2, <1>3, <2>2, BytesFieldIs DEF FieldIs
      <3> QED
        BY <3>1, <3>2, <3>3, <3>4, <3>5, <3>6, <3>7, <3>8, <3>9, <3>10
    <2>5. Entries(table, m) = MsgTransactEntries(m)
      <3>1. FlattenSeq(puts) = puts[1] \o puts[2] \o puts[3] \o puts[4] \o puts[5] \o
                              puts[6] \o puts[7] \o puts[8] \o puts[9] \o puts[10]
        BY <2>2, JoinTen
      <3> QED
        BY <2>2, <2>4, <3>1 DEF MsgTransactEntries
    <2>6. ASSUME Fits(FlattenSeq(Entries(table, m)))
          PROVE  MsgTransactSize(m) = Len(FlattenSeq(Entries(table, m)))
      <3>1. PICK sizes : sizes = AllSizes(table, m)
        OBVIOUS
      <3>2. /\ sizes \in Seq(Nat) /\ Len(sizes) = 10
            /\ SumOf(sizes) = Len(FlattenSeq(Entries(table, m)))
            /\ \A i \in 1..10 : /\ sizes[i] = FieldSizeOf(table[i], m[table[i].name])
                               /\ Fits(FlattenSeq(Put(table[i], m[table[i].name])))
        BY <1>4, <2>6, <3>1, SizesFacts
      <3>3. /\ sizes[1] = SizeBytes(m.sender)
            /\ sizes[2] = SizeEach(m.nullifiers)
            /\ sizes[3] = SizeEach(m.merkle_roots)
            /\ sizes[4] = SizeMessages(Each(m.outputs, OutputNoteSize))
            /\ sizes[5] = SizeBytes(m.withdraw_amount)
            /\ sizes[6] = SizeBytes(m.withdraw_address)
            /\ sizes[7] = SizeBytes(m.denom)
            /\ sizes[8] = SizeBytes(m.registration_root)
            /\ sizes[9] = SizeBytes(m.relayer_fee)
            /\ sizes[10] = SizeBytes(m.proof)
        <4>1. sizes[1] = SizeBytes(m.sender)
          BY <1>2, <1>3, <3>2, BytesFieldIs DEF FieldIs
        <4>2. sizes[2] = SizeEach(m.nullifiers)
          BY <1>2, <1>3, <3>2, BytesListFieldIs DEF FieldIs
        <4>3. sizes[3] = SizeEach(m.merkle_roots)
          BY <1>2, <1>3, <3>2, BytesListFieldIs DEF FieldIs
        <4>4. sizes[4] = SizeMessages(Each(m.outputs, OutputNoteSize))
          <5>1. PICK v : v = m.outputs
            OBVIOUS
          <5>2. /\ v \in Seq(PlainMessages(OutputNote)) /\ Put(table[4], v) = InnerPuts(4, OutputNote, v)
                /\ FieldSizeOf(table[4], v) = SizeMessages(InnerSizes(OutputNote, v))
            <6>1. PICK f : f = table[4]
              OBVIOUS
            <6>2. /\ v \in Values(f) /\ f = MessageListField(4, "outputs", OutputNote)
                  /\ Distinct(OutputNote) /\ PlainTable(OutputNote)
              BY <1>2, <2>3, <5>1, <6>1, OutputNoteCodes
            <6> QED
              BY <6>1, <6>2, InnerFieldIs
          <5>3. sizes[4] = FieldSizeOf(table[4], v) /\ Fits(FlattenSeq(Put(table[4], v)))
            <6>1. table[4].name = "outputs" /\ 4 \in 1..10
              BY <1>3 DEF FieldIs
            <6> QED
              BY <3>2, <5>1, <6>1
          <5> QED
            BY <5>1, <5>2, <5>3, OutputNoteInside
        <4>5. sizes[5] = SizeBytes(m.withdraw_amount)
          BY <1>2, <1>3, <3>2, BytesFieldIs DEF FieldIs
        <4>6. sizes[6] = SizeBytes(m.withdraw_address)
          BY <1>2, <1>3, <3>2, BytesFieldIs DEF FieldIs
        <4>7. sizes[7] = SizeBytes(m.denom)
          BY <1>2, <1>3, <3>2, BytesFieldIs DEF FieldIs
        <4>8. sizes[8] = SizeBytes(m.registration_root)
          BY <1>2, <1>3, <3>2, BytesFieldIs DEF FieldIs
        <4>9. sizes[9] = SizeBytes(m.relayer_fee)
          BY <1>2, <1>3, <3>2, BytesFieldIs DEF FieldIs
        <4>10. sizes[10] = SizeBytes(m.proof)
          BY <1>2, <1>3, <3>2, BytesFieldIs DEF FieldIs
        <4> QED
          BY <4>1, <4>2, <4>3, <4>4, <4>5, <4>6, <4>7, <4>8, <4>9, <4>10
      <3>4. SumOf(sizes) = sizes[1] + sizes[2] + sizes[3] + sizes[4] + sizes[5] +
                           sizes[6] + sizes[7] + sizes[8] + sizes[9] + sizes[10]
        BY <3>2, SumTen
      <3> QED
        BY <3>2, <3>3, <3>4 DEF MsgTransactSize
    <2> QED
      BY <2>5, <2>6 DEF Codes
  <1> QED
    BY <1>1, <1>4, <1>5, NumberedIs

LEMMA MsgUpdateParamsCodes ==
    /\ WellFormed(MsgUpdateParams)
    /\ \A m \in Messages(MsgUpdateParams) : Codes(MsgUpdateParams, m, MsgUpdateParamsEntries(m), MsgUpdateParamsSize(m))
  <1>1. PICK table : table = MsgUpdateParams
    OBVIOUS
  <1>2. /\ Len(table) = 2 /\ DOMAIN table = 1..2
        /\ table[1] = BytesField(1, "authority")
        /\ table[2] = PointerField(2, "params", Params)
    BY <1>1 DEF MsgUpdateParams
  <1>3. /\ FieldIs(table[1], 1, "authority")
        /\ FieldIs(table[2], 2, "params")
    BY <1>2, BytesFieldIs, InnerFieldIs, ParamsCodes
  <1>4. Numbered(table, 2)
    <2>1. \A i \in 1..2 : table[i].num = i /\ WellTyped(table[i])
      BY <1>3 DEF FieldIs
    <2>2. \A i, j \in 1..2 : table[i].name = table[j].name => i = j
      BY <1>3 DEF FieldIs
    <2> QED
      BY <1>2, <2>1, <2>2 DEF Numbered
  <1>5. ASSUME NEW m \in Messages(table)
        PROVE  Codes(table, m, MsgUpdateParamsEntries(m), MsgUpdateParamsSize(m))
    <2>1. PICK puts : puts = AllPuts(table, m)
      OBVIOUS
    <2>2. /\ puts \in Seq(Seq(Seq(Byte))) /\ Len(puts) = 2 /\ Entries(table, m) = FlattenSeq(puts)
          /\ \A i \in 1..2 : /\ puts[i] = Put(table[i], m[table[i].name])
                              /\ m[table[i].name] \in Values(table[i])
      BY <1>4, <2>1, PutsFacts
    <2>3. /\ m.params \in Values(table[2])
      BY <1>3, <2>2 DEF FieldIs
    <2>4. /\ puts[1] = PutBytes(1, m.authority)
          /\ puts[2] = PutMessages(2, Each(m.params, ParamsEntries))
      <3>1. puts[1] = PutBytes(1, m.authority)
        BY <1>2, <1>3, <2>2, BytesFieldIs DEF FieldIs
      <3>2. puts[2] = PutMessages(2, Each(m.params, ParamsEntries))
        BY <1>2, <1>3, <2>2, <2>3, InnerFieldIs, ParamsCodes, ParamsInside DEF FieldIs
      <3> QED
        BY <3>1, <3>2
    <2>5. Entries(table, m) = MsgUpdateParamsEntries(m)
      <3>1. FlattenSeq(puts) = puts[1] \o puts[2]
        BY <2>2, JoinTwo
      <3> QED
        BY <2>2, <2>4, <3>1 DEF MsgUpdateParamsEntries
    <2>6. ASSUME Fits(FlattenSeq(Entries(table, m)))
          PROVE  MsgUpdateParamsSize(m) = Len(FlattenSeq(Entries(table, m)))
      <3>1. PICK sizes : sizes = AllSizes(table, m)
        OBVIOUS
      <3>2. /\ sizes \in Seq(Nat) /\ Len(sizes) = 2
            /\ SumOf(sizes) = Len(FlattenSeq(Entries(table, m)))
            /\ \A i \in 1..2 : /\ sizes[i] = FieldSizeOf(table[i], m[table[i].name])
                               /\ Fits(FlattenSeq(Put(table[i], m[table[i].name])))
        BY <1>4, <2>6, <3>1, SizesFacts
      <3>3. /\ sizes[1] = SizeBytes(m.authority)
            /\ sizes[2] = SizeMessages(Each(m.params, ParamsSize))
        <4>1. sizes[1] = SizeBytes(m.authority)
          BY <1>2, <1>3, <3>2, BytesFieldIs DEF FieldIs
        <4>2. sizes[2] = SizeMessages(Each(m.params, ParamsSize))
          <5>1. PICK v : v = m.params
            OBVIOUS
          <5>2. /\ v \in Seq(PlainMessages(Params)) /\ Put(table[2], v) = InnerPuts(2, Params, v)
                /\ FieldSizeOf(table[2], v) = SizeMessages(InnerSizes(Params, v))
            <6>1. PICK f : f = table[2]
              OBVIOUS
            <6>2. /\ v \in Values(f) /\ f = PointerField(2, "params", Params)
                  /\ Distinct(Params) /\ PlainTable(Params)
              BY <1>2, <2>3, <5>1, <6>1, ParamsCodes
            <6> QED
              BY <6>1, <6>2, InnerFieldIs
          <5>3. sizes[2] = FieldSizeOf(table[2], v) /\ Fits(FlattenSeq(Put(table[2], v)))
            <6>1. table[2].name = "params" /\ 2 \in 1..2
              BY <1>3 DEF FieldIs
            <6> QED
              BY <3>2, <5>1, <6>1
          <5> QED
            BY <5>1, <5>2, <5>3, ParamsInside
        <4> QED
          BY <4>1, <4>2
      <3>4. SumOf(sizes) = sizes[1] + sizes[2]
        BY <3>2, SumTwo
      <3> QED
        BY <3>2, <3>3, <3>4 DEF MsgUpdateParamsSize
    <2> QED
      BY <2>5, <2>6 DEF Codes
  <1> QED
    BY <1>1, <1>4, <1>5, NumberedIs

LEMMA QueryParamsResponseCodes ==
    /\ WellFormed(QueryParamsResponse)
    /\ \A m \in Messages(QueryParamsResponse) : Codes(QueryParamsResponse, m, QueryParamsResponseEntries(m), QueryParamsResponseSize(m))
  <1>1. PICK table : table = QueryParamsResponse
    OBVIOUS
  <1>2. /\ Len(table) = 1 /\ DOMAIN table = 1..1
        /\ table[1] = PointerField(1, "params", Params)
    BY <1>1 DEF QueryParamsResponse
  <1>3. /\ FieldIs(table[1], 1, "params")
    BY <1>2, InnerFieldIs, ParamsCodes
  <1>4. Numbered(table, 1)
    BY <1>2, <1>3 DEF Numbered, FieldIs
  <1>5. ASSUME NEW m \in Messages(table)
        PROVE  Codes(table, m, QueryParamsResponseEntries(m), QueryParamsResponseSize(m))
    <2>1. PICK puts : puts = AllPuts(table, m)
      OBVIOUS
    <2>2. /\ puts \in Seq(Seq(Seq(Byte))) /\ Len(puts) = 1 /\ Entries(table, m) = FlattenSeq(puts)
          /\ \A i \in 1..1 : /\ puts[i] = Put(table[i], m[table[i].name])
                              /\ m[table[i].name] \in Values(table[i])
      BY <1>4, <2>1, PutsFacts
    <2>3. /\ m.params \in Values(table[1])
      BY <1>3, <2>2 DEF FieldIs
    <2>4. /\ puts[1] = PutMessages(1, Each(m.params, ParamsEntries))
      <3>1. puts[1] = PutMessages(1, Each(m.params, ParamsEntries))
        BY <1>2, <1>3, <2>2, <2>3, InnerFieldIs, ParamsCodes, ParamsInside DEF FieldIs
      <3> QED
        BY <3>1
    <2>5. Entries(table, m) = QueryParamsResponseEntries(m)
      <3>1. FlattenSeq(puts) = puts[1]
        BY <2>2, JoinOne
      <3> QED
        BY <2>2, <2>4, <3>1 DEF QueryParamsResponseEntries
    <2>6. ASSUME Fits(FlattenSeq(Entries(table, m)))
          PROVE  QueryParamsResponseSize(m) = Len(FlattenSeq(Entries(table, m)))
      <3>1. PICK sizes : sizes = AllSizes(table, m)
        OBVIOUS
      <3>2. /\ sizes \in Seq(Nat) /\ Len(sizes) = 1
            /\ SumOf(sizes) = Len(FlattenSeq(Entries(table, m)))
            /\ \A i \in 1..1 : /\ sizes[i] = FieldSizeOf(table[i], m[table[i].name])
                               /\ Fits(FlattenSeq(Put(table[i], m[table[i].name])))
        BY <1>4, <2>6, <3>1, SizesFacts
      <3>3. /\ sizes[1] = SizeMessages(Each(m.params, ParamsSize))
        <4>1. sizes[1] = SizeMessages(Each(m.params, ParamsSize))
          <5>1. PICK v : v = m.params
            OBVIOUS
          <5>2. /\ v \in Seq(PlainMessages(Params)) /\ Put(table[1], v) = InnerPuts(1, Params, v)
                /\ FieldSizeOf(table[1], v) = SizeMessages(InnerSizes(Params, v))
            <6>1. PICK f : f = table[1]
              OBVIOUS
            <6>2. /\ v \in Values(f) /\ f = PointerField(1, "params", Params)
                  /\ Distinct(Params) /\ PlainTable(Params)
              BY <1>2, <2>3, <5>1, <6>1, ParamsCodes
            <6> QED
              BY <6>1, <6>2, InnerFieldIs
          <5>3. sizes[1] = FieldSizeOf(table[1], v) /\ Fits(FlattenSeq(Put(table[1], v)))
            <6>1. table[1].name = "params" /\ 1 \in 1..1
              BY <1>3 DEF FieldIs
            <6> QED
              BY <3>2, <5>1, <6>1
          <5> QED
            BY <5>1, <5>2, <5>3, ParamsInside
        <4> QED
          BY <4>1
      <3>4. SumOf(sizes) = sizes[1]
        BY <3>2, SumOne
      <3> QED
        BY <3>2, <3>3, <3>4 DEF QueryParamsResponseSize
    <2> QED
      BY <2>5, <2>6 DEF Codes
  <1> QED
    BY <1>1, <1>4, <1>5, NumberedIs

LEMMA GenesisStateCodes ==
    /\ WellFormed(GenesisState)
    /\ \A m \in Messages(GenesisState) : Codes(GenesisState, m, GenesisStateEntries(m), GenesisStateSize(m))
  <1>1. PICK table : table = GenesisState
    OBVIOUS
  <1>2. /\ Len(table) = 12 /\ DOMAIN table = 1..12
        /\ table[1] = PointerField(1, "params", Params)
        /\ table[2] = MessageListField(2, "trees", TreeState)
        /\ table[3] = Uint64Field(3, "active_tree_id")
        /\ table[4] = Uint64Field(4, "tree_count")
        /\ table[5] = BytesListField(5, "reg_commitments")
        /\ table[6] = BytesListField(6, "reg_frontier")
        /\ table[7] = Uint64Field(7, "reg_next_index")
        /\ table[8] = BytesField(8, "reg_merkle_root")
        /\ table[9] = BytesListField(9, "nullifiers")
        /\ table[10] = MessageListField(10, "auditor_data", AuditorDataEntry)
        /\ table[11] = BytesListField(11, "commitments_used")
        /\ table[12] = MessageListField(12, "verification_keys", VerificationKeyEntry)
    BY <1>1 DEF GenesisState
  <1>3. /\ FieldIs(table[1], 1, "params")
        /\ FieldIs(table[2], 2, "trees")
        /\ FieldIs(table[3], 3, "active_tree_id")
        /\ FieldIs(table[4], 4, "tree_count")
        /\ FieldIs(table[5], 5, "reg_commitments")
        /\ FieldIs(table[6], 6, "reg_frontier")
        /\ FieldIs(table[7], 7, "reg_next_index")
        /\ FieldIs(table[8], 8, "reg_merkle_root")
        /\ FieldIs(table[9], 9, "nullifiers")
        /\ FieldIs(table[10], 10, "auditor_data")
        /\ FieldIs(table[11], 11, "commitments_used")
        /\ FieldIs(table[12], 12, "verification_keys")
    BY <1>2, BytesFieldIs, BytesListFieldIs, Uint64FieldIs, InnerFieldIs, AuditorDataEntryCodes, ParamsCodes, TreeStateCodes, VerificationKeyEntryCodes
  <1>4. Numbered(table, 12)
    <2>1. \A i \in 1..12 : table[i].num = i /\ WellTyped(table[i])
      BY <1>3 DEF FieldIs
    <2>2. \A i, j \in 1..12 : table[i].name = table[j].name => i = j
      BY <1>3 DEF FieldIs
    <2> QED
      BY <1>2, <2>1, <2>2 DEF Numbered
  <1>5. ASSUME NEW m \in Messages(table)
        PROVE  Codes(table, m, GenesisStateEntries(m), GenesisStateSize(m))
    <2>1. PICK puts : puts = AllPuts(table, m)
      OBVIOUS
    <2>2. /\ puts \in Seq(Seq(Seq(Byte))) /\ Len(puts) = 12 /\ Entries(table, m) = FlattenSeq(puts)
          /\ \A i \in 1..12 : /\ puts[i] = Put(table[i], m[table[i].name])
                              /\ m[table[i].name] \in Values(table[i])
      BY <1>4, <2>1, PutsFacts
    <2>3. /\ m.params \in Values(table[1])
          /\ m.trees \in Values(table[2])
          /\ m.auditor_data \in Values(table[10])
          /\ m.verification_keys \in Values(table[12])
      BY <1>3, <2>2 DEF FieldIs
    <2>4. /\ puts[1] = PutMessages(1, Each(m.params, ParamsEntries))
          /\ puts[2] = PutMessages(2, Each(m.trees, TreeStateEntries))
          /\ puts[3] = PutUint(3, m.active_tree_id)
          /\ puts[4] = PutUint(4, m.tree_count)
          /\ puts[5] = PutEach(5, m.reg_commitments)
          /\ puts[6] = PutEach(6, m.reg_frontier)
          /\ puts[7] = PutUint(7, m.reg_next_index)
          /\ puts[8] = PutBytes(8, m.reg_merkle_root)
          /\ puts[9] = PutEach(9, m.nullifiers)
          /\ puts[10] = PutMessages(10, Each(m.auditor_data, AuditorDataEntryEntries))
          /\ puts[11] = PutEach(11, m.commitments_used)
          /\ puts[12] = PutMessages(12, Each(m.verification_keys, VerificationKeyEntryEntries))
      <3>1. puts[1] = PutMessages(1, Each(m.params, ParamsEntries))
        BY <1>2, <1>3, <2>2, <2>3, InnerFieldIs, ParamsCodes, ParamsInside DEF FieldIs
      <3>2. puts[2] = PutMessages(2, Each(m.trees, TreeStateEntries))
        BY <1>2, <1>3, <2>2, <2>3, InnerFieldIs, TreeStateCodes, TreeStateInside DEF FieldIs
      <3>3. puts[3] = PutUint(3, m.active_tree_id)
        BY <1>2, <1>3, <2>2, Uint64FieldIs DEF FieldIs
      <3>4. puts[4] = PutUint(4, m.tree_count)
        BY <1>2, <1>3, <2>2, Uint64FieldIs DEF FieldIs
      <3>5. puts[5] = PutEach(5, m.reg_commitments)
        BY <1>2, <1>3, <2>2, BytesListFieldIs DEF FieldIs
      <3>6. puts[6] = PutEach(6, m.reg_frontier)
        BY <1>2, <1>3, <2>2, BytesListFieldIs DEF FieldIs
      <3>7. puts[7] = PutUint(7, m.reg_next_index)
        BY <1>2, <1>3, <2>2, Uint64FieldIs DEF FieldIs
      <3>8. puts[8] = PutBytes(8, m.reg_merkle_root)
        BY <1>2, <1>3, <2>2, BytesFieldIs DEF FieldIs
      <3>9. puts[9] = PutEach(9, m.nullifiers)
        BY <1>2, <1>3, <2>2, BytesListFieldIs DEF FieldIs
      <3>10. puts[10] = PutMessages(10, Each(m.auditor_data, AuditorDataEntryEntries))
        BY <1>2, <1>3, <2>2, <2>3, InnerFieldIs, AuditorDataEntryCodes, AuditorDataEntryInside DEF FieldIs
      <3>11. puts[11] = PutEach(11, m.commitments_used)
        BY <1>2, <1>3, <2>2, BytesListFieldIs DEF FieldIs
      <3>12. puts[12] = PutMessages(12, Each(m.verification_keys, VerificationKeyEntryEntries))
        BY <1>2, <1>3, <2>2, <2>3, InnerFieldIs, VerificationKeyEntryCodes, VerificationKeyEntryInside DEF FieldIs
      <3> QED
        BY <3>1, <3>2, <3>3, <3>4, <3>5, <3>6, <3>7, <3>8, <3>9, <3>10, <3>11, <3>12
    <2>5. Entries(table, m) = GenesisStateEntries(m)
      <3>1. FlattenSeq(puts) = puts[1] \o puts[2] \o puts[3] \o puts[4] \o puts[5] \o
                              puts[6] \o puts[7] \o puts[8] \o puts[9] \o puts[10] \o
                              puts[11] \o puts[12]
        BY <2>2, JoinTwelve
      <3> QED
        BY <2>2, <2>4, <3>1 DEF GenesisStateEntries
    <2>6. ASSUME Fits(FlattenSeq(Entries(table, m)))
          PROVE  GenesisStateSize(m) = Len(FlattenSeq(Entries(table, m)))
      <3>1. PICK sizes : sizes = AllSizes(table, m)
        OBVIOUS
      <3>2. /\ sizes \in Seq(Nat) /\ Len(sizes) = 12
            /\ SumOf(sizes) = Len(FlattenSeq(Entries(table, m)))
            /\ \A i \in 1..12 : /\ sizes[i] = FieldSizeOf(table[i], m[table[i].name])
                               /\ Fits(FlattenSeq(Put(table[i], m[table[i].name])))
        BY <1>4, <2>6, <3>1, SizesFacts
      <3>3. /\ sizes[1] = SizeMessages(Each(m.params, ParamsSize))
            /\ sizes[2] = SizeMessages(Each(m.trees, TreeStateSize))
            /\ sizes[3] = SizeUint(m.active_tree_id)
            /\ sizes[4] = SizeUint(m.tree_count)
            /\ sizes[5] = SizeEach(m.reg_commitments)
            /\ sizes[6] = SizeEach(m.reg_frontier)
            /\ sizes[7] = SizeUint(m.reg_next_index)
            /\ sizes[8] = SizeBytes(m.reg_merkle_root)
            /\ sizes[9] = SizeEach(m.nullifiers)
            /\ sizes[10] = SizeMessages(Each(m.auditor_data, AuditorDataEntrySize))
            /\ sizes[11] = SizeEach(m.commitments_used)
            /\ sizes[12] = SizeMessages(Each(m.verification_keys, VerificationKeyEntrySize))
        <4>1. sizes[1] = SizeMessages(Each(m.params, ParamsSize))
          <5>1. PICK v : v = m.params
            OBVIOUS
          <5>2. /\ v \in Seq(PlainMessages(Params)) /\ Put(table[1], v) = InnerPuts(1, Params, v)
                /\ FieldSizeOf(table[1], v) = SizeMessages(InnerSizes(Params, v))
            <6>1. PICK f : f = table[1]
              OBVIOUS
            <6>2. /\ v \in Values(f) /\ f = PointerField(1, "params", Params)
                  /\ Distinct(Params) /\ PlainTable(Params)
              BY <1>2, <2>3, <5>1, <6>1, ParamsCodes
            <6> QED
              BY <6>1, <6>2, InnerFieldIs
          <5>3. sizes[1] = FieldSizeOf(table[1], v) /\ Fits(FlattenSeq(Put(table[1], v)))
            <6>1. table[1].name = "params" /\ 1 \in 1..12
              BY <1>3 DEF FieldIs
            <6> QED
              BY <3>2, <5>1, <6>1
          <5> QED
            BY <5>1, <5>2, <5>3, ParamsInside
        <4>2. sizes[2] = SizeMessages(Each(m.trees, TreeStateSize))
          <5>1. PICK v : v = m.trees
            OBVIOUS
          <5>2. /\ v \in Seq(PlainMessages(TreeState)) /\ Put(table[2], v) = InnerPuts(2, TreeState, v)
                /\ FieldSizeOf(table[2], v) = SizeMessages(InnerSizes(TreeState, v))
            <6>1. PICK f : f = table[2]
              OBVIOUS
            <6>2. /\ v \in Values(f) /\ f = MessageListField(2, "trees", TreeState)
                  /\ Distinct(TreeState) /\ PlainTable(TreeState)
              BY <1>2, <2>3, <5>1, <6>1, TreeStateCodes
            <6> QED
              BY <6>1, <6>2, InnerFieldIs
          <5>3. sizes[2] = FieldSizeOf(table[2], v) /\ Fits(FlattenSeq(Put(table[2], v)))
            <6>1. table[2].name = "trees" /\ 2 \in 1..12
              BY <1>3 DEF FieldIs
            <6> QED
              BY <3>2, <5>1, <6>1
          <5> QED
            BY <5>1, <5>2, <5>3, TreeStateInside
        <4>3. sizes[3] = SizeUint(m.active_tree_id)
          BY <1>2, <1>3, <3>2, Uint64FieldIs DEF FieldIs
        <4>4. sizes[4] = SizeUint(m.tree_count)
          BY <1>2, <1>3, <3>2, Uint64FieldIs DEF FieldIs
        <4>5. sizes[5] = SizeEach(m.reg_commitments)
          BY <1>2, <1>3, <3>2, BytesListFieldIs DEF FieldIs
        <4>6. sizes[6] = SizeEach(m.reg_frontier)
          BY <1>2, <1>3, <3>2, BytesListFieldIs DEF FieldIs
        <4>7. sizes[7] = SizeUint(m.reg_next_index)
          BY <1>2, <1>3, <3>2, Uint64FieldIs DEF FieldIs
        <4>8. sizes[8] = SizeBytes(m.reg_merkle_root)
          BY <1>2, <1>3, <3>2, BytesFieldIs DEF FieldIs
        <4>9. sizes[9] = SizeEach(m.nullifiers)
          BY <1>2, <1>3, <3>2, BytesListFieldIs DEF FieldIs
        <4>10. sizes[10] = SizeMessages(Each(m.auditor_data, AuditorDataEntrySize))
          <5>1. PICK v : v = m.auditor_data
            OBVIOUS
          <5>2. /\ v \in Seq(PlainMessages(AuditorDataEntry)) /\ Put(table[10], v) = InnerPuts(10, AuditorDataEntry, v)
                /\ FieldSizeOf(table[10], v) = SizeMessages(InnerSizes(AuditorDataEntry, v))
            <6>1. PICK f : f = table[10]
              OBVIOUS
            <6>2. /\ v \in Values(f) /\ f = MessageListField(10, "auditor_data", AuditorDataEntry)
                  /\ Distinct(AuditorDataEntry) /\ PlainTable(AuditorDataEntry)
              BY <1>2, <2>3, <5>1, <6>1, AuditorDataEntryCodes
            <6> QED
              BY <6>1, <6>2, InnerFieldIs
          <5>3. sizes[10] = FieldSizeOf(table[10], v) /\ Fits(FlattenSeq(Put(table[10], v)))
            <6>1. table[10].name = "auditor_data" /\ 10 \in 1..12
              BY <1>3 DEF FieldIs
            <6> QED
              BY <3>2, <5>1, <6>1
          <5> QED
            BY <5>1, <5>2, <5>3, AuditorDataEntryInside
        <4>11. sizes[11] = SizeEach(m.commitments_used)
          BY <1>2, <1>3, <3>2, BytesListFieldIs DEF FieldIs
        <4>12. sizes[12] = SizeMessages(Each(m.verification_keys, VerificationKeyEntrySize))
          <5>1. PICK v : v = m.verification_keys
            OBVIOUS
          <5>2. /\ v \in Seq(PlainMessages(VerificationKeyEntry)) /\ Put(table[12], v) = InnerPuts(12, VerificationKeyEntry, v)
                /\ FieldSizeOf(table[12], v) = SizeMessages(InnerSizes(VerificationKeyEntry, v))
            <6>1. PICK f : f = table[12]
              OBVIOUS
            <6>2. /\ v \in Values(f) /\ f = MessageListField(12, "verification_keys", VerificationKeyEntry)
                  /\ Distinct(VerificationKeyEntry) /\ PlainTable(VerificationKeyEntry)
              BY <1>2, <2>3, <5>1, <6>1, VerificationKeyEntryCodes
            <6> QED
              BY <6>1, <6>2, InnerFieldIs
          <5>3. sizes[12] = FieldSizeOf(table[12], v) /\ Fits(FlattenSeq(Put(table[12], v)))
            <6>1. table[12].name = "verification_keys" /\ 12 \in 1..12
              BY <1>3 DEF FieldIs
            <6> QED
              BY <3>2, <5>1, <6>1
          <5> QED
            BY <5>1, <5>2, <5>3, VerificationKeyEntryInside
        <4> QED
          BY <4>1, <4>2, <4>3, <4>4, <4>5, <4>6, <4>7, <4>8, <4>9, <4>10, <4>11, <4>12
      <3>4. SumOf(sizes) = sizes[1] + sizes[2] + sizes[3] + sizes[4] + sizes[5] +
                           sizes[6] + sizes[7] + sizes[8] + sizes[9] + sizes[10] +
                           sizes[11] + sizes[12]
        BY <3>2, SumTwelve
      <3> QED
        BY <3>2, <3>3, <3>4 DEF GenesisStateSize
    <2> QED
      BY <2>5, <2>6 DEF Codes
  <1> QED
    BY <1>1, <1>4, <1>5, NumberedIs

(* The other types that have fields. *)
LEMMA MsgRegisterCodes ==
    /\ WellFormed(MsgRegister) /\ Distinct(MsgRegister) /\ PlainTable(MsgRegister)
    /\ \A m \in Messages(MsgRegister) : Codes(MsgRegister, m, MsgRegisterEntries(m), MsgRegisterSize(m))
  <1>1. PICK table : table = MsgRegister
    OBVIOUS
  <1>2. /\ Len(table) = 5 /\ DOMAIN table = 1..5
        /\ table[1] = BytesField(1, "sender")
        /\ table[2] = BytesField(2, "identity_commitment")
        /\ table[3] = BytesField(3, "proof")
        /\ table[4] = BytesField(4, "public_inputs")
        /\ table[5] = BytesField(5, "auditor_encrypted_data")
    BY <1>1 DEF MsgRegister
  <1>3. /\ FieldIs(table[1], 1, "sender") /\ table[1].type \in PlainTypes
        /\ FieldIs(table[2], 2, "identity_commitment") /\ table[2].type \in PlainTypes
        /\ FieldIs(table[3], 3, "proof") /\ table[3].type \in PlainTypes
        /\ FieldIs(table[4], 4, "public_inputs") /\ table[4].type \in PlainTypes
        /\ FieldIs(table[5], 5, "auditor_encrypted_data") /\ table[5].type \in PlainTypes
    BY <1>2, BytesFieldIs
  <1>4. Numbered(table, 5) /\ PlainTable(table)
    <2>1. \A i \in 1..5 : table[i].num = i /\ WellTyped(table[i])  /\ table[i].type \in PlainTypes
      BY <1>3 DEF FieldIs
    <2>2. \A i, j \in 1..5 : table[i].name = table[j].name => i = j
      BY <1>3 DEF FieldIs
    <2> QED
      BY <1>2, <2>1, <2>2 DEF Numbered, PlainTable
  <1>5. ASSUME NEW m \in Messages(table)
        PROVE  Codes(table, m, MsgRegisterEntries(m), MsgRegisterSize(m))
    <2>1. PICK puts : puts = AllPuts(table, m)
      OBVIOUS
    <2>2. /\ puts \in Seq(Seq(Seq(Byte))) /\ Len(puts) = 5 /\ Entries(table, m) = FlattenSeq(puts)
          /\ \A i \in 1..5 : /\ puts[i] = Put(table[i], m[table[i].name])
                              /\ m[table[i].name] \in Values(table[i])
      BY <1>4, <2>1, PutsFacts
    <2>4. /\ puts[1] = PutBytes(1, m.sender)
          /\ puts[2] = PutBytes(2, m.identity_commitment)
          /\ puts[3] = PutBytes(3, m.proof)
          /\ puts[4] = PutBytes(4, m.public_inputs)
          /\ puts[5] = PutBytes(5, m.auditor_encrypted_data)
      BY <1>2, <1>3, <2>2, BytesFieldIs DEF FieldIs
    <2>5. Entries(table, m) = MsgRegisterEntries(m)
      <3>1. FlattenSeq(puts) = puts[1] \o puts[2] \o puts[3] \o puts[4] \o puts[5]
        BY <2>2, JoinFive
      <3> QED
        BY <2>2, <2>4, <3>1 DEF MsgRegisterEntries
    <2>6. ASSUME Fits(FlattenSeq(Entries(table, m)))
          PROVE  MsgRegisterSize(m) = Len(FlattenSeq(Entries(table, m)))
      <3>1. PICK sizes : sizes = AllSizes(table, m)
        OBVIOUS
      <3>2. /\ sizes \in Seq(Nat) /\ Len(sizes) = 5
            /\ SumOf(sizes) = Len(FlattenSeq(Entries(table, m)))
            /\ \A i \in 1..5 : /\ sizes[i] = FieldSizeOf(table[i], m[table[i].name])
                               /\ Fits(FlattenSeq(Put(table[i], m[table[i].name])))
        BY <1>4, <2>6, <3>1, SizesFacts
      <3>3. /\ sizes[1] = SizeBytes(m.sender)
            /\ sizes[2] = SizeBytes(m.identity_commitment)
            /\ sizes[3] = SizeBytes(m.proof)
            /\ sizes[4] = SizeBytes(m.public_inputs)
            /\ sizes[5] = SizeBytes(m.auditor_encrypted_data)
        BY <1>2, <1>3, <3>2, BytesFieldIs DEF FieldIs
      <3>4. SumOf(sizes) = sizes[1] + sizes[2] + sizes[3] + sizes[4] + sizes[5]
        BY <3>2, SumFive
      <3> QED
        BY <3>2, <3>3, <3>4 DEF MsgRegisterSize
    <2> QED
      BY <2>5, <2>6 DEF Codes
  <1> QED
    BY <1>1, <1>4, <1>5, NumberedIs

LEMMA MsgRegisterResponseCodes ==
    /\ WellFormed(MsgRegisterResponse) /\ Distinct(MsgRegisterResponse) /\ PlainTable(MsgRegisterResponse)
    /\ \A m \in Messages(MsgRegisterResponse) : Codes(MsgRegisterResponse, m, MsgRegisterResponseEntries(m), MsgRegisterResponseSize(m))
  <1>1. PICK table : table = MsgRegisterResponse
    OBVIOUS
  <1>2. /\ Len(table) = 2 /\ DOMAIN table = 1..2
        /\ table[1] = Uint64Field(1, "leaf_index")
        /\ table[2] = BytesField(2, "merkle_root")
    BY <1>1 DEF MsgRegisterResponse
  <1>3. /\ FieldIs(table[1], 1, "leaf_index") /\ table[1].type \in PlainTypes
        /\ FieldIs(table[2], 2, "merkle_root") /\ table[2].type \in PlainTypes
    BY <1>2, BytesFieldIs, Uint64FieldIs
  <1>4. Numbered(table, 2) /\ PlainTable(table)
    <2>1. \A i \in 1..2 : table[i].num = i /\ WellTyped(table[i])  /\ table[i].type \in PlainTypes
      BY <1>3 DEF FieldIs
    <2>2. \A i, j \in 1..2 : table[i].name = table[j].name => i = j
      BY <1>3 DEF FieldIs
    <2> QED
      BY <1>2, <2>1, <2>2 DEF Numbered, PlainTable
  <1>5. ASSUME NEW m \in Messages(table)
        PROVE  Codes(table, m, MsgRegisterResponseEntries(m), MsgRegisterResponseSize(m))
    <2>1. PICK puts : puts = AllPuts(table, m)
      OBVIOUS
    <2>2. /\ puts \in Seq(Seq(Seq(Byte))) /\ Len(puts) = 2 /\ Entries(table, m) = FlattenSeq(puts)
          /\ \A i \in 1..2 : /\ puts[i] = Put(table[i], m[table[i].name])
                              /\ m[table[i].name] \in Values(table[i])
      BY <1>4, <2>1, PutsFacts
    <2>4. /\ puts[1] = PutUint(1, m.leaf_index)
          /\ puts[2] = PutBytes(2, m.merkle_root)
      BY <1>2, <1>3, <2>2, BytesFieldIs, Uint64FieldIs DEF FieldIs
    <2>5. Entries(table, m) = MsgRegisterResponseEntries(m)
      <3>1. FlattenSeq(puts) = puts[1] \o puts[2]
        BY <2>2, JoinTwo
      <3> QED
        BY <2>2, <2>4, <3>1 DEF MsgRegisterResponseEntries
    <2>6. ASSUME Fits(FlattenSeq(Entries(table, m)))
          PROVE  MsgRegisterResponseSize(m) = Len(FlattenSeq(Entries(table, m)))
      <3>1. PICK sizes : sizes = AllSizes(table, m)
        OBVIOUS
      <3>2. /\ sizes \in Seq(Nat) /\ Len(sizes) = 2
            /\ SumOf(sizes) = Len(FlattenSeq(Entries(table, m)))
            /\ \A i \in 1..2 : /\ sizes[i] = FieldSizeOf(table[i], m[table[i].name])
                               /\ Fits(FlattenSeq(Put(table[i], m[table[i].name])))
        BY <1>4, <2>6, <3>1, SizesFacts
      <3>3. /\ sizes[1] = SizeUint(m.leaf_index)
            /\ sizes[2] = SizeBytes(m.merkle_root)
        BY <1>2, <1>3, <3>2, BytesFieldIs, Uint64FieldIs DEF FieldIs
      <3>4. SumOf(sizes) = sizes[1] + sizes[2]
        BY <3>2, SumTwo
      <3> QED
        BY <3>2, <3>3, <3>4 DEF MsgRegisterResponseSize
    <2> QED
      BY <2>5, <2>6 DEF Codes
  <1> QED
    BY <1>1, <1>4, <1>5, NumberedIs

LEMMA MsgDepositCodes ==
    /\ WellFormed(MsgDeposit) /\ Distinct(MsgDeposit) /\ PlainTable(MsgDeposit)
    /\ \A m \in Messages(MsgDeposit) : Codes(MsgDeposit, m, MsgDepositEntries(m), MsgDepositSize(m))
  <1>1. PICK table : table = MsgDeposit
    OBVIOUS
  <1>2. /\ Len(table) = 7 /\ DOMAIN table = 1..7
        /\ table[1] = BytesField(1, "sender")
        /\ table[2] = BytesField(2, "denom")
        /\ table[3] = BytesField(3, "amount")
        /\ table[4] = BytesField(4, "note_commitment")
        /\ table[5] = BytesField(5, "proof")
        /\ table[6] = BytesField(6, "public_inputs")
        /\ table[7] = BytesField(7, "auditor_encrypted_data")
    BY <1>1 DEF MsgDeposit
  <1>3. /\ FieldIs(table[1], 1, "sender") /\ table[1].type \in PlainTypes
        /\ FieldIs(table[2], 2, "denom") /\ table[2].type \in PlainTypes
        /\ FieldIs(table[3], 3, "amount") /\ table[3].type \in PlainTypes
        /\ FieldIs(table[4], 4, "note_commitment") /\ table[4].type \in PlainTypes
        /\ FieldIs(table[5], 5, "proof") /\ table[5].type \in PlainTypes
        /\ FieldIs(table[6], 6, "public_inputs") /\ table[6].type \in PlainTypes
        /\ FieldIs(table[7], 7, "auditor_encrypted_data") /\ table[7].type \in PlainTypes
    BY <1>2, BytesFieldIs
  <1>4. Numbered(table, 7) /\ PlainTable(table)
    <2>1. \A i \in 1..7 : table[i].num = i /\ WellTyped(table[i])  /\ table[i].type \in PlainTypes
      BY <1>3 DEF FieldIs
    <2>2. \A i, j \in 1..7 : table[i].name = table[j].name => i = j
      BY <1>3 DEF FieldIs
    <2> QED
      BY <1>2, <2>1, <2>2 DEF Numbered, PlainTable
  <1>5. ASSUME NEW m \in Messages(table)
        PROVE  Codes(table, m, MsgDepositEntries(m), MsgDepositSize(m))
    <2>1. PICK puts : puts = AllPuts(table, m)
      OBVIOUS
    <2>2. /\ puts \in Seq(Seq(Seq(Byte))) /\ Len(puts) = 7 /\ Entries(table, m) = FlattenSeq(puts)
          /\ \A i \in 1..7 : /\ puts[i] = Put(table[i], m[table[i].name])
                              /\ m[table[i].name] \in Values(table[i])
      BY <1>4, <2>1, PutsFacts
    <2>4. /\ puts[1] = PutBytes(1, m.sender)
          /\ puts[2] = PutBytes(2, m.denom)
          /\ puts[3] = PutBytes(3, m.amount)
          /\ puts[4] = PutBytes(4, m.note_commitment)
          /\ puts[5] = PutBytes(5, m.proof)
          /\ puts[6] = PutBytes(6, m.public_inputs)
          /\ puts[7] = PutBytes(7, m.auditor_encrypted_data)
      BY <1>2, <1>3, <2>2, BytesFieldIs DEF FieldIs
    <2>5. Entries(table, m) = MsgDepositEntries(m)
      <3>1. FlattenSeq(puts) = puts[1] \o puts[2] \o puts[3] \o puts[4] \o puts[5] \o
                              puts[6] \o puts[7]
        BY <2>2, JoinSeven
      <3> QED
        BY <2>2, <2>4, <3>1 DEF MsgDepositEntries
    <2>6. ASSUME Fits(FlattenSeq(Entries(table, m)))
          PROVE  MsgDepositSize(m) = Len(FlattenSeq(Entries(table, m)))
      <3>1. PICK sizes : sizes = AllSizes(table, m)
        OBVIOUS
      <3>2. /\ sizes \in Seq(Nat) /\ Len(sizes) = 7
            /\ SumOf(sizes) = Len(FlattenSeq(Entries(table, m)))
            /\ \A i \in 1..7 : /\ sizes[i] = FieldSizeOf(table[i], m[table[i].name])
                               /\ Fits(FlattenSeq(Put(table[i], m[table[i].name])))
        BY <1>4, <2>6, <3>1, SizesFacts
      <3>3. /\ sizes[1] = SizeBytes(m.sender)
            /\ sizes[2] = SizeBytes(m.denom)
            /\ sizes[3] = SizeBytes(m.amount)
            /\ sizes[4] = SizeBytes(m.note_commitment)
            /\ sizes[5] = SizeBytes(m.proof)
            /\ sizes[6] = SizeBytes(m.public_inputs)
            /\ sizes[7] = SizeBytes(m.auditor_encrypted_data)
        BY <1>2, <1>3, <3>2, BytesFieldIs DEF FieldIs
      <3>4. SumOf(sizes) = sizes[1] + sizes[2] + sizes[3] + sizes[4] + sizes[5] +
                           sizes[6] + sizes[7]
        BY <3>2, SumSeven
      <3> QED
        BY <3>2, <3>3, <3>4 DEF MsgDepositSize
    <2> QED
      BY <2>5, <2>6 DEF Codes
  <1> QED
    BY <1>1, <1>4, <1>5, NumberedIs

LEMMA MsgDepositResponseCodes ==
    /\ WellFormed(MsgDepositResponse) /\ Distinct(MsgDepositResponse) /\ PlainTable(MsgDepositResponse)
    /\ \A m \in Messages(MsgDepositResponse) : Codes(MsgDepositResponse, m, MsgDepositResponseEntries(m), MsgDepositResponseSize(m))
  <1>1. PICK table : table = MsgDepositResponse
    OBVIOUS
  <1>2. /\ Len(table) = 2 /\ DOMAIN table = 1..2
        /\ table[1] = Uint64Field(1, "leaf_index")
        /\ table[2] = BytesField(2, "merkle_root")
    BY <1>1 DEF MsgDepositResponse
  <1>3. /\ FieldIs(table[1], 1, "leaf_index") /\ table[1].type \in PlainTypes
        /\ FieldIs(table[2], 2, "merkle_root") /\ table[2].type \in PlainTypes
    BY <1>2, BytesFieldIs, Uint64FieldIs
  <1>4. Numbered(table, 2) /\ PlainTable(table)
    <2>1. \A i \in 1..2 : table[i].num = i /\ WellTyped(table[i])  /\ table[i].type \in PlainTypes
      BY <1>3 DEF FieldIs
    <2>2. \A i, j \in 1..2 : table[i].name = table[j].name => i = j
      BY <1>3 DEF FieldIs
    <2> QED
      BY <1>2, <2>1, <2>2 DEF Numbered, PlainTable
  <1>5. ASSUME NEW m \in Messages(table)
        PROVE  Codes(table, m, MsgDepositResponseEntries(m), MsgDepositResponseSize(m))
    <2>1. PICK puts : puts = AllPuts(table, m)
      OBVIOUS
    <2>2. /\ puts \in Seq(Seq(Seq(Byte))) /\ Len(puts) = 2 /\ Entries(table, m) = FlattenSeq(puts)
          /\ \A i \in 1..2 : /\ puts[i] = Put(table[i], m[table[i].name])
                              /\ m[table[i].name] \in Values(table[i])
      BY <1>4, <2>1, PutsFacts
    <2>4. /\ puts[1] = PutUint(1, m.leaf_index)
          /\ puts[2] = PutBytes(2, m.merkle_root)
      BY <1>2, <1>3, <2>2, BytesFieldIs, Uint64FieldIs DEF FieldIs
    <2>5. Entries(table, m) = MsgDepositResponseEntries(m)
      <3>1. FlattenSeq(puts) = puts[1] \o puts[2]
        BY <2>2, JoinTwo
      <3> QED
        BY <2>2, <2>4, <3>1 DEF MsgDepositResponseEntries
    <2>6. ASSUME Fits(FlattenSeq(Entries(table, m)))
          PROVE  MsgDepositResponseSize(m) = Len(FlattenSeq(Entries(table, m)))
      <3>1. PICK sizes : sizes = AllSizes(table, m)
        OBVIOUS
      <3>2. /\ sizes \in Seq(Nat) /\ Len(sizes) = 2
            /\ SumOf(sizes) = Len(FlattenSeq(Entries(table, m)))
            /\ \A i \in 1..2 : /\ sizes[i] = FieldSizeOf(table[i], m[table[i].name])
                               /\ Fits(FlattenSeq(Put(table[i], m[table[i].name])))
        BY <1>4, <2>6, <3>1, SizesFacts
      <3>3. /\ sizes[1] = SizeUint(m.leaf_index)
            /\ sizes[2] = SizeBytes(m.merkle_root)
        BY <1>2, <1>3, <3>2, BytesFieldIs, Uint64FieldIs DEF FieldIs
      <3>4. SumOf(sizes) = sizes[1] + sizes[2]
        BY <3>2, SumTwo
      <3> QED
        BY <3>2, <3>3, <3>4 DEF MsgDepositResponseSize
    <2> QED
      BY <2>5, <2>6 DEF Codes
  <1> QED
    BY <1>1, <1>4, <1>5, NumberedIs

LEMMA MsgTransactResponseCodes ==
    /\ WellFormed(MsgTransactResponse) /\ Distinct(MsgTransactResponse) /\ PlainTable(MsgTransactResponse)
    /\ \A m \in Messages(MsgTransactResponse) : Codes(MsgTransactResponse, m, MsgTransactResponseEntries(m), MsgTransactResponseSize(m))
  <1>1. PICK table : table = MsgTransactResponse
    OBVIOUS
  <1>2. /\ Len(table) = 2 /\ DOMAIN table = 1..2
        /\ table[1] = PackedField(1, "leaf_indices")
        /\ table[2] = BytesField(2, "merkle_root")
    BY <1>1 DEF MsgTransactResponse
  <1>3. /\ FieldIs(table[1], 1, "leaf_indices") /\ table[1].type \in PlainTypes
        /\ FieldIs(table[2], 2, "merkle_root") /\ table[2].type \in PlainTypes
    BY <1>2, BytesFieldIs, PackedFieldIs
  <1>4. Numbered(table, 2) /\ PlainTable(table)
    <2>1. \A i \in 1..2 : table[i].num = i /\ WellTyped(table[i])  /\ table[i].type \in PlainTypes
      BY <1>3 DEF FieldIs
    <2>2. \A i, j \in 1..2 : table[i].name = table[j].name => i = j
      BY <1>3 DEF FieldIs
    <2> QED
      BY <1>2, <2>1, <2>2 DEF Numbered, PlainTable
  <1>5. ASSUME NEW m \in Messages(table)
        PROVE  Codes(table, m, MsgTransactResponseEntries(m), MsgTransactResponseSize(m))
    <2>1. PICK puts : puts = AllPuts(table, m)
      OBVIOUS
    <2>2. /\ puts \in Seq(Seq(Seq(Byte))) /\ Len(puts) = 2 /\ Entries(table, m) = FlattenSeq(puts)
          /\ \A i \in 1..2 : /\ puts[i] = Put(table[i], m[table[i].name])
                              /\ m[table[i].name] \in Values(table[i])
      BY <1>4, <2>1, PutsFacts
    <2>4. /\ puts[1] = PutPacked(1, m.leaf_indices)
          /\ puts[2] = PutBytes(2, m.merkle_root)
      BY <1>2, <1>3, <2>2, BytesFieldIs, PackedFieldIs DEF FieldIs
    <2>5. Entries(table, m) = MsgTransactResponseEntries(m)
      <3>1. FlattenSeq(puts) = puts[1] \o puts[2]
        BY <2>2, JoinTwo
      <3> QED
        BY <2>2, <2>4, <3>1 DEF MsgTransactResponseEntries
    <2>6. ASSUME Fits(FlattenSeq(Entries(table, m)))
          PROVE  MsgTransactResponseSize(m) = Len(FlattenSeq(Entries(table, m)))
      <3>1. PICK sizes : sizes = AllSizes(table, m)
        OBVIOUS
      <3>2. /\ sizes \in Seq(Nat) /\ Len(sizes) = 2
            /\ SumOf(sizes) = Len(FlattenSeq(Entries(table, m)))
            /\ \A i \in 1..2 : /\ sizes[i] = FieldSizeOf(table[i], m[table[i].name])
                               /\ Fits(FlattenSeq(Put(table[i], m[table[i].name])))
        BY <1>4, <2>6, <3>1, SizesFacts
      <3>3. /\ sizes[1] = SizePacked(m.leaf_indices)
            /\ sizes[2] = SizeBytes(m.merkle_root)
        BY <1>2, <1>3, <3>2, BytesFieldIs, PackedFieldIs DEF FieldIs
      <3>4. SumOf(sizes) = sizes[1] + sizes[2]
        BY <3>2, SumTwo
      <3> QED
        BY <3>2, <3>3, <3>4 DEF MsgTransactResponseSize
    <2> QED
      BY <2>5, <2>6 DEF Codes
  <1> QED
    BY <1>1, <1>4, <1>5, NumberedIs

LEMMA MsgSetVerificationKeyCodes ==
    /\ WellFormed(MsgSetVerificationKey) /\ Distinct(MsgSetVerificationKey) /\ PlainTable(MsgSetVerificationKey)
    /\ \A m \in Messages(MsgSetVerificationKey) : Codes(MsgSetVerificationKey, m, MsgSetVerificationKeyEntries(m), MsgSetVerificationKeySize(m))
  <1>1. PICK table : table = MsgSetVerificationKey
    OBVIOUS
  <1>2. /\ Len(table) = 3 /\ DOMAIN table = 1..3
        /\ table[1] = BytesField(1, "authority")
        /\ table[2] = BytesField(2, "circuit_name")
        /\ table[3] = BytesField(3, "vk_data")
    BY <1>1 DEF MsgSetVerificationKey
  <1>3. /\ FieldIs(table[1], 1, "authority") /\ table[1].type \in PlainTypes
        /\ FieldIs(table[2], 2, "circuit_name") /\ table[2].type \in PlainTypes
        /\ FieldIs(table[3], 3, "vk_data") /\ table[3].type \in PlainTypes
    BY <1>2, BytesFieldIs
  <1>4. Numbered(table, 3) /\ PlainTable(table)
    <2>1. \A i \in 1..3 : table[i].num = i /\ WellTyped(table[i])  /\ table[i].type \in PlainTypes
      BY <1>3 DEF FieldIs
    <2>2. \A i, j \in 1..3 : table[i].name = table[j].name => i = j
      BY <1>3 DEF FieldIs
    <2> QED
      BY <1>2, <2>1, <2>2 DEF Numbered, PlainTable
  <1>5. ASSUME NEW m \in Messages(table)
        PROVE  Codes(table, m, MsgSetVerificationKeyEntries(m), MsgSetVerificationKeySize(m))
    <2>1. PICK puts : puts = AllPuts(table, m)
      OBVIOUS
    <2>2. /\ puts \in Seq(Seq(Seq(Byte))) /\ Len(puts) = 3 /\ Entries(table, m) = FlattenSeq(puts)
          /\ \A i \in 1..3 : /\ puts[i] = Put(table[i], m[table[i].name])
                              /\ m[table[i].name] \in Values(table[i])
      BY <1>4, <2>1, PutsFacts
    <2>4. /\ puts[1] = PutBytes(1, m.authority)
          /\ puts[2] = PutBytes(2, m.circuit_name)
          /\ puts[3] = PutBytes(3, m.vk_data)
      BY <1>2, <1>3, <2>2, BytesFieldIs DEF FieldIs
    <2>5. Entries(table, m) = MsgSetVerificationKeyEntries(m)
      <3>1. FlattenSeq(puts) = puts[1] \o puts[2] \o puts[3]
        BY <2>2, JoinThree
      <3> QED
        BY <2>2, <2>4, <3>1 DEF MsgSetVerificationKeyEntries
    <2>6. ASSUME Fits(FlattenSeq(Entries(table, m)))
          PROVE  MsgSetVerificationKeySize(m) = Len(FlattenSeq(Entries(table, m)))
      <3>1. PICK sizes : sizes = AllSizes(table, m)
        OBVIOUS
      <3>2. /\ sizes \in Seq(Nat) /\ Len(sizes) = 3
            /\ SumOf(sizes) = Len(FlattenSeq(Entries(table, m)))
            /\ \A i \in 1..3 : /\ sizes[i] = FieldSizeOf(table[i], m[table[i].name])
                               /\ Fits(FlattenSeq(Put(table[i], m[table[i].name])))
        BY <1>4, <2>6, <3>1, SizesFacts
      <3>3. /\ sizes[1] = SizeBytes(m.authority)
            /\ sizes[2] = SizeBytes(m.circuit_name)
            /\ sizes[3] = SizeBytes(m.vk_data)
        BY <1>2, <1>3, <3>2, BytesFieldIs DEF FieldIs
      <3>4. SumOf(sizes) = sizes[1] + sizes[2] + sizes[3]
        BY <3>2, SumThree
      <3> QED
        BY <3>2, <3>3, <3>4 DEF MsgSetVerificationKeySize
    <2> QED
      BY <2>5, <2>6 DEF Codes
  <1> QED
    BY <1>1, <1>4, <1>5, NumberedIs

LEMMA QueryRootResponseCodes ==
    /\ WellFormed(QueryRootResponse) /\ Distinct(QueryRootResponse) /\ PlainTable(QueryRootResponse)
    /\ \A m \in Messages(QueryRootResponse) : Codes(QueryRootResponse, m, QueryRootResponseEntries(m), QueryRootResponseSize(m))
  <1>1. PICK table : table = QueryRootResponse
    OBVIOUS
  <1>2. /\ Len(table) = 1 /\ DOMAIN table = 1..1
        /\ table[1] = BytesField(1, "root")
    BY <1>1 DEF QueryRootResponse
  <1>3. /\ FieldIs(table[1], 1, "root") /\ table[1].type \in PlainTypes
    BY <1>2, BytesFieldIs
  <1>4. Numbered(table, 1) /\ PlainTable(table)
    BY <1>2, <1>3 DEF Numbered, FieldIs, PlainTable
  <1>5. ASSUME NEW m \in Messages(table)
        PROVE  Codes(table, m, QueryRootResponseEntries(m), QueryRootResponseSize(m))
    <2>1. PICK puts : puts = AllPuts(table, m)
      OBVIOUS
    <2>2. /\ puts \in Seq(Seq(Seq(Byte))) /\ Len(puts) = 1 /\ Entries(table, m) = FlattenSeq(puts)
          /\ \A i \in 1..1 : /\ puts[i] = Put(table[i], m[table[i].name])
                              /\ m[table[i].name] \in Values(table[i])
      BY <1>4, <2>1, PutsFacts
    <2>4. /\ puts[1] = PutBytes(1, m.root)
      BY <1>2, <1>3, <2>2, BytesFieldIs DEF FieldIs
    <2>5. Entries(table, m) = QueryRootResponseEntries(m)
      <3>1. FlattenSeq(puts) = puts[1]
        BY <2>2, JoinOne
      <3> QED
        BY <2>2, <2>4, <3>1 DEF QueryRootResponseEntries
    <2>6. ASSUME Fits(FlattenSeq(Entries(table, m)))
          PROVE  QueryRootResponseSize(m) = Len(FlattenSeq(Entries(table, m)))
      <3>1. PICK sizes : sizes = AllSizes(table, m)
        OBVIOUS
      <3>2. /\ sizes \in Seq(Nat) /\ Len(sizes) = 1
            /\ SumOf(sizes) = Len(FlattenSeq(Entries(table, m)))
            /\ \A i \in 1..1 : /\ sizes[i] = FieldSizeOf(table[i], m[table[i].name])
                               /\ Fits(FlattenSeq(Put(table[i], m[table[i].name])))
        BY <1>4, <2>6, <3>1, SizesFacts
      <3>3. /\ sizes[1] = SizeBytes(m.root)
        BY <1>2, <1>3, <3>2, BytesFieldIs DEF FieldIs
      <3>4. SumOf(sizes) = sizes[1]
        BY <3>2, SumOne
      <3> QED
        BY <3>2, <3>3, <3>4 DEF QueryRootResponseSize
    <2> QED
      BY <2>5, <2>6 DEF Codes
  <1> QED
    BY <1>1, <1>4, <1>5, NumberedIs

LEMMA QueryNullifierStatusRequestCodes ==
    /\ WellFormed(QueryNullifierStatusRequest) /\ Distinct(QueryNullifierStatusRequest) /\ PlainTable(QueryNullifierStatusRequest)
    /\ \A m \in Messages(QueryNullifierStatusRequest) : Codes(QueryNullifierStatusRequest, m, QueryNullifierStatusRequestEntries(m), QueryNullifierStatusRequestSize(m))
  <1>1. PICK table : table = QueryNullifierStatusRequest
    OBVIOUS
  <1>2. /\ Len(table) = 1 /\ DOMAIN table = 1..1
        /\ table[1] = BytesField(1, "nullifier")
    BY <1>1 DEF QueryNullifierStatusRequest
  <1>3. /\ FieldIs(table[1], 1, "nullifier") /\ table[1].type \in PlainTypes
    BY <1>2, BytesFieldIs
  <1>4. Numbered(table, 1) /\ PlainTable(table)
    BY <1>2, <1>3 DEF Numbered, FieldIs, PlainTable
  <1>5. ASSUME NEW m \in Messages(table)
        PROVE  Codes(table, m, QueryNullifierStatusRequestEntries(m), QueryNullifierStatusRequestSize(m))
    <2>1. PICK puts : puts = AllPuts(table, m)
      OBVIOUS
    <2>2. /\ puts \in Seq(Seq(Seq(Byte))) /\ Len(puts) = 1 /\ Entries(table, m) = FlattenSeq(puts)
          /\ \A i \in 1..1 : /\ puts[i] = Put(table[i], m[table[i].name])
                              /\ m[table[i].name] \in Values(table[i])
      BY <1>4, <2>1, PutsFacts
    <2>4. /\ puts[1] = PutBytes(1, m.nullifier)
      BY <1>2, <1>3, <2>2, BytesFieldIs DEF FieldIs
    <2>5. Entries(table, m) = QueryNullifierStatusRequestEntries(m)
      <3>1. FlattenSeq(puts) = puts[1]
        BY <2>2, JoinOne
      <3> QED
        BY <2>2, <2>4, <3>1 DEF QueryNullifierStatusRequestEntries
    <2>6. ASSUME Fits(FlattenSeq(Entries(table, m)))
          PROVE  QueryNullifierStatusRequestSize(m) = Len(FlattenSeq(Entries(table, m)))
      <3>1. PICK sizes : sizes = AllSizes(table, m)
        OBVIOUS
      <3>2. /\ sizes \in Seq(Nat) /\ Len(sizes) = 1
            /\ SumOf(sizes) = Len(FlattenSeq(Entries(table, m)))
            /\ \A i \in 1..1 : /\ sizes[i] = FieldSizeOf(table[i], m[table[i].name])
                               /\ Fits(FlattenSeq(Put(table[i], m[table[i].name])))
        BY <1>4, <2>6, <3>1, SizesFacts
      <3>3. /\ sizes[1] = SizeBytes(m.nullifier)
        BY <1>2, <1>3, <3>2, BytesFieldIs DEF FieldIs
      <3>4. SumOf(sizes) = sizes[1]
        BY <3>2, SumOne
      <3> QED
        BY <3>2, <3>3, <3>4 DEF QueryNullifierStatusRequestSize
    <2> QED
      BY <2>5, <2>6 DEF Codes
  <1> QED
    BY <1>1, <1>4, <1>5, NumberedIs

LEMMA QueryNullifierStatusResponseCodes ==
    /\ WellFormed(QueryNullifierStatusResponse) /\ Distinct(QueryNullifierStatusResponse) /\ PlainTable(QueryNullifierStatusResponse)
    /\ \A m \in Messages(QueryNullifierStatusResponse) : Codes(QueryNullifierStatusResponse, m, QueryNullifierStatusResponseEntries(m), QueryNullifierStatusResponseSize(m))
  <1>1. PICK table : table = QueryNullifierStatusResponse
    OBVIOUS
  <1>2. /\ Len(table) = 1 /\ DOMAIN table = 1..1
        /\ table[1] = BoolField(1, "spent")
    BY <1>1 DEF QueryNullifierStatusResponse
  <1>3. /\ FieldIs(table[1], 1, "spent") /\ table[1].type \in PlainTypes
    BY <1>2, BoolFieldIs
  <1>4. Numbered(table, 1) /\ PlainTable(table)
    BY <1>2, <1>3 DEF Numbered, FieldIs, PlainTable
  <1>5. ASSUME NEW m \in Messages(table)
        PROVE  Codes(table, m, QueryNullifierStatusResponseEntries(m), QueryNullifierStatusResponseSize(m))
    <2>1. PICK puts : puts = AllPuts(table, m)
      OBVIOUS
    <2>2. /\ puts \in Seq(Seq(Seq(Byte))) /\ Len(puts) = 1 /\ Entries(table, m) = FlattenSeq(puts)
          /\ \A i \in 1..1 : /\ puts[i] = Put(table[i], m[table[i].name])
                              /\ m[table[i].name] \in Values(table[i])
      BY <1>4, <2>1, PutsFacts
    <2>4. /\ puts[1] = PutBool(1, m.spent)
      BY <1>2, <1>3, <2>2, BoolFieldIs DEF FieldIs
    <2>5. Entries(table, m) = QueryNullifierStatusResponseEntries(m)
      <3>1. FlattenSeq(puts) = puts[1]
        BY <2>2, JoinOne
      <3> QED
        BY <2>2, <2>4, <3>1 DEF QueryNullifierStatusResponseEntries
    <2>6. ASSUME Fits(FlattenSeq(Entries(table, m)))
          PROVE  QueryNullifierStatusResponseSize(m) = Len(FlattenSeq(Entries(table, m)))
      <3>1. PICK sizes : sizes = AllSizes(table, m)
        OBVIOUS
      <3>2. /\ sizes \in Seq(Nat) /\ Len(sizes) = 1
            /\ SumOf(sizes) = Len(FlattenSeq(Entries(table, m)))
            /\ \A i \in 1..1 : /\ sizes[i] = FieldSizeOf(table[i], m[table[i].name])
                               /\ Fits(FlattenSeq(Put(table[i], m[table[i].name])))
        BY <1>4, <2>6, <3>1, SizesFacts
      <3>3. /\ sizes[1] = SizeBool(m.spent)
        BY <1>2, <1>3, <3>2, BoolFieldIs DEF FieldIs
      <3>4. SumOf(sizes) = sizes[1]
        BY <3>2, SumOne
      <3> QED
        BY <3>2, <3>3, <3>4 DEF QueryNullifierStatusResponseSize
    <2> QED
      BY <2>5, <2>6 DEF Codes
  <1> QED
    BY <1>1, <1>4, <1>5, NumberedIs

LEMMA QueryTreeInfoResponseCodes ==
    /\ WellFormed(QueryTreeInfoResponse) /\ Distinct(QueryTreeInfoResponse) /\ PlainTable(QueryTreeInfoResponse)
    /\ \A m \in Messages(QueryTreeInfoResponse) : Codes(QueryTreeInfoResponse, m, QueryTreeInfoResponseEntries(m), QueryTreeInfoResponseSize(m))
  <1>1. PICK table : table = QueryTreeInfoResponse
    OBVIOUS
  <1>2. /\ Len(table) = 5 /\ DOMAIN table = 1..5
        /\ table[1] = Uint64Field(1, "next_index")
        /\ table[2] = BytesField(2, "root")
        /\ table[3] = Uint32Field(3, "depth")
        /\ table[4] = Uint64Field(4, "active_tree_id")
        /\ table[5] = Uint64Field(5, "tree_count")
    BY <1>1 DEF QueryTreeInfoResponse
  <1>3. /\ FieldIs(table[1], 1, "next_index") /\ table[1].type \in PlainTypes
        /\ FieldIs(table[2], 2, "root") /\ table[2].type \in PlainTypes
        /\ FieldIs(table[3], 3, "depth") /\ table[3].type \in PlainTypes
        /\ FieldIs(table[4], 4, "active_tree_id") /\ table[4].type \in PlainTypes
        /\ FieldIs(table[5], 5, "tree_count") /\ table[5].type \in PlainTypes
    BY <1>2, BytesFieldIs, Uint32FieldIs, Uint64FieldIs
  <1>4. Numbered(table, 5) /\ PlainTable(table)
    <2>1. \A i \in 1..5 : table[i].num = i /\ WellTyped(table[i])  /\ table[i].type \in PlainTypes
      BY <1>3 DEF FieldIs
    <2>2. \A i, j \in 1..5 : table[i].name = table[j].name => i = j
      BY <1>3 DEF FieldIs
    <2> QED
      BY <1>2, <2>1, <2>2 DEF Numbered, PlainTable
  <1>5. ASSUME NEW m \in Messages(table)
        PROVE  Codes(table, m, QueryTreeInfoResponseEntries(m), QueryTreeInfoResponseSize(m))
    <2>1. PICK puts : puts = AllPuts(table, m)
      OBVIOUS
    <2>2. /\ puts \in Seq(Seq(Seq(Byte))) /\ Len(puts) = 5 /\ Entries(table, m) = FlattenSeq(puts)
          /\ \A i \in 1..5 : /\ puts[i] = Put(table[i], m[table[i].name])
                              /\ m[table[i].name] \in Values(table[i])
      BY <1>4, <2>1, PutsFacts
    <2>4. /\ puts[1] = PutUint(1, m.next_index)
          /\ puts[2] = PutBytes(2, m.root)
          /\ puts[3] = PutUint(3, m.depth)
          /\ puts[4] = PutUint(4, m.active_tree_id)
          /\ puts[5] = PutUint(5, m.tree_count)
      <3>1. puts[1] = PutUint(1, m.next_index)
        BY <1>2, <1>3, <2>2, Uint64FieldIs DEF FieldIs
      <3>2. puts[2] = PutBytes(2, m.root)
        BY <1>2, <1>3, <2>2, BytesFieldIs DEF FieldIs
      <3>3. puts[3] = PutUint(3, m.depth)
        BY <1>2, <1>3, <2>2, Uint32FieldIs DEF FieldIs
      <3>4. puts[4] = PutUint(4, m.active_tree_id)
        BY <1>2, <1>3, <2>2, Uint64FieldIs DEF FieldIs
      <3>5. puts[5] = PutUint(5, m.tree_count)
        BY <1>2, <1>3, <2>2, Uint64FieldIs DEF FieldIs
      <3> QED
        BY <3>1, <3>2, <3>3, <3>4, <3>5
    <2>5. Entries(table, m) = QueryTreeInfoResponseEntries(m)
      <3>1. FlattenSeq(puts) = puts[1] \o puts[2] \o puts[3] \o puts[4] \o puts[5]
        BY <2>2, JoinFive
      <3> QED
        BY <2>2, <2>4, <3>1 DEF QueryTreeInfoResponseEntries
    <2>6. ASSUME Fits(FlattenSeq(Entries(table, m)))
          PROVE  QueryTreeInfoResponseSize(m) = Len(FlattenSeq(Entries(table, m)))
      <3>1. PICK sizes : sizes = AllSizes(table, m)
        OBVIOUS
      <3>2. /\ sizes \in Seq(Nat) /\ Len(sizes) = 5
            /\ SumOf(sizes) = Len(FlattenSeq(Entries(table, m)))
            /\ \A i \in 1..5 : /\ sizes[i] = FieldSizeOf(table[i], m[table[i].name])
                               /\ Fits(FlattenSeq(Put(table[i], m[table[i].name])))
        BY <1>4, <2>6, <3>1, SizesFacts
      <3>3. /\ sizes[1] = SizeUint(m.next_index)
            /\ sizes[2] = SizeBytes(m.root)
            /\ sizes[3] = SizeUint(m.depth)
            /\ sizes[4] = SizeUint(m.active_tree_id)
            /\ sizes[5] = SizeUint(m.tree_count)
        <4>1. sizes[1] = SizeUint(m.next_index)
          BY <1>2, <1>3, <3>2, Uint64FieldIs DEF FieldIs
        <4>2. sizes[2] = SizeBytes(m.root)
          BY <1>2, <1>3, <3>2, BytesFieldIs DEF FieldIs
        <4>3. sizes[3] = SizeUint(m.depth)
          BY <1>2, <1>3, <3>2, Uint32FieldIs DEF FieldIs
        <4>4. sizes[4] = SizeUint(m.active_tree_id)
          BY <1>2, <1>3, <3>2, Uint64FieldIs DEF FieldIs
        <4>5. sizes[5] = SizeUint(m.tree_count)
          BY <1>2, <1>3, <3>2, Uint64FieldIs DEF FieldIs
        <4> QED
          BY <4>1, <4>2, <4>3, <4>4, <4>5
      <3>4. SumOf(sizes) = sizes[1] + sizes[2] + sizes[3] + sizes[4] + sizes[5]
        BY <3>2, SumFive
      <3> QED
        BY <3>2, <3>3, <3>4 DEF QueryTreeInfoResponseSize
    <2> QED
      BY <2>5, <2>6 DEF Codes
  <1> QED
    BY <1>1, <1>4, <1>5, NumberedIs

LEMMA QueryRegistrationRootResponseCodes ==
    /\ WellFormed(QueryRegistrationRootResponse) /\ Distinct(QueryRegistrationRootResponse) /\ PlainTable(QueryRegistrationRootResponse)
    /\ \A m \in Messages(QueryRegistrationRootResponse) : Codes(QueryRegistrationRootResponse, m, QueryRegistrationRootResponseEntries(m), QueryRegistrationRootResponseSize(m))
  <1>1. PICK table : table = QueryRegistrationRootResponse
    OBVIOUS
  <1>2. /\ Len(table) = 1 /\ DOMAIN table = 1..1
        /\ table[1] = BytesField(1, "root")
    BY <1>1 DEF QueryRegistrationRootResponse
  <1>3. /\ FieldIs(table[1], 1, "root") /\ table[1].type \in PlainTypes
    BY <1>2, BytesFieldIs
  <1>4. Numbered(table, 1) /\ PlainTable(table)
    BY <1>2, <1>3 DEF Numbered, FieldIs, PlainTable
  <1>5. ASSUME NEW m \in Messages(table)
        PROVE  Codes(table, m, QueryRegistrationRootResponseEntries(m), QueryRegistrationRootResponseSize(m))
    <2>1. PICK puts : puts = AllPuts(table, m)
      OBVIOUS
    <2>2. /\ puts \in Seq(Seq(Seq(Byte))) /\ Len(puts) = 1 /\ Entries(table, m) = FlattenSeq(puts)
          /\ \A i \in 1..1 : /\ puts[i] = Put(table[i], m[table[i].name])
                              /\ m[table[i].name] \in Values(table[i])
      BY <1>4, <2>1, PutsFacts
    <2>4. /\ puts[1] = PutBytes(1, m.root)
      BY <1>2, <1>3, <2>2, BytesFieldIs DEF FieldIs
    <2>5. Entries(table, m) = QueryRegistrationRootResponseEntries(m)
      <3>1. FlattenSeq(puts) = puts[1]
        BY <2>2, JoinOne
      <3> QED
        BY <2>2, <2>4, <3>1 DEF QueryRegistrationRootResponseEntries
    <2>6. ASSUME Fits(FlattenSeq(Entries(table, m)))
          PROVE  QueryRegistrationRootResponseSize(m) = Len(FlattenSeq(Entries(table, m)))
      <3>1. PICK sizes : sizes = AllSizes(table, m)
        OBVIOUS
      <3>2. /\ sizes \in Seq(Nat) /\ Len(sizes) = 1
            /\ SumOf(sizes) = Len(FlattenSeq(Entries(table, m)))
            /\ \A i \in 1..1 : /\ sizes[i] = FieldSizeOf(table[i], m[table[i].name])
                               /\ Fits(FlattenSeq(Put(table[i], m[table[i].name])))
        BY <1>4, <2>6, <3>1, SizesFacts
      <3>3. /\ sizes[1] = SizeBytes(m.root)
        BY <1>2, <1>3, <3>2, BytesFieldIs DEF FieldIs
      <3>4. SumOf(sizes) = sizes[1]
        BY <3>2, SumOne
      <3> QED
        BY <3>2, <3>3, <3>4 DEF QueryRegistrationRootResponseSize
    <2> QED
      BY <2>5, <2>6 DEF Codes
  <1> QED
    BY <1>1, <1>4, <1>5, NumberedIs

LEMMA QueryAuditorKeyResponseCodes ==
    /\ WellFormed(QueryAuditorKeyResponse) /\ Distinct(QueryAuditorKeyResponse) /\ PlainTable(QueryAuditorKeyResponse)
    /\ \A m \in Messages(QueryAuditorKeyResponse) : Codes(QueryAuditorKeyResponse, m, QueryAuditorKeyResponseEntries(m), QueryAuditorKeyResponseSize(m))
  <1>1. PICK table : table = QueryAuditorKeyResponse
    OBVIOUS
  <1>2. /\ Len(table) = 1 /\ DOMAIN table = 1..1
        /\ table[1] = BytesField(1, "auditor_pub_key")
    BY <1>1 DEF QueryAuditorKeyResponse
  <1>3. /\ FieldIs(table[1], 1, "auditor_pub_key") /\ table[1].type \in PlainTypes
    BY <1>2, BytesFieldIs
  <1>4. Numbered(table, 1) /\ PlainTable(table)
    BY <1>2, <1>3 DEF Numbered, FieldIs, PlainTable
  <1>5. ASSUME NEW m \in Messages(table)
        PROVE  Codes(table, m, QueryAuditorKeyResponseEntries(m), QueryAuditorKeyResponseSize(m))
    <2>1. PICK puts : puts = AllPuts(table, m)
      OBVIOUS
    <2>2. /\ puts \in Seq(Seq(Seq(Byte))) /\ Len(puts) = 1 /\ Entries(table, m) = FlattenSeq(puts)
          /\ \A i \in 1..1 : /\ puts[i] = Put(table[i], m[table[i].name])
                              /\ m[table[i].name] \in Values(table[i])
      BY <1>4, <2>1, PutsFacts
    <2>4. /\ puts[1] = PutBytes(1, m.auditor_pub_key)
      BY <1>2, <1>3, <2>2, BytesFieldIs DEF FieldIs
    <2>5. Entries(table, m) = QueryAuditorKeyResponseEntries(m)
      <3>1. FlattenSeq(puts) = puts[1]
        BY <2>2, JoinOne
      <3> QED
        BY <2>2, <2>4, <3>1 DEF QueryAuditorKeyResponseEntries
    <2>6. ASSUME Fits(FlattenSeq(Entries(table, m)))
          PROVE  QueryAuditorKeyResponseSize(m) = Len(FlattenSeq(Entries(table, m)))
      <3>1. PICK sizes : sizes = AllSizes(table, m)
        OBVIOUS
      <3>2. /\ sizes \in Seq(Nat) /\ Len(sizes) = 1
            /\ SumOf(sizes) = Len(FlattenSeq(Entries(table, m)))
            /\ \A i \in 1..1 : /\ sizes[i] = FieldSizeOf(table[i], m[table[i].name])
                               /\ Fits(FlattenSeq(Put(table[i], m[table[i].name])))
        BY <1>4, <2>6, <3>1, SizesFacts
      <3>3. /\ sizes[1] = SizeBytes(m.auditor_pub_key)
        BY <1>2, <1>3, <3>2, BytesFieldIs DEF FieldIs
      <3>4. SumOf(sizes) = sizes[1]
        BY <3>2, SumOne
      <3> QED
        BY <3>2, <3>3, <3>4 DEF QueryAuditorKeyResponseSize
    <2> QED
      BY <2>5, <2>6 DEF Codes
  <1> QED
    BY <1>1, <1>4, <1>5, NumberedIs

LEMMA QuerySupportedDenomsResponseCodes ==
    /\ WellFormed(QuerySupportedDenomsResponse) /\ Distinct(QuerySupportedDenomsResponse) /\ PlainTable(QuerySupportedDenomsResponse)
    /\ \A m \in Messages(QuerySupportedDenomsResponse) : Codes(QuerySupportedDenomsResponse, m, QuerySupportedDenomsResponseEntries(m), QuerySupportedDenomsResponseSize(m))
  <1>1. PICK table : table = QuerySupportedDenomsResponse
    OBVIOUS
  <1>2. /\ Len(table) = 1 /\ DOMAIN table = 1..1
        /\ table[1] = BytesListField(1, "denoms")
    BY <1>1 DEF QuerySupportedDenomsResponse
  <1>3. /\ FieldIs(table[1], 1, "denoms") /\ table[1].type \in PlainTypes
    BY <1>2, BytesListFieldIs
  <1>4. Numbered(table, 1) /\ PlainTable(table)
    BY <1>2, <1>3 DEF Numbered, FieldIs, PlainTable
  <1>5. ASSUME NEW m \in Messages(table)
        PROVE  Codes(table, m, QuerySupportedDenomsResponseEntries(m), QuerySupportedDenomsResponseSize(m))
    <2>1. PICK puts : puts = AllPuts(table, m)
      OBVIOUS
    <2>2. /\ puts \in Seq(Seq(Seq(Byte))) /\ Len(puts) = 1 /\ Entries(table, m) = FlattenSeq(puts)
          /\ \A i \in 1..1 : /\ puts[i] = Put(table[i], m[table[i].name])
                              /\ m[table[i].name] \in Values(table[i])
      BY <1>4, <2>1, PutsFacts
    <2>4. /\ puts[1] = PutEach(1, m.denoms)
      BY <1>2, <1>3, <2>2, BytesListFieldIs DEF FieldIs
    <2>5. Entries(table, m) = QuerySupportedDenomsResponseEntries(m)
      <3>1. FlattenSeq(puts) = puts[1]
        BY <2>2, JoinOne
      <3> QED
        BY <2>2, <2>4, <3>1 DEF QuerySupportedDenomsResponseEntries
    <2>6. ASSUME Fits(FlattenSeq(Entries(table, m)))
          PROVE  QuerySupportedDenomsResponseSize(m) = Len(FlattenSeq(Entries(table, m)))
      <3>1. PICK sizes : sizes = AllSizes(table, m)
        OBVIOUS
      <3>2. /\ sizes \in Seq(Nat) /\ Len(sizes) = 1
            /\ SumOf(sizes) = Len(FlattenSeq(Entries(table, m)))
            /\ \A i \in 1..1 : /\ sizes[i] = FieldSizeOf(table[i], m[table[i].name])
                               /\ Fits(FlattenSeq(Put(table[i], m[table[i].name])))
        BY <1>4, <2>6, <3>1, SizesFacts
      <3>3. /\ sizes[1] = SizeEach(m.denoms)
        BY <1>2, <1>3, <3>2, BytesListFieldIs DEF FieldIs
      <3>4. SumOf(sizes) = sizes[1]
        BY <3>2, SumOne
      <3> QED
        BY <3>2, <3>3, <3>4 DEF QuerySupportedDenomsResponseSize
    <2> QED
      BY <2>5, <2>6 DEF Codes
  <1> QED
    BY <1>1, <1>4, <1>5, NumberedIs

LEMMA ModuleCodes ==
    /\ WellFormed(Module) /\ Distinct(Module) /\ PlainTable(Module)
    /\ \A m \in Messages(Module) : Codes(Module, m, ModuleEntries(m), ModuleSize(m))
  <1>1. PICK table : table = Module
    OBVIOUS
  <1>2. /\ Len(table) = 1 /\ DOMAIN table = 1..1
        /\ table[1] = BytesField(1, "authority")
    BY <1>1 DEF Module
  <1>3. /\ FieldIs(table[1], 1, "authority") /\ table[1].type \in PlainTypes
    BY <1>2, BytesFieldIs
  <1>4. Numbered(table, 1) /\ PlainTable(table)
    BY <1>2, <1>3 DEF Numbered, FieldIs, PlainTable
  <1>5. ASSUME NEW m \in Messages(table)
        PROVE  Codes(table, m, ModuleEntries(m), ModuleSize(m))
    <2>1. PICK puts : puts = AllPuts(table, m)
      OBVIOUS
    <2>2. /\ puts \in Seq(Seq(Seq(Byte))) /\ Len(puts) = 1 /\ Entries(table, m) = FlattenSeq(puts)
          /\ \A i \in 1..1 : /\ puts[i] = Put(table[i], m[table[i].name])
                              /\ m[table[i].name] \in Values(table[i])
      BY <1>4, <2>1, PutsFacts
    <2>4. /\ puts[1] = PutBytes(1, m.authority)
      BY <1>2, <1>3, <2>2, BytesFieldIs DEF FieldIs
    <2>5. Entries(table, m) = ModuleEntries(m)
      <3>1. FlattenSeq(puts) = puts[1]
        BY <2>2, JoinOne
      <3> QED
        BY <2>2, <2>4, <3>1 DEF ModuleEntries
    <2>6. ASSUME Fits(FlattenSeq(Entries(table, m)))
          PROVE  ModuleSize(m) = Len(FlattenSeq(Entries(table, m)))
      <3>1. PICK sizes : sizes = AllSizes(table, m)
        OBVIOUS
      <3>2. /\ sizes \in Seq(Nat) /\ Len(sizes) = 1
            /\ SumOf(sizes) = Len(FlattenSeq(Entries(table, m)))
            /\ \A i \in 1..1 : /\ sizes[i] = FieldSizeOf(table[i], m[table[i].name])
                               /\ Fits(FlattenSeq(Put(table[i], m[table[i].name])))
        BY <1>4, <2>6, <3>1, SizesFacts
      <3>3. /\ sizes[1] = SizeBytes(m.authority)
        BY <1>2, <1>3, <3>2, BytesFieldIs DEF FieldIs
      <3>4. SumOf(sizes) = sizes[1]
        BY <3>2, SumOne
      <3> QED
        BY <3>2, <3>3, <3>4 DEF ModuleSize
    <2> QED
      BY <2>5, <2>6 DEF Codes
  <1> QED
    BY <1>1, <1>4, <1>5, NumberedIs

(* The types that have none. *)
LEMMA NothingCodes ==
    ASSUME NEW table, table = <<>>
    PROVE  WellFormed(table) /\ \A m \in Messages(table) : Codes(table, m, <<>>, 0)
  <1>1. Numbered(table, 0)
    BY DEF Numbered
  <1>2. ASSUME NEW m \in Messages(table) PROVE Codes(table, m, <<>>, 0)
    <2>1. PICK puts : puts = AllPuts(table, m)
      OBVIOUS
    <2>2. puts \in Seq(Seq(Seq(Byte))) /\ Len(puts) = 0 /\ Entries(table, m) = FlattenSeq(puts)
      BY <1>1, <2>1, PutsFacts
    <2>3. puts = <<>>
      BY <2>2, EmptySeq
    <2> QED
      BY <2>2, <2>3, FlattenNone DEF Codes
  <1> QED
    BY <1>1, <1>2, NumberedIs

(* The table of a type is one that can be read, and its Marshal and Size    *)
(* write and count what the table says.                                     *)
KindIs(k) ==
    /\ WellFormed(TableOf(k))
    /\ \A m \in Messages(TableOf(k)) : Codes(TableOf(k), m, EntriesOf(k, m), SizeOf(k, m))

(* Every type that the module registers. *)
LEMMA KindCodes ==
    ASSUME NEW k \in MessageTypes
    PROVE  KindIs(k)
  <1>1. CASE k = "Params"
    <2>1. /\ TableOf(k) = Params
          /\ \A m : EntriesOf(k, m) = ParamsEntries(m) /\ SizeOf(k, m) = ParamsSize(m)
      BY <1>1 DEF TableOf, EntriesOf, SizeOf
    <2> QED
      BY <2>1, ParamsCodes DEF KindIs
  <1>2. CASE k = "OutputNote"
    <2>1. /\ TableOf(k) = OutputNote
          /\ \A m : EntriesOf(k, m) = OutputNoteEntries(m) /\ SizeOf(k, m) = OutputNoteSize(m)
      BY <1>2 DEF TableOf, EntriesOf, SizeOf
    <2> QED
      BY <2>1, OutputNoteCodes DEF KindIs
  <1>3. CASE k = "MsgRegister"
    <2>1. /\ TableOf(k) = MsgRegister
          /\ \A m : EntriesOf(k, m) = MsgRegisterEntries(m) /\ SizeOf(k, m) = MsgRegisterSize(m)
      BY <1>3 DEF TableOf, EntriesOf, SizeOf
    <2> QED
      BY <2>1, MsgRegisterCodes DEF KindIs
  <1>4. CASE k = "MsgRegisterResponse"
    <2>1. /\ TableOf(k) = MsgRegisterResponse
          /\ \A m : EntriesOf(k, m) = MsgRegisterResponseEntries(m) /\ SizeOf(k, m) = MsgRegisterResponseSize(m)
      BY <1>4 DEF TableOf, EntriesOf, SizeOf
    <2> QED
      BY <2>1, MsgRegisterResponseCodes DEF KindIs
  <1>5. CASE k = "MsgDeposit"
    <2>1. /\ TableOf(k) = MsgDeposit
          /\ \A m : EntriesOf(k, m) = MsgDepositEntries(m) /\ SizeOf(k, m) = MsgDepositSize(m)
      BY <1>5 DEF TableOf, EntriesOf, SizeOf
    <2> QED
      BY <2>1, MsgDepositCodes DEF KindIs
  <1>6. CASE k = "MsgDepositResponse"
    <2>1. /\ TableOf(k) = MsgDepositResponse
          /\ \A m : EntriesOf(k, m) = MsgDepositResponseEntries(m) /\ SizeOf(k, m) = MsgDepositResponseSize(m)
      BY <1>6 DEF TableOf, EntriesOf, SizeOf
    <2> QED
      BY <2>1, MsgDepositResponseCodes DEF KindIs
  <1>7. CASE k = "MsgTransact"
    <2>1. /\ TableOf(k) = MsgTransact
          /\ \A m : EntriesOf(k, m) = MsgTransactEntries(m) /\ SizeOf(k, m) = MsgTransactSize(m)
      BY <1>7 DEF TableOf, EntriesOf, SizeOf
    <2> QED
      BY <2>1, MsgTransactCodes DEF KindIs
  <1>8. CASE k = "MsgTransactResponse"
    <2>1. /\ TableOf(k) = MsgTransactResponse
          /\ \A m : EntriesOf(k, m) = MsgTransactResponseEntries(m) /\ SizeOf(k, m) = MsgTransactResponseSize(m)
      BY <1>8 DEF TableOf, EntriesOf, SizeOf
    <2> QED
      BY <2>1, MsgTransactResponseCodes DEF KindIs
  <1>9. CASE k = "MsgUpdateParams"
    <2>1. /\ TableOf(k) = MsgUpdateParams
          /\ \A m : EntriesOf(k, m) = MsgUpdateParamsEntries(m) /\ SizeOf(k, m) = MsgUpdateParamsSize(m)
      BY <1>9 DEF TableOf, EntriesOf, SizeOf
    <2> QED
      BY <2>1, MsgUpdateParamsCodes DEF KindIs
  <1>10. CASE k = "MsgUpdateParamsResponse"
    <2>1. TableOf(k) = <<>> /\ \A m : EntriesOf(k, m) = <<>> /\ SizeOf(k, m) = 0
      BY <1>10 DEF TableOf, EntriesOf, SizeOf, MsgUpdateParamsResponse
    <2> QED
      BY <2>1, NothingCodes DEF KindIs
  <1>11. CASE k = "MsgSetVerificationKey"
    <2>1. /\ TableOf(k) = MsgSetVerificationKey
          /\ \A m : EntriesOf(k, m) = MsgSetVerificationKeyEntries(m) /\ SizeOf(k, m) = MsgSetVerificationKeySize(m)
      BY <1>11 DEF TableOf, EntriesOf, SizeOf
    <2> QED
      BY <2>1, MsgSetVerificationKeyCodes DEF KindIs
  <1>12. CASE k = "MsgSetVerificationKeyResponse"
    <2>1. TableOf(k) = <<>> /\ \A m : EntriesOf(k, m) = <<>> /\ SizeOf(k, m) = 0
      BY <1>12 DEF TableOf, EntriesOf, SizeOf, MsgSetVerificationKeyResponse
    <2> QED
      BY <2>1, NothingCodes DEF KindIs
  <1>13. CASE k = "QueryRootRequest"
    <2>1. TableOf(k) = <<>> /\ \A m : EntriesOf(k, m) = <<>> /\ SizeOf(k, m) = 0
      BY <1>13 DEF TableOf, EntriesOf, SizeOf, QueryRootRequest
    <2> QED
      BY <2>1, NothingCodes DEF KindIs
  <1>14. CASE k = "QueryRootResponse"
    <2>1. /\ TableOf(k) = QueryRootResponse
          /\ \A m : EntriesOf(k, m) = QueryRootResponseEntries(m) /\ SizeOf(k, m) = QueryRootResponseSize(m)
      BY <1>14 DEF TableOf, EntriesOf, SizeOf
    <2> QED
      BY <2>1, QueryRootResponseCodes DEF KindIs
  <1>15. CASE k = "QueryNullifierStatusRequest"
    <2>1. /\ TableOf(k) = QueryNullifierStatusRequest
          /\ \A m : EntriesOf(k, m) = QueryNullifierStatusRequestEntries(m) /\ SizeOf(k, m) = QueryNullifierStatusRequestSize(m)
      BY <1>15 DEF TableOf, EntriesOf, SizeOf
    <2> QED
      BY <2>1, QueryNullifierStatusRequestCodes DEF KindIs
  <1>16. CASE k = "QueryNullifierStatusResponse"
    <2>1. /\ TableOf(k) = QueryNullifierStatusResponse
          /\ \A m : EntriesOf(k, m) = QueryNullifierStatusResponseEntries(m) /\ SizeOf(k, m) = QueryNullifierStatusResponseSize(m)
      BY <1>16 DEF TableOf, EntriesOf, SizeOf
    <2> QED
      BY <2>1, QueryNullifierStatusResponseCodes DEF KindIs
  <1>17. CASE k = "QueryTreeInfoRequest"
    <2>1. TableOf(k) = <<>> /\ \A m : EntriesOf(k, m) = <<>> /\ SizeOf(k, m) = 0
      BY <1>17 DEF TableOf, EntriesOf, SizeOf, QueryTreeInfoRequest
    <2> QED
      BY <2>1, NothingCodes DEF KindIs
  <1>18. CASE k = "QueryTreeInfoResponse"
    <2>1. /\ TableOf(k) = QueryTreeInfoResponse
          /\ \A m : EntriesOf(k, m) = QueryTreeInfoResponseEntries(m) /\ SizeOf(k, m) = QueryTreeInfoResponseSize(m)
      BY <1>18 DEF TableOf, EntriesOf, SizeOf
    <2> QED
      BY <2>1, QueryTreeInfoResponseCodes DEF KindIs
  <1>19. CASE k = "QueryParamsRequest"
    <2>1. TableOf(k) = <<>> /\ \A m : EntriesOf(k, m) = <<>> /\ SizeOf(k, m) = 0
      BY <1>19 DEF TableOf, EntriesOf, SizeOf, QueryParamsRequest
    <2> QED
      BY <2>1, NothingCodes DEF KindIs
  <1>20. CASE k = "QueryParamsResponse"
    <2>1. /\ TableOf(k) = QueryParamsResponse
          /\ \A m : EntriesOf(k, m) = QueryParamsResponseEntries(m) /\ SizeOf(k, m) = QueryParamsResponseSize(m)
      BY <1>20 DEF TableOf, EntriesOf, SizeOf
    <2> QED
      BY <2>1, QueryParamsResponseCodes DEF KindIs
  <1>21. CASE k = "QueryRegistrationRootRequest"
    <2>1. TableOf(k) = <<>> /\ \A m : EntriesOf(k, m) = <<>> /\ SizeOf(k, m) = 0
      BY <1>21 DEF TableOf, EntriesOf, SizeOf, QueryRegistrationRootRequest
    <2> QED
      BY <2>1, NothingCodes DEF KindIs
  <1>22. CASE k = "QueryRegistrationRootResponse"
    <2>1. /\ TableOf(k) = QueryRegistrationRootResponse
          /\ \A m : EntriesOf(k, m) = QueryRegistrationRootResponseEntries(m) /\ SizeOf(k, m) = QueryRegistrationRootResponseSize(m)
      BY <1>22 DEF TableOf, EntriesOf, SizeOf
    <2> QED
      BY <2>1, QueryRegistrationRootResponseCodes DEF KindIs
  <1>23. CASE k = "QueryAuditorKeyRequest"
    <2>1. TableOf(k) = <<>> /\ \A m : EntriesOf(k, m) = <<>> /\ SizeOf(k, m) = 0
      BY <1>23 DEF TableOf, EntriesOf, SizeOf, QueryAuditorKeyRequest
    <2> QED
      BY <2>1, NothingCodes DEF KindIs
  <1>24. CASE k = "QueryAuditorKeyResponse"
    <2>1. /\ TableOf(k) = QueryAuditorKeyResponse
          /\ \A m : EntriesOf(k, m) = QueryAuditorKeyResponseEntries(m) /\ SizeOf(k, m) = QueryAuditorKeyResponseSize(m)
      BY <1>24 DEF TableOf, EntriesOf, SizeOf
    <2> QED
      BY <2>1, QueryAuditorKeyResponseCodes DEF KindIs
  <1>25. CASE k = "QuerySupportedDenomsRequest"
    <2>1. TableOf(k) = <<>> /\ \A m : EntriesOf(k, m) = <<>> /\ SizeOf(k, m) = 0
      BY <1>25 DEF TableOf, EntriesOf, SizeOf, QuerySupportedDenomsRequest
    <2> QED
      BY <2>1, NothingCodes DEF KindIs
  <1>26. CASE k = "QuerySupportedDenomsResponse"
    <2>1. /\ TableOf(k) = QuerySupportedDenomsResponse
          /\ \A m : EntriesOf(k, m) = QuerySupportedDenomsResponseEntries(m) /\ SizeOf(k, m) = QuerySupportedDenomsResponseSize(m)
      BY <1>26 DEF TableOf, EntriesOf, SizeOf
    <2> QED
      BY <2>1, QuerySupportedDenomsResponseCodes DEF KindIs
  <1>27. CASE k = "VerificationKeyEntry"
    <2>1. /\ TableOf(k) = VerificationKeyEntry
          /\ \A m : EntriesOf(k, m) = VerificationKeyEntryEntries(m) /\ SizeOf(k, m) = VerificationKeyEntrySize(m)
      BY <1>27 DEF TableOf, EntriesOf, SizeOf
    <2> QED
      BY <2>1, VerificationKeyEntryCodes DEF KindIs
  <1>28. CASE k = "AuditorDataEntry"
    <2>1. /\ TableOf(k) = AuditorDataEntry
          /\ \A m : EntriesOf(k, m) = AuditorDataEntryEntries(m) /\ SizeOf(k, m) = AuditorDataEntrySize(m)
      BY <1>28 DEF TableOf, EntriesOf, SizeOf
    <2> QED
      BY <2>1, AuditorDataEntryCodes DEF KindIs
  <1>29. CASE k = "TreeState"
    <2>1. /\ TableOf(k) = TreeState
          /\ \A m : EntriesOf(k, m) = TreeStateEntries(m) /\ SizeOf(k, m) = TreeStateSize(m)
      BY <1>29 DEF TableOf, EntriesOf, SizeOf
    <2> QED
      BY <2>1, TreeStateCodes DEF KindIs
  <1>30. CASE k = "GenesisState"
    <2>1. /\ TableOf(k) = GenesisState
          /\ \A m : EntriesOf(k, m) = GenesisStateEntries(m) /\ SizeOf(k, m) = GenesisStateSize(m)
      BY <1>30 DEF TableOf, EntriesOf, SizeOf
    <2> QED
      BY <2>1, GenesisStateCodes DEF KindIs
  <1>31. CASE k = "Module"
    <2>1. /\ TableOf(k) = Module
          /\ \A m : EntriesOf(k, m) = ModuleEntries(m) /\ SizeOf(k, m) = ModuleSize(m)
      BY <1>31 DEF TableOf, EntriesOf, SizeOf
    <2> QED
      BY <2>1, ModuleCodes DEF KindIs
  <1> QED
    BY <1>1, <1>2, <1>3, <1>4, <1>5, <1>6, <1>7, <1>8, <1>9, <1>10,
       <1>11, <1>12, <1>13, <1>14, <1>15, <1>16, <1>17, <1>18, <1>19, <1>20,
       <1>21, <1>22, <1>23, <1>24, <1>25, <1>26, <1>27, <1>28, <1>29, <1>30,
       <1>31
    DEF MessageTypes

(* The numbers of the samples are words. *)
LEMMA SmallWords ==
    /\ \A n \in 0..300 : n \in Word
    /\ \A n \in 0..128 : n \in Half
    /\ TwoTo[WordBits] - 1 \in Word /\ TwoTo[HalfBits] - 1 \in Half
  <1>1. PICK w, h, v, g : /\ w = TwoTo[WordBits] /\ h = TwoTo[HalfBits]
                          /\ v = TwoTo[WordBits - 1] /\ g = TwoTo[HalfBits - 1]
    OBVIOUS
  <1>2. w \in Nat /\ h \in Nat /\ v \in Nat /\ g \in Nat /\ w = 2 * v /\ h = 2 * g
    BY <1>1, WordFacts
  <1>3. 128 <= g /\ 1024 <= v
    BY <1>1, WordsAreWide
  <1>4. Word = 0..(w - 1) /\ Half = 0..(h - 1)
    BY <1>1 DEF Word, Half
  <1>5. (\A n \in 0..300 : n \in 0..(w - 1)) /\ (\A n \in 0..128 : n \in 0..(h - 1))
    BY <1>2, <1>3
  <1>6. w - 1 \in 0..(w - 1) /\ h - 1 \in 0..(h - 1)
    BY <1>2, <1>3
  <1> QED
    BY <1>1, <1>4, <1>5, <1>6

(* The samples are messages. *)
LEMMA TypicalPlainIs ==
    ASSUME NEW field, field.type \in PlainTypes
    PROVE  TypicalPlain(field) \in PlainValues(field.type)
  <1>1. CASE field.type = "bytes"
    <2>1. TypicalPlain(field) = <<7>> /\ PlainValues(field.type) = Seq(Byte)
      BY <1>1 DEF TypicalPlain, PlainValues
    <2>2. 7 \in Byte
      BY DEF Byte
    <2> QED
      BY <2>1, <2>2
  <1>2. CASE field.type = "bytesList"
    <2>1. TypicalPlain(field) = <<<<>>, <<200, 0>>>> /\ PlainValues(field.type) = Seq(Seq(Byte))
      BY <1>2 DEF TypicalPlain, PlainValues
    <2>2. 200 \in Byte /\ 0 \in Byte
      BY DEF Byte
    <2>3. <<200, 0>> \in Seq(Byte) /\ <<>> \in Seq(Byte)
      BY <2>2
    <2> QED
      BY <2>1, <2>3
  <1>3. CASE field.type = "bool"
    <2>1. PlainValues(field.type) = BOOLEAN
      BY <1>3 DEF PlainValues
    <2>2. TypicalPlain(field) = TRUE
      BY <1>3 DEF TypicalPlain
    <2> QED
      BY <2>1, <2>2
  <1>4. CASE field.type = "packed"
    <2>1. TypicalPlain(field) = <<1, 300>> /\ PlainValues(field.type) = Seq(Word)
      BY <1>4 DEF TypicalPlain, PlainValues
    <2>2. 1 \in Word /\ 300 \in Word
      <3>1. 1 \in 0..300 /\ 300 \in 0..300
        OBVIOUS
      <3> QED
        BY <3>1, SmallWords
    <2> QED
      BY <2>1, <2>2
  <1>5. CASE field.type \in {"uint64", "uint32"}
    <2>1. TypicalPlain(field) = 1 /\ PlainValues(field.type) \in {Word, Half}
      BY <1>5 DEF TypicalPlain, PlainValues
    <2>2. 1 \in Word /\ 1 \in Half
      <3>1. 1 \in 0..300 /\ 1 \in 0..128
        OBVIOUS
      <3> QED
        BY <3>1, SmallWords
    <2> QED
      BY <2>1, <2>2
  <1> QED
    BY <1>1, <1>2, <1>3, <1>4, <1>5 DEF PlainTypes

(* A plain message with every field set. *)
LEMMA FullPlainIs ==
    ASSUME NEW table, Distinct(table), PlainTable(table)
    PROVE  FullPlain(table) \in PlainMessages(table)
  <1>1. PICK m : m = FullPlain(table)
    OBVIOUS
  <1>2. m = [k \in Names(table) |-> m[k]]
    BY <1>1 DEF FullPlain
  <1>3. \A i \in DOMAIN table : m[table[i].name] = TypicalPlain(table[i])
    BY <1>1, FieldNamedIs DEF FullPlain
  <1>4. PlainFields(table, m)
    BY <1>2, <1>3, TypicalPlainIs DEF PlainFields, PlainTable
  <1> QED
    BY <1>1, <1>4, PlainMessagesAre

(* The typical and the unusual values of any field are values. *)
LEMMA TypicalIs ==
    ASSUME NEW field, WellTyped(field)
    PROVE  Typical(field) \in Values(field)
  <1>1. CASE field.type \in PlainTypes
    <2>1. Typical(field) = TypicalPlain(field)
      BY <1>1 DEF Typical, PlainTypes
    <2> QED
      BY <1>1, <2>1, TypicalPlainIs, PlainFieldIs
  <1>2. CASE field.type \notin PlainTypes
    <2>1. PICK table, S, a, b : /\ table = field.table /\ S = PlainMessages(table)
                                /\ a = FullPlain(table) /\ b = EmptyMessage(table)
      OBVIOUS
    <2>2. field.type \in EmbeddedTypes /\ PlainTable(table) /\ Distinct(table)
      BY <1>2, <2>1 DEF WellTyped
    <2>3. a \in S /\ b \in S
      BY <2>1, <2>2, FullPlainIs, PlainEmpty
    <2>4. CASE field.type = "pointer"
      <3>1. Typical(field) = <<a>>
        BY <2>1, <2>4 DEF Typical
      <3>2. Values(field) = {v \in Seq(S) : Len(v) <= 1}
        BY <2>1, <2>4 DEF Values
      <3>3. <<a>> \in Seq(S) /\ Len(<<a>>) <= 1
        BY <2>3
      <3> QED
        BY <3>1, <3>2, <3>3
    <2>5. CASE field.type = "messageList"
      <3>1. Typical(field) = <<b, a>>
        BY <2>1, <2>5 DEF Typical
      <3>2. Values(field) = Seq(S)
        BY <2>1, <2>5 DEF Values
      <3>3. <<b, a>> \in Seq(S)
        BY <2>3
      <3> QED
        BY <3>1, <3>2, <3>3
    <2> QED
      BY <2>2, <2>4, <2>5 DEF EmbeddedTypes
  <1> QED
    BY <1>1, <1>2

LEMMA UnusualIs ==
    ASSUME NEW field, WellTyped(field), Long \in Seq(Byte), NEW v \in Unusual(field)
    PROVE  v \in Values(field)
  <1>1. CASE field.type = "bytes"
    <2>1. Unusual(field) = {Long} /\ Values(field) = Seq(Byte)
      BY <1>1 DEF Unusual, Values, PlainValues
    <2> QED
      BY <2>1
  <1>2. CASE field.type = "uint64"
    <2>1. Unusual(field) = {128, TwoTo[WordBits] - 1} /\ Values(field) = Word
      BY <1>2 DEF Unusual, Values, PlainValues
    <2>2. 128 \in 0..300
      OBVIOUS
    <2> QED
      BY <2>1, <2>2, SmallWords
  <1>3. CASE field.type = "uint32"
    <2>1. Unusual(field) = {128, TwoTo[HalfBits] - 1} /\ Values(field) = Half
      BY <1>3 DEF Unusual, Values, PlainValues
    <2>2. 128 \in 0..128
      OBVIOUS
    <2> QED
      BY <2>1, <2>2, SmallWords
  <1>4. CASE field.type = "packed"
    <2>1. Unusual(field) = {<<0>>} /\ Values(field) = Seq(Word)
      BY <1>4 DEF Unusual, Values, PlainValues
    <2>2. 0 \in 0..300
      OBVIOUS
    <2>3. 0 \in Word
      BY <2>2, SmallWords
    <2>4. <<0>> \in Seq(Word)
      BY <2>3
    <2> QED
      BY <2>1, <2>4
  <1>5. CASE field.type = "pointer"
    <2>1. PICK table, S, b : /\ table = field.table /\ S = PlainMessages(table)
                             /\ b = EmptyMessage(table)
      OBVIOUS
    <2>2. PlainTable(table) /\ Distinct(table)
      BY <1>5, <2>1 DEF WellTyped, PlainTypes
    <2>3. b \in S
      BY <2>1, <2>2, PlainEmpty
    <2>4. Unusual(field) = {<<b>>} /\ Values(field) = {w \in Seq(S) : Len(w) <= 1}
      BY <1>5, <2>1 DEF Unusual, Values
    <2>5. <<b>> \in Seq(S) /\ Len(<<b>>) <= 1
      BY <2>3
    <2> QED
      BY <2>4, <2>5
  <1>6. CASE field.type \notin {"bytes", "uint64", "uint32", "packed", "pointer"}
    BY <1>6 DEF Unusual
  <1> QED
    BY <1>1, <1>2, <1>3, <1>4, <1>5, <1>6

(* So every sample is a message. *)
LEMMA SamplesAreMessages ==
    ASSUME NEW table, WellFormed(table), Long \in Seq(Byte), NEW m \in Samples(table)
    PROVE  m \in Messages(table)
  <1>1. Distinct(table) /\ \A i \in DOMAIN table : WellTyped(table[i])
    BY WellFormedIs
  <1>2. PICK e : e = EmptyMessage(table) /\ e \in Messages(table)
    BY EmptyIsMessage
  <1>3. Full(table) \in Messages(table)
    <2>1. PICK f : f = Full(table)
      OBVIOUS
    <2>2. f = [k \in Names(table) |-> f[k]]
      BY <2>1 DEF Full
    <2>3. \A i \in DOMAIN table : f[table[i].name] = Typical(table[i])
      BY <1>1, <2>1, FieldNamedIs DEF Full
    <2>4. Fields(table, f)
      BY <1>1, <2>2, <2>3, TypicalIs DEF Fields
    <2> QED
      BY <2>1, <2>4, MessagesAre
  <1>4. ASSUME NEW i \in DOMAIN table, NEW v \in Values(table[i])
        PROVE  [e EXCEPT ![table[i].name] = v] \in Messages(table)
    <2>1. PICK f, name : f = [e EXCEPT ![name] = v] /\ name = table[i].name
      OBVIOUS
    <2>2. Fields(table, e) /\ name \in Names(table)
      BY <1>1, <1>2, <2>1, MessagesAre, FieldNamedIs
    <2>3. f = [k \in Names(table) |-> IF k = name THEN v ELSE e[k]]
      BY <2>1, <2>2 DEF Fields
    <2>4. \A j \in DOMAIN table : f[table[j].name] \in Values(table[j])
      <3> TAKE j \in DOMAIN table
      <3>1. table[j].name \in Names(table) /\ e[table[j].name] \in Values(table[j])
        BY <1>1, <2>2, FieldNamedIs DEF Fields
      <3>2. CASE j = i
        BY <2>1, <2>3, <3>1, <3>2
      <3>3. CASE j # i
        <4>1. table[j].name # name
          BY <1>1, <2>1, <3>3 DEF Distinct
        <4> QED
          BY <2>3, <3>1, <4>1
      <3> QED
        BY <3>2, <3>3
    <2>5. Fields(table, f)
      BY <2>3, <2>4 DEF Fields
    <2> QED
      BY <2>1, <2>5, MessagesAre
  <1>5. CASE m \in {EmptyMessage(table), Full(table)}
    BY <1>2, <1>3, <1>5
  <1>6. CASE m \notin {EmptyMessage(table), Full(table)}
    <2>1. PICK i \in DOMAIN table : \E v \in {Typical(table[i])} \cup Unusual(table[i]) :
                                       m = [EmptyMessage(table) EXCEPT ![table[i].name] = v]
      BY <1>6 DEF Samples
    <2>2. PICK v \in {Typical(table[i])} \cup Unusual(table[i]) :
                                       m = [e EXCEPT ![table[i].name] = v]
      BY <1>2, <2>1
    <2>3. v \in Values(table[i])
      BY <1>1, <2>2, TypicalIs, UnusualIs
    <2> QED
      BY <1>4, <2>2, <2>3
  <1> QED
    BY <1>5, <1>6

(* What is sent can be read, twice over and with an entry more. *)
LEMMA SampleFacts ==
    ASSUME NEW k \in Kinds, NEW table, table = TableOf(k), NEW m \in Samples(table),
           NEW list, list = EntriesOf(k, m), NEW s, s = FlattenSeq(list)
    PROVE  /\ WellFormed(table) /\ m \in Messages(table) /\ list = Entries(table, m)
           /\ Guarded(table, list) /\ list \in Seq(Seq(Byte))
           /\ s \in Seq(Byte) /\ Len(s) \in Nat /\ Fits(s)
           /\ 2 * Len(s) + 9 < TwoTo[WordBits - 1]
           /\ Marshal(list, SizeOf(k, m)) = Read(s, Len(s))
  <1>1. k \in MessageTypes
    BY KindsAssumption
  <1>2. KindIs(k)
    BY <1>1, KindCodes
  <1>3. WellFormed(table) /\ \A y \in Messages(table) : Codes(table, y, EntriesOf(k, y), SizeOf(k, y))
    BY <1>2 DEF KindIs
  <1>4. Long \in Seq(Byte)
    BY BytesAssumption DEF Byte
  <1>5. m \in Messages(table)
    BY <1>3, <1>4, SamplesAreMessages
  <1>6. Codes(table, m, list, SizeOf(k, m))
    BY <1>3, <1>5
  <1>7. list = Entries(table, m)
    BY <1>6 DEF Codes
  <1>8. Guarded(table, list)
    BY <1>3, <1>5, <1>7, FullScript
  <1>9. list \in Seq(Seq(Byte))
    BY <1>8 DEF Guarded
  <1>10. s \in Seq(Byte)
    BY <1>9, FlattenIsSeq
  <1>11. 2 * Len(s) + 9 < TwoTo[WordBits - 1]
    BY LengthAssumption
  <1>12. PICK n, t : n = Len(s) /\ t = TwoTo[WordBits - 1]
    OBVIOUS
  <1>13. n \in Nat /\ t \in Nat /\ n < t
    BY <1>10, <1>11, <1>12, LenIsNat, WordFacts
  <1>14. Fits(s)
    BY <1>10, <1>12, <1>13 DEF Fits
  <1>15. SizeOf(k, m) = Len(s)
    BY <1>6, <1>14 DEF Codes
  <1>16. Marshal(list, SizeOf(k, m)) = Read(s, Len(s))
    BY <1>9, <1>15, MarshalFills
  <1> QED
    BY <1>3, <1>5, <1>7, <1>8, <1>9, <1>10, <1>11, <1>12, <1>13, <1>14, <1>16

(* A reader between two entries of a string, from a message x towards y. *)
OnTrack(table, list, x, y, s, p, m, st) ==
    /\ list \in Seq(Seq(Byte)) /\ Fits(s)
    /\ \E f, join, n :
          /\ n \in 0..Len(list) /\ Steps(table, list, x, y, f)
          /\ IsJoin(join, Byte, list) /\ s = join[Len(list)]
          /\ p = Len(join[n]) /\ m = f[n]
          /\ st \in {"reading", "done"} /\ (st = "done" => n = Len(list))

(* The reader of a script starts on its track. *)
LEMMA TrackStarts ==
    ASSUME NEW table, NEW list, NEW x, NEW y, Script(table, list, x, y),
           NEW s, s = FlattenSeq(list), Fits(s)
    PROVE  OnTrack(table, list, x, y, s, 0, x, "reading")
  <1>1. list \in Seq(Seq(Byte))
    BY DEF Script
  <1>2. PICK f : Steps(table, list, x, y, f)
    BY DEF Script
  <1>3. PICK join : IsJoin(join, Byte, list) /\ s = join[Len(list)]
    BY <1>1, JoinExists
  <1>4. 0 \in 0..Len(list) /\ Len(join[0]) = 0 /\ f[0] = x
    <2>1. Len(list) \in Nat
      BY <1>1, LenIsNat
    <2> QED
      BY <1>2, <1>3, <2>1 DEF IsJoin, Steps
  <1> QED
    BY <1>1, <1>2, <1>3, <1>4 DEF OnTrack

(* The places of the entries in a string that begins as they do. *)
LEMMA TrackTurn ==
    ASSUME NEW table, NEW list \in Seq(Seq(Byte)), NEW x, NEW y, NEW f, Steps(table, list, x, y, f),
           NEW join, IsJoin(join, Byte, list), NEW s, Fits(s), NEW n \in 1..Len(list),
           At(s, Len(join[n - 1]), list[n])
    PROVE  ReadField(table, s, Len(join[n - 1]), f[n - 1]) = Read(f[n], Len(join[n]))
  <1>1. PICK e, p : e = list[n] /\ p = join[n - 1]
    OBVIOUS
  <1>2. n - 1 \in 0..Len(list) /\ n \in Nat
    BY LenIsNat
  <1>3. e \in Seq(Byte) /\ p \in Seq(Byte) /\ join[n] = p \o e
    <2>1. e \in Seq(Byte)
      BY <1>1
    <2>2. p \in Seq(Byte)
      BY <1>1, <1>2 DEF IsJoin
    <2>3. join[n] = p \o e
      BY <1>1 DEF IsJoin
    <2> QED
      BY <2>1, <2>2, <2>3
  <1>4. Len(p) \in Nat /\ Len(join[n]) = Len(p) + Len(e)
    BY <1>3, LenIsNat, JoinFacts
  <1>5. Takes(table, e, f[n - 1], f[n])
    BY <1>1 DEF Steps
  <1> QED
    BY <1>1, <1>4, <1>5 DEF Takes

(* A turn takes it to the next entry. *)
LEMMA TrackReads ==
    ASSUME NEW table, NEW list, NEW x, NEW y, NEW s, NEW p, NEW m,
           OnTrack(table, list, x, y, s, p, m, "reading"), p < Len(s),
           NEW turn, turn = ReadField(table, s, p, m)
    PROVE  turn.ok /\ OnTrack(table, list, x, y, s, turn.next, turn.value, "reading")
  <1>1. list \in Seq(Seq(Byte)) /\ Fits(s) /\ s \in Seq(Byte)
    BY DEF OnTrack, Fits
  <1>2. PICK f, join, n :
          /\ n \in 0..Len(list) /\ Steps(table, list, x, y, f)
          /\ IsJoin(join, Byte, list) /\ s = join[Len(list)]
          /\ p = Len(join[n]) /\ m = f[n]
    BY DEF OnTrack
  <1>3. PICK l : l = Len(list) /\ l \in Nat
    BY <1>1, LenIsNat
  <1>4. Len(s) \in Nat /\ n # l
    BY <1>1, <1>2, <1>3, LenIsNat
  <1>5. n + 1 \in 1..l /\ (n + 1) - 1 = n /\ n + 1 \in 0..l
    <2>1. n \in 0..l
      BY <1>2, <1>3
    <2> QED
      BY <1>3, <1>4, <2>1
  <1>6. At(s, 0, join[l]) /\ 0 \in Nat
    <2>1. 0 + Len(s) = Len(s) /\ \A i \in 1..Len(s) : 0 + i = i
      BY <1>4
    <2>2. At(s, 0, s)
      BY <1>4, <2>1 DEF At
    <2> QED
      BY <1>2, <1>3, <2>2
  <1>7. At(s, Len(join[n]), list[n + 1])
    <2>1. \A i \in 1..l : At(s, 0 + Len(join[i - 1]), list[i])
      BY <1>1, <1>2, <1>3, <1>6, JoinAt
    <2>2. At(s, 0 + Len(join[n]), list[n + 1])
      BY <1>5, <2>1
    <2>3. join[n] \in Seq(Byte)
      BY <1>2 DEF IsJoin
    <2>4. 0 + Len(join[n]) = Len(join[n])
      BY <2>3, LenIsNat
    <2> QED
      BY <2>2, <2>4
  <1>8. turn = Read(f[n + 1], Len(join[n + 1]))
    <2>1. ReadField(table, s, Len(join[n]), f[n]) = Read(f[n + 1], Len(join[n + 1]))
      <3>1. PICK k : k = n + 1
        OBVIOUS
      <3>2. k \in 1..Len(list) /\ k - 1 = n /\ At(s, Len(join[k - 1]), list[k])
        BY <1>3, <1>5, <1>7, <3>1
      <3>3. ReadField(table, s, Len(join[k - 1]), f[k - 1]) = Read(f[k], Len(join[k]))
        BY <1>1, <1>2, <3>2, TrackTurn
      <3> QED
        BY <3>1, <3>2, <3>3
    <2> QED
      BY <1>2, <2>1
  <1>9. turn.ok /\ turn.value = f[n + 1] /\ turn.next = Len(join[n + 1])
    BY <1>8 DEF Read
  <1> QED
    BY <1>1, <1>2, <1>3, <1>5, <1>9 DEF OnTrack

(* Finish finds it at the end. *)
LEMMA TrackEnds ==
    ASSUME NEW table, NEW list, NEW x, NEW y, NEW s, NEW p, NEW m,
           OnTrack(table, list, x, y, s, p, m, "reading"), p >= Len(s)
    PROVE  p = Len(s) /\ OnTrack(table, list, x, y, s, p, m, "done")
  <1>1. list \in Seq(Seq(Byte)) /\ Fits(s) /\ s \in Seq(Byte)
    BY DEF OnTrack, Fits
  <1>2. PICK f, join, n :
          /\ n \in 0..Len(list) /\ Steps(table, list, x, y, f)
          /\ IsJoin(join, Byte, list) /\ s = join[Len(list)]
          /\ p = Len(join[n]) /\ m = f[n]
    BY DEF OnTrack
  <1>3. PICK l : l = Len(list) /\ l \in Nat /\ l \in 0..l
    BY <1>1, LenIsNat
  <1>4. \A i \in 1..l : Len(list[i]) > 0
    BY <1>2, <1>3 DEF Steps, Takes
  <1>5. \A i, j \in 0..l : /\ Len(join[i]) \in Nat
                           /\ i <= j => Len(join[j]) >= Len(join[i]) + (j - i)
    BY <1>1, <1>2, <1>3, <1>4, JoinGrows
  <1>6. PICK a : a = Len(s) /\ a \in Nat
    BY <1>1, LenIsNat
  <1>7. p \in Nat /\ a >= p + (l - n) /\ p >= a
    <2>1. n \in 0..l /\ n <= l
      BY <1>2, <1>3
    <2>2. Len(join[n]) \in Nat /\ Len(join[l]) >= Len(join[n]) + (l - n)
      BY <1>3, <1>5, <2>1
    <2> QED
      BY <1>2, <1>3, <1>6, <2>2
  <1>8. n = l
    <2>1. n \in 0..l
      BY <1>2, <1>3
    <2> QED
      BY <1>3, <1>7, <1>6, <2>1
  <1>9. p = Len(s)
    BY <1>6, <1>7, <1>8, <1>3
  <1> QED
    BY <1>1, <1>2, <1>3, <1>8, <1>9 DEF OnTrack

(* At the end, it has read the message that the script writes. *)
LEMMA TrackLeads ==
    ASSUME NEW table, NEW list, NEW x, NEW y, NEW s, NEW p, NEW m, NEW st,
           OnTrack(table, list, x, y, s, p, m, st)
    PROVE  st \in {"reading", "done"} /\ (st = "done" => m = y)
  BY DEF OnTrack, Steps

(* A reader between two entries of a string that was cut. *)
OnCutTrack(table, list, s, p, m, st) ==
    /\ Guarded(table, list) /\ Fits(s) /\ Fits(FlattenSeq(list))
    /\ \E f, join, n, x, y :
          /\ n \in 0..Len(list) /\ Steps(table, list, x, y, f)
          /\ IsJoin(join, Byte, list)
          /\ Len(s) <= Len(join[Len(list)]) /\ \A i \in 1..Len(s) : s[i] = join[Len(list)][i]
          /\ p = Len(join[n]) /\ m = f[n] /\ p <= Len(s)
          /\ st = "done" => p = Len(s)

(* The first n bytes of what some entries are. *)
CutOf(table, list, x, y, n, s) ==
    /\ Script(table, list, x, y) /\ Guarded(table, list) /\ Fits(FlattenSeq(list))
    /\ n \in 0..Len(FlattenSeq(list)) /\ s = SubSeq(FlattenSeq(list), 1, n)

(* The reader of a string that was cut starts on its track. *)
LEMMA CutStarts ==
    ASSUME NEW table, NEW list, NEW x, NEW y, NEW n, NEW s, CutOf(table, list, x, y, n, s)
    PROVE  s \in Seq(Byte) /\ Len(s) = n /\ OnCutTrack(table, list, s, 0, x, "reading")
  <1>0. PICK whole : whole = FlattenSeq(list)
    OBVIOUS
  <1>10. /\ Script(table, list, x, y) /\ Guarded(table, list) /\ Fits(whole)
        /\ n \in 0..Len(whole) /\ s = SubSeq(whole, 1, n)
    BY <1>0 DEF CutOf
  <1>1. list \in Seq(Seq(Byte)) /\ whole \in Seq(Byte)
    BY <1>10 DEF Script, Fits
  <1>2. PICK f : Steps(table, list, x, y, f)
    BY <1>10 DEF Script
  <1>3. PICK join : IsJoin(join, Byte, list) /\ whole = join[Len(list)]
    BY <1>0, <1>1, JoinExists
  <1>4. PICK l : l = Len(whole) /\ l \in Nat
    BY <1>1, LenIsNat
  <1>5. n \in Nat /\ n <= l
    BY <1>4, <1>10
  <1>6. s \in Seq(Byte) /\ Len(s) = n /\ \A i \in 1..n : s[i] = whole[i]
    BY <1>1, <1>4, <1>5, <1>10
  <1>7. Fits(s)
    BY <1>4, <1>5, <1>6, <1>10, ShorterFits
  <1>8. 0 \in 0..Len(list) /\ Len(join[0]) = 0 /\ f[0] = x
    <2>1. Len(list) \in Nat
      BY <1>1, LenIsNat
    <2> QED
      BY <1>2, <1>3, <2>1 DEF IsJoin, Steps
  <1>9. 0 <= Len(s) /\ Len(s) <= Len(join[Len(list)]) /\ \A i \in 1..Len(s) : s[i] = join[Len(list)][i]
    BY <1>3, <1>4, <1>5, <1>6
  <1> QED
    BY <1>0, <1>10, <1>2, <1>3, <1>6, <1>7, <1>8, <1>9 DEF OnCutTrack

(* An entry of the whole string is still there, or is the one that was cut. *)
LEMMA WholeOrBroken ==
    ASSUME NEW s \in Seq(Byte), NEW whole \in Seq(Byte), Len(s) <= Len(whole),
           \A i \in 1..Len(s) : s[i] = whole[i], NEW p \in Nat, p < Len(s),
           NEW e \in Seq(Byte), At(whole, p, e)
    PROVE  At(s, p, e) \/ Broken(s, p, e)
  <1>1. PICK a, b, l : a = Len(s) /\ b = Len(whole) /\ l = Len(e)
    OBVIOUS
  <1>2. a \in Nat /\ b \in Nat /\ l \in Nat /\ a <= b /\ p < a
    BY <1>1
  <1>3. p + l <= b /\ \A i \in 1..l : whole[p + i] = e[i]
    BY <1>1 DEF At
  <1>4. \A i \in 1..a : s[i] = whole[i]
    BY <1>1
  <1>5. CASE p + l <= a
    <2>1. \A i \in 1..l : s[p + i] = e[i]
      <3> TAKE i \in 1..l
      <3>1. p + i \in 1..a
        BY <1>2, <1>5
      <3> QED
        BY <1>3, <1>4, <3>1
    <2> QED
      BY <1>1, <1>5, <2>1 DEF At
  <1>6. CASE ~ (p + l <= a)
    <2>1. a < p + l /\ p <= a
      BY <1>2, <1>6
    <2>2. \A i \in 1..(a - p) : s[p + i] = e[i]
      <3> TAKE i \in 1..(a - p)
      <3>1. p + i \in 1..a /\ i \in 1..l
        BY <1>2, <2>1
      <3> QED
        BY <1>3, <1>4, <3>1
    <2> QED
      BY <1>1, <2>1, <2>2 DEF Broken
  <1> QED
    BY <1>5, <1>6

(* A turn takes an entry that is there, and refuses one that is cut. *)
LEMMA CutReads ==
    ASSUME NEW table, NEW list, NEW s, NEW p, NEW m,
           OnCutTrack(table, list, s, p, m, "reading"), p < Len(s),
           NEW turn, turn = ReadField(table, s, p, m)
    PROVE  IF turn.ok THEN OnCutTrack(table, list, s, turn.next, turn.value, "reading")
           ELSE OnCutTrack(table, list, s, p, m, turn.error)
  <1>1. Fits(s) /\ s \in Seq(Byte) /\ Guarded(table, list) /\ list \in Seq(Seq(Byte))
        /\ Fits(FlattenSeq(list))
    BY DEF OnCutTrack, Fits, Guarded
  <1>2. PICK f, join, n, x, y :
          /\ n \in 0..Len(list) /\ Steps(table, list, x, y, f)
          /\ IsJoin(join, Byte, list)
          /\ Len(s) <= Len(join[Len(list)]) /\ \A i \in 1..Len(s) : s[i] = join[Len(list)][i]
          /\ p = Len(join[n]) /\ m = f[n] /\ p <= Len(s)
    BY DEF OnCutTrack
  <1>3. PICK l : l = Len(list) /\ l \in Nat /\ l \in 0..l
    BY <1>1, LenIsNat
  <1>4. PICK whole : whole = join[l] /\ whole \in Seq(Byte)
    BY <1>2, <1>3 DEF IsJoin
  <1>5. n \in 0..l /\ join[n] \in Seq(Byte) /\ p \in Nat
    BY <1>2, <1>3, LenIsNat DEF IsJoin
  <1>6. PICK a, b : a = Len(s) /\ b = Len(whole) /\ a \in Nat /\ b \in Nat
    BY <1>1, <1>4, LenIsNat
  <1>7. a <= b /\ p < a
    BY <1>2, <1>3, <1>4, <1>6
  <1>8. n # l
    BY <1>2, <1>4, <1>6, <1>7
  <1>9. PICK k : k = n + 1 /\ k \in 1..l /\ k - 1 = n /\ k \in 0..l
    BY <1>3, <1>5, <1>8
  <1>10. PICK e : e = list[k] /\ e \in Seq(Byte)
    BY <1>1, <1>3, <1>9
  <1>11. At(whole, p, e)
    <2>1. At(whole, 0, join[l]) /\ 0 \in Nat
      <3>1. 0 + b = b /\ \A i \in 1..b : 0 + i = i
        BY <1>6
      <3> QED
        BY <1>4, <1>6, <3>1 DEF At
    <2>2. \A i \in 1..l : At(whole, 0 + Len(join[i - 1]), list[i])
      BY <1>1, <1>2, <1>3, <1>4, <2>1, JoinAt
    <2>3. At(whole, 0 + Len(join[k - 1]), list[k])
      BY <1>9, <2>2
    <2>4. 0 + Len(join[k - 1]) = p
      BY <1>2, <1>5, <1>9
    <2> QED
      BY <1>10, <2>3, <2>4
  <1>12. At(s, p, e) \/ Broken(s, p, e)
    <2>1. Len(s) <= Len(whole) /\ \A i \in 1..Len(s) : s[i] = whole[i]
      BY <1>2, <1>3, <1>4
    <2>2. p < Len(s)
      OBVIOUS
    <2> QED
      BY <1>1, <1>4, <1>5, <1>10, <1>11, <2>1, <2>2, WholeOrBroken
  <1>13. CASE At(s, p, e)
    <2>1. At(s, Len(join[k - 1]), list[k]) /\ k \in 1..Len(list)
      BY <1>2, <1>3, <1>9, <1>10, <1>13
    <2>2. ReadField(table, s, Len(join[k - 1]), f[k - 1]) = Read(f[k], Len(join[k]))
      BY <1>1, <1>2, <2>1, TrackTurn
    <2>3. turn = Read(f[k], Len(join[k]))
      BY <1>2, <1>9, <2>2
    <2>4. turn.ok /\ turn.value = f[k] /\ turn.next = Len(join[k])
      BY <2>3 DEF Read
    <2>5. Len(join[k]) <= Len(s)
      <3>1. join[k] = join[k - 1] \o e
        BY <1>2, <1>3, <1>9, <1>10 DEF IsJoin
      <3>2. Len(join[k]) = p + Len(e)
        BY <1>2, <1>5, <1>9, <1>10, <3>1, JoinFacts
      <3> QED
        BY <1>13, <3>2 DEF At
    <2>6. k \in 0..Len(list)
      BY <1>3, <1>9
    <2>7. "reading" # "done"
      OBVIOUS
    <2>8. OnCutTrack(table, list, s, turn.next, turn.value, "reading")
      BY <1>1, <1>2, <2>4, <2>5, <2>6, <2>7 DEF OnCutTrack
    <2> QED
      BY <2>4, <2>8
  <1>14. CASE Broken(s, p, e)
    <2>1. FlattenSeq(list) = whole
      <3>1. PICK j : IsJoin(j, Byte, list) /\ FlattenSeq(list) = j[Len(list)]
        BY <1>1, JoinExists
      <3>2. \A i \in 1..l : list[i] = list[i]
        OBVIOUS
      <3>3. l \in Nat /\ l <= Len(list) /\ IsJoin(join, Byte, list) /\ IsJoin(j, Byte, list)
        BY <1>2, <1>3, <3>1
      <3>4. j[l] = join[l]
        BY <1>1, <3>2, <3>3, JoinsAgree
      <3> QED
        BY <1>3, <1>4, <3>1, <3>4
    <2>2. Fits(e)
      <3>1. k \in 1..Len(list)
        BY <1>3, <1>9
      <3> QED
        BY <1>1, <1>10, <3>1, PartFits
    <2>3. Refuses(table, e)
      BY <1>1, <1>3, <1>9, <1>10, <2>2 DEF Guarded
    <2>4. ~ turn.ok
      BY <1>1, <1>5, <1>14, <2>3 DEF Refuses
    <2>5. turn.error # "done"
      <3>1. Forward(turn, p, Len(s))
        BY <1>1, <1>5, ReadFieldForward
      <3> QED
        BY <2>4, <3>1 DEF Forward, Errors
    <2>6. OnCutTrack(table, list, s, p, m, turn.error)
      BY <1>1, <1>2, <2>5 DEF OnCutTrack
    <2> QED
      BY <2>4, <2>6
  <1> QED
    BY <1>12, <1>13, <1>14

(* Finish finds it at the end. *)
LEMMA CutEnds ==
    ASSUME NEW table, NEW list, NEW s, NEW p, NEW m,
           OnCutTrack(table, list, s, p, m, "reading"), p >= Len(s)
    PROVE  p = Len(s) /\ OnCutTrack(table, list, s, p, m, "done")
  <1>1. Fits(s) /\ s \in Seq(Byte) /\ Guarded(table, list) /\ list \in Seq(Seq(Byte))
        /\ Fits(FlattenSeq(list))
    BY DEF OnCutTrack, Fits, Guarded
  <1>2. PICK f, join, n, x, y :
          /\ n \in 0..Len(list) /\ Steps(table, list, x, y, f)
          /\ IsJoin(join, Byte, list)
          /\ Len(s) <= Len(join[Len(list)]) /\ \A i \in 1..Len(s) : s[i] = join[Len(list)][i]
          /\ p = Len(join[n]) /\ m = f[n] /\ p <= Len(s)
    BY DEF OnCutTrack
  <1>3. p \in Nat
    BY <1>2, LenIsNat DEF IsJoin
  <1>4. p = Len(s)
    <2>1. PICK a : a = Len(s) /\ a \in Nat
      BY <1>1, LenIsNat
    <2>2. p <= a /\ p >= a
      BY <1>2, <2>1
    <2> QED
      BY <1>3, <2>1, <2>2
  <1> QED
    BY <1>1, <1>2, <1>4 DEF OnCutTrack

(* When it is done, the cut fell between two entries. *)
LEMMA CutFalls ==
    ASSUME NEW table, NEW list, NEW s, NEW p, NEW m, OnCutTrack(table, list, s, p, m, "done")
    PROVE  Len(s) \in Boundaries(list)
  <1>1. list \in Seq(Seq(Byte))
    BY DEF OnCutTrack, Guarded
  <1>2. PICK join, n : n \in 0..Len(list) /\ IsJoin(join, Byte, list) /\ Len(s) = Len(join[n])
    BY DEF OnCutTrack
  <1>3. FlattenSeq(SubSeq(list, 1, n)) = join[n]
    BY <1>1, <1>2, FlattenPrefix
  <1> QED
    BY <1>2, <1>3 DEF Boundaries

(* Single bytes, and offsets within a string. *)
LEMMA ByteVarint ==
    ASSUME NEW t \in Seq(Byte), NEW q \in Nat, q < Len(t), NEW v \in 0..127, t[q + 1] = v
    PROVE  ReadVarint(t, q) = Read(v, q + 1)
  <1>1. Varint(v) = <<v>> /\ v \in Word /\ Len(<<v>>) = 1
    BY SmallVarint
  <1>2. Len(t) \in Nat
    BY LenIsNat
  <1>3. At(t, q, <<v>>)
    BY <1>1, <1>2 DEF At
  <1>4. ReadVarint(t, q) = Read(v, q + Len(Varint(v)))
    BY <1>1, <1>3, ReadVarintAt
  <1> QED
    BY <1>1, <1>4

(* An offset that stays within the string. *)
LEMMA AdvanceWithin ==
    ASSUME NEW t, Fits(t), NEW q \in Nat, NEW n \in Nat, q + n <= Len(t)
    PROVE  Advance(q, n) = Read(n, q + n)
  <1>1. PICK l, w : l = Len(t) /\ w = TwoTo[WordBits - 1]
    OBVIOUS
  <1>2. l \in Nat /\ w \in Nat /\ l < w
    BY <1>1, LenIsNat, WordFacts DEF Fits
  <1>3. q + n \in Nat /\ q + n < w
    BY <1>1, <1>2
  <1>4. Signed(q + n, WordBits) = q + n
    BY <1>1, <1>3, HalfWord
  <1>5. ~ (n < 0) /\ ~ (q + n < 0)
    OBVIOUS
  <1> QED
    BY <1>4, <1>5 DEF Advance

(* A turn of skip that finds a tag of one byte. *)
LEMMA SkipTagAt ==
    ASSUME NEW t \in Seq(Byte), NEW q \in Nat, q < Len(t), NEW tag \in 0..127, t[q + 1] = tag,
           NEW depth \in Nat, NEW type, type = tag % 8, type = 4 => depth # 0,
           NEW next, SkipValue(t, type, q + 1).ok, SkipValue(t, type, q + 1).next = next
    PROVE  SkipTag(t, q, depth) = Read(DepthAfter(depth, type), next)
  <1>1. PICK r, past : r = ReadVarint(t, q) /\ past = SkipValue(t, r.value % 8, r.next)
    OBVIOUS
  <1>2. r = Read(tag, q + 1)
    BY <1>1, ByteVarint
  <1>3. r.ok /\ r.value = tag /\ r.next = q + 1
    BY <1>2 DEF Read
  <1>4. past.ok /\ past.next = next
    BY <1>1, <1>3
  <1>5. ~ (q >= Len(t))
    BY LenIsNat
  <1>6. SkipTag(t, q, depth)
          = IF r.ok THEN IF r.value % 8 = 4 /\ depth = 0 THEN Fail("group")
                         ELSE IF past.ok THEN Read(DepthAfter(depth, r.value % 8), past.next)
                              ELSE past
            ELSE r
    BY <1>1, <1>5 DEF SkipTag, Then
  <1> QED
    BY <1>3, <1>4, <1>6

(* The turns of skip over one entry: f says where each of them gets to. *)
SkipsTo(t, f, l) ==
    /\ l \in 0..Len(t)
    /\ SkipTag(t, 0, 0) = f[0]
    /\ \A k \in 1..l : SkipTag(t, f[k - 1].next, f[k - 1].value) = f[k]
    /\ \A k \in 0..(l - 1) : f[k].ok /\ f[k].value # 0
    /\ f[l].ok /\ f[l].value = 0

(* Skip ends with the tag at which no group is open. *)
LEMMA SkipFollows ==
    ASSUME NEW t \in Seq(Byte), NEW f, NEW l, SkipsTo(t, f, l)
    PROVE  Skip(t) = f[l]
  <1>1. PICK n : n = Len(t) /\ n \in Nat
    BY LenIsNat
  <1>2. PICK h : /\ IsSkip(h, t, n)
                 /\ Skip(t) = h[CHOOSE k \in 0..n : h[k].ok => h[k].value = 0]
    BY <1>1, SkipIsLast
  <1>3. l \in 0..n /\ l \in Nat /\ l <= n
    BY <1>1 DEF SkipsTo
  <1>4. h[0] = f[0]
    BY <1>1, <1>2 DEF IsSkip, SkipsTo
  <1>5. ASSUME NEW k \in 1..l, h[k - 1] = f[k - 1] PROVE h[k] = f[k]
    <2>1. k \in 0..n /\ k # 0 /\ k - 1 \in 0..(l - 1)
      BY <1>1, <1>3
    <2>2. h[k] = SkipTurn(t, h[k - 1])
      BY <1>2, <2>1 DEF IsSkip
    <2>3. f[k - 1].ok /\ f[k - 1].value # 0
      BY <2>1 DEF SkipsTo
    <2>4. SkipTag(t, f[k - 1].next, f[k - 1].value) = f[k]
      BY DEF SkipsTo
    <2> QED
      BY <1>5, <2>2, <2>3, <2>4 DEF SkipTurn
  <1>6. ASSUME NEW k \in 1..n, l < k, h[k - 1] = f[l] PROVE h[k] = f[l]
    <2>1. k \in 0..n /\ k # 0
      BY <1>1
    <2>2. h[k] = SkipTurn(t, h[k - 1])
      BY <1>2, <2>1 DEF IsSkip
    <2>3. f[l].ok /\ f[l].value = 0
      BY DEF SkipsTo
    <2> QED
      BY <1>6, <2>2, <2>3 DEF SkipTurn
  <1>7. Follows(h, f, l, n)
    BY <1>1, <1>3, <1>4, <1>5, <1>6 DEF Follows
  <1>8. /\ \A k \in 0..l : h[k] = f[k]
        /\ \A k \in 0..n : l <= k => h[k] = f[l]
    BY <1>7, LoopFollows
  <1>9. l \in 0..n /\ (h[l].ok => h[l].value = 0)
    <2>1. l \in 0..l
      BY <1>3
    <2> QED
      BY <1>3, <1>8, <2>1 DEF SkipsTo
  <1>10. PICK k \in 0..n : /\ k = CHOOSE j \in 0..n : h[j].ok => h[j].value = 0
                           /\ h[k].ok => h[k].value = 0
    BY <1>9
  <1>11. l <= k
    <2>1. SUFFICES ASSUME ~ (l <= k) PROVE FALSE
      OBVIOUS
    <2>2. k \in 0..(l - 1) /\ k \in 0..l
      BY <1>1, <1>3, <2>1
    <2>3. h[k] = f[k] /\ f[k].ok /\ f[k].value # 0
      BY <1>8, <2>2 DEF SkipsTo
    <2> QED
      BY <1>10, <2>3
  <1> QED
    BY <1>2, <1>8, <1>10, <1>11

(* Skip over an entry that is not a group. *)
LEMMA SkipOne ==
    ASSUME NEW t \in Seq(Byte), NEW next, SkipTag(t, 0, 0) = Read(0, next)
    PROVE  Skip(t) = Read(0, next)
  <1>1. PICK f : f = [k \in {0} |-> Read(0, next)]
    OBVIOUS
  <1>2. f[0] = Read(0, next) /\ f[0].ok /\ f[0].value = 0
    BY <1>1 DEF Read
  <1>3. 0 \in 0..Len(t)
    BY LenIsNat
  <1>4. SkipsTo(t, f, 0)
    BY <1>2, <1>3 DEF SkipsTo
  <1> QED
    BY <1>2, <1>4, SkipFollows

(* An entry that skip steps over. *)
Skips(u) ==
    /\ u \in Seq(Byte) /\ Len(u) \in 1..9 /\ u[1] \in 120..127 /\ u[1] # 124
    /\ \A t : Fits(t) /\ At(t, 0, u) => Skip(t) = Read(0, Len(u))

(* The bytes of an entry at the beginning of a string. *)
LEMMA Beginning ==
    ASSUME NEW t, Fits(t), NEW u, At(t, 0, u), Len(u) \in Nat
    PROVE  /\ t \in Seq(Byte) /\ Len(t) \in Nat /\ Len(u) <= Len(t)
           /\ \A i \in 1..Len(u) : t[i] = u[i]
  <1>1. t \in Seq(Byte) /\ Len(t) \in Nat
    BY LenIsNat DEF Fits
  <1>2. 0 + Len(u) <= Len(t) /\ \A i \in 1..Len(u) : t[0 + i] = u[i]
    BY DEF At
  <1>3. 0 + Len(u) = Len(u) /\ \A i \in 1..Len(u) : 0 + i = i
    OBVIOUS
  <1> QED
    BY <1>1, <1>2, <1>3

(* A varint is skipped. *)
LEMMA SkipVarintEntry == Skips(<<120, 172, 2>>)
  <1>1. PICK u : u = <<120, 172, 2>>
    OBVIOUS
  <1>2. u \in Seq(Byte) /\ Len(u) = 3 /\ u[1] = 120 /\ u[2] = 172 /\ u[3] = 2
    <2>1. 120 \in Byte /\ 172 \in Byte /\ 2 \in Byte
      BY DEF Byte
    <2> QED
      BY <1>1, <2>1
  <1>3. ASSUME NEW t, Fits(t), At(t, 0, u) PROVE Skip(t) = Read(0, 3)
    <2>1. t \in Seq(Byte) /\ Len(t) \in Nat /\ 3 <= Len(t) /\ t[1] = 120 /\ t[2] = 172 /\ t[3] = 2
      <3>0. Len(u) \in Nat
        BY <1>2
      <3>3. /\ t \in Seq(Byte) /\ Len(t) \in Nat /\ Len(u) <= Len(t)
            /\ \A i \in 1..Len(u) : t[i] = u[i]
        BY <1>3, <3>0, Beginning
      <3>1. t \in Seq(Byte) /\ Len(t) \in Nat /\ 3 <= Len(t) /\ \A i \in 1..3 : t[i] = u[i]
        BY <1>2, <3>3
      <3>2. 1 \in 1..3 /\ 2 \in 1..3 /\ 3 \in 1..3
        OBVIOUS
      <3> QED
        BY <1>2, <3>1, <3>2
    <2>2. Varint(300) = <<172, 2>>
      <3>1. Varint(300) = <<(300 % 128) + 128>> \o Varint(300 \div 128)
        BY VarintEquation
      <3>2. (300 % 128) + 128 = 172 /\ 300 \div 128 = 2
        OBVIOUS
      <3>3. Varint(2) = <<2>>
        BY SmallVarint
      <3>4. Varint(300) = <<172>> \o <<2>>
        BY <3>1, <3>2, <3>3
      <3> QED
        BY <3>4
    <2>3. At(t, 1, Varint(300))
      <3>0. PICK e : e = <<172, 2>>
        OBVIOUS
      <3>1. e = <<172, 2>> /\ Len(e) = 2 /\ e[1] = 172 /\ e[2] = 2
        BY <3>0
      <3>2. 1 + 2 <= Len(t) /\ \A i \in 1..2 : t[1 + i] = e[i]
        <4>1. \A i \in 1..2 : i = 1 \/ i = 2
          OBVIOUS
        <4> QED
          BY <2>1, <3>1, <4>1
      <3> QED
        BY <2>2, <3>1, <3>2 DEF At
    <2>4. 300 \in Word
      <3>1. 300 \in 0..300
        OBVIOUS
      <3> QED
        BY <3>1, SmallWords
    <2>5. ReadVarint(t, 1) = Read(300, 1 + Len(Varint(300)))
      BY <2>1, <2>3, <2>4, ReadVarintAt
    <2>6. Len(Varint(300)) = 2
      BY <2>2
    <2>7. PICK r : r = SkipValue(t, 0, 1)
      OBVIOUS
    <2>8. r.ok /\ r.next = 3
      <3>0. r = ReadVarint(t, 1)
        BY <2>7 DEF SkipValue
      <3>1. r = Read(300, 1 + 2)
        BY <2>5, <2>6, <3>0
      <3> QED
        BY <3>1 DEF Read
    <2>9. SkipTag(t, 0, 0) = Read(DepthAfter(0, 0), 3)
      <3>1. 120 \in 0..127 /\ 0 = 120 % 8 /\ 0 < Len(t) /\ t[0 + 1] = 120 /\ 0 + 1 = 1
        BY <2>1
      <3> QED
        BY <2>1, <2>7, <2>8, <3>1, SkipTagAt
    <2>10. DepthAfter(0, 0) = 0
      BY DEF DepthAfter
    <2> QED
      BY <2>1, <2>9, <2>10, SkipOne
  <1>4. 3 \in 1..9 /\ 120 \in 120..127 /\ 120 # 124
    OBVIOUS
  <1>5. Skips(u)
    BY <1>2, <1>3, <1>4 DEF Skips
  <1> QED
    BY <1>1, <1>5

(* So are eight bytes. *)
LEMMA SkipFixed64Entry == Skips(<<121, 1, 2, 3, 4, 5, 6, 7, 8>>)
  <1>1. PICK u : u = <<121, 1, 2, 3, 4, 5, 6, 7, 8>>
    OBVIOUS
  <1>2. u \in Seq(Byte) /\ Len(u) = 9 /\ u[1] = 121
    <2>1. 121 \in Byte /\ \A b \in 1..8 : b \in Byte
      BY DEF Byte
    <2> QED
      BY <1>1, <2>1
  <1>3. ASSUME NEW t, Fits(t), At(t, 0, u) PROVE Skip(t) = Read(0, 9)
    <2>1. t \in Seq(Byte) /\ Len(t) \in Nat /\ 9 <= Len(t) /\ t[1] = 121
      <3>0. Len(u) \in Nat
        BY <1>2
      <3>3. /\ t \in Seq(Byte) /\ Len(t) \in Nat /\ Len(u) <= Len(t)
            /\ \A i \in 1..Len(u) : t[i] = u[i]
        BY <1>3, <3>0, Beginning
      <3>1. t \in Seq(Byte) /\ Len(t) \in Nat /\ 9 <= Len(t) /\ \A i \in 1..9 : t[i] = u[i]
        BY <1>2, <3>3
      <3>2. 1 \in 1..9
        OBVIOUS
      <3> QED
        BY <1>2, <3>1, <3>2
    <2>2. Advance(1, 8) = Read(8, 1 + 8)
      BY <1>3, <2>1, AdvanceWithin
    <2>7. PICK r : r = SkipValue(t, 1, 1)
      OBVIOUS
    <2>8. r.ok /\ r.next = 9
      <3>1. r = Read(8, 1 + 8)
        BY <2>2, <2>7 DEF SkipValue
      <3> QED
        BY <3>1 DEF Read
    <2>9. SkipTag(t, 0, 0) = Read(DepthAfter(0, 1), 9)
      <3>1. 121 \in 0..127 /\ 1 = 121 % 8 /\ 0 < Len(t) /\ t[0 + 1] = 121 /\ 0 + 1 = 1
        BY <2>1
      <3> QED
        BY <2>1, <2>7, <2>8, <3>1, SkipTagAt
    <2>10. DepthAfter(0, 1) = 0
      BY DEF DepthAfter
    <2> QED
      BY <2>1, <2>9, <2>10, SkipOne
  <1>4. 9 \in 1..9 /\ 121 \in 120..127 /\ 121 # 124
    OBVIOUS
  <1>5. Skips(u)
    BY <1>2, <1>3, <1>4 DEF Skips
  <1> QED
    BY <1>1, <1>5

(* And four. *)
LEMMA SkipFixed32Entry == Skips(<<125, 1, 2, 3, 4>>)
  <1>1. PICK u : u = <<125, 1, 2, 3, 4>>
    OBVIOUS
  <1>2. u \in Seq(Byte) /\ Len(u) = 5 /\ u[1] = 125
    <2>1. 125 \in Byte /\ \A b \in 1..4 : b \in Byte
      BY DEF Byte
    <2> QED
      BY <1>1, <2>1
  <1>3. ASSUME NEW t, Fits(t), At(t, 0, u) PROVE Skip(t) = Read(0, 5)
    <2>1. t \in Seq(Byte) /\ Len(t) \in Nat /\ 5 <= Len(t) /\ t[1] = 125
      <3>0. Len(u) \in Nat
        BY <1>2
      <3>3. /\ t \in Seq(Byte) /\ Len(t) \in Nat /\ Len(u) <= Len(t)
            /\ \A i \in 1..Len(u) : t[i] = u[i]
        BY <1>3, <3>0, Beginning
      <3>1. t \in Seq(Byte) /\ Len(t) \in Nat /\ 5 <= Len(t) /\ \A i \in 1..5 : t[i] = u[i]
        BY <1>2, <3>3
      <3>2. 1 \in 1..5
        OBVIOUS
      <3> QED
        BY <1>2, <3>1, <3>2
    <2>2. Advance(1, 4) = Read(4, 1 + 4)
      BY <1>3, <2>1, AdvanceWithin
    <2>7. PICK r : r = SkipValue(t, 5, 1)
      OBVIOUS
    <2>8. r.ok /\ r.next = 5
      <3>1. r = Read(4, 1 + 4)
        BY <2>2, <2>7 DEF SkipValue
      <3> QED
        BY <3>1 DEF Read
    <2>9. SkipTag(t, 0, 0) = Read(DepthAfter(0, 5), 5)
      <3>1. 125 \in 0..127 /\ 5 = 125 % 8 /\ 0 < Len(t) /\ t[0 + 1] = 125 /\ 0 + 1 = 1
        BY <2>1
      <3> QED
        BY <2>1, <2>7, <2>8, <3>1, SkipTagAt
    <2>10. DepthAfter(0, 5) = 0
      BY DEF DepthAfter
    <2> QED
      BY <2>1, <2>9, <2>10, SkipOne
  <1>4. 5 \in 1..9 /\ 125 \in 120..127 /\ 125 # 124
    OBVIOUS
  <1>5. Skips(u)
    BY <1>2, <1>3, <1>4 DEF Skips
  <1> QED
    BY <1>1, <1>5

(* A length of one byte, and what it measures. *)
LEMMA SkipLength ==
    ASSUME NEW t, Fits(t), NEW q \in Nat, NEW n \in 0..127, q + 1 + n <= Len(t), t[q + 1] = n
    PROVE  SkipValue(t, 2, q).ok /\ SkipValue(t, 2, q).next = q + 1 + n
  <1>1. t \in Seq(Byte) /\ Len(t) \in Nat
    BY LenIsNat DEF Fits
  <1>2. PICK r : r = ReadVarint(t, q)
    OBVIOUS
  <1>3. r = Read(n, q + 1)
    <2>1. q < Len(t)
      BY <1>1
    <2> QED
      BY <1>1, <1>2, <2>1, ByteVarint
  <1>4. r.ok /\ r.value = n /\ r.next = q + 1
    BY <1>3 DEF Read
  <1>5. Signed(n, WordBits) = n
    <2>1. n \in Nat /\ n < TwoTo[WordBits - 1]
      BY WordsAreWide, WordFacts
    <2> QED
      BY <2>1, HalfWord
  <1>6. Advance(q + 1, n) = Read(n, (q + 1) + n)
    <2>1. q + 1 \in Nat /\ n \in Nat /\ (q + 1) + n <= Len(t)
      BY <1>1
    <2> QED
      BY <2>1, AdvanceWithin
  <1>7. SkipValue(t, 2, q) = IF r.ok THEN Advance(r.next, Signed(r.value, WordBits)) ELSE r
    BY <1>2 DEF SkipValue, Then
  <1>8. SkipValue(t, 2, q) = Read(n, (q + 1) + n)
    BY <1>4, <1>5, <1>6, <1>7
  <1> QED
    BY <1>8 DEF Read

(* A byte string is skipped with its length. *)
LEMMA SkipBytesEntry == Skips(<<122, 2, 10, 200>>)
  <1>1. PICK u : u = <<122, 2, 10, 200>>
    OBVIOUS
  <1>2. u \in Seq(Byte) /\ Len(u) = 4 /\ u[1] = 122 /\ u[2] = 2
    <2>1. 122 \in Byte /\ 2 \in Byte /\ 10 \in Byte /\ 200 \in Byte
      BY DEF Byte
    <2> QED
      BY <1>1, <2>1
  <1>3. ASSUME NEW t, Fits(t), At(t, 0, u) PROVE Skip(t) = Read(0, 4)
    <2>1. t \in Seq(Byte) /\ Len(t) \in Nat /\ 4 <= Len(t) /\ t[1] = 122 /\ t[2] = 2
      <3>0. Len(u) \in Nat
        BY <1>2
      <3>3. /\ t \in Seq(Byte) /\ Len(t) \in Nat /\ Len(u) <= Len(t)
            /\ \A i \in 1..Len(u) : t[i] = u[i]
        BY <1>3, <3>0, Beginning
      <3>1. t \in Seq(Byte) /\ Len(t) \in Nat /\ 4 <= Len(t) /\ \A i \in 1..4 : t[i] = u[i]
        BY <1>2, <3>3
      <3>2. 1 \in 1..4 /\ 2 \in 1..4
        OBVIOUS
      <3> QED
        BY <1>2, <3>1, <3>2
    <2>7. PICK r : r = SkipValue(t, 2, 1)
      OBVIOUS
    <2>8. r.ok /\ r.next = 4
      <3>1. 1 + 1 + 2 <= Len(t) /\ t[1 + 1] = 2 /\ 2 \in 0..127 /\ 1 \in Nat /\ 1 + 1 + 2 = 4
        BY <2>1
      <3> QED
        BY <1>3, <2>7, <3>1, SkipLength
    <2>9. SkipTag(t, 0, 0) = Read(DepthAfter(0, 2), 4)
      <3>1. 122 \in 0..127 /\ 2 = 122 % 8 /\ 0 < Len(t) /\ t[0 + 1] = 122 /\ 0 + 1 = 1
        BY <2>1
      <3> QED
        BY <2>1, <2>7, <2>8, <3>1, SkipTagAt
    <2>10. DepthAfter(0, 2) = 0
      BY DEF DepthAfter
    <2> QED
      BY <2>1, <2>9, <2>10, SkipOne
  <1>4. 4 \in 1..9 /\ 122 \in 120..127 /\ 122 # 124
    OBVIOUS
  <1>5. Skips(u)
    BY <1>2, <1>3, <1>4 DEF Skips
  <1> QED
    BY <1>1, <1>5

(* A group with a group inside: six tags. *)
LEMMA SkipGroupEntry == Skips(<<123, 8, 5, 19, 10, 1, 0, 20, 124>>)
  <1>1. PICK u : u = <<123, 8, 5, 19, 10, 1, 0, 20, 124>>
    OBVIOUS
  <1>2. u \in Seq(Byte) /\ Len(u) = 9
    <2>1. \A b \in 0..127 : b \in Byte
      BY DEF Byte
    <2> QED
      BY <1>1, <2>1
  <1>3. /\ u[1] = 123 /\ u[2] = 8 /\ u[3] = 5 /\ u[4] = 19 /\ u[5] = 10
        /\ u[6] = 1 /\ u[7] = 0 /\ u[8] = 20 /\ u[9] = 124
    BY <1>1
  <1>4. PICK f : f = [k \in 0..5 |-> IF k = 0 THEN Read(1, 1) ELSE IF k = 1 THEN Read(1, 3)
                                     ELSE IF k = 2 THEN Read(2, 4) ELSE IF k = 3 THEN Read(2, 7)
                                     ELSE IF k = 4 THEN Read(1, 8) ELSE Read(0, 9)]
    OBVIOUS
  <1>5. /\ f[0] = Read(1, 1) /\ f[1] = Read(1, 3) /\ f[2] = Read(2, 4)
        /\ f[3] = Read(2, 7) /\ f[4] = Read(1, 8) /\ f[5] = Read(0, 9)
    BY <1>4
  <1>6. /\ f[0].ok /\ f[0].value = 1 /\ f[0].next = 1 /\ f[1].ok /\ f[1].value = 1 /\ f[1].next = 3
        /\ f[2].ok /\ f[2].value = 2 /\ f[2].next = 4 /\ f[3].ok /\ f[3].value = 2 /\ f[3].next = 7
        /\ f[4].ok /\ f[4].value = 1 /\ f[4].next = 8 /\ f[5].ok /\ f[5].value = 0 /\ f[5].next = 9
    BY <1>5 DEF Read
  <1>7. ASSUME NEW t, Fits(t), At(t, 0, u) PROVE Skip(t) = Read(0, 9)
    <2>1. t \in Seq(Byte) /\ Len(t) \in Nat /\ 9 <= Len(t) /\ \A i \in 1..9 : t[i] = u[i]
      <3>0. Len(u) \in Nat
        BY <1>2
      <3>3. /\ t \in Seq(Byte) /\ Len(t) \in Nat /\ Len(u) <= Len(t)
            /\ \A i \in 1..Len(u) : t[i] = u[i]
        BY <1>7, <3>0, Beginning
      <3> QED
        BY <1>2, <3>3
    <2>2. /\ t[1] = 123 /\ t[2] = 8 /\ t[3] = 5 /\ t[4] = 19 /\ t[5] = 10
          /\ t[6] = 1 /\ t[7] = 0 /\ t[8] = 20 /\ t[9] = 124
      <3>1. \A i \in 1..9 : t[i] = u[i]
        BY <2>1
      <3>2. 1 \in 1..9 /\ 2 \in 1..9 /\ 3 \in 1..9 /\ 4 \in 1..9 /\ 5 \in 1..9
            /\ 6 \in 1..9 /\ 7 \in 1..9 /\ 8 \in 1..9 /\ 9 \in 1..9
        OBVIOUS
      <3> QED
        BY <1>3, <3>1, <3>2
    <2>3. SkipValue(t, 3, 1).ok /\ SkipValue(t, 3, 1).next = 1
      <3>1. SkipValue(t, 3, 1) = Read(0, 1)
        BY DEF SkipValue
      <3> QED
        BY <3>1 DEF Read
    <2>4. SkipTag(t, 0, 0) = f[0]
      <3>1. 0 \in Nat /\ 0 \in Nat /\ 123 \in 0..127 /\ 3 = 123 % 8 /\ 0 < Len(t) /\ t[0 + 1] = 123
            /\ 0 + 1 = 1 /\ (3 = 4 => 0 # 0)
        BY <2>1, <2>2
      <3>2. SkipValue(t, 3, 0 + 1).ok /\ SkipValue(t, 3, 0 + 1).next = 1
        BY <2>3, <3>1
      <3>3. SkipTag(t, 0, 0) = Read(DepthAfter(0, 3), 1)
        BY <2>1, <3>1, <3>2, SkipTagAt
      <3>4. DepthAfter(0, 3) = 1
        BY DEF DepthAfter
      <3> QED
        BY <1>5, <3>3, <3>4
    <2>5. SkipValue(t, 0, 2).ok /\ SkipValue(t, 0, 2).next = 3
      <3>1. 2 \in Nat /\ 2 < Len(t) /\ t[2 + 1] = 5 /\ 5 \in 0..127 /\ 2 + 1 = 3
        BY <2>1, <2>2
      <3>2. ReadVarint(t, 2) = Read(5, 2 + 1)
        BY <2>1, <3>1, ByteVarint
      <3>3. SkipValue(t, 0, 2) = Read(5, 3)
        BY <3>1, <3>2 DEF SkipValue
      <3> QED
        BY <3>3 DEF Read
    <2>6. SkipTag(t, 1, 1) = f[1]
      <3>1. 1 \in Nat /\ 1 \in Nat /\ 8 \in 0..127 /\ 0 = 8 % 8 /\ 1 < Len(t) /\ t[1 + 1] = 8
            /\ 1 + 1 = 2 /\ (0 = 4 => 1 # 0)
        BY <2>1, <2>2
      <3>2. SkipValue(t, 0, 1 + 1).ok /\ SkipValue(t, 0, 1 + 1).next = 3
        BY <2>5, <3>1
      <3>3. SkipTag(t, 1, 1) = Read(DepthAfter(1, 0), 3)
        BY <2>1, <3>1, <3>2, SkipTagAt
      <3>4. DepthAfter(1, 0) = 1
        BY DEF DepthAfter
      <3> QED
        BY <1>5, <3>3, <3>4
    <2>7. SkipValue(t, 3, 4).ok /\ SkipValue(t, 3, 4).next = 4
      <3>1. SkipValue(t, 3, 4) = Read(0, 4)
        BY DEF SkipValue
      <3> QED
        BY <3>1 DEF Read
    <2>8. SkipTag(t, 3, 1) = f[2]
      <3>1. 3 \in Nat /\ 1 \in Nat /\ 19 \in 0..127 /\ 3 = 19 % 8 /\ 3 < Len(t) /\ t[3 + 1] = 19
            /\ 3 + 1 = 4 /\ (3 = 4 => 1 # 0)
        BY <2>1, <2>2
      <3>2. SkipValue(t, 3, 3 + 1).ok /\ SkipValue(t, 3, 3 + 1).next = 4
        BY <2>7, <3>1
      <3>3. SkipTag(t, 3, 1) = Read(DepthAfter(1, 3), 4)
        BY <2>1, <3>1, <3>2, SkipTagAt
      <3>4. DepthAfter(1, 3) = 2
        BY DEF DepthAfter
      <3> QED
        BY <1>5, <3>3, <3>4
    <2>9. SkipValue(t, 2, 5).ok /\ SkipValue(t, 2, 5).next = 7
      <3>1. 5 \in Nat /\ 1 \in 0..127 /\ 5 + 1 + 1 <= Len(t) /\ t[5 + 1] = 1 /\ 5 + 1 + 1 = 7
        BY <2>1, <2>2
      <3> QED
        BY <1>7, <3>1, SkipLength
    <2>10. SkipTag(t, 4, 2) = f[3]
      <3>1. 4 \in Nat /\ 2 \in Nat /\ 10 \in 0..127 /\ 2 = 10 % 8 /\ 4 < Len(t) /\ t[4 + 1] = 10
            /\ 4 + 1 = 5 /\ (2 = 4 => 2 # 0)
        BY <2>1, <2>2
      <3>2. SkipValue(t, 2, 4 + 1).ok /\ SkipValue(t, 2, 4 + 1).next = 7
        BY <2>9, <3>1
      <3>3. SkipTag(t, 4, 2) = Read(DepthAfter(2, 2), 7)
        BY <2>1, <3>1, <3>2, SkipTagAt
      <3>4. DepthAfter(2, 2) = 2
        BY DEF DepthAfter
      <3> QED
        BY <1>5, <3>3, <3>4
    <2>11. SkipValue(t, 4, 8).ok /\ SkipValue(t, 4, 8).next = 8
      <3>1. SkipValue(t, 4, 8) = Read(0, 8)
        BY DEF SkipValue
      <3> QED
        BY <3>1 DEF Read
    <2>12. SkipTag(t, 7, 2) = f[4]
      <3>1. 7 \in Nat /\ 2 \in Nat /\ 20 \in 0..127 /\ 4 = 20 % 8 /\ 7 < Len(t) /\ t[7 + 1] = 20
            /\ 7 + 1 = 8 /\ (4 = 4 => 2 # 0)
        BY <2>1, <2>2
      <3>2. SkipValue(t, 4, 7 + 1).ok /\ SkipValue(t, 4, 7 + 1).next = 8
        BY <2>11, <3>1
      <3>3. SkipTag(t, 7, 2) = Read(DepthAfter(2, 4), 8)
        BY <2>1, <3>1, <3>2, SkipTagAt
      <3>4. DepthAfter(2, 4) = 1
        BY DEF DepthAfter
      <3> QED
        BY <1>5, <3>3, <3>4
    <2>13. SkipValue(t, 4, 9).ok /\ SkipValue(t, 4, 9).next = 9
      <3>1. SkipValue(t, 4, 9) = Read(0, 9)
        BY DEF SkipValue
      <3> QED
        BY <3>1 DEF Read
    <2>14. SkipTag(t, 8, 1) = f[5]
      <3>1. 8 \in Nat /\ 1 \in Nat /\ 124 \in 0..127 /\ 4 = 124 % 8 /\ 8 < Len(t) /\ t[8 + 1] = 124
            /\ 8 + 1 = 9 /\ (4 = 4 => 1 # 0)
        BY <2>1, <2>2
      <3>2. SkipValue(t, 4, 8 + 1).ok /\ SkipValue(t, 4, 8 + 1).next = 9
        BY <2>13, <3>1
      <3>3. SkipTag(t, 8, 1) = Read(DepthAfter(1, 4), 9)
        BY <2>1, <3>1, <3>2, SkipTagAt
      <3>4. DepthAfter(1, 4) = 0
        BY DEF DepthAfter
      <3> QED
        BY <1>5, <3>3, <3>4
    <2>15. SkipsTo(t, f, 5)
      <3>1. 5 \in 0..Len(t)
        BY <2>1
      <3>2. \A k \in 1..5 : SkipTag(t, f[k - 1].next, f[k - 1].value) = f[k]
        <4>1. TAKE k \in 1..5
        <4>2. CASE k = 1
          BY <1>6, <2>6, <4>2
        <4>3. CASE k = 2
          BY <1>6, <2>8, <4>3
        <4>4. CASE k = 3
          BY <1>6, <2>10, <4>4
        <4>5. CASE k = 4
          BY <1>6, <2>12, <4>5
        <4>6. CASE k = 5
          BY <1>6, <2>14, <4>6
        <4> QED
          BY <4>2, <4>3, <4>4, <4>5, <4>6
      <3>3. \A k \in 0..(5 - 1) : f[k].ok /\ f[k].value # 0
        <4>1. \A k \in 0..(5 - 1) : k = 0 \/ k = 1 \/ k = 2 \/ k = 3 \/ k = 4
          OBVIOUS
        <4> QED
          BY <1>6, <4>1
      <3> QED
        BY <1>6, <2>4, <3>1, <3>2, <3>3 DEF SkipsTo
    <2> QED
      BY <1>5, <2>1, <2>15, SkipFollows
  <1>8. 9 \in 1..9 /\ 123 \in 120..127 /\ 123 # 124
    OBVIOUS
  <1>9. Skips(u)
    BY <1>2, <1>3, <1>7, <1>8 DEF Skips
  <1> QED
    BY <1>1, <1>9

(* So every entry that a later version may add is. *)
LEMMA UnknownAreSkipped ==
    ASSUME NEW u \in UnknownEntries
    PROVE  Skips(u)
  BY SkipVarintEntry, SkipFixed64Entry, SkipBytesEntry, SkipFixed32Entry, SkipGroupEntry
  DEF UnknownEntries

(* The end of a string. *)
LEMMA TailFacts ==
    ASSUME NEW s, Fits(s), NEW p \in Nat, p <= Len(s), NEW t, t = SubSeq(s, p + 1, Len(s)),
           NEW u \in Seq(Byte), At(s, p, u)
    PROVE  Fits(t) /\ At(t, 0, u)
  <1>1. PICK l, n : l = Len(s) /\ n = Len(u)
    OBVIOUS
  <1>2. s \in Seq(Byte) /\ l \in Nat /\ n \in Nat /\ p <= l
    BY <1>1, LenIsNat DEF Fits
  <1>3. p + n <= l /\ \A i \in 1..n : s[p + i] = u[i]
    BY <1>1 DEF At
  <1>4. t \in Seq(Byte) /\ Len(t) = l - p
    BY <1>1, <1>2
  <1>5. \A i \in 1..(l - p) : t[i] = s[p + i]
    BY <1>1, <1>2
  <1>6. Fits(t)
    <2>1. Len(t) <= Len(s)
      BY <1>1, <1>2, <1>4
    <2> QED
      BY <1>4, <2>1, ShorterFits
  <1>7. \A i \in 1..n : t[0 + i] = u[i]
    <2> TAKE i \in 1..n
    <2>1. i \in 1..(l - p) /\ 0 + i = i
      BY <1>2, <1>3
    <2> QED
      BY <1>3, <1>5, <2>1
  <1>8. 0 + n <= Len(t)
    BY <1>2, <1>3, <1>4
  <1> QED
    BY <1>1, <1>6, <1>7, <1>8 DEF At

(* A reader takes it and keeps the message as it is. *)
LEMMA UnknownTakes ==
    ASSUME NEW table, Distinct(table), NEW u, Skips(u), NEW x
    PROVE  Takes(table, u, x, x)
  <1>1. u \in Seq(Byte) /\ Len(u) \in 1..9 /\ u[1] \in 120..127 /\ u[1] # 124
    BY DEF Skips
  <1>2. PICK v, type, n : v = u[1] /\ type = v % 8 /\ n = Len(u)
    OBVIOUS
  <1>3. v \in 0..127 /\ type \in 0..7 /\ type # 4 /\ v = 8 * 15 + type /\ n \in 1..9 /\ 1 \in 1..n
    <2>1. v \in 120..127 /\ v # 124 /\ n \in 1..9
      BY <1>1, <1>2
    <2>2. /\ \A w \in 120..127 : /\ w \in 0..127 /\ w % 8 \in 0..7 /\ w = 8 * 15 + (w % 8)
                                 /\ w # 124 => w % 8 # 4
          /\ \A k \in 1..9 : 1 \in 1..k
      OBVIOUS
    <2> QED
      BY <1>2, <2>1, <2>2
  <1>4. v % 8 = type /\ Signed(v \div 8, HalfBits) = 15
    <2>1. 15 \in 1..15
      OBVIOUS
    <2> QED
      BY <1>3, <2>1, TagFacts
  <1>5. ASSUME NEW s, NEW p, Fits(s), p \in Nat, At(s, p, u)
        PROVE  ReadField(table, s, p, x) = Read(x, p + n)
    <2>1. s \in Seq(Byte) /\ Len(s) \in Nat
      BY <1>5, LenIsNat DEF Fits
    <2>2. p + n <= Len(s) /\ \A i \in 1..n : s[p + i] = u[i]
      BY <1>2, <1>5 DEF At
    <2>3. p < Len(s) /\ p <= Len(s) /\ s[p + 1] = v
      <3>1. s[p + 1] = u[1]
        BY <1>3, <2>2
      <3>2. n >= 1 /\ n \in Nat
        BY <1>3
      <3>3. p < Len(s) /\ p <= Len(s)
        BY <1>5, <2>1, <2>2, <3>2
      <3> QED
        BY <1>2, <3>1, <3>3
    <2>4. ReadVarint(s, p) = Read(v, p + 1)
      BY <1>3, <1>5, <2>1, <2>3, ByteVarint
    <2>5. PICK t : t = SubSeq(s, p + 1, Len(s))
      OBVIOUS
    <2>6. Fits(t) /\ At(t, 0, u)
      BY <1>1, <1>5, <2>3, <2>5, TailFacts
    <2>7. Skip(t) = Read(0, n)
      BY <1>2, <2>6 DEF Skips
    <2>8. Advance(p, n) = Read(n, p + n)
      <3>1. n \in Nat
        BY <1>3
      <3> QED
        BY <1>5, <2>2, <3>1, AdvanceWithin
    <2>9. PICK skippy, behind : skippy = Skip(t) /\ behind = Advance(p, skippy.next)
      OBVIOUS
    <2>10. skippy.ok /\ skippy.next = n
      BY <2>7, <2>9 DEF Read
    <2>11. behind.ok /\ behind.next = p + n /\ ~ (behind.next > Len(s))
      <3>1. behind = Read(n, p + n)
        BY <2>8, <2>9, <2>10
      <3>2. behind.ok /\ behind.next = p + n
        BY <3>1 DEF Read
      <3>3. ~ (p + n > Len(s))
        BY <1>3, <1>5, <2>1, <2>2
      <3> QED
        BY <3>2, <3>3
    <2>12. SkipUnknown(s, p) = behind
      <3>1. SkipUnknown(s, p) = IF skippy.ok
                                THEN IF behind.ok
                                     THEN IF behind.next > Len(s) THEN Fail("eof") ELSE behind
                                     ELSE behind
                                ELSE skippy
        BY <2>5, <2>9 DEF SkipUnknown, Then
      <3> QED
        BY <2>10, <2>11, <3>1
    <2>13. PICK tag : tag = ReadVarint(s, p)
      OBVIOUS
    <2>14. tag.ok /\ tag.value = v
      BY <2>4, <2>13 DEF Read
    <2>15. PICK number, known :
              /\ number = Signed(tag.value \div 8, HalfBits)
              /\ known = {i \in DOMAIN table : table[i].num = number}
      OBVIOUS
    <2>16. number = 15
      BY <1>4, <2>14, <2>15
    <2>17. known = {}
      <3>1. \A i \in DOMAIN table : table[i].num \in 1..14
        BY DEF Distinct
      <3>2. 15 \notin 1..14
        OBVIOUS
      <3> QED
        BY <2>15, <2>16, <3>1, <3>2
    <2>18. tag.value % 8 # 4 /\ ~ (number <= 0)
      BY <1>3, <1>4, <2>14, <2>16
    <2>19. PICK unknown : unknown = SkipUnknown(s, p)
      OBVIOUS
    <2>20. ReadField(table, s, p, x) = IF unknown.ok THEN Read(x, unknown.next) ELSE unknown
      BY <2>13, <2>14, <2>15, <2>17, <2>18, <2>19 DEF ReadField, ReadFieldBy, Then
    <2>21. unknown.ok /\ unknown.next = p + n
      BY <2>11, <2>12, <2>19
    <2> QED
      BY <2>20, <2>21
  <1>6. Len(u) > 0
    BY <1>1
  <1> QED
    BY <1>1, <1>2, <1>5, <1>6 DEF Takes

(* The parts of a string that was joined. *)
LEMMA PartsOfJoin ==
    ASSUME NEW a \in Seq(Byte), NEW b \in Seq(Byte), NEW s, s = a \o b
    PROVE  SubSeq(s, 1, Len(a)) = a /\ SubSeq(s, Len(a) + 1, Len(s)) = b
  <1>1. PICK m, n : m = Len(a) /\ n = Len(b) /\ m \in Nat /\ n \in Nat
    BY LenIsNat
  <1>2. /\ s \in Seq(Byte) /\ Len(s) = m + n
        /\ \A i \in 1..m : s[i] = a[i]
        /\ \A i \in 1..n : s[m + i] = b[i]
    BY <1>1, JoinFacts
  <1>3. At(s, 0, a)
    <2>1. 0 + m <= Len(s) /\ \A i \in 1..m : s[0 + i] = a[i]
      BY <1>1, <1>2
    <2> QED
      BY <1>1, <2>1 DEF At
  <1>4. At(s, m, b)
    <2>1. m + n <= Len(s) /\ \A i \in 1..n : s[m + i] = b[i]
      BY <1>1, <1>2
    <2> QED
      BY <1>1, <2>1 DEF At
  <1>5. SubSeq(s, 0 + 1, 0 + Len(a)) = a
    BY <1>2, <1>3, AtSlice
  <1>6. SubSeq(s, m + 1, m + Len(b)) = b
    BY <1>1, <1>2, <1>4, AtSlice
  <1>7. 0 + 1 = 1 /\ 0 + Len(a) = Len(a) /\ m + Len(b) = Len(s)
    BY <1>1, <1>2
  <1> QED
    BY <1>1, <1>5, <1>6, <1>7

(* An entry that changes nothing, put between two others. *)
Spliced(whole, n, u) == SubSeq(whole, 1, n) \o u \o SubSeq(whole, n + 1, Len(whole))

(* An entry put between two others of a script makes a longer one. *)
LEMMA Extended ==
    ASSUME NEW table, NEW list, NEW x, NEW y, Script(table, list, x, y), Distinct(table),
           NEW whole, whole = FlattenSeq(list), NEW n \in Boundaries(list), NEW u, Skips(u),
           NEW s, s = Spliced(whole, n, u)
    PROVE  \E longer : /\ Script(table, longer, x, y) /\ s = FlattenSeq(longer)
                       /\ s \in Seq(Byte) /\ Len(s) = Len(whole) + Len(u)
  <1>1. list \in Seq(Seq(Byte)) /\ Len(list) \in Nat /\ whole \in Seq(Byte)
    BY LenIsNat, FlattenIsSeq DEF Script
  <1>2. PICK k \in 0..Len(list) : n = Len(FlattenSeq(SubSeq(list, 1, k)))
    BY DEF Boundaries
  <1>3. PICK a, b : a = SubSeq(list, 1, k) /\ b = SubSeq(list, k + 1, Len(list))
    OBVIOUS
  <1>4. PICK z : Script(table, a, x, z) /\ Script(table, b, z, y)
    BY <1>3, ScriptSplit
  <1>5. Takes(table, u, z, z)
    BY UnknownTakes
  <1>6. Script(table, <<u>>, z, z)
    BY <1>5, ScriptOne
  <1>7. Script(table, a \o <<u>>, x, z)
    BY <1>4, <1>6, ScriptJoin
  <1>8. Script(table, (a \o <<u>>) \o b, x, y)
    BY <1>4, <1>7, ScriptJoin
  <1>9. a \in Seq(Seq(Byte)) /\ b \in Seq(Seq(Byte)) /\ u \in Seq(Byte) /\ <<u>> \in Seq(Seq(Byte))
        /\ a \o <<u>> \in Seq(Seq(Byte))
    BY <1>4, <1>6, <1>7 DEF Script, Skips
  <1>10. PICK A, B : A = FlattenSeq(a) /\ B = FlattenSeq(b)
    OBVIOUS
  <1>11. A \in Seq(Byte) /\ B \in Seq(Byte)
    BY <1>9, <1>10, FlattenIsSeq
  <1>12. whole = A \o B
    <2>1. list = a \o b
      <3>1. PICK l : l = Len(list) /\ l \in Nat
        BY <1>1
      <3>2. 1 \in 1..(l + 1) /\ k \in 1 - 1 .. l /\ l \in k..l
        BY <1>2, <3>1
      <3>3. SubSeq(list, 1, k) \o SubSeq(list, k + 1, l) = SubSeq(list, 1, l)
        BY <1>1, <3>1, <3>2, ConcatAdjacentSubSeq
      <3>4. SubSeq(list, 1, l) = list
        BY <1>1, <3>1, SliceAll
      <3> QED
        BY <1>3, <3>1, <3>3, <3>4
    <2> QED
      BY <1>9, <1>10, <2>1, FlattenJoin
  <1>13. n = Len(A)
    BY <1>2, <1>3, <1>10
  <1>14. SubSeq(whole, 1, n) = A /\ SubSeq(whole, n + 1, Len(whole)) = B
    BY <1>11, <1>12, <1>13, PartsOfJoin
  <1>15. s = (A \o u) \o B
    BY <1>14 DEF Spliced
  <1>16. FlattenSeq(<<u>>) = u
    BY <1>9, FlattenOne
  <1>17. FlattenSeq(a \o <<u>>) = A \o u
    BY <1>9, <1>10, <1>16, FlattenJoin
  <1>18. FlattenSeq((a \o <<u>>) \o b) = (A \o u) \o B
    BY <1>9, <1>10, <1>17, FlattenJoin
  <1>19. Len(whole) = Len(A) + Len(B)
    BY <1>11, <1>12, JoinFacts
  <1>20. A \o u \in Seq(Byte) /\ Len(A \o u) = Len(A) + Len(u)
    BY <1>9, <1>11, JoinFacts
  <1>21. s \in Seq(Byte) /\ Len(s) = (Len(A) + Len(u)) + Len(B)
    BY <1>11, <1>15, <1>20, JoinFacts
  <1>22. PICK i, j, l : /\ i = Len(A) /\ j = Len(B) /\ l = Len(u)
                        /\ i \in Nat /\ j \in Nat /\ l \in Nat
    BY <1>9, <1>11, LenIsNat
  <1>23. Len(s) = Len(whole) + Len(u)
    BY <1>19, <1>21, <1>22
  <1> QED
    BY <1>8, <1>15, <1>18, <1>21, <1>23

(* What becomes of a message on its way, for its reader. *)
Delivered(k, m, e, s) ==
    LET table == TableOf(k)
        empty == EmptyMessage(table)
    IN  /\ e.how \in {"whole", "extended"}
              => \E list : OnTrack(table, list, empty, m, s, 0, empty, "reading")
        /\ e.how = "joined"
              => \E list : OnTrack(table, list, empty, Merged(table, m, e.other), s, 0, empty, "reading")
        /\ e.how = "cut"
              => OnCutTrack(table, EntriesOf(k, m), s, 0, empty, "reading") /\ Len(s) = e.length

(* Whatever becomes of a sample on its way, its reader is on a track. *)
LEMMA SentIsDelivered ==
    ASSUME NEW k \in Kinds, NEW m \in Samples(TableOf(k)), NEW delivery \in Edited(k, m)
    PROVE  Delivered(k, m, delivery.edit, delivery.bytes) /\ delivery.bytes \in Seq(Byte)
  <1>1. PICK table, empty, entries, whole, e, s :
          /\ table = TableOf(k) /\ empty = EmptyMessage(table) /\ entries = EntriesOf(k, m)
          /\ whole = FlattenSeq(entries) /\ e = delivery.edit /\ s = delivery.bytes
    OBVIOUS
  <1>2. /\ WellFormed(table) /\ m \in Messages(table) /\ entries = Entries(table, m)
        /\ Guarded(table, entries) /\ entries \in Seq(Seq(Byte))
        /\ whole \in Seq(Byte) /\ Len(whole) \in Nat /\ Fits(whole)
        /\ 2 * Len(whole) + 9 < TwoTo[WordBits - 1]
        /\ Marshal(entries, SizeOf(k, m)) = Read(whole, Len(whole))
    BY <1>1, SampleFacts
  <1>3. empty \in Messages(table)
    BY <1>1, <1>2, EmptyIsMessage
  <1>4. Script(table, entries, empty, m)
    <2>1. Script(table, entries, empty, Merged(table, empty, m))
      BY <1>2, <1>3, FullScript
    <2>2. Merged(table, empty, m) = m
      BY <1>1, <1>2, <1>3, MergedFacts
    <2> QED
      BY <2>1, <2>2
  <1>5. Marshal(EntriesOf(k, m), SizeOf(k, m)).value = whole
    <2>1. Marshal(entries, SizeOf(k, m)).value = whole
      BY <1>2 DEF Read
    <2> QED
      BY <1>1, <2>1
  <1>6. PICK w, a : w = TwoTo[WordBits - 1] /\ a = Len(whole) /\ w \in Nat /\ a \in Nat /\ 2 * a + 9 < w
    BY <1>2, WordFacts
  <1>7. CASE e = [how |-> "whole"] /\ s = whole
    <2>1. OnTrack(table, entries, empty, m, s, 0, empty, "reading")
      BY <1>1, <1>2, <1>4, <1>7, TrackStarts
    <2>2. e.how = "whole"
      BY <1>7
    <2>3. Delivered(k, m, e, s)
      BY <1>1, <2>1, <2>2 DEF Delivered
    <2> QED
      BY <1>1, <1>2, <1>7, <2>3
  <1>8. ASSUME NEW n \in 0..(a - 1), e = [how |-> "cut", length |-> n], s = SubSeq(whole, 1, n)
        PROVE  Delivered(k, m, e, s) /\ s \in Seq(Byte)
    <2>1. n \in 0..Len(whole)
      BY <1>6
    <2>2. s \in Seq(Byte) /\ Len(s) = n /\ OnCutTrack(table, entries, s, 0, empty, "reading")
      <3>1. whole = FlattenSeq(entries) /\ s = SubSeq(whole, 1, n)
        BY <1>1, <1>8
      <3>2. CutOf(table, entries, empty, m, n, s)
        BY <1>2, <1>4, <2>1, <3>1 DEF CutOf
      <3> QED
        BY <3>2, CutStarts
    <2>3. e.how = "cut" /\ e.length = n
      BY <1>8
    <2> QED
      BY <1>1, <2>2, <2>3 DEF Delivered
  <1>9. ASSUME NEW other \in Samples(TableOf(k)), e = [how |-> "joined", other |-> other],
               s = whole \o Marshal(EntriesOf(k, other), SizeOf(k, other)).value
        PROVE  Delivered(k, m, e, s) /\ s \in Seq(Byte)
    <2>1. PICK more, tail : more = EntriesOf(k, other) /\ tail = FlattenSeq(more)
      OBVIOUS
    <2>2. /\ other \in Messages(table) /\ more = Entries(table, other) /\ more \in Seq(Seq(Byte))
          /\ tail \in Seq(Byte) /\ Len(tail) \in Nat
          /\ 2 * Len(tail) + 9 < TwoTo[WordBits - 1]
          /\ Marshal(more, SizeOf(k, other)) = Read(tail, Len(tail))
      BY <1>1, <2>1, SampleFacts
    <2>3. s = whole \o tail
      <3>1. Marshal(more, SizeOf(k, other)).value = tail
        BY <2>2 DEF Read
      <3> QED
        BY <1>9, <2>1, <3>1
    <2>4. s \in Seq(Byte) /\ Len(s) = Len(whole) + Len(tail)
      BY <1>2, <2>2, <2>3, JoinFacts
    <2>5. PICK b : b = Len(tail) /\ b \in Nat /\ 2 * b + 9 < w
      BY <1>6, <2>2
    <2>6. Fits(s)
      <3>1. a + b < w
        BY <1>6, <2>5
      <3> QED
        BY <1>6, <2>4, <2>5, <3>1 DEF Fits
    <2>7. PICK both : both = Merged(table, m, other)
      OBVIOUS
    <2>8. Script(table, more, m, both)
      BY <1>2, <2>2, <2>7, FullScript
    <2>9. Script(table, entries \o more, empty, both)
      BY <1>4, <2>8, ScriptJoin
    <2>10. s = FlattenSeq(entries \o more)
      BY <1>1, <1>2, <2>1, <2>2, <2>3, FlattenJoin
    <2>11. OnTrack(table, entries \o more, empty, both, s, 0, empty, "reading")
      BY <2>6, <2>9, <2>10, TrackStarts
    <2>12. e.how = "joined" /\ e.other = other
      BY <1>9
    <2> QED
      BY <1>1, <2>4, <2>7, <2>11, <2>12 DEF Delivered
  <1>10. ASSUME NEW n \in Boundaries(entries), NEW u \in UnknownEntries, e = [how |-> "extended"],
                s = Spliced(whole, n, u)
         PROVE  Delivered(k, m, e, s) /\ s \in Seq(Byte)
    <2>1. Skips(u)
      BY UnknownAreSkipped
    <2>2. Distinct(table)
      BY <1>2, WellFormedIs
    <2>3. PICK longer : /\ Script(table, longer, empty, m) /\ s = FlattenSeq(longer)
                        /\ s \in Seq(Byte) /\ Len(s) = Len(whole) + Len(u)
      <3>1. /\ whole = FlattenSeq(entries) /\ n \in Boundaries(entries)
            /\ s = Spliced(whole, n, u)
        BY <1>1, <1>10
      <3> QED
        BY <1>4, <2>1, <2>2, <3>1, Extended
    <2>4. Fits(s)
      <3>1. PICK b : b = Len(u) /\ b \in 1..9
        BY <2>1 DEF Skips
      <3>3. \A i, j \in Nat : \A l \in 1..9 : 2 * i + 9 < j => i + l < j
        OBVIOUS
      <3>2. a + b < w
        BY <1>6, <3>1, <3>3
      <3> QED
        BY <1>6, <2>3, <3>1, <3>2 DEF Fits
    <2>5. OnTrack(table, longer, empty, m, s, 0, empty, "reading")
      BY <2>3, <2>4, TrackStarts
    <2>6. e.how = "extended"
      BY <1>10
    <2> QED
      BY <1>1, <2>3, <2>5, <2>6 DEF Delivered
  <1>11. \/ e = [how |-> "whole"] /\ s = whole
         \/ \E n \in 0..(a - 1) : e = [how |-> "cut", length |-> n] /\ s = SubSeq(whole, 1, n)
         \/ \E other \in Samples(TableOf(k)) :
               /\ e = [how |-> "joined", other |-> other]
               /\ s = whole \o Marshal(EntriesOf(k, other), SizeOf(k, other)).value
         \/ \E n \in Boundaries(entries), u \in UnknownEntries :
               /\ e = [how |-> "extended"]
               /\ s = Spliced(whole, n, u)
    <2>1. delivery \in Edited(k, m) /\ EntriesOf(k, m) = entries
          /\ Marshal(entries, SizeOf(k, m)).value = whole /\ Len(whole) = a
      BY <1>1, <1>5, <1>6
    <2>0. Edited(k, m) =
              {[edit |-> [how |-> "whole"], bytes |-> whole]}
              \cup {[edit |-> [how |-> "cut", length |-> n], bytes |-> SubSeq(whole, 1, n)] :
                       n \in 0..(a - 1)}
              \cup {[edit  |-> [how |-> "joined", other |-> other],
                     bytes |-> whole \o Marshal(EntriesOf(k, other), SizeOf(k, other)).value] :
                       other \in Samples(TableOf(k))}
              \cup {[edit  |-> [how |-> "extended"], bytes |-> Spliced(whole, n, entry)] :
                       n \in Boundaries(entries), entry \in UnknownEntries}
      BY <2>1 DEF Edited, Spliced
    <2>2. \/ delivery \in {[edit |-> [how |-> "whole"], bytes |-> whole]}
          \/ delivery \in {[edit |-> [how |-> "cut", length |-> n], bytes |-> SubSeq(whole, 1, n)] :
                               n \in 0..(a - 1)}
          \/ delivery \in {[edit  |-> [how |-> "joined", other |-> other],
                             bytes |-> whole \o Marshal(EntriesOf(k, other), SizeOf(k, other)).value] :
                               other \in Samples(TableOf(k))}
          \/ delivery \in {[edit  |-> [how |-> "extended"], bytes |-> Spliced(whole, n, entry)] :
                               n \in Boundaries(entries), entry \in UnknownEntries}
      BY <2>0, <2>1
    <2>3. CASE delivery \in {[edit |-> [how |-> "whole"], bytes |-> whole]}
      BY <1>1, <2>3
    <2>4. CASE delivery \in {[edit |-> [how |-> "cut", length |-> n], bytes |-> SubSeq(whole, 1, n)] :
                                n \in 0..(a - 1)}
      BY <1>1, <2>4
    <2>5. CASE delivery \in {[edit  |-> [how |-> "joined", other |-> other],
                              bytes |-> whole \o Marshal(EntriesOf(k, other), SizeOf(k, other)).value] :
                                other \in Samples(TableOf(k))}
      BY <1>1, <2>5
    <2>6. CASE delivery \in {[edit  |-> [how |-> "extended"], bytes |-> Spliced(whole, n, entry)] :
                               n \in Boundaries(entries), entry \in UnknownEntries}
      <3>1. PICK n \in Boundaries(entries), u \in UnknownEntries :
                delivery = [edit |-> [how |-> "extended"], bytes |-> Spliced(whole, n, u)]
        BY <2>6
      <3>2. e = [how |-> "extended"] /\ s = Spliced(whole, n, u)
        BY <1>1, <3>1
      <3> QED
        BY <3>2
    <2> QED
      BY <2>2, <2>3, <2>4, <2>5, <2>6
  <1>12. Delivered(k, m, e, s) /\ s \in Seq(Byte)
    <2>1. CASE e = [how |-> "whole"] /\ s = whole
      BY <1>1, <1>2, <1>7, <2>1
    <2>2. CASE \E n \in 0..(a - 1) : e = [how |-> "cut", length |-> n] /\ s = SubSeq(whole, 1, n)
      BY <1>8, <2>2
    <2>3. CASE \E other \in Samples(TableOf(k)) :
               /\ e = [how |-> "joined", other |-> other]
               /\ s = whole \o Marshal(EntriesOf(k, other), SizeOf(k, other)).value
      BY <1>9, <2>3
    <2>4. CASE \E n \in Boundaries(entries), u \in UnknownEntries :
               /\ e = [how |-> "extended"]
               /\ s = Spliced(whole, n, u)
      BY <1>10, <2>4
    <2> QED
      BY <1>11, <2>1, <2>2, <2>3, <2>4
  <1> QED
    BY <1>1, <1>12

-----------------------------------------------------------------------------
(***************************************************************************)
(* The reader and what was sent.                                           *)
(***************************************************************************)

(* What is to be read from a string that was not cut. *)
Goal == IF edit.how = "joined" THEN Merged(TableOf(kind), sent, edit.other) ELSE sent

(* The reader stands between two entries, or has refused the one at hand. *)
TrackInv ==
    /\ edit.how \in {"whole", "joined", "extended"}
          => \E list : OnTrack(TableOf(kind), list, EmptyMessage(TableOf(kind)), Goal,
                               bytes, at, got, status)
    /\ edit.how = "cut"
          => /\ OnCutTrack(TableOf(kind), EntriesOf(kind, sent), bytes, at, got, status)
             /\ Len(bytes) = edit.length

(* TrackInv holds when the bytes arrive. *)
LEMMA TrackInit == Init => TrackInv
  <1> SUFFICES ASSUME Init PROVE TrackInv
    OBVIOUS
  <1>1. at = 0 /\ got = EmptyMessage(TableOf(kind)) /\ status = "reading"
    BY DEF Init
  <1>2. CASE SentInit
    <2>1. kind \in Kinds /\ sent \in Samples(TableOf(kind))
      BY <1>2 DEF SentInit
    <2>2. PICK delivery \in Edited(kind, sent) : edit = delivery.edit /\ bytes = delivery.bytes
      BY <1>2 DEF SentInit
    <2>3. Delivered(kind, sent, edit, bytes)
      BY <2>1, <2>2, SentIsDelivered
    <2>4. CASE edit.how = "joined"
      <3>1. Goal = Merged(TableOf(kind), sent, edit.other)
        BY <2>4 DEF Goal
      <3> QED
        BY <1>1, <2>3, <2>4, <3>1 DEF Delivered, TrackInv
    <2>5. CASE edit.how # "joined"
      <3>1. Goal = sent
        BY <2>5 DEF Goal
      <3> QED
        BY <1>1, <2>3, <2>5, <3>1 DEF Delivered, TrackInv
    <2> QED
      BY <2>4, <2>5
  <1>3. CASE AnyInit
    <2>1. edit.how = "any"
      BY <1>3 DEF AnyInit
    <2> QED
      BY <2>1 DEF TrackInv
  <1> QED
    BY <1>2, <1>3 DEF Init

(* Every turn of the loop, and its end, keep it. *)
LEMMA TrackNext == TrackInv /\ [Next]_vars => TrackInv'
  <1> SUFFICES ASSUME TrackInv, [Next]_vars PROVE TrackInv'
    OBVIOUS
  <1>1. PICK table, empty, entries :
            table = TableOf(kind) /\ empty = EmptyMessage(table) /\ entries = EntriesOf(kind, sent)
    OBVIOUS
  <1>2. /\ UNCHANGED <<kind, sent, edit, bytes>>
        /\ TableOf(kind') = table /\ EntriesOf(kind', sent') = entries
    BY <1>1 DEF Next, ReadNext, Finish, vars
  <1>3. Goal' = Goal
    BY <1>2 DEF Goal
  <1>4. CASE ReadNext
    <2>1. PICK turn : turn = ReadField(table, bytes, at, got)
      OBVIOUS
    <2>2. /\ status = "reading" /\ at < Len(bytes)
          /\ IF turn.ok THEN at' = turn.next /\ got' = turn.value /\ status' = "reading"
             ELSE status' = turn.error /\ at' = at /\ got' = got
      BY <1>1, <1>4, <2>1 DEF ReadNext
    <2>3. ASSUME NEW list, OnTrack(table, list, empty, Goal, bytes, at, got, status)
          PROVE  OnTrack(table, list, empty, Goal, bytes, at', got', status')
      <3>1. turn.ok /\ OnTrack(table, list, empty, Goal, bytes, turn.next, turn.value, "reading")
        BY <2>1, <2>2, <2>3, TrackReads
      <3> QED
        BY <2>2, <3>1
    <2>4. ASSUME OnCutTrack(table, entries, bytes, at, got, status)
          PROVE  OnCutTrack(table, entries, bytes, at', got', status')
      <3>1. IF turn.ok THEN OnCutTrack(table, entries, bytes, turn.next, turn.value, "reading")
            ELSE OnCutTrack(table, entries, bytes, at, got, turn.error)
        BY <2>1, <2>2, <2>4, CutReads
      <3> QED
        BY <2>2, <3>1
    <2> QED
      BY <1>1, <1>2, <1>3, <2>3, <2>4 DEF TrackInv
  <1>5. CASE Finish
    <2>1. /\ status = "reading" /\ at >= Len(bytes) /\ at' = at /\ got' = got
          /\ at = Len(bytes) => status' = "done"
      <3>1. at = Len(bytes) => ~ (at > Len(bytes))
        OBVIOUS
      <3> QED
        BY <1>5, <3>1 DEF Finish
    <2>2. ASSUME NEW list, OnTrack(table, list, empty, Goal, bytes, at, got, status)
          PROVE  OnTrack(table, list, empty, Goal, bytes, at', got', status')
      <3>1. at = Len(bytes) /\ OnTrack(table, list, empty, Goal, bytes, at, got, "done")
        BY <2>1, <2>2, TrackEnds
      <3> QED
        BY <2>1, <3>1
    <2>3. ASSUME OnCutTrack(table, entries, bytes, at, got, status)
          PROVE  OnCutTrack(table, entries, bytes, at', got', status')
      <3>1. at = Len(bytes) /\ OnCutTrack(table, entries, bytes, at, got, "done")
        BY <2>1, <2>3, CutEnds
      <3> QED
        BY <2>1, <3>1
    <2> QED
      BY <1>1, <1>2, <1>3, <2>2, <2>3 DEF TrackInv
  <1>6. CASE UNCHANGED vars
    <2>1. at' = at /\ got' = got /\ status' = status
      BY <1>6 DEF vars
    <2> QED
      BY <1>1, <1>2, <1>3, <2>1 DEF TrackInv
  <1> QED
    BY <1>4, <1>5, <1>6 DEF Next

(* The reader of a whole string, of two or of one that was extended gets   *)
(* to its end, with the message that was meant.                            *)
LEMMA TrackShows ==
    ASSUME TrackInv, edit.how \in {"whole", "joined", "extended"}
    PROVE  status \in {"reading", "done"} /\ (status = "done" => got = Goal)
  <1>1. PICK list : OnTrack(TableOf(kind), list, EmptyMessage(TableOf(kind)), Goal,
                            bytes, at, got, status)
    BY DEF TrackInv
  <1> QED
    BY <1>1, TrackLeads

(* A message that arrives whole is read back as it was sent, whatever its  *)
(* type and whatever words are wide: Size, Marshal and Unmarshal agree,    *)
(* and the loop of Unmarshal refuses none of its fields.                   *)
THEOREM EveryMessageIsRestored == Spec => []WholeIsRestored
  <1>1. TrackInv => WholeIsRestored
    <2> SUFFICES ASSUME TrackInv, edit.how = "whole"
                 PROVE  status \in {"reading", "done"} /\ (status = "done" => got = sent)
      BY DEF WholeIsRestored
    <2>1. Goal = sent
      BY DEF Goal
    <2> QED
      BY <2>1, TrackShows
  <1> QED
    BY <1>1, TrackInit, TrackNext, PTL DEF Spec

(* A string that was cut is accepted only if the cut fell between two      *)
(* entries: no Unmarshal takes half a field for a whole one.               *)
THEOREM EveryCutIsNoticed == Spec => []CutIsNoticed
  <1>1. TrackInv => CutIsNoticed
    <2> SUFFICES ASSUME TrackInv, edit.how = "cut", status = "done"
                 PROVE  edit.length \in Boundaries(EntriesOf(kind, sent))
      BY DEF CutIsNoticed
    <2>1. /\ OnCutTrack(TableOf(kind), EntriesOf(kind, sent), bytes, at, got, "done")
          /\ Len(bytes) = edit.length
      BY DEF TrackInv
    <2> QED
      BY <2>1, CutFalls
  <1> QED
    BY <1>1, TrackInit, TrackNext, PTL DEF Spec

(* Two messages in one string are read as the one that protobuf defines:   *)
(* later values win, lists are joined and embedded messages merged, as     *)
(* Unmarshal does when it reads into a message that is there already.      *)
THEOREM EveryTwoAreMerged == Spec => []JoinedIsMerged
  <1>1. TrackInv => JoinedIsMerged
    <2> SUFFICES ASSUME TrackInv, edit.how = "joined"
                 PROVE  /\ status \in {"reading", "done"}
                        /\ status = "done" => got = Merged(TableOf(kind), sent, edit.other)
      BY DEF JoinedIsMerged
    <2>1. Goal = Merged(TableOf(kind), sent, edit.other)
      BY DEF Goal
    <2> QED
      BY <2>1, TrackShows
  <1> QED
    BY <1>1, TrackInit, TrackNext, PTL DEF Spec

(* A field of a later version is skipped, wherever it stands and whatever  *)
(* its wire type, groups in groups included: Unmarshal hands it to skip    *)
(* and steps over as many bytes as skip answers.                           *)
THEOREM EveryUnknownIsSkipped == Spec => []UnknownIsSkipped
  <1>1. TrackInv => UnknownIsSkipped
    <2> SUFFICES ASSUME TrackInv, edit.how = "extended"
                 PROVE  status \in {"reading", "done"} /\ (status = "done" => got = sent)
      BY DEF UnknownIsSkipped
    <2>1. Goal = sent
      BY DEF Goal
    <2> QED
      BY <2>1, TrackShows
  <1> QED
    BY <1>1, TrackInit, TrackNext, PTL DEF Spec

-----------------------------------------------------------------------------
(***************************************************************************)
(* Whatever the bytes are, what is read is a message of the table.         *)
(***************************************************************************)

(* The numbers read so far, and an offset. *)
Counting(r) == r.ok => r.next \in Nat /\ r.value \in Seq(Word)

(* Numbers read from any bytes are words. *)
LEMMA ReadPackedKeeps ==
    ASSUME NEW s \in Seq(Byte), NEW pos \in Nat, NEW post \in Nat, pos <= post,
           NEW list \in Seq(Word), NEW r, r = ReadPacked(s, pos, post, list)
    PROVE  r.ok => r.value \in Seq(Word)
  <1>1. PICK n : n = post - pos /\ n \in Nat
    OBVIOUS
  <1>2. PICK h : IsPacked(h, s, Read(list, pos), post, n) /\ r = h[n]
    BY <1>1, PackedIsLast
  <1> DEFINE G == {k \in Nat : Counting(h[k])}
  <1>3. 0 \in G
    <2>1. h[0] = Read(list, pos)
      BY <1>1, <1>2 DEF IsPacked
    <2>2. h[0].next = pos /\ h[0].value = list
      BY <2>1 DEF Read
    <2> QED
      BY <2>2 DEF Counting
  <1>4. ASSUME NEW k \in 1..n, k - 1 \in G PROVE k \in G
    <2>1. PICK before, now : before = h[k - 1] /\ now = h[k]
      OBVIOUS
    <2>2. now = PackedTurn(s, post, before) /\ Counting(before)
      BY <1>1, <1>2, <1>4, <2>1 DEF IsPacked
    <2>3. PICK v : v = ReadVarint(s, before.next)
      OBVIOUS
    <2>4. now = IF before.ok
                THEN IF before.next >= post THEN before
                     ELSE IF v.ok THEN Read(Append(before.value, v.value), v.next) ELSE v
                ELSE before
      BY <2>2, <2>3 DEF PackedTurn
    <2>5. Counting(now)
      <3>1. CASE before.ok /\ ~ (before.next >= post) /\ v.ok
        <4>1. before.next \in Nat /\ before.value \in Seq(Word)
          BY <2>2, <3>1 DEF Counting
        <4>2. v.next \in Nat /\ v.value \in Word
          BY <2>3, <3>1, <4>1, ReadVarintForward DEF Forward
        <4>3. now = Read(Append(before.value, v.value), v.next)
          BY <2>4, <3>1
        <4>4. now.next = v.next /\ now.value = Append(before.value, v.value)
          BY <4>3 DEF Read
        <4>5. Append(before.value, v.value) \in Seq(Word)
          BY <4>1, <4>2
        <4> QED
          BY <4>2, <4>4, <4>5 DEF Counting
      <3>2. CASE before.ok /\ ~ (before.next >= post) /\ ~ v.ok
        <4>1. now = v
          BY <2>4, <3>2
        <4> QED
          BY <3>2, <4>1 DEF Counting
      <3>3. CASE ~ before.ok \/ before.next >= post
        <4>1. now = before
          BY <2>4, <3>3
        <4> QED
          BY <2>2, <4>1
      <3> QED
        BY <3>1, <3>2, <3>3
    <2>6. k \in Nat
      BY <1>1
    <2> QED
      BY <2>1, <2>5, <2>6
  <1> HIDE DEF G
  <1>5. \A k \in 0..n : k \in G
    BY <1>1, <1>3, <1>4, BoundedInduction
  <1>6. Counting(h[n])
    <2>1. n \in G
      BY <1>1, <1>5
    <2> QED
      BY <2>1 DEF G
  <1> QED
    BY <1>2, <1>6 DEF Counting

(* Packed or one by one. *)
LEMMA ReadNumbersKeeps ==
    ASSUME NEW s \in Seq(Byte), NEW type, NEW pos \in Nat, NEW old \in Seq(Word),
           NEW r, r = ReadNumbers(s, type, pos, old)
    PROVE  r.ok => r.value \in Seq(Word)
  <1>1. CASE type = 0
    <2>1. PICK one : one = ReadVarint(s, pos)
      OBVIOUS
    <2>2. r = IF one.ok THEN Read(Append(old, one.value), one.next) ELSE one
      BY <1>1, <2>1 DEF ReadNumbers, Then
    <2>3. one.ok => one.value \in Word
      BY <2>1, ReadVarintForward
    <2>4. CASE one.ok
      <3>1. r.value = Append(old, one.value)
        BY <2>2, <2>4 DEF Read
      <3>2. Append(old, one.value) \in Seq(Word)
        BY <2>3, <2>4
      <3> QED
        BY <3>1, <3>2
    <2>5. CASE ~ one.ok
      BY <2>2, <2>5
    <2> QED
      BY <2>4, <2>5
  <1>2. CASE type = 2
    <2>1. PICK packed : packed = ReadLength(s, pos)
      OBVIOUS
    <2>2. PICK from, to : from = packed.next - Len(packed.value) /\ to = packed.next
      OBVIOUS
    <2>3. r = IF packed.ok THEN ReadPacked(s, from, to, old) ELSE packed
      BY <1>2, <2>1, <2>2 DEF ReadNumbers, Then
    <2>4. CASE packed.ok
      <3>1. /\ Forward(packed, pos, Len(s)) /\ packed.value \in Seq(Byte)
            /\ Len(packed.value) < packed.next - pos
        BY <2>1, <2>4, ReadLengthForward
      <3>2. PICK m : m = Len(packed.value) /\ m \in Nat
        BY <3>1, LenIsNat
      <3>3. to \in Nat
        BY <2>2, <2>4, <3>1 DEF Forward
      <3>4. from = to - m /\ m < to - pos
        BY <2>2, <3>1, <3>2
      <3>5. from \in Nat /\ from <= to
        BY <3>2, <3>3, <3>4
      <3>6. r = ReadPacked(s, from, to, old)
        BY <2>3, <2>4
      <3> QED
        BY <3>3, <3>5, <3>6, ReadPackedKeeps
    <2>5. CASE ~ packed.ok
      BY <2>3, <2>5
    <2> QED
      BY <2>4, <2>5
  <1>3. CASE type \notin {0, 2}
    <2>1. r = Fail("wiretype")
      BY <1>3 DEF ReadNumbers
    <2> QED
      BY <2>1 DEF Fail
  <1> QED
    BY <1>1, <1>2, <1>3

(* A word narrowed to a field's type is one of its values. *)
LEMMA NarrowKeeps ==
    ASSUME NEW v \in Word, NEW type \in {"uint64", "uint32", "bool"}
    PROVE  Narrow(v, type) \in PlainValues(type)
  <1>1. CASE type = "uint64"
    BY <1>1 DEF Narrow, PlainValues
  <1>2. CASE type = "uint32"
    <2>1. Narrow(v, type) = v % TwoTo[HalfBits] /\ PlainValues(type) = Half
      BY <1>2 DEF Narrow, PlainValues
    <2>2. PICK h : h = TwoTo[HalfBits] /\ h \in Nat /\ h > 0
      BY WordFacts
    <2>3. v \in Int
      BY WordFacts DEF Word
    <2>4. v % h \in 0..(h - 1)
      BY <2>2, <2>3
    <2> QED
      BY <2>1, <2>2, <2>4 DEF Half
  <1>3. CASE type = "bool"
    <2>1. Narrow(v, type) = (v # 0) /\ PlainValues(type) = BOOLEAN
      BY <1>3 DEF Narrow, PlainValues
    <2> QED
      BY <2>1
  <1> QED
    BY <1>1, <1>2, <1>3

(* A case of the switch that makes a value of its field out of one. *)
KeepsValue(field, s) ==
    \A old, type, pos : old \in Values(field) /\ pos \in Nat
        => LET r == ReadValue(field, old, s, type, pos) IN r.ok => r.value \in Values(field)

(* Whatever is read into a plain field is a value of it. *)
LEMMA PlainKeeps ==
    ASSUME NEW field, field.type \in PlainTypes, NEW s \in Seq(Byte)
    PROVE  KeepsValue(field, s)
  <1> SUFFICES ASSUME NEW old, NEW type, NEW pos, old \in Values(field), pos \in Nat,
                      NEW r, r = ReadValue(field, old, s, type, pos), r.ok
               PROVE  r.value \in Values(field)
    BY DEF KeepsValue
  <1>1. Values(field) = PlainValues(field.type)
    BY PlainFieldIs
  <1>2. r = ReadPlain(field, old, s, type, pos)
    BY DEF ReadValue, PlainTypes
  <1>3. CASE field.type = "packed"
    <2>1. r = ReadNumbers(s, type, pos, old)
      BY <1>2, <1>3 DEF ReadPlain
    <2>2. PlainValues(field.type) = Seq(Word)
      BY <1>3 DEF PlainValues
    <2> QED
      BY <1>1, <2>1, <2>2, ReadNumbersKeeps
  <1>4. CASE field.type \in {"uint64", "uint32", "bool"}
    <2>1. PICK number : number = ReadVarint(s, pos)
      OBVIOUS
    <2>2. r = IF type # 0 THEN Fail("wiretype")
              ELSE IF number.ok THEN Read(Narrow(number.value, field.type), number.next) ELSE number
      BY <1>2, <1>4, <2>1 DEF ReadPlain, Then
    <2>3. Fail("wiretype").ok = FALSE
      BY DEF Fail
    <2>4. number.ok /\ r = Read(Narrow(number.value, field.type), number.next)
      BY <2>2, <2>3
    <2>5. number.value \in Word
      BY <2>1, <2>4, ReadVarintForward
    <2>6. r.value = Narrow(number.value, field.type)
      BY <2>4 DEF Read
    <2> QED
      BY <1>1, <1>4, <2>5, <2>6, NarrowKeeps
  <1>5. CASE field.type \in {"bytes", "bytesList"}
    <2>1. PICK content : content = ReadLength(s, pos)
      OBVIOUS
    <2>2. r = IF type # 2 THEN Fail("wiretype")
              ELSE IF content.ok
                   THEN Read(IF field.type = "bytes" THEN content.value ELSE Append(old, content.value),
                             content.next)
                   ELSE content
      BY <1>2, <1>5, <2>1 DEF ReadPlain, Then
    <2>3. Fail("wiretype").ok = FALSE
      BY DEF Fail
    <2>4. content.ok
      BY <2>2, <2>3
    <2>5. content.value \in Seq(Byte)
      BY <2>1, <2>4, ReadLengthForward
    <2>6. CASE field.type = "bytes"
      <3>1. r = Read(content.value, content.next)
        BY <2>2, <2>3, <2>4, <2>6
      <3>2. r.value = content.value
        BY <3>1 DEF Read
      <3>3. PlainValues(field.type) = Seq(Byte)
        BY <2>6 DEF PlainValues
      <3> QED
        BY <1>1, <2>5, <3>2, <3>3
    <2>7. CASE field.type = "bytesList"
      <3>1. r = Read(Append(old, content.value), content.next)
        BY <2>2, <2>3, <2>4, <2>7
      <3>2. r.value = Append(old, content.value)
        BY <3>1 DEF Read
      <3>3. PlainValues(field.type) = Seq(Seq(Byte))
        BY <2>7 DEF PlainValues
      <3>4. Append(old, content.value) \in Seq(Seq(Byte))
        BY <1>1, <2>5, <3>3
      <3> QED
        BY <1>1, <3>2, <3>3, <3>4
    <2> QED
      BY <1>5, <2>6, <2>7
  <1> QED
    BY <1>3, <1>4, <1>5 DEF PlainTypes

(* A turn of the loop makes a message out of a message. *)
LEMMA FieldKeeps ==
    ASSUME NEW table, Distinct(table), NEW s \in Seq(Byte), NEW x \in Messages(table), NEW p \in Nat,
           \A i \in DOMAIN table : KeepsValue(table[i], s),
           NEW r, r = ReadField(table, s, p, x), r.ok
    PROVE  r.value \in Messages(table)
  <1>1. PICK tag, behind : tag = ReadVarint(s, p) /\ behind = SkipUnknown(s, p)
    OBVIOUS
  <1>2. PICK number, type, known :
            /\ number = Signed(tag.value \div 8, HalfBits) /\ type = tag.value % 8
            /\ known = {i \in DOMAIN table : table[i].num = number}
    OBVIOUS
  <1>3. PICK k : k = CHOOSE i \in known : TRUE
    OBVIOUS
  <1>4. PICK field, old, name : field = table[k] /\ name = field.name /\ old = x[name]
    OBVIOUS
  <1>5. PICK read : read = ReadValue(field, old, s, type, tag.next)
    OBVIOUS
  <1>6. PICK value : value = [x EXCEPT ![name] = read.value]
    OBVIOUS
  <1>7. r = ReadFieldBy(ReadValue, table, s, p, x)
    BY DEF ReadField
  <1>8. r = IF tag.ok
            THEN IF type = 4 THEN Fail("group")
                 ELSE IF number <= 0 THEN Fail("tag")
                 ELSE IF known = {} THEN IF behind.ok THEN Read(x, behind.next) ELSE behind
                 ELSE IF read.ok THEN Read(value, read.next) ELSE read
            ELSE tag
    BY <1>1, <1>2, <1>3, <1>4, <1>5, <1>6, <1>7 DEF ReadFieldBy, Then
  <1>9. Fail("group").ok = FALSE /\ Fail("tag").ok = FALSE
    BY DEF Fail
  <1>10. tag.ok
    BY <1>8
  <1>11. CASE known = {}
    <2>1. r = Read(x, behind.next)
      BY <1>8, <1>9, <1>11
    <2> QED
      BY <2>1 DEF Read
  <1>12. CASE known # {}
    <2>1. read.ok /\ r = Read(value, read.next)
      BY <1>8, <1>9, <1>12
    <2>2. k \in DOMAIN table
      BY <1>2, <1>3, <1>12
    <2>3. tag.next \in Nat
      BY <1>1, <1>10, ReadVarintForward DEF Forward
    <2>4. Fields(table, x)
      BY MessagesAre
    <2>5. old \in Values(table[k])
      BY <1>4, <2>2, <2>4 DEF Fields
    <2>6. read.value \in Values(table[k])
      BY <1>4, <1>5, <2>1, <2>2, <2>3, <2>5 DEF KeepsValue
    <2>7. PICK v : v = read.value /\ v \in Values(table[k])
      BY <2>6
    <2>8. name = table[k].name /\ name \in Names(table)
      BY <1>4, <2>2, FieldNamedIs
    <2>9. value = [j \in Names(table) |-> IF j = name THEN v ELSE x[j]]
      BY <1>6, <2>4, <2>7, <2>8 DEF Fields
    <2>10. \A i \in DOMAIN table : value[table[i].name] \in Values(table[i])
      <3> TAKE i \in DOMAIN table
      <3>1. table[i].name \in Names(table) /\ x[table[i].name] \in Values(table[i])
        BY <2>4, FieldNamedIs DEF Fields
      <3>2. CASE i = k
        BY <2>7, <2>8, <2>9, <3>1, <3>2
      <3>3. CASE i # k
        <4>1. table[i].name # name
          BY <2>2, <2>8, <3>3 DEF Distinct
        <4> QED
          BY <2>9, <3>1, <4>1
      <3> QED
        BY <3>2, <3>3
    <2>11. Fields(table, value)
      BY <2>9, <2>10 DEF Fields
    <2>12. value \in Messages(table)
      BY <2>11, MessagesAre
    <2> QED
      BY <2>1, <2>12 DEF Read
  <1> QED
    BY <1>11, <1>12

(* And so does the whole loop. *)
Holding(table, r, n) == r.ok => r.next \in Nat /\ n <= r.next /\ r.value \in Messages(table)

(* Turn by turn, what is read is a message. *)
LEMMA LoopKeeps ==
    ASSUME NEW table, Distinct(table), NEW s \in Seq(Byte), NEW x \in Messages(table),
           \A i \in DOMAIN table : KeepsValue(table[i], s),
           NEW h, IsLoop(h, table, s, x, Len(s)), NEW k \in 0..Len(s)
    PROVE  Holding(table, h[k], k)
  <1>1. PICK n : n = Len(s) /\ n \in Nat
    BY LenIsNat
  <1> DEFINE G == {j \in Nat : Holding(table, h[j], j)}
  <1>3. 0 \in G
    <2>1. h[0] = Read(x, 0)
      BY <1>1 DEF IsLoop
    <2>2. h[0].next = 0 /\ h[0].value = x
      BY <2>1 DEF Read
    <2> QED
      BY <2>2 DEF Holding
  <1>4. ASSUME NEW j \in 1..n, j - 1 \in G PROVE j \in G
    <2>1. PICK before, now : before = h[j - 1] /\ now = h[j]
      OBVIOUS
    <2>2. now = LoopTurn(table, s, before) /\ Holding(table, before, j - 1)
      BY <1>1, <1>4, <2>1 DEF IsLoop
    <2>3. CASE before.ok /\ ~ (before.next >= Len(s))
      <3>1. PICK p, y : p = before.next /\ y = before.value
        OBVIOUS
      <3>2. p \in Nat /\ y \in Messages(table) /\ p < Len(s)
        BY <1>1, <2>2, <2>3, <3>1 DEF Holding
      <3>3. now = ReadField(table, s, p, y)
        BY <2>2, <2>3, <3>1 DEF LoopTurn
      <3>4. now.ok => now.value \in Messages(table)
        BY <3>2, <3>3, FieldKeeps
      <3>5. Forward(now, p, Len(s))
        BY <3>2, <3>3, ReadFieldForward
      <3>6. PICK q : q = now.next
        OBVIOUS
      <3>7. now.ok => q \in Nat /\ p < q
        BY <3>5, <3>6 DEF Forward
      <3>8. j - 1 <= p
        BY <2>2, <2>3, <3>1 DEF Holding
      <3>9. now.ok => j <= q
        BY <1>1, <3>2, <3>7, <3>8
      <3>10. Holding(table, h[j], j)
        BY <2>1, <3>4, <3>6, <3>7, <3>9 DEF Holding
      <3> QED
        BY <1>1, <3>10
    <2>4. CASE ~ (before.ok /\ ~ (before.next >= Len(s)))
      <3>1. now = before
        BY <2>2, <2>4 DEF LoopTurn
      <3>2. PICK p : p = before.next
        OBVIOUS
      <3>3. before.ok => p \in Nat /\ p >= n
        BY <1>1, <2>2, <2>4, <3>2 DEF Holding
      <3>4. before.ok => j <= p
        BY <1>1, <3>3
      <3>5. Holding(table, h[j], j)
        BY <2>1, <2>2, <3>1, <3>2, <3>4 DEF Holding
      <3> QED
        BY <1>1, <3>5
    <2> QED
      BY <2>3, <2>4
  <1> HIDE DEF G
  <1>5. \A j \in 0..n : j \in G
    BY <1>1, <1>3, <1>4, BoundedInduction
  <1> QED
    BY <1>1, <1>5 DEF G

(* Whatever is read as an embedded message is one. *)
LEMMA UnmarshalPlainKeeps ==
    ASSUME NEW table, Distinct(table), PlainTable(table), NEW s \in Seq(Byte),
           NEW x \in PlainMessages(table), NEW r, r = UnmarshalPlain(table, s, x), r.ok
    PROVE  r.value \in PlainMessages(table)
  <1>1. \A i \in DOMAIN table : Values(table[i]) = PlainValues(table[i].type)
    BY PlainFieldIs DEF PlainTable
  <1>2. \A m : m \in PlainMessages(table) <=> m \in Messages(table)
    <2> TAKE m
    <2>1. PlainFields(table, m) <=> Fields(table, m)
      BY <1>1 DEF PlainFields, Fields
    <2> QED
      BY <2>1, PlainMessagesAre, MessagesAre
  <1>3. \A i \in DOMAIN table : KeepsValue(table[i], s)
    BY PlainKeeps DEF PlainTable
  <1>4. PICK h : /\ IsLoop(h, table, s, x, Len(s))
                 /\ r = h[CHOOSE n \in 0..Len(s) : h[n].ok => h[n].next >= Len(s)]
    BY UnmarshalPlainIs
  <1>5. \A k \in 0..Len(s) : Holding(table, h[k], k)
    BY <1>2, <1>3, <1>4, LoopKeeps
  <1>6. PICK n : n = Len(s) /\ n \in Nat /\ n \in 0..n
    BY LenIsNat
  <1>7. PICK k \in 0..n : r = h[k]
    <2>1. h[n].ok => h[n].next >= n
      BY <1>5, <1>6 DEF Holding
    <2>2. \E k \in 0..n : h[k].ok => h[k].next >= n
      BY <1>6, <2>1
    <2> QED
      BY <1>4, <1>6, <2>2
  <1>8. Holding(table, h[k], k)
    BY <1>5, <1>6, <1>7
  <1> QED
    BY <1>2, <1>7, <1>8 DEF Holding

(* An embedded entry makes a value of its field, too. *)
LEMMA InnerKeeps ==
    ASSUME NEW field, field.type \in EmbeddedTypes, PlainTable(field.table), Distinct(field.table),
           NEW s \in Seq(Byte)
    PROVE  KeepsValue(field, s)
  <1> SUFFICES ASSUME NEW old, NEW type, NEW pos, old \in Values(field), pos \in Nat,
                      NEW r, r = ReadValue(field, old, s, type, pos), r.ok
               PROVE  r.value \in Values(field)
    BY DEF KeepsValue
  <1>1. PICK table, S, content, empty :
            /\ table = field.table /\ S = PlainMessages(table) /\ content = ReadLength(s, pos)
            /\ empty = EmptyMessage(table)
    OBVIOUS
  <1>2. PICK taken : taken = Absorb(field, old, content.value)
    OBVIOUS
  <1>3. r = IF type # 2 THEN Fail("wiretype")
            ELSE IF content.ok
                 THEN IF taken.ok THEN Read(taken.value, content.next) ELSE taken
                 ELSE content
    BY <1>1, <1>2 DEF ReadValue, Then, EmbeddedTypes
  <1>4. Fail("wiretype").ok = FALSE
    BY DEF Fail
  <1>5. content.ok /\ taken.ok /\ r = Read(taken.value, content.next)
    BY <1>3, <1>4
  <1>6. r.value = taken.value
    BY <1>5 DEF Read
  <1>7. PICK c : c = content.value /\ c \in Seq(Byte)
    BY <1>1, <1>5, ReadLengthForward
  <1>8. empty \in S
    BY <1>1, PlainEmpty
  <1>9. CASE field.type = "pointer"
    <2>1. Values(field) = {v \in Seq(S) : Len(v) <= 1}
      BY <1>1, <1>9 DEF Values
    <2>2. PICK onto : onto = Pointed(table, old)
      OBVIOUS
    <2>3. onto \in S
      <3>1. CASE old = <<>>
        BY <1>1, <1>8, <2>2, <3>1 DEF Pointed
      <3>2. CASE old # <<>>
        <4>1. onto = old[1]
          BY <2>2, <3>2 DEF Pointed
        <4>2. old \in Seq(S)
          BY <2>1
        <4>3. 1 \in 1..Len(old)
          BY <3>2, <4>2
        <4> QED
          BY <4>1, <4>2, <4>3
      <3> QED
        BY <3>1, <3>2
    <2>4. PICK inner : inner = UnmarshalPlain(table, c, onto)
      OBVIOUS
    <2>5. taken = IF inner.ok THEN Read(<<inner.value>>, 0) ELSE inner
      BY <1>1, <1>2, <1>7, <1>9, <2>2, <2>4 DEF Absorb, Then
    <2>6. inner.ok /\ taken = Read(<<inner.value>>, 0)
      BY <1>5, <2>5
    <2>7. inner.value \in S
      BY <1>1, <1>7, <2>3, <2>4, <2>6, UnmarshalPlainKeeps
    <2>8. taken.value = <<inner.value>>
      BY <2>6 DEF Read
    <2>9. <<inner.value>> \in Seq(S) /\ Len(<<inner.value>>) <= 1
      BY <2>7
    <2> QED
      BY <1>6, <2>1, <2>8, <2>9
  <1>10. CASE field.type = "messageList"
    <2>1. Values(field) = Seq(S)
      BY <1>1, <1>10 DEF Values
    <2>2. PICK inner : inner = UnmarshalPlain(table, c, empty)
      OBVIOUS
    <2>3. taken = IF inner.ok THEN Read(Append(old, inner.value), 0) ELSE inner
      BY <1>1, <1>2, <1>7, <1>10, <2>2 DEF Absorb, Then
    <2>4. inner.ok /\ taken = Read(Append(old, inner.value), 0)
      BY <1>5, <2>3
    <2>5. inner.value \in S
      BY <1>1, <1>7, <1>8, <2>2, <2>4, UnmarshalPlainKeeps
    <2>6. taken.value = Append(old, inner.value)
      BY <2>4 DEF Read
    <2>7. Append(old, inner.value) \in Seq(S)
      BY <2>1, <2>5
    <2> QED
      BY <1>6, <2>1, <2>6, <2>7
  <1> QED
    BY <1>9, <1>10 DEF EmbeddedTypes

(* Whatever bytes a turn reads, what it makes of a message is a message. *)
LEMMA ReadFieldKeeps ==
    ASSUME NEW table, WellFormed(table), NEW s \in Seq(Byte), NEW x \in Messages(table), NEW p \in Nat,
           NEW r, r = ReadField(table, s, p, x), r.ok
    PROVE  r.value \in Messages(table)
  <1>1. Distinct(table) /\ \A i \in DOMAIN table : WellTyped(table[i])
    BY WellFormedIs
  <1>2. ASSUME NEW i \in DOMAIN table PROVE KeepsValue(table[i], s)
    <2>1. WellTyped(table[i])
      BY <1>1
    <2> QED
      BY <2>1, PlainKeeps, InnerKeeps DEF WellTyped
  <1> QED
    BY <1>1, <1>2, FieldKeeps

(* What was read is read again from what it is written as, if that can be  *)
(* held in a slice.                                                        *)
Stable(k, m) ==
    LET again == Marshal(EntriesOf(k, m), SizeOf(k, m))
    IN  again.ok /\ LET table == TableOf(k)
                    IN  Unmarshal(table, again.value, EmptyMessage(table)) = Read(m, Len(again.value))

(* Every message of every type the module registers, not the samples      *)
(* alone: Marshal fills a buffer of just the size that Size counts, and    *)
(* Unmarshal of those bytes is the message, if they can be held in a slice *)
(* at all.                                                                 *)
THEOREM MessagesAreStable ==
    ASSUME NEW k \in MessageTypes, NEW m \in Messages(TableOf(k)), Fits(FlattenSeq(EntriesOf(k, m)))
    PROVE  Stable(k, m)
  <1>1. PICK table, list, s : /\ table = TableOf(k) /\ list = EntriesOf(k, m)
                              /\ s = FlattenSeq(list)
    OBVIOUS
  <1>2. WellFormed(table) /\ Codes(table, m, list, SizeOf(k, m))
    BY <1>1, KindCodes DEF KindIs
  <1>3. list = Entries(table, m) /\ SizeOf(k, m) = Len(s) /\ Fits(s)
    BY <1>1, <1>2 DEF Codes
  <1>4. Guarded(table, list)
    BY <1>1, <1>2, <1>3, FullScript
  <1>5. Marshal(list, Len(s)) = Read(s, Len(s))
    BY <1>1, <1>4, MarshalFills DEF Guarded
  <1>6. Unmarshal(table, s, EmptyMessage(table)) = Read(m, Len(s))
    BY <1>1, <1>2, <1>3, RoundTrip
  <1>7. PICK again : again = Marshal(EntriesOf(k, m), SizeOf(k, m))
    OBVIOUS
  <1>8. again.ok /\ again.value = s
    <2>1. again = Marshal(list, Len(s))
      BY <1>1, <1>3, <1>7
    <2>2. again = Read(s, Len(s))
      BY <1>5, <2>1
    <2> QED
      BY <2>2 DEF Read
  <1>9. Unmarshal(TableOf(k), again.value, EmptyMessage(TableOf(k))) = Read(m, Len(again.value))
    BY <1>1, <1>6, <1>8
  <1> QED
    BY <1>7, <1>8, <1>9 DEF Stable

(* What arrives are bytes, whatever became of them on the way. *)
LEMMA ArrivedAreBytes == Init => bytes \in Seq(Byte)
  <1>1. ASSUME SentInit PROVE bytes \in Seq(Byte)
    BY <1>1, SentIsDelivered DEF SentInit
  <1>2. ASSUME AnyInit PROVE bytes \in Seq(Byte)
    <2>1. PICK n \in 0..MaxBytes : bytes \in [1..n -> Alphabet]
      BY <1>2 DEF AnyInit
    <2>2. Alphabet \subseteq Byte /\ MaxBytes \in Nat
      BY BytesAssumption DEF Byte
    <2>3. n \in Nat /\ bytes \in [1..n -> Byte]
      BY <2>1, <2>2
    <2> QED
      BY <2>3
  <1> QED
    BY <1>1, <1>2 DEF Init

-----------------------------------------------------------------------------
(***************************************************************************)
(* The loop.                                                               *)
(***************************************************************************)

(* The loop has taken a byte for each of its turns. *)
ReaderInv ==
    /\ bytes \in Seq(Byte)
    /\ at \in Nat /\ turns \in Nat
    /\ at <= Len(bytes)
    /\ status = "reading" => turns <= at

(* Every turn of the loop keeps that. *)
LEMMA ReaderInvInductive == ReaderInv /\ [Next]_vars => ReaderInv'
  <1> SUFFICES ASSUME ReaderInv, [Next]_vars PROVE ReaderInv'
    OBVIOUS
  <1>1. PICK length : length = Len(bytes) /\ length \in Nat
    BY DEF ReaderInv
  <1>2. CASE ReadNext
    <2>1. PICK turn : turn = ReadField(TableOf(kind), bytes, at, got)
      OBVIOUS
    <2>2. /\ status = "reading" /\ at < Len(bytes) /\ turns' = turns + 1 /\ bytes' = bytes
          /\ IF turn.ok THEN at' = turn.next /\ UNCHANGED status
             ELSE status' = turn.error /\ at' = at
      BY <1>2, <2>1 DEF ReadNext
    <2>3. at \in Nat /\ turns \in Nat /\ turns <= at /\ bytes \in Seq(Byte)
      BY <2>2 DEF ReaderInv
    <2>4. Forward(turn, at, Len(bytes))
      BY <2>1, <2>2, <2>3, ReadFieldForward
    <2>5. CASE turn.ok
      <3>1. PICK next : next = turn.next
        OBVIOUS
      <3>2. next \in Nat /\ at < next /\ next <= length
        BY <1>1, <2>4, <2>5, <3>1 DEF Forward
      <3>3. turns + 1 <= next /\ turns + 1 \in Nat
        BY <2>3, <3>2
      <3> QED
        BY <1>1, <2>2, <2>3, <2>5, <3>1, <3>2, <3>3 DEF ReaderInv
    <2>6. CASE ~ turn.ok
      <3>1. turns + 1 \in Nat
        BY <2>3
      <3>2. at' \in Nat /\ turns' \in Nat /\ bytes' \in Seq(Byte) /\ at' <= Len(bytes')
        BY <2>2, <2>3, <2>6, <3>1 DEF ReaderInv
      <3>3. status' # "reading"
        BY <2>2, <2>4, <2>6 DEF Forward, Errors
      <3> QED
        BY <3>2, <3>3 DEF ReaderInv
    <2> QED
      BY <2>5, <2>6
  <1>3. CASE Finish
    BY <1>3 DEF Finish, ReaderInv
  <1>4. CASE UNCHANGED vars
    BY <1>4 DEF vars, ReaderInv
  <1> QED
    BY <1>2, <1>3, <1>4 DEF Next

(* What was read so far is a message of the type expected. *)
MessageInv ==
    /\ ReaderInv
    /\ kind \in MessageTypes
    /\ got \in Messages(TableOf(kind))

(* MessageInv holds when the bytes arrive. *)
LEMMA MessageInit == Init => MessageInv
  <1> SUFFICES ASSUME Init PROVE MessageInv
    OBVIOUS
  <1>1. bytes \in Seq(Byte)
    BY ArrivedAreBytes
  <1>2. ReaderInv
    BY <1>1 DEF Init, ReaderInv
  <1>3. kind \in MessageTypes
    BY KindsAssumption DEF Init, SentInit, AnyInit
  <1>4. got \in Messages(TableOf(kind))
    <2>1. WellFormed(TableOf(kind))
      BY <1>3, KindCodes DEF KindIs
    <2>2. got = EmptyMessage(TableOf(kind))
      BY DEF Init
    <2> QED
      BY <2>1, <2>2, EmptyIsMessage
  <1> QED
    BY <1>2, <1>3, <1>4 DEF MessageInv

(* Every turn of the loop, and its end, keep it. *)
LEMMA MessageNext == MessageInv /\ [Next]_vars => MessageInv'
  <1> SUFFICES ASSUME MessageInv, [Next]_vars PROVE MessageInv'
    OBVIOUS
  <1>1. ReaderInv'
    BY ReaderInvInductive DEF MessageInv
  <1>2. kind' = kind
    BY DEF Next, ReadNext, Finish, vars
  <1>3. PICK table : table = TableOf(kind)
    OBVIOUS
  <1>4. WellFormed(table)
    BY <1>3, KindCodes DEF MessageInv, KindIs
  <1>5. got \in Messages(table) /\ bytes \in Seq(Byte) /\ at \in Nat
    BY <1>3 DEF MessageInv, ReaderInv
  <1>6. got' \in Messages(table)
    <2>1. CASE ReadNext
      <3>1. PICK turn : turn = ReadField(table, bytes, at, got)
        OBVIOUS
      <3>2. IF turn.ok THEN got' = turn.value ELSE got' = got
        BY <1>3, <2>1, <3>1 DEF ReadNext
      <3>3. turn.ok => turn.value \in Messages(table)
        BY <1>4, <1>5, <3>1, ReadFieldKeeps
      <3> QED
        BY <1>5, <3>2, <3>3
    <2>2. CASE got' = got
      BY <1>5, <2>2
    <2> QED
      BY <2>1, <2>2 DEF Next, Finish, vars
  <1>7. TableOf(kind') = table
    BY <1>2, <1>3
  <1> QED
    BY <1>1, <1>2, <1>6, <1>7 DEF MessageInv

(* The message read can be written into a slice: Go counts its bytes in an *)
(* int, and cannot hold a longer one.                                      *)
GotFits == Fits(FlattenSeq(EntriesOf(kind, got)))

(* Bytes may come in any order and any number, and lengths may be as large *)
(* or as negative as a word can be: every turn of the loop takes a byte or *)
(* ends it, and none leaves the string.                                    *)
THEOREM EveryTurnTakesBytes == Spec => []TurnsTakeBytes
  <1>1. MessageInv => TurnsTakeBytes
    BY DEF MessageInv, ReaderInv, TurnsTakeBytes
  <1> QED
    BY <1>1, MessageInit, MessageNext, PTL DEF Spec

(* Whatever Unmarshal accepted, from a sender or from arbitrary bytes, is  *)
(* marshalled again without a panic and read as the same message, as long  *)
(* as what it is written as can be held in a slice at all.                 *)
THEOREM EveryAcceptedIsStable == Spec /\ []GotFits => []AcceptedIsStable
  <1>1. MessageInv /\ GotFits => AcceptedIsStable
    <2> SUFFICES ASSUME MessageInv, GotFits PROVE AcceptedIsStable
      OBVIOUS
    <2>1. Stable(kind, got)
      BY MessagesAreStable DEF MessageInv, GotFits
    <2> QED
      BY <2>1 DEF Stable, AcceptedIsStable
  <1> QED
    BY <1>1, MessageInit, MessageNext, PTL DEF Spec
=============================================================================
