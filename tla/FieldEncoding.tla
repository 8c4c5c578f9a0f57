---------------------------- MODULE FieldEncoding -----------------------------
(***************************************************************************)
(* Field elements as they arrive on the wire.  A byte string is read as a  *)
(* number and reduced modulo p, so one element has several strings: `lap`  *)
(* counts the multiples of p above the element, `size` the bytes.          *)
(* The canonical form is the one with 32 bytes and no lap.                 *)
(***************************************************************************)
CONSTANT Forms   \* the pairs <<size, lap>> that messages use

CanonicalForm == <<32, 0>>

(* fr.Element.SetBytes *)
Element(b) == b.value

(* fr.Element.Bytes *)
FieldBytes(e) == [value |-> e, size |-> 32, lap |-> 0]

Encoded(e, form) == [value |-> e, size |-> form[1], lap |-> form[2]]

(* All the strings, of these forms, that stand for an element. *)
Encodings(e) == {Encoded(e, form) : form \in Forms}

(* A variant for the runs to refute: a key of the raw bytes. *)
CanonicalFieldBytesRaw(b) == b

(* CanonicalFieldBytes: the string's element, written out again. *)
CanonicalFieldBytes(b) == FieldBytes(Element(b))

(* The store keys that are made of a field element. *)
CommitmentUsedKey(b)    == CanonicalFieldBytes(b)
RegCommitmentUsedKey(b) == CanonicalFieldBytes(b)
NullifierKey(b)         == CanonicalFieldBytes(b)
RootIndexKey(b)         == CanonicalFieldBytes(b)

(* A variant for the runs to refute: only the length is checked. *)
ValidFieldBytesLength(b) == b.size = 32

(* validateFieldBytes *)
ValidFieldBytes(b) == b.size = 32 /\ b.lap = 0
=============================================================================
